CONSTANTS
  Clients = {c1, c2}
  Frail = {c1, c2}
  MaxMsgs = 2
  QUEUE_LIM = 1
  MaxProcs = 1
  AcceptErrors = FALSE

SPECIFICATION Spec

INVARIANTS
  NoneDropped

\* Clients may never come.
CHECK_DEADLOCK FALSE
