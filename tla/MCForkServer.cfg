CONSTANTS
  Clients = {c1, c2}
  Frail = {c1, c2}
  MaxMsgs = 3
  QUEUE_LIM = 1
  MaxProcs = 2
  AcceptErrors = TRUE

SPECIFICATION Spec

INVARIANTS
  TypeOK
  NoSocketLeak

PROPERTIES
  ContractSpec

\* Clients may never come.
CHECK_DEADLOCK FALSE
