CONSTANTS
  Clients = {c1, c2, c3}
  Frail = {c1}
  MaxMsgs = 2
  QUEUE_LIM = 2
  Fds = {1, 2}
  MaxThreads = 3

SPECIFICATION Spec

INVARIANTS
  TypeOK
  OneThreadPerConnection

PROPERTIES
  ContractSpec

\* Clients may never come.
CHECK_DEADLOCK FALSE
