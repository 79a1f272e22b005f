CONSTANTS
  NO_THREADS_COUNT = 4
  Files <- AnyFile

SPECIFICATION FairSpec

INVARIANTS
  TypeOK
  RingOrder
  SingleTurn
  NoLostWakeup
  ExitReleasesAll

PROPERTIES
  OneRoundIsPrinted
  ShortFileTerminates

\* The program ends when main has closed the file.
CHECK_DEADLOCK FALSE
