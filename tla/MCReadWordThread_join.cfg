CONSTANTS
  NO_THREADS_COUNT = 2
  Files <- LongFile

SPECIFICATION FairSpec

PROPERTIES
  EveryThreadJoined

\* The program ends when main has closed the file.
CHECK_DEADLOCK FALSE
