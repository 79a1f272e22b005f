CONSTANTS
  MAX_MALLOC_SIZE = 16384
  BigBuffer = 256
  Slots = {0, 1, 2, 3, 4, 5, 6}
  Requests = {}
  UserData = {1}
  Programs = {"simpletest1", "simpletest2", "testmymalloc"}

SPECIFICATION TestSpec

PROPERTIES
  EveryTestEnds

\* The programs end.
CHECK_DEADLOCK FALSE
