CONSTANTS
  MAX_MALLOC_SIZE = 160
  BigBuffer = 256
  Slots = {s1, s2, s3}
  Requests = {5, 40}
  UserData = {368}

SPECIFICATION CarefulSpec

INVARIANTS
  TypeOK
  FreeIsFree
  Sorted
  InsideHeap

PROPERTIES
  DataUntouched
  ContractSpec
  CallsReturn
