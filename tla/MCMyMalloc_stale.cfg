CONSTANTS
  MAX_MALLOC_SIZE = 224
  BigBuffer = 256
  Slots = {s1, s2, s3}
  Requests = {5, 40}
  UserData = {}

SPECIFICATION FittingSpec

INVARIANTS
  FreeIsFree

SYMMETRY Symmetry
