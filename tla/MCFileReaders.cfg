CONSTANTS
  MaxLen = 6
  MaxErrors = 2
  MaxSize = 9
  MaxWrites = 2
  INT_MAX = 3
  MAX_LINE_SIZE = 4
  CHAR_MAX = 3
  Arguments <- FewFiles

SPECIFICATION MCSpec

INVARIANTS
  TypeOK
  CountsMatch
  FetchTypeOK
  PageWasThere
  CopiesFiles

PROPERTIES
  FetchEndsHere

\* Each of the programs ends.
CHECK_DEADLOCK FALSE
