CONSTANTS
  Inputs <- ShortInputs
  Block = 2
  Seekable = FALSE

SPECIFICATION FairSpec

INVARIANTS
  TypeOK
  Foreground
  FailuresReported

PROPERTIES
  ContractSpec
  ShellEnds

\* The program ends when the shell has.
CHECK_DEADLOCK FALSE
