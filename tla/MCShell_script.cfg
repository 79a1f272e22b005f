CONSTANTS
  Inputs <- Script
  Block = 2
  Seekable = TRUE

SPECIFICATION Spec

INVARIANTS
  RunOnce

\* The program ends when the shell has.
CHECK_DEADLOCK FALSE
