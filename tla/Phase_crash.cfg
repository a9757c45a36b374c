SPECIFICATION Spec
CONSTANTS
  N = 2
  Parallelism = 0
  Names <- MCNames
  Configs <- Isolated
INVARIANT NoCrash
CHECK_DEADLOCK FALSE
