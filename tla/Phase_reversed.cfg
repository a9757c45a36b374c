SPECIFICATION Spec
CONSTANTS
  N = 2
  Parallelism = 0
  Names <- MCNames
  Configs <- Reversed
INVARIANT DependentsRun
CHECK_DEADLOCK FALSE
