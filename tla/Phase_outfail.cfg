SPECIFICATION Spec
CONSTANTS
  N = 2
  Parallelism = 0
  Names <- MCNames
  Configs <- Isolated
INVARIANT OutputFailureFailsPhase
CHECK_DEADLOCK FALSE
