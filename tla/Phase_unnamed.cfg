SPECIFICATION Spec
CONSTANTS
  N = 1
  Parallelism = 0
  Names <- MCNames
  Configs <- Unnamed
INVARIANT CommandFailureFailsPhase
CHECK_DEADLOCK FALSE
