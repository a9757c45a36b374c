SPECIFICATION Spec
CONSTANTS
  N = 3
  Parallelism = 0
  Names <- MCNames
  Configs <- InOrder
INVARIANT PhasesSequential
CHECK_DEADLOCK FALSE
