SPECIFICATION BSpec
CONSTANTS
  N = 1
  NPhases = 2
  Parallelism = 1
  Names <- MCNames
  Configs <- AloneConfigs
INVARIANT EmptyPhaseIsNoError
CHECK_DEADLOCK FALSE
