SPECIFICATION BSpec
CONSTANTS
  N = 2
  NPhases = 2
  Parallelism = 1
  Names <- MCNames
  Configs <- AgainstConfigs
INVARIANT BuildParallelism
CHECK_DEADLOCK FALSE
