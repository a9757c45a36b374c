SPECIFICATION Spec
CONSTANTS
  N = 1
  Parallelism = 0
  Names <- MCNames
  Configs <- Unknown
INVARIANT UnknownDependencyFails
CHECK_DEADLOCK FALSE
