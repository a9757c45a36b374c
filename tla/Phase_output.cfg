SPECIFICATION Spec
CONSTANTS
  N = 3
  Parallelism = 0
  Names <- MCNames
  Configs <- Join
INVARIANT DependentSeesOutput
CHECK_DEADLOCK FALSE
