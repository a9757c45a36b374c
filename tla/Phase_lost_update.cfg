SPECIFICATION FairSpec
CONSTANTS
  N = 1
  Parallelism = 0
  Names <- MCNames
  Configs <- Isolated
PROPERTY PhaseEnds
CHECK_DEADLOCK FALSE
