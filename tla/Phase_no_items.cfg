SPECIFICATION FairSpec
CONSTANTS
  N = 0
  Parallelism = 0
  Names <- MCNames
  Configs <- AllGraphs
PROPERTY PhaseEnds
CHECK_DEADLOCK FALSE
