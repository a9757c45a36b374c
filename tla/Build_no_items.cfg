SPECIFICATION BFairSpec
CONSTANTS
  N = 1
  NPhases = 1
  Parallelism = 1
  Names <- MCNames
  Configs <- AloneConfigs
PROPERTY SignalEndsBuild
