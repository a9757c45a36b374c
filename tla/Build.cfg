SPECIFICATION BFairSpec
CONSTANTS
  N = 1
  NPhases = 2
  Parallelism = 1
  Names <- MCNames
  Configs <- AloneConfigs
INVARIANTS
  BTypeOK
  ExitCodeSound
PROPERTIES
  ImplementsPipeline
  CancelEndsBuild
  BuildEnds
