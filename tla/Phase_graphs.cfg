SPECIFICATION FairSpec
CONSTANTS
  N = 2
  Parallelism = 1
  Names <- MCNames
  Configs <- AllConfigs
INVARIANTS
  TypeOK
  ParallelismBound
  NoBlockedPush
  DependencyOrder
  NoLostWakeup
  VerdictSound
PROPERTIES
  StartedOnce
  ClosedWhenIdle
  ImplementsTaskGraph
  CancelEnds
  EndsOrStuck
  EveryTaskTried
