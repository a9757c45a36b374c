SPECIFICATION Spec
CONSTANTS
  Chunks = 3
  Bytes = 2
  Prefix = 3
INVARIANTS
  TypeOK
  ShownIsKept
  StreamsComplete
  OneStreamCombined
