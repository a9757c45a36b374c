SPECIFICATION Spec
CONSTANTS
  Chunks = 1
  Bytes = 2
  Prefix = 3
INVARIANT CombinedComplete
