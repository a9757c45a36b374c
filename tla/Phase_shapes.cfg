SPECIFICATION Spec
CONSTANTS
  N = 3
  Parallelism = 2
  Names <- MCNames
  Configs <- Shapes
INVARIANT IInv
