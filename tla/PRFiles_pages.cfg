SPECIFICATION Spec
CONSTANTS
  MaxPerPage = 100
  DefaultPerPage = 30
  Sizes <- MCSizes
INVARIANTS
  TypeOK
  SmallPRComplete
  PrefixComplete
