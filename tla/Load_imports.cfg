SPECIFICATION LSpec
CONSTANTS
  MaxItems = 2
  Names <- MCNames
  Inits = {i1, i2}
  Given <- MCGiven
  Inputs <- MCInputs
  PhaseFiles <- MCPhaseFiles
  TaskFiles <- MCTaskFiles
  TextFiles <- MCTextFiles
INVARIANT NothingLeftToImport
