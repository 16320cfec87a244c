SPECIFICATION FairSpec
CONSTANTS
  Federates = {"A", "B", "C"}
  Labels = {"first", "second"}
  FirstLabel = "first"
  Scripts <- MCScripts
CHECK_DEADLOCK FALSE
INVARIANTS
  SaveRestoreInv
  SavedTogether
  RestoredTogether
PROPERTIES
  EverybodyReturns
