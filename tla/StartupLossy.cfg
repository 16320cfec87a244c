SPECIFICATION Spec
CONSTANTS
  Federates <- MCAll
  Master = "M"
  Publisher = "M"
  Required <- MCEarly
  Designated <- MCExtra
  Lossy <- MCJustEarly
  Phases <- MCOnePhase
CHECK_DEADLOCK FALSE
INVARIANTS
  InitCompletedIsLast
  RunsTogether
  AchieveNeverFails
