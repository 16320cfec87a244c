SPECIFICATION FairSpec
CONSTANTS
  Federates <- MCAll
  Master = "M"
  Publisher = "E"
  Required <- MCEarly
  Designated <- MCNobody
  Lossy <- MCNobody
  Phases <- MCTwoPhases
CHECK_DEADLOCK FALSE
INVARIANTS
  StartupInv
  NoUpdateMissed
  LateJoinerLearnsMode
PROPERTIES
  UsesSyncPoints
  EverybodyRuns
