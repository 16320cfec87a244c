CONSTANTS
  N = 5
  Association <- MCAssociation
  Cycle <- MCCycle
  Scheduled <- MCScheduled
  Period = 6
SPECIFICATION Spec
INVARIANT SendIsExclusive
CHECK_DEADLOCK FALSE
