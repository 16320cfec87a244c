CONSTANTS
  N = 5
  Association <- MCAssociation
  Cycle <- MCCycle
  Scheduled <- MCScheduled
  Period = 6
SPECIFICATION FairSpec
INVARIANTS
  IndInv
  ReceiveIsExclusive
  SendWaitsForChild
  DoneMeansSent
PROPERTIES
  ThreadsGoOn
CHECK_DEADLOCK FALSE
