SPECIFICATION FairSpec
CONSTANTS
  Federates <- MCFederates
  Attributes <- MCAttributes
  Publishes <- MCBoth
  Configured <- MCConfigured
  Nobody = "nobody"
  Starts <- MCStarts
  Asked <- MCWhole
  Lossy <- MCLossy
  MaxAsks = 3
CHECK_DEADLOCK FALSE
INVARIANTS
  OwnershipInv
  SendsAsOwner
PROPERTIES
  PullsEnd
  EverybodyStarts
