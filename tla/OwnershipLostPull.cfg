SPECIFICATION Spec
CONSTANTS
  Federates <- MCFederates
  Attributes <- MCAttributes
  Publishes <- MCBoth
  Configured <- MCConfigured
  Nobody = "nobody"
  Starts <- MCFrames
  Asked <- MCSingly
  Lossy <- MCNone
  MaxAsks = 2
CHECK_DEADLOCK FALSE
INVARIANTS
  NoLostPull
