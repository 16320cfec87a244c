CONSTANTS
  f1 = f1
  f2 = f2
  p = p
  u = u
  Federates <- MCFederates
  Labels <- MCLabels
  Named <- MCNamed
  Registrar <- MCRegistrar
  MaxRounds = 2
SPECIFICATION FairSpec
INVARIANTS
  IndInv
  NoLostAnnouncement
  AnnouncedIsAwaited
  NoLostSynchronization
PROPERTIES
  ImplementsBarrier
  EverybodyGoesOn
CHECK_DEADLOCK FALSE
