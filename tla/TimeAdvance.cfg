SPECIFICATION FairSpec
CONSTANTS
  Federates <- MCFederates
  Late <- MCLate
  Regulating <- MCFederates
  Constrained <- MCFederates
  DataCycle <- MCDataCycle
  Lookahead <- MCLookahead
  LCTS = 2
  Source <- MCSource
  Refusable <- MCLate
  Lossy <- MCLate
  Span = 1
CHECK_DEADLOCK FALSE
INVARIANTS
  TimeInv
  InStep
  DataOfFrame
PROPERTIES
  EverybodyGetsThrough
