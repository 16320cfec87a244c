SPECIFICATION AnySpec
CONSTANTS
  Federates <- MCFederates
  Master = "M"
  Step <- MCStep
  LCTS = 2
  Padding = 2
  MaxDelay = 1
  LastFrame = 6
  Cte = TRUE
  Scripts <- MCTwice
  Uses = 3
CHECK_DEADLOCK FALSE
PROPERTIES
  FreezeEnds
