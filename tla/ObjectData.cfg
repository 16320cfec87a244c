SPECIFICATION FairSpec
CONSTANTS
  Federates <- MCFederates
  ObjectList <- MCObjectList
  Owner <- MCOwner
  Config <- MCConfig
  ExCO <- MCExCO
  Blocking <- MCBlocking
  Ratio <- MCRatio
  Exchange <- MCExchange
  Leader = "A"
  Lossy <- MCLossy
  MaxRequests <- MCRequests
  MaxInteractions <- MCInteractions
CHECK_DEADLOCK FALSE
INVARIANTS
  ReceivedInOrder
  HandledInOrder
  RequestsAnswered
  NoCyclicWait
PROPERTIES
  EverybodyFinishes
