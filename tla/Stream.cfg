CONSTANTS
  c1 = c1
  c2 = c2
  u1 = u1
  Conn <- TwoConnections
  User <- OneUser
  Asker <- SameAsker
  Asks <- Mixed
  Burst = 1
  MaxRequests <- TwoAndOne
  MaxRelayed = 1
  MaxRefills = 1
SPECIFICATION StreamFairSpec
INVARIANTS
  ServerInv
  AbortedNotStored
  TurnsWithinBudget
PROPERTY ClosedHandlerEnds
CHECK_DEADLOCK FALSE
