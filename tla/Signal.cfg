CONSTANTS
  MaxConns = 3
  MaxMessages = 2
SPECIFICATION SignalFairSpec
INVARIANTS
  ConnectionInv
PROPERTY LoopLives
CHECK_DEADLOCK FALSE
