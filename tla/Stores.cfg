CONSTANTS
  w1 = w1
  w2 = w2
  Backends <- AllBackends
  Writer <- TwoWriters
  MaxHistory = 2
  Limit = {2}
  MaxStored = 4
  MaxWipes = 1
SPECIFICATION Spec
INVARIANTS
  HistoryInv
  AckedKept
PROPERTY KeepsPromise
CHECK_DEADLOCK FALSE
