CONSTANTS
  Providers = 2
  RetryAttempts <- TwoProviders
  Error <- SomeErrors
  Exchange = {1, 2}
  Request <- SomeRequests
  Burst = 1
  MaxStored = 2
  None = None
SPECIFICATION ServerSpec
INVARIANTS
  ChainInv
  RefusedUntouched
  MemoryMatchesStatus
PROPERTY RequestEnds
CHECK_DEADLOCK FALSE
