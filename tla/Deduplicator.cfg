CONSTANTS
  None = None
  NoId = None
  Message <- Distinct
  Size = 2
  TTL = 2
  MaxClock = 4
  MaxAccepted = 5
SPECIFICATION Spec
INVARIANTS
  IndexExact
  DropsOnlyRecent
  FreshKeyGuarded
CHECK_DEADLOCK FALSE
