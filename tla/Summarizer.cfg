CONSTANTS
  User = {u1}
  Turn = {t1, t2}
  Threshold = 2
  TokenTrigger = FALSE
  StoreMax = 3
  Faults = TRUE
  MaxCrashes = 1
  NoUser = NoUser
SPECIFICATION FairSpec
INVARIANTS
  JobInv
  ForgottenOnlyWithReason
PROPERTY GuardReleased
CHECK_DEADLOCK FALSE
