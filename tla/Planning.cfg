CONSTANTS
  Call = {"t1", "t2"}
  Event = {e1, e2}
  NoEvent = NoEvent
  MaxSteps = 2
  MaxCrashes = 1
SPECIFICATION PlanFairSpec
INVARIANT PlanInv
PROPERTIES
  TornKept
  PlanEnds
CHECK_DEADLOCK FALSE
