CONSTANTS
  Channel = {"slack", "discord"}
  Job = {"job"}
  Inbound <- ChatMessages
  JobMessage <- ChatJobs
  Preference = {"discord"}
  MaxChunks = 2
  MaxArrivals = 3
  RecentCap = 1
  None = None
SPECIFICATION FairSpec
INVARIANTS
  EventInv
  RepliesInOrder
  StatsAgree
  SnapshotCounts
PROPERTY EveryMessageHandled
CHECK_DEADLOCK FALSE
