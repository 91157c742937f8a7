CONSTANTS
  Platforms <- AllPlatforms
  Message = {m1, m2, m3}
  Capacity = 2
  NoMessage = NoMessage
  Timeout = 1
  Margin = 2
  Lifetime = {2, 4}
  MaxTime = 4
  MaxChunks = 1
  NoToken = NoToken
SPECIFICATION TeamsSpec
INVARIANTS
  QueueInv
  TokenLive
PROPERTIES
  InboxPromise
  QueuedIsHandled
CHECK_DEADLOCK FALSE
