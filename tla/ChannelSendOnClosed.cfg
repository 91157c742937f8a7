CONSTANTS
  Platforms <- OwnGoroutines
  Message = {m1, m2}
  Capacity = 2
  NoMessage = NoMessage
SPECIFICATION Spec
INVARIANT NoSendOnClosed
CHECK_DEADLOCK FALSE
