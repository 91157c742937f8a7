CONSTANTS
  chat = chat
  signal = signal
  mcp = mcp
  job = job
  request = request
  socket = socket
  summary = summary
  Channel <- Channels
  Skippable <- MaySkip
  Server <- Servers
  Job <- Jobs
  Request <- Requests
  Socket <- Sockets
  Summary <- Summaries
  MaxTurns = 3
SPECIFICATION FairSpec
INVARIANTS
  ClosedUnderWaitedOnlyLate
  StopReleasesAll
PROPERTIES
  NoRunAfterSchedulerStop
  StopEnds
CHECK_DEADLOCK FALSE
