CONSTANTS
  r1 = r1
  f1 = f1
  Requests <- OneRequest
  Feeds <- OneFeed
  Chunk = 1
  MaxTime = 2
  MaxPkts = 1
  MaxCalls = 0
  WriteTimeout = 1
  Heartbeat = 2
  Grace = 1
  MaxStarts = 1
SPECIFICATION ServerSpec
PROPERTY HeartbeatKeepsAlive
CHECK_DEADLOCK FALSE
