CONSTANTS
  r1 = r1
  f1 = f1
  Requests <- OneRequest
  Feeds <- OneFeed
  Chunk = 1
  MaxTime = 1
  MaxPkts = 1
  MaxCalls = 3
  WriteTimeout = 1
  Heartbeat = 1
  Grace = 1
  MaxStarts = 2
SPECIFICATION ServerSpec
INVARIANTS ServedOpen KeptWhole
PROPERTIES SignalEnds DownloadSound IsRecorder
CHECK_DEADLOCK FALSE
