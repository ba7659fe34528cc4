CONSTANTS
  engine = engine
  v1 = v1
  IPs <- MCIPs
  Protos <- MCProtos
  Kinds <- Both
  Chans <- OneViewer
  Engine = engine
  MockGeo = TRUE
  PublicIPs <- MCPublic
  ChanCap = 1
  Window = 1
  MaxPkts = 3
SPECIFICATION LiveSpec
INVARIANTS ChannelOwned PanicNeedsDeparture StoredAsReceived RowsPerViewer
PROPERTY DepartedForgotten
CHECK_DEADLOCK FALSE
