CONSTANTS
  c1 = c1
  c2 = c2
  IPs <- MCIPs
  Protos <- MCProtos
  Placed <- MCPlaced
  Kinds <- FeedKinds
  Chans <- TwoChans
  ChanCap = 1
  Window = 1
  MaxTopIPs = 1
  MaxTopConns = 2
  MaxPkts = 2
SPECIFICATION Spec
INVARIANTS NeverPanics
CHECK_DEADLOCK FALSE
