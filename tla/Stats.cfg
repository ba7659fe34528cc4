CONSTANTS
  c1 = c1
  c2 = c2
  IPs <- MCIPs
  Protos <- MCProtos
  Placed <- MCPlaced
  Kinds <- TwoKinds
  Chans <- TwoChans
  ChanCap = 1
  Window = 1
  MaxTopIPs = 1
  MaxTopConns = 1
  MaxPkts = 3
SPECIFICATION Spec
INVARIANTS SubscribersOpen OrderedDelivery NoGap CountersAgree RollingWindow GraphBalances DashboardAgrees
PROPERTIES AddReturns IsLossyBroadcast
CHECK_DEADLOCK FALSE
