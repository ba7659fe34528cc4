CONSTANTS
  q1 = q1
  q2 = q2
  good = good
  better = better
  bad = bad
  Frames <- AllFrames
  Exprs <- MCExprs
  Valid <- MCValid
  Requests <- TwoRequests
  MaxPkts = 2
  MaxCalls = 2
SPECIFICATION Spec
SYMMETRY AnyRequest
INVARIANTS FilterTold HostRead NameNear CardRead
CHECK_DEADLOCK FALSE
