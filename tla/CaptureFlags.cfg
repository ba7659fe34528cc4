CONSTANTS
  q1 = q1
  q2 = q2
  good = good
  better = better
  bad = bad
  Frames <- AllFrames
  Exprs <- MCExprs
  Valid <- MCValid
  Requests <- TwoRequests
  MaxPkts = 1
  MaxCalls = 0
SPECIFICATION Spec
INVARIANTS FlaggedInspected
CHECK_DEADLOCK FALSE
