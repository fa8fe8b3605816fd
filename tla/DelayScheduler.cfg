CONSTANTS
  t1 = t1
  t2 = t2
  t3 = t3
  nokey = nokey
  Ids <- MCIds
  NoKey = nokey
  CmdCap = 2
  FiredCap = 1
SPECIFICATION Spec
SYMMETRY MCSymmetry
INVARIANTS FiresAtMostOnce OwnKeyWhilePending
CHECK_DEADLOCK FALSE
