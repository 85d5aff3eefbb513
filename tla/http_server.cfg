SPECIFICATION HttpFairSpec
CONSTANTS
  k1 = k1
  k2 = k2
  d1 = d1
  d2 = d2
  Conns = {k1, k2}
  Closers = {d1, d2}
INVARIANTS TypeOK WgCounts MapFollowsNet IdleCutAfterClose ReusedWhenAnswered
PROPERTY ConnsDrain
CHECK_DEADLOCK FALSE
