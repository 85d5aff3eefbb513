SPECIFICATION FairSpec
CONSTANTS
  k1 = k1
  k2 = k2
  d1 = d1
  d2 = d2
  Conns = {k1}
  Closers = {d1}
PROPERTY CloseReturns
CHECK_DEADLOCK FALSE
