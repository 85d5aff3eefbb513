SPECIFICATION FairSpec
CONSTANTS
  c1 = c1
  c2 = c2
  Callers = {c1, c2}
  ChanCallers = {c2}
  MaxCalls = 2
  ReqCap = 1
  MaxFrames = 3
  OwnFrames = 1
  Faults = {"stop", "drop", "close", "frames", "calls"}
INVARIANT IndInv
PROPERTIES OnlyQueuedCallsHang CloserReturns
CHECK_DEADLOCK FALSE
