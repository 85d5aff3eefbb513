SPECIFICATION FairSpec
CONSTANTS
  c1 = c1
  c2 = c2
  Callers = {c1, c2}
  ChanCallers = {}
  MaxCalls = 2
  ReqCap = 1
  MaxFrames = 2
  OwnFrames = 0
  Faults = {"stop"}
PROPERTY CallsReturn
CHECK_DEADLOCK FALSE
