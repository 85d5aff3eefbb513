SPECIFICATION SysFairSpec
CONSTANTS
  c1 = c1
  Callers = {c1}
  ChanCallers = {c1}
  MaxCalls = 1
  ReqCap = 1
  MaxFrames = 6
  OwnFrames = 0
  MaxVals = 1
  MaxFaults = 1
  FaultCalls = 1
  Faults = {"cancel"}
PROPERTY CancelEndsContext
CHECK_DEADLOCK FALSE
