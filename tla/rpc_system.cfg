SPECIFICATION SysFairSpec
CONSTANTS
  c1 = c1
  c2 = c2
  Callers = {c1, c2}
  ChanCallers = {c2}
  MaxCalls = 2
  ReqCap = 1
  MaxFrames = 6
  OwnFrames = 0
  MaxVals = 1
  MaxFaults = 1
  FaultCalls = 1
  Faults = {"cancel", "stop", "drop"}
PROPERTIES ImplementsRpc CallsReturnThroughServer ServerCallsEnd ServerContextsEnd
CHECK_DEADLOCK FALSE
