SPECIFICATION Spec
CONSTANTS
  c1 = c1
  c2 = c2
  Callers = {c1, c2}
  ChanCallers = {c2}
  MaxCalls = 2
  ReqCap = 1
  MaxFrames = 2
  OwnFrames = 2
  Faults = {"cancel", "stop", "drop", "frames"}
INVARIANTS IndInv LoopNeverBlocks EachCallInOnePlace OnlyQueuedCallsAreLost SwallowedOnlyAtExit LockHeldByOneWriter
CHECK_DEADLOCK FALSE
