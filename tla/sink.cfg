SPECIFICATION FairSpec
CONSTANTS
  MaxVals = 4
  Faults = {"cancel", "close", "bad"}
INVARIANTS TypeOK OneForwarder NothingLostBefore CrashNeedsClose
PROPERTIES ImplementsChan AcceptedIsRead
CHECK_DEADLOCK FALSE
