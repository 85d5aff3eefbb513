SPECIFICATION Spec
CONSTANTS
  MaxCalls = 2
  MaxVals = 2
  Kinds = {"plain", "chan", "unknown"}
  Faults = {"cancel", "notify", "garbage", "drop", "close"}
INVARIANTS TypeOK AnnouncedFirst ValuesRouted AnsweredOnce HandlingTracksCalls LockHeldByOneWriter
CHECK_DEADLOCK FALSE
