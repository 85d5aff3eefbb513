SPECIFICATION FairSpec
CONSTANTS
  MaxCalls = 2
  MaxVals = 1
  Kinds = {"chan"}
  Faults = {}
PROPERTY RegistrationCompletes
CHECK_DEADLOCK FALSE
