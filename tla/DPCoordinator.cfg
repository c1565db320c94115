SPECIFICATION Spec
CONSTANTS
  NEngines = 2
  Fronts = {101}
  NRequests = 2
  NPasses = 2
  SyncInterval = 2
  MaxStats = 1
CHECK_DEADLOCK FALSE
INVARIANT WavesAgree
PROPERTY ComesToRest
