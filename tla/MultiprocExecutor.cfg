SPECIFICATION Spec
CONSTANTS
  WorldSize = 2
  OutputRank = 2
  MaxConcurrentBatches = 2
  MaxCalls = 3
CHECK_DEADLOCK FALSE
 
PROPERTY EngineLearnsOfDeath
