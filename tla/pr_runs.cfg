CONSTANTS
  Input = 2
  Limit = 1
  Chunk = 2
  Capacity = 1
  Work = 2
  Scenarios <- EndingOrTimed
  NoOperation = NoOperation
SPECIFICATION RunningSpec
CHECK_DEADLOCK FALSE

  
  
PROPERTIES
  Returns
