CONSTANTS
  Chunks <- TwoChunks
  HighWater = 0
  LowWater = 0
  IdSpace = 2
  MaxLinks = 1
SPECIFICATION Spec
PROPERTIES
  SendResolves
CHECK_DEADLOCK FALSE
