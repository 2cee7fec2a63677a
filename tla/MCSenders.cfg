CONSTANTS
  Chunks <- MCChunks
  HighWater = 0
  LowWater = 0
  IdSpace = 2
  MaxLinks = 2
SPECIFICATION Spec
INVARIANTS
  TypeOK
  NoSilentLoss
  NoMissedWakeup
PROPERTIES
  KeepsOrder
  HangsOnlyOnDeadLink
CHECK_DEADLOCK FALSE
