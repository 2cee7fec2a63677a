SPECIFICATION LiveSpec
CONSTANTS
  QueueSize = 2
  MaxSends = 4
INVARIANTS TypeOK FatalIsLast
PROPERTIES KeepsContract EndsCompletely KickIsExplained
CHECK_DEADLOCK FALSE
