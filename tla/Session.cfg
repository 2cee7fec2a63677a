CONSTANTS
  MaxGames = 3
  MaxAlive = 2
  Slots = {1, 2}
  MaxFaults = 1
SPECIFICATION Spec
INVARIANTS
  TypeOK
  BelievesRightly
  OneSeat
PROPERTIES
  GhostsDetached
CHECK_DEADLOCK FALSE
