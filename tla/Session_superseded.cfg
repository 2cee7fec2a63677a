CONSTANTS
  MaxGames = 3
  MaxAlive = 2
  Slots = {1, 2}
  MaxFaults = 1
SPECIFICATION Spec
PROPERTIES
  SupersededSparesToken
CHECK_DEADLOCK FALSE
