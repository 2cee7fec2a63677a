CONSTANTS
  Players = {1, 2}
  WasmPlayers = {2}
  SeqSpace = 5
  RespawnDelay = 1
  InvulnTime = 1
  BulletLife = 1
  DropAfter = 1
  MaxDelay = 1
  Heard = {2}
  MaxTicks = 5
  MaxShots = 2
  MaxRocks = 1
  MaxRestarts = 1
  MaxOut = 2
  MaxInbox = 1
SPECIFICATION Spec
INVARIANTS
  TypeOK
  KillsLostOnlyToRestarts
  GhostsFade
PROPERTIES
  StateNeverOlder
CHECK_DEADLOCK FALSE
