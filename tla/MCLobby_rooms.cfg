SPECIFICATION LiveSpec
CONSTANTS
  c1 = c1  c2 = c2  c3 = c3  r1 = r1  r2 = r2  r3 = r3  k1 = k1  k2 = k2  k3 = k3
  Codes = {k1, k2}
  Rooms = {r1, r2}
  Apps = {"a"}
  Conns = {c1, c2}
  MaxPlayersHard = 2
  CreateOptions <- Default
  EmptyTTL = 1
  MaxTTL = 1
  MaxRooms = 1
  MaxLag = 0
  MaxClock = 1
  MaxTokens = 3
  NoRoom = NoRoom  NoDesc = NoDesc  NoConn = NoConn  NoSession = NoSession
INVARIANTS EmptySinceExact RoomMapSound
PROPERTIES ShutIsDetached
