SPECIFICATION Spec
CONSTANTS
  c1 = c1  c2 = c2  c3 = c3  r1 = r1  r2 = r2  r3 = r3  k1 = k1  k2 = k2  k3 = k3
  Codes = {k1}
  Rooms = {r1}
  Apps = {"a"}
  Conns = {c1, c2, c3}
  MaxPlayersHard = 2
  CreateOptions <- Default
  EmptyTTL = 9
  MaxTTL = 9
  MaxRooms = 1
  MaxLag = 0
  MaxClock = 1
  MaxTokens = 4
  NoRoom = NoRoom  NoDesc = NoDesc  NoConn = NoConn  NoSession = NoSession
SYMMETRY Symmetric
INVARIANTS TypeOK AttachedBySession NoZombie ResumeRoutes RosterSound
