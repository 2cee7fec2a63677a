SPECIFICATION LiveSpec
CONSTANTS
  Codes = {a, b}
  Rooms = {r1, r2, r3, r4}
  Readers = {t1, t2}
  Ticker = ticker
  MaxRooms = 1
  NoRoom = noroom
  Nobody = nobody
INVARIANTS EnterFindsLive
PROPERTIES OperationsAtomic CallsReturn
