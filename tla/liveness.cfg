SPECIFICATION FairSpec
CONSTANTS
  Edits = {e1, e2}
  Clients = {c1}
  Rooms = {r1}
  Ticks = {t1}
  HistoryLimit = 1
  Env = {"db", "s3", "loadFails"}
  MaxRow = 2
  MaxVersion = 2
  NoRoom = none
PROPERTIES EventuallySaved IdleRoomEvicted
