SPECIFICATION Spec
CONSTANTS
  Edits = {e1, e2}
  Clients = {c1, c2}
  Rooms = {r1}
  Ticks = {t1}
  HistoryLimit = 2
  Env = {"crash", "db", "s3", "lostReply", "loadFails", "closeLoading"}
  MaxRow = 3
  MaxVersion = 3
  NoRoom = none
INVARIANTS TypeOK NoEditLost RetainedVersionsReconstruct SnapshotIncludesItsRows WarmRoomShowsAll ServedFromLoadedRoom
PROPERTIES ImplementsDurableDocument
