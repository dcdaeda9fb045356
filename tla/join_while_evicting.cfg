SPECIFICATION Spec
CONSTANTS
  Edits = {e1, e2}
  Clients = {c1}
  Rooms = {r1}
  Ticks = {t1}
  HistoryLimit = 1
  Env = {"joinEvicting"}
  MaxRow = 2
  MaxVersion = 2
  NoRoom = none
INVARIANTS NoEditLost
