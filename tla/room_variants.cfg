SPECIFICATION VariantSpec
CONSTANTS
  Edits = {e1, e2, e3}
  Overlapping = {e1, e2}
  Second = t2
  Clients = {c1}
  Rooms = {r1, r2}
  Ticks = {t1, t2}
  HistoryLimit = 2
  Env = {"someLost", "s3"}
  MaxRow = 3
  MaxVersion = 3
  NoRoom = none
SYMMETRY Symmetry
INVARIANTS FallbackShowsAll FallbackIsBounded NoDuplicateRows
