SPECIFICATION Spec
CONSTANTS
  Instances = {a, b}
  Edits = {e1, e2}
  Seed = seed
  Needs <- Independent
  CatchUps = 1
  Scenarios <- Several
  Editors = {a, b}
  MaxRow = 2
  MaxOpen = 2
  MaxInbox = 1
  Nobody = nobody
SYMMETRY FullSymmetry
CHECK_DEADLOCK FALSE
INVARIANTS TypeOK StoredOrKept SnapshotIncludesItsRows OneWriter
PROPERTIES DroppedOnlyIfCovered
