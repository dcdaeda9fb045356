SPECIFICATION Spec
CONSTANTS
  Instances = {a, b}
  Edits = {e1}
  Seed = seed
  Needs <- Independent
  CatchUps = 1
  Scenarios <- Lossy
  Editors = {a, b}
  MaxRow = 2
  MaxOpen = 2
  MaxInbox = 1
  Nobody = nobody
CHECK_DEADLOCK FALSE
INVARIANTS SnapshotStandsForItsRows
