SPECIFICATION FairSpec
CONSTANTS
  Instances = {a, b}
  Edits = {e1}
  Seed = seed
  Needs <- Independent
  CatchUps = 1
  Scenarios <- Retried
  Editors = {a}
  MaxRow = 3
  MaxOpen = 2
  MaxInbox = 1
  Nobody = nobody
CHECK_DEADLOCK FALSE
PROPERTIES EventuallyEverywhere
