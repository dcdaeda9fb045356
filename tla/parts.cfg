SPECIFICATION PartSpec
CONSTANTS
  f1 = f1
  f2 = f2
  p1 = p1
  p2 = p2
  u1 = u1
  None = None
  Limit = 3
  Scenarios <- AllScenarios
  MaxRow = 4
  MaxVersion = 4
SYMMETRY Symmetry
CHECK_DEADLOCK FALSE
INVARIANTS TypesOK ReadIsWhole NeverEmpty RestoresWhatWasConfirmed  Routed
