SPECIFICATION FairSpec
CONSTANTS
  a = a
  b = b
  c = c
  r1 = r1
  r2 = r2
  r3 = r3
  Instances = {a, b, c}
  Edits = {e1, e2}
  Restores = {r1, r2, r3}
  At <- Apart
  Third = {r3}
  Cold = {a}
  Leader = b
  Base = base
  Scenarios <- Several
  None = none
CHECK_DEADLOCK FALSE
INVARIANTS TypeOK OneRestore StoredStaysRestored EditsReachRooms SameText
 
