SPECIFICATION FairSpec
CONSTANTS
  Instances = {a, b}
  Clients = {c, d}
  Server = server
  Leader = a
  MaxJoins = 2
  MaxQueue = 1
  Scenarios <- Several
  None = none
CHECK_DEADLOCK FALSE
INVARIANTS TypeOK NewTextIsShown
PROPERTIES EverybodyIsShown GhostsVanish
