SPECIFICATION FairSpec
CONSTANTS
  Instances = {a, b}
  Users = {u}
  Files = {f}
  Sockets = {1, 2}
  MaxDrops = 1
  MaxChanges = 2
  Scenarios <- Ordinary
  None = none
CHECK_DEADLOCK FALSE
INVARIANTS TypeOK KickedOut NoDeadMembers
PROPERTIES RemovedIsClosed EventuallySynced RevokedIsTold
