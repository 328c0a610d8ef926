SPECIFICATION FairSpec
CONSTANTS
  None = None
  Requests = {r1, r2, r3}
  Processes = {p, q}
  Users = {u}
  Keys = {"k1", "k2", "k3"}
  Loads <- MCLoads
  MaximumPerUser = 2
  MaximumTotal = 2
  MaximumQueued = 2
  LeaseTicks = 1
  MaxExits = 1
  Mortal = {p}
INVARIANTS
  RequestsAreOnce
  SlotsAreAccounted
PROPERTIES
  RequestEnds
CHECK_DEADLOCK FALSE
