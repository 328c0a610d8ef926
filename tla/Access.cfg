SPECIFICATION Spec
CONSTANTS
  Users = {u1, u2}
  Requests = {r1, r2}
  Worker = worker
  Dry = dry
  Deploy = deployment
  None = none
  Accounts <- MCAccounts
  Changes <- MCChanges
  Owners = {none, u2}
  MaxRequests = 2
  MaxChanges = 1
  Ids = {i1, i2}
  GitAccounts = {a1, a2}
  Repository = repository
  Uses = {r1}
  MaxToken = 2
  MaxGitCalls = 3
  Calls = {c1, c2, c3}
  Addresses = {a1, a2}
  Startup = {a1}
  Processes = {c1, c2}
  MaxCommands = 3
  MaxFaults = 1
  Servers = {i1, i2}
  Ports = {1, 2}
  MaxCrashes = 1
  MaxStops = 1
INVARIANTS
  DoneWhileEntitled
  GitAccessIsCurrent
  HomeIsWhole
PROPERTIES
  NothingStaleIsDone
CHECK_DEADLOCK FALSE
