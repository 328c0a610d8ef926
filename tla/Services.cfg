SPECIFICATION Spec
CONSTANTS
  None = none
  Ids = {i1, i2}
  Aliases = {a1, a2}
  Requests = {r1}
  MaxLogins = 2
  MaxGeneration = 2
  MaxCommands = 2
  Callers = {c1, c2}
  MaxVersion = 2
  MaxEpoch = 2
  MaxFlows = 3
  Sessions = {s1, s2}
  Completions = {c1, c2}
  MaxActive = 2
  MaxStarts = 1
  Ttl = 1
  Window = 1
  MaxTime = 2
  MaxTrials = 3
  Addresses = {i1, i2}
  Accounts = {a1, a2}
  MaxAttempts = 2
  MaxSlots = 2
  WindowMs = 2
  MaxClock = 3
  Users = {u1, u2}
  MaxSessions = 2
  Servers = {p1, p2}
  Passwords = {w1, w2}
  Visits = {l1, l2}
  MaxDigest = 3
INVARIANTS
  ConnectionsAreOwn
  SignInsHold
PROPERTIES
  LateIsNothing
CHECK_DEADLOCK FALSE
