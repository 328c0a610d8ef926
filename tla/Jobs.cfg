SPECIFICATION MCSpec
CONSTANTS
  Ids = {j1, j2, j3, j4}
  Requests = {q1, q2, q3}
  Concurrency = 2
  MaximumQueued = 2
  first = c1
  imported = imported
  branch = branch
  Compared = {c1, c2}
  Sources = {imported, branch}
  SourcesOf <- MCSourcesOf
  Registered = {branch}
  CompareLanes = 1
  ComparePlaces = 2
  MaxFaults = 2
  MaxRestarts = 1
  MaxVersion = 2
  MaxOutput = 2
  nothing = nothing
INVARIANTS
  QueueSafety
  NoIdleLane
  ComparisonsAreSound
  RunsAreAccounted
PROPERTIES
  HistoryIsKept
  SendsWhatWasCompared
  EverythingEnds
CHECK_DEADLOCK FALSE
