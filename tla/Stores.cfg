SPECIFICATION MCSpec
CONSTANTS
  CacheKeys = {k1, k2, k3}
  CacheUsers = {u1, u2}
  Cached = {k3}
  Found = {2, 5}
  RepositoryLimit = 2
  TotalLimit = 4
  MaxDisk = 5
  MaxFaults = 1
  BranchKeys = {k1, k3}
  BranchCalls = {u1, u2, u3, u4}
  BranchOwner <- MCOwner
  PerOwner = 2
  Server = 3
  Failures = 1
  Runs = {executing, validated, cli}
  Untracked = {cli}
  Execution <- MCExecution
  Shared = manifests
  MaxBytes = 1
  nobody = nobody
  someone = u1
  second = u2
  third = u3
  fourth = u4
  foreign = k3
  executing = executing
  validated = validated
ACTION_CONSTRAINT
  StartInOrder
INVARIANTS
  HoldersAreReal
PROPERTIES
  NeedsAreKept
  WaitingEnds
CHECK_DEADLOCK FALSE
