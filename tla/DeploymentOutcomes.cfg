CONSTANTS
  dry = dry
  dep1 = dep1
  dep2 = dep2
  r1 = r1
  r2 = r2
  r3 = r3
  u1 = u1
  u2 = u2
  None = None
  DryRuns = {dry}
  Deploys = {dep1, dep2}
  Remotes = {r1, r2, r3}
  Actors = {u1, u2}
  MaxVersion = 4
  MaxCalls = 2
  AdminMistakes = FALSE
SPECIFICATION Spec
CONSTRAINT TwoInstances
SYMMETRY ActorSymmetry
INVARIANT ApprovedAtMostOnce
PROPERTY CompletedIsFinal
