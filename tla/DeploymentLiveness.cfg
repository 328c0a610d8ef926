CONSTANTS
  dry = dry
  dep1 = dep1
  dep2 = dep2
  r1 = r1
  r2 = r2
  r3 = r3
  u1 = u1
  u2 = u2
  None = None
  DryRuns = {}
  Deploys = {dep1, dep2}
  Remotes = {r1}
  Actors = {}
  MaxVersion = 1
  MaxCalls = 1
  AdminMistakes = FALSE
SPECIFICATION FairSpec
PROPERTIES
  WorkSettles
