CONSTANTS
  dry = dry
  dep1 = dep1
  dep2 = dep2
  r1 = r1
  r2 = r2
  r3 = r3
  u1 = u1
  u2 = u2
  None = None
  DryRuns = {dry}
  Deploys = {dep1}
  Remotes = {r1, r2}
  Actors = {u1}
  MaxVersion = 2
  MaxCalls = 1
  AdminMistakes = FALSE
SPECIFICATION Spec
INVARIANTS
  TypeOK
  SubmittedAtMostOnce
  SuccessIsReal
  FailureIsSettled
PROPERTIES
  ImplementsEffects
