SPECIFICATION MCSpec
CONSTANTS
  Absent = Absent
  Everything = Everything
  Unanswered = Unanswered
  Tabs = {t1, t2}
  Checkers = {t2}
  MaxKeys = 2
  MaxArriving = 2
  MaxPending = 2
  MaxEdits = 3
  MaxPuts = 3
  MaxReloads = 3
  Types = {t1, t2}
  MaxPreparations = 2
  People = {A, B}
  MaxSent = 2
  MaxLogins = 2
  Selections = {A, B}
  MaxSubmitted = 2
  MaxChanges = 2
  Nothing = Nothing
INVARIANTS
  VerdictsAreRight
  ExclusionHolds
  DeploymentIsAsSelected
  WorkIsKept
  ShownIsCurrent
CHECK_DEADLOCK FALSE
