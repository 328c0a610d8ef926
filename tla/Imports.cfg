SPECIFICATION FairSpec
CONSTANTS
  Projects = {i1, i2}
  Concurrency = 1
  Attended = {i1}
  Scenarios <- MCScenarios
INVARIANTS
  SourcesAreTrue
  WorkIsAccounted
PROPERTIES
  ImportsEnd
CHECK_DEADLOCK FALSE
