SPECIFICATION FairSpec
CONSTANTS
  Jobs = {a, b}
  Processes = {p, q}
  Home <- MCHome
  Maximum = 1
  LeaseTicks = 2
  BeatTicks = 1
CONSTRAINT StallsOnly
INVARIANTS
  TypeOK
  Exclusive
  RowsWithinCapacity
PROPERTIES
  LeaseServes
CHECK_DEADLOCK FALSE
