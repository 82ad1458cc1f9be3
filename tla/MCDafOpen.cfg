SPECIFICATION FairSpec
CONSTANTS
  Dafs = {A, B}  Total = 1  None = None  MaxOpens = 3
  StallLimit = 1  PollCap = 2
INVARIANTS DriverAlive
PROPERTIES PostsOverColdAnswer LatestSettles ViewDrivenEnds
CHECK_DEADLOCK FALSE
