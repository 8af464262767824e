CONSTANTS
  p1 = p1
  p2 = p2
  w1 = w1
  w2 = w2
  Procs <- MCProcs
  Workers <- TwoWorkers
  MaxWhite = 3
  MaxJobs = 1
  MaxBlocked = 1
  MaxDetours = 1
SPECIFICATION FairSpec
CHECK_DEADLOCK FALSE
INVARIANT TypeOK
INVARIANT NothingCachedAtEnd
INVARIANT EveryGoroutineSettled
PROPERTY MarkEnds
