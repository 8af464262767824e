CONSTANTS
  p1 = p1
  p2 = p2
  w1 = w1
  w2 = w2
  Procs <- MCProcs
  Workers <- TwoWorkers
  MaxWhite = 1
  MaxJobs = 1
  MaxBlocked = 1
  MaxDetours = 0
SPECIFICATION Spec
CHECK_DEADLOCK FALSE
SYMMETRY Symmetry
INVARIANT CallerPreemptible
