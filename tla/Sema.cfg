CONSTANTS
  p1 = p1
  p2 = p2
  p3 = p3
  a1 = a1
  a2 = a2
  Proc <- ThreeProcs
  Addr <- TwoAddrs
  Nobody = Nobody
  MaxReleases = 3
  MaxReports = 1
SPECIFICATION MCFairSpec
CHECK_DEADLOCK FALSE
INVARIANT NwaitExact
INVARIANT NoMissedWakeup
PROPERTY ImplementsSemaphore
PROPERTY PermitsFindWaiters
