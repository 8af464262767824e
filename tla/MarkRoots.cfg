CONSTANTS
  w = w
  a = a
  t = t
  Goroutine <- MCGoroutine
  Workers <- MCWorkers
  Users <- MCUsers
  Tracers <- MCTracers
  Modes = {2}
  BaseStacks = 0
  None = None
  MaxStackRoots <- MCMaxStackRoots
SPECIFICATION StatusSpec
INVARIANT NextWithinJobs
INVARIANT ClaimedExactlyOnce
INVARIANT StackOwned
INVARIANT ReadyFindsWaiting
INVARIANT StoppedHasOwner
PROPERTY GivesUpOnlyWhenDrained
PROPERTY EveryJobClaimed
PROPERTY NobodyStranded
CHECK_DEADLOCK FALSE
