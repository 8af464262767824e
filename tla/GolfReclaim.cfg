CONSTANTS
  g1 = g1
  g2 = g2
  g3 = g3
  ch = ch
  sema = sema
  mid = mid
  far = far
  Nil = Nil
  InitialGlobals <- ChannelOnly
  InitialFields <- FieldOfChannel
  MainStacks <- AnyStack
  OtherStacks <- AnyStack
  AllGs <- ThreeGs
  Goroutine <- MCGoroutine
  Object <- ChannelAndSemaphore
  Channel <- ChannelOnly
  Modes = {1, 2}
  PreemptibleWake = FALSE
  MaxMutations = 2
  MaxCycles = 1
SPECIFICATION MCSpec
CHECK_DEADLOCK FALSE
INVARIANT TypeOK
INVARIANT WokenNotReported
INVARIANT StaleWaitersHidden
INVARIANT NoDangling
INVARIANT NothingMissed
