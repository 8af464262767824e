CONSTANTS
  g1 = g1
  g2 = g2
  g3 = g3
  ch = ch
  sema = sema
  mid = mid
  far = far
  Nil = Nil
  InitialGlobals <- NilOrChannel
  InitialFields <- FieldOfChannel
  MainStacks <- AnyStack
  OtherStacks <- AnyStack
  AllGs <- TwoGs
  Goroutine <- MCGoroutine
  Object <- ChannelAndSemaphore
  Channel <- ChannelOnly
  Modes = {2}
  PreemptibleWake = TRUE
  MaxMutations = 3
  MaxCycles = 1
SPECIFICATION MCSpec
CHECK_DEADLOCK FALSE
INVARIANT WokenNotReported
