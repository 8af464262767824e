CONSTANTS
  g1 = g1
  g2 = g2
  g3 = g3
  ch = ch
  sema = sema
  mid = mid
  far = far
  Nil = Nil
  InitialGlobals <- NilOnly
  InitialFields <- FieldToFar
  MainStacks <- MainShares
  OtherStacks <- OthersOwn
  AllGs <- TwoGs
  Goroutine <- MCGoroutine
  Object <- ThreeChannels
  Channel <- ThreeChannels
  Modes = {1}
  PreemptibleWake = FALSE
  MaxMutations = 3
  MaxCycles = 2
SPECIFICATION MCFairSpec
CHECK_DEADLOCK FALSE
INVARIANT AllDoomedReported
PROPERTY KeepsContract
PROPERTY CycleEnds
