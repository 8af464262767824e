CONSTANTS
  Goroutine <- MCGoroutine
  SudogOf <- MCSudogOf
  Channel <- MCChannel
  SemaSeq <- MCSemaSeq
  AllgsArray <- MCAllgsArray
  MaskUnit <- MCMaskUnit
  Globals <- MCGlobals
  Modes = {0, 1, 2}
  MaxMutations = 1
  MaxCycles = 2
SPECIFICATION MCSpec
CHECK_DEADLOCK FALSE
INVARIANT Partitioned
INVARIANT AllgsAlive
INVARIANT LinkedSudogsAlive
INVARIANT TablesHideDoomed
