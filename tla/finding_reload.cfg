CONSTANTS
  MaxLocals = 6
  MaxPatches = 16
  MaxLoops = 32
  Failed = Failed
  Programs <- LoopPrograms
  Alu <- Arith
  Holds <- Compare
  ArgValues <- MCArgs
  Junk = {7}
SPECIFICATION Spec
CHECK_DEADLOCK FALSE
INVARIANT SkippedReloadsMatch
