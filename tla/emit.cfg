CONSTANTS
  MaxLocals = 6
  MaxPatches = 2
  MaxLoops = 2
  Failed = Failed
  Programs <- StraightReloads
  Alu <- Arith
  Holds <- Compare
  ArgValues <- MCArgs
  Junk = {7}
SPECIFICATION Spec
CHECK_DEADLOCK FALSE
INVARIANTS TypeOK RightAnswer CallerUndisturbed SkippedReloadsMatch TailCallsFlat
PROPERTY Terminates
