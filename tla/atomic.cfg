CONSTANTS
  a = a
  b = b
  c = c
  NaN = NaN
  PosInf = PosInf
  NegInf = NegInf
  MaxFinite = 3
  Threads = {a, b, c}
  F64 <- AllF64
  NaNs = {NaN}
  Plus <- IeeePlus
  Deltas <- MixedDeltas
  InitVals = {0, NaN}
  Stores = {NaN, 2}
SPECIFICATION FairSpec
CHECK_DEADLOCK FALSE
INVARIANT TypeOK
PROPERTIES Linearizes NaNRepaired AllReturn
