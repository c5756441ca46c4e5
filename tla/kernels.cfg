CONSTANTS
  MaxLength = 19
  Top = 42
  Bases = {0, 1, 4, 20}
  Old <- Leaf
  F <- Term
SPECIFICATION Spec
CHECK_DEADLOCK FALSE
INVARIANTS TypeOK InBounds MapResult OnlyDestination ReduceResult
