CONSTANTS
  Workers = {w1, w2}
  Peers = {}
  Parent = parent
  HalfWord = 4
  WakeCount = 4
  Failures = {"error"}
SPECIFICATION FairSpec
CHECK_DEADLOCK FALSE
PROPERTY ErrorEndsProgram
