CONSTANTS
  Workers = {w1, w2, w3}
  Peers = {peer}
  Parent = parent
  HalfWord = 4
  WakeCount = 4
  Failures = {"clone", "error"}
SPECIFICATION FairSpec
CHECK_DEADLOCK FALSE
INVARIANTS TypeOK PassedMeansDone NoLostWakeup
PROPERTIES AllPass WorkersFinish
