CONSTANTS
  Threads = {main, w}
  Main = main
  Codes = {2}
  MaxFrames = 3
  MaxSerial = 5
  UserVals = {7}
  PinCounts = {1, 4}
  Forms = {"nested"}
SPECIFICATION Spec
CHECK_DEADLOCK FALSE
PROPERTY ErrorsFollowRules
