CONSTANTS
  Threads = {main, w}
  Main = main
  Codes = {2}
  MaxFrames = 3
  MaxSerial = 4
  UserVals = {7}
  PinCounts = {1, 4}
  Forms = {"nested", "falloff", "bounds"}
SPECIFICATION Spec
CHECK_DEADLOCK FALSE
INVARIANT CatchOnce
PROPERTY NoWrongCatch
