CONSTANTS
  Threads = {main, w}
  Main = main
  Codes = {2}
  MaxFrames = 3
  MaxSerial = 4
  UserVals = {7}
  PinCounts = {1, 4}
  Forms = {}
SPECIFICATION Spec
CHECK_DEADLOCK FALSE
INVARIANTS TypeOK HandlerIsOpenTry NeverWild
PROPERTY LanguageRules
