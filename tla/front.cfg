SPECIFICATION Spec
CONSTANTS
  Disks <- MCDisks
  MainPaths <- MCMain
  MaxDepth = 4
  MaxAliases = 2
  MaxOpen = 6
  MaxErrors = 3
  MaxTypes = 2
  MaxDiagnostics = 6
  MaxVars = 6
  MaxFuncs = 4
  MaxCalls = 4
  MaxArgs = 3
  Failed = Failed
INVARIANTS
  StackIsChain
  
  CallsReachTheirFunctions
  ParsedAsWritten
  OneErrorAtATime
  NamesJudgedRight
  WrittenKeepsTheRules
  OneResolution
  CallsLinked
  OptimizerKeepsMeaning

  
