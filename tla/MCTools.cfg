CONSTANTS
  Addr <- MCAddr
  Slots = {"price"}
  ArithOps = {"Add"}
  Creater = "creater"
  Contracts <- MCContracts
  Bare <- MCBare
  Size <- MCSize
  None = None
  Methods = {"buy", "sell", "sellPrice"}
  Const = {"sellPrice"}
  Getters = {"sellPrice"}
  Values = {1}
  PC = 7
  Topics = {}
  StorageMutateNum = 1
  MaxRuns = 2
  ReportLimit = 1
SPECIFICATION ToolsSpec
INVARIANTS FuzzerSound DetectorExact ReplayExact
PROPERTIES LocalKept ToolEnds
CHECK_DEADLOCK FALSE
