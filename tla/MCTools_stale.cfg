CONSTANTS
  Addr <- MCAddr
  Slots = {"price"}
  ArithOps = {"Add"}
  Creater = "creater"
  Contracts <- MCContracts
  Bare <- MCBare
  Size <- MCSize
  None = None
  Methods = {"buy", "sell", "sellPrice"}
  Const = {"sellPrice"}
  Getters = {"sellPrice"}
  Values = {1}
  PC = 7
  Topics = {"t"}
  StorageMutateNum = 2
  MaxRuns = 2
  ReportLimit = 1
SPECIFICATION ToolsSpec
INVARIANT ReportedCallOverflowed
CHECK_DEADLOCK FALSE
