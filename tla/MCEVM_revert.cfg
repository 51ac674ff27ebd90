CONSTANTS
  Addr <- MCAddr
  EOAs <- MCEOAs
  Precompiles <- MCPrecompiles
  CreateAddress <- MCCreateAddress
  Callees = {"c0"}
  Deployed = {"c0"}
  Watched = {"c0"}
  Heirs = {"owner"}
  Slots = {"s"}
  ArithOps = {"Add"}
  Values = {1}
  CallValues = {0}
  Topics = {"t"}
  PCs = {7}
  CodeLens = {0, 1}
  InitNonce = 20
  NoRecursion = FALSE
  MayCancel = FALSE
  CallCreateDepth = 1
  MaxUint64 = 127
  GasLimits = {60}
  OpCosts = {20}
  MemCosts = {0}
  CallCosts = {200}
  CallsGas = 20
  CallNewAccountGas = 0
  CallValueTransferGas = 5
  CallStipend = 3
  CreateGas = 30
  CreateDataGas = 10
  MaxCodeSize = 1
  MaxCalls = 1
  MaxNonce = 30
SPECIFICATION Spec
PROPERTY ErrorReversesState
CHECK_DEADLOCK FALSE
