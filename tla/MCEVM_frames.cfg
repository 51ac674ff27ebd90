CONSTANTS
  Addr <- MCAddr
  EOAs <- MCEOAs
  Precompiles <- MCPrecompiles
  CreateAddress <- MCCreateAddress
  Callees = {"c0", "pre"}
  Deployed = {"c0"}
  Watched = {"c0"}
  Heirs = {"owner"}
  Slots = {"s"}
  ArithOps = {"Add"}
  Values = {1}
  CallValues = {0, 1}
  Topics = {"t"}
  PCs = {7}
  CodeLens = {0, 1, 2}
  InitNonce = 20
  NoRecursion = FALSE
  MayCancel = TRUE
  CallCreateDepth = 2
  MaxUint64 = 127
  GasLimits = {84}
  OpCosts = {40}
  MemCosts = {0, 120}
  CallCosts = {0, 200}
  CallsGas = 20
  CallNewAccountGas = 2
  CallValueTransferGas = 6
  CallStipend = 5
  CreateGas = 30
  CreateDataGas = 10
  MaxCodeSize = 1
  MaxCalls = 1
  MaxNonce = 30
SPECIFICATION Spec
INVARIANTS TypeOK DepthInv ReadOnlyInv GasInv
PROPERTIES StateKept CallReturns
CHECK_DEADLOCK FALSE
