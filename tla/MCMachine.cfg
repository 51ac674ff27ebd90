CONSTANTS
  Codes <- MCCodes
  Dests <- MCDests
  NoHash = NoHash
  MaxCalls = 2
  StackLimit = 7
  poolLimit = 1
  MaxFrames = 2
  MaxUint64 = 127
  WordBytes = 2
  MemLimit = 62
  MemoryGas = 1
  QuadCoeffDiv = 16
  CopyGas = 1
  Sha3WordGas = 2
  LogDataGas = 3
  StepGas = 1
  Operands = {0, 5, 22, 62, 127, 200}
  GasLimits = {40, 127}
  Bits = 6
  ByteBits = 2
  Moduli = {0, 1, 5, 63}
SPECIFICATION Spec
INVARIANTS JumpsExact MachineSafe MemoryExact ArithmeticExact
CHECK_DEADLOCK FALSE
