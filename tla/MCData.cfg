CONSTANTS
  MaxReads = 4
  MaxInput = 3
  Procs = {p1, p2}
  MaxTxOps = 3
  Accounts = {a, b}
  NoSender = zero
  Prices = {1, 2, 3}
  MaxTxs = 2
  MaxHeaders = 4
  MaxBlocks = 2
  MaxChanges = 2
  Clients = {c1, c2}
  MaxSent = 2
  MaxResets = 1
  MaxCalls = 3
SPECIFICATION Spec
INVARIANTS RlpExact SigningExact TypesExact AbiExact BindingsExact PrecompilesExact
SYMMETRY Symmetry
CHECK_DEADLOCK FALSE
