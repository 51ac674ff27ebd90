SPECIFICATION Spec
CONSTANTS
    Addrs = {x, y}
    MaxKeys = 2
    Users = {u, v}
    Accts = {a}
    MaxOpens = 2
    MaxCalls = 3
INVARIANTS KeysGuarded WalletSafe
PROPERTIES IndefiniteStays WalletsProgress
CHECK_DEADLOCK FALSE
