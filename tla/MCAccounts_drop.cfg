SPECIFICATION Spec
CONSTANTS
    Keys = {x, y}
    Paths = {1, 2}
    Garbage = garbage
    InitTexts = {x}
    NoFile = nofile
    Users = {c}
    Callers = {c, d}
    MaxTime = 3
    MaxWrites = 2
    Urls = {1, 2}
    Refreshers = {u, v}
    Buffer = 1
    MaxChanges = 3
    Devices = {1, 2}
    MaxWallets = 3
    MaxSubs = 2
    Passes = {p, q}
    MaxOps = 3
    Space = 4
    Prefix = 2
    Chunk = 5
    First = 3
    MaxLen = 14
    Hardened = 4
PROPERTY DropsSpecified
CHECK_DEADLOCK FALSE
