SPECIFICATION Spec
CONSTANTS
    Small = "small"
    Big = "big"
    MaxOps = 3
    MaxLost = 1
    Preimages = {p, q}
    Chunk = 2
    MaxRefs = 1
    MaxStores = 2
    MaxCommits = 2
    MaxCrashes = 1
    Names = {k, l}
    MaxCalls = 4
    Values = {v, w}
    Closers = {c, e}
    MaxBatch = 2
    MaxPuts = 3
INVARIANTS TrieExact WalkExact NodesKept SyncComplete StoresExact TablesApart
CHECK_DEADLOCK FALSE
