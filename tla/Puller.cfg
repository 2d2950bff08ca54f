CONSTANTS
    None = None
    Files = {1, 2}
    Direct = {}
    Deletes = {}
    SameBlocks = {}
    Blocks <- TwoAndOne
    Empty <- FirstEmpty
    Copiers = {c1, c2}
    MaxPending = 2
    Peers = 1
    MaxIterations = 1
    TempMayFail = TRUE
INIT Init
NEXT Next
INVARIANTS OnlyWholeFiles NothingLeftBehind
