SPECIFICATION DSpec
CONSTANTS
    Procs <- MCProcs
    Root = "r"
    Parent <- MCParent
    NoProc = NoProc
    Progs <- MCProgs
    MaxIp <- MCMaxIp
    Code <- MCCode
    RootProgs <- Settled
    Pages <- MCPages
    ZeroFrame <- MCZeroFrame
    NullFrame <- MCNullFrame
    MaxEvents = 9
INVARIANTS
    Deterministic
CHECK_DEADLOCK FALSE
