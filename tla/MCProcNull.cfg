SPECIFICATION Spec
CONSTANTS
    NCPU = 2
    Procs <- MCProcs
    Root = "r"
    Parent <- MCParent
    NoProc = NoProc
    NoCpu = NoCpu
    Progs <- MCProgs
    MaxIp <- MCMaxIp
    Code <- MCCode
    RootProgs <- NullRoots
    Pages <- MCPages
    ZeroFrame <- MCZeroFrame
    NullFrame <- MCNullFrame
INVARIANTS
    CallsComplete
CHECK_DEADLOCK FALSE
