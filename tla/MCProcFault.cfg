SPECIFICATION Spec
CONSTANTS
    NCPU = 2
    Procs <- MCProcs
    Root = "r"
    Parent <- MCParent
    NoProc = NoProc
    NoCpu = NoCpu
    Progs <- MCProgs
    MaxIp <- MCMaxIp
    Code <- MCCode
    RootProgs <- FaultRoots
    Pages <- MCPages
    ZeroFrame <- MCZeroFrame
    NullFrame <- MCNullFrame
PROPERTIES
    FaultKeepsProgram
CHECK_DEADLOCK FALSE
