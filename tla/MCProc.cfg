SPECIFICATION FairSpec
CONSTANTS
    NCPU = 2
    Procs <- MCProcs
    Root = "r"
    Parent <- MCParent
    NoProc = NoProc
    NoCpu = NoCpu
    Progs <- MCProgs
    MaxIp <- MCMaxIp
    Code <- MCCode
    RootProgs <- AllRoots
    Pages <- MCPages
    ZeroFrame <- MCZeroFrame
    NullFrame <- MCNullFrame
INVARIANTS
    TypeOK
    RunsOnOneCpu
    ReadyQueueExact
    ChildUnderControl
    NoLostWakeup
    LockDiscipline
PROPERTIES
    Isolation
    ImplementsSpaces
    EventuallyRuns
CHECK_DEADLOCK FALSE
