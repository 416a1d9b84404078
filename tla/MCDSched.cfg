SPECIFICATION FairSpec
CONSTANTS
    MAXTHREADS = 3
    Mutexes = {"a", "d"}
    Conds = {"c"}
    DataMutex = "d"
    Progs <- MCProgs
    Code <- MCCode
    MainProgs = {"gather", "wakeall", "reuse", "try", "ab", "spin"}
    MaxPreempt = 3
INVARIANTS MutualExclusion QueueExact ReqsExact DataFresh NoClash PanicIsReal
PROPERTY EventuallyEnds
