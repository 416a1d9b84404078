SPECIFICATION FairSpec
CONSTANTS
    MAXTHREADS = 2
    Mutexes = {"a", "d"}
    Conds = {"c"}
    DataMutex = "d"
    Progs <- MCProgs
    Code <- MCCode
    MainProgs = {"spinowner"}
    MaxPreempt = 0
PROPERTY ReadyRuns
