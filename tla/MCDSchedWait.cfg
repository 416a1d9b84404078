SPECIFICATION Spec
CONSTANTS
    MAXTHREADS = 2
    Mutexes = {"a", "d"}
    Conds = {"c"}
    DataMutex = "d"
    Progs <- MCProgs
    Code <- MCCode
    MainProgs = {"rounds"}
    MaxPreempt = 0
INVARIANT AssertsHold
