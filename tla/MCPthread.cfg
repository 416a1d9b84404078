SPECIFICATION FairSpec
CONSTANTS
    PROC_CHILDREN = 5
    BARRIER_MAX = 2
    Paths <- MCSpaces
    Progs <- MCProgs
    Code <- MCCode
    MainProgs = {"rounds1", "rounds2", "rounds3", "rounds4", "parallel", "failing", "toomany", "full", "short", "trap", "nobarrier", "wrong", "forked", "forkcrash"}
INVARIANTS BarrierData MergedOnce
PROPERTY EventuallyEnds
