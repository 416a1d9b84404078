SPECIFICATION FairSpec
CONSTANTS
    PROC_CHILDREN = 5
    BARRIER_MAX = 2
    Paths <- MCSpaces
    Progs <- MCProgs
    Code <- MCCode
    MainProgs = {"negative"}
PROPERTY EventuallyEnds
CHECK_DEADLOCK FALSE
