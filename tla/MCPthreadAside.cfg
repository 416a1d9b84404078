SPECIFICATION Spec
CONSTANTS
    PROC_CHILDREN = 5
    BARRIER_MAX = 2
    Paths <- MCSpaces
    Progs <- MCProgs
    Code <- MCCode
    MainProgs = {"aside"}
INVARIANT WholeGroups
CHECK_DEADLOCK FALSE
