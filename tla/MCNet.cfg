SPECIFICATION FairSpec
CONSTANTS
    Nodes = {1, 2, 3}
    Procs = {1}
    Home <- MCHome
    DataPage <- OwnPage
    NParts = 2
    Addrs = {1,2,3,4,5,6,7,8,9}
    MaxWork = 1
    Budgets <- FarOrLossy
INVARIANTS
    OneOwner
    NoRollback
    NeverForgotten
PROPERTIES
    Arrives
CHECK_DEADLOCK FALSE
