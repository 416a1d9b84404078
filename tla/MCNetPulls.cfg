SPECIFICATION Spec
CONSTANTS
    Nodes = {1, 2, 3}
    Procs = {1, 2}
    Home <- HomeApart
    DataPage <- OwnPage
    NParts = 1
    Addrs = {1,2,3,4,5,6,7,8,9}
    MaxWork = 1
    Budgets <- TwoLeave
INVARIANTS
    NoPanic
CHECK_DEADLOCK FALSE
