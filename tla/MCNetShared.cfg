SPECIFICATION Spec
CONSTANTS
    Nodes = {1, 2}
    Procs = {1, 2}
    Home <- MCHome
    DataPage <- SharedPage
    NParts = 1
    Addrs = {1,2,3,4,5,6,7,8,9}
    MaxWork = 1
    Budgets <- TwoLeave
INVARIANTS
    PagesArrived
CHECK_DEADLOCK FALSE
