SPECIFICATION Spec
CONSTANTS
    Cpus = {1, 2}
    Procs = {"p", "q"}
    NoProc = "none"
    IntHalf = 4
    CtrSize = 8
    pmc_safety = 2
    MaxLate = 2
    Limits = {1, 4, 7}
    MaxStarts = 2
    MaxCalls = 1
INVARIANTS
    CountExact
CHECK_DEADLOCK FALSE
