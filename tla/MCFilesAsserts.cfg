SPECIFICATION Spec
CONSTANTS
    NProc = 2
    FILE_INODES = 3
    OPEN_MAX = 3
    FILE_MAXSIZE = 2
    Names = {"f"}
    InitFiles = {}
    Deleted = {}
    OpenFlags <- OpenForAppend
    Lengths = {1}
    MaxChanges = 2
    MaxTyped = 0
    MaxForks = 1
INVARIANTS
    AssertsHold
CHECK_DEADLOCK FALSE
