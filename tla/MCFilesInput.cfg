SPECIFICATION FairSpec
CONSTANTS
    NProc = 3
    FILE_INODES = 4
    OPEN_MAX = 3
    FILE_MAXSIZE = 3
    Names = {"f", "g"}
    InitFiles = {}
    Deleted = {"f"}
    OpenFlags <- WriteOrAppend
    Lengths = {1}
    MaxChanges = 2
    MaxTyped = 1
    MaxForks = 2
PROPERTIES
    InputArrives
CHECK_DEADLOCK FALSE
