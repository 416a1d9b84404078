SPECIFICATION Spec
CONSTANTS
    NProc = 3
    FILE_INODES = 3
    OPEN_MAX = 3
    FILE_MAXSIZE = 3
    Names = {"f"}
    InitFiles = {"f"}
    Deleted = {}
    OpenFlags <- WriteOrAppend
    Lengths = {1}
    MaxChanges = 3
    MaxTyped = 1
    MaxForks = 2
PROPERTIES
    ConflictStays
CHECK_DEADLOCK FALSE
