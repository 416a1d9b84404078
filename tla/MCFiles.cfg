SPECIFICATION Spec
CONSTANTS
    NProc = 3
    FILE_INODES = 3
    OPEN_MAX = 3
    FILE_MAXSIZE = 2
    Names = {"f"}
    InitFiles = {"f"}
    Deleted = {}
    OpenFlags <- WriteOrAppend
    Lengths = {}
    MaxChanges = 3
    MaxTyped = 0
    MaxForks = 2
INVARIANTS
    BaseAgrees
    AppendedOnce
PROPERTIES
    AppendOnly
    NoLostChange
CHECK_DEADLOCK FALSE
