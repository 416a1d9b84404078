SPECIFICATION Spec
CONSTANTS
    c1 = c1
    c2 = c2
    Children = {c1, c2}
    NTops = 1
    NLows = 2
    Bytes = {1, 2}
    Values = {1}
    NFrames = 16
    LowPage <- BootPage
    MaxOps = 4
SYMMETRY ChildrenSymmetry
INVARIANTS
    RefExact
    WritableIsPrivate
    ReadsAsCopiedUnshared
CHECK_DEADLOCK FALSE
