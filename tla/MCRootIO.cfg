SPECIFICATION FairSpec
CONSTANTS
    Devs = {"kbd", "serial"}
    CONSBUFSIZE = 3
    FILE_MAXSIZE = 2
    MaxTyped = 3
    MaxNul = 1
    MaxOut = 1
    EarlyTyping = FALSE
INVARIANTS
    QueuedOnce
    InputIntact
PROPERTIES
    KeyWakes
CHECK_DEADLOCK FALSE
