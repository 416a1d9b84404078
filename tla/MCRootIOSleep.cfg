SPECIFICATION Spec
CONSTANTS
    Devs = {"kbd", "serial"}
    CONSBUFSIZE = 2
    FILE_MAXSIZE = 2
    MaxTyped = 3
    MaxNul = 1
    MaxOut = 1
    EarlyTyping = FALSE
INVARIANTS
    NoSleepOnInput
CHECK_DEADLOCK FALSE
