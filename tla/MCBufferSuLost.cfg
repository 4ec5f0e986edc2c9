SPECIFICATION Spec
CONSTANTS
    BLKSZ = 2
    MAX_BUFSZ = 2
    InSize = 2
    OutSize = 2
    Total0 = 3
    Total1 = 4
    Faults = FALSE
INVARIANT NoOutputLost
CHECK_DEADLOCK FALSE
