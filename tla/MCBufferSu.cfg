SPECIFICATION FairSpec
CONSTANTS
    BLKSZ = 2
    MAX_BUFSZ = 2
    InSize = 2
    OutSize = 1
    Total0 = 2
    Total1 = 4
    Faults = TRUE
INVARIANTS InOrder Bounded
PROPERTIES IsStream InputDelivered OutputDelivered ExitsAfterChild
CHECK_DEADLOCK FALSE
