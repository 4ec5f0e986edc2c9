SPECIFICATION FairPair
CONSTANTS
    Name = {"u1", "u2"}
    None = None
    maxauthtries = 2
    Banner = TRUE
    MaxKex = 3
    MaxMade = 8
    Guess = {"none", "right", "wrong"}
    WriteQueue = 1
    MaxWaiting = 2
INVARIANTS KexState NoNullPointer Encrypted KeysAgree CorrectServed InOrder QuietDuringKex
PROPERTIES KexCompletes RequestsAnswered
CHECK_DEADLOCK FALSE
