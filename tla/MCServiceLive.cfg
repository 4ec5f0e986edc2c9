SPECIFICATION FairSpec
CONSTANTS
    Pid = {1, 2}
    main = main
    w1 = w1
    w2 = w2
    Main = main
    Waiter <- MCWaiter
    Foreground = {FALSE}
    AppMayDie = FALSE
    MIN_DURATION = 2
    MaxClock = 1
    MaxInbox = 1
PROPERTIES StatusCatchesUp EventuallyReaped
