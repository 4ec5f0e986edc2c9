SPECIFICATION Spec
CONSTANTS
    Pid = {1, 2}
    main = main
    w1 = w1
    w2 = w2
    Main = main
    Waiter <- MCWaiter
    Foreground = {FALSE}
    AppMayDie = FALSE
    MIN_DURATION = 2
    MaxClock = 2
    MaxInbox = 1
INVARIANT StopSticks
