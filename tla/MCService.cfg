SPECIFICATION Spec
CONSTANTS
    Pid = {1, 2}
    main = main
    w1 = w1
    w2 = w2
    Main = main
    Waiter <- MCWaiter
    Foreground = {TRUE, FALSE}
    AppMayDie = TRUE
    MIN_DURATION = 2
    MaxClock = 1
    MaxInbox = 2
SYMMETRY MCSymmetry
INVARIANTS TypeOK Tracked Waited PidfileNamesServer
PROPERTY RestartOnlyTheDead
