SPECIFICATION FairSpec
CONSTANTS
    Conn = {c1, c2, c3}
    c1 = c1
    c2 = c2
    c3 = c3
    a1 = a1
    a2 = a2
    a3 = a3
    Addr = {a1, a2, a3}
    From <- MCFrom
    Listen = {v4, v6}
    MAX_UNAUTH_CLIENTS = 2
    MAX_UNAUTH_PER_IP = 1
    None = None
    Faults = TRUE
INVARIANTS Accounted TotalLimit AddressLimit
PROPERTIES SlotsReleased BacklogServed
CHECK_DEADLOCK FALSE
