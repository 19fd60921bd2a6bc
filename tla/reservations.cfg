SPECIFICATION Spec
CONSTANTS
    b1 = b1
    b2 = b2
    b3 = b3
    c1 = c1
    c2 = c2
    Bookings = {b1, b2}
    Clients = {c1}
    Connectors = {1}
    Horizon = 2
    MaxTime = 0
    Windows <- Three
    Unlinked = {b1}
    TaskEndpoint = TRUE
    PollLimit = 2
    Forcing = TRUE
    MaxRequests = 2
    Faults = {"steve", "db", "restart"}
    MaxFaults = 1
INVARIANTS
    TypeOK
    DoubleBookingExplained
    
CHECK_DEADLOCK FALSE
