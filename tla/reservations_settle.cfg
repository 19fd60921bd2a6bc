SPECIFICATION FairSpec
CONSTANTS
    b1 = b1
    b2 = b2
    b3 = b3
    c1 = c1
    c2 = c2
    Bookings = {b1, b2}
    Clients = {c1}
    Connectors = {1}
    Horizon = 2
    MaxTime = 1
    Windows <- Two
    Unlinked = {b1}
    TaskEndpoint = TRUE
    PollLimit = 2
    Forcing = FALSE
    MaxRequests = 1
    Faults = {"steve", "db", "restart"}
    MaxFaults = 1
PROPERTIES
    PendingSettles
CHECK_DEADLOCK FALSE
