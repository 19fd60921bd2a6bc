SPECIFICATION Spec
CONSTANTS
    t1 = t1
    t2 = t2
    t3 = t3
    Tx = {t1}
    Kind <- KindAuto
    LiveMetering = TRUE
    MaxMeter = 2
    MaxTime = 3
    Jitter = 1
    FlushInterval = 1
    FlushThreshold = 2
    Tolerance = 0
    BatchSize = 1
    MaxExposure = 1
    Faults = {"restart", "evict", "lookup", "steve", "reject", "lostAck", "db"}
    MaxFaults = 2
INVARIANTS
    TypeOK
    AuditedEventsWereSent
    DoubleBillingBounded
CHECK_DEADLOCK FALSE
