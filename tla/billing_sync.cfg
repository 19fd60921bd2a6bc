SPECIFICATION FairSpec
CONSTANTS
    t1 = t1
    t2 = t2
    t3 = t3
    Tx = {t1, t2, t3}
    Kind <- KindMixed
    LiveMetering = FALSE
    MaxMeter = 2
    MaxTime = 1
    Jitter = 1
    FlushInterval = 1
    FlushThreshold = 2
    Tolerance = 1
    BatchSize = 1
    MaxExposure = 0
    Faults = {"restart", "reject", "lostAck", "db"}
    MaxFaults = 2
INVARIANTS
    FinalizedMeansBilled
    
    RowIsRunningSum
    NotifiedAtMostOnce
PROPERTIES
    FinalizedForever
    StoppedIsFinalized
    LedgerKept
CHECK_DEADLOCK FALSE
