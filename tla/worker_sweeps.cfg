SPECIFICATION Spec
CONSTANTS
    s1 = s1
    n1 = n1
    n2 = n2
    Sessions = {s1}
    Triggers = {n1}
    Every <- Periods
    Lookback = 12
    StaleAfter = 2
    IdleTicks = 2
    PinLength = 3
    NoTier = none
    MaxTime = 16
    MaxTriggers = 1
    Faults = {"crash", "fetch", "probe", "db"}
    MaxFaults = 2
INVARIANTS
    TypeOK
    OneRunAtATime
    AbandonedLockBounded
    
CHECK_DEADLOCK FALSE
