SPECIFICATION FairSpec
CONSTANTS
    w1 = w1
    w2 = w2
    w3 = w3
    g1 = g1
    g2 = g2
    s1 = s1
    none = none
    Webhooks = {w1, w2}
    Tags = {g1, g2}
    Sessions = {s1}
    TagOf <- OnTheFirst
    Threshold = 1
    Kinds = {"quiet", "broken", "depleted", "terminated"}
    None = none
    Faults = {"db", "steve", "minute", "restart"}
    MaxFaults = 1
CHECK_DEADLOCK FALSE
INVARIANTS
    TypeOK
    TrippedOrProbing
    StoredFollows
    StoppedAgainExplained
    LogTellsTruth

    
