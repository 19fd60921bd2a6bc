SPECIFICATION Spec
CONSTANTS
    k1 = k1
    k2 = k2
    a1 = a1
    a2 = a2
    meta = meta
    none = none
    Cards = {k1, k2}
    Meta = meta
    NoTag = none
    Call = {a1, a2}
    Links = TRUE
    Faults = {"steve", "db", "lago", "restart", "worker"}
    MaxFaults = 0
SYMMETRY Symmetry
INVARIANTS
    TypeOK
    ParentsKept
PROPERTIES
    CleanPassSettles
