SPECIFICATION Spec
CONSTANTS
    k1 = k1
    k2 = k2
    a1 = a1
    a2 = a2
    meta = meta
    none = none
    Cards = {k1}
    Meta = meta
    NoTag = none
    Call = {a1}
    Links = FALSE
    Faults = {}
    MaxFaults = 0
INVARIANTS
    LostCardsStayBlocked
CHECK_DEADLOCK FALSE
