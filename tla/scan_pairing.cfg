SPECIFICATION Spec
CONSTANTS
    p1 = p1
    p2 = p2
    c1 = c1
    c2 = c2
    k1 = k1
    k2 = k2
    box = box
    phone = phone
    none = none
    Chargers = {box}
    Phones = {phone}
    Pairings = {p1, p2}
    Cards = {c1, c2}
    Taps = {k1, k2}
    MaxCopies = 2
    None = none
    Purposes = {"login"}
    Faults = {"ttl", "window", "db", "stream", "cache", "late", "stop", "repeat"}
    MaxFaults = 1
CHECK_DEADLOCK FALSE
SYMMETRY Symmetry
INVARIANTS
    TypeOK
    SingleFlight
    SignedInByItsTap
    
