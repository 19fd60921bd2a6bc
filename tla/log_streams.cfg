SPECIFICATION Spec
CONSTANTS
    s1 = s1
    s2 = s2
    s3 = s3
    s4 = s4
    dog = dog
    Conns = {s1, s2, s3, s4}
    Dog = dog
    MaxPerIp = 2
CHECK_DEADLOCK FALSE
SYMMETRY Symmetry
INVARIANTS
    TypeOK
    SubscribersHear
    PinHolds
    NothingLeaks
    SlotsCounted
