SPECIFICATION Spec
CONSTANTS
    t1 = t1
    t2 = t2
    u1 = u1
    b = b
    c = c
    Tabs = {t1, t2, u1}
    Browsers = {b, c}
    In <- MCIn
    Legacy = {c}
    Known = b
    MaxKeys = 3
    MaxDevices = 3
    MaxFaults = 1
    MaxActs = 3
CHECK_DEADLOCK FALSE
INVARIANTS
    TypeOK
    PairWhole
    MessagesOpen
    DefaultSet
    NotLockedOut
    TwinsOnlyAtOnce
