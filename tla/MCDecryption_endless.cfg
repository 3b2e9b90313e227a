SPECIFICATION Spec
CONSTANTS
    a = a
    b = b
    ca = ca
    cb = cb
    Friends = {a, b}
    Convs = {ca, cb}
    With <- MCWith
    Devs = {1, 2, 3}
    Owner <- MCOwner
    Rows0 = {1, 2}
    Pairs0 <- MCPairs
    Slots = 2
    MaxMessages = 1
    MaxKey = 1
    MaxFaults = 0
    MaxTries = 4
    MaxActs = 2
    None = None
CHECK_DEADLOCK FALSE
INVARIANT RetriesEnd
