SPECIFICATION Spec
CONSTANTS
    Users = {u1, u2}
    Instances = {i1, i2}
    Handlers = {h1}
    Offline = Offline
    MaxMessages = 1
    MaxClears = 1
    PageSize = 50
    Ops = {"send", "read", "retry", "clear", "leave", "fetch", "disconnect", "crash"}
CHECK_DEADLOCK FALSE
SYMMETRY Symmetry
INVARIANTS
    TypeOK
    NothingLost
    NoGhosts
