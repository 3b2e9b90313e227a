SPECIFICATION Spec
CONSTANTS
    Users = {u1, u2}
    Instances = {i1, i2}
    Handlers = {h1, h2}
    Offline = Offline
    MaxMessages = 2
    MaxClears = 1
    PageSize = 50
    Ops = {"send", "clear"}
CHECK_DEADLOCK FALSE
INVARIANT
    NoGhosts
