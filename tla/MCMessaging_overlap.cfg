SPECIFICATION Spec
CONSTANTS
    Users = {u1, u2}
    Instances = {i1, i2}
    Handlers = {h1, h2}
    Offline = Offline
    MaxMessages = 2
    MaxClears = 0
    PageSize = 50
    Ops = {"send", "leave", "leaveWipe"}
CHECK_DEADLOCK FALSE
SYMMETRY Symmetry
INVARIANTS
    AudienceOnly
    ShownOnce
    NothingLost
    EmptyConversationDropped
