SPECIFICATION Spec
CONSTANTS
    u1 = u1
    u2 = u2
    Users <- MCUsers
    Tabs <- MCTabs
    Instances = {i1}
    Sockets = {s1, s2, s3}
    NoSocket = NoSocket
    MaxBus = 2
CHECK_DEADLOCK FALSE
SYMMETRY Symmetry
INVARIANTS
    TypeOK
    OnlineShown
    OfflineShown
