SPECIFICATION Spec
CONSTANTS
    a = a
    b = b
    pa = pa
    pb = pb
    Users = {a, b}
    Pages = {pa, pb}
    UserOf <- MCUserOf
    DeviceOf <- MCDeviceOf
    Devs = {1, 2, 3}
    Owner <- MCOwner
    Devs0 = {1, 2}
    Current0 <- MCCurrent
    MaxRows = 2
    MaxLoads = 2
    MaxFaults = 1
    MaxActs = 3
CHECK_DEADLOCK FALSE
INVARIANTS
    TypeOK
    OnePerPair
    ListComplete
    NoneComesBack
