SPECIFICATION Spec
CONSTANTS
    Others = {b}
    Nobody = Nobody
    MaxCalls = 3
    MaxChanges = 2
    MaxMoves = 3
CHECK_DEADLOCK FALSE
INVARIANTS
    TypeOK
    HandledOnce
    ReceivedExact
    SentExact
    ContactsComplete
    BadgeExact
