SPECIFICATION Spec
CONSTANTS
    Users = {1, 2}
    Handlers = {h1, h2}
    Mortal = {h2}
    RowIds = {r1, r2}
    NoRow = NoRow
    MaxChannel = 1
CHECK_DEADLOCK FALSE
SYMMETRY Symmetry
INVARIANT
    NoDuplicateRequests
