SPECIFICATION Spec
CONSTANTS
    u1 = u1
    u2 = u2
    b1 = b1
    None = None
    Users = {u1, u2, u3}
    Builds = {b1}
    OwnerOf <- TwoOwners
    Handlers = {h1, h2}
    Leavers = {u1, u3}
SYMMETRY Symmetry
INVARIANTS
    CountersCoverRows
PROPERTIES
    OnlyLateRowsDrift
CHECK_DEADLOCK FALSE
