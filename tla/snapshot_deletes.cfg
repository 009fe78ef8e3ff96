SPECIFICATION Spec
CONSTANTS
    h1 = h1
    h2 = h2
    u1 = u1
    u2 = u2
    b1 = b1
    Missing = Missing
    Visibility = {"PUBLIC"}
    Builds = {b1, b2}
    Users = {u1}
    AuthorOf <- OneAuthor
    Handlers = {h1, h2}
    Readers = {}
    Deletable = {b1, b2}
    Leavers = {u1}
    MaxWrites = 3
    MaxFaults = 0
SYMMETRY HandlerSymmetry
INVARIANTS
    OnlyLostOrLateDeletesLinger
PROPERTIES
    EveryChangedPageIsRefreshed
CHECK_DEADLOCK FALSE
