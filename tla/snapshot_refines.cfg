SPECIFICATION Spec
CONSTANTS
    h1 = h1
    h2 = h2
    u1 = u1
    u2 = u2
    b1 = b1
    Missing = Missing
    Visibility = {"PUBLIC", "UNLISTED", "PRIVATE"}
    Builds = {b1}
    Users = {u1}
    AuthorOf <- OneAuthor
    Handlers = {h1, h2}
    Readers = {r1, r2}
    Deletable = {b1}
    Leavers = {u1}
    MaxWrites = 3
    MaxFaults = 1
SYMMETRY HandlerSymmetry
INVARIANTS
    TypeOK
    SettledIsFresh
PROPERTIES
    ImplementsEventualCache
CHECK_DEADLOCK FALSE
