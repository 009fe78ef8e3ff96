SPECIFICATION Spec
CONSTANTS
    h1 = h1
    h2 = h2
    u1 = u1
    u2 = u2
    b1 = b1
    Missing = Missing
    Visibility = {"PUBLIC", "PRIVATE"}
    Builds = {b1, b2}
    Users = {u1}
    AuthorOf <- OneAuthor
    Handlers = {h1, h2}
    Readers = {r1}
    Deletable = {}
    Leavers = {u1}
    MaxWrites = 2
    MaxFaults = 0
SYMMETRY HandlerSymmetry
INVARIANTS
    DeletedBuildsHaveNoSnapshot
CHECK_DEADLOCK FALSE
