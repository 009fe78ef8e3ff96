SPECIFICATION FairEdgeSpec
CONSTANTS
    u1 = u1
    c1 = c1
    Missing = Missing
    Visibility = {"PUBLIC", "PRIVATE"}
    Builds = {b1}
    Users = {u1}
    AuthorOf <- OneAuthor
    Handlers = {h1}
    Readers = {r1}
    Deletable = {b1}
    Leavers = {}
    MaxWrites = 2
    MaxFaults = 1
    Colos = {c1, c2}
    ColoOf <- AllInOne
    Variants = {"full"}
    Requests = {q1}
INVARIANTS
    EdgeTypeOK
PROPERTIES
    SettledMissesAreCurrent
    EdgeEventuallySettles
    EventuallySettled
CHECK_DEADLOCK FALSE
