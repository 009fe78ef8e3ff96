SPECIFICATION Spec
CONSTANTS
    u1 = u1
    u2 = u2
    b1 = b1
    b2 = b2
    b3 = b3
    o1 = o1
    None = None
    Same = Same
    Builds = {b1, b2, b3}
    Users = {u1, u2}
    AuthorOf <- TwoAuthors
    Orgs = {o1, o2}
    OrgOf <- OneInOrg
    MembersOf <- Members
    FirstLinks <- AllLinked
    Handlers = {h1, h2}
    MAX_TOTAL_VARIANTS = 2
    PARTNERS_TAKEN = 2
    Orders <- SomeOrders
    MaxWrites = 3
    Workloads <- Serving
    Patched = {b2}
    Bodies <- SomeBodies
    MAX_STORED_REVISIONS = 2
    REVISION_READ_LIMIT = 3
    REVISION_FOLD = 2
    MaxClock = 2
SYMMETRY Symmetry
INVARIANTS
    PartnerTypeOK
    LinksAreMutual
    OnlyStaleWritesLoseTargets
    FlagsAreForTheirOrg
    LogTellsEverySave
    FoldsCoverEverySave
    StripFollowsTheOrder
PROPERTIES
    OnlyTheAuthorMovesABuild
CHECK_DEADLOCK FALSE
