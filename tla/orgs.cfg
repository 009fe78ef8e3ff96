SPECIFICATION FairSpec
CONSTANTS
    None = None
    Orgs = {o1, o2}
    Users = {u1, u2}
    Handlers = {h1, h2}
    MaxOrgs = 1
    NewRoles = {"MEMBER"}
    Leavers = {u1}
INVARIANTS
    OrgsHaveAnAdmin
    OwnsAtMostMax
PROPERTIES
    EveryRequestEnds
CHECK_DEADLOCK FALSE
