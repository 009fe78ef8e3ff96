--------------------------------- MODULE Orgs ---------------------------------
(***************************************************************************)
(* Organizations and their members: the routes of orgs.ts, each a read of  *)
(* the viewer's role followed by a transaction, and the deletion of user   *)
(* accounts, which touches organizations without taking their lock.        *)
(*                                                                         *)
(* Every step is one statement of Postgres (READ COMMITTED) as others see  *)
(* it; the write of a transaction is merged with its commit.  A statement  *)
(* that needs a locked row waits for the lock.                             *)
(***************************************************************************)
EXTENDS Naturals, FiniteSets

CONSTANTS
    Orgs,       \* organization rows; an id is never used again
    Users,
    Handlers,   \* concurrent API requests
    MaxOrgs,    \* MAX_ORGS_PER_USER
    NewRoles,   \* bound: the roles a PATCH of a member chooses from
    Leavers,    \* bound: the users whose account is deleted
    None        \* no request, no lock, no membership

ASSUME OrgsAssumption ==
    /\ None \notin Handlers
    /\ None \notin {"ADMIN", "MEMBER"}
    /\ NewRoles \subseteq {"ADMIN", "MEMBER"}
    /\ Leavers \subseteq Users
    /\ MaxOrgs \in Nat \ {0}
    /\ IsFiniteSet(Orgs)

OrgRole == {"ADMIN", "MEMBER"}

\* What a request asks of organization o: t is the member it is about, or,
\* for "create", the user who creates o.
GuardedOps == {"demote", "remove"}               \* assertNotLastAdmin applies
MemberOps  == GuardedOps \cup {"promote"}        \* run under withOrgLock
Request == [op : MemberOps \cup {"add", "deleteOrg", "create"},
            o : Orgs, t : Users, pc : {"lock", "check", "write"}]

VARIABLES
    users,      \* users table
    org,        \* organizations table: [Orgs -> life]
    role,       \* organization_members: [Orgs -> [Users -> role or None]]
    orgLock,    \* FOR UPDATE holders of the organization rows
    userLock,   \* FOR UPDATE holders of the user rows
    req,        \* [Handlers -> Request or None]
    leaving,    \* users between beforeUserDeletion and the delete of their row
    bereaved,   \* history: organizations that lost a member to an account's end
    granted     \* history: users whom another request made an ADMIN

rowVars  == <<users, org, role>>
lockVars == <<orgLock, userLock>>
pastVars == <<bereaved, granted>>
vars     == <<users, org, role, orgLock, userLock, req, leaving, bereaved, granted>>

Nobody == [u \in Users |-> None]

Admins(o)  == {u \in Users : role[o][u] = "ADMIN"}
Members(o) == {u \in Users : role[o][u] # None}
Owned(u)   == {o \in Orgs : role[o][u] = "ADMIN"}

Init ==
    /\ users = Users
    /\ org  = [o \in Orgs |-> "unborn"]
    /\ role = [o \in Orgs |-> Nobody]
    /\ orgLock  = [o \in Orgs |-> None]
    /\ userLock = [u \in Users |-> None]
    /\ req = [h \in Handlers |-> None]
    /\ leaving = {}
    /\ bereaved = {}
    /\ granted = {}

-----------------------------------------------------------------------------
(* A request arrives: it is checked against the role read at this moment    *)

Start(h, op, o, t, pc) ==
    /\ req[h] = None
    /\ req' = [req EXCEPT ![h] = [op |-> op, o |-> o, t |-> t, pc |-> pc]]
    /\ UNCHANGED <<rowVars, lockVars, leaving, pastVars>>

\* loadOrgWithViewerRole
IsOrgAdmin(o, viewer) == org[o] = "live" /\ role[o][viewer] = "ADMIN"

patchMember(h, o, viewer, t, new) ==
    /\ IsOrgAdmin(o, viewer)
    /\ Start(h, IF new = "ADMIN" THEN "promote" ELSE "demote", o, t, "lock")

deleteMember(h, o, viewer, t) ==
    /\ org[o] = "live" /\ viewer \in users
    /\ viewer = t \/ role[o][viewer] = "ADMIN"
    /\ Start(h, "remove", o, t, "lock")

postMember(h, o, viewer, t) ==
    /\ IsOrgAdmin(o, viewer) /\ t \in users
    /\ Start(h, "add", o, t, "write")

deleteOrg(h, o, viewer) ==
    /\ IsOrgAdmin(o, viewer)
    /\ Start(h, "deleteOrg", o, viewer, "write")

postOrg(h, o, u) ==
    /\ u \in users /\ org[o] = "unborn"
    /\ Start(h, "create", o, u, "lock")

-----------------------------------------------------------------------------
(* The transactions                                                         *)

At(h, ops, pc) == req[h] # None /\ req[h].op \in ops /\ req[h].pc = pc

Advance(h, pc) == req' = [req EXCEPT ![h].pc = pc]

\* Mutant: a transaction is left open.
End_open(h) == req' = [req EXCEPT ![h] = None] /\ UNCHANGED lockVars

\* Commit or roll back: the locks go with the transaction.
End(h) ==
    /\ req' = [req EXCEPT ![h] = None]
    /\ orgLock'  = [o \in Orgs |-> IF orgLock[o] = h THEN None ELSE orgLock[o]]
    /\ userLock' = [u \in Users |-> IF userLock[u] = h THEN None ELSE userLock[u]]

\* Mutant: the transaction does not lock the organization row.
withOrgLock_none(h) ==
    /\ At(h, MemberOps, "lock")
    /\ Advance(h, IF req[h].op \in GuardedOps THEN "check" ELSE "write")
    /\ UNCHANGED <<rowVars, lockVars, leaving, pastVars>>

\* SELECT ... FOR UPDATE; an organization that is gone locks nothing.
withOrgLock(h) ==
    LET o == req[h].o
    IN  /\ At(h, MemberOps, "lock")
        /\ orgLock[o] = None
        /\ orgLock' = IF org[o] = "live" THEN [orgLock EXCEPT ![o] = h] ELSE orgLock
        /\ Advance(h, IF req[h].op \in GuardedOps THEN "check" ELSE "write")
        /\ UNCHANGED <<rowVars, userLock, leaving, pastVars>>

\* Not a member (P2025) or the only ADMIN: the transaction rolls back.
assertNotLastAdmin(h) ==
    LET o == req[h].o
        t == req[h].t
    IN  /\ At(h, GuardedOps, "check")
        /\ IF role[o][t] = None \/ Admins(o) = {t}
           THEN End(h)
           ELSE Advance(h, "write") /\ UNCHANGED lockVars
        /\ UNCHANGED <<rowVars, leaving, pastVars>>

\* Mutant: the user row is not locked.
lockCreator_none(h) ==
    /\ At(h, {"create"}, "lock")
    /\ Advance(h, "check")
    /\ UNCHANGED <<rowVars, lockVars, leaving, pastVars>>

\* POST /orgs locks the row of the user, who may be gone.
lockCreator(h) ==
    LET u == req[h].t
    IN  /\ At(h, {"create"}, "lock")
        /\ userLock[u] = None
        /\ userLock' = IF u \in users THEN [userLock EXCEPT ![u] = h] ELSE userLock
        /\ Advance(h, "check")
        /\ UNCHANGED <<rowVars, orgLock, leaving, pastVars>>

\* OrgLimitError
checkCap(h) ==
    /\ At(h, {"create"}, "check")
    /\ IF Cardinality(Owned(req[h].t)) >= MaxOrgs
       THEN End(h)
       ELSE Advance(h, "write") /\ UNCHANGED lockVars
    /\ UNCHANGED <<rowVars, leaving, pastVars>>

SetRole(o, t, r) == role' = [role EXCEPT ![o][t] = r]

\* The update or delete of the membership row; P2025 when it is gone.
writeMember(h) ==
    LET o == req[h].o
        t == req[h].t
    IN  /\ At(h, MemberOps, "write")
        /\ IF role[o][t] = None
           THEN UNCHANGED role
           ELSE SetRole(o, t, CASE req[h].op = "promote" -> "ADMIN"
                                [] req[h].op = "demote"  -> "MEMBER"
                                [] req[h].op = "remove"  -> None)
        /\ granted' = IF req[h].op = "promote" /\ role[o][t] = "MEMBER"
                      THEN granted \cup {t} ELSE granted
        /\ End(h)
        /\ UNCHANGED <<users, org, leaving, bereaved>>

\* A foreign key takes a share lock on the rows it refers to.
writeNewMember(h) ==
    LET o == req[h].o
        t == req[h].t
    IN  /\ At(h, {"add"}, "write")
        /\ orgLock[o] = None /\ userLock[t] = None
        /\ IF org[o] = "live" /\ t \in users /\ role[o][t] = None
           THEN SetRole(o, t, "MEMBER")
           ELSE UNCHANGED role
        /\ End(h)
        /\ UNCHANGED <<users, org, leaving, pastVars>>

\* The organization with its creator as ADMIN; slug_taken when another
\* request made it first.
writeNewOrg(h) ==
    LET o == req[h].o
        u == req[h].t
    IN  /\ At(h, {"create"}, "write")
        /\ IF org[o] = "unborn" /\ u \in users
           THEN org' = [org EXCEPT ![o] = "live"] /\ SetRole(o, u, "ADMIN")
           ELSE UNCHANGED <<org, role>>
        /\ End(h)
        /\ UNCHANGED <<users, leaving, pastVars>>

\* deleteOrganization; the memberships cascade.
writeDeletedOrg(h) ==
    LET o == req[h].o
    IN  /\ At(h, {"deleteOrg"}, "write")
        /\ orgLock[o] = None
        /\ org'  = [org EXCEPT ![o] = "deleted"]
        /\ role' = [role EXCEPT ![o] = Nobody]
        /\ End(h)
        /\ UNCHANGED <<users, leaving, pastVars>>

-----------------------------------------------------------------------------
(* Deletion of a user                                                       *)

Orphaned(o, u) == Admins(o) = {u} /\ Members(o) # {u}

\* Where u is the only ADMIN another member is promoted: heir[o], which in the
\* code is the longest-standing one.
Heirs(u) ==
    {heir \in [Orgs -> Users] :
        \A o \in Orgs : IF Orphaned(o, u) THEN heir[o] \in Members(o) \ {u}
                                          ELSE heir[o] = u}

Promoted(u, heir) ==
    [o \in Orgs |-> IF Orphaned(o, u) THEN [role[o] EXCEPT ![heir[o]] = "ADMIN"]
                                      ELSE role[o]]

\* The users the promotion makes ADMINs.
Inheriting(u, heir) == {heir[o] : o \in {p \in Orgs : Orphaned(p, u)}}

\* The organizations the user leaves behind.
Left(u) == {o \in Orgs : role[o][u] # None}

\* The memberships cascade.
Without(u, roles) == [o \in Orgs |-> [roles[o] EXCEPT ![u] = None]]

\* /auth/delete-user: the hook's transaction commits first.
beforeUserDeletion(u) ==
    /\ u \in users \cap Leavers /\ u \notin leaving
    /\ \E heir \in Heirs(u) :
          /\ role' = Promoted(u, heir)
          /\ granted' = granted \cup Inheriting(u, heir)
    /\ leaving' = leaving \cup {u}
    /\ UNCHANGED <<users, org, lockVars, req, bereaved>>

\* ... then Better Auth deletes the row
deleteUserRow(u) ==
    /\ u \in leaving
    /\ userLock[u] = None
    /\ users' = users \ {u}
    /\ leaving' = leaving \ {u}
    /\ role' = Without(u, role)
    /\ bereaved' = bereaved \cup Left(u)
    /\ UNCHANGED <<org, lockVars, req, granted>>

\* ... or fails to.
deletionStops(u) ==
    /\ u \in leaving
    /\ leaving' = leaving \ {u}
    /\ UNCHANGED <<rowVars, lockVars, req, pastVars>>

\* DELETE /admin/users/:id: both in one transaction, here one step.
adminDeleteUser(u) ==
    /\ u \in users \cap Leavers
    /\ userLock[u] = None
    /\ \E heir \in Heirs(u) :
          /\ role' = Without(u, Promoted(u, heir))
          /\ granted' = granted \cup Inheriting(u, heir)
    /\ users' = users \ {u}
    /\ leaving' = leaving \ {u}
    /\ bereaved' = bereaved \cup Left(u)
    /\ UNCHANGED <<org, lockVars, req>>

-----------------------------------------------------------------------------
Arrive(h) ==
    \E o \in Orgs, viewer \in Users :
        \/ \E t \in Users :
              \/ \E new \in NewRoles : patchMember(h, o, viewer, t, new)
              \/ deleteMember(h, o, viewer, t)
              \/ postMember(h, o, viewer, t)
        \/ deleteOrg(h, o, viewer)
        \/ postOrg(h, o, viewer)

Acquire(h) == withOrgLock(h) \/ lockCreator(h)

Run(h) ==
    \/ assertNotLastAdmin(h)
    \/ checkCap(h)
    \/ writeMember(h)
    \/ writeNewMember(h)
    \/ writeNewOrg(h)
    \/ writeDeletedOrg(h)

Leave ==
    \E u \in Users : \/ beforeUserDeletion(u)
                     \/ deleteUserRow(u)
                     \/ deletionStops(u)
                     \/ adminDeleteUser(u)

Next == Leave \/ \E h \in Handlers : Arrive(h) \/ Acquire(h) \/ Run(h)

Spec == Init /\ [][Next]_vars

\* A request runs on, and a row lock is granted in the order it is asked for.
FairSpec == Spec /\ \A h \in Handlers : SF_vars(Acquire(h)) /\ SF_vars(Run(h))

-----------------------------------------------------------------------------
(* Properties                                                               *)

\* Every variable has its type.
TypeOK ==
    /\ users \subseteq Users
    /\ org \in [Orgs -> {"unborn", "live", "deleted"}]
    /\ role \in [Orgs -> [Users -> OrgRole \cup {None}]]
    /\ orgLock \in [Orgs -> Handlers \cup {None}]
    /\ userLock \in [Users -> Handlers \cup {None}]
    /\ req \in [Handlers -> Request \cup {None}]
    /\ leaving \subseteq users
    /\ bereaved \subseteq Orgs
    /\ granted \subseteq Users

\* However role changes, removals, leaves and promotions of heirs race, an
\* organization keeps an ADMIN until it loses a member's account.
OrgsHaveAnAdmin ==
    \A o \in Orgs : org[o] = "live" /\ o \notin bereaved => Admins(o) # {}

\* limits.ts: "How many orgs one user may own (be ADMIN of)".  However a user's
\* POSTs race, only what others made the user an ADMIN of goes beyond.
OwnsAtMostMax ==
    \A u \in Users \ granted : Cardinality(Owned(u)) <= MaxOrgs

\* No request waits for ever: locks are taken in one order and given back.
EveryRequestEnds == \A h \in Handlers : req[h] # None ~> req[h] = None

-----------------------------------------------------------------------------
(* The inductive invariants                                                 *)

\* Between its lock and its end a role change holds the organization row, or
\* the organization is gone.
OrgLockInv ==
    \A h \in Handlers :
        At(h, MemberOps, "check") \/ At(h, MemberOps, "write")
            => orgLock[req[h].o] = h \/ org[req[h].o] = "deleted"

\* A request past its read of the role is about an organization that is, or
\* was.
RequestInv ==
    \A h \in Handlers : req[h] # None /\ req[h].op # "create"
                           => org[req[h].o] # "unborn"

\* What assertNotLastAdmin found still holds at the write: another ADMIN, unless
\* an account's end took it.
GuardInv ==
    \A h \in Handlers :
        At(h, GuardedOps, "write")
            => \/ org[req[h].o] = "deleted"
               \/ req[h].o \in bereaved
               \/ \E v \in Users \ {req[h].t} : role[req[h].o][v] = "ADMIN"

\* Only live organizations have members.
MembersInv == \A o \in Orgs : org[o] # "live" => role[o] = Nobody

AdminInv == TypeOK /\ OrgLockInv /\ RequestInv /\ GuardInv /\ MembersInv
                   /\ OrgsHaveAnAdmin

\* Between its lock and its end a creation holds the row of its user, or the
\* user is gone.
UserLockInv ==
    \A h \in Handlers :
        At(h, {"create"}, "check") \/ At(h, {"create"}, "write")
            => userLock[req[h].t] = h \/ req[h].t \notin users

\* What the count found still holds when the organization is created, but for
\* what others made the user an ADMIN of.
CountInv ==
    \A h \in Handlers :
        At(h, {"create"}, "write")
            => req[h].t \in granted \/ Cardinality(Owned(req[h].t)) < MaxOrgs

CapInv == TypeOK /\ UserLockInv /\ CountInv /\ OwnsAtMostMax
=============================================================================
