------------------------------ MODULE OrgsProofs ------------------------------
(***************************************************************************)
(* Theorems about Orgs, for any number of organizations, users and         *)
(* requests, accounts deleted and members promoted at any time.            *)
(***************************************************************************)
EXTENDS Orgs, FiniteSetTheorems, TLAPS

-----------------------------------------------------------------------------
(* Types                                                                    *)

\* The initial state has its type.
LEMMA InitType == Init => TypeOK
  BY OrgsAssumption DEF Init, TypeOK, Nobody, OrgRole

\* A request keeps its type when its step changes; its operation, organization
\* and member stay.
LEMMA AdvanceType ==
  ASSUME TypeOK, NEW h \in Handlers, req[h] # None,
         NEW pc \in {"lock", "check", "write"}, Advance(h, pc)
  PROVE  /\ req' \in [Handlers -> Request \cup {None}]
         /\ \A g \in Handlers \ {h} : req'[g] = req[g]
         /\ req'[h].op = req[h].op /\ req'[h].o = req[h].o
         /\ req'[h].t = req[h].t /\ req'[h].pc = pc
  <1>1. req[h] \in Request
    BY DEF TypeOK
  <1>2. [req[h] EXCEPT !.pc = pc] \in Request
    BY <1>1 DEF Request
  <1>3. req' = [req EXCEPT ![h] = [req[h] EXCEPT !.pc = pc]]
    BY DEF Advance
  <1>4. req'[h] = [req[h] EXCEPT !.pc = pc] /\ \A g \in Handlers \ {h} : req'[g] = req[g]
    BY <1>3 DEF TypeOK
  <1>5. req' \in [Handlers -> Request \cup {None}]
    BY <1>2, <1>3 DEF TypeOK
  <1>6. /\ req'[h].op = req[h].op /\ req'[h].o = req[h].o
        /\ req'[h].t = req[h].t /\ req'[h].pc = pc
    BY <1>1, <1>4 DEF Request
  <1> QED
    BY <1>4, <1>5, <1>6

\* The end of a request gives back its locks and nobody else's.
LEMMA EndType ==
  ASSUME TypeOK, NEW h \in Handlers, End(h)
  PROVE  /\ req' \in [Handlers -> Request \cup {None}]
         /\ orgLock' \in [Orgs -> Handlers \cup {None}]
         /\ userLock' \in [Users -> Handlers \cup {None}]
         /\ req'[h] = None
         /\ \A g \in Handlers \ {h} : req'[g] = req[g]
         /\ \A o \in Orgs : orgLock[o] # h => orgLock'[o] = orgLock[o]
         /\ \A u \in Users : userLock[u] # h => userLock'[u] = userLock[u]
  BY OrgsAssumption DEF TypeOK, End

\* One membership gets a role, or goes.
LEMMA SetRoleType ==
  ASSUME TypeOK, NEW o \in Orgs, NEW t \in Users, NEW r \in OrgRole \cup {None},
         SetRole(o, t, r)
  PROVE  /\ role' \in [Orgs -> [Users -> OrgRole \cup {None}]]
         /\ role'[o][t] = r
         /\ \A u \in Users \ {t} : role'[o][u] = role[o][u]
         /\ \A p \in Orgs \ {o} : role'[p] = role[p]
  BY DEF TypeOK, SetRole

\* What a request that waits or runs refers to.
LEMMA RequestType ==
  ASSUME TypeOK, NEW h \in Handlers, req[h] # None
  PROVE  /\ req[h] \in Request
         /\ req[h].o \in Orgs /\ req[h].t \in Users
  BY DEF TypeOK, Request

\* A request that arrives has its type, and leaves the others alone.
LEMMA StartType ==
  ASSUME TypeOK, NEW h \in Handlers, NEW o \in Orgs, NEW t \in Users,
         NEW op \in MemberOps \cup {"add", "deleteOrg", "create"},
         NEW pc \in {"lock", "check", "write"}, Start(h, op, o, t, pc)
  PROVE  /\ req' \in [Handlers -> Request \cup {None}]
         /\ req'[h].op = op /\ req'[h].o = o /\ req'[h].t = t /\ req'[h].pc = pc
         /\ \A g \in Handlers \ {h} : req'[g] = req[g]
  <1>1. [op |-> op, o |-> o, t |-> t, pc |-> pc] \in Request
    BY DEF Request
  <1> QED
    BY <1>1 DEF TypeOK, Start

\* Every arrival is a Start, of a request that needs a lock or writes at once.
LEMMA ArriveStarts ==
  ASSUME NEW h \in Handlers, Arrive(h)
  PROVE  \E o \in Orgs, t \in Users :
            \/ \E op \in MemberOps : org[o] = "live" /\ Start(h, op, o, t, "lock")
            \/ org[o] = "live" /\ Start(h, "add", o, t, "write")
            \/ org[o] = "live" /\ Start(h, "deleteOrg", o, t, "write")
            \/ Start(h, "create", o, t, "lock")
  BY DEF Arrive, patchMember, deleteMember, postMember, deleteOrg, postOrg,
         IsOrgAdmin, MemberOps, GuardedOps

\* Every step keeps the types.
LEMMA NextType == TypeOK /\ [Next]_vars => TypeOK'
<1> SUFFICES ASSUME TypeOK, [Next]_vars PROVE TypeOK'
  OBVIOUS
<1> USE OrgsAssumption DEF OrgRole, pastVars
<1>1. ASSUME NEW h \in Handlers, Arrive(h) PROVE TypeOK'
  <2>1. PICK o \in Orgs, t \in Users :
            \/ \E op \in MemberOps : org[o] = "live" /\ Start(h, op, o, t, "lock")
            \/ org[o] = "live" /\ Start(h, "add", o, t, "write")
            \/ org[o] = "live" /\ Start(h, "deleteOrg", o, t, "write")
            \/ Start(h, "create", o, t, "lock")
    BY <1>1, ArriveStarts
  <2>2. req' \in [Handlers -> Request \cup {None}]
    BY <2>1, StartType
  <2>3. UNCHANGED <<rowVars, lockVars, leaving, pastVars>>
    BY <2>1 DEF Start
  <2> QED
    BY <2>2, <2>3 DEF TypeOK, rowVars, lockVars
<1>2. ASSUME NEW h \in Handlers, withOrgLock(h) PROVE TypeOK'
  <2>1. req[h] # None
    BY <1>2 DEF withOrgLock, At
  <2>2. req' \in [Handlers -> Request \cup {None}]
    BY <1>2, <2>1, AdvanceType DEF withOrgLock
  <2>3. orgLock' \in [Orgs -> Handlers \cup {None}]
    BY <1>2, <2>1, RequestType DEF withOrgLock, TypeOK
  <2> QED
    BY <1>2, <2>2, <2>3 DEF withOrgLock, TypeOK, rowVars
<1>3. ASSUME NEW h \in Handlers, lockCreator(h) PROVE TypeOK'
  <2>1. req[h] # None
    BY <1>3 DEF lockCreator, At
  <2>2. req' \in [Handlers -> Request \cup {None}]
    BY <1>3, <2>1, AdvanceType DEF lockCreator
  <2>3. userLock' \in [Users -> Handlers \cup {None}]
    BY <1>3, <2>1, RequestType DEF lockCreator, TypeOK
  <2> QED
    BY <1>3, <2>2, <2>3 DEF lockCreator, TypeOK, rowVars
<1>4. ASSUME NEW h \in Handlers, assertNotLastAdmin(h) \/ checkCap(h) PROVE TypeOK'
  <2>1. req[h] # None
    BY <1>4 DEF assertNotLastAdmin, checkCap, At
  <2>2. UNCHANGED <<rowVars, leaving, pastVars>>
        /\ (End(h) \/ (Advance(h, "write") /\ UNCHANGED lockVars))
    BY <1>4 DEF assertNotLastAdmin, checkCap
  <2>3. CASE End(h)
    BY <2>2, <2>3, EndType DEF TypeOK, rowVars
  <2>4. CASE Advance(h, "write") /\ UNCHANGED lockVars
    <3>1. req' \in [Handlers -> Request \cup {None}]
      BY <2>1, <2>4, AdvanceType
    <3> QED
      BY <2>2, <2>4, <3>1 DEF TypeOK, rowVars, lockVars
  <2> QED
    BY <2>2, <2>3, <2>4
<1>5. ASSUME NEW h \in Handlers, writeMember(h) PROVE TypeOK'
  <2>1. /\ req[h] # None /\ req[h].o \in Orgs /\ req[h].t \in Users
        /\ req[h].op \in MemberOps
    BY <1>5, RequestType DEF writeMember, At
  <2>2. /\ End(h) /\ UNCHANGED <<users, org, leaving, bereaved>>
        /\ granted' = granted \/ granted' = granted \cup {req[h].t}
    BY <1>5 DEF writeMember
  <2>3. role' = role \/ \E r \in OrgRole \cup {None} : SetRole(req[h].o, req[h].t, r)
    BY <1>5, <2>1 DEF writeMember, MemberOps, GuardedOps
  <2>4. role' \in [Orgs -> [Users -> OrgRole \cup {None}]]
    BY <2>1, <2>3, SetRoleType DEF TypeOK
  <2> QED
    BY <2>1, <2>2, <2>4, EndType DEF TypeOK
<1>6. ASSUME NEW h \in Handlers, writeNewMember(h) PROVE TypeOK'
  <2>1. req[h] # None /\ req[h].o \in Orgs /\ req[h].t \in Users
    BY <1>6, RequestType DEF writeNewMember, At
  <2>2. End(h) /\ UNCHANGED <<users, org, leaving, pastVars>>
        /\ (role' = role \/ SetRole(req[h].o, req[h].t, "MEMBER"))
    BY <1>6 DEF writeNewMember
  <2>3. role' \in [Orgs -> [Users -> OrgRole \cup {None}]]
    BY <2>1, <2>2, SetRoleType DEF TypeOK
  <2> QED
    BY <2>2, <2>3, EndType DEF TypeOK
<1>7. ASSUME NEW h \in Handlers, writeNewOrg(h) PROVE TypeOK'
  <2>1. req[h] # None /\ req[h].o \in Orgs /\ req[h].t \in Users
    BY <1>7, RequestType DEF writeNewOrg, At
  <2>2. /\ End(h) /\ UNCHANGED <<users, leaving, pastVars>>
        /\ role' = role \/ SetRole(req[h].o, req[h].t, "ADMIN")
        /\ org' = org \/ org' = [org EXCEPT ![req[h].o] = "live"]
    BY <1>7 DEF writeNewOrg
  <2>3. role' \in [Orgs -> [Users -> OrgRole \cup {None}]]
    BY <2>1, <2>2, SetRoleType DEF TypeOK
  <2>4. org' \in [Orgs -> {"unborn", "live", "deleted"}]
    BY <2>2 DEF TypeOK
  <2> QED
    BY <2>2, <2>3, <2>4, EndType DEF TypeOK
<1>8. ASSUME NEW h \in Handlers, writeDeletedOrg(h) PROVE TypeOK'
  <2>1. End(h) /\ UNCHANGED <<users, leaving, pastVars>>
    BY <1>8 DEF writeDeletedOrg
  <2>2. /\ org' \in [Orgs -> {"unborn", "live", "deleted"}]
        /\ role' \in [Orgs -> [Users -> OrgRole \cup {None}]]
    BY <1>8 DEF writeDeletedOrg, Nobody, TypeOK
  <2> QED
    BY <2>1, <2>2, EndType DEF TypeOK
<1>9. ASSUME NEW u \in Users, NEW heir \in Heirs(u)
      PROVE  Promoted(u, heir) \in [Orgs -> [Users -> OrgRole \cup {None}]]
  BY <1>9 DEF Heirs, Promoted, TypeOK
<1>10. ASSUME NEW u \in Users, NEW r \in [Orgs -> [Users -> OrgRole \cup {None}]]
       PROVE  Without(u, r) \in [Orgs -> [Users -> OrgRole \cup {None}]]
  BY <1>10 DEF Without
<1>11. ASSUME NEW u \in Users, beforeUserDeletion(u) PROVE TypeOK'
  <2>1. PICK heir \in Heirs(u) :
            role' = Promoted(u, heir) /\ granted' = granted \cup Inheriting(u, heir)
    BY <1>11 DEF beforeUserDeletion
  <2>2. Inheriting(u, heir) \subseteq Users
    BY DEF Inheriting, Heirs
  <2> QED
    BY <1>9, <1>11, <2>1, <2>2 DEF beforeUserDeletion, TypeOK, lockVars
<1>12. ASSUME NEW u \in Users, deleteUserRow(u) PROVE TypeOK'
  BY <1>10, <1>12 DEF deleteUserRow, Left, TypeOK, lockVars
<1>13. ASSUME NEW u \in Users, deletionStops(u) PROVE TypeOK'
  BY <1>13 DEF deletionStops, TypeOK, rowVars, lockVars
<1>14. ASSUME NEW u \in Users, adminDeleteUser(u) PROVE TypeOK'
  <2>1. PICK heir \in Heirs(u) :
            /\ role' = Without(u, Promoted(u, heir))
            /\ granted' = granted \cup Inheriting(u, heir)
    BY <1>14 DEF adminDeleteUser
  <2>2. Inheriting(u, heir) \subseteq Users /\ Left(u) \subseteq Orgs
    BY DEF Inheriting, Heirs, Left
  <2> QED
    BY <1>9, <1>10, <1>14, <2>1, <2>2 DEF adminDeleteUser, TypeOK, lockVars
<1>15. CASE UNCHANGED vars
  BY <1>15 DEF vars, TypeOK
<1> QED
  BY <1>1, <1>2, <1>3, <1>4, <1>5, <1>6, <1>7, <1>8, <1>11, <1>12, <1>13, <1>14,
     <1>15 DEF Next, Leave, Acquire, Run

\* The model's types hold in every state.
THEOREM OrgsTypeCorrect == Spec => []TypeOK
<1>1. Init => TypeOK
  BY InitType
<1>2. TypeOK /\ [Next]_vars => TypeOK'
  BY NextType
<1> QED
  BY <1>1, <1>2, PTL DEF Spec

-----------------------------------------------------------------------------
(* Every organization keeps an ADMIN                                        *)

\* What every live organization has: an ADMIN, or a member whose account ended.
HasAdmin(o) == o \in bereaved \/ \E v \in Users : role[o][v] = "ADMIN"

\* The invariant in the form the steps need.
LEMMA AdminForm == OrgsHaveAnAdmin <=> \A o \in Orgs : org[o] = "live" => HasAdmin(o)
  BY DEF OrgsHaveAnAdmin, Admins, HasAdmin

\* A step that leaves the rows and the other requests alone, and gives no
\* lock away but that of a request h which ends.
LEMMA QuietStep ==
  ASSUME AdminInv, NEW h \in Handlers, UNCHANGED <<rowVars, bereaved>>, TypeOK',
         \A g \in Handlers \ {h} : req'[g] = req[g],
         \A o \in Orgs : orgLock[o] \in Handlers \ {h} => orgLock'[o] = orgLock[o],
         req'[h] # None =>
            /\ req'[h].op # "create" => org[req'[h].o] # "unborn"
            /\ req'[h].pc \in {"check", "write"} /\ req'[h].op \in MemberOps
                  => orgLock'[req'[h].o] = h \/ org[req'[h].o] = "deleted"
            /\ req'[h].pc = "write" /\ req'[h].op \in GuardedOps
                  => \/ org[req'[h].o] = "deleted"
                     \/ req'[h].o \in bereaved
                     \/ \E v \in Users \ {req'[h].t} : role[req'[h].o][v] = "ADMIN"
  PROVE  AdminInv'
<1>1. OrgLockInv'
  <2> SUFFICES ASSUME NEW g \in Handlers, (At(g, MemberOps, "check") \/ At(g, MemberOps, "write"))'
               PROVE  orgLock'[req'[g].o] = g \/ org'[req'[g].o] = "deleted"
    BY DEF OrgLockInv
  <2>1. CASE g = h
    BY <2>1 DEF At, rowVars
  <2>2. CASE g # h
    <3>1. req'[g] = req[g] /\ req[g] # None /\ req[g].o \in Orgs
      BY <2>2, RequestType DEF At, AdminInv
    <3>2. orgLock[req[g].o] = g \/ org[req[g].o] = "deleted"
      BY <3>1 DEF At, AdminInv, OrgLockInv
    <3> QED
      BY <2>2, <3>1, <3>2 DEF rowVars
  <2> QED
    BY <2>1, <2>2
<1>2. RequestInv'
  BY DEF RequestInv, AdminInv, rowVars
<1>3. GuardInv'
  BY DEF GuardInv, AdminInv, At, rowVars
<1>4. MembersInv' /\ OrgsHaveAnAdmin'
  BY DEF MembersInv, OrgsHaveAnAdmin, Admins, Nobody, AdminInv, rowVars
<1> QED
  BY <1>1, <1>2, <1>3, <1>4 DEF AdminInv

\* A request h that ends while it writes the rows of organization o: what the
\* other requests rely on is left alone if none of them holds o, or it is new,
\* or goes.
LEMMA WriteStep ==
  ASSUME AdminInv, NEW h \in Handlers, NEW o \in Orgs, End(h), TypeOK', bereaved' = bereaved,
         \A p \in Orgs \ {o} : role'[p] = role[p] /\ org'[p] = org[p],
         org[o] = "deleted" => org'[o] = "deleted",
         org[o] # "unborn" => org'[o] # "unborn",
         \/ orgLock[o] \in {h, None} /\ org'[o] = org[o]
         \/ org[o] = "unborn"
         \/ org'[o] = "deleted",
         org'[o] # "live" => role'[o] = Nobody,
         org'[o] = "live" => HasAdmin(o)'
  PROVE  AdminInv'
<1>1. ASSUME NEW g \in Handlers, req'[g] # None
      PROVE  /\ g # h /\ req'[g] = req[g] /\ req[g] # None
             /\ req[g].o \in Orgs /\ req[g].t \in Users
  <2>1. g # h /\ req'[g] = req[g]
    BY <1>1, EndType DEF AdminInv
  <2> QED
    BY <1>1, <2>1, RequestType DEF AdminInv
<1>2. OrgLockInv'
  <2> SUFFICES ASSUME NEW g \in Handlers, (At(g, MemberOps, "check") \/ At(g, MemberOps, "write"))'
               PROVE  orgLock'[req'[g].o] = g \/ org'[req'[g].o] = "deleted"
    BY DEF OrgLockInv
  <2>1. /\ g # h /\ req'[g] = req[g] /\ req[g].o \in Orgs
        /\ orgLock[req[g].o] = g \/ org[req[g].o] = "deleted"
    BY <1>1 DEF At, AdminInv, OrgLockInv
  <2> QED
    BY <2>1, EndType DEF AdminInv
<1>3. RequestInv'
  BY <1>1 DEF RequestInv, AdminInv
<1>4. GuardInv'
  <2> SUFFICES ASSUME NEW g \in Handlers, At(g, GuardedOps, "write")'
               PROVE  \/ org'[req'[g].o] = "deleted"
                      \/ req'[g].o \in bereaved'
                      \/ \E v \in Users \ {req'[g].t} : role'[req'[g].o][v] = "ADMIN"
    BY DEF GuardInv
  <2>1. /\ g # h /\ req'[g] = req[g] /\ req[g].o \in Orgs
        /\ At(g, GuardedOps, "write") /\ At(g, MemberOps, "write")
    BY <1>1 DEF At, MemberOps
  <2>2. /\ org[req[g].o] # "unborn"
        /\ orgLock[req[g].o] = g \/ org[req[g].o] = "deleted"
        /\ \/ org[req[g].o] = "deleted"
           \/ req[g].o \in bereaved
           \/ \E v \in Users \ {req[g].t} : role[req[g].o][v] = "ADMIN"
    BY <2>1 DEF AdminInv, OrgLockInv, RequestInv, GuardInv, At, GuardedOps
  <2> QED
    BY <2>1, <2>2, OrgsAssumption
<1>5. MembersInv'
  BY DEF MembersInv, AdminInv, Nobody
<1>6. OrgsHaveAnAdmin'
  BY AdminForm DEF AdminInv, OrgsHaveAnAdmin, Admins, HasAdmin
<1> QED
  BY <1>2, <1>3, <1>4, <1>5, <1>6 DEF AdminInv

\* A step of a leaving account: requests and locks stay, and ADMINs remain
\* where no member's account ended.
LEMMA LeaveStep ==
  ASSUME AdminInv, TypeOK', UNCHANGED <<org, lockVars, req>>,
         bereaved \subseteq bereaved',
         \A o \in Orgs : org[o] # "live" => role'[o] = Nobody,
         \A o \in Orgs \ bereaved' :
            \A v \in Users : role[o][v] = "ADMIN" => role'[o][v] = "ADMIN"
  PROVE  AdminInv'
<1>1. OrgLockInv' /\ RequestInv' /\ MembersInv'
  BY DEF AdminInv, OrgLockInv, RequestInv, MembersInv, Nobody, At, lockVars
<1>2. GuardInv'
  <2> SUFFICES ASSUME NEW g \in Handlers, At(g, GuardedOps, "write")',
                      org'[req'[g].o] # "deleted", req'[g].o \notin bereaved'
               PROVE  \E v \in Users \ {req'[g].t} : role'[req'[g].o][v] = "ADMIN"
    BY DEF GuardInv
  <2>1. /\ req'[g] = req[g] /\ req[g].o \in Orgs /\ At(g, GuardedOps, "write")
        /\ org[req[g].o] # "deleted" /\ req[g].o \notin bereaved
    BY RequestType DEF At, AdminInv
  <2>2. PICK v \in Users \ {req[g].t} : role[req[g].o][v] = "ADMIN"
    BY <2>1 DEF AdminInv, GuardInv
  <2> QED
    BY <2>1, <2>2
<1>3. OrgsHaveAnAdmin'
  BY AdminForm DEF AdminInv, OrgsHaveAnAdmin, Admins, HasAdmin
<1> QED
  BY <1>1, <1>2, <1>3 DEF AdminInv

\* Initially there is no organization and no request.
LEMMA InitAdmin == Init => AdminInv
<1> SUFFICES ASSUME Init PROVE AdminInv
  OBVIOUS
<1>1. TypeOK
  BY InitType
<1>2. OrgLockInv /\ RequestInv /\ GuardInv
  BY DEF Init, OrgLockInv, RequestInv, GuardInv, At
<1>3. MembersInv /\ OrgsHaveAnAdmin
  BY DEF Init, MembersInv, OrgsHaveAnAdmin
<1> QED
  BY <1>1, <1>2, <1>3 DEF AdminInv

\* No step breaks the invariant: a demotion or a removal relies on what it found under the lock of the organization.
LEMMA NextAdmin == AdminInv /\ [Next]_vars => AdminInv'
<1> SUFFICES ASSUME AdminInv, [Next]_vars PROVE AdminInv'
  OBVIOUS
<1> USE OrgsAssumption DEF pastVars
<1>0. TypeOK /\ TypeOK'
  BY NextType DEF AdminInv
<1>1. ASSUME NEW h \in Handlers, Arrive(h) PROVE AdminInv'
  <2>1. PICK o \in Orgs, t \in Users :
            \/ \E op \in MemberOps : org[o] = "live" /\ Start(h, op, o, t, "lock")
            \/ org[o] = "live" /\ Start(h, "add", o, t, "write")
            \/ org[o] = "live" /\ Start(h, "deleteOrg", o, t, "write")
            \/ Start(h, "create", o, t, "lock")
    BY <1>1, ArriveStarts
  <2>2. PICK op \in MemberOps \cup {"add", "deleteOrg", "create"},
             pc \in {"lock", "check", "write"} :
            /\ Start(h, op, o, t, pc)
            /\ op # "create" => org[o] = "live"
            /\ op \in MemberOps => pc = "lock"
    BY <2>1 DEF MemberOps, GuardedOps
  <2>3. /\ req'[h].op = op /\ req'[h].o = o /\ req'[h].t = t /\ req'[h].pc = pc
        /\ \A g \in Handlers \ {h} : req'[g] = req[g]
    BY <1>0, <2>2, StartType
  <2>4. UNCHANGED <<rowVars, lockVars, leaving, pastVars>>
    BY <2>2 DEF Start
  <2> QED
    BY <1>0, <2>2, <2>3, <2>4, QuietStep DEF lockVars, MemberOps
<1>2. ASSUME NEW h \in Handlers, withOrgLock(h) PROVE AdminInv'
  <2>1. req[h] # None /\ req[h].o \in Orgs /\ req[h].op \in MemberOps
    BY <1>0, <1>2, RequestType DEF withOrgLock, At
  <2>2. PICK pc \in {"check", "write"} :
            /\ Advance(h, pc)
            /\ pc = "write" => req[h].op \notin GuardedOps
    BY <1>2 DEF withOrgLock
  <2>3. /\ \A g \in Handlers \ {h} : req'[g] = req[g]
        /\ req'[h].op = req[h].op /\ req'[h].o = req[h].o /\ req'[h].pc = pc
    BY <1>0, <2>1, <2>2, AdvanceType
  <2>4. /\ org[req[h].o] \in {"live", "deleted"}
    BY <1>0, <2>1 DEF AdminInv, RequestInv, TypeOK, MemberOps, GuardedOps
  <2>5. /\ UNCHANGED <<rowVars, userLock, leaving, pastVars>>
        /\ orgLock[req[h].o] = None
        /\ orgLock' = IF org[req[h].o] = "live" THEN [orgLock EXCEPT ![req[h].o] = h]
                                                ELSE orgLock
    BY <1>2 DEF withOrgLock
  <2>6. /\ \A o \in Orgs : orgLock[o] \in Handlers \ {h} => orgLock'[o] = orgLock[o]
        /\ orgLock'[req[h].o] = h \/ org[req[h].o] = "deleted"
    BY <1>0, <2>1, <2>4, <2>5 DEF TypeOK
  <2> QED
    BY <1>0, <2>1, <2>2, <2>3, <2>4, <2>5, <2>6, QuietStep
<1>3. ASSUME NEW h \in Handlers, lockCreator(h) PROVE AdminInv'
  <2>1. req[h] # None /\ req[h].op = "create" /\ Advance(h, "check")
        /\ UNCHANGED <<rowVars, orgLock, leaving, pastVars>>
    BY <1>3 DEF lockCreator, At
  <2>2. /\ \A g \in Handlers \ {h} : req'[g] = req[g]
        /\ req'[h].op = "create"
    BY <1>0, <2>1, AdvanceType
  <2> QED
    BY <1>0, <2>1, <2>2, QuietStep DEF MemberOps, GuardedOps
<1>4. ASSUME NEW h \in Handlers, assertNotLastAdmin(h) PROVE AdminInv'
  <2>1. /\ req[h] # None /\ req[h].o \in Orgs /\ req[h].t \in Users
        /\ req[h].op \in GuardedOps /\ At(h, MemberOps, "check")
        /\ UNCHANGED <<rowVars, leaving, pastVars>>
    BY <1>0, <1>4, RequestType DEF assertNotLastAdmin, At, MemberOps
  <2>2. CASE End(h)
    <3> QED
      BY <1>0, <2>1, <2>2, EndType, QuietStep
  <2>3. CASE /\ Advance(h, "write") /\ UNCHANGED lockVars
             /\ role[req[h].o][req[h].t] # None /\ Admins(req[h].o) # {req[h].t}
    <3>1. /\ \A g \in Handlers \ {h} : req'[g] = req[g]
          /\ req'[h].op = req[h].op /\ req'[h].o = req[h].o /\ req'[h].t = req[h].t
      BY <1>0, <2>1, <2>3, AdvanceType
    <3>2. orgLock[req[h].o] = h \/ org[req[h].o] = "deleted"
      BY <2>1 DEF AdminInv, OrgLockInv
    <3>3. org[req[h].o] \in {"live", "deleted"}
      BY <1>0, <2>1 DEF AdminInv, RequestInv, TypeOK, GuardedOps
    <3>4. \/ org[req[h].o] = "deleted"
          \/ req[h].o \in bereaved
          \/ \E v \in Users \ {req[h].t} : role[req[h].o][v] = "ADMIN"
      <4>1. SUFFICES ASSUME org[req[h].o] = "live", req[h].o \notin bereaved
                     PROVE  \E v \in Users \ {req[h].t} : role[req[h].o][v] = "ADMIN"
        BY <3>3
      <4>2. Admins(req[h].o) # {}
        BY <2>1, <4>1 DEF AdminInv, OrgsHaveAnAdmin
      <4> QED
        BY <2>3, <4>2 DEF Admins
    <3> QED
      BY <1>0, <2>1, <2>3, <3>1, <3>2, <3>3, <3>4, QuietStep DEF lockVars
  <2> QED
    BY <1>4, <2>2, <2>3 DEF assertNotLastAdmin
<1>5. ASSUME NEW h \in Handlers, checkCap(h) PROVE AdminInv'
  <2>1. /\ req[h] # None /\ req[h].op = "create" /\ UNCHANGED <<rowVars, leaving, pastVars>>
        /\ End(h) \/ (Advance(h, "write") /\ UNCHANGED lockVars)
    BY <1>5 DEF checkCap, At
  <2>2. CASE End(h)
    <3> QED
      BY <1>0, <2>1, <2>2, EndType, QuietStep
  <2>3. CASE Advance(h, "write") /\ UNCHANGED lockVars
    <3>1. /\ \A g \in Handlers \ {h} : req'[g] = req[g]
          /\ req'[h].op = "create"
      BY <1>0, <2>1, <2>3, AdvanceType
    <3> QED
      BY <1>0, <2>1, <2>3, <3>1, QuietStep DEF lockVars, MemberOps, GuardedOps
  <2> QED
    BY <2>1, <2>2, <2>3
<1>6. ASSUME NEW h \in Handlers, writeMember(h) PROVE AdminInv'
  <2>1. PICK o \in Orgs, t \in Users :
        /\ o = req[h].o /\ t = req[h].t /\ req[h] # None /\ req[h].op \in MemberOps
        /\ At(h, MemberOps, "write") /\ End(h) /\ UNCHANGED <<users, org, leaving, bereaved>>
    BY <1>0, <1>6, RequestType DEF writeMember, At
  <2>2. /\ orgLock[o] = h \/ org[o] = "deleted"
        /\ org[o] \in {"live", "deleted"}
    BY <1>0, <2>1 DEF AdminInv, OrgLockInv, RequestInv, TypeOK, MemberOps, GuardedOps
  <2>3. CASE role[o][t] = None
    <3>1. UNCHANGED role
      BY <1>6, <2>1, <2>3 DEF writeMember
    <3>2. (org'[o] # "live" => role'[o] = Nobody) /\ (org'[o] = "live" => HasAdmin(o)')
      BY <2>1, <3>1, AdminForm DEF AdminInv, MembersInv, HasAdmin
    <3> QED
      BY <1>0, <2>1, <2>2, <3>1, <3>2, WriteStep
  <2>4. CASE role[o][t] # None
    <3>1. org[o] = "live" /\ orgLock[o] = h
      BY <2>1, <2>2, <2>4 DEF AdminInv, MembersInv, Nobody
    <3>2. PICK r \in OrgRole \cup {None} :
              /\ SetRole(o, t, r)
              /\ req[h].op \notin GuardedOps => r = "ADMIN"
      BY <1>6, <2>1, <2>4 DEF writeMember, MemberOps, GuardedOps, OrgRole
    <3>3. /\ role'[o][t] = r /\ \A v \in Users \ {t} : role'[o][v] = role[o][v]
          /\ \A p \in Orgs \ {o} : role'[p] = role[p]
      BY <1>0, <2>1, <3>2, SetRoleType
    <3>4. HasAdmin(o)'
      <4>1. CASE req[h].op \in GuardedOps
        <5>1. o \in bereaved \/ \E v \in Users \ {t} : role[o][v] = "ADMIN"
          BY <2>1, <3>1, <4>1 DEF AdminInv, GuardInv, At
        <5> QED
          BY <2>1, <3>3, <5>1 DEF HasAdmin
      <4>2. CASE req[h].op \notin GuardedOps
        BY <2>1, <3>2, <3>3, <4>2 DEF HasAdmin
      <4> QED
        BY <4>1, <4>2
    <3> QED
      BY <1>0, <2>1, <3>1, <3>3, <3>4, WriteStep
  <2> QED
    BY <2>3, <2>4
<1>7. ASSUME NEW h \in Handlers, writeNewMember(h) PROVE AdminInv'
  <2>1. PICK o \in Orgs, t \in Users :
        /\ o = req[h].o /\ t = req[h].t
        /\ End(h) /\ UNCHANGED <<users, org, leaving, pastVars>> /\ orgLock[o] = None
        /\ \/ UNCHANGED role
           \/ org[o] = "live" /\ role[o][t] = None /\ SetRole(o, t, "MEMBER")
    BY <1>0, <1>7, RequestType DEF writeNewMember, At
  <2>2. /\ \A p \in Orgs \ {o} : role'[p] = role[p]
        /\ org'[o] # "live" => role'[o] = role[o]
        /\ \A v \in Users : role[o][v] = "ADMIN" => role'[o][v] = "ADMIN"
    BY <1>0, <2>1, SetRoleType DEF OrgRole
  <2>3. (org'[o] # "live" => role'[o] = Nobody) /\ (org'[o] = "live" => HasAdmin(o)')
    BY <2>1, <2>2, AdminForm DEF AdminInv, MembersInv, HasAdmin
  <2> QED
    BY <1>0, <2>1, <2>2, <2>3, WriteStep
<1>8. ASSUME NEW h \in Handlers, writeNewOrg(h) PROVE AdminInv'
  <2>1. PICK o \in Orgs, u \in Users :
        /\ o = req[h].o /\ u = req[h].t /\ req[h].op = "create"
        /\ End(h) /\ UNCHANGED <<users, leaving, pastVars>>
    BY <1>0, <1>8, RequestType DEF writeNewOrg, At
  <2>2. CASE UNCHANGED <<org, role>>
    <3> QED
      BY <1>0, <2>1, <2>2, EndType, QuietStep DEF rowVars
  <2>3. CASE /\ org[o] = "unborn" /\ org' = [org EXCEPT ![o] = "live"]
             /\ SetRole(o, u, "ADMIN")
    <3>1. /\ org'[o] = "live" /\ \A p \in Orgs \ {o} : org'[p] = org[p]
          /\ HasAdmin(o)' /\ \A p \in Orgs \ {o} : role'[p] = role[p]
      BY <1>0, <2>1, <2>3, SetRoleType DEF TypeOK, HasAdmin, OrgRole
    <3> QED
      BY <1>0, <2>1, <2>3, <3>1, WriteStep
  <2> QED
    BY <1>8, <2>1, <2>2, <2>3 DEF writeNewOrg
<1>9. ASSUME NEW h \in Handlers, writeDeletedOrg(h) PROVE AdminInv'
  <2>1. PICK o \in Orgs : o = req[h].o
        /\ End(h) /\ UNCHANGED <<users, leaving, pastVars>>
        /\ org' = [org EXCEPT ![o] = "deleted"] /\ role' = [role EXCEPT ![o] = Nobody]
    BY <1>0, <1>9, RequestType DEF writeDeletedOrg, At
  <2>2. /\ org'[o] = "deleted" /\ role'[o] = Nobody
        /\ \A p \in Orgs \ {o} : role'[p] = role[p] /\ org'[p] = org[p]
    BY <1>0, <2>1 DEF TypeOK
  <2> QED
    BY <1>0, <2>1, <2>2, WriteStep
<1>10. ASSUME NEW u \in Users, NEW heir \in Heirs(u), NEW o \in Orgs
       PROVE  /\ org[o] # "live" => Promoted(u, heir)[o] = Nobody
              /\ \A v \in Users : role[o][v] = "ADMIN" => Promoted(u, heir)[o][v] = "ADMIN"
              /\ role[o][u] = None => Promoted(u, heir)[o] = role[o]
  <2>1. Orphaned(o, u) => role[o][u] = "ADMIN" /\ org[o] = "live"
    BY DEF Orphaned, Admins, AdminInv, MembersInv, Nobody
  <2>2. heir[o] \in Users
    BY DEF Heirs
  <2> QED
    BY <1>0, <2>1, <2>2 DEF Promoted, AdminInv, MembersInv, TypeOK
<1>11. ASSUME NEW u \in Users, NEW o \in Orgs,
              NEW r \in [Orgs -> [Users -> OrgRole \cup {None}]]
       PROVE  /\ r[o] = Nobody => Without(u, r)[o] = Nobody
              /\ r[o][u] = None => Without(u, r)[o] = r[o]
  BY DEF Without, Nobody
<1>12. ASSUME NEW u \in Users, beforeUserDeletion(u) PROVE AdminInv'
  <2>1. PICK heir \in Heirs(u) : role' = Promoted(u, heir)
    BY <1>12 DEF beforeUserDeletion
  <2>2. UNCHANGED <<users, org, lockVars, req, bereaved>>
    BY <1>12 DEF beforeUserDeletion
  <2> QED
    BY <1>0, <1>10, <2>1, <2>2, LeaveStep
<1>13. ASSUME NEW u \in Users, deleteUserRow(u) PROVE AdminInv'
  <2>1. /\ UNCHANGED <<org, lockVars, req>>
        /\ bereaved' = bereaved \cup Left(u) /\ role' = Without(u, role)
    BY <1>13 DEF deleteUserRow
  <2>2. role \in [Orgs -> [Users -> OrgRole \cup {None}]]
    BY <1>0 DEF TypeOK
  <2>3. \A o \in Orgs : /\ org[o] # "live" => role'[o] = Nobody
                        /\ o \notin bereaved' => role'[o] = role[o]
    BY <1>11, <2>1, <2>2 DEF Left, AdminInv, MembersInv
  <2>4. bereaved \subseteq bereaved'
    BY <2>1
  <2>5. \A o \in Orgs : org[o] # "live" => role'[o] = Nobody
    BY <2>3
  <2>6. \A o \in Orgs \ bereaved' :
           \A v \in Users : role[o][v] = "ADMIN" => role'[o][v] = "ADMIN"
    BY <2>3
  <2> QED
    BY <1>0, <2>1, <2>4, <2>5, <2>6, LeaveStep
<1>14. ASSUME NEW u \in Users, deletionStops(u) PROVE AdminInv'
  <2>1. UNCHANGED <<rowVars, lockVars, req, bereaved>>
    BY <1>14 DEF deletionStops
  <2> QED
    BY <1>0, <2>1, LeaveStep DEF rowVars, AdminInv, MembersInv
<1>15. ASSUME NEW u \in Users, adminDeleteUser(u) PROVE AdminInv'
  <2>1. PICK heir \in Heirs(u) : role' = Without(u, Promoted(u, heir))
    BY <1>15 DEF adminDeleteUser
  <2>2. UNCHANGED <<org, lockVars, req>> /\ bereaved' = bereaved \cup Left(u)
    BY <1>15 DEF adminDeleteUser
  <2>3. Promoted(u, heir) \in [Orgs -> [Users -> OrgRole \cup {None}]]
    BY <1>0 DEF Heirs, Promoted, TypeOK, OrgRole
  <2>4. \A o \in Orgs : /\ org[o] # "live" => role'[o] = Nobody
                        /\ o \notin bereaved' => role'[o] = role[o]
    BY <1>10, <1>11, <2>1, <2>2, <2>3 DEF Left
  <2>5. bereaved \subseteq bereaved'
    BY <2>2
  <2>6. \A o \in Orgs : org[o] # "live" => role'[o] = Nobody
    BY <2>4
  <2>7. \A o \in Orgs \ bereaved' :
           \A v \in Users : role[o][v] = "ADMIN" => role'[o][v] = "ADMIN"
    BY <2>4
  <2> QED
    BY <1>0, <2>2, <2>5, <2>6, <2>7, LeaveStep
<1>16. CASE UNCHANGED vars
  BY <1>16 DEF vars, AdminInv, TypeOK, OrgLockInv, RequestInv, GuardInv,
               MembersInv, OrgsHaveAnAdmin, Admins, At
<1> QED
  BY <1>1, <1>2, <1>3, <1>4, <1>5, <1>6, <1>7, <1>8, <1>9, <1>12, <1>13, <1>14, <1>15, <1>16
     DEF Next, Leave, Acquire, Run

\* However requests and deletions of accounts race, an organization keeps an
\* ADMIN until it loses a member's account.
THEOREM OrganizationsKeepAnAdmin == Spec => []OrgsHaveAnAdmin
<1>1. Init => AdminInv
  BY InitAdmin
<1>2. AdminInv /\ [Next]_vars => AdminInv'
  BY NextAdmin
<1>3. AdminInv => OrgsHaveAnAdmin
  BY DEF AdminInv
<1> QED
  BY <1>1, <1>2, <1>3, PTL DEF Spec

-----------------------------------------------------------------------------
(* Nobody founds more than MaxOrgs organizations                            *)

\* Sets of organizations are finite, and smaller ones have fewer members.
LEMMA OrgSets ==
  ASSUME NEW T \in SUBSET Orgs, NEW S \in SUBSET T
  PROVE  /\ IsFiniteSet(S) /\ Cardinality(S) \in Nat /\ Cardinality(T) \in Nat
         /\ Cardinality(S) <= Cardinality(T)
<1>1. IsFiniteSet(T)
  BY OrgsAssumption, FS_Subset
<1> QED
  BY <1>1, FS_Subset, FS_CardinalityType

\* One more member counts for one at most.
LEMMA OneMore ==
  ASSUME NEW S, NEW x, IsFiniteSet(S)
  PROVE  /\ Cardinality(S \cup {x}) \in Nat
         /\ Cardinality(S \cup {x}) <= Cardinality(S) + 1
<1>1. /\ IsFiniteSet(S \cup {x}) /\ Cardinality(S) \in Nat
      /\ Cardinality(S \cup {x}) = IF x \in S THEN Cardinality(S) ELSE Cardinality(S) + 1
  BY FS_AddElement, FS_CardinalityType
<1> QED
  BY <1>1

\* What a user owns.
LEMMA OwnedSet ==
  ASSUME NEW u \in Users
  PROVE  /\ Owned(u) \in SUBSET Orgs /\ Owned(u)' \in SUBSET Orgs
  BY DEF Owned

\* A step in which nobody's organizations become more, but for those whom
\* another made an ADMIN, and request h (None when an account leaves) either
\* ends or goes on with what the invariant asks of it.
LEMMA NoGainStep ==
  ASSUME CapInv, NEW h \in Handlers \cup {None}, TypeOK',
         users' \subseteq users, granted \subseteq granted',
         \A g \in Handlers \ {h} : req'[g] = req[g],
         \A u \in Users : userLock[u] \in Handlers \ {h} => userLock'[u] = userLock[u],
         \A u \in Users \ granted' : Owned(u)' \in SUBSET Owned(u),
         h \in Handlers /\ req'[h] # None =>
            /\ req'[h].op = "create" /\ req'[h].pc \in {"check", "write"}
                  => userLock'[req'[h].t] = h \/ req'[h].t \notin users
            /\ req'[h].op = "create" /\ req'[h].pc = "write"
                  => req'[h].t \in granted \/ Cardinality(Owned(req'[h].t)) < MaxOrgs
  PROVE  CapInv'
<1>1. ASSUME NEW g \in Handlers \ {h}, req'[g] # None
      PROVE  req'[g] = req[g] /\ req[g] # None /\ req[g].t \in Users
  BY <1>1, RequestType DEF CapInv
<1>2. ASSUME NEW u \in Users \ granted'
      PROVE  /\ Cardinality(Owned(u)) \in Nat /\ Cardinality(Owned(u)') \in Nat
             /\ Cardinality(Owned(u)') <= Cardinality(Owned(u))
  BY <1>2, OwnedSet, OrgSets
<1>3. UserLockInv'
  <2> SUFFICES ASSUME NEW g \in Handlers, (At(g, {"create"}, "check") \/ At(g, {"create"}, "write"))'
               PROVE  userLock'[req'[g].t] = g \/ req'[g].t \notin users'
    BY DEF UserLockInv
  <2>1. CASE g = h
    BY <2>1 DEF At
  <2>2. CASE g # h
    <3>1. req'[g] = req[g] /\ req[g] # None /\ req[g].t \in Users
      BY <1>1, <2>2 DEF At
    <3>2. userLock[req[g].t] = g \/ req[g].t \notin users
      BY <3>1 DEF At, CapInv, UserLockInv
    <3> QED
      BY <2>2, <3>1, <3>2
  <2> QED
    BY <2>1, <2>2
<1>4. CountInv'
  <2> SUFFICES ASSUME NEW g \in Handlers, At(g, {"create"}, "write")',
                      req'[g].t \notin granted'
               PROVE  Cardinality({o \in Orgs : role'[o][req'[g].t] = "ADMIN"}) < MaxOrgs
    BY DEF CountInv, Owned
  <2>1. PICK u \in Users : u = req'[g].t
    BY DEF At, TypeOK, Request
  <2>2. Cardinality(Owned(u)) < MaxOrgs
    <3>1. CASE g = h
      BY <2>1, <3>1 DEF At, Owned
    <3>2. CASE g # h
      BY <1>1, <2>1, <3>2 DEF At, CapInv, CountInv
    <3> QED
      BY <3>1, <3>2
  <2>3. Cardinality(Owned(u)') < MaxOrgs
    BY <1>2, <2>1, <2>2, OrgsAssumption
  <2> QED
    BY <2>1, <2>3 DEF Owned
<1>5. OwnsAtMostMax'
  <2> SUFFICES ASSUME NEW u \in Users \ granted' PROVE Cardinality(Owned(u)') <= MaxOrgs
    BY DEF OwnsAtMostMax
  <2>1. Cardinality(Owned(u)) <= MaxOrgs
    BY DEF CapInv, OwnsAtMostMax
  <2> QED
    BY <1>2, <2>1, OrgsAssumption
<1> QED
  BY <1>3, <1>4, <1>5 DEF CapInv

\* Nobody owns anything at first.
LEMMA InitCap == Init => CapInv
<1> SUFFICES ASSUME Init PROVE CapInv
  OBVIOUS
<1>1. TypeOK
  BY InitType
<1>2. UserLockInv /\ CountInv
  BY DEF Init, UserLockInv, CountInv, At
<1>3. OwnsAtMostMax
  <2> SUFFICES ASSUME NEW u \in Users PROVE Cardinality(Owned(u)) <= MaxOrgs
    BY DEF OwnsAtMostMax
  <2>1. Owned(u) = {}
    BY OrgsAssumption DEF Init, Owned, Nobody
  <2> QED
    BY <2>1, FS_EmptySet, OrgsAssumption
<1> QED
  BY <1>1, <1>2, <1>3 DEF CapInv

\* The invariant survives every step: the count of a creation stays true while
\* the row of its user is locked, since nothing else makes the user an ADMIN but
\* what it is granted.
LEMMA NextCap == CapInv /\ [Next]_vars => CapInv'
<1> SUFFICES ASSUME CapInv, [Next]_vars PROVE CapInv'
  OBVIOUS
<1> USE OrgsAssumption DEF pastVars
<1>0. TypeOK /\ TypeOK'
  BY NextType DEF CapInv
<1>1. ASSUME role' = role, NEW u \in Users PROVE Owned(u)' \in SUBSET Owned(u)
  BY <1>1 DEF Owned
<1>2. ASSUME NEW h \in Handlers, End(h), UNCHANGED users, granted \subseteq granted',
             \A u \in Users \ granted' : Owned(u)' \in SUBSET Owned(u)
      PROVE  CapInv'
  <2> QED
    BY <1>0, <1>2, EndType, NoGainStep
<1>3. ASSUME NEW h \in Handlers, Arrive(h) PROVE CapInv'
  <2>1. PICK o \in Orgs, t \in Users, op \in MemberOps \cup {"add", "deleteOrg", "create"},
             pc \in {"lock", "check", "write"} :
            Start(h, op, o, t, pc) /\ (op = "create" => pc = "lock")
    BY <1>3, ArriveStarts DEF MemberOps, GuardedOps
  <2>2. /\ req'[h].op = op /\ req'[h].t = t /\ req'[h].pc = pc
        /\ \A g \in Handlers \ {h} : req'[g] = req[g]
    BY <1>0, <2>1, StartType
  <2>3. UNCHANGED <<rowVars, lockVars, leaving, pastVars>>
    BY <2>1 DEF Start
  <2> QED
    BY <1>0, <1>1, <2>1, <2>2, <2>3, NoGainStep DEF rowVars, lockVars
<1>4. ASSUME NEW h \in Handlers, withOrgLock(h) PROVE CapInv'
  <2>1. /\ req[h] # None /\ req[h].op \in MemberOps
        /\ UNCHANGED <<rowVars, userLock, leaving, pastVars>>
    BY <1>4 DEF withOrgLock, At
  <2>2. /\ \A g \in Handlers \ {h} : req'[g] = req[g]
        /\ req'[h].op = req[h].op
    BY <1>0, <1>4, <2>1, AdvanceType DEF withOrgLock
  <2> QED
    BY <1>0, <1>1, <2>1, <2>2, NoGainStep DEF rowVars, MemberOps, GuardedOps
<1>5. ASSUME NEW h \in Handlers, lockCreator(h) PROVE CapInv'
  <2>1. /\ req[h] # None /\ req[h].op = "create" /\ Advance(h, "check")
        /\ UNCHANGED <<rowVars, orgLock, leaving, pastVars>>
    BY <1>5 DEF lockCreator, At
  <2>2. PICK u \in Users :
            /\ u = req[h].t /\ userLock[u] = None
            /\ userLock' = IF u \in users THEN [userLock EXCEPT ![u] = h] ELSE userLock
    BY <1>0, <1>5, <2>1, RequestType DEF lockCreator
  <2>3. /\ \A g \in Handlers \ {h} : req'[g] = req[g]
        /\ req'[h].op = "create" /\ req'[h].t = u /\ req'[h].pc = "check"
    BY <1>0, <2>1, <2>2, AdvanceType
  <2>4. /\ userLock'[u] = h \/ u \notin users
        /\ \A v \in Users : userLock[v] \in Handlers \ {h} => userLock'[v] = userLock[v]
    BY <1>0, <2>2 DEF TypeOK
  <2> QED
    BY <1>0, <1>1, <2>1, <2>3, <2>4, NoGainStep DEF rowVars
<1>6. ASSUME NEW h \in Handlers, assertNotLastAdmin(h) PROVE CapInv'
  <2>1. /\ req[h] # None /\ req[h].op \in GuardedOps /\ UNCHANGED <<rowVars, leaving, pastVars>>
        /\ End(h) \/ (Advance(h, "write") /\ UNCHANGED lockVars)
    BY <1>6 DEF assertNotLastAdmin, At
  <2>2. CASE End(h)
    BY <1>1, <1>2, <2>1, <2>2 DEF rowVars
  <2>3. CASE Advance(h, "write") /\ UNCHANGED lockVars
    <3>1. /\ \A g \in Handlers \ {h} : req'[g] = req[g]
          /\ req'[h].op = req[h].op
      BY <1>0, <2>1, <2>3, AdvanceType
    <3> QED
      BY <1>0, <1>1, <2>1, <2>3, <3>1, NoGainStep DEF rowVars, lockVars, GuardedOps
  <2> QED
    BY <2>1, <2>2, <2>3
<1>7. ASSUME NEW h \in Handlers, checkCap(h) PROVE CapInv'
  <2>1. /\ req[h] # None /\ req[h].op = "create" /\ At(h, {"create"}, "check")
        /\ UNCHANGED <<rowVars, leaving, pastVars>>
    BY <1>7 DEF checkCap, At
  <2>2. CASE End(h)
    BY <1>1, <1>2, <2>1, <2>2 DEF rowVars
  <2>3. CASE /\ Advance(h, "write") /\ UNCHANGED lockVars
             /\ ~(Cardinality(Owned(req[h].t)) >= MaxOrgs)
    <3>1. PICK u \in Users : u = req[h].t
      BY <1>0, <2>1, RequestType
    <3>2. /\ \A g \in Handlers \ {h} : req'[g] = req[g]
          /\ req'[h].op = "create" /\ req'[h].t = u
      BY <1>0, <2>1, <2>3, <3>1, AdvanceType
    <3>3. userLock'[u] = h \/ u \notin users
      BY <2>1, <2>3, <3>1 DEF CapInv, UserLockInv, lockVars
    <3>4. Cardinality(Owned(u)) < MaxOrgs
      <4>1. Cardinality(Owned(u)) \in Nat
        BY OwnedSet, OrgSets
      <4> QED
        BY <2>3, <3>1, <4>1
    <3> QED
      BY <1>0, <1>1, <2>1, <2>3, <3>2, <3>3, <3>4, NoGainStep DEF rowVars, lockVars
  <2> QED
    BY <1>7, <2>2, <2>3 DEF checkCap
<1>8. ASSUME NEW h \in Handlers, writeMember(h) PROVE CapInv'
  <2>1. PICK o \in Orgs, t \in Users :
        /\ o = req[h].o /\ t = req[h].t /\ req[h].op \in MemberOps
        /\ End(h) /\ UNCHANGED <<users, org, leaving, bereaved>>
    BY <1>0, <1>8, RequestType DEF writeMember, At
  <2>2. granted \subseteq granted'
    BY <1>8 DEF writeMember
  <2>3. \/ UNCHANGED role
        \/ \E r \in {"MEMBER", None} : SetRole(o, t, r)
        \/ SetRole(o, t, "ADMIN") /\ (t \in granted' \/ role[o][t] = "ADMIN")
    <3>1. role[o][t] \in {"ADMIN", "MEMBER", None}
      BY <1>0 DEF TypeOK, OrgRole
    <3> QED
      BY <1>8, <2>1, <3>1 DEF writeMember, MemberOps, GuardedOps
  <2>4. \A u \in Users \ granted' : Owned(u)' \in SUBSET Owned(u)
    BY <1>0, <2>3, SetRoleType DEF Owned, OrgRole
  <2> QED
    BY <1>2, <2>1, <2>2, <2>4
<1>9. ASSUME NEW h \in Handlers, writeNewMember(h) PROVE CapInv'
  <2>1. PICK o \in Orgs, t \in Users :
        /\ End(h) /\ UNCHANGED <<users, org, leaving, pastVars>>
        /\ UNCHANGED role \/ SetRole(o, t, "MEMBER")
    BY <1>0, <1>9, RequestType DEF writeNewMember, At
  <2>2. \A u \in Users : Owned(u)' \in SUBSET Owned(u)
    BY <1>0, <2>1, SetRoleType DEF Owned, OrgRole
  <2> QED
    BY <1>2, <2>1, <2>2
<1>10. ASSUME NEW h \in Handlers, writeNewOrg(h) PROVE CapInv'
  <2>1. PICK o \in Orgs, u \in Users :
        /\ o = req[h].o /\ u = req[h].t /\ At(h, {"create"}, "write")
        /\ End(h) /\ UNCHANGED <<users, leaving, pastVars>>
    BY <1>0, <1>10, RequestType DEF writeNewOrg, At
  <2>2. CASE UNCHANGED role
    BY <1>1, <1>2, <2>1, <2>2
  <2>3. CASE SetRole(o, u, "ADMIN") /\ u \in users
    <3>1. /\ userLock[u] = h /\ u \in users
          /\ u \in granted \/ Cardinality(Owned(u)) < MaxOrgs
      BY <2>1, <2>3 DEF CapInv, UserLockInv, CountInv
    <3>2. /\ Owned(u)' = Owned(u) \cup {o}
          /\ \A v \in Users \ {u} : Owned(v)' = Owned(v)
      BY <1>0, <2>3, SetRoleType DEF Owned, OrgRole
    <3>3. u \in granted \/ Cardinality(Owned(u)') <= MaxOrgs
      <4>1. IsFiniteSet(Owned(u)) /\ Cardinality(Owned(u)) \in Nat
        BY OwnedSet, OrgSets
      <4>2. /\ Cardinality(Owned(u) \cup {o}) \in Nat
            /\ Cardinality(Owned(u) \cup {o}) <= Cardinality(Owned(u)) + 1
        BY <4>1, OneMore
      <4> QED
        BY <3>1, <3>2, <4>1, <4>2
    <3>4. ASSUME NEW g \in Handlers, req'[g] # None
          PROVE  g # h /\ req'[g] = req[g] /\ req[g] # None /\ req[g].t \in Users
      BY <1>0, <2>1, <3>4, EndType, RequestType
    <3>5. UserLockInv'
      <4> SUFFICES ASSUME NEW g \in Handlers,
                          (At(g, {"create"}, "check") \/ At(g, {"create"}, "write"))'
                   PROVE  userLock'[req'[g].t] = g \/ req'[g].t \notin users'
        BY DEF UserLockInv
      <4>1. g # h /\ req'[g] = req[g] /\ req[g].t \in Users
        BY <3>4 DEF At
      <4>2. userLock[req[g].t] = g \/ req[g].t \notin users
        BY <4>1 DEF At, CapInv, UserLockInv
      <4> QED
        BY <1>0, <2>1, <4>1, <4>2, EndType
    <3>6. CountInv'
      <4> SUFFICES ASSUME NEW g \in Handlers, At(g, {"create"}, "write")',
                          req'[g].t \notin granted'
                   PROVE  Cardinality({p \in Orgs : role'[p][req'[g].t] = "ADMIN"}) < MaxOrgs
        BY DEF CountInv, Owned
      <4>1. PICK v \in Users :
                v = req[g].t /\ v = req'[g].t /\ g # h /\ At(g, {"create"}, "write")
        BY <3>4 DEF At
      <4>2. (userLock[v] = g \/ v \notin users) /\ Cardinality(Owned(v)) < MaxOrgs
        BY <2>1, <4>1 DEF CapInv, UserLockInv, CountInv
      <4>3. Owned(v)' = Owned(v)
        BY <3>1, <3>2, <4>1, <4>2
      <4>4. Cardinality(Owned(v)') < MaxOrgs
        BY <4>2, <4>3
      <4> QED
        BY <4>1, <4>4 DEF Owned
    <3>7. OwnsAtMostMax'
      BY <2>1, <3>2, <3>3 DEF OwnsAtMostMax, CapInv
    <3> QED
      BY <1>0, <3>5, <3>6, <3>7 DEF CapInv
  <2> QED
    BY <1>10, <2>1, <2>2, <2>3 DEF writeNewOrg
<1>11. ASSUME NEW h \in Handlers, writeDeletedOrg(h) PROVE CapInv'
  <2>1. PICK o \in Orgs :
        /\ End(h) /\ UNCHANGED <<users, leaving, pastVars>> /\ role' = [role EXCEPT ![o] = Nobody]
    BY <1>0, <1>11, RequestType DEF writeDeletedOrg, At
  <2>2. \A u \in Users : Owned(u)' \in SUBSET Owned(u)
    BY <1>0, <2>1 DEF Owned, Nobody, TypeOK
  <2> QED
    BY <1>2, <2>1, <2>2
<1>12. ASSUME NEW u \in Users, NEW heir \in Heirs(u),
              NEW v \in Users \ Inheriting(u, heir), NEW o \in Orgs
       PROVE  /\ Promoted(u, heir)[o][v] = role[o][v]
              /\ Without(u, Promoted(u, heir))[o][v] \in {role[o][v], None}
  <2>1. Orphaned(o, u) => heir[o] # v
    BY DEF Inheriting
  <2>2. Promoted(u, heir)[o][v] = role[o][v]
    BY <1>0, <2>1 DEF Promoted, TypeOK
  <2>3. Promoted(u, heir)[o] \in [Users -> OrgRole \cup {None}]
    BY <1>0 DEF Promoted, Heirs, TypeOK, OrgRole
  <2> QED
    BY <2>2, <2>3 DEF Without
<1>13. ASSUME NEW u \in Users, beforeUserDeletion(u) PROVE CapInv'
  <2>1. PICK heir \in Heirs(u) :
            role' = Promoted(u, heir) /\ granted' = granted \cup Inheriting(u, heir)
    BY <1>13 DEF beforeUserDeletion
  <2>2. \A v \in Users \ granted' : Owned(v)' \in SUBSET Owned(v)
    BY <1>12, <2>1 DEF Owned
  <2>3. UNCHANGED <<users, org, lockVars, req, bereaved>>
    BY <1>13 DEF beforeUserDeletion
  <2> QED
    BY <1>0, <2>1, <2>2, <2>3, NoGainStep DEF lockVars
<1>14. ASSUME NEW u \in Users, deleteUserRow(u) PROVE CapInv'
  <2>1. /\ UNCHANGED <<org, lockVars, req, granted>> /\ users' \subseteq users
        /\ role' = Without(u, role)
    BY <1>14 DEF deleteUserRow
  <2>2. \A v \in Users : Owned(v)' \in SUBSET Owned(v)
    BY <1>0, <2>1 DEF Owned, Without, TypeOK
  <2> QED
    BY <1>0, <2>1, <2>2, NoGainStep DEF lockVars
<1>15. ASSUME NEW u \in Users, deletionStops(u) PROVE CapInv'
  <2>1. UNCHANGED <<rowVars, lockVars, req, pastVars>>
    BY <1>15 DEF deletionStops
  <2> QED
    BY <1>0, <1>1, <2>1, NoGainStep DEF rowVars, lockVars
<1>16. ASSUME NEW u \in Users, adminDeleteUser(u) PROVE CapInv'
  <2>1. PICK heir \in Heirs(u) :
            /\ role' = Without(u, Promoted(u, heir))
            /\ granted' = granted \cup Inheriting(u, heir)
    BY <1>16 DEF adminDeleteUser
  <2>2. \A v \in Users \ granted' : Owned(v)' \in SUBSET Owned(v)
    BY <1>12, <2>1 DEF Owned
  <2>3. UNCHANGED <<org, lockVars, req>> /\ users' \subseteq users
    BY <1>16 DEF adminDeleteUser
  <2> QED
    BY <1>0, <2>1, <2>2, <2>3, NoGainStep DEF lockVars
<1>17. CASE UNCHANGED vars
  BY <1>17 DEF vars, CapInv, TypeOK, UserLockInv, CountInv, OwnsAtMostMax, Owned, At
<1> QED
  BY <1>3, <1>4, <1>5, <1>6, <1>7, <1>8, <1>9, <1>10, <1>11, <1>13, <1>14, <1>15,
     <1>16, <1>17 DEF Next, Leave, Acquire, Run

\* However a user's POSTs race, the user owns at most MaxOrgs organizations as
\* long as no other request makes it an ADMIN.
THEOREM NobodyFoundsTooMany == Spec => []OwnsAtMostMax
<1>1. Init => CapInv
  BY InitCap
<1>2. CapInv /\ [Next]_vars => CapInv'
  BY NextCap
<1>3. CapInv => OwnsAtMostMax
  BY DEF CapInv
<1> QED
  BY <1>1, <1>2, <1>3, PTL DEF Spec
=============================================================================
