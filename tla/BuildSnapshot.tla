---------------------------- MODULE BuildSnapshot ----------------------------
(***************************************************************************)
(* The anonymous build page and its snapshot in Workers KV.                *)
(*                                                                         *)
(* Postgres (rows, links) is the truth.  kv holds, per slug, the JSON body *)
(* an anonymous viewer is served.  Two kinds of background writers put it: *)
(* a read-through after a miss, and the refresh every mutation owes to the *)
(* builds whose page it changed.  A writer LOADS the page from Postgres    *)
(* and PUTS it later, so a put may carry a page that is no longer true;    *)
(* KV is last-writer-wins.  Against that each refresh runs twice,          *)
(* RACE_REFRESH_MS apart.                                                  *)
(*                                                                         *)
(* Timing assumption (the comment on RACE_REFRESH_MS): whatever was loaded *)
(* before the wait of a refresh begins is put before the wait ends.        *)
(***************************************************************************)
EXTENDS Naturals, FiniteSets

CONSTANTS
    Builds,     \* slugs; a slug is never used again after its build is gone
    Users,      \* authors
    AuthorOf,   \* Build.userId, fixed at creation
    Handlers,   \* concurrent API requests that write
    Readers,    \* concurrent anonymous reads that missed
    Deletable,  \* bound: the builds that get deleted on their own
    Leavers,    \* bound: the users whose account is deleted
    Visibility, \* bound: the visibilities authors and admins choose from
    Missing,    \* no such key; also the answer "not found"
    MaxWrites,  \* bound on committed mutations
    MaxFaults   \* bound on lost invocations and failed background writes

\* One refresh job per handler and slug it passes to invalidateBuilds.
Jobs    == Handlers \X Builds
Writers == Readers \cup Jobs

Idle == "idle"

ASSUME SnapshotAssumption ==
    /\ AuthorOf \in [Builds -> Users]
    /\ Readers \cap Jobs = {}
    /\ Idle \notin Builds
    /\ Deletable \subseteq Builds /\ Leavers \subseteq Users
    /\ Visibility \subseteq {"PUBLIC", "UNLISTED", "PRIVATE"}
    /\ MaxWrites \in Nat /\ MaxFaults \in Nat

AnonVisible     == {"PUBLIC", "UNLISTED"}
BuildVisibility == AnonVisible \cup {"PRIVATE"}

\* ver: what the page and the build's card in its partners' strips show;
\* lay: what only the page shows (order and variant targets of the strip).
Row == [life : {"unborn", "live", "deleted"}, vis : BuildVisibility,
        ver : Nat, lay : Nat]

Card == [b : Builds, ver : Nat]
Body == [ver : Nat, vis : AnonVisible, lay : Nat, strip : SUBSET Card]

Loading     == {"load1", "load2"}
Putting     == {"put1", "put2"}
Phase       == {Idle, "owed", "wait"} \cup Loading \cup Putting
HandlerStep == {Idle, "deleteBuild", "deleteUser"}

VARIABLES
    rows,     \* builds table
    links,    \* partnerBuilds join rows, both directions
    kv,       \* BUILD_SNAPSHOTS
    reader,   \* [Readers -> step of an anonymous miss and the slug it reads]
    loaded,   \* [Writers -> the page a writer has loaded and not yet put]
    phase,    \* [Jobs -> step of refreshWithRaceCover]
    racing,   \* [Jobs -> writers the wait of that job outlasts]
    step,     \* [Handlers -> step of a delete handler]
    scope,    \* [Handlers -> builds its delete removes]
    slugs,    \* [Handlers -> what snapshotSlugs returned]
    lapsed,   \* history: builds left to the TTL (see CommitDelete, Faults)
              \* until the next write of theirs
    writes, faults

dbVars  == <<rows, links, writes>>
jobVars == <<phase, racing>>
delVars == <<step, scope, slugs>>
vars    == <<rows, links, kv, reader, loaded, phase, racing, step, scope,
             slugs, lapsed, writes, faults>>

-----------------------------------------------------------------------------
(* What Postgres says                                                       *)

\* Mutant: a PRIVATE build is taken for visible.
isAnonVisible_any(row) == row.life = "live"

isAnonVisible(row) == row.life = "live" /\ row.vis \in AnonVisible

partnersOf(ls, b) == {p \in Builds : <<b, p>> \in ls}

\* loadAnonSnapshot: the body, or Missing when there is nothing to show an
\* anonymous viewer.  Hidden partners are filtered out in the query.
Page(rs, ls, b) ==
    IF isAnonVisible(rs[b])
    THEN [ver |-> rs[b].ver, vis |-> rs[b].vis, lay |-> rs[b].lay,
          strip |-> {[b |-> p, ver |-> rs[p].ver] :
                        p \in {q \in partnersOf(ls, b) : isAnonVisible(rs[q])}}]
    ELSE Missing

loadAnonSnapshot(b) == Page(rows, links, b)

\* The slugs a mutation of build b passes to invalidateBuilds.
withPartners(ls, b) == {b} \cup partnersOf(ls, b)

\* Mutant: the same, when the build is deleted.
snapshotSlugs_own(S) == {b \in S : rows[b].life = "live"}

\* snapshotSlugs: the matching builds and everything whose strip lists one.
snapshotSlugs(S) ==
    LET found == {b \in S : rows[b].life = "live"}
    IN  found \cup UNION {partnersOf(links, b) : b \in found}

-----------------------------------------------------------------------------
(* Initial states: any quiet database, its pages cached (keys may expire)   *)

FreshRow(life, vis) == [life |-> life, vis |-> vis, ver |-> 0, lay |-> 0]

Symmetric(ls) ==
    \A a, b \in Builds : <<a, b>> \in ls => (<<b, a>> \in ls /\ a # b)

Init ==
    /\ rows \in [Builds -> {FreshRow("unborn", "PRIVATE")} \cup
                           {FreshRow("live", v) : v \in Visibility}]
    /\ links \in SUBSET ({b \in Builds : rows[b].life = "live"} \X
                         {b \in Builds : rows[b].life = "live"})
    /\ Symmetric(links)
    /\ kv = [b \in Builds |-> Page(rows, links, b)]
    /\ reader = [r \in Readers |-> Idle]
    /\ loaded = [w \in Writers |-> Missing]
    /\ phase  = [j \in Jobs |-> Idle]
    /\ racing = [j \in Jobs |-> {}]
    /\ step   = [h \in Handlers |-> Idle]
    /\ scope  = [h \in Handlers |-> {}]
    /\ slugs  = [h \in Handlers |-> {}]
    /\ lapsed = {}
    /\ writes = 0
    /\ faults = 0

-----------------------------------------------------------------------------
(* Anonymous reads                                                          *)

\* Writers that have loaded the page of b and not yet put it.
InFlight(b) == {r \in Readers : reader[r] = b} \cup
               {j \in Jobs : j[2] = b /\ phase[j] \in Putting}

\* readAnonSnapshot after a miss: load the page, answer, and store it in the
\* background.  The key need not be missing any more when the row is loaded
\* (the get was earlier, and a failed get counts as a miss), so kv is no
\* guard.  Nothing is stored for a page that is not there.
ReadThrough(r, b) ==
    /\ reader[r] = Idle
    /\ loadAnonSnapshot(b) # Missing
    /\ reader' = [reader EXCEPT ![r] = b]
    /\ loaded' = [loaded EXCEPT ![r] = loadAnonSnapshot(b)]
    /\ UNCHANGED <<kv, jobVars, delVars, dbVars, lapsed, faults>>

\* A writer's put has landed: no wait is waiting for it any more.
Landed(w) == [j \in Jobs |-> racing[j] \ {w}]

\* Mutant: a page that is gone does not delete the key.
writeSnapshot_keep(b, w) ==
    kv' = IF loaded[w] = Missing THEN kv ELSE [kv EXCEPT ![b] = loaded[w]]

\* writeSnapshot puts a page; for Missing it deletes the key, which is the
\* same assignment here.
writeSnapshot(b, w) == kv' = [kv EXCEPT ![b] = loaded[w]]

PutReadThrough(r) ==
    /\ reader[r] # Idle
    /\ writeSnapshot(reader[r], r)
    /\ reader' = [reader EXCEPT ![r] = Idle]
    /\ loaded' = [loaded EXCEPT ![r] = Missing]
    /\ racing' = Landed(r)
    /\ UNCHANGED <<phase, delVars, dbVars, lapsed, faults>>

\* SNAPSHOT_TTL runs out.
Expire(b) ==
    /\ kv[b] # Missing
    /\ kv' = [kv EXCEPT ![b] = Missing]
    /\ UNCHANGED <<reader, loaded, jobVars, delVars, dbVars, lapsed, faults>>

-----------------------------------------------------------------------------
(* refreshWithRaceCover                                                     *)

\* Mutant: the edge cache is purged, the snapshots are not refreshed.
invalidateBuilds_purgeOnly(h) ==
    /\ \E b \in Builds : phase[<<h, b>>] = "owed"
    /\ phase' = [j \in Jobs |-> IF j[1] = h THEN Idle ELSE phase[j]]
    /\ UNCHANGED <<kv, reader, loaded, racing, delVars, dbVars, lapsed, faults>>

\* invalidateBuilds: the handler goes on after its commit and starts one
\* refresh per slug (the purge of the edge cache is in EdgeCache).
invalidateBuilds(h) ==
    /\ \E b \in Builds : phase[<<h, b>>] = "owed"
    /\ phase' = [j \in Jobs |-> IF j[1] = h /\ phase[j] = "owed"
                                THEN "load1" ELSE phase[j]]
    /\ UNCHANGED <<kv, reader, loaded, racing, delVars, dbVars, lapsed, faults>>

RefreshLoad(j) ==
    /\ phase[j] \in Loading
    /\ phase'  = [phase EXCEPT ![j] = IF @ = "load1" THEN "put1" ELSE "put2"]
    /\ loaded' = [loaded EXCEPT ![j] = loadAnonSnapshot(j[2])]
    /\ UNCHANGED <<kv, reader, racing, delVars, dbVars, lapsed, faults>>

\* Mutant: one pass, no race cover.
RefreshPut1_only(j) ==
    /\ phase[j] = "put1"
    /\ writeSnapshot(j[2], j)
    /\ phase'  = [phase EXCEPT ![j] = Idle]
    /\ loaded' = [loaded EXCEPT ![j] = Missing]
    /\ racing' = Landed(j)
    /\ UNCHANGED <<reader, delVars, dbVars, lapsed, faults>>

\* The first put, after which the timer starts: whatever is in flight for the
\* slug at this moment lands before it fires.
RefreshPut1(j) ==
    /\ phase[j] = "put1"
    /\ writeSnapshot(j[2], j)
    /\ phase'  = [phase EXCEPT ![j] = "wait"]
    /\ loaded' = [loaded EXCEPT ![j] = Missing]
    /\ racing' = [Landed(j) EXCEPT ![j] = InFlight(j[2]) \ {j}]
    /\ UNCHANGED <<reader, delVars, dbVars, lapsed, faults>>

\* RACE_REFRESH_MS have passed.
RefreshWake(j) ==
    /\ phase[j] = "wait"
    /\ racing[j] = {}
    /\ phase' = [phase EXCEPT ![j] = "load2"]
    /\ UNCHANGED <<kv, reader, loaded, racing, delVars, dbVars, lapsed, faults>>

RefreshPut2(j) ==
    /\ phase[j] = "put2"
    /\ writeSnapshot(j[2], j)
    /\ phase'  = [phase EXCEPT ![j] = Idle]
    /\ loaded' = [loaded EXCEPT ![j] = Missing]
    /\ racing' = Landed(j)
    /\ UNCHANGED <<reader, delVars, dbVars, lapsed, faults>>

Refresh(j) ==
    RefreshLoad(j) \/ RefreshPut1(j) \/ RefreshWake(j) \/ RefreshPut2(j)

-----------------------------------------------------------------------------
(* Mutations                                                                *)

\* A handler slot is free when its request and its background work are over.
Free(h) == step[h] = Idle /\ \A b \in Builds : phase[<<h, b>>] = Idle

Owe(h, S) == phase' = [j \in Jobs |-> IF j[1] = h /\ j[2] \in S
                                      THEN "owed" ELSE phase[j]]

\* One committed statement that turns the tables into rs and ls, with the
\* slugs it will pass to invalidateBuilds: their refresh is no longer missing.
Commit(h, rs, ls, S) ==
    /\ Free(h)
    /\ writes < MaxWrites
    /\ rows' = rs
    /\ links' = ls
    /\ writes' = writes + 1
    /\ Owe(h, S)
    /\ lapsed' = lapsed \ S
    /\ UNCHANGED <<kv, reader, loaded, racing, delVars, faults>>

Live(b) == rows[b].life = "live"

\* POST /builds and POST /builds/:slug/fork (PRIVATE): a new page needs no
\* refresh.
createBuild(h, b, v) ==
    /\ rows[b].life = "unborn"
    /\ Commit(h, [rows EXCEPT ![b] = FreshRow("live", v)], links, {})

\* PATCH /builds/:slug: content and Visibility, in one update that also
\* returns the partners.
patchBuild(h, b, v) ==
    /\ Live(b)
    /\ Commit(h, [rows EXCEPT ![b].ver = @ + 1, ![b].vis = v], links,
              withPartners(links, b))

\* PATCH /admin/builds/:slug.
adminSetVisibility(h, b, v) ==
    /\ Live(b) /\ rows[b].vis # v
    /\ Commit(h, [rows EXCEPT ![b].vis = v], links, withPartners(links, b))

\* PUT /builds/:slug/partners/order and .../variant: only this page changes.
arrangeStrip(h, b) ==
    /\ Live(b)
    /\ Commit(h, [rows EXCEPT ![b].lay = @ + 1], links, {b})

\* PUT /builds/:slug/partners/:partnerSlug, both directions in one transaction.
linkPartner(h, a, b) ==
    /\ a # b /\ Live(a) /\ Live(b)
    /\ Commit(h, rows, links \cup {<<a, b>>, <<b, a>>}, {a, b})

\* DELETE of the same.
unlinkPartner(h, a, b) ==
    /\ <<a, b>> \in links
    /\ Commit(h, rows, links \ {<<a, b>>, <<b, a>>}, {a, b})

-----------------------------------------------------------------------------
(* Deletes: the slugs are read before the rows cascade away                 *)

ReadSlugs(h, kind, S) ==
    /\ Free(h)
    /\ step'  = [step EXCEPT ![h] = kind]
    /\ scope' = [scope EXCEPT ![h] = S]
    /\ slugs' = [slugs EXCEPT ![h] = snapshotSlugs(S)]
    /\ UNCHANGED <<kv, reader, loaded, jobVars, dbVars, lapsed, faults>>

\* deleteBuild: not found unless the build is there.
deleteBuild(h, b) ==
    /\ b \in Deletable /\ Live(b) /\ writes < MaxWrites
    /\ ReadSlugs(h, "deleteBuild", {b})

\* DELETE /admin/users/:id and /auth/delete-user.
deleteUser(h, u) ==
    /\ u \in Leavers /\ writes < MaxWrites
    /\ \E b \in Builds : AuthorOf[b] = u /\ rows[b].life # "deleted"
    /\ ReadSlugs(h, "deleteUser", {b \in Builds : AuthorOf[b] = u})

Changed(rs, ls) == {b \in Builds : Page(rs, ls, b) # Page(rows, links, b)}

\* The tables once the builds of S are gone, and with them (cascade) their
\* join rows.
RowsWithout(S)  == [b \in Builds |-> IF b \in S
                                     THEN [rows[b] EXCEPT !.life = "deleted"]
                                     ELSE rows[b]]
LinksWithout(S) == links \ ((S \X Builds) \cup (Builds \X S))

EndDelete(h) ==
    /\ step'  = [step EXCEPT ![h] = Idle]
    /\ scope' = [scope EXCEPT ![h] = {}]
    /\ slugs' = [slugs EXCEPT ![h] = {}]

\* Mutant: the slugs are read after the delete, when the rows are gone.
CommitDelete_lateRead(h) ==
    LET rs == RowsWithout(scope[h])
        ls == LinksWithout(scope[h])
    IN  /\ step[h] # Idle /\ writes < MaxWrites
        /\ rows' = rs
        /\ links' = ls
        /\ writes' = writes + 1
        /\ lapsed' = lapsed \cup Changed(rs, ls)
        /\ EndDelete(h)
        /\ UNCHANGED <<kv, reader, loaded, jobVars, faults>>

\* The rows go; then invalidateBuilds gets the slugs read earlier.  A user
\* takes the builds made since along, and will make no more.  A page this
\* changes that was not among the slugs lapses.
CommitDelete(h) ==
    LET rs == RowsWithout(scope[h])
        ls == LinksWithout(scope[h])
    IN  /\ step[h] # Idle
        /\ step[h] = "deleteBuild" => \A b \in scope[h] : Live(b)
        /\ writes < MaxWrites
        /\ rows' = rs
        /\ links' = ls
        /\ writes' = writes + 1
        /\ Owe(h, slugs[h])
        /\ lapsed' = (lapsed \cup Changed(rs, ls)) \ slugs[h]
        /\ EndDelete(h)
        /\ UNCHANGED <<kv, reader, loaded, racing, faults>>

\* The delete throws (another one was first: P2025; or the database failed):
\* the handler ends without invalidateBuilds.
DeleteFails(h) ==
    /\ step[h] # Idle
    /\ EndDelete(h)
    /\ UNCHANGED <<kv, reader, loaded, jobVars, dbVars, lapsed, faults>>

-----------------------------------------------------------------------------
(* Faults: background work is logged, never retried                         *)

\* The invocation dies after its commit, before invalidateBuilds.
LoseInvocation(h) ==
    LET owed == {b \in Builds : phase[<<h, b>>] = "owed"}
    IN  /\ owed # {} /\ faults < MaxFaults
        /\ faults' = faults + 1
        /\ lapsed' = lapsed \cup owed
        /\ phase' = [j \in Jobs |-> IF j[1] = h /\ j[2] \in owed
                                    THEN Idle ELSE phase[j]]
        /\ UNCHANGED <<kv, reader, loaded, racing, delVars, dbVars>>

\* A load or a put of a refresh rejects: the rest of its chain is skipped, the
\* second pass included.
RefreshFails(j) ==
    /\ phase[j] \in Loading \cup Putting \cup {"wait"}
    /\ faults < MaxFaults
    /\ faults' = faults + 1
    /\ lapsed' = lapsed \cup {j[2]}
    /\ phase'  = [phase EXCEPT ![j] = Idle]
    /\ loaded' = [loaded EXCEPT ![j] = Missing]
    /\ racing' = [Landed(j) EXCEPT ![j] = {}]
    /\ UNCHANGED <<kv, reader, delVars, dbVars>>

\* The put of a read-through rejects.
ReadThroughFails(r) ==
    /\ reader[r] # Idle /\ faults < MaxFaults
    /\ faults' = faults + 1
    /\ reader' = [reader EXCEPT ![r] = Idle]
    /\ loaded' = [loaded EXCEPT ![r] = Missing]
    /\ racing' = Landed(r)
    /\ UNCHANGED <<kv, phase, delVars, dbVars, lapsed>>

-----------------------------------------------------------------------------
Mutate(h) ==
    \/ \E b \in Builds :
          \/ \E v \in Visibility : \/ createBuild(h, b, v)
                                   \/ patchBuild(h, b, v)
                                   \/ adminSetVisibility(h, b, v)
          \/ arrangeStrip(h, b)
          \/ \E p \in Builds : linkPartner(h, b, p) \/ unlinkPartner(h, b, p)
          \/ deleteBuild(h, b)
    \/ \E u \in Users : deleteUser(h, u)
    \/ CommitDelete(h)
    \/ DeleteFails(h)

Background ==
    \/ \E r \in Readers :
          \/ \E b \in Builds : ReadThrough(r, b)
          \/ PutReadThrough(r)
          \/ ReadThroughFails(r)
    \/ \E b \in Builds : Expire(b)
    \/ \E j \in Jobs : Refresh(j) \/ RefreshFails(j)

Next ==
    \/ \E h \in Handlers : Mutate(h) \/ invalidateBuilds(h) \/ LoseInvocation(h)
    \/ Background

Spec == Init /\ [][Next]_vars

-----------------------------------------------------------------------------
(* Properties                                                               *)

BodyOrMissing == Body \cup {Missing}

\* Every variable has its type.
TypeOK ==
    /\ rows \in [Builds -> Row]
    /\ links \subseteq Builds \X Builds
    /\ kv \in [Builds -> BodyOrMissing]
    /\ reader \in [Readers -> Builds \cup {Idle}]
    /\ loaded \in [Writers -> BodyOrMissing]
    /\ phase \in [Jobs -> Phase]
    /\ racing \in [Jobs -> SUBSET Writers]
    /\ step \in [Handlers -> HandlerStep]
    /\ scope \in [Handlers -> SUBSET Builds]
    /\ slugs \in [Handlers -> SUBSET Builds]
    /\ lapsed \subseteq Builds
    /\ writes \in Nat
    /\ faults \in Nat

Refreshing(b) == \E h \in Handlers : phase[<<h, b>>] # Idle
IsFresh(b)    == kv[b] \in {Missing, loadAnonSnapshot(b)}

\* Once no refresh of a build is under way, KV holds no page of it or the
\* current one: no read-through or older refresh that was overtaken leaves its
\* page behind, and a hidden or deleted build has no key at all.  Excepted are
\* the builds left to the TTL until the next write of theirs: a delete did not
\* know of them, or their refresh was lost.
SettledIsFresh == \A b \in Builds : Refreshing(b) \/ b \in lapsed \/ IsFresh(b)

\* "A PRIVATE or deleted build is never stored" (_build-snapshot.ts): with no
\* refresh under way, a deleted build has no snapshot.
DeletedBuildsHaveNoSnapshot ==
    \A b \in Builds : rows[b].life = "deleted" /\ ~Refreshing(b)
                         => kv[b] = Missing

AuthorGone(b) ==
    \A c \in Builds : AuthorOf[c] = AuthorOf[b] => rows[c].life = "deleted"

\* How far that holds whatever the requests do at the same time: with no
\* refresh under way, a deleted build that still has a snapshot lost its
\* refresh to a fault, or went, unknown to the delete, with all the builds of
\* its author.  A build deleted on its own is gone from KV.
OnlyLostOrLateDeletesLinger ==
    \A b \in Builds :
        rows[b].life = "deleted" /\ ~Refreshing(b) /\ kv[b] # Missing
           => b \in lapsed /\ (faults = 0 => AuthorGone(b))

ReadsSlugs(h) == step[h] = Idle /\ step'[h] # Idle
EndsDelete(h) == step[h] # Idle /\ step'[h] = Idle

\* A mutation that changes a page anonymous viewers may have cached owes that
\* page a refresh ("Writes refresh every build snapshot they change",
\* CODING_STANDARDS.md); a new build has no page to refresh.  Excepted is a
\* page that a delete did not know of when it read its slugs; and it knows
\* then of every page that deleting its builds would change.
EveryChangedPageIsRefreshed ==
    [][/\ \A b \in Builds :
             (Live(b) /\ loadAnonSnapshot(b)' # loadAnonSnapshot(b))
                => \E h \in Handlers : \/ phase'[<<h, b>>] = "owed"
                                       \/ EndsDelete(h) /\ b \notin slugs[h]
       /\ \A h \in Handlers :
             ReadsSlugs(h)
                => Changed(RowsWithout(scope'[h]), LinksWithout(scope'[h]))
                      \subseteq slugs'[h]]_vars

\* When authors stop writing, every refresh comes to its end and KV ends up,
\* and stays, with the current page or none, without any help of the TTL.
EventuallySettled ==
    \A b \in Builds : <>[](~Refreshing(b) /\ IsFresh(b))

-----------------------------------------------------------------------------
(* The inductive invariant behind SettledIsFresh                            *)

\* Join rows are symmetric and join live builds: so what a mutation reports as
\* the partners of its build are the pages that show the build.
LinksInv ==
    /\ Symmetric(links)
    /\ \A a, b \in Builds : <<a, b>> \in links => Live(a)

\* Job j will still load its page, after anything w has loaded so far is put.
Outlasts(j, w) == \/ phase[j] \in {"owed", "load1", "put1"}
                  \/ phase[j] = "wait" /\ w \in racing[j]

\* Job j will still put a page that is true.
WillRepair(j) ==
    \/ phase[j] \in {"owed", "wait", "load1", "put1", "load2"}
    \/ phase[j] = "put2" /\ loaded[j] \in {Missing, loadAnonSnapshot(j[2])}

\* A stale page in flight is outlasted by a refresh of its build.
InFlightInv ==
    \A b \in Builds : \A w \in InFlight(b) :
        \/ loaded[w] \in {Missing, loadAnonSnapshot(b)}
        \/ b \in lapsed
        \/ \E h \in Handlers : Outlasts(<<h, b>>, w)

\* A stale page in KV will be repaired.
KvInv ==
    \A b \in Builds : \/ IsFresh(b)
                      \/ b \in lapsed
                      \/ \E h \in Handlers : WillRepair(<<h, b>>)

\* A delete of one build knows that build; one of a user takes all builds of
\* that user.
ScopesInv ==
    \A h \in Handlers :
        /\ step[h] = "deleteBuild" => scope[h] \subseteq slugs[h]
        /\ step[h] = "deleteUser"
              => \E u \in Users : scope[h] = {b \in Builds : AuthorOf[b] = u}

\* So a deleted build that its delete did not know of went with its author.
LapsedInv ==
    \A b \in lapsed : rows[b].life = "deleted" /\ faults = 0 => AuthorGone(b)

IInv ==
    TypeOK /\ LinksInv /\ ScopesInv /\ LapsedInv /\ InFlightInv /\ KvInv

\* The snapshots are a cache that may lag only while a refresh is under way
\* (or the TTL has to see to it).
Abstract == INSTANCE EventualCache WITH
    Keys      <- Builds,
    Absent    <- Missing,
    Values    <- BodyOrMissing,
    truth     <- [b \in Builds |-> loadAnonSnapshot(b)],
    cache     <- kv,
    unsettled <- {b \in Builds : Refreshing(b)} \cup lapsed

ImplementsEventualCache == Abstract!Spec
=============================================================================
