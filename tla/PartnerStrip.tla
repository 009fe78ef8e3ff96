------------------------------ MODULE PartnerStrip ------------------------------
(***************************************************************************)
(* The partner builds of a build ("Related builds"): the routes under      *)
(* /builds/:slug/partners and the strip they make (_build-partners.ts).    *)
(*                                                                         *)
(* A link is two rows of the join table, written by one transaction that   *)
(* updates both builds; the order of a strip and the variants it leads to  *)
(* are columns of the build that owns it, each read, changed and written   *)
(* back whole.  A request reads the builds and the viewer's membership in  *)
(* one step, and writes later.  An update holds its row until its          *)
(* transaction ends.                                                       *)
(***************************************************************************)
EXTENDS Naturals, Sequences, FiniteSets, SequencesExt

CONSTANTS
    Builds,     \* an id is never used again
    Users,
    AuthorOf,   \* Build.userId
    Orgs,
    OrgOf,      \* organizations the builds are first in
    MembersOf,  \* members the organizations first have
    FirstLinks, \* join rows there first
    Handlers,   \* concurrent API requests
    MAX_TOTAL_VARIANTS,
    PARTNERS_TAKEN,     \* the largest take of the partner query (50 in the code)
    Orders,     \* bound: the ids a client sends, some twice or not linked
    MaxWrites,  \* bound on committed writes
    None        \* no organization, no request, no lock

ASSUME PartnerAssumption ==
    /\ AuthorOf \in [Builds -> Users]
    /\ OrgOf \in [Builds -> Orgs \cup {None}]
    /\ MembersOf \in [Orgs -> SUBSET Users]
    /\ FirstLinks \subseteq Builds \X Builds /\ IsFiniteSet(FirstLinks)
    /\ \A l \in FirstLinks : l[1] # l[2] /\ <<l[2], l[1]>> \in FirstLinks
    /\ None \notin Handlers \cup Orgs
    /\ MAX_TOTAL_VARIANTS \in Nat \ {0} /\ PARTNERS_TAKEN \in Nat
    /\ Orders \subseteq Seq(Builds)
    /\ MaxWrites \in Nat

VARIABLES
    live,       \* the builds that exist
    org,        \* Build.organizationId
    member,     \* organization_members: [Orgs -> SUBSET Users]
    links,      \* rows of the join table, both directions
    targets,    \* Build.partnerVariants; 0 is no entry
    order,      \* Build.partnerOrder
    locks,      \* the request that holds a build's row
    req,        \* [Handlers -> request or None]
    writes,     \* committed writes
    chosen,     \* history: the targets the owners' requests asked for
    raced       \* history: builds whose targets were written from a stale read of
                \* the column or of the link

rowVars     == <<live, org, member>>
columnVars  == <<targets, order, chosen, raced>>
partnerVars == <<live, org, member, links, targets, order, locks, req, writes,
                 chosen, raced>>

isVariantIndex == 0 .. MAX_TOTAL_VARIANTS - 1
NoTargets      == [b \in Builds |-> 0]
TargetMaps     == [Builds -> isVariantIndex]

\* No request that holds rows is none.
ASSUME NoneAssumption ==
    None \notin [route : {"link", "unlink", "deleteOrg"}, own : Builds \cup {None},
                 partner : Builds \cup {None}, arg : Orgs \cup {None},
                 seen : [own : TargetMaps, partner : TargetMaps] \cup {None},
                 pc : {"second"}]

\* mayMutate: the author or a member of the build's organization.
canMutateBuild(b, viewer) ==
    viewer = AuthorOf[b] \/ (org[b] # None /\ viewer \in member[org[b]])

Partners(b) == {p \in Builds : <<b, p>> \in links}

\* Linked builds, whose strips no one has ordered yet.
PartnerInit ==
    /\ live = Builds
    /\ org = OrgOf
    /\ member = MembersOf
    /\ links = FirstLinks
    /\ targets = [b \in Builds |-> NoTargets]
    /\ order = [b \in Builds |-> <<>>]
    /\ locks = [b \in Builds |-> None]
    /\ req = [h \in Handlers |-> None]
    /\ writes = 0
    /\ chosen = targets
    /\ raced = {}

-----------------------------------------------------------------------------
(* A request arrives and reads the builds it is about                       *)

Request(route, own, partner, arg, seen, pc) ==
    [route |-> route, own |-> own, partner |-> partner, arg |-> arg, seen |-> seen,
     pc |-> pc]

Start(h, request) ==
    /\ req[h] = None
    /\ writes < MaxWrites
    /\ req' = [req EXCEPT ![h] = request]
    /\ UNCHANGED <<rowVars, links, columnVars, locks, writes>>

\* loadPartnerContext
Seen(own, partner) == [own |-> targets[own], partner |-> targets[partner]]

putLink(h, own, partner, viewer) ==
    /\ own # partner
    /\ {own, partner} \subseteq live
    /\ canMutateBuild(own, viewer) /\ canMutateBuild(partner, viewer)
    /\ Start(h, Request("link", own, partner, None, None, "first"))

deleteLink(h, own, partner, viewer) ==
    /\ {own, partner} \subseteq live
    /\ canMutateBuild(own, viewer) \/ canMutateBuild(partner, viewer)
    /\ Start(h, Request("unlink", own, partner, None, Seen(own, partner), "count"))

putVariant(h, own, partner, viewer, variant) ==
    /\ own \in live /\ canMutateBuild(own, viewer)
    /\ partner \in Partners(own)
    /\ Start(h, Request("variant", own, partner, variant, Seen(own, own), "write"))

\* The elements of s at the places I, in their order.
Picked(s, I) ==
    LET upTo[n \in 0 .. Len(s)] ==
          IF n = 0 THEN <<>>
          ELSE IF n \in I THEN Append(upTo[n - 1], s[n]) ELSE upTo[n - 1]
    IN  upTo[Len(s)]

\* Mutant: an id sent twice is stored twice.
nextOrder_twice(own, ids) == Picked(ids, {i \in DOMAIN ids : ids[i] \in Partners(own)})

\* The linked ones of the ids, each once, where it comes first.
nextOrder(own, ids) ==
    Picked(ids, {i \in DOMAIN ids : /\ ids[i] \in Partners(own)
                                   /\ \A j \in 1 .. i - 1 : ids[j] # ids[i]})

putOrder(h, own, viewer, ids) ==
    /\ own \in live /\ canMutateBuild(own, viewer)
    /\ Start(h, Request("order", own, own, nextOrder(own, ids), None, "write"))

-----------------------------------------------------------------------------
(* Its statements                                                           *)

At(h, routes, pc) == req[h] # None /\ req[h].route \in routes /\ req[h].pc = pc

\* Commit or roll back.
End(h) ==
    /\ req' = [req EXCEPT ![h] = None]
    /\ locks' = [b \in Builds |-> IF locks[b] = h THEN None ELSE locks[b]]

Advance(h, pc) == req' = [req EXCEPT ![h].pc = pc]

\* "Either owner" only applies to an existing link.
countLink(h) ==
    /\ At(h, {"unlink"}, "count")
    /\ IF req[h].partner \in Partners(req[h].own)
       THEN Advance(h, "first") /\ UNCHANGED locks
       ELSE End(h)
    /\ UNCHANGED <<rowVars, links, columnVars, writes>>

\* The transaction's first update; P2025 when the build is gone.
updateOwn(h) ==
    LET own == req[h].own
    IN  /\ At(h, {"link", "unlink"}, "first")
        /\ locks[own] = None
        /\ IF own \in live
           THEN Advance(h, "second") /\ locks' = [locks EXCEPT ![own] = h]
           ELSE End(h)
        /\ UNCHANGED <<rowVars, links, columnVars, writes>>

Without(map, id) == [map EXCEPT ![id] = 0]

Stale(h) ==
    {b \in {req[h].own, req[h].partner} :
        targets[b] # IF b = req[h].own THEN req[h].seen.own ELSE req[h].seen.partner}

Linked(own, partner) == {<<own, partner>>, <<partner, own>>}

\* Mutant: the connect is not mirrored.
connect_oneSided(h, own, partner) ==
    /\ links' = links \cup {<<own, partner>>}
    /\ UNCHANGED columnVars

connect(h, own, partner) ==
    /\ links' = links \cup Linked(own, partner)
    /\ UNCHANGED columnVars

\* Mutant: the target on the other side stays.
disconnect_oneSided(h, own, partner) ==
    /\ links' = links \ Linked(own, partner)
    /\ targets' = [targets EXCEPT ![own] = Without(req[h].seen.own, partner)]
    /\ chosen' = [chosen EXCEPT ![own]     = Without(@, partner),
                                ![partner] = Without(@, own)]
    /\ raced' = raced \cup Stale(h)
    /\ UNCHANGED order

\* The severed link's targets are swept on both sides.
disconnect(h, own, partner) ==
    /\ links' = links \ Linked(own, partner)
    /\ targets' = [targets EXCEPT ![own]     = Without(req[h].seen.own, partner),
                                  ![partner] = Without(req[h].seen.partner, own)]
    /\ chosen' = [chosen EXCEPT ![own]     = Without(@, partner),
                                ![partner] = Without(@, own)]
    /\ raced' = raced \cup Stale(h)
    /\ UNCHANGED order

\* The second update, and the commit.
updatePartner(h) ==
    LET own     == req[h].own
        partner == req[h].partner
    IN  /\ At(h, {"link", "unlink"}, "second")
        /\ locks[partner] = None
        /\ IF partner \in live
           THEN /\ writes' = writes + 1
                /\ IF req[h].route = "link" THEN connect(h, own, partner)
                                            ELSE disconnect(h, own, partner)
           ELSE UNCHANGED <<links, columnVars, writes>>
        /\ End(h)
        /\ UNCHANGED rowVars

\* Postgres breaks a wait in a circle: one of the two transactions fails.
WaitsFor(g, h) ==
    At(g, {"link", "unlink"}, "second") /\ g # h /\ locks[req[g].partner] = h

deadlockDetected(h) ==
    /\ \E g \in Handlers : WaitsFor(h, g) /\ WaitsFor(g, h)
    /\ End(h)
    /\ UNCHANGED <<rowVars, links, columnVars, writes>>

\* The update of one column.
writeColumn(h) ==
    LET own == req[h].own
    IN  /\ At(h, {"variant", "order"}, "write")
        /\ locks[own] = None
        /\ IF own \notin live
           THEN UNCHANGED <<columnVars, writes>>
           ELSE /\ writes' = writes + 1
                /\ IF req[h].route = "order"
                   THEN /\ order' = [order EXCEPT ![own] = req[h].arg]
                        /\ UNCHANGED <<targets, chosen, raced>>
                   ELSE /\ targets' = [targets EXCEPT ![own] =
                               [req[h].seen.own EXCEPT ![req[h].partner] = req[h].arg]]
                        /\ chosen' = [chosen EXCEPT ![own][req[h].partner] = req[h].arg]
                        /\ raced' = IF targets[own] = req[h].seen.own
                                       /\ req[h].partner \in Partners(own)
                                    THEN raced ELSE raced \cup {own}
                        /\ UNCHANGED order
        /\ End(h)
        /\ UNCHANGED <<rowVars, links>>

\* DELETE /builds/:slug; the join rows cascade, the columns of others stay.
deleteBuild(b) ==
    /\ b \in live /\ locks[b] = None
    /\ writes < MaxWrites
    /\ writes' = writes + 1
    /\ live' = live \ {b}
    /\ links' = {l \in links : l[1] # b /\ l[2] # b}
    /\ UNCHANGED <<org, member, columnVars, locks, req>>

-----------------------------------------------------------------------------
(* What the strip of a build shows                                          *)

\* Mutant: partners not in the order come first.
orderPartners_first(rows, ids) ==
    Picked(rows, {i \in DOMAIN rows : rows[i] \notin Range(ids)}) \o
    Picked(ids, {i \in DOMAIN ids : ids[i] \in Range(rows)})

\* A stable sort by the place in ids; ids that are not linked are skipped.
orderPartners(rows, ids) ==
    Picked(ids, {i \in DOMAIN ids : ids[i] \in Range(rows)}) \o
    Picked(rows, {i \in DOMAIN rows : rows[i] \notin Range(ids)})

\* What anyone may see but for the hidden builds, and the viewer's own.
visiblePartnerScope(b, viewer, hidden) ==
    {p \in Partners(b) : p \notin hidden \/ AuthorOf[p] = viewer}

\* What it comes to, whoever looks (None being nobody signed in) and whichever
\* builds are hidden.
scopes(b) == {visiblePartnerScope(b, viewer, hidden) :
                 viewer \in Users \cup {None}, hidden \in SUBSET Partners(b)}

\* The rows the query finds: of more than it takes, any, and in any order.
partnerSelect(scope, take) ==
    UNION {SetToSeqs(rows) : rows \in kSubset(Min({take, Cardinality(scope)}), scope)}

\* The strips a viewer of that scope may be shown.
Strips(b, scope, take) ==
    {orderPartners(rows, order[b]) : rows \in partnerSelect(scope, take)}

-----------------------------------------------------------------------------
Arrive(h, routes) ==
    \E own, partner \in Builds, viewer \in Users :
        \/ "link" \in routes /\ putLink(h, own, partner, viewer)
        \/ "unlink" \in routes /\ deleteLink(h, own, partner, viewer)
        \/ /\ "variant" \in routes
           /\ \E v \in isVariantIndex : putVariant(h, own, partner, viewer, v)
        \/ "order" \in routes /\ \E ids \in Orders : putOrder(h, own, viewer, ids)

Run(h) ==
    \/ countLink(h) \/ updateOwn(h) \/ updatePartner(h)
    \/ deadlockDetected(h) \/ writeColumn(h)

PartnerRoutes == {"link", "unlink", "variant", "order", "delete"}

PartnerNext(routes) ==
    \/ \E h \in Handlers : Arrive(h, routes) \/ Run(h)
    \/ "delete" \in routes /\ \E b \in Builds : deleteBuild(b)

PartnerSpec == PartnerInit /\ [][PartnerNext(PartnerRoutes)]_partnerVars

-----------------------------------------------------------------------------
(* Properties                                                               *)

\* Every variable has its type, and a locked row is one that a transaction
\* between its two updates has written.
PartnerTypeOK ==
    /\ live \subseteq Builds
    /\ org \in [Builds -> Orgs \cup {None}]
    /\ member \in [Orgs -> SUBSET Users]
    /\ links \subseteq live \X live
    /\ targets \in [Builds -> [Builds -> isVariantIndex]]
    /\ \A b \in Builds : order[b] \in Seq(Builds) /\ IsInjective(order[b])
    /\ \A b \in Builds : locks[b] # None =>
          /\ locks[b] \in Handlers
          /\ req[locks[b]] # None /\ req[locks[b]].pc = "second"

\* "the app maintains symmetry by writing both directions on every connect /
\* disconnect" (schema.prisma), whatever requests overlap, fail or deadlock.
LinksAreMutual == \A l \in links : <<l[2], l[1]>> \in links /\ l[1] # l[2]

\* "stale entries ... would silently re-apply if the same pair ever re-linked"
\* (DELETE .../partners/:partnerSlug): a build leads to the variants its owners
\* last chose, and to none through a severed link, except where a request wrote
\* the column back from what it read before another one's write.
OnlyStaleWritesLoseTargets ==
    \A b \in live : b \notin raced =>
        /\ targets[b] = chosen[b]
        /\ \A p \in live : targets[b][p] # 0 => p \in Partners(b)

\* "Ids listed in order come first in that order", the others after them, "stale
\* ids that no longer resolve are skipped" (_build-partners.ts): whoever looks,
\* and whichever builds are hidden, no partner has two chips, each is one they may
\* see, only a full strip leaves one of those out, and what the owner stored
\* decides between any two that are shown; so it does whatever the query takes.
StripFollowsTheOrder ==
    \A b \in live : \A scope \in scopes(b), take \in 1 .. PARTNERS_TAKEN :
        \A strip \in Strips(b, scope, take) :
            LET At1(s, p) == CHOOSE i \in DOMAIN s : s[i] = p
            IN  /\ IsInjective(strip) /\ Range(strip) \subseteq scope
                /\ Len(strip) <= take
                /\ Range(strip) = scope \/ Len(strip) = take
                /\ \A p, q \in Range(strip) :
                      p \in Range(order[b]) =>
                          (At1(strip, p) < At1(strip, q)
                             <=> p # q /\ (q \in Range(order[b])
                                             => At1(order[b], p) < At1(order[b], q)))
=============================================================================
