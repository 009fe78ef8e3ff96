------------------------------ MODULE EdgeCache ------------------------------
(***************************************************************************)
(* The colo-local edge cache in front of GET /builds/:slug, composed with  *)
(* the snapshots of BuildSnapshot behind it.  An anonymous request looks   *)
(* its URL up in its colo's cache; on a miss the handler answers from KV,  *)
(* or from Postgres with a read-through, and the answer is put into the    *)
(* edge cache after the response.  A mutation purges its own colo only.    *)
(***************************************************************************)
EXTENDS BuildSnapshot

CONSTANTS
    Colos,      \* Cloudflare data centres
    ColoOf,     \* the colo a mutating request lands in
    Variants,   \* the URLs of one build's detail: full, meta, noView
    Requests    \* concurrent anonymous requests past the edge cache

Keys == Colos \X Builds \X Variants   \* cacheKey: one entry per colo and URL

ASSUME EdgeAssumption == ColoOf \in [Handlers -> Colos]

VARIABLES
    edge,       \* caches.default of every colo
    asks,       \* [Requests -> the key a request has missed; Missing if none]
    answer      \* [Requests -> the page its handler answered with]

edgeVars == <<edge, asks, answer>>
allVars  == <<vars, edgeVars>>

EdgeInit ==
    /\ Init
    /\ edge   = [k \in Keys |-> Missing]
    /\ asks   = [q \in Requests |-> Missing]
    /\ answer = [q \in Requests |-> Missing]

-----------------------------------------------------------------------------
(* edgeCache, for a request without a session                               *)

\* cache.match finds nothing; a hit is served and changes nothing.
EdgeMiss(q, k) ==
    /\ asks[q] = Missing
    /\ edge[k] = Missing
    /\ asks' = [asks EXCEPT ![q] = k]
    /\ UNCHANGED <<vars, edge, answer>>

\* Only a 200 is stored: a 404 ends the request.
Answered(q, page) ==
    /\ asks[q] # Missing
    /\ answer[q] = Missing
    /\ answer' = [answer EXCEPT ![q] = page]
    /\ asks' = IF page = Missing THEN [asks EXCEPT ![q] = Missing] ELSE asks
    /\ UNCHANGED edge

AnswerFromKv(q) ==
    /\ asks[q] # Missing
    /\ kv[asks[q][2]] # Missing
    /\ Answered(q, kv[asks[q][2]])
    /\ UNCHANGED vars

AnswerFromPostgres(q) ==
    /\ asks[q] # Missing
    /\ \E r \in Readers : ReadThrough(r, asks[q][2])
    /\ Answered(q, loadAnonSnapshot(asks[q][2]))

AnswerNotFound(q) ==
    /\ asks[q] # Missing
    /\ kv[asks[q][2]] = Missing
    /\ loadAnonSnapshot(asks[q][2]) = Missing
    /\ Answered(q, Missing)
    /\ UNCHANGED vars

\* The background cache.put.
EdgePut(q) ==
    /\ answer[q] # Missing
    /\ edge'   = [edge EXCEPT ![asks[q]] = answer[q]]
    /\ asks'   = [asks EXCEPT ![q] = Missing]
    /\ answer' = [answer EXCEPT ![q] = Missing]
    /\ UNCHANGED vars

\* Mutant: the entry is put without a max-age.
EdgeExpire_never(k) == FALSE

\* max-age (DETAIL_TTL) runs out.
EdgeExpire(k) ==
    /\ edge[k] # Missing
    /\ edge' = [edge EXCEPT ![k] = Missing]
    /\ UNCHANGED <<vars, asks, answer>>

-----------------------------------------------------------------------------
(* Mutations purge, everything else leaves the edge alone                   *)

\* Every URL of a build's detail.
detailCachePaths(b) == {b} \X Variants

purgeEdge(colo, B) ==
    edge' = [k \in Keys |->
               IF k[1] = colo /\ \E b \in B : <<k[2], k[3]>> \in detailCachePaths(b)
               THEN Missing ELSE edge[k]]

InvalidateAndPurge(h) ==
    /\ invalidateBuilds(h)
    /\ purgeEdge(ColoOf[h], {b \in Builds : phase[<<h, b>>] = "owed"})
    /\ UNCHANGED <<asks, answer>>

\* Steps of BuildSnapshot the edge has no part in.  A read-through is always
\* on behalf of a request here (AnswerFromPostgres).
BehindTheEdge ==
    /\ UNCHANGED edgeVars
    /\ \/ \E h \in Handlers : Mutate(h) \/ LoseInvocation(h)
       \/ \E r \in Readers : PutReadThrough(r) \/ ReadThroughFails(r)
       \/ \E b \in Builds : Expire(b)
       \/ \E j \in Jobs : Refresh(j) \/ RefreshFails(j)

EdgeNext ==
    \/ \E q \in Requests :
          \/ \E k \in Keys : EdgeMiss(q, k)
          \/ AnswerFromKv(q)
          \/ AnswerFromPostgres(q)
          \/ AnswerNotFound(q)
          \/ EdgePut(q)
    \/ \E k \in Keys : EdgeExpire(k)
    \/ \E h \in Handlers : InvalidateAndPurge(h)
    \/ BehindTheEdge

EdgeSpec == EdgeInit /\ [][EdgeNext]_allVars

\* Registered background work settles, and every entry has a max-age; the TTL
\* of KV is relied on only for a build whose refresh was lost or never owed.
EdgeFairness ==
    /\ \A h \in Handlers : WF_allVars(InvalidateAndPurge(h))
    /\ \A j \in Jobs : WF_allVars(Refresh(j) /\ UNCHANGED edgeVars)
    /\ \A r \in Readers : WF_allVars(PutReadThrough(r) /\ UNCHANGED edgeVars)
    /\ \A q \in Requests : WF_allVars(EdgePut(q))
    /\ \A k \in Keys : WF_allVars(EdgeExpire(k))
    /\ \A b \in Builds : WF_allVars(b \in lapsed /\ Expire(b) /\ UNCHANGED edgeVars)

FairEdgeSpec == EdgeSpec /\ EdgeFairness

-----------------------------------------------------------------------------
(* Properties                                                               *)

\* Every variable has its type.
EdgeTypeOK ==
    /\ TypeOK
    /\ edge \in [Keys -> BodyOrMissing]
    /\ asks \in [Requests -> Keys \cup {Missing}]
    /\ answer \in [Requests -> BodyOrMissing]

Settled(b) == ~Refreshing(b) /\ b \notin lapsed

\* Once the refreshes of a build are over, a request that gets past the edge
\* cache is answered with the current page, whichever store answers it: only
\* what is already at the edge, or on its way there, can still be old.
SettledMissesAreCurrent ==
    [][\A q \in Requests :
          (answer'[q] # answer[q] /\ answer'[q] # Missing)
             => \/ ~Settled(asks[q][2])
                \/ answer'[q] = loadAnonSnapshot(asks[q][2])]_allVars

\* When authors stop writing, every colo ends up, and stays, with the current
\* page or none, although a purge reaches one colo only, may come before a put
\* that carries the old page, and a lost refresh leaves KV to its TTL.
EdgeEventuallySettles ==
    \A k \in Keys : <>[](edge[k] \in {Missing, loadAnonSnapshot(k[2])})
=============================================================================
