---------------------------- MODULE EventualCache ----------------------------
(***************************************************************************)
(* What a cache of anonymous pages promises.  Each key has a true value    *)
(* and a cached one.  A key is unsettled while the cache may lag behind;   *)
(* a settled key is absent from the cache or cached with its true value,   *)
(* and only a write of the truth unsettles it.                             *)
(***************************************************************************)
CONSTANTS Keys, Values, Absent

VARIABLES
    truth,      \* [Keys -> Values]
    cache,      \* [Keys -> Values]; Absent where nothing is cached
    unsettled   \* keys whose cached value may be out of date

vars == <<truth, cache, unsettled>>

Fresh(k) == cache[k] \in {Absent, truth[k]}

Init ==
    /\ truth \in [Keys -> Values]
    /\ cache \in [Keys -> Values]
    /\ unsettled = {}
    /\ \A k \in Keys : Fresh(k)

\* A write changes any values and unsettles any keys, among them every key
\* whose cached value it makes untrue.
Write ==
    /\ truth' \in [Keys -> Values]
    /\ unsettled' \in SUBSET Keys
    /\ unsettled \subseteq unsettled'
    /\ UNCHANGED cache
    /\ \A k \in Keys \ unsettled' : Fresh(k)'

\* The cache changes at one key: to a stale value only while it is unsettled.
Store(k) ==
    /\ cache' \in [Keys -> Values]
    /\ \A other \in Keys \ {k} : cache'[other] = cache[other]
    /\ unsettled' \in {unsettled, unsettled \ {k}}
    /\ UNCHANGED truth
    /\ k \notin unsettled' => Fresh(k)'

Next == Write \/ \E k \in Keys : Store(k)

Spec == Init /\ [][Next]_vars
=============================================================================
