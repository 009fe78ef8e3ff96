-------------------------------- MODULE Social --------------------------------
(***************************************************************************)
(* Likes, Dislikes and Bookmarks: join rows, and the denormalized counters *)
(* on the builds.  A request reads the build, is checked, and then writes  *)
(* row and counter in one statement (_build-social.ts), by when the build  *)
(* or the user may be gone.  Deleting an account first takes its rows off  *)
(* the counters; the delete of the user row cascades to what is left.      *)
(***************************************************************************)
EXTENDS Naturals, FiniteSets

CONSTANTS
    Users,
    Builds,
    OwnerOf,    \* Build.userId
    Handlers,   \* concurrent requests
    Leavers,    \* bound: the users whose account is deleted
    None        \* no request

Kinds == {"like", "dislike", "bookmark"}

ASSUME SocialAssumption ==
    /\ IsFiniteSet(Users)
    /\ OwnerOf \in [Builds -> Users]
    /\ Leavers \subseteq Users
    /\ None \notin [act : {"set", "clear"}, k : Kinds, u : Users, b : Builds]

\* LikeValue 1 and -1 are one row of build_likes: they exclude each other.
LikeKinds == {"like", "dislike"}
Other(k)  == IF k = "like" THEN "dislike" ELSE "like"

Request == [act : {"set", "clear"}, k : Kinds, u : Users, b : Builds]

VARIABLES
    users,      \* users table
    builds,     \* builds table
    joined,     \* [Kinds -> [Builds -> users with such a row]]
    count,      \* [Kinds -> [Builds -> likeCount, dislikeCount, bookmarkCount]]
    req,        \* [Handlers -> Request or None]
    leaving     \* users between beforeUserDeletion and the delete of their row

vars == <<users, builds, joined, count, req, leaving>>

Init ==
    /\ users = Users
    /\ builds = Builds
    /\ joined = [k \in Kinds |-> [b \in Builds |-> {}]]
    /\ count  = [k \in Kinds |-> [b \in Builds |-> 0]]
    /\ req = [h \in Handlers |-> None]
    /\ leaving = {}

-----------------------------------------------------------------------------
(* The counters                                                             *)

\* GREATEST(0, n - m)
Floored(n, m) == IF n < m THEN 0 ELSE n - m

\* Rows of u in S that a statement deletes (its complement: inserts).
Rows(u, S) == IF u \in S THEN 1 ELSE 0

\* Rows and counters after u's row of kind k on build b came or went.
Add(k, u, b) ==
    /\ joined' = [joined EXCEPT ![k][b] = @ \cup {u}]
    /\ count'  = [count EXCEPT ![k][b] = @ + (1 - Rows(u, joined[k][b]))]

Remove(k, u, b) ==
    /\ joined' = [joined EXCEPT ![k][b] = @ \ {u}]
    /\ count'  = [count EXCEPT ![k][b] = Floored(@, Rows(u, joined[k][b]))]

-----------------------------------------------------------------------------
(* The routes: POST and DELETE of /builds/:slug/like, dislike and bookmark  *)

\* The checks.  canActOnBuild may refuse anybody anything; a Like needs
\* somebody else's build, and a DELETE is not checked at all.
Ask(h, r) ==
    /\ req[h] = None
    /\ r.u \in users /\ r.b \in builds
    /\ r.act = "set" /\ r.k \in LikeKinds => OwnerOf[r.b] # r.u
    /\ req' = [req EXCEPT ![h] = r]
    /\ UNCHANGED <<users, builds, joined, count, leaving>>

\* The statement, whose foreign keys fail for a build or user that is gone.
Statement(h, act, ks) ==
    /\ req[h] # None /\ req[h].act = act /\ req[h].k \in ks
    /\ req' = [req EXCEPT ![h] = None]
    /\ UNCHANGED <<users, builds, leaving>>

Lands(h) == req[h].u \in users /\ req[h].b \in builds

\* Mutant: a flip does not come off the other counter.
setLike_keepOther(h) ==
    LET k == req[h].k
        u == req[h].u
        b == req[h].b
    IN  /\ Statement(h, "set", LikeKinds)
        /\ IF Lands(h)
           THEN /\ joined' = [joined EXCEPT ![k][b] = @ \cup {u},
                                            ![Other(k)][b] = @ \ {u}]
                /\ count'  = [count EXCEPT ![k][b] = @ + (1 - Rows(u, joined[k][b]))]
           ELSE UNCHANGED <<joined, count>>

\* An upsert: a flip comes off the other counter.
setLike(h) ==
    LET k == req[h].k
        o == Other(k)
        u == req[h].u
        b == req[h].b
    IN  /\ Statement(h, "set", LikeKinds)
        /\ IF Lands(h)
           THEN /\ joined' = [joined EXCEPT ![k][b] = @ \cup {u}, ![o][b] = @ \ {u}]
                /\ count'  = [count EXCEPT
                                ![k][b] = @ + (1 - Rows(u, joined[k][b])),
                                ![o][b] = Floored(@, Rows(u, joined[o][b]))]
           ELSE UNCHANGED <<joined, count>>

\* Mutant: the decrement does not count the deleted rows.
clearLike_always(h) ==
    /\ Statement(h, "clear", LikeKinds)
    /\ IF Lands(h)
       THEN /\ joined' = [k \in Kinds |->
                            IF k \in LikeKinds
                            THEN [joined[k] EXCEPT ![req[h].b] = @ \ {req[h].u}]
                            ELSE joined[k]]
            /\ count' = [count EXCEPT ![req[h].k][req[h].b] = Floored(@, 1)]
       ELSE UNCHANGED <<joined, count>>

\* Deletes the row whichever way it went.
clearLike(h) ==
    LET u == req[h].u
        b == req[h].b
        k == IF u \in joined["like"][b] THEN "like" ELSE "dislike"
    IN  /\ Statement(h, "clear", LikeKinds)
        /\ IF Lands(h) THEN Remove(k, u, b) ELSE UNCHANGED <<joined, count>>

addBookmark(h) ==
    /\ Statement(h, "set", {"bookmark"})
    /\ IF Lands(h) THEN Add("bookmark", req[h].u, req[h].b)
                   ELSE UNCHANGED <<joined, count>>

removeBookmark(h) ==
    /\ Statement(h, "clear", {"bookmark"})
    /\ IF Lands(h) THEN Remove("bookmark", req[h].u, req[h].b)
                   ELSE UNCHANGED <<joined, count>>

-----------------------------------------------------------------------------
(* Deletes                                                                  *)

\* The rows on builds that are gone cascade; so do their counters.
OnlyOn(B, table, empty) ==
    [k \in Kinds |-> [b \in Builds |-> IF b \in B THEN table[k][b] ELSE empty]]

deleteBuild(b) ==
    /\ b \in builds
    /\ builds' = builds \ {b}
    /\ joined' = OnlyOn(builds \ {b}, joined, {})
    /\ count'  = OnlyOn(builds \ {b}, count, 0)
    /\ UNCHANGED <<users, req, leaving>>

WithoutRows(u) == [k \in Kinds |-> [b \in Builds |-> joined[k][b] \ {u}]]
OffCounters(u) ==
    [k \in Kinds |-> [b \in Builds |-> Floored(count[k][b], Rows(u, joined[k][b]))]]

\* Likes, Dislikes and Bookmarks come back off the counters.
beforeUserDeletion(u) ==
    /\ u \in users \cap Leavers /\ u \notin leaving
    /\ leaving' = leaving \cup {u}
    /\ joined' = WithoutRows(u)
    /\ count'  = OffCounters(u)
    /\ UNCHANGED <<users, builds, req>>

Owns(u) == {b \in builds : OwnerOf[b] = u}

\* The delete of the row: builds cascade, and join rows written since.
deleteUserRow(u) ==
    LET left == builds \ Owns(u)
    IN  /\ u \in leaving
        /\ users' = users \ {u}
        /\ leaving' = leaving \ {u}
        /\ builds' = left
        /\ joined' = OnlyOn(left, WithoutRows(u), {})
        /\ count'  = OnlyOn(left, count, 0)
        /\ UNCHANGED req

\* /auth/delete-user: the delete may fail after the hook's commit.
deletionStops(u) ==
    /\ u \in leaving
    /\ leaving' = leaving \ {u}
    /\ UNCHANGED <<users, builds, joined, count, req>>

\* DELETE /admin/users/:id: both in one transaction, here one step.
adminDeleteUser(u) ==
    LET left == builds \ Owns(u)
    IN  /\ u \in users \cap Leavers
        /\ users' = users \ {u}
        /\ leaving' = leaving \ {u}
        /\ builds' = left
        /\ joined' = OnlyOn(left, WithoutRows(u), {})
        /\ count'  = OnlyOn(left, OffCounters(u), 0)
        /\ UNCHANGED req

-----------------------------------------------------------------------------
Serve(h) ==
    \/ \E r \in Request : Ask(h, r)
    \/ setLike(h)
    \/ clearLike(h)
    \/ addBookmark(h)
    \/ removeBookmark(h)

Delete ==
    \/ \E b \in Builds : deleteBuild(b)
    \/ \E u \in Users : \/ beforeUserDeletion(u)
                        \/ deleteUserRow(u)
                        \/ deletionStops(u)
                        \/ adminDeleteUser(u)

Next == Delete \/ \E h \in Handlers : Serve(h)

Spec == Init /\ [][Next]_vars

-----------------------------------------------------------------------------
(* Properties                                                               *)

\* Every variable has its type.
TypeOK ==
    /\ users \subseteq Users
    /\ builds \subseteq Builds
    /\ joined \in [Kinds -> [Builds -> SUBSET Users]]
    /\ count \in [Kinds -> [Builds -> Nat]]
    /\ req \in [Handlers -> Request \cup {None}]
    /\ leaving \subseteq users

RowCount(k, b) == Cardinality(joined[k][b])

\* No counter is ever below its rows: the floors of _build-social.ts and
\* user-deletion.ts never hide a decrement that came too often, and toggling
\* cannot take off what somebody else's row put there.
CountersCoverRows == \A k \in Kinds, b \in Builds : count[k][b] >= RowCount(k, b)

\* What a counter is above its rows.
Drift(k, b) == count[k][b] - RowCount(k, b)

\* No request, no flip, no deletion of a build and no beforeUserDeletion moves a
\* counter away from its rows: only the delete of a user row does, which takes
\* rows with it that came after beforeUserDeletion.
OnlyLateRowsDrift ==
    [][\A k \in Kinds, b \in Builds :
          b \in builds' /\ Drift(k, b)' # Drift(k, b)
             => \E u \in leaving \ users' : u \in joined[k][b]]_vars

\* user-deletion.ts: rows "come back off the denormalized counters", which the
\* cascade "would leave permanently inflated".
CountersMatchRows == \A k \in Kinds, b \in builds : count[k][b] = RowCount(k, b)
=============================================================================
