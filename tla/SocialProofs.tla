----------------------------- MODULE SocialProofs -----------------------------
(***************************************************************************)
(* Theorems about Social, for any number of users, builds and requests.    *)
(* The argument is one lemma, StepDrift: what a counter is above its rows  *)
(* stays the same in every step but the delete of a user row.              *)
(***************************************************************************)
EXTENDS Social, FiniteSetTheorems, TLAPS

-----------------------------------------------------------------------------
(* Counting rows                                                            *)

\* A set of users is finite, and counted by a natural number.
LEMMA UserSets ==
  ASSUME NEW S \in SUBSET Users
  PROVE  IsFiniteSet(S) /\ Cardinality(S) \in Nat
<1>1. IsFiniteSet(S)
  BY SocialAssumption, FS_Subset
<1> QED
  BY <1>1, FS_CardinalityType

\* A counter moved by the rows a statement inserted stays as far above them.
LEMMA AddKeeps ==
  ASSUME NEW S \in SUBSET Users, NEW u \in Users, NEW c \in Nat
  PROVE  /\ c + (1 - Rows(u, S)) \in Nat
         /\ (c + (1 - Rows(u, S))) - Cardinality(S \cup {u}) = c - Cardinality(S)
<1>1. IsFiniteSet(S) /\ Cardinality(S) \in Nat
  BY UserSets
<1>2. Cardinality(S \cup {u}) = IF u \in S THEN Cardinality(S) ELSE Cardinality(S) + 1
  BY <1>1, FS_AddElement
<1> QED
  BY <1>1, <1>2 DEF Rows

\* So does one moved by the rows it deleted, if it covered them: the floor is
\* not reached.
LEMMA DropKeeps ==
  ASSUME NEW S \in SUBSET Users, NEW u \in Users, NEW c \in Nat, c >= Cardinality(S)
  PROVE  /\ Floored(c, Rows(u, S)) \in Nat
         /\ Floored(c, Rows(u, S)) - Cardinality(S \ {u}) = c - Cardinality(S)
<1>1. IsFiniteSet(S) /\ Cardinality(S) \in Nat
  BY UserSets
<1>2. Cardinality(S \ {u}) = IF u \in S THEN Cardinality(S) - 1 ELSE Cardinality(S)
  BY <1>1, FS_RemoveElement
<1>3. Cardinality(S \ {u}) \in Nat
  BY UserSets
<1>4. CASE u \in S
  BY <1>1, <1>2, <1>3, <1>4 DEF Rows, Floored
<1>5. CASE u \notin S
  BY <1>1, <1>2, <1>3, <1>5 DEF Rows, Floored
<1> QED
  BY <1>4, <1>5

\* A delete that leaves the counter alone leaves it above the rows by one more,
\* if there was a row.
LEMMA CascadeDrifts ==
  ASSUME NEW S \in SUBSET Users, NEW u \in Users, NEW c \in Nat, c >= Cardinality(S)
  PROVE  /\ c >= Cardinality(S \ {u})
         /\ u \notin S => c - Cardinality(S \ {u}) = c - Cardinality(S)
<1>1. IsFiniteSet(S) /\ Cardinality(S) \in Nat
  BY UserSets
<1>2. Cardinality(S \ {u}) = IF u \in S THEN Cardinality(S) - 1 ELSE Cardinality(S)
  BY <1>1, FS_RemoveElement
<1>3. Cardinality(S \ {u}) \in Nat
  BY UserSets
<1> QED
  BY <1>1, <1>2, <1>3

-----------------------------------------------------------------------------
(* Types                                                                    *)

\* What a statement is about.
LEMMA StatementType ==
  ASSUME TypeOK, NEW h \in Handlers, NEW act, NEW ks \in SUBSET Kinds,
         Statement(h, act, ks)
  PROVE  /\ req[h].u \in Users /\ req[h].b \in Builds /\ req[h].k \in ks
         /\ req' \in [Handlers -> Request \cup {None}]
         /\ UNCHANGED <<users, builds, leaving>>
  BY DEF TypeOK, Request, Statement

\* A row that comes keeps the tables' types, and every drift.
LEMMA AddStep ==
  ASSUME TypeOK, NEW k \in Kinds, NEW u \in Users, NEW b \in Builds, Add(k, u, b)
  PROVE  /\ joined' \in [Kinds -> [Builds -> SUBSET Users]]
         /\ count' \in [Kinds -> [Builds -> Nat]]
         /\ \A l \in Kinds, c \in Builds : Drift(l, c)' = Drift(l, c)
<1>1. joined' = [joined EXCEPT ![k] = [joined[k] EXCEPT ![b] = joined[k][b] \cup {u}]]
  BY DEF Add, TypeOK
<1>2. count' = [count EXCEPT ![k] =
                  [count[k] EXCEPT ![b] = count[k][b] + (1 - Rows(u, joined[k][b]))]]
  BY DEF Add, TypeOK
<1>3. /\ joined[k][b] \in SUBSET Users /\ count[k][b] \in Nat
  BY DEF TypeOK
<1>4. /\ count[k][b] + (1 - Rows(u, joined[k][b])) \in Nat
      /\ (count[k][b] + (1 - Rows(u, joined[k][b]))) - Cardinality(joined[k][b] \cup {u})
            = count[k][b] - Cardinality(joined[k][b])
  BY <1>3, AddKeeps
<1>5. /\ joined' \in [Kinds -> [Builds -> SUBSET Users]]
      /\ count' \in [Kinds -> [Builds -> Nat]]
  BY <1>1, <1>2, <1>4 DEF TypeOK
<1>6. ASSUME NEW l \in Kinds, NEW c \in Builds
      PROVE  Drift(l, c)' = Drift(l, c)
  <2>1. CASE l = k /\ c = b
    BY <1>1, <1>2, <1>3, <1>4, <2>1 DEF TypeOK, Drift, RowCount
  <2>2. CASE ~(l = k /\ c = b)
    BY <1>1, <1>2, <2>2 DEF TypeOK, Drift, RowCount
  <2> QED
    BY <2>1, <2>2
<1> QED
  BY <1>5, <1>6

\* So does a row that goes.
LEMMA RemoveStep ==
  ASSUME TypeOK, CountersCoverRows,
         NEW k \in Kinds, NEW u \in Users, NEW b \in Builds, Remove(k, u, b)
  PROVE  /\ joined' \in [Kinds -> [Builds -> SUBSET Users]]
         /\ count' \in [Kinds -> [Builds -> Nat]]
         /\ \A l \in Kinds, c \in Builds : Drift(l, c)' = Drift(l, c)
<1>1. joined' = [joined EXCEPT ![k] = [joined[k] EXCEPT ![b] = joined[k][b] \ {u}]]
  BY DEF Remove, TypeOK
<1>2. count' = [count EXCEPT ![k] =
                  [count[k] EXCEPT ![b] = Floored(count[k][b], Rows(u, joined[k][b]))]]
  BY DEF Remove, TypeOK
<1>3. /\ joined[k][b] \in SUBSET Users /\ count[k][b] \in Nat
      /\ count[k][b] >= Cardinality(joined[k][b])
  BY DEF TypeOK, CountersCoverRows, RowCount
<1>4. /\ Floored(count[k][b], Rows(u, joined[k][b])) \in Nat
      /\ Floored(count[k][b], Rows(u, joined[k][b])) - Cardinality(joined[k][b] \ {u})
            = count[k][b] - Cardinality(joined[k][b])
  BY <1>3, DropKeeps
<1>5. /\ joined' \in [Kinds -> [Builds -> SUBSET Users]]
      /\ count' \in [Kinds -> [Builds -> Nat]]
  BY <1>1, <1>2, <1>4 DEF TypeOK
<1>6. ASSUME NEW l \in Kinds, NEW c \in Builds
      PROVE  Drift(l, c)' = Drift(l, c)
  <2>1. CASE l = k /\ c = b
    BY <1>1, <1>2, <1>3, <1>4, <2>1 DEF TypeOK, Drift, RowCount
  <2>2. CASE ~(l = k /\ c = b)
    BY <1>1, <1>2, <2>2 DEF TypeOK, Drift, RowCount
  <2> QED
    BY <2>1, <2>2
<1> QED
  BY <1>5, <1>6

\* A flip is a row that comes and one of the opposite kind that goes.
LEMMA FlipStep ==
  ASSUME TypeOK, CountersCoverRows, NEW h \in Handlers, setLike(h)
  PROVE  /\ joined' \in [Kinds -> [Builds -> SUBSET Users]]
         /\ count' \in [Kinds -> [Builds -> Nat]]
         /\ \A l \in Kinds, c \in Builds : Drift(l, c)' = Drift(l, c)
<1>1. CASE UNCHANGED <<joined, count>>
  BY <1>1 DEF TypeOK, Drift, RowCount
<1>2. CASE ~UNCHANGED <<joined, count>>
  <2>1. Statement(h, "set", LikeKinds)
    BY DEF setLike
  <2>2. PICK k \in Kinds, o \in Kinds, u \in Users, b \in Builds :
            k = req[h].k /\ o = Other(k) /\ k # o /\ u = req[h].u /\ b = req[h].b
    BY <2>1, StatementType DEF LikeKinds, Kinds, Other
  <2>3. /\ joined' = [joined EXCEPT ![k][b] = @ \cup {u}, ![o][b] = @ \ {u}]
        /\ count'  = [count EXCEPT ![k][b] = @ + (1 - Rows(u, joined[k][b])),
                                   ![o][b] = Floored(@, Rows(u, joined[o][b]))]
    BY <1>2, <2>2 DEF setLike
  <2>4. joined' = [l \in Kinds |->
                     IF l = k THEN [joined[k] EXCEPT ![b] = joined[k][b] \cup {u}]
                     ELSE IF l = o THEN [joined[o] EXCEPT ![b] = joined[o][b] \ {u}]
                     ELSE joined[l]]
    BY <2>2, <2>3 DEF TypeOK
  <2>5. count' = [l \in Kinds |->
                     IF l = k
                     THEN [count[k] EXCEPT ![b] = count[k][b] + (1 - Rows(u, joined[k][b]))]
                     ELSE IF l = o
                     THEN [count[o] EXCEPT ![b] = Floored(count[o][b], Rows(u, joined[o][b]))]
                     ELSE count[l]]
    BY <2>2, <2>3 DEF TypeOK
  <2>6. /\ joined[k][b] \in SUBSET Users /\ count[k][b] \in Nat
        /\ joined[o][b] \in SUBSET Users /\ count[o][b] \in Nat
        /\ count[o][b] >= Cardinality(joined[o][b])
    BY DEF TypeOK, CountersCoverRows, RowCount
  <2>7. /\ count[k][b] + (1 - Rows(u, joined[k][b])) \in Nat
        /\ (count[k][b] + (1 - Rows(u, joined[k][b]))) - Cardinality(joined[k][b] \cup {u})
              = count[k][b] - Cardinality(joined[k][b])
    BY <2>6, AddKeeps
  <2>8. /\ Floored(count[o][b], Rows(u, joined[o][b])) \in Nat
        /\ Floored(count[o][b], Rows(u, joined[o][b])) - Cardinality(joined[o][b] \ {u})
              = count[o][b] - Cardinality(joined[o][b])
    BY <2>6, DropKeeps
  <2>9. /\ joined' \in [Kinds -> [Builds -> SUBSET Users]]
        /\ count' \in [Kinds -> [Builds -> Nat]]
    BY <2>4, <2>5, <2>7, <2>8 DEF TypeOK
  <2>10. ASSUME NEW l \in Kinds, NEW c \in Builds
         PROVE  Drift(l, c)' = Drift(l, c)
    <3>1. CASE l = k /\ c = b
      BY <2>2, <2>4, <2>5, <2>6, <2>7, <3>1 DEF TypeOK, Drift, RowCount
    <3>2. CASE l = o /\ c = b
      BY <2>2, <2>4, <2>5, <2>6, <2>8, <3>2 DEF TypeOK, Drift, RowCount
    <3>3. CASE c # b \/ l \notin {k, o}
      BY <2>2, <2>4, <2>5, <3>3 DEF TypeOK, Drift, RowCount
    <3> QED
      BY <3>1, <3>2, <3>3
  <2> QED
    BY <2>9, <2>10
<1> QED
  BY <1>1, <1>2

\* What happens to counter and rows of each kind and build in a step: they move
\* together, or go with the build, or a user row goes and takes a row along.
KeptDrift(k, b) == Drift(k, b)' = Drift(k, b)
GoneBuild(k, b) == b \notin builds' /\ joined'[k][b] = {} /\ count'[k][b] = 0
LateRow(k, b)   == /\ \E u \in leaving \ users' : u \in joined[k][b]
                   /\ count'[k][b] >= RowCount(k, b)'

LEMMA StepDrift ==
  ASSUME TypeOK, CountersCoverRows, [Next]_vars
  PROVE  /\ TypeOK'
         /\ \A k \in Kinds, b \in Builds :
               KeptDrift(k, b) \/ GoneBuild(k, b) \/ LateRow(k, b)
<1> USE SocialAssumption
<1> DEFINE Goal ==
      /\ TypeOK'
      /\ \A k \in Kinds, b \in Builds :
            KeptDrift(k, b) \/ GoneBuild(k, b) \/ LateRow(k, b)
<1>1. ASSUME NEW h \in Handlers, NEW r \in Request, Ask(h, r) PROVE Goal
  BY <1>1 DEF Ask, TypeOK, KeptDrift, Drift, RowCount
<1>2. ASSUME NEW h \in Handlers, setLike(h) PROVE Goal
  <2>1. Statement(h, "set", LikeKinds)
    BY <1>2 DEF setLike
  <2>2. /\ req' \in [Handlers -> Request \cup {None}]
        /\ UNCHANGED <<users, builds, leaving>>
    BY <2>1, StatementType DEF LikeKinds, Kinds
  <2> QED
    BY <1>2, <2>2, FlipStep DEF TypeOK, KeptDrift
<1>3. ASSUME NEW h \in Handlers, NEW act, NEW ks \in SUBSET Kinds, Statement(h, act, ks),
             \/ UNCHANGED <<joined, count>>
             \/ \E k \in Kinds, u \in Users, b \in Builds : Add(k, u, b) \/ Remove(k, u, b)
      PROVE  Goal
  <2>1. /\ req' \in [Handlers -> Request \cup {None}]
        /\ UNCHANGED <<users, builds, leaving>>
    BY <1>3, StatementType
  <2>2. CASE UNCHANGED <<joined, count>>
    BY <2>1, <2>2 DEF TypeOK, KeptDrift, Drift, RowCount
  <2>3. CASE \E k \in Kinds, u \in Users, b \in Builds : Add(k, u, b)
    BY <2>1, <2>3, AddStep DEF TypeOK, KeptDrift
  <2>4. CASE \E k \in Kinds, u \in Users, b \in Builds : Remove(k, u, b)
    BY <2>1, <2>4, RemoveStep DEF TypeOK, KeptDrift
  <2> QED
    BY <1>3, <2>2, <2>3, <2>4
<1>4. ASSUME NEW h \in Handlers, clearLike(h) PROVE Goal
  <2>1. Statement(h, "clear", LikeKinds) /\ LikeKinds \in SUBSET Kinds
    BY <1>4 DEF clearLike, LikeKinds, Kinds
  <2>2. req[h].u \in Users /\ req[h].b \in Builds
    BY <2>1, StatementType
  <2>3. UNCHANGED <<joined, count>> \/ \E k \in Kinds : Remove(k, req[h].u, req[h].b)
    BY <1>4 DEF clearLike, Kinds
  <2> QED
    BY <1>3, <2>1, <2>2, <2>3
<1>5. ASSUME NEW h \in Handlers, addBookmark(h) \/ removeBookmark(h) PROVE Goal
  <2>1. PICK act \in {"set", "clear"} : Statement(h, act, {"bookmark"})
    BY <1>5 DEF addBookmark, removeBookmark
  <2>2. {"bookmark"} \in SUBSET Kinds /\ req[h].u \in Users /\ req[h].b \in Builds
    BY <2>1, StatementType DEF Kinds
  <2>3. \/ UNCHANGED <<joined, count>>
        \/ Add("bookmark", req[h].u, req[h].b) \/ Remove("bookmark", req[h].u, req[h].b)
    BY <1>5 DEF addBookmark, removeBookmark
  <2> QED
    BY <1>3, <2>1, <2>2, <2>3
<1>6. ASSUME NEW b \in Builds, deleteBuild(b) PROVE Goal
  BY <1>6 DEF deleteBuild, OnlyOn, TypeOK, KeptDrift, GoneBuild, Drift, RowCount
<1>7. ASSUME NEW u \in Users, NEW k \in Kinds, NEW b \in Builds
      PROVE  /\ WithoutRows(u)[k][b] = joined[k][b] \ {u}
             /\ joined[k][b] \ {u} \in SUBSET Users
             /\ OffCounters(u)[k][b] \in Nat
             /\ OffCounters(u)[k][b] - Cardinality(joined[k][b] \ {u})
                   = count[k][b] - Cardinality(joined[k][b])
  <2>1. /\ joined[k][b] \in SUBSET Users /\ count[k][b] \in Nat
        /\ count[k][b] >= Cardinality(joined[k][b])
    BY DEF TypeOK, CountersCoverRows, RowCount
  <2> QED
    BY <2>1, DropKeeps DEF WithoutRows, OffCounters
<1>8. ASSUME NEW u \in Users, beforeUserDeletion(u) PROVE Goal
  <2>1. joined' = WithoutRows(u) /\ count' = OffCounters(u)
    BY <1>8 DEF beforeUserDeletion
  <2>2. /\ joined' \in [Kinds -> [Builds -> SUBSET Users]]
        /\ count' \in [Kinds -> [Builds -> Nat]]
    BY <1>7, <2>1 DEF WithoutRows, OffCounters
  <2>3. ASSUME NEW k \in Kinds, NEW b \in Builds PROVE KeptDrift(k, b)
    <3>1. joined'[k][b] = joined[k][b] \ {u} /\ count'[k][b] = OffCounters(u)[k][b]
      BY <1>7, <2>1
    <3> QED
      BY <1>7, <3>1 DEF KeptDrift, Drift, RowCount
  <2> QED
    BY <1>8, <2>2, <2>3 DEF beforeUserDeletion, TypeOK
<1>9. ASSUME NEW u \in Users, deleteUserRow(u) PROVE Goal
  <2>1. PICK left \in SUBSET builds :
            /\ builds' = left /\ joined' = OnlyOn(left, WithoutRows(u), {})
            /\ count' = OnlyOn(left, count, 0)
            /\ u \in leaving /\ users' = users \ {u} /\ leaving' = leaving \ {u}
            /\ UNCHANGED req
    BY <1>9 DEF deleteUserRow
  <2>2. ASSUME NEW k \in Kinds, NEW b \in Builds
        PROVE  /\ b \in left => joined'[k][b] = joined[k][b] \ {u} /\ count'[k][b] = count[k][b]
               /\ b \notin left => joined'[k][b] = {} /\ count'[k][b] = 0
    BY <1>7, <2>1, <2>2 DEF OnlyOn
  <2>3. TypeOK'
    <3>1. /\ joined' = [k \in Kinds |-> [b \in Builds |-> joined'[k][b]]]
          /\ count' = [k \in Kinds |-> [b \in Builds |-> count'[k][b]]]
      BY <2>1 DEF OnlyOn
    <3>2. ASSUME NEW k \in Kinds, NEW b \in Builds
          PROVE  joined'[k][b] \in SUBSET Users /\ count'[k][b] \in Nat
      BY <1>7, <2>2 DEF TypeOK
    <3>3. /\ joined' \in [Kinds -> [Builds -> SUBSET Users]]
          /\ count' \in [Kinds -> [Builds -> Nat]]
      BY <3>1, <3>2
    <3> QED
      BY <2>1, <3>3 DEF TypeOK
  <2>4. ASSUME NEW k \in Kinds, NEW b \in Builds
        PROVE  KeptDrift(k, b) \/ GoneBuild(k, b) \/ LateRow(k, b)
    <3>1. /\ joined[k][b] \in SUBSET Users /\ count[k][b] \in Nat
          /\ count[k][b] >= Cardinality(joined[k][b])
      BY DEF TypeOK, CountersCoverRows, RowCount
    <3>2. CASE b \notin left
      BY <2>1, <2>2, <3>2 DEF GoneBuild
    <3>3. CASE b \in left /\ u \in joined[k][b]
      BY <2>1, <2>2, <3>1, <3>3, CascadeDrifts DEF LateRow, RowCount
    <3>4. CASE b \in left /\ u \notin joined[k][b]
      BY <2>2, <3>1, <3>4, CascadeDrifts DEF KeptDrift, Drift, RowCount
    <3> QED
      BY <3>2, <3>3, <3>4
  <2> QED
    BY <2>3, <2>4
<1>10. ASSUME NEW u \in Users, deletionStops(u) PROVE Goal
  BY <1>10 DEF deletionStops, TypeOK, KeptDrift, Drift, RowCount
<1>11. ASSUME NEW u \in Users, adminDeleteUser(u) PROVE Goal
  <2>1. PICK left \in SUBSET builds :
            /\ builds' = left /\ joined' = OnlyOn(left, WithoutRows(u), {})
            /\ count' = OnlyOn(left, OffCounters(u), 0)
            /\ users' = users \ {u} /\ leaving' = leaving \ {u} /\ UNCHANGED req
    BY <1>11 DEF adminDeleteUser
  <2>2. ASSUME NEW k \in Kinds, NEW b \in Builds
        PROVE  /\ b \in left => /\ joined'[k][b] = joined[k][b] \ {u}
                                /\ count'[k][b] = OffCounters(u)[k][b]
               /\ b \notin left => joined'[k][b] = {} /\ count'[k][b] = 0
    BY <1>7, <2>1, <2>2 DEF OnlyOn
  <2>3. TypeOK'
    <3>1. /\ joined' = [k \in Kinds |-> [b \in Builds |-> joined'[k][b]]]
          /\ count' = [k \in Kinds |-> [b \in Builds |-> count'[k][b]]]
      BY <2>1 DEF OnlyOn
    <3>2. ASSUME NEW k \in Kinds, NEW b \in Builds
          PROVE  joined'[k][b] \in SUBSET Users /\ count'[k][b] \in Nat
      <4>1. CASE b \in left
        <5>1. joined[k][b] \ {u} \in SUBSET Users /\ OffCounters(u)[k][b] \in Nat
          BY <1>7
        <5> QED
          BY <2>2, <4>1, <5>1
      <4>2. CASE b \notin left
        BY <2>2, <4>2
      <4> QED
        BY <4>1, <4>2
    <3>3. /\ joined' \in [Kinds -> [Builds -> SUBSET Users]]
          /\ count' \in [Kinds -> [Builds -> Nat]]
      BY <3>1, <3>2
    <3> QED
      BY <2>1, <3>3 DEF TypeOK
  <2>4. ASSUME NEW k \in Kinds, NEW b \in Builds
        PROVE  KeptDrift(k, b) \/ GoneBuild(k, b)
    BY <1>7, <2>1, <2>2 DEF KeptDrift, GoneBuild, Drift, RowCount
  <2> QED
    BY <2>3, <2>4
<1>12. CASE UNCHANGED vars
  BY <1>12 DEF vars, TypeOK, KeptDrift, Drift, RowCount
<1> QED
  BY <1>1, <1>2, <1>4, <1>5, <1>6, <1>8, <1>9, <1>10, <1>11, <1>12
     DEF Next, Delete, Serve

-----------------------------------------------------------------------------
(* The theorems                                                             *)

\* A drift is a natural number where the counter covers its rows, and covers
\* them again after the step.
LEMMA CoversStep == TypeOK /\ CountersCoverRows /\ [Next]_vars
                       => TypeOK' /\ CountersCoverRows'
<1> SUFFICES ASSUME TypeOK, CountersCoverRows, [Next]_vars
             PROVE  TypeOK' /\ CountersCoverRows'
  OBVIOUS
<1>1. TypeOK'
  BY StepDrift
<1>2. ASSUME NEW k \in Kinds, NEW b \in Builds
      PROVE  count'[k][b] >= Cardinality(joined'[k][b])
  <2>1. /\ count[k][b] \in Nat /\ Cardinality(joined[k][b]) \in Nat
        /\ count[k][b] >= Cardinality(joined[k][b])
    BY UserSets DEF TypeOK, CountersCoverRows, RowCount
  <2>2. count'[k][b] \in Nat /\ Cardinality(joined'[k][b]) \in Nat
    BY <1>1, UserSets DEF TypeOK
  <2>3. CASE KeptDrift(k, b)
    BY <2>1, <2>2, <2>3 DEF KeptDrift, Drift, RowCount
  <2>4. CASE GoneBuild(k, b)
    BY <2>4, FS_EmptySet DEF GoneBuild
  <2>5. CASE LateRow(k, b)
    BY <2>5 DEF LateRow, RowCount
  <2> QED
    BY <2>3, <2>4, <2>5, StepDrift
<1> QED
  BY <1>1, <1>2 DEF CountersCoverRows, RowCount

LEMMA InitCovers == Init => TypeOK /\ CountersCoverRows
<1> SUFFICES ASSUME Init PROVE TypeOK /\ CountersCoverRows
  OBVIOUS
<1>1. TypeOK
  BY DEF Init, TypeOK
<1>2. CountersCoverRows
  BY FS_EmptySet DEF Init, CountersCoverRows, RowCount
<1> QED
  BY <1>1, <1>2

\* However toggles, deletions of builds and deletions of accounts race, no
\* counter is below its rows.
THEOREM NoCounterUnderflows == Spec => [](TypeOK /\ CountersCoverRows)
<1>1. Init => TypeOK /\ CountersCoverRows
  BY InitCovers
<1>2. TypeOK /\ CountersCoverRows /\ [Next]_vars => TypeOK' /\ CountersCoverRows'
  BY CoversStep
<1> QED
  BY <1>1, <1>2, PTL DEF Spec

\* A counter leaves its rows only when a user row is deleted that had a late one.
THEOREM OnlyLateRowsMoveCounters == Spec => OnlyLateRowsDrift
<1>1. TypeOK /\ CountersCoverRows /\ [Next]_vars
         => [\A k \in Kinds, b \in Builds :
               b \in builds' /\ Drift(k, b)' # Drift(k, b)
                  => \E u \in leaving \ users' : u \in joined[k][b]]_vars
  BY StepDrift DEF KeptDrift, GoneBuild, LateRow
<1> QED
  BY <1>1, NoCounterUnderflows, PTL DEF Spec, OnlyLateRowsDrift

\* Where no account is deleted every counter is exact.
THEOREM CountersAreExact ==
  ASSUME Leavers = {}
  PROVE  Spec => []CountersMatchRows
<1> DEFINE Exact == /\ TypeOK /\ CountersCoverRows /\ leaving = {}
                    /\ \A k \in Kinds, b \in Builds : count[k][b] = Cardinality(joined[k][b])
<1>1. Init => Exact
  <2> SUFFICES ASSUME Init PROVE Exact
    OBVIOUS
  <2>1. TypeOK /\ CountersCoverRows
    BY InitCovers
  <2> QED
    BY <2>1, FS_EmptySet DEF Init
<1>2. Exact /\ [Next]_vars => Exact'
  <2> SUFFICES ASSUME Exact, [Next]_vars PROVE Exact'
    OBVIOUS
  <2>1. TypeOK' /\ CountersCoverRows'
    BY CoversStep
  <2>2. leaving' = {}
    BY DEF Next, Delete, Serve, vars, Ask, setLike, clearLike, addBookmark, removeBookmark,
           Statement, deleteBuild, beforeUserDeletion, deleteUserRow, deletionStops,
           adminDeleteUser
  <2>3. ASSUME NEW k \in Kinds, NEW b \in Builds
        PROVE  count'[k][b] = Cardinality(joined'[k][b])
    <3>1. /\ count[k][b] \in Nat /\ count[k][b] = Cardinality(joined[k][b])
      BY DEF TypeOK
    <3>2. count'[k][b] \in Nat /\ Cardinality(joined'[k][b]) \in Nat
      BY <2>1, UserSets DEF TypeOK
    <3>3. KeptDrift(k, b) \/ GoneBuild(k, b)
      BY StepDrift DEF LateRow
    <3>4. CASE KeptDrift(k, b)
      BY <3>1, <3>2, <3>4 DEF KeptDrift, Drift, RowCount
    <3>5. CASE GoneBuild(k, b)
      BY <3>5, FS_EmptySet DEF GoneBuild
    <3> QED
      BY <3>3, <3>4, <3>5
  <2> QED
    BY <2>1, <2>2, <2>3
<1>3. Exact => CountersMatchRows
  BY DEF CountersMatchRows, RowCount, TypeOK
<1> QED
  BY <1>1, <1>2, <1>3, PTL DEF Spec
=============================================================================
