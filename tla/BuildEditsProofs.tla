--------------------------- MODULE BuildEditsProofs ---------------------------
(***************************************************************************)
(* Theorems about BuildEdits, for any builds, users, organizations and     *)
(* requests: links stay mutual, only a stale write moves a target away     *)
(* from what the owners chose, a strip follows the order that was stored,  *)
(* a hidden author is hidden under the organization it was asked for, only *)
(* the author moves a build, and the log, and the entries it is shown as,  *)
(* tell every save.                                                        *)
(***************************************************************************)
EXTENDS BuildEdits, SequenceTheorems, FiniteSetTheorems, NaturalsInduction,
        WellFoundedInduction, TLAPS

-----------------------------------------------------------------------------
(* Recursion, and the sequences it makes                                    *)

\* Induction up to N, for a set of numbers.
LEMMA UpTo ==
  ASSUME NEW N \in Nat, NEW T, 0 \in T, \A n \in 1 .. N : n - 1 \in T => n \in T
  PROVE  \A n \in 0 .. N : n \in T
<1> DEFINE R == OpToRel(<, Nat)
           Bad == (0 .. N) \ T
<1>1. IsWellFoundedOn(R, Nat)
  BY NatLessThanWellFounded
<1>2. \A x, y \in Nat : <<y, x>> \in R <=> y < x
  BY DEF OpToRel
<1> HIDE DEF R
<1>3. CASE Bad # {}
  <2>1. Bad \subseteq Nat
    OBVIOUS
  <2>2. PICK x \in Bad : \A y \in Bad : ~(<<y, x>> \in R)
    BY <1>1, <1>3, <2>1, WFMin
  <2>3. x \in 1 .. N /\ x - 1 \in 0 .. N /\ x - 1 < x
    OBVIOUS
  <2>4. x - 1 \notin Bad
    BY <1>2, <2>1, <2>2, <2>3
  <2>5. QED
    BY <2>3, <2>4
<1>4. QED
  BY <1>3

\* What is defined from the value before it is defined.
LEMMA RecursionExists ==
  ASSUME NEW S, NEW start \in S, NEW N \in Nat, NEW step \in [1 .. N -> [S -> S]]
  PROVE  \E f \in [0 .. N -> S] :
            /\ f[0] = start
            /\ \A n \in 1 .. N : f[n] = step[n][f[n - 1]]
<1> DEFINE Solves(f, m) == f[0] = start /\ \A n \in 1 .. m : f[n] = step[n][f[n - 1]]
           T == {m \in 0 .. N : \E f \in [0 .. m -> S] : Solves(f, m)}
<1>1. 0 \in T
  <2> DEFINE f == [n \in 0 .. 0 |-> start]
  <2>1. f \in [0 .. 0 -> S] /\ f[0] = start /\ 0 \in 0 .. N /\ 1 .. 0 = {}
    OBVIOUS
  <2> HIDE DEF f
  <2>2. Solves(f, 0)
    BY <2>1
  <2>3. QED
    BY <2>1, <2>2
<1>2. ASSUME NEW m \in 1 .. N, m - 1 \in T PROVE m \in T
  <2>1. PICK f \in [0 .. m - 1 -> S] : Solves(f, m - 1)
    BY <1>2
  <2> DEFINE g == [n \in 0 .. m |-> IF n = m THEN step[m][f[m - 1]] ELSE f[n]]
  <2>2. step[m] \in [S -> S] /\ f[m - 1] \in S
    OBVIOUS
  <2>3. step[m][f[m - 1]] \in S
    BY <2>2
  <2>4. g \in [0 .. m -> S]
    BY <2>3
  <2>5. ASSUME NEW n \in 1 .. m PROVE g[n] = step[n][g[n - 1]]
    <3>1. CASE n = m
      BY <3>1
    <3>2. CASE n # m
      <4>1. g[n] = f[n] /\ g[n - 1] = f[n - 1] /\ n \in 1 .. m - 1
        BY <3>2
      <4>2. QED
        BY <2>1, <4>1
    <3>3. QED
      BY <3>1, <3>2
  <2>6. g[0] = start
    BY <2>1
  <2> HIDE DEF g
  <2>7. Solves(g, m)
    BY <2>5, <2>6
  <2>8. QED
    BY <2>4, <2>7
<1> HIDE DEF T
<1>3. \A m \in 1 .. N : m - 1 \in T => m \in T
  BY <1>2
<1>4. \A m \in 0 .. N : m \in T
  BY <1>1, <1>3, UpTo
<1>5. N \in T
  BY <1>4
<1>6. QED
  BY <1>5 DEF T

LEMMA PickedIs ==
  ASSUME NEW S, NEW s \in Seq(S), NEW I
  PROVE  \E f \in [0 .. Len(s) -> Seq(S)] :
            /\ Picked(s, I) = f[Len(s)]
            /\ f[0] = <<>>
            /\ \A n \in 1 .. Len(s) :
                  f[n] = IF n \in I THEN Append(f[n - 1], s[n]) ELSE f[n - 1]
<1> DEFINE N == Len(s)
           W == Seq(S)
           none == <<>>
           F(n, w) == IF n \in I THEN Append(w, s[n]) ELSE w
           step == [n \in 1 .. N |-> [w \in W |-> F(n, w)]]
           Eq(f) == f = [n \in 0 .. N |-> IF n = 0 THEN none ELSE F(n, f[n - 1])]
           upTo == CHOOSE f : Eq(f)
<1>1. \A n \in 1 .. N : \A w \in W : F(n, w) \in W
  OBVIOUS
<1>2. N \in Nat /\ none \in W
  OBVIOUS
<1>3. Picked(s, I) = upTo[N]
  BY DEF Picked
<1> HIDE DEF W, N, upTo, none, F
<1>4. step \in [1 .. N -> [W -> W]]
  BY <1>1
<1> HIDE DEF step
<1>5. PICK f \in [0 .. N -> W] :
         f[0] = none /\ \A n \in 1 .. N : f[n] = step[n][f[n - 1]]
  BY <1>2, <1>4, RecursionExists
<1>6. \A n \in 1 .. N : f[n - 1] \in W
  BY <1>2, <1>5
<1>7. \A n \in 1 .. N : f[n] = F(n, f[n - 1])
  BY <1>5, <1>6 DEF step
<1>8. Eq(f)
  BY <1>2, <1>5, <1>7
<1>9. Eq(upTo)
  <2> HIDE DEF Eq
  <2>1. QED
    BY <1>8 DEF upTo
<1>10. upTo[0] = none /\ \A n \in 1 .. N : upTo[n] = F(n, upTo[n - 1])
  BY <1>2, <1>9
<1> DEFINE T == {n \in 0 .. N : upTo[n] \in W}
<1>11. 0 \in T
  BY <1>2, <1>10
<1>12. \A n \in 1 .. N : n - 1 \in T => n \in T
  BY <1>1, <1>2, <1>10
<1> HIDE DEF T
<1>13. \A n \in 0 .. N : n \in T
  BY <1>2, <1>11, <1>12, UpTo
<1>14. \A n \in 0 .. N : upTo[n] \in W
  BY <1>13 DEF T
<1>15. upTo \in [0 .. N -> W]
  BY <1>9, <1>14
<1>16. QED
  BY <1>3, <1>10, <1>15 DEF N, W, none, F

\* w has those of the first n elements of s that are at places in I; at says
\* where they were.
PickedAt(s, I, n, w, at) ==
    /\ at \in [1 .. Len(w) -> I \cap 1 .. n]
    /\ \A k, l \in 1 .. Len(w) : k < l => at[k] < at[l]
    /\ \A k \in 1 .. Len(w) : w[k] = s[at[k]]
    /\ \A i \in I \cap 1 .. n : \E k \in 1 .. Len(w) : at[k] = i

LEMMA PickedPlaces ==
  ASSUME NEW S, NEW s \in Seq(S), NEW I
  PROVE  /\ Picked(s, I) \in Seq(S)
         /\ \E at : PickedAt(s, I, Len(s), Picked(s, I), at)
<1>1. PICK f \in [0 .. Len(s) -> Seq(S)] :
            /\ Picked(s, I) = f[Len(s)]
            /\ f[0] = <<>>
            /\ \A n \in 1 .. Len(s) :
                  f[n] = IF n \in I THEN Append(f[n - 1], s[n]) ELSE f[n - 1]
  BY PickedIs
<1> DEFINE T == {n \in 0 .. Len(s) : \E at : PickedAt(s, I, n, f[n], at)}
<1>2. Len(s) \in Nat
  OBVIOUS
<1>3. 0 \in T
  <2> DEFINE at == [k \in 1 .. 0 |-> k]
  <2>1. Len(f[0]) = 0
    BY <1>1
  <2>2. PickedAt(s, I, 0, f[0], at)
    BY <2>1 DEF PickedAt
  <2> HIDE DEF at
  <2>3. QED
    BY <1>2, <2>2
<1>4. ASSUME NEW n \in 1 .. Len(s), n - 1 \in T
      PROVE  n \in T
  <2> DEFINE w == f[n - 1]
             L == Len(w)
  <2>1. PICK at : PickedAt(s, I, n - 1, w, at)
    BY <1>4
  <2>2. w \in Seq(S) /\ L \in Nat /\ s[n] \in S
    BY <1>1, <1>2
  <2>3. CASE n \notin I
    <3>1. f[n] = w /\ I \cap 1 .. n = I \cap 1 .. n - 1
      BY <1>1, <2>3
    <3> HIDE DEF w
    <3>2. PickedAt(s, I, n, f[n], at)
      BY <2>1, <3>1 DEF PickedAt
    <3>3. QED
      BY <3>2
  <2>4. CASE n \in I
    <3> DEFINE more == [k \in 1 .. L + 1 |-> IF k = L + 1 THEN n ELSE at[k]]
               v == f[n]
    <3>1. v = Append(w, s[n])
      BY <1>1, <2>4
    <3>2. Len(v) = L + 1 /\ v[L + 1] = s[n] /\ \A k \in 1 .. L : v[k] = w[k]
      BY <2>2, <3>1
    <3> HIDE DEF v, w, L
    <3>3. \A k \in 1 .. L : at[k] \in I \cap 1 .. n - 1
      BY <2>1 DEF PickedAt, L
    <3>4. more \in [1 .. L + 1 -> I \cap 1 .. n]
      BY <2>2, <2>4, <3>3
    <3>5. \A k, l \in 1 .. L + 1 : k < l => more[k] < more[l]
      <4>1. ASSUME NEW k \in 1 .. L + 1, NEW l \in 1 .. L + 1, k < l
            PROVE  more[k] < more[l]
        <5>1. k \in 1 .. L /\ more[k] = at[k] /\ at[k] \in 1 .. n - 1
          BY <2>2, <3>3, <4>1
        <5>2. CASE l = L + 1
          BY <5>1, <5>2
        <5>3. CASE l # L + 1
          <6>1. l \in 1 .. L /\ more[l] = at[l]
            BY <2>2, <5>3
          <6>2. QED
            BY <2>1, <4>1, <5>1, <6>1 DEF PickedAt, L
        <5>4. QED
          BY <5>2, <5>3
      <4>2. QED
        BY <4>1
    <3>6. ASSUME NEW k \in 1 .. L + 1
          PROVE  v[k] = s[more[k]]
      <4>1. CASE k = L + 1
        BY <3>2, <4>1
      <4>2. CASE k # L + 1
        <5>1. k \in 1 .. L /\ more[k] = at[k]
          BY <2>2, <4>2
        <5>2. w[k] = s[at[k]]
          BY <2>1, <5>1 DEF PickedAt, L
        <5>3. QED
          BY <3>2, <5>1, <5>2
      <4>3. QED
        BY <4>1, <4>2
    <3>7. \A i \in I \cap 1 .. n : \E k \in 1 .. L + 1 : more[k] = i
      <4>1. ASSUME NEW i \in I \cap 1 .. n
            PROVE  \E k \in 1 .. L + 1 : more[k] = i
        <5>1. CASE i = n
          <6>1. L + 1 \in 1 .. L + 1 /\ more[L + 1] = n
            BY <2>2
          <6>2. QED
            BY <5>1, <6>1
        <5>2. CASE i # n
          <6>1. PICK k \in 1 .. L : at[k] = i
            BY <2>1, <5>2 DEF PickedAt, L
          <6>2. k \in 1 .. L + 1 /\ more[k] = i
            BY <2>2, <6>1
          <6>3. QED
            BY <6>2
        <5>3. QED
          BY <5>1, <5>2
      <4>2. QED
        BY <4>1
    <3> HIDE DEF more
    <3>8. PickedAt(s, I, n, v, more)
      BY <3>2, <3>4, <3>5, <3>6, <3>7 DEF PickedAt
    <3>9. QED
      BY <3>8 DEF v
  <2>5. QED
    BY <2>3, <2>4
<1> HIDE DEF T
<1>5. \A n \in 1 .. Len(s) : n - 1 \in T => n \in T
  BY <1>4
<1>6. \A n \in 0 .. Len(s) : n \in T
  BY <1>2, <1>3, <1>5, UpTo
<1>7. Len(s) \in T
  BY <1>2, <1>6
<1>8. Picked(s, I) \in Seq(S)
  BY <1>1, <1>2
<1>9. QED
  BY <1>1, <1>7, <1>8 DEF T

\* What is picked is picked once, and in its order.
LEMMA PickedInjective ==
  ASSUME NEW S, NEW s \in Seq(S), NEW I \in SUBSET DOMAIN s,
         \A i, j \in I : s[i] = s[j] => i = j
  PROVE  /\ Picked(s, I) \in Seq(S)
         /\ IsInjective(Picked(s, I))
         /\ Range(Picked(s, I)) = {s[i] : i \in I}
         /\ \A k, l \in DOMAIN Picked(s, I) :
               k < l <=> \E i, j \in I : /\ i < j
                                         /\ s[i] = Picked(s, I)[k]
                                         /\ s[j] = Picked(s, I)[l]
<1> DEFINE w == Picked(s, I)
<1>1. w \in Seq(S) /\ \E at : PickedAt(s, I, Len(s), w, at)
  BY PickedPlaces
<1> HIDE DEF w
<1>2. PICK at : PickedAt(s, I, Len(s), w, at)
  BY <1>1
<1>3. DOMAIN w = 1 .. Len(w) /\ Len(w) \in Nat /\ DOMAIN s = 1 .. Len(s) /\ Len(s) \in Nat
  BY <1>1
<1>4. I \cap 1 .. Len(s) = I /\ I \subseteq Nat
  BY <1>3
<1>5. /\ \A k \in DOMAIN w : at[k] \in I /\ w[k] = s[at[k]]
      /\ \A k, l \in DOMAIN w : k < l => at[k] < at[l]
      /\ \A i \in I : \E k \in DOMAIN w : at[k] = i
  BY <1>2, <1>3, <1>4 DEF PickedAt
<1>6. IsInjective(w)
  <2>1. ASSUME NEW k \in DOMAIN w, NEW l \in DOMAIN w, w[k] = w[l]
        PROVE  k = l
    <3>1. at[k] = at[l] /\ at[k] \in Nat
      BY <1>4, <1>5, <2>1
    <3>2. ~(at[k] < at[l]) /\ ~(at[l] < at[k])
      BY <3>1
    <3>3. ~(k < l) /\ ~(l < k) /\ k \in Nat /\ l \in Nat
      BY <1>3, <1>5, <3>2
    <3>4. QED
      BY <3>3
  <2>2. QED
    BY <2>1 DEF IsInjective
<1>7. Range(w) = {s[i] : i \in I}
  BY <1>5 DEF Range
<1>8. ASSUME NEW k \in DOMAIN w, NEW l \in DOMAIN w
      PROVE  k < l <=> \E i, j \in I : i < j /\ s[i] = w[k] /\ s[j] = w[l]
  <2>1. CASE k < l
    BY <1>5, <2>1
  <2>2. ASSUME NEW i \in I, NEW j \in I, i < j, s[i] = w[k], s[j] = w[l]
        PROVE  k < l
    <3>1. at[k] = i /\ at[l] = j /\ i \in Nat /\ j \in Nat
      BY <1>4, <1>5, <2>2
    <3>2. ~(at[k] = at[l]) /\ ~(at[l] < at[k])
      BY <2>2, <3>1
    <3>3. k # l /\ ~(l < k) /\ k \in Nat /\ l \in Nat
      BY <1>3, <1>5, <3>2
    <3>4. QED
      BY <3>3
  <2>3. QED
    BY <2>1, <2>2
<1>9. QED
  BY <1>1, <1>6, <1>7, <1>8 DEF w

LEMMA NextOrderIs ==
  ASSUME NEW own, NEW ids \in Seq(Builds)
  PROVE  nextOrder(own, ids) \in Seq(Builds) /\ IsInjective(nextOrder(own, ids))
<1> DEFINE I == {i \in DOMAIN ids : /\ ids[i] \in Partners(own)
                                    /\ \A j \in 1 .. i - 1 : ids[j] # ids[i]}
<1>1. I \in SUBSET DOMAIN ids /\ DOMAIN ids \subseteq Nat \ {0}
  OBVIOUS
<1>2. ASSUME NEW i \in I, NEW j \in I, ids[i] = ids[j]
      PROVE  i = j
  <2>1. ~(i \in 1 .. j - 1) /\ ~(j \in 1 .. i - 1)
    BY <1>2
  <2>2. i \in Nat \ {0} /\ j \in Nat \ {0}
    BY <1>1
  <2>3. QED
    BY <2>1, <2>2
<1>3. nextOrder(own, ids) = Picked(ids, I)
  BY DEF nextOrder
<1> HIDE DEF I
<1>4. \A i, j \in I : ids[i] = ids[j] => i = j
  BY <1>2
<1>5. QED
  BY <1>1, <1>3, <1>4, PickedInjective

PlaceOf(s, p) == CHOOSE i \in DOMAIN s : s[i] = p

LEMMA PlaceIsThere ==
  ASSUME NEW s, NEW p \in Range(s), IsInjective(s)
  PROVE  /\ PlaceOf(s, p) \in DOMAIN s /\ s[PlaceOf(s, p)] = p
         /\ \A i \in DOMAIN s : s[i] = p => i = PlaceOf(s, p)
<1>1. \E i \in DOMAIN s : s[i] = p
  BY DEF Range
<1>2. PlaceOf(s, p) \in DOMAIN s /\ s[PlaceOf(s, p)] = p
  BY <1>1 DEF PlaceOf
<1> HIDE DEF PlaceOf
<1>3. QED
  BY <1>2 DEF IsInjective

\* The rows in the order of ids, those that ids leaves out behind them.
LEMMA OrderedRows ==
  ASSUME NEW S, NEW rows \in Seq(S), IsInjective(rows),
         NEW ids \in Seq(S), IsInjective(ids)
  PROVE  /\ orderPartners(rows, ids) \in Seq(S)
         /\ Range(orderPartners(rows, ids)) = Range(rows)
         /\ IsInjective(orderPartners(rows, ids))
         /\ \A p, q \in Range(rows) :
               p \in Range(ids) =>
                   (PlaceOf(orderPartners(rows, ids), p) < PlaceOf(orderPartners(rows, ids), q)
                      <=> p # q /\ (q \in Range(ids) => PlaceOf(ids, p) < PlaceOf(ids, q)))
<1> DEFINE I == {i \in DOMAIN ids : ids[i] \in Range(rows)}
           J == {i \in DOMAIN rows : rows[i] \notin Range(ids)}
           a == Picked(ids, I)
           b == Picked(rows, J)
           w == orderPartners(rows, ids)
<1>1. w = a \o b
  BY DEF orderPartners
<1>2. /\ I \in SUBSET DOMAIN ids /\ \A i, j \in I : ids[i] = ids[j] => i = j
      /\ J \in SUBSET DOMAIN rows /\ \A i, j \in J : rows[i] = rows[j] => i = j
  BY DEF IsInjective
<1>3. {ids[i] : i \in I} = Range(ids) \cap Range(rows)
  BY DEF Range
<1>4. {rows[i] : i \in J} = Range(rows) \ Range(ids)
  BY DEF Range
<1>5. DOMAIN ids \subseteq Nat
  OBVIOUS
<1>6. /\ a \in Seq(S) /\ IsInjective(a) /\ Range(a) = Range(ids) \cap Range(rows)
      /\ \A k, l \in DOMAIN a :
            k < l <=> \E i, j \in I : i < j /\ ids[i] = a[k] /\ ids[j] = a[l]
  <2> HIDE DEF I
  <2>1. QED
    BY <1>2, <1>3, PickedInjective
<1>7. b \in Seq(S) /\ IsInjective(b) /\ Range(b) = Range(rows) \ Range(ids)
  <2> HIDE DEF J
  <2>1. QED
    BY <1>2, <1>4, PickedInjective
<1> HIDE DEF a, b, w, J
<1>8. /\ w \in Seq(S) /\ Len(w) = Len(a) + Len(b)
      /\ \A k \in 1 .. Len(w) : w[k] = IF k <= Len(a) THEN a[k] ELSE b[k - Len(a)]
  BY <1>1, <1>6, <1>7
<1>9. /\ DOMAIN a = 1 .. Len(a) /\ DOMAIN b = 1 .. Len(b) /\ DOMAIN w = 1 .. Len(w)
      /\ Len(a) \in Nat /\ Len(b) \in Nat
  BY <1>6, <1>7, <1>8
<1>10. /\ \A k \in DOMAIN a : k \in DOMAIN w /\ w[k] = a[k] /\ a[k] \in Range(a)
       /\ \A k \in DOMAIN b : k + Len(a) \in DOMAIN w /\ w[k + Len(a)] = b[k] /\ b[k] \in Range(b)
       /\ \A k \in DOMAIN w : k \in DOMAIN a \/ (k - Len(a) \in DOMAIN b /\ w[k] = b[k - Len(a)])
  <2>1. \A k \in DOMAIN a : k \in DOMAIN w /\ w[k] = a[k] /\ a[k] \in Range(a)
    BY <1>8, <1>9 DEF Range
  <2>2. ASSUME NEW k \in DOMAIN b
        PROVE  k + Len(a) \in DOMAIN w /\ w[k + Len(a)] = b[k] /\ b[k] \in Range(b)
    <3>1. k + Len(a) \in 1 .. Len(w) /\ ~(k + Len(a) <= Len(a)) /\ k + Len(a) - Len(a) = k
      BY <1>8, <1>9
    <3>2. QED
      BY <1>8, <1>9, <3>1 DEF Range
  <2>3. ASSUME NEW k \in DOMAIN w, k \notin DOMAIN a
        PROVE  k - Len(a) \in DOMAIN b /\ w[k] = b[k - Len(a)]
    BY <1>8, <1>9, <2>3
  <2>4. QED
    BY <2>1, <2>2, <2>3
<1>11. Range(w) = Range(rows)
  <2>1. ASSUME NEW k \in DOMAIN w PROVE w[k] \in Range(rows)
    BY <1>6, <1>7, <1>10
  <2>2. ASSUME NEW x \in Range(rows) PROVE \E k \in DOMAIN w : w[k] = x
    <3>1. x \in Range(a) \/ x \in Range(b)
      BY <1>6, <1>7
    <3>2. (\E k \in DOMAIN a : a[k] = x) \/ (\E k \in DOMAIN b : b[k] = x)
      BY <3>1 DEF Range
    <3>3. QED
      BY <1>10, <3>2
  <2>3. QED
    BY <2>1, <2>2 DEF Range
<1>12. IsInjective(w)
  <2>1. ASSUME NEW k \in DOMAIN w, NEW l \in DOMAIN w, w[k] = w[l] PROVE k = l
    <3>1. CASE k \in DOMAIN a /\ l \in DOMAIN a
      BY <1>6, <1>10, <2>1, <3>1 DEF IsInjective
    <3>2. CASE k \in DOMAIN a /\ l \notin DOMAIN a
      BY <1>6, <1>7, <1>10, <2>1, <3>2
    <3>3. CASE k \notin DOMAIN a /\ l \in DOMAIN a
      BY <1>6, <1>7, <1>10, <2>1, <3>3
    <3>4. CASE k \notin DOMAIN a /\ l \notin DOMAIN a
      <4>1. /\ k - Len(a) \in DOMAIN b /\ l - Len(a) \in DOMAIN b
            /\ b[k - Len(a)] = b[l - Len(a)]
        BY <1>10, <2>1, <3>4
      <4>2. k - Len(a) = l - Len(a)
        BY <1>7, <4>1 DEF IsInjective
      <4>3. QED
        BY <1>8, <1>9, <4>2
    <3>5. QED
      BY <3>1, <3>2, <3>3, <3>4
  <2>2. QED
    BY <2>1 DEF IsInjective
<1>13. ASSUME NEW p \in Range(rows), NEW q \in Range(rows), p \in Range(ids)
       PROVE  PlaceOf(w, p) < PlaceOf(w, q)
                <=> p # q /\ (q \in Range(ids) => PlaceOf(ids, p) < PlaceOf(ids, q))
  <2>0. p \in Range(a) /\ \A x \in Range(a) : \E k \in DOMAIN a : a[k] = x
    <3>1. p \in Range(a)
      BY <1>6, <1>13
    <3>2. QED
      BY <3>1 DEF Range
  <2>1. PICK k \in DOMAIN a : a[k] = p
    BY <2>0
  <2>2. k = PlaceOf(w, p)
    <3>1. k \in DOMAIN w /\ w[k] = p /\ p \in Range(w)
      BY <1>10, <1>11, <2>1
    <3>2. QED
      BY <1>12, <3>1, PlaceIsThere
  <2>3. PlaceOf(w, q) \in DOMAIN w /\ w[PlaceOf(w, q)] = q
    BY <1>11, <1>12, PlaceIsThere
  <2>4. CASE q \in Range(ids)
    <3>0. q \in Range(a)
      BY <1>6, <2>4
    <3>1. PICK l \in DOMAIN a : a[l] = q
      BY <2>0, <3>0
    <3>2. l = PlaceOf(w, q)
      <4>1. l \in DOMAIN w /\ w[l] = q /\ q \in Range(w)
        BY <1>10, <1>11, <3>1
      <4>2. QED
        BY <1>12, <4>1, PlaceIsThere
    <3>3. /\ PlaceOf(ids, p) \in I /\ ids[PlaceOf(ids, p)] = p
          /\ PlaceOf(ids, q) \in I /\ ids[PlaceOf(ids, q)] = q
          /\ \A i \in I : ids[i] = p => i = PlaceOf(ids, p)
          /\ \A i \in I : ids[i] = q => i = PlaceOf(ids, q)
      BY <1>13, <2>4, PlaceIsThere
    <3> HIDE DEF I
    <3>4. k < l <=> PlaceOf(ids, p) < PlaceOf(ids, q)
      BY <1>6, <2>1, <3>1, <3>3
    <3>5. PlaceOf(ids, p) < PlaceOf(ids, q) => p # q
      <4>1. PlaceOf(ids, p) \in Nat
        BY <1>2, <1>5, <3>3
      <4>2. QED
        BY <4>1
    <3>6. QED
      BY <2>2, <2>4, <3>2, <3>4, <3>5
  <2>5. CASE q \notin Range(ids)
    <3>1. PlaceOf(w, q) \notin DOMAIN a
      BY <1>6, <1>10, <2>3, <2>5
    <3>2. k < PlaceOf(w, q)
      BY <1>8, <1>9, <2>1, <2>3, <3>1
    <3>3. p # q
      BY <1>13, <2>5
    <3>4. QED
      BY <2>2, <2>5, <3>2, <3>3
  <2>6. QED
    BY <2>4, <2>5
<1>14. QED
  BY <1>8, <1>11, <1>12, <1>13 DEF w

\* What lists a finite set has each of its elements once.
LEMMA ListedOnce ==
  ASSUME NEW S, IsFiniteSet(S), NEW w \in SetToSeqs(S)
  PROVE  /\ w \in Seq(S) /\ IsInjective(w)
         /\ Range(w) = S /\ Len(w) = Cardinality(S)
<1> DEFINE n == Cardinality(S)
<1>1. n \in Nat
  BY FS_CardinalityType
<1>2. w \in [1 .. n -> S] /\ \A i, j \in 1 .. n : i # j => w[i] # w[j]
  BY DEF SetToSeqs
<1>3. IsInjective(w)
  <2> HIDE DEF n
  <2>1. QED
    BY <1>2 DEF IsInjective
<1>4. w \in Injection(1 .. n, S)
  BY <1>2, <1>3 DEF Injection
<1>5. Cardinality(1 .. n) = n
  <2>1. 1 \in Int /\ n \in Int
    BY <1>1
  <2>2. Cardinality(1 .. n) = IF 1 > n THEN 0 ELSE n - 1 + 1
    BY <2>1, FS_Interval
  <2>3. QED
    BY <1>1, <2>2
<1>6. w \in Surjection(1 .. n, S)
  BY <1>4, <1>5, FS_Injection
<1>7. Range(w) = S
  BY <1>2, <1>6 DEF Range, Surjection
<1>8. w \in Seq(S) /\ Len(w) = n
  <2> HIDE DEF n
  <2>1. w \in Seq(S)
    BY <1>1, <1>2, SeqDef
  <2>2. QED
    BY <1>1, <1>2, <2>1
<1>9. QED
  BY <1>3, <1>7, <1>8

\* A sequence that names nothing twice is as long as its range is large.
LEMMA LenIsCardinality ==
  ASSUME NEW S, NEW w \in Seq(S), IsInjective(w)
  PROVE  IsFiniteSet(Range(w)) /\ Len(w) = Cardinality(Range(w))
<1> DEFINE n == Len(w)
           R == Range(w)
<1>1. n \in Nat /\ w \in [1 .. n -> S]
  OBVIOUS
<1>2. w \in [1 .. n -> R] /\ \A r \in R : \E i \in 1 .. n : w[i] = r
  BY <1>1 DEF Range
<1> HIDE DEF n, R
<1>3. w \in Surjection(1 .. n, R) /\ w \in Injection(1 .. n, R)
  BY <1>2 DEF Surjection, Injection
<1>4. IsFiniteSet(1 .. n) /\ Cardinality(1 .. n) = n
  <2>1. 1 \in Int /\ n \in Int
    BY <1>1
  <2>2. IsFiniteSet(1 .. n) /\ Cardinality(1 .. n) = IF 1 > n THEN 0 ELSE n - 1 + 1
    BY <2>1, FS_Interval
  <2>3. QED
    BY <1>1, <2>2
<1>5. IsFiniteSet(R) /\ Cardinality(R) = Cardinality(1 .. n)
  BY <1>3, <1>4, FS_Surjection
<1>6. QED
  BY <1>4, <1>5 DEF n, R

LEMMA LeastOfTwo ==
  ASSUME NEW a \in Nat, NEW b \in Nat
  PROVE  Min({a, b}) = IF a <= b THEN a ELSE b
<1> DEFINE m == IF a <= b THEN a ELSE b
<1>1. m \in {a, b} /\ \A y \in {a, b} : m <= y
  OBVIOUS
<1>2. ASSUME NEW x \in {a, b}, \A y \in {a, b} : x <= y
      PROVE  x = m
  <2>1. x \in Nat /\ x <= a /\ x <= b
    BY <1>2
  <2> QED
    BY <2>1
<1> HIDE DEF m
<1>3. Min({a, b}) \in {a, b} /\ \A y \in {a, b} : Min({a, b}) <= y
  BY <1>1 DEF Min
<1>4. Min({a, b}) = m
  BY <1>2, <1>3
<1> QED
  BY <1>4 DEF m

\* What LIMIT takes of a finite set.
LEMMA Limited ==
  ASSUME NEW S, IsFiniteSet(S), NEW limit \in Nat,
         NEW T \in kSubset(Min({limit, Cardinality(S)}), S)
  PROVE  /\ T \subseteq S /\ IsFiniteSet(T)
         /\ Cardinality(S) \in Nat /\ Cardinality(T) \in Nat /\ Cardinality(T) <= limit
         /\ Cardinality(T) = IF limit <= Cardinality(S) THEN limit ELSE Cardinality(S)
         /\ T = S \/ Cardinality(T) = limit
<1>1. Cardinality(S) \in Nat
  BY FS_CardinalityType
<1>2. T \subseteq S /\ Cardinality(T) = Min({limit, Cardinality(S)})
  BY DEF kSubset
<1>3. Cardinality(T) = IF limit <= Cardinality(S) THEN limit ELSE Cardinality(S)
  BY <1>1, <1>2, LeastOfTwo
<1>4. IsFiniteSet(T) /\ (Cardinality(S) = Cardinality(T) => S = T)
  BY <1>2, FS_Subset
<1>5. QED
  BY <1>1, <1>2, <1>3, <1>4

LEMMA PartnersAreFinite ==
  ASSUME NEW b, IsFiniteSet(links)
  PROVE  IsFiniteSet(Partners(b))
<1> DEFINE own == {l \in links : l = <<b, l[2]>> /\ l[2] \in Partners(b)}
           f   == [l \in own |-> l[2]]
<1>1. f \in Surjection(own, Partners(b))
  <2>1. f \in [own -> Partners(b)]
    OBVIOUS
  <2>2. ASSUME NEW p \in Partners(b)
        PROVE  \E l \in own : f[l] = p
    <3>1. <<b, p>> \in own /\ f[<<b, p>>] = p
      BY <2>2 DEF Partners
    <3>2. QED
      BY <3>1
  <2> HIDE DEF f
  <2>3. QED
    BY <2>1, <2>2 DEF Surjection
<1>2. IsFiniteSet(own)
  BY FS_Subset
<1>3. QED
  BY <1>1, <1>2, FS_Surjection

LEMMA StripOf ==
  ASSUME NEW b, IsFiniteSet(links), order[b] \in Seq(Builds), IsInjective(order[b]),
         NEW scope \in scopes(b), NEW take \in Nat,
         NEW strip \in Strips(b, scope, take)
  PROVE  /\ Range(strip) \subseteq scope /\ IsInjective(strip)
         /\ Len(strip) <= take
         /\ Range(strip) = scope \/ Len(strip) = take
         /\ \A p, q \in Range(strip) :
               p \in Range(order[b]) =>
                   (PlaceOf(strip, p) < PlaceOf(strip, q)
                      <=> p # q /\ (q \in Range(order[b])
                                     => PlaceOf(order[b], p) < PlaceOf(order[b], q)))
<1> DEFINE ids == order[b]
<1>1. IsFiniteSet(scope) /\ scope \subseteq Builds
  <2>1. scope \subseteq Partners(b)
    BY DEF scopes, visiblePartnerScope
  <2>2. QED
    BY <2>1, PartnersAreFinite, FS_Subset DEF Partners
<1>2. PICK rows \in partnerSelect(scope, take) : strip = orderPartners(rows, ids)
  BY DEF Strips
<1>3. PICK T \in kSubset(Min({take, Cardinality(scope)}), scope) :
             rows \in SetToSeqs(T)
  BY <1>2 DEF partnerSelect
<1>4. /\ T \subseteq scope /\ IsFiniteSet(T) /\ Cardinality(T) <= take
      /\ T = scope \/ Cardinality(T) = take
  BY <1>1, <1>3, Limited
<1>5. rows \in Seq(T) /\ IsInjective(rows) /\ Range(rows) = T
  BY <1>3, <1>4, ListedOnce
<1>6. T \subseteq Builds
  BY <1>1, <1>4
<1>7. rows \in Seq(Builds)
  BY <1>5, <1>6
<1>8. ids \in Seq(Builds) /\ IsInjective(ids)
  OBVIOUS
<1> HIDE DEF ids
<1>9. /\ Range(strip) = T /\ IsInjective(strip)
      /\ \A p, q \in T :
               p \in Range(ids) =>
                   (PlaceOf(strip, p) < PlaceOf(strip, q)
                      <=> p # q /\ (q \in Range(ids) => PlaceOf(ids, p) < PlaceOf(ids, q)))
  BY <1>2, <1>5, <1>7, <1>8, OrderedRows
<1>10. strip \in Seq(Builds)
  BY <1>2, <1>5, <1>7, <1>8, OrderedRows
<1>11. Len(strip) = Cardinality(T)
  BY <1>9, <1>10, LenIsCardinality
<1>12. QED
  BY <1>4, <1>9, <1>11 DEF ids

\* What the strip needs: finitely many links, and orders that name no id twice.
LEMMA StripsFollow ==
  ASSUME live \subseteq Builds, IsFiniteSet(links),
         \A b \in Builds : order[b] \in Seq(Builds) /\ IsInjective(order[b])
  PROVE  StripFollowsTheOrder
<1> SUFFICES ASSUME NEW b \in live, NEW scope \in scopes(b),
                    NEW take \in 1 .. PARTNERS_TAKEN,
                    NEW strip \in Strips(b, scope, take)
             PROVE  /\ IsInjective(strip) /\ Range(strip) \subseteq scope
                    /\ Len(strip) <= take
                    /\ Range(strip) = scope \/ Len(strip) = take
                    /\ \A p, q \in Range(strip) :
                          p \in Range(order[b]) =>
                              (PlaceOf(strip, p) < PlaceOf(strip, q)
                                 <=> p # q /\ (q \in Range(order[b])
                                       => PlaceOf(order[b], p) < PlaceOf(order[b], q)))
  BY DEF StripFollowsTheOrder, PlaceOf
<1>1. order[b] \in Seq(Builds) /\ IsInjective(order[b]) /\ take \in Nat
  BY PartnerAssumption
<1>2. QED
  BY <1>1, StripOf

-----------------------------------------------------------------------------
(* The entries that saves fold into                                         *)

\* What is grown by a row stays a sequence of groups.
IsGrown(v, g, row) ==
    /\ Len(v) = Len(g)
    /\ \A i \in 1 .. Len(g) : v[i] = IF i = Len(g) THEN Append(g[i], row) ELSE g[i]

LEMMA GrownIs ==
  ASSUME NEW S, NEW g \in Seq(Seq(S)), NEW row \in S
  PROVE  Grown(g, row) \in Seq(Seq(S)) /\ IsGrown(Grown(g, row), g, row)
<1> DEFINE L == Len(g)
           W == Seq(S)
           last == Append(g[L], row)
           v == [g EXCEPT ![L] = last]
<1>1. L \in Nat /\ g \in [1 .. L -> W]
  OBVIOUS
<1>2. L > 0 => g[L] \in W
  BY <1>1
<1>3. L > 0 => last \in W
  BY <1>2
<1>4. Grown(g, row) = v
  BY DEF Grown, Last
<1> HIDE DEF L, W, last
<1>5. v \in [1 .. L -> W] /\ \A i \in 1 .. L : v[i] = IF i = L THEN last ELSE g[i]
  <2>1. DOMAIN v = 1 .. L /\ \A i \in 1 .. L : v[i] = IF i = L THEN last ELSE g[i]
    BY <1>1
  <2>2. \A i \in 1 .. L : v[i] \in W
    <3>1. ASSUME NEW i \in 1 .. L PROVE v[i] \in W
      <4>1. L > 0 /\ g[i] \in W
        BY <1>1
      <4>2. QED
        BY <1>3, <2>1, <4>1
    <3>2. QED
      BY <3>1
  <2>3. v = [i \in 1 .. L |-> v[i]]
    BY <1>1
  <2> HIDE DEF v
  <2>4. QED
    BY <2>1, <2>2, <2>3
<1> HIDE DEF v
<1>6. v \in Seq(W) /\ Len(v) = L
  BY <1>1, <1>5
<1>7. QED
  BY <1>4, <1>5, <1>6 DEF IsGrown, L, W, last

LEMMA GroupsAre ==
  ASSUME NEW S, NEW rows \in Seq(S)
  PROVE  \E f \in [0 .. Len(rows) -> Seq(Seq(S))] :
            /\ foldRevisions(rows) = f[Len(rows)]
            /\ f[0] = <<>>
            /\ \A n \in 1 .. Len(rows) :
                  f[n] = IF n > 1 /\ foldable(Last(f[n - 1])[1], rows[n])
                         THEN Grown(f[n - 1], rows[n])
                         ELSE Append(f[n - 1], <<rows[n]>>)
<1> DEFINE N == Len(rows)
           W == Seq(Seq(S))
           none == <<>>
           F(n, w) == IF n > 1 /\ foldable(Last(w)[1], rows[n])
                      THEN Grown(w, rows[n]) ELSE Append(w, <<rows[n]>>)
           step == [n \in 1 .. N |-> [w \in W |-> F(n, w)]]
           Eq(f) == f = [n \in 0 .. N |-> IF n = 0 THEN none ELSE F(n, f[n - 1])]
           groups == CHOOSE f : Eq(f)
<1>1. ASSUME NEW n \in 1 .. N, NEW w \in W
      PROVE  F(n, w) \in W
  <2>1. rows[n] \in S
    OBVIOUS
  <2>2. Grown(w, rows[n]) \in W
    BY <2>1, GrownIs
  <2>3. Append(w, <<rows[n]>>) \in W
    BY <2>1
  <2>4. QED
    BY <2>2, <2>3
<1>2. N \in Nat /\ none \in W
  OBVIOUS
<1>3. foldRevisions(rows) = groups[N]
  BY DEF foldRevisions
<1> HIDE DEF W, N, groups, none, F
<1>4. step \in [1 .. N -> [W -> W]]
  BY <1>1
<1> HIDE DEF step
<1>5. PICK f \in [0 .. N -> W] :
         f[0] = none /\ \A n \in 1 .. N : f[n] = step[n][f[n - 1]]
  BY <1>2, <1>4, RecursionExists
<1>6. \A n \in 1 .. N : f[n - 1] \in W
  BY <1>2, <1>5
<1>7. \A n \in 1 .. N : f[n] = F(n, f[n - 1])
  BY <1>5, <1>6 DEF step
<1>8. Eq(f)
  BY <1>2, <1>5, <1>7
<1>9. Eq(groups)
  <2> HIDE DEF Eq
  <2>1. QED
    BY <1>8 DEF groups
<1>10. groups[0] = none /\ \A n \in 1 .. N : groups[n] = F(n, groups[n - 1])
  BY <1>2, <1>9
<1> DEFINE T == {n \in 0 .. N : groups[n] \in W}
<1>11. 0 \in T
  BY <1>2, <1>10
<1>12. \A n \in 1 .. N : n - 1 \in T => n \in T
  BY <1>1, <1>2, <1>10
<1> HIDE DEF T
<1>13. \A n \in 0 .. N : n \in T
  BY <1>2, <1>11, <1>12, UpTo
<1>14. \A n \in 0 .. N : groups[n] \in W
  BY <1>13 DEF T
<1>15. groups \in [0 .. N -> W]
  BY <1>9, <1>14
<1>16. QED
  BY <1>3, <1>10, <1>15 DEF N, W, none, F

\* F has what the groups before each of g join to.
Joins(F, g, S) ==
    /\ F \in [0 .. Len(g) -> Seq(S)]
    /\ F[0] = <<>>
    /\ \A i \in 1 .. Len(g) : F[i] = F[i - 1] \o g[i]

LEMMA FlattenIs ==
  ASSUME NEW S, NEW g \in Seq(Seq(S)), NEW F, Joins(F, g, S)
  PROVE  FlattenSeq(g) = F[Len(g)]
<1> DEFINE N == Len(g)
           E(f, i) == IF i = 1 THEN g[i] ELSE f[i - 1] \o g[i]
           Eq(f) == f = [i \in 1 .. N |-> E(f, i)]
           flatten == CHOOSE f : Eq(f)
           h == [i \in 1 .. N |-> F[i]]
<1>1. N \in Nat /\ \A i \in 1 .. N : g[i] \in Seq(S)
  OBVIOUS
<1>2. CASE N = 0
  <2>1. g = <<>> /\ FlattenSeq(g) = g
    BY <1>2 DEF FlattenSeq
  <2>2. QED
    BY <1>2, <2>1 DEF Joins
<1>3. CASE N # 0
  <2>1. FlattenSeq(g) = flatten[N]
    BY <1>3 DEF FlattenSeq
  <2>2. F[0] = <<>> /\ \A i \in 1 .. N : F[i] = F[i - 1] \o g[i]
    BY DEF Joins
  <2>3. <<>> \o g[1] = g[1]
    BY <1>1, <1>3, ConcatEmptySeq
  <2>4. F[1] = g[1]
    <3>1. 1 \in 1 .. N /\ 1 - 1 = 0
      BY <1>1, <1>3
    <3>2. F[1] = F[0] \o g[1]
      BY <2>2, <3>1
    <3>3. QED
      BY <2>2, <2>3, <3>2
  <2>5. \A i \in 1 .. N : h[i] = E(h, i)
    <3>1. ASSUME NEW i \in 1 .. N, i # 1
          PROVE  h[i] = h[i - 1] \o g[i]
      <4>1. i - 1 \in 1 .. N
        BY <1>1, <3>1
      <4>2. QED
        BY <2>2, <4>1
    <3>2. QED
      BY <2>4, <3>1
  <2>6. Eq(h)
    <3>1. h = [i \in 1 .. N |-> h[i]]
      OBVIOUS
    <3> HIDE DEF h, E
    <3>2. QED
      BY <2>5, <3>1
  <2>7. Eq(flatten)
    <3> HIDE DEF Eq, h
    <3>1. QED
      BY <2>6 DEF flatten
  <2> HIDE DEF flatten, N
  <2>8. \A i \in 1 .. N : flatten[i] = E(flatten, i)
    BY <2>7
  <2> DEFINE T == {n \in 0 .. N : n = 0 \/ flatten[n] = F[n]}
  <2>9. 0 \in T
    BY <1>1
  <2>10. ASSUME NEW n \in 1 .. N, n - 1 \in T
         PROVE  n \in T
    <3>1. CASE n = 1
      BY <1>1, <2>4, <2>8, <3>1
    <3>2. CASE n # 1
      <4>1. flatten[n - 1] = F[n - 1]
        BY <2>10, <3>2
      <4>2. flatten[n] = F[n]
        BY <2>2, <2>8, <3>2, <4>1
      <4>3. QED
        BY <1>1, <4>2
    <3>3. QED
      BY <3>1, <3>2
  <2> HIDE DEF T
  <2>11. \A n \in 1 .. N : n - 1 \in T => n \in T
    BY <2>10
  <2>12. \A n \in 0 .. N : n \in T
    BY <1>1, <2>9, <2>11, UpTo
  <2>13. N \in T
    BY <1>1, <2>12
  <2>14. QED
    BY <1>3, <2>1, <2>13 DEF T, N
<1>4. QED
  BY <1>2, <1>3

\* The groups of the first n rows: each is one head and what folds into it, no
\* neighbour's head does, and joined they are the rows.
FoldedTo(rows, S, n, g) ==
    /\ n > 0 => Len(g) > 0
    /\ \A i \in 1 .. Len(g) :
          g[i] # <<>> /\ \A k \in 2 .. Len(g[i]) : foldable(g[i][1], g[i][k])
    /\ \A i \in 1 .. Len(g) - 1 : ~foldable(g[i][1], g[i + 1][1])
    /\ \E F : Joins(F, g, S) /\ F[Len(g)] = SubSeq(rows, 1, n)

\* Joining, and then adding e, is joining with what e was added to.
JoinsWith(s, t, e) == (s \o t) \o <<e>> = s \o Append(t, e)

LEMMA JoinedWith ==
  ASSUME NEW S, NEW s \in Seq(S), NEW t \in Seq(S), NEW e \in S
  PROVE  JoinsWith(s, t, e)
  BY SMTT(30) DEF JoinsWith

\* A row folds into the last group.
LEMMA FoldsIn ==
  ASSUME NEW S, NEW rows \in Seq(S), NEW n \in 1 .. Len(rows), NEW g \in Seq(Seq(S)),
         n > 1, FoldedTo(rows, S, n - 1, g), foldable(Last(g)[1], rows[n])
  PROVE  FoldedTo(rows, S, n, Grown(g, rows[n]))
<1> DEFINE L == Len(g)
           v == Grown(g, rows[n])
           row == rows[n]
<1>1. L \in Nat /\ L > 0 /\ row \in S /\ \A i \in 1 .. L : g[i] \in Seq(S)
  BY DEF FoldedTo
<1>2. /\ Len(v) = L /\ v \in Seq(Seq(S))
      /\ \A i \in 1 .. L : v[i] = IF i = L THEN Append(g[i], row) ELSE g[i]
  <2>1. v \in Seq(Seq(S)) /\ IsGrown(v, g, row)
    BY <1>1, GrownIs
  <2> HIDE DEF v
  <2>2. QED
    BY <2>1 DEF IsGrown
<1>3. foldable(g[L][1], row)
  BY DEF Last
<1>4. PICK F : Joins(F, g, S) /\ F[L] = SubSeq(rows, 1, n - 1)
  BY DEF FoldedTo
<1>5. /\ \A i \in 1 .. L :
            g[i] # <<>> /\ \A k \in 2 .. Len(g[i]) : foldable(g[i][1], g[i][k])
      /\ \A i \in 1 .. L - 1 : ~foldable(g[i][1], g[i + 1][1])
  BY DEF FoldedTo
<1>j. /\ F \in [0 .. L -> Seq(S)] /\ F[0] = <<>>
      /\ \A i \in 1 .. L : F[i] = F[i - 1] \o g[i]
  BY <1>4 DEF Joins
<1> HIDE DEF v, row, L
<1>6. \A i \in 1 .. L : v[i] # <<>> /\ v[i][1] = g[i][1]
  <2>1. ASSUME NEW i \in 1 .. L PROVE v[i] # <<>> /\ v[i][1] = g[i][1]
    <3>1. g[i] \in Seq(S) /\ g[i] # <<>>
      BY <1>1, <1>5
    <3>2. 1 \in 1 .. Len(g[i])
      BY <3>1
    <3>3. Append(g[i], row) # <<>> /\ Append(g[i], row)[1] = g[i][1]
      <4> DEFINE s == g[i]
      <4>1. s \in Seq(S) /\ 1 \in 1 .. Len(s)
        BY <3>1, <3>2
      <4> HIDE DEF s
      <4>2. Append(s, row) # <<>> /\ Append(s, row)[1] = s[1]
        BY <1>1, <4>1, AppendProperties, SMTT(30)
      <4>3. QED
        BY <4>2 DEF s
    <3>4. QED
      BY <1>2, <3>1, <3>3
  <2>2. QED
    BY <2>1
<1>7. ASSUME NEW i \in 1 .. L, NEW k \in 2 .. Len(v[i])
      PROVE  foldable(v[i][1], v[i][k])
  <2>1. CASE i # L
    BY <1>2, <1>5, <2>1
  <2>2. CASE i = L
    <3>1. g[L] \in Seq(S) /\ v[L] = Append(g[L], row) /\ i \in 1 .. L
      BY <1>1, <1>2, <2>2
    <3>2. Len(g[L]) \in Nat /\ Len(v[L]) = Len(g[L]) + 1
      BY <1>1, <3>1, AppendProperties
    <3>3. CASE k = Len(g[L]) + 1
      <4>1. v[L][k] = row
        BY <1>1, <3>1, <3>3, AppendProperties
      <4>2. QED
        BY <1>3, <1>6, <2>2, <4>1
    <3>4. CASE k # Len(g[L]) + 1
      <4>1. k \in 2 .. Len(g[L]) /\ k \in 1 .. Len(g[L])
        BY <2>2, <3>2, <3>4
      <4>2. v[L][k] = g[L][k]
        BY <1>1, <3>1, <4>1, AppendProperties
      <4>3. QED
        BY <1>5, <1>6, <2>2, <4>1, <4>2
    <3>5. QED
      BY <3>3, <3>4
  <2>3. QED
    BY <2>1, <2>2
<1>8. ASSUME NEW i \in 1 .. L - 1
      PROVE  ~foldable(v[i][1], v[i + 1][1])
  <2>1. i \in 1 .. L /\ i + 1 \in 1 .. L
    BY <1>1
  <2>2. QED
    BY <1>5, <1>6, <2>1
<1> DEFINE P == SubSeq(rows, 1, n)
           G == [i \in 0 .. L |-> IF i = L THEN P ELSE F[i]]
<1>9. P \in Seq(S)
  BY SubSeqProperties
<1>10. P = SubSeq(rows, 1, n - 1) \o <<row>>
  <2>1. 1 \in 1 .. Len(rows) /\ n \in 1 .. Len(rows)
    OBVIOUS
  <2>2. QED
    BY <2>1, SubSeqRecursiveSecond DEF row
<1>11. P = F[L - 1] \o Append(g[L], row)
  <2>1. F[L - 1] \in Seq(S) /\ F[L] = F[L - 1] \o g[L] /\ g[L] \in Seq(S)
    <3>1. L \in 1 .. L /\ L - 1 \in 0 .. L
      BY <1>1
    <3>2. QED
      BY <1>1, <1>j, <3>1
  <2>2. (F[L - 1] \o g[L]) \o <<row>> = F[L - 1] \o Append(g[L], row)
    <3>1. JoinsWith(F[L - 1], g[L], row)
      BY <1>1, <2>1, JoinedWith
    <3>2. QED
      BY <3>1 DEF JoinsWith
  <2>3. QED
    BY <1>4, <1>10, <2>1, <2>2
<1> HIDE DEF P
<1>12. Joins(G, v, S)
  <2>1. G \in [0 .. L -> Seq(S)]
    BY <1>9, <1>j
  <2>2. G[0] = <<>>
    BY <1>1, <1>j
  <2>3. ASSUME NEW i \in 1 .. L PROVE G[i] = G[i - 1] \o v[i]
    <3>1. i - 1 \in 0 .. L /\ i - 1 # L /\ G[i - 1] = F[i - 1]
      BY <1>1
    <3>2. CASE i = L
      <4>1. G[i] = P /\ G[i - 1] = F[L - 1] /\ v[i] = Append(g[L], row)
        BY <1>2, <3>1, <3>2
      <4> HIDE DEF G
      <4>2. QED
        BY <1>11, <4>1
    <3>3. CASE i # L
      <4>1. G[i] = F[i] /\ v[i] = g[i]
        BY <1>2, <3>3
      <4>0. F[i] = F[i - 1] \o g[i]
        BY <1>j
      <4> HIDE DEF G
      <4>2. QED
        BY <3>1, <4>0, <4>1
    <3>4. QED
      BY <3>2, <3>3
  <2> HIDE DEF G
  <2>4. QED
    BY <1>2, <2>1, <2>2, <2>3 DEF Joins
<1>13. G[L] = SubSeq(rows, 1, n)
  BY <1>1 DEF P
<1> HIDE DEF G
<1>14. FoldedTo(rows, S, n, v)
  BY <1>1, <1>2, <1>6, <1>7, <1>8, <1>12, <1>13 DEF FoldedTo
<1>15. QED
  BY <1>14 DEF v, row

\* A row heads a group of its own.
LEMMA FoldsApart ==
  ASSUME NEW S, NEW rows \in Seq(S), NEW n \in 1 .. Len(rows), NEW g \in Seq(Seq(S)),
         n = 1 => g = <<>>, FoldedTo(rows, S, n - 1, g),
         n > 1 => ~foldable(Last(g)[1], rows[n])
  PROVE  FoldedTo(rows, S, n, Append(g, <<rows[n]>>))
<1> DEFINE L == Len(g)
           row == rows[n]
           one == <<row>>
           v == Append(g, one)
<1>1. /\ L \in Nat /\ row \in S /\ one \in Seq(S) /\ \A i \in 1 .. L : g[i] \in Seq(S)
      /\ one # <<>> /\ Len(one) = 1 /\ one[1] = row
  OBVIOUS
<1>2. Len(v) = L + 1 /\ v[L + 1] = one /\ \A i \in 1 .. L : v[i] = g[i]
  BY <1>1, AppendProperties
<1>3. PICK F : Joins(F, g, S) /\ F[L] = SubSeq(rows, 1, n - 1)
  BY DEF FoldedTo
<1>4. /\ \A i \in 1 .. L :
            g[i] # <<>> /\ \A k \in 2 .. Len(g[i]) : foldable(g[i][1], g[i][k])
      /\ \A i \in 1 .. L - 1 : ~foldable(g[i][1], g[i + 1][1])
  BY DEF FoldedTo
<1>5. L > 0 => ~foldable(g[L][1], row)
  <2>1. L > 0 => n > 1
    OBVIOUS
  <2>2. QED
    BY <2>1 DEF Last
<1>6. SubSeq(rows, 1, n) \in Seq(S)
  BY SubSeqProperties
<1>7. SubSeq(rows, 1, n) = SubSeq(rows, 1, n - 1) \o one
  <2>1. 1 \in 1 .. Len(rows) /\ n \in 1 .. Len(rows)
    OBVIOUS
  <2>2. QED
    BY <2>1, SubSeqRecursiveSecond
<1>j. /\ F \in [0 .. L -> Seq(S)] /\ F[0] = <<>>
      /\ \A i \in 1 .. L : F[i] = F[i - 1] \o g[i]
  BY <1>3 DEF Joins
<1> HIDE DEF v, one, row, L
<1>8. ASSUME NEW i \in 1 .. L + 1
      PROVE  v[i] # <<>> /\ \A k \in 2 .. Len(v[i]) : foldable(v[i][1], v[i][k])
  <2>1. CASE i = L + 1
    BY <1>1, <1>2, <2>1
  <2>2. CASE i # L + 1
    <3>1. i \in 1 .. L /\ v[i] = g[i]
      BY <1>1, <1>2, <2>2
    <3>2. QED
      BY <1>4, <3>1
  <2>3. QED
    BY <2>1, <2>2
<1>9. ASSUME NEW i \in 1 .. L + 1 - 1
      PROVE  ~foldable(v[i][1], v[i + 1][1])
  <2>1. i \in 1 .. L /\ v[i] = g[i]
    BY <1>1, <1>2
  <2>2. CASE i = L
    BY <1>1, <1>2, <1>5, <2>1, <2>2
  <2>3. CASE i # L
    <3>1. i \in 1 .. L - 1 /\ i + 1 \in 1 .. L
      BY <1>1, <2>1, <2>3
    <3>2. QED
      BY <1>2, <1>4, <2>1, <3>1
  <2>4. QED
    BY <2>2, <2>3
<1> DEFINE P == SubSeq(rows, 1, n)
           G == [i \in 0 .. L + 1 |-> IF i = L + 1 THEN P ELSE F[i]]
<1>10. P \in Seq(S) /\ P = F[L] \o one
  BY <1>3, <1>6, <1>7
<1> HIDE DEF P
<1>11. Joins(G, v, S)
  <2>1. G \in [0 .. L + 1 -> Seq(S)]
    BY <1>1, <1>10, <1>j
  <2>2. G[0] = <<>>
    BY <1>1, <1>j
  <2>3. ASSUME NEW i \in 1 .. L + 1 PROVE G[i] = G[i - 1] \o v[i]
    <3>1. i - 1 \in 0 .. L /\ G[i - 1] = F[i - 1]
      BY <1>1
    <3>2. CASE i = L + 1
      <4>1. G[i] = P /\ G[i - 1] = F[L] /\ v[i] = one
        BY <1>1, <1>2, <3>1, <3>2
      <4> HIDE DEF G
      <4>2. QED
        BY <1>10, <4>1
    <3>3. CASE i # L + 1
      <4>1. i \in 1 .. L
        BY <1>1, <3>3
      <4>2. G[i] = F[i] /\ v[i] = g[i]
        BY <1>2, <3>3, <4>1
      <4>0. F[i] = F[i - 1] \o g[i]
        BY <1>j, <4>1
      <4> HIDE DEF G
      <4>3. QED
        BY <3>1, <4>0, <4>2
    <3>4. QED
      BY <3>2, <3>3
  <2> HIDE DEF G
  <2>4. QED
    BY <1>2, <2>1, <2>2, <2>3 DEF Joins
<1>12. G[L + 1] = SubSeq(rows, 1, n)
  BY <1>1 DEF P
<1> HIDE DEF G
<1>13. FoldedTo(rows, S, n, v)
  BY <1>1, <1>2, <1>8, <1>9, <1>11, <1>12 DEF FoldedTo
<1>14. QED
  BY <1>13 DEF v, one, row

LEMMA FoldsAre ==
  ASSUME NEW S, NEW rows \in Seq(S)
  PROVE  /\ foldRevisions(rows) \in Seq(Seq(S))
         /\ FoldedTo(rows, S, Len(rows), foldRevisions(rows))
<1> DEFINE N == Len(rows)
<1>1. PICK f \in [0 .. Len(rows) -> Seq(Seq(S))] :
            /\ foldRevisions(rows) = f[Len(rows)]
            /\ f[0] = <<>>
            /\ \A n \in 1 .. Len(rows) :
                  f[n] = IF n > 1 /\ foldable(Last(f[n - 1])[1], rows[n])
                         THEN Grown(f[n - 1], rows[n])
                         ELSE Append(f[n - 1], <<rows[n]>>)
  BY GroupsAre
<1> DEFINE T == {n \in 0 .. N : FoldedTo(rows, S, n, f[n])}
<1>2. N \in Nat
  OBVIOUS
<1>3. 0 \in T
  <2> DEFINE F == [i \in 0 .. 0 |-> SubSeq(rows, 1, 0)]
  <2>1. SubSeq(rows, 1, 0) = <<>> /\ Len(f[0]) = 0
    BY <1>1, SubSeqEmpty
  <2>2. Joins(F, f[0], S) /\ F[0] = SubSeq(rows, 1, 0)
    <3>1. F \in [0 .. 0 -> Seq(S)] /\ F[0] = <<>> /\ 1 .. 0 = {}
      BY <2>1
    <3> HIDE DEF F
    <3>2. QED
      BY <2>1, <3>1 DEF Joins
  <2> HIDE DEF F
  <2>3. FoldedTo(rows, S, 0, f[0])
    BY <2>1, <2>2 DEF FoldedTo
  <2>4. QED
    BY <1>2, <2>3
<1>4. ASSUME NEW n \in 1 .. N, n - 1 \in T
      PROVE  n \in T
  <2> DEFINE g == f[n - 1]
  <2>1. g \in Seq(Seq(S)) /\ FoldedTo(rows, S, n - 1, g) /\ (n = 1 => g = <<>>)
    BY <1>1, <1>2, <1>4
  <2>2. CASE n > 1 /\ foldable(Last(g)[1], rows[n])
    <3>1. f[n] = Grown(g, rows[n])
      BY <1>1, <2>2
    <3> HIDE DEF g
    <3>2. FoldedTo(rows, S, n, Grown(g, rows[n]))
      BY <2>1, <2>2, FoldsIn
    <3>3. QED
      BY <1>2, <3>1, <3>2
  <2>3. CASE ~(n > 1 /\ foldable(Last(g)[1], rows[n]))
    <3>1. f[n] = Append(g, <<rows[n]>>)
      BY <1>1, <2>3
    <3> HIDE DEF g
    <3>2. FoldedTo(rows, S, n, Append(g, <<rows[n]>>))
      <4>1. n > 1 => ~foldable(Last(g)[1], rows[n])
        BY <2>3
      <4>2. n \in 1 .. Len(rows)
        OBVIOUS
      <4>3. QED
        BY <2>1, <4>1, <4>2, FoldsApart
    <3>3. FoldedTo(rows, S, n, f[n])
      BY <3>1, <3>2
    <3>4. QED
      BY <1>2, <3>3
  <2>4. QED
    BY <2>2, <2>3
<1> HIDE DEF T
<1>5. \A n \in 1 .. N : n - 1 \in T => n \in T
  BY <1>4
<1> HIDE DEF N
<1>6. \A n \in 0 .. N : n \in T
  BY <1>2, <1>3, <1>5, UpTo
<1>7. N \in T
  BY <1>2, <1>6
<1>8. QED
  BY <1>1, <1>2, <1>7 DEF T, N

\* Entries join to the rows, and each is of one editor and within the window.
LEMMA FoldsCover ==
  ASSUME NEW S, NEW rows \in Seq(S)
  PROVE  LET entries == foldRevisions(rows)
         IN  /\ FlattenSeq(entries) = rows
             /\ \A i \in DOMAIN entries : Len(entries[i]) > 1 =>
                   /\ \A r \in Range(entries[i]) :
                         r.kind = "EDITED" /\ r.editor = entries[i][1].editor
                   /\ entries[i][1].at - Last(entries[i]).at < REVISION_FOLD
             /\ \A i \in 1 .. Len(entries) - 1 :
                   ~foldable(entries[i][1], entries[i + 1][1])
<1> DEFINE g == foldRevisions(rows)
           N == Len(rows)
<1>1. g \in Seq(Seq(S)) /\ FoldedTo(rows, S, N, g)
  BY FoldsAre
<1> HIDE DEF g
<1>2. PICK F : Joins(F, g, S) /\ F[Len(g)] = SubSeq(rows, 1, N)
  BY <1>1 DEF FoldedTo
<1>3. FlattenSeq(g) = SubSeq(rows, 1, N)
  BY <1>1, <1>2, FlattenIs
<1>4. FlattenSeq(g) = rows
  BY <1>3, SubSeqFull
<1>5. ASSUME NEW i \in DOMAIN g, Len(g[i]) > 1
      PROVE  /\ \A r \in Range(g[i]) : r.kind = "EDITED" /\ r.editor = g[i][1].editor
             /\ g[i][1].at - Last(g[i]).at < REVISION_FOLD
  <2> DEFINE e == g[i]
  <2>1. e \in Seq(S) /\ i \in 1 .. Len(g)
    BY <1>1
  <2>2. \A k \in 2 .. Len(e) : foldable(e[1], e[k])
    BY <1>1, <2>1 DEF FoldedTo
  <2>3. Len(e) \in Nat /\ Len(e) > 1 /\ DOMAIN e = 1 .. Len(e)
    BY <1>5, <2>1
  <2> HIDE DEF e
  <2>4. e[1].kind = "EDITED" /\ e[1].at - e[Len(e)].at < REVISION_FOLD
    BY <2>2, <2>3 DEF foldable
  <2>5. ASSUME NEW k \in DOMAIN e PROVE e[k].kind = "EDITED" /\ e[k].editor = e[1].editor
    <3>1. CASE k = 1
      BY <2>4, <3>1
    <3>2. CASE k # 1
      <4>1. foldable(e[1], e[k])
        BY <2>2, <2>3, <3>2
      <4>2. QED
        BY <4>1 DEF foldable
    <3>3. QED
      BY <3>1, <3>2
  <2>6. \A r \in Range(e) : r.kind = "EDITED" /\ r.editor = e[1].editor
    BY <2>5 DEF Range
  <2>7. QED
    BY <2>4, <2>6 DEF e, Last
<1>6. \A i \in 1 .. Len(g) - 1 : ~foldable(g[i][1], g[i + 1][1])
  BY <1>1 DEF FoldedTo
<1>7. QED
  BY <1>4, <1>5, <1>6 DEF g

-----------------------------------------------------------------------------
(* What a request is, route by route                                        *)

LinkRequest ==
    [route : {"link"}, own : Builds, partner : Builds, arg : {None}, seen : {None},
     pc : {"first", "second"}]

UnlinkRequest ==
    [route : {"unlink"}, own : Builds, partner : Builds, arg : {None},
     seen : [own : TargetMaps, partner : TargetMaps], pc : {"count", "first", "second"}]

VariantRequest ==
    [route : {"variant"}, own : Builds, partner : Builds, arg : isVariantIndex,
     seen : [own : TargetMaps, partner : TargetMaps], pc : {"write"}]

\* An order names no id twice.
IsOrderRequest(r) ==
    \E own \in Builds, ids \in Seq(Builds) :
        IsInjective(ids) /\ r = Request("order", own, own, ids, None, "write")

Patch ==
    [org : Orgs \cup {None, Same}, hide : BOOLEAN \cup {Same}, edit : BOOLEAN,
     editor : Users]

PatchRequest ==
    [route : {"patch"}, own : Builds, partner : Builds, arg : Patch,
     seen : [org : Orgs \cup {None}, content : Nat, save : Nat, at : Nat],
     pc : {"write"}]

\* What a PATCH decided from the row it read: a move is the author's, and has
\* a flag of its own; an author is hidden under an organization only.
WellDecided(r) ==
    /\ r.arg.org # Same => r.arg.editor = AuthorOf[r.own] /\ r.arg.hide # Same
    /\ r.arg.hide = TRUE /\ r.arg.org = Same => r.seen.org # None
    /\ r.arg.hide = TRUE => r.arg.org # None

DeleteOrgRequest ==
    [route : {"deleteOrg"}, own : {None}, partner : {None}, arg : Orgs, seen : {None},
     pc : {"detach", "second"}]

IsRequest(r) ==
    \/ r \in LinkRequest /\ r.own # r.partner
    \/ r \in UnlinkRequest
    \/ r \in VariantRequest
    \/ IsOrderRequest(r)
    \/ r \in PatchRequest /\ WellDecided(r)
    \/ r \in DeleteOrgRequest

RequestsInv ==
    /\ DOMAIN req = Handlers
    /\ \A h \in Handlers : req[h] = None \/ IsRequest(req[h])

Revision ==
    [n : Nat, kind : {"CREATED", "EDITED"}, editor : Users, at : Nat, from : Nat,
     to : Nat, read : Nat]

TablesInv ==
    /\ live \subseteq Builds
    /\ links \subseteq Builds \X Builds
    /\ targets \in [Builds -> TargetMaps]
    /\ chosen \in [Builds -> TargetMaps]
    /\ org \in [Builds -> Orgs \cup {None}]
    /\ hideAuthor \in [Builds -> BOOLEAN]
    /\ flagFor \in [Builds -> Orgs \cup {None}]
    /\ content \in [Builds -> Nat]
    /\ log \in [Builds -> SUBSET Revision]
    /\ saved \in [Builds -> Seq(Revision)]
    /\ \A b \in Builds : saved[b] # <<>>
    /\ writes \in Nat
    /\ clock \in Nat
    /\ orgs \subseteq Orgs

TypeInv == RequestsInv /\ TablesInv

\* A request that has just arrived has seen the rows as they are.
IsFresh(r) ==
    /\ r.pc # "second"
    /\ r.route = "unlink" => r.pc = "count"
    /\ r.route = "patch" =>
          /\ r.seen.save = Len(saved[r.own]) /\ r.seen.content = content[r.own]
          /\ r.seen.at = clock

Arrives(h, r) == IsRequest(r) /\ IsFresh(r) /\ Start(h, r)

\* The steps, each with all that it leaves alone.
Step ==
    \/ \E h \in Handlers : \E r : Arrives(h, r) /\ UNCHANGED editVars
    \/ \E h \in Handlers : countLink(h) /\ UNCHANGED editVars
    \/ \E h \in Handlers : updateOwn(h) /\ UNCHANGED editVars
    \/ \E h \in Handlers : updatePartner(h) /\ UNCHANGED editVars
    \/ \E h \in Handlers : deadlockDetected(h) /\ UNCHANGED editVars
    \/ \E h \in Handlers : writeColumn(h) /\ UNCHANGED editVars
    \/ \E h \in Handlers : writePatch(h)
    \/ \E h \in Handlers : detachBuilds(h)
    \/ \E h \in Handlers : deleteOrgRow(h)
    \/ \E b \in Builds : deleteBuild(b) /\ UNCHANGED editVars
    \/ \E b \in Builds : pruneRevisions(b)
    \/ \E u \in Users, o \in Orgs : leaveOrg(u, o)
    \/ tick

LEMMA NoTarget == 0 \in isVariantIndex
  BY PartnerAssumption DEF isVariantIndex

\* What arrives is a request.
LEMMA LinkArrives ==
  ASSUME TypeInv, NEW h \in Handlers, NEW own \in Builds, NEW partner \in Builds,
         NEW viewer \in Users, putLink(h, own, partner, viewer)
  PROVE  \E r : Arrives(h, r)
<1> DEFINE r == Request("link", own, partner, None, None, "first")
<1>1. r \in LinkRequest /\ r.own # r.partner
  BY DEF putLink, Request, LinkRequest
<1>2. Start(h, r)
  BY DEF putLink
<1> QED
  BY <1>1, <1>2 DEF IsRequest, IsFresh, Arrives, Request

LEMMA UnlinkArrives ==
  ASSUME TypeInv, NEW h \in Handlers, NEW own \in Builds, NEW partner \in Builds,
         NEW viewer \in Users, deleteLink(h, own, partner, viewer)
  PROVE  \E r : Arrives(h, r)
<1> DEFINE r == Request("unlink", own, partner, None, Seen(own, partner), "count")
<1>1. r \in UnlinkRequest
  BY DEF deleteLink, Request, UnlinkRequest, Seen, TypeInv, TablesInv
<1>2. Start(h, r)
  BY DEF deleteLink
<1> QED
  BY <1>1, <1>2 DEF IsRequest, IsFresh, Arrives, Request

LEMMA VariantArrives ==
  ASSUME TypeInv, NEW h \in Handlers, NEW own \in Builds, NEW partner \in Builds,
         NEW viewer \in Users, NEW v \in isVariantIndex,
         putVariant(h, own, partner, viewer, v)
  PROVE  \E r : Arrives(h, r)
<1> DEFINE r == Request("variant", own, partner, v, Seen(own, own), "write")
<1>1. r \in VariantRequest
  BY DEF putVariant, Request, VariantRequest, Seen, TypeInv, TablesInv
<1>2. Start(h, r)
  BY DEF putVariant
<1> QED
  BY <1>1, <1>2 DEF IsRequest, IsFresh, Arrives, Request

LEMMA OrderArrives ==
  ASSUME TypeInv, NEW h \in Handlers, NEW own \in Builds, NEW viewer \in Users,
         NEW ids \in Orders, putOrder(h, own, viewer, ids)
  PROVE  \E r : Arrives(h, r)
<1> DEFINE r == Request("order", own, own, nextOrder(own, ids), None, "write")
<1>1. IsOrderRequest(r)
  BY PartnerAssumption, NextOrderIs DEF IsOrderRequest
<1>2. Start(h, r)
  BY DEF putOrder
<1> QED
  BY <1>1, <1>2 DEF IsRequest, IsFresh, Arrives, Request

LEMMA SavedRevisions ==
  ASSUME TypeInv, NEW b \in Builds
  PROVE  /\ saved[b] \in Seq(Revision)
         /\ Len(saved[b]) \in Nat \ {0}
         /\ Last(saved[b]) = saved[b][Len(saved[b])]
         /\ \A i \in 1 .. Len(saved[b]) : saved[b][i] \in Revision
<1>1. saved[b] \in Seq(Revision) /\ saved[b] # <<>>
  BY DEF TypeInv, TablesInv
<1>2. Len(saved[b]) \in Nat \ {0}
  BY <1>1, EmptySeq
<1>3. \A i \in 1 .. Len(saved[b]) : saved[b][i] \in Revision
  BY <1>1, ElementOfSeq
<1> QED
  BY <1>1, <1>2, <1>3 DEF Last

LEMMA PatchArrives ==
  ASSUME TypeInv, NEW h \in Handlers, NEW b \in Builds, NEW viewer \in Users,
         NEW body \in Bodies, patchBuild(h, b, viewer, body)
  PROVE  \E r : Arrives(h, r)
<1> DEFINE move   == body.org \notin {Same, org[b]}
           target == IF move THEN body.org ELSE org[b]
           flag   == hideAuthorFor(body.hide, move, target)
           arg    == [org |-> IF move THEN body.org ELSE Same, hide |-> flag,
                      edit |-> body.edit, editor |-> viewer]
           seen   == [org |-> org[b], content |-> content[b], save |-> Len(saved[b]),
                      at |-> clock]
           r      == Request("patch", b, b, arg, seen, "write")
<1>1. /\ body.org \in Orgs \cup {None, Same}
      /\ body.hide \in BOOLEAN \cup {Same}
      /\ body.edit \in BOOLEAN
      /\ Same \notin Orgs \cup {None} /\ Same \notin BOOLEAN
      /\ org[b] \in Orgs \cup {None}
      /\ content[b] \in Nat
      /\ Len(saved[b]) \in Nat /\ clock \in Nat
  BY EditsAssumption, SavedRevisions DEF TypeInv, TablesInv
<1>2. flag \in BOOLEAN \cup {Same}
  BY DEF hideAuthorFor
<1>3. seen \in [org : Orgs \cup {None}, content : Nat, save : Nat, at : Nat]
  BY <1>1
<1>4. arg \in Patch
  BY <1>1, <1>2 DEF Patch
<1>5. r \in PatchRequest
  BY <1>3, <1>4 DEF Request, PatchRequest
<1>6. move => viewer = AuthorOf[b]
  BY DEF patchBuild, MoveIsAllowed
<1>7. move => flag # Same
  BY <1>1 DEF hideAuthorFor
<1>8. flag = TRUE => target # None
  BY <1>1 DEF hideAuthorFor
<1>9. WellDecided(r)
  BY <1>1, <1>6, <1>7, <1>8 DEF WellDecided, Request
<1>10. Start(h, r)
  BY DEF patchBuild
<1>11. IsFresh(r)
  BY DEF IsFresh, Request
<1> QED
  BY <1>5, <1>9, <1>10, <1>11 DEF IsRequest, Arrives

LEMMA DeleteOrgArrives ==
  ASSUME TypeInv, NEW h \in Handlers, NEW o \in Orgs, deleteOrganization(h, o)
  PROVE  \E r : Arrives(h, r)
<1> DEFINE r == Request("deleteOrg", None, None, o, None, "detach")
<1>1. r \in DeleteOrgRequest
  BY DEF Request, DeleteOrgRequest
<1>2. Start(h, r)
  BY DEF deleteOrganization
<1> QED
  BY <1>1, <1>2 DEF IsRequest, IsFresh, Arrives, Request

LEMMA NextIsStep ==
  ASSUME TypeInv, Next
  PROVE  Step
<1> USE DEF Step
<1>1. CASE PartnerNext(routes) /\ UNCHANGED editVars
  <2>1. CASE \E h \in Handlers : Arrive(h, routes)
    BY <1>1, <2>1, LinkArrives, UnlinkArrives, VariantArrives, OrderArrives DEF Arrive
  <2>2. CASE \E h \in Handlers : Run(h)
    BY <1>1, <2>2 DEF Run
  <2>3. CASE \E b \in Builds : deleteBuild(b)
    BY <1>1, <2>3
  <2> QED
    BY <1>1, <2>1, <2>2, <2>3 DEF PartnerNext
<1>2. CASE \E h \in Handlers : ArriveEdit(h)
  <2>1. PICK h \in Handlers : ArriveEdit(h)
    BY <1>2
  <2>2. CASE /\ \E b \in Patched, viewer \in Users, body \in Bodies :
                   patchBuild(h, b, viewer, body)
             /\ UNCHANGED editVars
    <3>1. Patched \subseteq Builds
      BY EditsAssumption
    <3> QED
      BY <2>2, <3>1, PatchArrives
  <2>3. CASE \E o \in Orgs : deleteOrganization(h, o)
    BY <2>3, DeleteOrgArrives DEF deleteOrganization
  <2> QED
    BY <2>1, <2>2, <2>3 DEF ArriveEdit
<1>3. CASE \E h \in Handlers : RunEdit(h)
  BY <1>3 DEF RunEdit
<1>4. CASE \E b \in Builds : pruneRevisions(b)
  BY <1>4
<1>5. CASE \E u \in Users, o \in Orgs : leaveOrg(u, o)
  BY <1>5
<1>6. CASE tick
  BY <1>6
<1> QED
  BY <1>1, <1>2, <1>3, <1>4, <1>5, <1>6 DEF Next

-----------------------------------------------------------------------------
(* Types                                                                    *)

\* The fields of a request, by its route.
LEMMA RequestFields ==
  ASSUME RequestsInv, NEW h \in Handlers, req[h] # None
  PROVE  /\ IsRequest(req[h])
         /\ req[h].route = "link" => req[h] \in LinkRequest /\ req[h].own # req[h].partner
         /\ req[h].route = "unlink" => req[h] \in UnlinkRequest
         /\ req[h].route = "variant" => req[h] \in VariantRequest
         /\ req[h].route = "order" => /\ req[h].own \in Builds
                                      /\ req[h].arg \in Seq(Builds)
                                      /\ IsInjective(req[h].arg)
         /\ req[h].route = "patch" => req[h] \in PatchRequest /\ WellDecided(req[h])
         /\ req[h].route = "deleteOrg" => req[h] \in DeleteOrgRequest
<1>1. IsRequest(req[h])
  BY DEF RequestsInv
<1>2. CASE req[h] \in LinkRequest /\ req[h].own # req[h].partner
  BY <1>1, <1>2 DEF LinkRequest
<1>3. CASE req[h] \in UnlinkRequest
  BY <1>1, <1>3 DEF UnlinkRequest
<1>4. CASE req[h] \in VariantRequest
  BY <1>1, <1>4 DEF VariantRequest
<1>5. CASE IsOrderRequest(req[h])
  <2>1. /\ req[h].route = "order" /\ req[h].own \in Builds
        /\ req[h].arg \in Seq(Builds) /\ IsInjective(req[h].arg)
    BY <1>5 DEF IsOrderRequest, Request
  <2> QED
    BY <1>1, <2>1
<1>6. CASE req[h] \in PatchRequest /\ WellDecided(req[h])
  BY <1>1, <1>6 DEF PatchRequest
<1>7. CASE req[h] \in DeleteOrgRequest
  BY <1>1, <1>7 DEF DeleteOrgRequest
<1> QED
  BY <1>1, <1>2, <1>3, <1>4, <1>5, <1>6, <1>7 DEF IsRequest

LEMMA EndKeepsRequests ==
  ASSUME RequestsInv, NEW h \in Handlers, End(h)
  PROVE  RequestsInv' /\ req'[h] = None
  BY DEF RequestsInv, End

LEMMA StartKeepsRequests ==
  ASSUME RequestsInv, NEW h \in Handlers, NEW r, IsRequest(r), Start(h, r)
  PROVE  RequestsInv'
  BY DEF RequestsInv, Start

LEMMA AdvanceKeepsRequests ==
  ASSUME RequestsInv, NEW h \in Handlers, req[h] # None, NEW pc, Advance(h, pc),
         \/ req[h].route \in {"link", "unlink"} /\ pc \in {"first", "second"}
         \/ req[h].route = "deleteOrg" /\ pc = "second"
  PROVE  RequestsInv'
<1> DEFINE r == [req[h] EXCEPT !.pc = pc]
<1>1. req' = [req EXCEPT ![h] = r]
  BY DEF Advance
<1>2. IsRequest(r)
  <2>1. CASE req[h].route = "link" /\ pc \in {"first", "second"}
    <3>1. req[h] \in LinkRequest /\ req[h].own # req[h].partner
      BY <2>1, RequestFields
    <3>2. r \in LinkRequest /\ r.own # r.partner
      BY <2>1, <3>1 DEF LinkRequest
    <3> QED
      BY <3>2 DEF IsRequest
  <2>2. CASE req[h].route = "unlink" /\ pc \in {"first", "second"}
    <3>1. req[h] \in UnlinkRequest
      BY <2>2, RequestFields
    <3>2. r \in UnlinkRequest
      BY <2>2, <3>1 DEF UnlinkRequest
    <3> QED
      BY <3>2 DEF IsRequest
  <2>3. CASE req[h].route = "deleteOrg" /\ pc = "second"
    <3>1. req[h] \in DeleteOrgRequest
      BY <2>3, RequestFields
    <3>2. r \in DeleteOrgRequest
      BY <2>3, <3>1 DEF DeleteOrgRequest
    <3> QED
      BY <3>2 DEF IsRequest
  <2> QED
    BY <2>1, <2>2, <2>3
<1> HIDE DEF r
<1> QED
  BY <1>1, <1>2 DEF RequestsInv

LEMMA RequestsStep ==
  ASSUME TypeInv, Step
  PROVE  RequestsInv'
<1>0. RequestsInv
  BY DEF TypeInv
<1>1. CASE \E h \in Handlers : \E r : Arrives(h, r) /\ UNCHANGED editVars
  BY <1>0, <1>1, StartKeepsRequests DEF Arrives
<1>2. CASE \E h \in Handlers : countLink(h) /\ UNCHANGED editVars
  <2>1. PICK h \in Handlers : countLink(h)
    BY <1>2
  <2>2. req[h] # None /\ req[h].route = "unlink"
    BY <2>1 DEF countLink, At
  <2>3. CASE Advance(h, "first")
    BY <1>0, <2>2, <2>3, AdvanceKeepsRequests
  <2>4. CASE End(h)
    BY <1>0, <2>4, EndKeepsRequests
  <2> QED
    BY <2>1, <2>3, <2>4 DEF countLink
<1>3. CASE \E h \in Handlers : updateOwn(h) /\ UNCHANGED editVars
  <2>1. PICK h \in Handlers : updateOwn(h)
    BY <1>3
  <2>2. req[h] # None /\ req[h].route \in {"link", "unlink"}
    BY <2>1 DEF updateOwn, At
  <2>3. CASE Advance(h, "second")
    BY <1>0, <2>2, <2>3, AdvanceKeepsRequests
  <2>4. CASE End(h)
    BY <1>0, <2>4, EndKeepsRequests
  <2> QED
    BY <2>1, <2>3, <2>4 DEF updateOwn
<1>4. CASE \E h \in Handlers : updatePartner(h) /\ UNCHANGED editVars
  BY <1>0, <1>4, EndKeepsRequests DEF updatePartner
<1>5. CASE \E h \in Handlers : deadlockDetected(h) /\ UNCHANGED editVars
  BY <1>0, <1>5, EndKeepsRequests DEF deadlockDetected
<1>6. CASE \E h \in Handlers : writeColumn(h) /\ UNCHANGED editVars
  BY <1>0, <1>6, EndKeepsRequests DEF writeColumn
<1>7. CASE \E h \in Handlers : writePatch(h)
  BY <1>0, <1>7, EndKeepsRequests DEF writePatch
<1>8. CASE \E h \in Handlers : detachBuilds(h)
  <2>1. PICK h \in Handlers : detachBuilds(h)
    BY <1>8
  <2>2. req[h] # None /\ req[h].route = "deleteOrg" /\ Advance(h, "second")
    BY <2>1 DEF detachBuilds, At
  <2> QED
    BY <1>0, <2>2, AdvanceKeepsRequests
<1>9. CASE \E h \in Handlers : deleteOrgRow(h)
  BY <1>0, <1>9, EndKeepsRequests DEF deleteOrgRow
<1>10. CASE \E b \in Builds : deleteBuild(b) /\ UNCHANGED editVars
  BY <1>0, <1>10 DEF deleteBuild, RequestsInv
<1>11. CASE \E b \in Builds : pruneRevisions(b)
  BY <1>0, <1>11 DEF pruneRevisions, partnerVars, RequestsInv
<1>12. CASE \E u \in Users, o \in Orgs : leaveOrg(u, o)
  BY <1>0, <1>12 DEF leaveOrg, RequestsInv
<1>13. CASE tick
  BY <1>0, <1>13 DEF tick, partnerVars, RequestsInv
<1> QED
  BY <1>1, <1>2, <1>3, <1>4, <1>5, <1>6, <1>7, <1>8, <1>9, <1>10, <1>11, <1>12, <1>13
  DEF Step

-----------------------------------------------------------------------------
(* What the steps that write do to the tables                               *)

\* What the partner routes write, and what the edits write.
strip == <<live, links, targets, chosen, raced>>
pages == <<org, orgs, hideAuthor, content, log, saved, flagFor, overtaken>>

\* The second update of a link's transaction.
LEMMA PartnerWrite ==
  ASSUME TypeInv, NEW h \in Handlers, updatePartner(h)
  PROVE  /\ req[h].own \in Builds /\ req[h].partner \in Builds
         /\ live' = live /\ org' = org /\ writes' \in Nat
         /\ \/ UNCHANGED strip
            \/ /\ req[h].own # req[h].partner
               /\ links' = links \cup Linked(req[h].own, req[h].partner)
               /\ UNCHANGED <<targets, chosen, raced>>
            \/ /\ req[h].seen.own \in TargetMaps /\ req[h].seen.partner \in TargetMaps
               /\ req[h].route = "unlink" /\ req[h].pc = "second"
               /\ disconnect(h, req[h].own, req[h].partner)
<1>1. RequestsInv /\ req[h] # None /\ req[h].route \in {"link", "unlink"}
      /\ req[h].pc = "second" /\ UNCHANGED rowVars
  BY DEF TypeInv, updatePartner, At
<1>2. req[h].own \in Builds /\ req[h].partner \in Builds
  BY <1>1, RequestFields DEF LinkRequest, UnlinkRequest
<1>3. live' = live /\ org' = org
  BY <1>1 DEF rowVars
<1>4. writes' \in Nat
  BY DEF updatePartner, TypeInv, TablesInv
<1>5. CASE req[h].partner \notin live
  BY <1>2, <1>3, <1>4, <1>5 DEF updatePartner, columnVars, strip
<1>6. CASE req[h].partner \in live /\ req[h].route = "link"
  <2>1. req[h].own # req[h].partner
    BY <1>1, <1>6, RequestFields
  <2>2. connect(h, req[h].own, req[h].partner)
    BY <1>6 DEF updatePartner
  <2> QED
    BY <1>2, <1>3, <1>4, <2>1, <2>2 DEF connect, columnVars
<1>7. CASE req[h].partner \in live /\ req[h].route = "unlink"
  <2>1. req[h] \in UnlinkRequest
    BY <1>1, <1>7, RequestFields
  <2>2. req[h].seen.own \in TargetMaps /\ req[h].seen.partner \in TargetMaps
    BY <2>1 DEF UnlinkRequest
  <2>3. disconnect(h, req[h].own, req[h].partner)
    BY <1>7 DEF updatePartner
  <2> QED
    BY <1>1, <1>2, <1>3, <1>4, <1>7, <2>2, <2>3
<1> QED
  BY <1>1, <1>5, <1>6, <1>7

\* The write of a variant, which changes one build's targets.
WritesVariant(h) ==
    LET own == req[h].own
    IN  /\ own \in Builds /\ req[h].partner \in Builds
        /\ req[h].arg \in isVariantIndex /\ req[h].seen.own \in TargetMaps
        /\ targets' = [targets EXCEPT ![own] =
                          [req[h].seen.own EXCEPT ![req[h].partner] = req[h].arg]]
        /\ chosen' = [chosen EXCEPT ![own][req[h].partner] = req[h].arg]
        /\ raced' = IF targets[own] = req[h].seen.own /\ req[h].partner \in Partners(own)
                    THEN raced ELSE raced \cup {own}

LEMMA ColumnWrite ==
  ASSUME TypeInv, NEW h \in Handlers, writeColumn(h)
  PROVE  /\ live' = live /\ links' = links /\ org' = org /\ writes' \in Nat
         /\ \/ UNCHANGED strip
            \/ WritesVariant(h)
<1>1. RequestsInv /\ req[h] # None /\ req[h].route \in {"variant", "order"}
      /\ UNCHANGED <<rowVars, links>>
  BY DEF TypeInv, writeColumn, At
<1>2. live' = live /\ links' = links /\ org' = org
  BY <1>1 DEF rowVars
<1>3. writes' \in Nat
  BY DEF writeColumn, TypeInv, TablesInv
<1>4. CASE req[h].own \notin live
  BY <1>2, <1>3, <1>4 DEF writeColumn, columnVars, strip
<1>5. CASE req[h].own \in live /\ req[h].route = "order"
  BY <1>2, <1>3, <1>5 DEF writeColumn, strip
<1>6. CASE req[h].own \in live /\ req[h].route = "variant"
  <2>1. req[h] \in VariantRequest
    BY <1>1, <1>6, RequestFields
  <2>2. /\ req[h].own \in Builds /\ req[h].partner \in Builds
        /\ req[h].arg \in isVariantIndex /\ req[h].seen.own \in TargetMaps
    BY <2>1 DEF VariantRequest
  <2>3. WritesVariant(h)
    BY <1>6, <2>2 DEF writeColumn, WritesVariant
  <2> QED
    BY <1>2, <1>3, <2>3
<1> QED
  BY <1>1, <1>4, <1>5, <1>6

\* A PATCH that finds its build and its organization.
Saves(h, to) ==
    LET b     == req[h].own
        patch == req[h].arg
        move  == patch.org # Same
    IN  /\ to \in Nat
        /\ org' = IF move THEN [org EXCEPT ![b] = patch.org] ELSE org
        /\ content' = [content EXCEPT ![b] = to]
        /\ writeRevision(h, b, to)
        /\ IF patch.hide = Same
           THEN UNCHANGED <<hideAuthor, flagFor, overtaken>>
           ELSE /\ hideAuthor' = [hideAuthor EXCEPT ![b] = patch.hide]
                /\ flagFor' = [flagFor EXCEPT ![b] = IF move THEN patch.org
                                                             ELSE req[h].seen.org]
                /\ overtaken' = IF ~move /\ req[h].seen.org # org[b]
                                THEN overtaken \cup {b} ELSE overtaken \ {b}

LEMMA PatchWrite ==
  ASSUME TypeInv, NEW h \in Handlers, writePatch(h)
  PROVE  /\ req[h] # None /\ req[h].route = "patch" /\ req[h].pc = "write"
         /\ req[h] \in PatchRequest /\ WellDecided(req[h])
         /\ UNCHANGED <<strip, orgs, clock>> /\ End(h) /\ writes' \in Nat
         /\ \/ UNCHANGED pages
            \/ \E to : Saves(h, to)
<1>1. RequestsInv /\ req[h] # None /\ req[h].route = "patch" /\ req[h].pc = "write"
  BY DEF TypeInv, writePatch, At
<1>2. req[h] \in PatchRequest /\ WellDecided(req[h])
  BY <1>1, RequestFields
<1>3. UNCHANGED <<strip, orgs, clock>> /\ End(h)
  BY DEF writePatch, columnVars, strip
<1>4. writes' \in Nat
  BY DEF writePatch, TypeInv, TablesInv
<1>5. CASE req[h].own \notin live \/ req[h].arg.org \in Orgs \ orgs
  BY <1>1, <1>2, <1>3, <1>4, <1>5 DEF writePatch, pages
<1>6. CASE ~(req[h].own \notin live \/ req[h].arg.org \in Orgs \ orgs)
  <2> DEFINE to == IF req[h].arg.edit THEN writes + 1 ELSE content[req[h].own]
  <2>1. to \in Nat
    BY <1>2 DEF PatchRequest, TypeInv, TablesInv
  <2>2. Saves(h, to)
    BY <1>6, <2>1 DEF writePatch, Saves
  <2> QED
    BY <1>1, <1>2, <1>3, <1>4, <2>2
<1> QED
  BY <1>5, <1>6

\* The delete of an organization that is still there; found are the rows its
\* transaction took before.
Detaches(o, found) ==
    LET late == {b \in live : org[b] = o} \ found
    IN  /\ o \in orgs
        /\ orgs' = orgs \ {o}
        /\ org' = [b \in Builds |-> IF org[b] = o THEN None ELSE org[b]]
        /\ hideAuthor' = flagsWithoutOrg(found)
        /\ overtaken' = (overtaken \ found) \cup {b \in late : hideAuthor[b]}
        /\ UNCHANGED <<content, log, saved, flagFor>>

LEMMA OrgRowDelete ==
  ASSUME TypeInv, NEW h \in Handlers, deleteOrgRow(h)
  PROVE  /\ UNCHANGED <<strip, clock>> /\ End(h) /\ writes' \in Nat
         /\ \/ UNCHANGED pages
            \/ \E o, found : Detaches(o, found)
<1>1. UNCHANGED <<strip, clock>> /\ End(h)
  BY DEF deleteOrgRow, columnVars, strip
<1>2. writes' \in Nat
  BY DEF deleteOrgRow, TypeInv, TablesInv
<1>3. CASE req[h].arg \notin orgs
  BY <1>1, <1>2, <1>3 DEF deleteOrgRow, pages
<1>4. CASE req[h].arg \in orgs
  <2> DEFINE found == {b \in Builds : locks[b] = h}
  <2>1. Detaches(req[h].arg, found)
    BY <1>4 DEF deleteOrgRow, Detaches
  <2> QED
    BY <1>1, <1>2, <2>1
<1> QED
  BY <1>3, <1>4

\* Steps that write neither.
LEMMA QuietSteps ==
  ASSUME TypeInv,
         \/ \E h \in Handlers : \E r : Arrives(h, r) /\ UNCHANGED editVars
         \/ \E h \in Handlers : countLink(h) /\ UNCHANGED editVars
         \/ \E h \in Handlers : updateOwn(h) /\ UNCHANGED editVars
         \/ \E h \in Handlers : deadlockDetected(h) /\ UNCHANGED editVars
         \/ \E h \in Handlers : detachBuilds(h)
         \/ \E u \in Users, o \in Orgs : leaveOrg(u, o)
         \/ tick
         \/ UNCHANGED vars
  PROVE  UNCHANGED <<strip, pages>> /\ writes' = writes /\ clock' \in Nat /\ clock <= clock'
<1>1. ASSUME NEW h \in Handlers, NEW r, Arrives(h, r), UNCHANGED editVars
      PROVE  UNCHANGED <<strip, pages>> /\ writes' = writes /\ clock' = clock
  BY <1>1 DEF Arrives, Start, editVars, rowVars, columnVars, strip, pages
<1>2. ASSUME NEW h \in Handlers, countLink(h) \/ updateOwn(h) \/ deadlockDetected(h),
             UNCHANGED editVars
      PROVE  UNCHANGED <<strip, pages>> /\ writes' = writes /\ clock' = clock
  BY <1>2 DEF countLink, updateOwn, deadlockDetected, editVars, rowVars, columnVars, strip,
              pages
<1>3. ASSUME NEW h \in Handlers, detachBuilds(h)
      PROVE  UNCHANGED <<strip, pages>> /\ writes' = writes /\ clock' = clock
  BY <1>3 DEF detachBuilds, editVars, rowVars, columnVars, strip, pages
<1>4. ASSUME NEW u \in Users, NEW o \in Orgs, leaveOrg(u, o)
      PROVE  UNCHANGED <<strip, pages>> /\ writes' = writes /\ clock' = clock
  BY <1>4 DEF leaveOrg, editVars, columnVars, strip, pages
<1>5. ASSUME tick
      PROVE  UNCHANGED <<strip, pages>> /\ writes' = writes /\ clock' = clock + 1
  BY <1>5 DEF tick, partnerVars, strip, pages
<1>6. ASSUME UNCHANGED vars
      PROVE  UNCHANGED <<strip, pages>> /\ writes' = writes /\ clock' = clock
  BY <1>6 DEF vars, partnerVars, editVars, strip, pages
<1>7. clock \in Nat
  BY DEF TypeInv, TablesInv
<1> QED
  BY <1>1, <1>2, <1>3, <1>4, <1>5, <1>6, <1>7

-----------------------------------------------------------------------------
(* Logs                                                                     *)

\* What LIMIT takes of a log: no row it leaves out is newer than one of them.
LEMMA NewestRows ==
  ASSUME NEW rows, IsFiniteSet(rows), NEW limit \in Nat, NEW kept \in Newest(rows, limit)
  PROVE  /\ kept \subseteq rows /\ IsFiniteSet(kept)
         /\ Cardinality(rows) \in Nat /\ Cardinality(kept) \in Nat
         /\ Cardinality(kept) = IF limit <= Cardinality(rows) THEN limit
                                                              ELSE Cardinality(rows)
         /\ kept = rows \/ Cardinality(kept) = limit
         /\ \A gone \in rows \ kept, row \in kept : gone.at <= row.at
<1>1. /\ kept \in kSubset(Min({limit, Cardinality(rows)}), rows)
      /\ \A gone \in rows \ kept, row \in kept : gone.at <= row.at
  BY DEF Newest
<1> QED
  BY <1>1, Limited

\* What a save adds.
LEMMA AddedRevision ==
  ASSUME TypeInv, NEW h \in Handlers, req[h] \in PatchRequest, NEW to \in Nat, NEW at \in Nat
  PROVE  LET s == saved[req[h].own]
             e == Edited(h, req[h].own, to, at)
             t == Append(s, e)
         IN  /\ e \in Revision
             /\ e.n = Len(s) + 1 /\ e.to = to /\ e.at = at
             /\ e.from = req[h].seen.content /\ e.read = req[h].seen.save
             /\ t \in Seq(Revision) /\ t # <<>>
             /\ Len(t) = Len(s) + 1 /\ t[Len(s) + 1] = e
             /\ \A i \in 1 .. Len(s) : t[i] = s[i]
<1> DEFINE b == req[h].own
           e == Edited(h, b, to, at)
           s == saved[b]
           t == Append(s, e)
<1>1. b \in Builds /\ req[h].arg.editor \in Users
      /\ req[h].seen.content \in Nat /\ req[h].seen.save \in Nat
  BY DEF PatchRequest, Patch
<1>2. s \in Seq(Revision) /\ Len(s) \in Nat
  BY <1>1, SavedRevisions
<1>3. e \in Revision /\ e.n = Len(s) + 1 /\ e.to = to /\ e.at = at
      /\ e.from = req[h].seen.content /\ e.read = req[h].seen.save
  <2> DEFINE n == Len(s) + 1
  <2>1. n \in Nat
    BY <1>2
  <2>2. e = [n |-> n, kind |-> "EDITED", editor |-> req[h].arg.editor, at |-> at,
             from |-> req[h].seen.content, to |-> to, read |-> req[h].seen.save]
    BY DEF Edited
  <2> HIDE DEF n, e
  <2>3. e \in Revision
    BY <1>1, <2>1, <2>2 DEF Revision
  <2>4. /\ e.n = n /\ e.to = to /\ e.at = at
        /\ e.from = req[h].seen.content /\ e.read = req[h].seen.save
    BY <2>2
  <2> QED
    BY <2>3, <2>4 DEF n
<1> HIDE DEF e, s
<1>4. /\ t \in Seq(Revision) /\ t # <<>> /\ Len(t) = Len(s) + 1
      /\ t[Len(s) + 1] = e /\ \A i \in 1 .. Len(s) : t[i] = s[i]
  BY <1>2, <1>3
<1> QED
  BY <1>3, <1>4 DEF e, s, b

-----------------------------------------------------------------------------
(* Types, in every step                                                     *)

\* What a save writes to the log, with the time it is given.
SavesAt(h, to, at) ==
    LET b == req[h].own
        e == Edited(h, b, to, at)
    IN  /\ at \in Nat /\ req[h].seen.at <= at /\ at <= clock
        /\ log' = [log EXCEPT ![b] = @ \cup {e}]
        /\ saved' = [saved EXCEPT ![b] = Append(@, e)]

LEMMA SaveHasATime ==
  ASSUME TypeInv, NEW h \in Handlers, req[h] \in PatchRequest, NEW to, Saves(h, to)
  PROVE  \E at : SavesAt(h, to, at)
<1>1. req[h].seen.at \in Nat /\ clock \in Nat
  BY DEF PatchRequest, TypeInv, TablesInv
<1>2. writeRevision(h, req[h].own, to)
  BY DEF Saves
<1>3. PICK at \in req[h].seen.at .. clock :
             /\ log' = [log EXCEPT ![req[h].own] = @ \cup {Edited(h, req[h].own, to, at)}]
             /\ saved' = [saved EXCEPT ![req[h].own] =
                              Append(@, Edited(h, req[h].own, to, at))]
  BY <1>2 DEF writeRevision
<1>4. at \in Nat /\ req[h].seen.at <= at /\ at <= clock
  BY <1>1
<1> QED
  BY <1>3, <1>4 DEF SavesAt

LEMMA SavesTypes ==
  ASSUME TypeInv, NEW h \in Handlers, req[h] \in PatchRequest, NEW to, Saves(h, to)
  PROVE  /\ org' \in [Builds -> Orgs \cup {None}]
         /\ hideAuthor' \in [Builds -> BOOLEAN]
         /\ flagFor' \in [Builds -> Orgs \cup {None}]
         /\ content' \in [Builds -> Nat]
         /\ log' \in [Builds -> SUBSET Revision]
         /\ saved' \in [Builds -> Seq(Revision)]
         /\ \A b \in Builds : saved'[b] # <<>>
<1> DEFINE r == req[h]
           b == r.own
<1>1. /\ b \in Builds /\ r.arg.org \in Orgs \cup {None, Same}
      /\ r.arg.hide \in BOOLEAN \cup {Same} /\ r.seen.org \in Orgs \cup {None}
      /\ to \in Nat
  BY DEF PatchRequest, Patch, Saves
<1>2. /\ org \in [Builds -> Orgs \cup {None}]
      /\ hideAuthor \in [Builds -> BOOLEAN]
      /\ flagFor \in [Builds -> Orgs \cup {None}]
      /\ content \in [Builds -> Nat]
      /\ log \in [Builds -> SUBSET Revision]
      /\ saved \in [Builds -> Seq(Revision)]
      /\ \A p \in Builds : saved[p] # <<>>
  BY DEF TypeInv, TablesInv
<1>3. org' \in [Builds -> Orgs \cup {None}]
  BY <1>1, <1>2 DEF Saves
<1>4. hideAuthor' \in [Builds -> BOOLEAN]
  BY <1>1, <1>2 DEF Saves
<1>5. flagFor' \in [Builds -> Orgs \cup {None}]
  BY <1>1, <1>2 DEF Saves
<1>6. content' \in [Builds -> Nat]
  BY <1>1, <1>2 DEF Saves
<1>7. PICK at : SavesAt(h, to, at)
  BY SaveHasATime
<1> DEFINE e == Edited(h, b, to, at)
           t == Append(saved[b], e)
<1>8. log' = [log EXCEPT ![b] = log[b] \cup {e}] /\ saved' = [saved EXCEPT ![b] = t]
      /\ at \in Nat
  BY <1>7 DEF SavesAt
<1>9. e \in Revision /\ t \in Seq(Revision) /\ t # <<>>
  BY <1>1, <1>8, AddedRevision
<1> HIDE DEF e, t, b
<1>10. log' \in [Builds -> SUBSET Revision]
  BY <1>1, <1>2, <1>8, <1>9
<1>11. saved' \in [Builds -> Seq(Revision)] /\ \A p \in Builds : saved'[p] # <<>>
  BY <1>1, <1>2, <1>8, <1>9
<1> QED
  BY <1>3, <1>4, <1>5, <1>6, <1>10, <1>11

LEMMA TablesStep ==
  ASSUME TypeInv, Step
  PROVE  TablesInv'
<1>0. TablesInv
  BY DEF TypeInv
<1>1. CASE UNCHANGED <<strip, pages>> /\ writes' = writes /\ clock' \in Nat
  BY <1>0, <1>1 DEF TablesInv, strip, pages
<1>2. CASE \E h \in Handlers : updatePartner(h) /\ UNCHANGED editVars
  <2>1. PICK h \in Handlers : updatePartner(h) /\ UNCHANGED editVars
    BY <1>2
  <2> DEFINE r == req[h]
  <2>2. /\ r.own \in Builds /\ r.partner \in Builds
        /\ live' = live /\ org' = org /\ writes' \in Nat
        /\ UNCHANGED <<hideAuthor, flagFor, content, log, saved, clock, orgs>>
    BY <2>1, PartnerWrite DEF editVars
  <2>3. CASE UNCHANGED strip
    BY <1>0, <2>2, <2>3 DEF TablesInv, strip
  <2>4. CASE /\ links' = links \cup Linked(r.own, r.partner)
             /\ UNCHANGED <<targets, chosen, raced>>
    BY <1>0, <2>2, <2>4 DEF TablesInv, Linked
  <2>5. CASE /\ r.seen.own \in TargetMaps /\ r.seen.partner \in TargetMaps
             /\ disconnect(h, r.own, r.partner)
    <3>1. links' \subseteq Builds \X Builds
      BY <1>0, <2>5 DEF TablesInv, disconnect
    <3>2. \A m \in TargetMaps, p \in Builds : Without(m, p) \in TargetMaps
      BY NoTarget DEF TargetMaps, Without
    <3>3. targets' \in [Builds -> TargetMaps]
      BY <1>0, <2>2, <2>5, <3>2 DEF TablesInv, disconnect
    <3>4. chosen' \in [Builds -> TargetMaps]
      BY <1>0, <2>2, <2>5, <3>2 DEF TablesInv, disconnect
    <3> QED
      BY <1>0, <2>2, <3>1, <3>3, <3>4 DEF TablesInv
  <2> QED
    BY <2>1, <2>3, <2>4, <2>5, PartnerWrite
<1>3. CASE \E h \in Handlers : writeColumn(h) /\ UNCHANGED editVars
  <2>1. PICK h \in Handlers : writeColumn(h) /\ UNCHANGED editVars
    BY <1>3
  <2>2. /\ live' = live /\ links' = links /\ org' = org /\ writes' \in Nat
        /\ UNCHANGED <<hideAuthor, flagFor, content, log, saved, clock, orgs>>
    BY <2>1, ColumnWrite DEF editVars
  <2>3. CASE UNCHANGED strip
    BY <1>0, <2>2, <2>3 DEF TablesInv, strip
  <2>4. CASE WritesVariant(h)
    <3>1. targets' \in [Builds -> TargetMaps]
      BY <1>0, <2>4 DEF TablesInv, WritesVariant, TargetMaps
    <3>2. chosen' \in [Builds -> TargetMaps]
      BY <1>0, <2>4 DEF TablesInv, WritesVariant, TargetMaps
    <3> QED
      BY <1>0, <2>2, <3>1, <3>2 DEF TablesInv
  <2> QED
    BY <2>1, <2>3, <2>4, ColumnWrite
<1>4. CASE \E h \in Handlers : writePatch(h)
  <2>1. PICK h \in Handlers : writePatch(h)
    BY <1>4
  <2>2. req[h] \in PatchRequest /\ UNCHANGED <<strip, orgs, clock>> /\ writes' \in Nat
    BY <2>1, PatchWrite
  <2>3. CASE UNCHANGED pages
    BY <1>0, <2>2, <2>3 DEF TablesInv, strip, pages
  <2>4. CASE \E to : Saves(h, to)
    BY <1>0, <2>2, <2>4, SavesTypes DEF TablesInv, strip
  <2> QED
    BY <2>1, <2>3, <2>4, PatchWrite
<1>5. CASE \E h \in Handlers : deleteOrgRow(h)
  <2>1. PICK h \in Handlers : deleteOrgRow(h)
    BY <1>5
  <2>2. UNCHANGED <<strip, clock>> /\ writes' \in Nat
    BY <2>1, OrgRowDelete
  <2>3. CASE UNCHANGED pages
    BY <1>0, <2>2, <2>3 DEF TablesInv, strip, pages
  <2>4. CASE \E o, found : Detaches(o, found)
    <3>1. PICK o, found : Detaches(o, found)
      BY <2>4
    <3>2. org' \in [Builds -> Orgs \cup {None}] /\ orgs' \subseteq Orgs
      BY <1>0, <3>1 DEF Detaches, TablesInv
    <3>3. hideAuthor' \in [Builds -> BOOLEAN]
      <4>1. \A b \in Builds : (b \notin found /\ hideAuthor[b]) \in BOOLEAN
        OBVIOUS
      <4> QED
        BY <3>1, <4>1 DEF Detaches, flagsWithoutOrg
    <3> QED
      BY <1>0, <2>2, <3>1, <3>2, <3>3 DEF TablesInv, Detaches, strip
  <2> QED
    BY <2>1, <2>3, <2>4, OrgRowDelete
<1>6. CASE \E b \in Builds : deleteBuild(b) /\ UNCHANGED editVars
  <2>1. /\ live' \subseteq live /\ links' \subseteq links /\ writes' \in Nat
        /\ UNCHANGED <<org, targets, chosen, hideAuthor, flagFor, content, log, saved,
                       clock, orgs>>
    BY <1>0, <1>6 DEF deleteBuild, editVars, columnVars, TablesInv
  <2> QED
    BY <1>0, <2>1 DEF TablesInv
<1>7. CASE \E b \in Builds : pruneRevisions(b)
  <2>1. PICK b \in Builds : pruneRevisions(b)
    BY <1>7
  <2>2. PICK kept \in Newest(log[b], MAX_STORED_REVISIONS) :
                log' = [log EXCEPT ![b] = kept]
    BY <2>1 DEF pruneRevisions
  <2>3. UNCHANGED <<live, links, targets, chosen, org, hideAuthor, flagFor, content, saved,
                    clock, orgs, writes>>
    BY <2>1 DEF pruneRevisions, partnerVars
  <2>4. kept \subseteq log[b]
    BY <2>2 DEF Newest, kSubset
  <2>5. log' \in [Builds -> SUBSET Revision]
    BY <1>0, <2>2, <2>4 DEF TablesInv
  <2> QED
    BY <1>0, <2>3, <2>5 DEF TablesInv
<1> QED
  BY <1>1, <1>2, <1>3, <1>4, <1>5, <1>6, <1>7, QuietSteps DEF Step

LEMMA InitTypes ==
  ASSUME Init
  PROVE  TypeInv
<1>1. RequestsInv
  BY DEF Init, PartnerInit, RequestsInv
<1>2. /\ live = Builds /\ org = OrgOf /\ links = FirstLinks /\ writes = 0
      /\ targets = [b \in Builds |-> NoTargets] /\ chosen = targets
      /\ hideAuthor = [b \in Builds |-> FALSE] /\ flagFor = [b \in Builds |-> None]
      /\ content = [b \in Builds |-> 0] /\ clock = 0 /\ orgs = Orgs
      /\ log = [b \in Builds |-> {Created(b)}]
      /\ saved = [b \in Builds |-> <<Created(b)>>]
  BY DEF Init, PartnerInit
<1>3. NoTargets \in TargetMaps
  BY NoTarget DEF NoTargets, TargetMaps
<1>4. \A b \in Builds : Created(b) \in Revision
  BY PartnerAssumption DEF Created, Revision
<1>5. \A b \in Builds : <<Created(b)>> \in Seq(Revision) /\ <<Created(b)>> # <<>>
  BY <1>4
<1>6. /\ log \in [Builds -> SUBSET Revision]
      /\ saved \in [Builds -> Seq(Revision)] /\ \A b \in Builds : saved[b] # <<>>
  BY <1>2, <1>4, <1>5
<1>7. TablesInv
  BY <1>2, <1>3, <1>6, PartnerAssumption DEF TablesInv
<1> QED
  BY <1>1, <1>7 DEF TypeInv

-----------------------------------------------------------------------------
(* Links                                                                    *)

\* An unlink writes only what it found linked, so never one build.
Apart ==
    \A h \in Handlers :
        req[h] # None /\ req[h].route = "unlink" /\ req[h].pc # "count"
            => req[h].own # req[h].partner

MutualInv == LinksAreMutual /\ Apart

LEMMA ApartStep ==
  ASSUME TypeInv, MutualInv, Step
  PROVE  Apart'
<1>1. ASSUME NEW h \in Handlers, NEW r, Arrives(h, r)
      PROVE  Apart'
  BY <1>1 DEF Arrives, Start, IsFresh, MutualInv, Apart, TypeInv, RequestsInv
<1>2. ASSUME NEW h \in Handlers, End(h)
      PROVE  Apart'
  BY <1>2 DEF End, MutualInv, Apart, TypeInv, RequestsInv
<1>3. ASSUME UNCHANGED req
      PROVE  Apart'
  BY <1>3 DEF MutualInv, Apart
<1>4. ASSUME NEW h \in Handlers, NEW pc, req[h] # None, Advance(h, pc),
             req[h].route = "unlink" => req[h].own # req[h].partner
      PROVE  Apart'
  <2>1. ASSUME NEW g \in Handlers, req'[g] # None, req'[g].route = "unlink",
               req'[g].pc # "count"
        PROVE  req'[g].own # req'[g].partner
    <3>1. req' = [req EXCEPT ![h].pc = pc]
      BY <1>4 DEF Advance
    <3>2. CASE g # h
      <4>1. req'[g] = req[g]
        BY <3>1, <3>2 DEF TypeInv, RequestsInv
      <4> QED
        BY <4>1, <2>1 DEF MutualInv, Apart
    <3>3. CASE g = h
      <4>1. req'[h] = [req[h] EXCEPT !.pc = pc]
        BY <3>1 DEF TypeInv, RequestsInv
      <4>2. CASE req[h] \in UnlinkRequest
        <5>1. req'[h].own = req[h].own /\ req'[h].partner = req[h].partner
          BY <4>1, <4>2 DEF UnlinkRequest
        <5> QED
          BY <5>1, <4>2, <3>3, <1>4 DEF UnlinkRequest
      <4>3. CASE req[h] \in LinkRequest
        <5>1. req'[h].route = "link"
          BY <4>1, <4>3 DEF LinkRequest
        <5> QED
          BY <5>1, <3>3, <2>1
      <4>4. CASE req[h] \in VariantRequest
        <5>1. req'[h].route = "variant"
          BY <4>1, <4>4 DEF VariantRequest
        <5> QED
          BY <5>1, <3>3, <2>1
      <4>5. CASE IsOrderRequest(req[h])
        <5>1. req'[h].route = "order"
          BY <4>1, <4>5 DEF IsOrderRequest, Request
        <5> QED
          BY <5>1, <3>3, <2>1
      <4>6. CASE req[h] \in PatchRequest
        <5>1. req'[h].route = "patch"
          BY <4>1, <4>6 DEF PatchRequest
        <5> QED
          BY <5>1, <3>3, <2>1
      <4>7. CASE req[h] \in DeleteOrgRequest
        <5>1. req'[h].route = "deleteOrg"
          BY <4>1, <4>7 DEF DeleteOrgRequest
        <5> QED
          BY <5>1, <3>3, <2>1
      <4>8. IsRequest(req[h])
        BY <1>4 DEF TypeInv, RequestsInv
      <4> QED
        BY <4>2, <4>3, <4>4, <4>5, <4>6, <4>7, <4>8 DEF IsRequest
    <3> QED
      BY <3>2, <3>3
  <2> QED
    BY <2>1 DEF Apart
<1>5. CASE \E h \in Handlers : countLink(h)
  <2>1. PICK h \in Handlers : countLink(h)
    BY <1>5
  <2>2. req[h] # None
    BY <2>1 DEF countLink, At
  <2>3. CASE req[h].partner \in Partners(req[h].own)
    <3>1. req[h].own # req[h].partner
      BY <2>3 DEF Partners, MutualInv, LinksAreMutual
    <3>2. Advance(h, "first")
      BY <2>1, <2>3 DEF countLink
    <3> QED
      BY <2>2, <3>1, <3>2, <1>4
  <2>4. CASE req[h].partner \notin Partners(req[h].own)
    BY <2>1, <2>4, <1>2 DEF countLink
  <2> QED
    BY <2>3, <2>4
<1>6. CASE \E h \in Handlers : updateOwn(h)
  <2>1. PICK h \in Handlers : updateOwn(h)
    BY <1>6
  <2>2. req[h] # None /\ (req[h].route = "unlink" => req[h].own # req[h].partner)
    BY <2>1 DEF updateOwn, At, MutualInv, Apart
  <2> QED
    BY <2>1, <2>2, <1>2, <1>4 DEF updateOwn
<1>7. CASE \E h \in Handlers : detachBuilds(h)
  <2>1. PICK h \in Handlers : detachBuilds(h)
    BY <1>7
  <2>2. req[h] # None /\ req[h].route # "unlink" /\ Advance(h, "second")
    BY <2>1 DEF detachBuilds, At
  <2> QED
    BY <2>2, <1>4
<1>8. CASE \E h \in Handlers : updatePartner(h) \/ deadlockDetected(h) \/ writeColumn(h)
                               \/ writePatch(h) \/ deleteOrgRow(h)
  BY <1>8, <1>2 DEF updatePartner, deadlockDetected, writeColumn, writePatch, deleteOrgRow
<1>9. CASE \/ \E b \in Builds : deleteBuild(b)
           \/ \E b \in Builds : pruneRevisions(b)
           \/ \E u \in Users, o \in Orgs : leaveOrg(u, o)
           \/ tick
  BY <1>9, <1>3 DEF deleteBuild, pruneRevisions, leaveOrg, tick, partnerVars
<1> QED
  BY <1>1, <1>5, <1>6, <1>7, <1>8, <1>9 DEF Step

\* Every step that changes links changes them on both sides.
LEMMA MutualStep ==
  ASSUME TypeInv, MutualInv, Step
  PROVE  MutualInv'
<1> SUFFICES LinksAreMutual'
  BY ApartStep DEF MutualInv
<1>0. LinksAreMutual
  BY DEF MutualInv
<1>1. ASSUME links' = links
      PROVE  LinksAreMutual'
  BY <1>0, <1>1 DEF LinksAreMutual
<1>2. CASE \E h \in Handlers : updatePartner(h)
  <2>1. PICK h \in Handlers : updatePartner(h)
    BY <1>2
  <2> DEFINE own == req[h].own
             partner == req[h].partner
  <2>2. CASE UNCHANGED strip
    BY <2>2, <1>1 DEF strip
  <2>3. CASE own # partner /\ links' = links \cup Linked(own, partner)
    <3> HIDE DEF own, partner
    <3>1. ASSUME NEW l \in links'
          PROVE  <<l[2], l[1]>> \in links' /\ l[1] # l[2]
      <4>1. CASE l \in links
        BY <1>0, <2>3, <4>1 DEF LinksAreMutual
      <4>2. CASE l = <<own, partner>>
        BY <2>3, <4>2 DEF Linked
      <4>3. CASE l = <<partner, own>>
        BY <2>3, <4>3 DEF Linked
      <4> QED
        BY <2>3, <4>1, <4>2, <4>3 DEF Linked
    <3> QED
      BY <3>1 DEF LinksAreMutual
  <2>4. CASE disconnect(h, own, partner)
    <3>1. links' = links \ Linked(own, partner)
      BY <2>4 DEF disconnect
    <3>2. links \subseteq Builds \X Builds
      BY DEF TypeInv, TablesInv
    <3> HIDE DEF own, partner
    <3>3. ASSUME NEW l \in links'
          PROVE  <<l[2], l[1]>> \in links' /\ l[1] # l[2]
      <4>1. l \in links /\ <<l[2], l[1]>> \in links /\ l[1] # l[2] /\ l = <<l[1], l[2]>>
        BY <1>0, <3>1, <3>2 DEF LinksAreMutual
      <4>2. l # <<own, partner>> /\ l # <<partner, own>>
        BY <3>1 DEF Linked
      <4>3. <<l[2], l[1]>> # <<own, partner>> /\ <<l[2], l[1]>> # <<partner, own>>
        BY <4>1, <4>2
      <4> QED
        BY <4>1, <4>3, <3>1 DEF Linked
    <3> QED
      BY <3>3 DEF LinksAreMutual
  <2> QED
    BY <2>1, <2>2, <2>3, <2>4, PartnerWrite
<1>3. CASE \E b \in Builds : deleteBuild(b)
  <2>1. PICK b \in Builds : links' = {l \in links : l[1] # b /\ l[2] # b}
    BY <1>3 DEF deleteBuild
  <2> QED
    BY <1>0, <2>1 DEF LinksAreMutual
<1>4. CASE \E h \in Handlers : writeColumn(h)
  BY <1>1, <1>4, ColumnWrite
<1>5. CASE \E h \in Handlers : writePatch(h)
  BY <1>1, <1>5, PatchWrite DEF strip
<1>6. CASE \E h \in Handlers : deleteOrgRow(h)
  BY <1>1, <1>6, OrgRowDelete DEF strip
<1>7. CASE \E b \in Builds : pruneRevisions(b)
  BY <1>1, <1>7 DEF pruneRevisions, partnerVars
<1>8. CASE UNCHANGED <<strip, pages>>
  BY <1>1, <1>8 DEF strip
<1> QED
  BY <1>2, <1>3, <1>4, <1>5, <1>6, <1>7, <1>8, QuietSteps DEF Step

-----------------------------------------------------------------------------
(* Targets                                                                  *)

LEMMA TargetsStep ==
  ASSUME TypeInv, MutualInv, OnlyStaleWritesLoseTargets, Step
  PROVE  OnlyStaleWritesLoseTargets'
<1>0. \A b \in live : b \notin raced =>
          /\ targets[b] = chosen[b]
          /\ \A p \in live : targets[b][p] # 0 => <<b, p>> \in links
  BY DEF OnlyStaleWritesLoseTargets, Partners, TypeInv, TablesInv
<1>t. /\ live \subseteq Builds /\ links \subseteq Builds \X Builds
      /\ targets \in [Builds -> TargetMaps] /\ chosen \in [Builds -> TargetMaps]
  BY DEF TypeInv, TablesInv
<1> SUFFICES ASSUME NEW b \in live', b \notin raced'
             PROVE  /\ targets'[b] = chosen'[b]
                    /\ \A p \in live' : targets'[b][p] # 0 => <<b, p>> \in links'
  <2>1. live' \subseteq Builds
    BY TablesStep DEF TablesInv
  <2> QED
    BY <2>1 DEF OnlyStaleWritesLoseTargets, Partners
<1>1. CASE UNCHANGED strip
  BY <1>0, <1>1 DEF strip
<1>2. CASE \E h \in Handlers : updatePartner(h)
  <2>1. PICK h \in Handlers : updatePartner(h)
    BY <1>2
  <2> DEFINE own == req[h].own
             partner == req[h].partner
  <2>2. live' = live /\ own \in Builds /\ partner \in Builds
    BY <2>1, PartnerWrite
  <2>3. CASE /\ links' = links \cup Linked(own, partner)
             /\ UNCHANGED <<targets, chosen, raced>>
    BY <1>0, <2>2, <2>3
  <2>4. CASE /\ req[h].seen.own \in TargetMaps /\ req[h].seen.partner \in TargetMaps
             /\ req[h].route = "unlink" /\ req[h].pc = "second"
             /\ disconnect(h, own, partner)
    <3>1. own # partner
      BY <2>1, <2>4 DEF updatePartner, At, MutualInv, Apart
    <3>2. /\ links' = links \ Linked(own, partner)
          /\ raced' = raced \cup Stale(h)
          /\ targets' = [targets EXCEPT ![own]     = Without(req[h].seen.own, partner),
                                        ![partner] = Without(req[h].seen.partner, own)]
          /\ chosen' = [chosen EXCEPT ![own]     = Without(chosen[own], partner),
                                      ![partner] = Without(chosen[partner], own)]
      BY <2>2, <2>4, <3>1, <1>t DEF disconnect
    <3>3. b \in live /\ b \notin raced /\ b \in Builds /\ targets[b] \in TargetMaps
      BY <2>2, <3>2, <1>t
    <3>4. targets[b] = chosen[b] /\ \A p \in live : targets[b][p] # 0 => <<b, p>> \in links
      BY <1>0, <3>3
    <3>5. ASSUME NEW other \in Builds, targets'[b] = Without(targets[b], other),
                 chosen'[b] = Without(chosen[b], other),
                 \A p \in Builds : p # other /\ <<b, p>> \in links => <<b, p>> \in links'
          PROVE  /\ targets'[b] = chosen'[b]
                 /\ \A p \in live' : targets'[b][p] # 0 => <<b, p>> \in links'
      <4>1. targets'[b] = chosen'[b]
        BY <3>4, <3>5
      <4>2. ASSUME NEW p \in live', targets'[b][p] # 0
            PROVE  <<b, p>> \in links'
        <5>1. p \in live /\ p \in Builds /\ p # other /\ targets[b][p] # 0
          BY <2>2, <3>3, <3>5, <4>2, <1>t DEF Without, TargetMaps
        <5> QED
          BY <3>4, <3>5, <5>1
      <4> QED
        BY <4>1, <4>2
    <3> HIDE DEF own, partner
    <3>6. CASE b = own
      <4>1. targets[b] = req[h].seen.own
        BY <3>2, <3>6 DEF Stale, own
      <4>2. targets'[b] = Without(targets[b], partner) /\ chosen'[b] = Without(chosen[b], partner)
        BY <2>2, <3>1, <3>2, <3>6, <4>1, <1>t
      <4>3. \A p \in Builds : p # partner /\ <<b, p>> \in links => <<b, p>> \in links'
        BY <3>1, <3>2, <3>6 DEF Linked
      <4> QED
        BY <2>2, <3>5, <4>2, <4>3
    <3>7. CASE b = partner
      <4>1. targets[b] = req[h].seen.partner
        BY <3>1, <3>2, <3>7 DEF Stale, own, partner
      <4>2. targets'[b] = Without(targets[b], own) /\ chosen'[b] = Without(chosen[b], own)
        BY <2>2, <3>1, <3>2, <3>7, <4>1, <1>t
      <4>3. \A p \in Builds : p # own /\ <<b, p>> \in links => <<b, p>> \in links'
        BY <3>1, <3>2, <3>7 DEF Linked
      <4> QED
        BY <2>2, <3>5, <4>2, <4>3
    <3>8. CASE b # own /\ b # partner
      <4>1. targets'[b] = targets[b] /\ chosen'[b] = chosen[b]
        BY <2>2, <3>2, <3>3, <3>8, <1>t
      <4>2. \A p \in Builds : <<b, p>> \in links => <<b, p>> \in links'
        BY <3>2, <3>8 DEF Linked
      <4> QED
        BY <2>2, <3>4, <4>1, <4>2, <1>t
    <3> QED
      BY <3>6, <3>7, <3>8
  <2> QED
    BY <2>1, <2>3, <2>4, <1>1, PartnerWrite
<1>3. CASE \E h \in Handlers : writeColumn(h)
  <2>1. PICK h \in Handlers : writeColumn(h)
    BY <1>3
  <2> DEFINE own == req[h].own
             partner == req[h].partner
             arg == req[h].arg
  <2>2. live' = live /\ links' = links
    BY <2>1, ColumnWrite
  <2>3. CASE WritesVariant(h)
    <3>1. /\ own \in Builds /\ partner \in Builds /\ arg \in isVariantIndex
          /\ targets' = [targets EXCEPT ![own] = [req[h].seen.own EXCEPT ![partner] = arg]]
          /\ chosen' = [chosen EXCEPT ![own] = [chosen[own] EXCEPT ![partner] = arg]]
          /\ raced' = IF targets[own] = req[h].seen.own /\ partner \in Partners(own)
                      THEN raced ELSE raced \cup {own}
      BY <2>3, <1>t DEF WritesVariant
    <3>2. b \in live /\ b \in Builds /\ b \notin raced /\ targets[b] \in TargetMaps
      BY <2>2, <3>1, <1>t
    <3>3. targets[b] = chosen[b] /\ \A p \in live : targets[b][p] # 0 => <<b, p>> \in links
      BY <1>0, <3>2
    <3> HIDE DEF own, partner, arg
    <3>4. CASE b # own
      <4>1. targets'[b] = targets[b] /\ chosen'[b] = chosen[b]
        BY <3>1, <3>2, <3>4, <1>t
      <4> QED
        BY <2>2, <3>3, <4>1
    <3>5. CASE b = own
      <4>1. targets[b] = req[h].seen.own /\ <<b, partner>> \in links
        BY <3>1, <3>5 DEF Partners
      <4>2. /\ targets'[b] = [targets[b] EXCEPT ![partner] = arg]
            /\ chosen'[b] = [chosen[b] EXCEPT ![partner] = arg]
        BY <3>1, <3>2, <3>5, <4>1, <1>t
      <4>3. ASSUME NEW p \in live', targets'[b][p] # 0
            PROVE  <<b, p>> \in links'
        <5>1. CASE p = partner
          BY <2>2, <4>1, <5>1
        <5>2. CASE p # partner
          <6>1. targets[b][p] # 0 /\ p \in live
            BY <2>2, <3>2, <4>2, <4>3, <5>2, <1>t DEF TargetMaps
          <6> QED
            BY <2>2, <3>3, <6>1
        <5> QED
          BY <5>1, <5>2
      <4> QED
        BY <3>3, <4>2, <4>3
    <3> QED
      BY <3>4, <3>5
  <2> QED
    BY <2>1, <2>3, <1>1, ColumnWrite
<1>4. CASE \E d \in Builds : deleteBuild(d)
  <2>1. PICK d \in Builds : deleteBuild(d)
    BY <1>4
  <2>2. /\ live' = live \ {d} /\ links' = {l \in links : l[1] # d /\ l[2] # d}
        /\ UNCHANGED <<targets, chosen, raced>>
    BY <2>1 DEF deleteBuild, columnVars
  <2>3. \A p \in live' : <<b, p>> \in links => <<b, p>> \in links'
    BY <2>2
  <2> QED
    BY <1>0, <2>2, <2>3
<1>5. CASE \E h \in Handlers : writePatch(h)
  BY <1>1, <1>5, PatchWrite DEF strip
<1>6. CASE \E h \in Handlers : deleteOrgRow(h)
  BY <1>1, <1>6, OrgRowDelete DEF strip
<1>7. CASE \E d \in Builds : pruneRevisions(d)
  BY <1>1, <1>7 DEF pruneRevisions, partnerVars, strip
<1>8. CASE UNCHANGED <<strip, pages>>
  BY <1>1, <1>8 DEF strip
<1> QED
  BY <1>2, <1>3, <1>4, <1>5, <1>6, <1>7, <1>8, QuietSteps DEF Step

-----------------------------------------------------------------------------
(* Hidden authors                                                           *)

LEMMA FlagsStep ==
  ASSUME TypeInv, FlagsAreForTheirOrg, Step
  PROVE  FlagsAreForTheirOrg'
<1>0. \A b \in live \ overtaken : hideAuthor[b] => org[b] # None /\ flagFor[b] = org[b]
  BY DEF FlagsAreForTheirOrg
<1>t. /\ live \subseteq Builds /\ org \in [Builds -> Orgs \cup {None}]
      /\ hideAuthor \in [Builds -> BOOLEAN] /\ flagFor \in [Builds -> Orgs \cup {None}]
  BY DEF TypeInv, TablesInv
<1>1. CASE live' \subseteq live /\ UNCHANGED <<org, hideAuthor, flagFor, overtaken>>
  BY <1>0, <1>1 DEF FlagsAreForTheirOrg
<1>2. CASE \E h \in Handlers : writePatch(h)
  <2>1. PICK h \in Handlers : writePatch(h)
    BY <1>2
  <2> DEFINE r == req[h]
             a == r.own
  <2>2. /\ r \in PatchRequest /\ WellDecided(r) /\ live' = live
    BY <2>1, PatchWrite DEF strip
  <2>3. CASE UNCHANGED pages
    BY <1>1, <2>2, <2>3 DEF pages
  <2>4. CASE \E to : Saves(h, to)
    <3>1. PICK to : Saves(h, to)
      BY <2>4
    <3>2. /\ a \in Builds /\ r.arg.org \in Orgs \cup {None, Same}
          /\ r.arg.hide \in BOOLEAN \cup {Same} /\ r.seen.org \in Orgs \cup {None}
      BY <2>2 DEF PatchRequest, Patch
    <3>3. /\ r.arg.org # Same => r.arg.hide # Same
          /\ r.arg.hide = TRUE /\ r.arg.org = Same => r.seen.org # None
          /\ r.arg.hide = TRUE => r.arg.org # None
      BY <2>2 DEF WellDecided
    <3>4. CASE r.arg.hide = Same
      <4>1. UNCHANGED <<org, hideAuthor, flagFor, overtaken>>
        BY <3>1, <3>3, <3>4 DEF Saves
      <4> QED
        BY <4>1, <2>2, <1>1
    <3>5. CASE r.arg.hide # Same
      <4> SUFFICES ASSUME NEW b \in live' \ overtaken', hideAuthor'[b]
                   PROVE  org'[b] # None /\ flagFor'[b] = org'[b]
        BY DEF FlagsAreForTheirOrg
      <4>1. /\ hideAuthor' = [hideAuthor EXCEPT ![a] = r.arg.hide]
            /\ flagFor' = [flagFor EXCEPT ![a] = IF r.arg.org # Same THEN r.arg.org
                                                 ELSE r.seen.org]
            /\ overtaken' = IF ~(r.arg.org # Same) /\ r.seen.org # org[a]
                            THEN overtaken \cup {a} ELSE overtaken \ {a}
            /\ org' = IF r.arg.org # Same THEN [org EXCEPT ![a] = r.arg.org] ELSE org
        BY <3>1, <3>5 DEF Saves
      <4>2. b \in live /\ b \in Builds
        BY <2>2, <1>t
      <4> HIDE DEF a, r
      <4>3. CASE b # a
        <5>1. hideAuthor'[b] = hideAuthor[b] /\ flagFor'[b] = flagFor[b] /\ org'[b] = org[b]
          BY <3>2, <4>1, <4>2, <4>3, <1>t
        <5>2. b \notin overtaken
          BY <4>1, <4>3
        <5> QED
          BY <1>0, <4>2, <5>1, <5>2
      <4>4. CASE b = a
        <5>1. r.arg.hide = TRUE
          BY <3>2, <3>5, <4>1, <4>2, <4>4, <1>t
        <5>2. CASE r.arg.org # Same
          <6>1. org'[b] = r.arg.org /\ flagFor'[b] = r.arg.org
            BY <3>2, <4>1, <4>2, <4>4, <5>2, <1>t
          <6> QED
            BY <6>1, <3>3, <5>1
        <5>3. CASE r.arg.org = Same
          <6>1. org'[b] = org[b] /\ flagFor'[b] = r.seen.org
            BY <3>2, <4>1, <4>2, <4>4, <5>3, <1>t
          <6>2. r.seen.org = org[b]
            BY <4>1, <4>4, <5>3
          <6> QED
            BY <6>1, <6>2, <3>3, <5>1, <5>3
        <5> QED
          BY <5>2, <5>3
      <4> QED
        BY <4>3, <4>4
    <3> QED
      BY <3>4, <3>5
  <2> QED
    BY <2>1, <2>3, <2>4, PatchWrite
<1>3. CASE \E h \in Handlers : deleteOrgRow(h)
  <2>1. PICK h \in Handlers : deleteOrgRow(h)
    BY <1>3
  <2>2. live' = live
    BY <2>1, OrgRowDelete DEF strip
  <2>3. CASE UNCHANGED pages
    BY <1>1, <2>2, <2>3 DEF pages
  <2>4. CASE \E o, found : Detaches(o, found)
    <3>1. PICK o, found : Detaches(o, found)
      BY <2>4
    <3> SUFFICES ASSUME NEW b \in live' \ overtaken', hideAuthor'[b]
                 PROVE  org'[b] # None /\ flagFor'[b] = org'[b]
      BY DEF FlagsAreForTheirOrg
    <3>2. b \in live /\ b \in Builds
      BY <2>2, <1>t
    <3>3. b \notin found /\ hideAuthor[b]
      BY <3>1, <3>2 DEF Detaches, flagsWithoutOrg
    <3>4. b \notin overtaken /\ org[b] # o
      BY <3>1, <3>2, <3>3 DEF Detaches
    <3>5. org'[b] = org[b] /\ flagFor'[b] = flagFor[b]
      BY <3>1, <3>2, <3>4 DEF Detaches
    <3> QED
      BY <1>0, <3>2, <3>3, <3>4, <3>5
  <2> QED
    BY <2>1, <2>3, <2>4, OrgRowDelete
<1>4. CASE \E b \in Builds : deleteBuild(b) /\ UNCHANGED editVars
  BY <1>1, <1>4 DEF deleteBuild, editVars
<1>5. CASE \E h \in Handlers : updatePartner(h) /\ UNCHANGED editVars
  BY <1>1, <1>5, PartnerWrite DEF editVars
<1>6. CASE \E h \in Handlers : writeColumn(h) /\ UNCHANGED editVars
  BY <1>1, <1>6, ColumnWrite DEF editVars
<1>7. CASE \E b \in Builds : pruneRevisions(b)
  BY <1>1, <1>7 DEF pruneRevisions, partnerVars
<1>8. CASE UNCHANGED <<strip, pages>>
  BY <1>1, <1>8 DEF strip, pages
<1> QED
  BY <1>2, <1>3, <1>4, <1>5, <1>6, <1>7, <1>8, QuietSteps DEF Step

-----------------------------------------------------------------------------
(* Moves                                                                    *)

LEMMA MovesStep ==
  ASSUME TypeInv, Step, NEW b \in live, org'[b] # org[b]
  PROVE  \/ org[b] \in orgs \ orgs'
         \/ \E h \in Handlers :
               /\ At(h, {"patch"}, "write")
               /\ req[h].own = b /\ req[h].arg.editor = AuthorOf[b]
               /\ req'[h] = None
<1>t. b \in Builds /\ org \in [Builds -> Orgs \cup {None}]
  BY DEF TypeInv, TablesInv
<1>1. CASE org' = org
  BY <1>1
<1>2. CASE \E h \in Handlers : writePatch(h)
  <2>1. PICK h \in Handlers : writePatch(h)
    BY <1>2
  <2>2. /\ req[h] # None /\ req[h].route = "patch" /\ req[h].pc = "write"
        /\ req[h] \in PatchRequest /\ WellDecided(req[h]) /\ End(h)
    BY <2>1, PatchWrite
  <2>3. CASE UNCHANGED pages
    BY <2>3, <1>1 DEF pages
  <2>4. CASE \E to : Saves(h, to)
    <3>1. /\ req[h].arg.org # Same /\ req[h].own \in Builds
          /\ org' = [org EXCEPT ![req[h].own] = req[h].arg.org]
      BY <2>2, <2>4, <1>1 DEF Saves, PatchRequest
    <3>2. req[h].own = b
      BY <3>1, <1>t
    <3>3. req[h].arg.editor = AuthorOf[b]
      BY <2>2, <3>1, <3>2 DEF WellDecided
    <3>4. req'[h] = None
      BY <2>2 DEF End, TypeInv, RequestsInv
    <3> QED
      BY <2>2, <3>2, <3>3, <3>4 DEF At
  <2> QED
    BY <2>1, <2>3, <2>4, PatchWrite
<1>3. CASE \E h \in Handlers : deleteOrgRow(h)
  <2>1. CASE UNCHANGED pages
    BY <2>1, <1>1 DEF pages
  <2>2. CASE \E o, found : Detaches(o, found)
    <3>1. PICK o, found : Detaches(o, found)
      BY <2>2
    <3>2. org[b] = o /\ o \in orgs \ orgs'
      BY <3>1, <1>t DEF Detaches
    <3> QED
      BY <3>2
  <2> QED
    BY <1>3, <2>1, <2>2, OrgRowDelete
<1>4. CASE \E d \in Builds : deleteBuild(d)
  BY <1>1, <1>4 DEF deleteBuild
<1>5. CASE \E h \in Handlers : updatePartner(h)
  BY <1>1, <1>5, PartnerWrite
<1>6. CASE \E h \in Handlers : writeColumn(h)
  BY <1>1, <1>6, ColumnWrite
<1>7. CASE \E d \in Builds : pruneRevisions(d)
  BY <1>1, <1>7 DEF pruneRevisions, partnerVars
<1>8. CASE UNCHANGED <<strip, pages>>
  BY <1>1, <1>8 DEF pages
<1> QED
  BY <1>2, <1>3, <1>4, <1>5, <1>6, <1>7, <1>8, QuietSteps DEF Step

-----------------------------------------------------------------------------
(* The log                                                                  *)

\* The saves s of a build, as they committed: the last left the content c, and one
\* that had read another is not dated before it.
InOrder(s, c, now) ==
    /\ s[Len(s)].to = c
    /\ \A k \in 1 .. Len(s) : s[k].n = k /\ s[k].read < k /\ s[k].at <= now
    /\ \A i, j \in 1 .. Len(s) : i <= s[j].read => s[i].at <= s[j].at
    /\ \A k \in 2 .. Len(s) : s[k].read = k - 1 => s[k].from = s[k - 1].to

\* Rows that account for the saves s: what is gone is no newer than what is kept, or
\* was overtaken by it.
Keeps(rows, s) ==
    /\ IsFiniteSet(rows)
    /\ rows \subseteq Range(s)
    /\ Len(s) <= Cardinality(rows) \/ MAX_STORED_REVISIONS <= Cardinality(rows)
    /\ \A gone \in Range(s) \ rows, kept \in rows :
          gone.at <= kept.at \/ (gone.n < kept.n /\ ~Precedes(gone, kept))

\* What a PATCH read is no newer than the saves, and if it is the newest, it is what
\* the row holds; the saves it read were dated before.
Read(r) ==
    /\ r.seen.save <= Len(saved[r.own])
    /\ r.seen.save = Len(saved[r.own]) => r.seen.content = content[r.own]
    /\ r.seen.at <= clock
    /\ \A k \in 1 .. r.seen.save : saved[r.own][k].at <= r.seen.at

ReadsInv ==
    \A h \in Handlers : req[h] # None /\ req[h].route = "patch" => Read(req[h])

LogInv ==
    /\ \A b \in Builds : InOrder(saved[b], content[b], clock) /\ Keeps(log[b], saved[b])
    /\ ReadsInv

LEMMA InOrderLater ==
  ASSUME NEW s \in Seq(Revision), NEW c, NEW now \in Nat, NEW later \in Nat, now <= later,
         InOrder(s, c, now)
  PROVE  InOrder(s, c, later)
<1>1. ASSUME NEW k \in 1 .. Len(s)
      PROVE  s[k].at <= later
  <2>0. s[k] \in Revision
    BY ElementOfSeq
  <2>1. s[k].at \in Nat
    BY <2>0 DEF Revision
  <2>2. s[k].at <= now
    BY DEF InOrder
  <2> QED
    BY <2>1, <2>2
<1> QED
  BY <1>1 DEF InOrder

LEMMA InOrderAfterSave ==
  ASSUME TypeInv, NEW h \in Handlers, req[h] \in PatchRequest, Read(req[h]),
         NEW to \in Nat, NEW at \in Nat, req[h].seen.at <= at, at <= clock,
         InOrder(saved[req[h].own], content[req[h].own], clock)
  PROVE  InOrder(Append(saved[req[h].own], Edited(h, req[h].own, to, at)), to, clock)
<1> DEFINE b == req[h].own
           s == saved[b]
           e == Edited(h, b, to, at)
           t == Append(s, e)
           N == Len(s)
           seen == req[h].seen
<1>1. b \in Builds /\ seen.save \in Nat /\ seen.at \in Nat /\ clock \in Nat
  BY DEF PatchRequest, TypeInv, TablesInv
<1>2. s \in Seq(Revision) /\ N \in Nat \ {0} /\ \A k \in 1 .. N : s[k] \in Revision
  BY <1>1, SavedRevisions
<1>3. /\ e \in Revision /\ e.n = N + 1 /\ e.to = to /\ e.at = at
      /\ e.from = seen.content /\ e.read = seen.save
      /\ Len(t) = N + 1 /\ t[N + 1] = e /\ \A k \in 1 .. N : t[k] = s[k]
  BY AddedRevision
<1>4. /\ s[N].to = content[b]
      /\ \A k \in 1 .. N : s[k].n = k /\ s[k].read < k /\ s[k].at <= clock
      /\ \A i, j \in 1 .. N : i <= s[j].read => s[i].at <= s[j].at
      /\ \A k \in 2 .. N : s[k].read = k - 1 => s[k].from = s[k - 1].to
  BY DEF InOrder
<1>5. /\ seen.save <= N /\ (seen.save = N => seen.content = content[b])
      /\ \A k \in 1 .. seen.save : s[k].at <= seen.at
  BY DEF Read
<1>6. \A k \in 1 .. N : s[k].at \in Nat /\ s[k].read \in Nat
  BY <1>2 DEF Revision
<1>7. seen.at <= at /\ at <= clock /\ at \in Nat
  OBVIOUS
<1> HIDE DEF N, s, e, t, seen, b
<1>8. t[Len(t)].to = to
  BY <1>3
<1>9. ASSUME NEW k \in 1 .. Len(t)
      PROVE  t[k].n = k /\ t[k].read < k /\ t[k].at <= clock
  <2>1. CASE k = N + 1
    BY <1>1, <1>2, <1>3, <1>5, <1>7, <2>1
  <2>2. CASE k # N + 1
    <3>1. k \in 1 .. N
      BY <1>2, <1>3, <2>2
    <3> QED
      BY <3>1, <1>3, <1>4
  <2> QED
    BY <2>1, <2>2
<1>10. ASSUME NEW i \in 1 .. Len(t), NEW j \in 1 .. Len(t), i <= t[j].read
       PROVE  t[i].at <= t[j].at
  <2>1. CASE j = N + 1
    <3>1. i <= seen.save /\ i \in 1 .. seen.save /\ i \in 1 .. N
      BY <1>1, <1>2, <1>3, <1>5, <1>10, <2>1
    <3>2. t[i].at = s[i].at /\ s[i].at <= seen.at /\ s[i].at \in Nat /\ t[j].at = at
      BY <3>1, <1>3, <1>5, <1>6, <2>1
    <3>3. s[i].at <= at
      BY <3>2, <1>1, <1>7
    <3> QED
      BY <3>2, <3>3
  <2>2. CASE j # N + 1
    <3>1. j \in 1 .. N
      BY <1>2, <1>3, <2>2
    <3>2. t[j] = s[j] /\ s[j].read < j /\ s[j].read \in Nat
      BY <3>1, <1>3, <1>4, <1>6
    <3>3. i \in 1 .. N
      BY <1>2, <1>3, <1>10, <3>1, <3>2
    <3> QED
      BY <3>1, <3>2, <3>3, <1>3, <1>4, <1>10
  <2> QED
    BY <2>1, <2>2
<1>11. ASSUME NEW k \in 2 .. Len(t), t[k].read = k - 1
       PROVE  t[k].from = t[k - 1].to
  <2>1. CASE k = N + 1
    <3>1. k - 1 = N /\ N \in 1 .. N
      BY <1>2, <2>1
    <3>2. t[k] = e /\ t[k - 1] = s[N]
      BY <3>1, <1>3, <2>1
    <3> QED
      BY <3>1, <3>2, <1>3, <1>4, <1>5, <1>11
  <2>2. CASE k # N + 1
    <3>1. k \in 2 .. N /\ k \in 1 .. N /\ k - 1 \in 1 .. N
      BY <1>2, <1>3, <2>2
    <3> QED
      BY <3>1, <1>3, <1>4, <1>11
  <2> QED
    BY <2>1, <2>2
<1>12. InOrder(t, to, clock)
  BY <1>8, <1>9, <1>10, <1>11 DEF InOrder
<1> QED
  BY <1>12 DEF t, s, e, b

LEMMA KeepsAfterSave ==
  ASSUME NEW s \in Seq(Revision), NEW e \in Revision, NEW c, NEW now, NEW rows,
         Keeps(rows, s), InOrder(s, c, now), InOrder(Append(s, e), e.to, now),
         e.n = Len(s) + 1
  PROVE  Keeps(rows \cup {e}, Append(s, e))
<1> DEFINE t == Append(s, e)
           N == Len(s)
<1>1. /\ N \in Nat /\ Len(t) = N + 1 /\ t[N + 1] = e /\ \A k \in 1 .. N : t[k] = s[k]
      /\ DOMAIN s = 1 .. N /\ DOMAIN t = 1 .. N + 1
  OBVIOUS
<1>2. /\ IsFiniteSet(rows) /\ rows \subseteq Range(s)
      /\ N <= Cardinality(rows) \/ MAX_STORED_REVISIONS <= Cardinality(rows)
      /\ \A gone \in Range(s) \ rows, kept \in rows :
            gone.at <= kept.at \/ (gone.n < kept.n /\ ~Precedes(gone, kept))
  BY DEF Keeps
<1>3. /\ \A k \in 1 .. N : s[k].n = k
      /\ \A i, j \in 1 .. Len(t) : i <= t[j].read => t[i].at <= t[j].at
  BY DEF InOrder
<1> HIDE DEF t, N
<1>4. Range(t) = Range(s) \cup {e}
  <2>1. \A k \in 1 .. N + 1 : k = N + 1 \/ k \in 1 .. N
    BY <1>1
  <2>2. 1 .. N \subseteq 1 .. N + 1 /\ N + 1 \in 1 .. N + 1
    BY <1>1
  <2> QED
    BY <1>1, <2>1, <2>2 DEF Range
<1>5. e \notin Range(s)
  <2>1. \A k \in 1 .. N : s[k] # e
    BY <1>1, <1>3 DEF N
  <2> QED
    BY <2>1, <1>1 DEF Range
<1>6. IsFiniteSet(rows \cup {e}) /\ Cardinality(rows \cup {e}) = Cardinality(rows) + 1
      /\ Cardinality(rows) \in Nat
  BY <1>2, <1>5, FS_AddElement, FS_CardinalityType
<1>7. \/ Len(t) <= Cardinality(rows \cup {e})
      \/ MAX_STORED_REVISIONS <= Cardinality(rows \cup {e})
  BY <1>1, <1>2, <1>6, EditsAssumption
<1>8. ASSUME NEW gone \in Range(t) \ (rows \cup {e}), NEW kept \in rows \cup {e}
      PROVE  gone.at <= kept.at \/ (gone.n < kept.n /\ ~Precedes(gone, kept))
  <2>1. gone \in Range(s) \ rows
    BY <1>4, <1>8
  <2>2. CASE kept \in rows
    BY <1>2, <2>1, <2>2
  <2>3. CASE kept = e
    <3>1. PICK k \in 1 .. N : gone = s[k]
      BY <2>1, <1>1 DEF Range
    <3>2. gone.n = k /\ gone = t[k] /\ k \in 1 .. Len(t) /\ N + 1 \in 1 .. Len(t)
      BY <3>1, <1>1, <1>3
    <3>3. gone.n < kept.n
      BY <2>3, <3>1, <3>2, <1>1 DEF N
    <3>4. Precedes(gone, kept) => gone.at <= kept.at
      BY <2>3, <3>2, <1>1, <1>3 DEF Precedes
    <3> QED
      BY <3>3, <3>4
  <2> QED
    BY <2>2, <2>3
<1>9. Keeps(rows \cup {e}, t)
  BY <1>2, <1>4, <1>6, <1>7, <1>8 DEF Keeps
<1> QED
  BY <1>9 DEF t

LEMMA KeepsAfterPrune ==
  ASSUME NEW s \in Seq(Revision), NEW rows, Keeps(rows, s),
         NEW newest \in Newest(rows, MAX_STORED_REVISIONS)
  PROVE  Keeps(newest, s)
<1>1. /\ IsFiniteSet(rows) /\ rows \subseteq Range(s)
      /\ Len(s) <= Cardinality(rows) \/ MAX_STORED_REVISIONS <= Cardinality(rows)
      /\ \A gone \in Range(s) \ rows, kept \in rows :
            gone.at <= kept.at \/ (gone.n < kept.n /\ ~Precedes(gone, kept))
  BY DEF Keeps
<1>2. /\ newest \subseteq rows /\ IsFiniteSet(newest)
      /\ newest = rows \/ Cardinality(newest) = MAX_STORED_REVISIONS
      /\ \A gone \in rows \ newest, kept \in newest : gone.at <= kept.at
  BY <1>1, NewestRows, EditsAssumption
<1>3. Len(s) <= Cardinality(newest) \/ MAX_STORED_REVISIONS <= Cardinality(newest)
  BY <1>1, <1>2, EditsAssumption
<1>4. ASSUME NEW gone \in Range(s) \ newest, NEW kept \in newest
      PROVE  gone.at <= kept.at \/ (gone.n < kept.n /\ ~Precedes(gone, kept))
  BY <1>1, <1>2
<1> QED
  BY <1>1, <1>2, <1>3, <1>4 DEF Keeps

\* How the saves of a build change: not at all, or by one more.
LogChange(b) ==
    \/ saved'[b] = saved[b] /\ content'[b] = content[b]
    \/ /\ Len(saved'[b]) = Len(saved[b]) + 1
       /\ \A k \in 1 .. Len(saved[b]) : saved'[b][k] = saved[b][k]

LEMMA ReadsStep ==
  ASSUME TypeInv, LogInv, Step, \A b \in Builds : LogChange(b),
         clock' \in Nat, clock <= clock'
  PROVE  ReadsInv'
<1>0. \A h \in Handlers : req[h] # None /\ req[h].route = "patch" => Read(req[h])
  BY DEF LogInv, ReadsInv
<1>t. DOMAIN req = Handlers /\ \A h \in Handlers : req[h] = None \/ IsRequest(req[h])
  BY DEF TypeInv, RequestsInv
<1>1. ASSUME NEW h \in Handlers, req'[h] = req[h], req[h] # None, req[h].route = "patch"
      PROVE  Read(req[h])'
  <2>1. req[h] \in PatchRequest
    BY <1>1, RequestFields DEF TypeInv
  <2>2. req[h].own \in Builds /\ req[h].seen.save \in Nat /\ req[h].seen.at \in Nat
        /\ clock \in Nat
    BY <2>1 DEF PatchRequest, TypeInv, TablesInv
  <2>3. Len(saved[req[h].own]) \in Nat
    BY <2>2, SavedRevisions
  <2>4. Read(req[h]) /\ LogChange(req[h].own)
    BY <1>0, <1>1, <2>2
  <2> DEFINE r == req[h]
             b == req[h].own
  <2>5. /\ r.seen.save <= Len(saved[b])
        /\ r.seen.save = Len(saved[b]) => r.seen.content = content[b]
        /\ r.seen.at <= clock
        /\ \A k \in 1 .. r.seen.save : saved[b][k].at <= r.seen.at
    BY <2>4 DEF Read
  <2>6. /\ r.seen.save <= Len(saved'[b])
        /\ r.seen.save = Len(saved'[b]) => r.seen.content = content'[b]
        /\ \A k \in 1 .. r.seen.save : saved'[b][k].at <= r.seen.at
    <3>1. CASE saved'[b] = saved[b] /\ content'[b] = content[b]
      BY <3>1, <2>5
    <3>2. CASE /\ Len(saved'[b]) = Len(saved[b]) + 1
               /\ \A k \in 1 .. Len(saved[b]) : saved'[b][k] = saved[b][k]
      <4>1. r.seen.save < Len(saved'[b])
        BY <2>2, <2>3, <2>5, <3>2
      <4>2. r.seen.save <= Len(saved'[b]) /\ r.seen.save # Len(saved'[b])
        <5>1. Len(saved'[b]) \in Nat
          BY <2>3, <3>2
        <5> DEFINE n == Len(saved'[b])
                   m == r.seen.save
        <5>2. n \in Nat /\ m \in Nat /\ m < n
          BY <2>2, <4>1, <5>1
        <5> HIDE DEF n, m
        <5>3. m <= n /\ m # n
          BY <5>2
        <5> QED
          BY <5>3 DEF n, m
      <4>3. ASSUME NEW k \in 1 .. r.seen.save
            PROVE  saved'[b][k].at <= r.seen.at
        <5>1. k \in 1 .. Len(saved[b])
          BY <2>2, <2>3, <2>5
        <5>2. saved'[b][k] = saved[b][k] /\ saved[b][k].at <= r.seen.at
          BY <2>5, <3>2, <5>1
        <5> QED
          BY <5>2
      <4> QED
        BY <4>2, <4>3
    <3> QED
      BY <2>4, <3>1, <3>2 DEF LogChange
  <2>7. r.seen.at <= clock'
    BY <2>2, <2>5
  <2> QED
    BY <1>1, <2>6, <2>7 DEF Read
<1>2. ASSUME \A h \in Handlers : \/ req'[h] = None \/ req'[h] = req[h]
                                 \/ req'[h].route # "patch"
      PROVE  ReadsInv'
  BY <1>1, <1>2 DEF ReadsInv
<1>3. ASSUME NEW g \in Handlers, End(g)
      PROVE  \A h \in Handlers : req'[h] = None \/ req'[h] = req[h]
  BY <1>3, <1>t DEF End
<1>4. ASSUME NEW g \in Handlers, NEW pc, Advance(g, pc), req[g] # None,
             req[g].route \in {"link", "unlink", "deleteOrg"}
      PROVE  \A h \in Handlers : req'[h] = req[h] \/ req'[h].route # "patch"
  <2>1. \A h \in Handlers : h # g => req'[h] = req[h]
    BY <1>4, <1>t DEF Advance
  <2>2. req'[g] = [req[g] EXCEPT !.pc = pc]
    BY <1>4, <1>t DEF Advance
  <2>3. \/ req[g] \in LinkRequest \/ req[g] \in UnlinkRequest \/ req[g] \in DeleteOrgRequest
    BY <1>4, RequestFields DEF TypeInv
  <2>4. req'[g].route # "patch"
    BY <2>2, <2>3 DEF LinkRequest, UnlinkRequest, DeleteOrgRequest
  <2> QED
    BY <2>1, <2>4
<1>5. CASE \E h \in Handlers : \E r : Arrives(h, r) /\ UNCHANGED editVars
  <2>1. PICK g \in Handlers : \E r0 : Arrives(g, r0) /\ UNCHANGED editVars
    BY <1>5
  <2>0. PICK r : Arrives(g, r) /\ UNCHANGED editVars
    BY <2>1
  <2>2. /\ req' = [req EXCEPT ![g] = r] /\ IsRequest(r) /\ IsFresh(r)
        /\ saved' = saved /\ content' = content /\ clock' = clock
    BY <2>0 DEF Arrives, Start, editVars
  <2>3. \A h \in Handlers : h # g => req'[h] = req[h]
    BY <2>2, <1>t
  <2>4. ASSUME r.route = "patch"
        PROVE  Read(r)'
    <3>1. r \in PatchRequest
      BY <2>2, <2>4 DEF IsRequest, LinkRequest, UnlinkRequest, VariantRequest,
                        IsOrderRequest, Request, DeleteOrgRequest
    <3>2. r.own \in Builds /\ clock \in Nat
      BY <3>1 DEF PatchRequest, TypeInv, TablesInv
    <3>3. Len(saved[r.own]) \in Nat
      BY <3>2, SavedRevisions
    <3>4. \A k \in 1 .. Len(saved[r.own]) : saved[r.own][k].at <= clock
      BY <3>2 DEF LogInv, InOrder
    <3> QED
      BY <2>2, <2>4, <3>2, <3>3, <3>4 DEF Read, IsFresh
  <2>5. req'[g] = r
    BY <2>2, <1>t
  <2>6. ASSUME NEW h \in Handlers, req'[h] # None, req'[h].route = "patch"
        PROVE  Read(req[h])'
    <3>1. CASE h = g
      <4>1. Read(r)'
        BY <2>4, <2>5, <2>6, <3>1
      <4> QED
        BY <4>1, <2>5, <3>1 DEF Read
    <3>2. CASE h # g
      BY <1>1, <2>3, <2>6, <3>2
    <3> QED
      BY <3>1, <3>2
  <2> QED
    BY <2>6 DEF ReadsInv
<1>6. CASE \E h \in Handlers : countLink(h) \/ updateOwn(h) \/ detachBuilds(h)
  <2>1. PICK g \in Handlers : countLink(g) \/ updateOwn(g) \/ detachBuilds(g)
    BY <1>6
  <2>2. req[g] # None /\ req[g].route \in {"link", "unlink", "deleteOrg"}
        /\ (End(g) \/ \E pc : Advance(g, pc))
    BY <2>1 DEF countLink, updateOwn, detachBuilds, At
  <2> QED
    BY <2>2, <1>2, <1>3, <1>4
<1>7. CASE \E h \in Handlers : updatePartner(h) \/ deadlockDetected(h) \/ writeColumn(h)
                               \/ writePatch(h) \/ deleteOrgRow(h)
  <2>1. \E h \in Handlers : End(h)
    BY <1>7 DEF updatePartner, deadlockDetected, writeColumn, writePatch, deleteOrgRow
  <2> QED
    BY <2>1, <1>2, <1>3
<1>8. CASE \/ \E b \in Builds : deleteBuild(b)
           \/ \E b \in Builds : pruneRevisions(b)
           \/ \E u \in Users, o \in Orgs : leaveOrg(u, o)
           \/ tick
  <2>1. req' = req
    BY <1>8 DEF deleteBuild, pruneRevisions, leaveOrg, tick, partnerVars
  <2> QED
    BY <2>1, <1>2
<1> QED
  BY <1>5, <1>6, <1>7, <1>8 DEF Step

LEMMA LogStep ==
  ASSUME TypeInv, LogInv, Step
  PROVE  LogInv'
<1>t. TablesInv /\ RequestsInv
  BY DEF TypeInv
<1>0. /\ \A b \in Builds : InOrder(saved[b], content[b], clock) /\ Keeps(log[b], saved[b])
      /\ \A h \in Handlers : req[h] # None /\ req[h].route = "patch" => Read(req[h])
  BY DEF LogInv, ReadsInv
<1>s. clock \in Nat /\ \A b \in Builds : saved[b] \in Seq(Revision)
  BY <1>t DEF TablesInv
<1>1. CASE UNCHANGED <<log, saved, content>> /\ clock' \in Nat /\ clock <= clock'
  <2>1. ASSUME NEW b \in Builds
        PROVE  InOrder(saved'[b], content'[b], clock') /\ Keeps(log'[b], saved'[b])
    <3>1. InOrder(saved[b], content[b], clock')
      BY <1>0, <1>1, <1>s, InOrderLater
    <3> QED
      BY <1>0, <1>1, <3>1
  <2>2. \A b \in Builds : LogChange(b)
    BY <1>1 DEF LogChange
  <2> QED
    BY <1>1, <2>1, <2>2, ReadsStep DEF LogInv, InOrder, Keeps
<1>2. CASE \E h \in Handlers : writePatch(h)
  <2>1. PICK h \in Handlers : writePatch(h)
    BY <1>2
  <2>2. req[h] # None /\ req[h].route = "patch" /\ req[h] \in PatchRequest
        /\ clock' = clock
    BY <2>1, PatchWrite
  <2>3. CASE UNCHANGED pages
    BY <1>1, <1>s, <2>2, <2>3 DEF pages
  <2>4. CASE \E to : Saves(h, to)
    <3>1. PICK to : Saves(h, to)
      BY <2>4
    <3>2. PICK at : SavesAt(h, to, at)
      BY <2>2, <3>1, SaveHasATime
    <3> DEFINE b == req[h].own
               e == Edited(h, b, to, at)
               s == saved[b]
               t == Append(s, e)
    <3>3. b \in Builds /\ to \in Nat /\ at \in Nat /\ req[h].seen.at <= at /\ at <= clock
      BY <2>2, <3>1, <3>2 DEF PatchRequest, Saves, SavesAt
    <3>4. /\ log' = [log EXCEPT ![b] = log[b] \cup {e}]
          /\ saved' = [saved EXCEPT ![b] = t]
          /\ content' = [content EXCEPT ![b] = to]
      BY <3>1, <3>2 DEF Saves, SavesAt
    <3>5. /\ e \in Revision /\ e.n = Len(s) + 1 /\ e.to = to
          /\ Len(t) = Len(s) + 1 /\ \A k \in 1 .. Len(s) : t[k] = s[k]
      BY <2>2, <3>3, AddedRevision
    <3>6. InOrder(t, to, clock)
      BY <1>0, <2>2, <3>3, InOrderAfterSave
    <3>7. Keeps(log[b] \cup {e}, t)
      <4>1. s \in Seq(Revision) /\ Keeps(log[b], s) /\ InOrder(s, content[b], clock)
        BY <1>0, <1>s, <3>3
      <4> HIDE DEF s, e
      <4> QED
        BY <3>5, <3>6, <4>1, KeepsAfterSave
    <3> HIDE DEF b, e, s, t
    <3>8. ASSUME NEW a \in Builds
          PROVE  /\ InOrder(saved'[a], content'[a], clock) /\ Keeps(log'[a], saved'[a])
                 /\ LogChange(a)
      <4>1. CASE a = b
        <5>1. saved'[a] = t /\ content'[a] = to /\ log'[a] = log[b] \cup {e}
          BY <1>t, <3>3, <3>4, <4>1 DEF TablesInv
        <5> QED
          BY <5>1, <3>5, <3>6, <3>7, <4>1 DEF LogChange, s
      <4>2. CASE a # b
        <5>1. saved'[a] = saved[a] /\ content'[a] = content[a] /\ log'[a] = log[a]
          BY <1>t, <3>3, <3>4, <4>2 DEF TablesInv
        <5> QED
          BY <5>1, <1>0 DEF LogChange
      <4> QED
        BY <4>1, <4>2
    <3>9. ReadsInv'
      BY <1>s, <2>2, <3>8, ReadsStep
    <3> QED
      BY <2>2, <3>8, <3>9 DEF LogInv, InOrder, Keeps
  <2> QED
    BY <2>1, <2>3, <2>4, PatchWrite
<1>3. CASE \E b \in Builds : pruneRevisions(b)
  <2>1. PICK b \in Builds : pruneRevisions(b)
    BY <1>3
  <2>2. PICK kept \in Newest(log[b], MAX_STORED_REVISIONS) : log' = [log EXCEPT ![b] = kept]
    BY <2>1 DEF pruneRevisions
  <2>3. saved' = saved /\ content' = content /\ clock' = clock
    BY <2>1 DEF pruneRevisions
  <2>4. Keeps(kept, saved[b])
    BY <1>0, <1>s, KeepsAfterPrune
  <2>5. ASSUME NEW a \in Builds
        PROVE  Keeps(log'[a], saved[a])
    <3>1. CASE a = b
      BY <1>t, <2>2, <2>4, <3>1 DEF TablesInv
    <3>2. CASE a # b
      BY <1>t, <1>0, <2>2, <3>2 DEF TablesInv
    <3> QED
      BY <3>1, <3>2
  <2>6. \A a \in Builds : LogChange(a)
    BY <2>3 DEF LogChange
  <2>7. clock' \in Nat /\ clock <= clock'
    BY <1>s, <2>3
  <2>8. ReadsInv'
    BY <2>6, <2>7, ReadsStep
  <2> QED
    BY <1>0, <2>3, <2>5, <2>8 DEF LogInv, InOrder, Keeps
<1>4. CASE \E h \in Handlers : deleteOrgRow(h)
  BY <1>1, <1>4, <1>s, OrgRowDelete DEF pages, Detaches
<1>5. CASE \E b \in Builds : deleteBuild(b) /\ UNCHANGED editVars
  BY <1>1, <1>5, <1>s DEF editVars
<1>6. CASE \E h \in Handlers : updatePartner(h) /\ UNCHANGED editVars
  BY <1>1, <1>6, <1>s DEF editVars
<1>7. CASE \E h \in Handlers : writeColumn(h) /\ UNCHANGED editVars
  BY <1>1, <1>7, <1>s DEF editVars
<1>8. CASE UNCHANGED <<strip, pages>> /\ clock' \in Nat /\ clock <= clock'
  BY <1>1, <1>8 DEF pages
<1> QED
  BY <1>2, <1>3, <1>4, <1>5, <1>6, <1>7, <1>8, QuietSteps DEF Step

LEMMA LogTells ==
  ASSUME TypeInv, LogInv
  PROVE  LogTellsEverySave
<1> SUFFICES ASSUME NEW b \in live
             PROVE  LET saves == Range(saved[b])
                    IN  /\ Last(saved[b]).to = content[b]
                        /\ log[b] \subseteq saves
                        /\ Cardinality(log[b]) >= Min({MAX_STORED_REVISIONS, Len(saved[b])})
                        /\ \A gone \in saves \ log[b], kept \in log[b] :
                              gone.at <= kept.at \/ (gone.n < kept.n /\ ~Precedes(gone, kept))
                        /\ \A i, j \in saves :
                              /\ Precedes(i, j) => i.at <= j.at
                              /\ Precedes(i, j) /\ j.n = i.n + 1 => j.from = i.to
  BY DEF LogTellsEverySave
<1> DEFINE s == saved[b]
           N == Len(s)
<1>1. b \in Builds
  BY DEF TypeInv, TablesInv
<1>2. /\ N \in Nat \ {0} /\ Last(s) = s[N] /\ DOMAIN s = 1 .. N
      /\ \A k \in 1 .. N : s[k].read \in Nat
  <2>1. /\ s \in Seq(Revision) /\ N \in Nat \ {0} /\ Last(s) = s[N]
        /\ \A k \in 1 .. N : s[k] \in Revision
    BY <1>1, SavedRevisions
  <2>2. DOMAIN s = 1 .. N
    BY <2>1
  <2>3. \A k \in 1 .. N : s[k].read \in Nat
    BY <2>1 DEF Revision
  <2> QED
    BY <2>1, <2>2, <2>3
<1>3. /\ s[N].to = content[b]
      /\ \A k \in 1 .. N : s[k].n = k /\ s[k].read < k /\ s[k].at <= clock
      /\ \A i, j \in 1 .. N : i <= s[j].read => s[i].at <= s[j].at
      /\ \A k \in 2 .. N : s[k].read = k - 1 => s[k].from = s[k - 1].to
  BY <1>1 DEF LogInv, InOrder
<1>4. /\ IsFiniteSet(log[b]) /\ log[b] \subseteq Range(s)
      /\ N <= Cardinality(log[b]) \/ MAX_STORED_REVISIONS <= Cardinality(log[b])
      /\ \A gone \in Range(s) \ log[b], kept \in log[b] :
            gone.at <= kept.at \/ (gone.n < kept.n /\ ~Precedes(gone, kept))
  BY <1>1 DEF LogInv, Keeps
<1> HIDE DEF s, N
<1>5. Cardinality(log[b]) >= Min({MAX_STORED_REVISIONS, N})
  <2>1. Cardinality(log[b]) \in Nat
    BY <1>4, FS_CardinalityType
  <2> QED
    BY <2>1, <1>2, <1>4, LeastOfTwo, EditsAssumption
<1>6. ASSUME NEW i \in Range(s), NEW j \in Range(s), Precedes(i, j)
      PROVE  i.at <= j.at /\ (j.n = i.n + 1 => j.from = i.to)
  <2>1. PICK k \in 1 .. N, l \in 1 .. N : i = s[k] /\ j = s[l]
    BY <1>2 DEF Range
  <2>2. i.n = k /\ j.n = l /\ k <= s[l].read /\ s[l].read < l /\ s[l].read \in Nat
    BY <1>2, <1>3, <1>6, <2>1 DEF Precedes
  <2>3. i.at <= j.at
    BY <1>3, <2>1, <2>2
  <2>4. ASSUME j.n = i.n + 1
        PROVE  j.from = i.to
    <3>1. l = k + 1 /\ l \in 2 .. N /\ l - 1 = k /\ s[l].read = l - 1
      BY <1>2, <2>2, <2>4
    <3> QED
      BY <1>3, <2>1, <3>1
  <2> QED
    BY <2>3, <2>4
<1> QED
  BY <1>2, <1>3, <1>4, <1>5, <1>6 DEF s, N

LEMMA LogsFold ==
  ASSUME TypeInv, LogInv
  PROVE  FoldsCoverEverySave
<1> SUFFICES ASSUME NEW b \in live, NEW rows \in readRevisions(b)
             PROVE  LET entries == foldRevisions(rows)
                    IN  /\ FlattenSeq(entries) = rows
                        /\ \A row \in log[b] \ Range(rows) :
                              Len(rows) = REVISION_READ_LIMIT /\ row.at <= Last(rows).at
                        /\ \A i \in DOMAIN entries : Len(entries[i]) > 1 =>
                              /\ \A r \in Range(entries[i]) :
                                    r.kind = "EDITED" /\ r.editor = entries[i][1].editor
                              /\ entries[i][1].at - Last(entries[i]).at < REVISION_FOLD
                        /\ \A i \in 1 .. Len(entries) - 1 :
                              ~foldable(entries[i][1], entries[i + 1][1])
  BY DEF FoldsCoverEverySave
<1>1. b \in Builds /\ IsFiniteSet(log[b])
  BY DEF TypeInv, TablesInv, LogInv, Keeps
<1>2. PICK S \in Newest(log[b], REVISION_READ_LIMIT) : rows \in SetToSeqs(S)
  BY DEF readRevisions
<1>3. /\ S \subseteq log[b] /\ IsFiniteSet(S)
      /\ S = log[b] \/ Cardinality(S) = REVISION_READ_LIMIT
      /\ \A gone \in log[b] \ S, row \in S : gone.at <= row.at
  BY <1>1, <1>2, NewestRows, EditsAssumption
<1>4. rows \in Seq(S) /\ Range(rows) = S /\ Len(rows) = Cardinality(S)
  BY <1>2, <1>3, ListedOnce
<1>5. ASSUME NEW row \in log[b] \ Range(rows)
      PROVE  Len(rows) = REVISION_READ_LIMIT /\ row.at <= Last(rows).at
  <2>1. Len(rows) = REVISION_READ_LIMIT /\ row \in log[b] \ S
    BY <1>3, <1>4
  <2>2. Last(rows) \in S
    <3>1. Len(rows) \in 1 .. Len(rows)
      BY <2>1, EditsAssumption
    <3>2. rows[Len(rows)] \in S
      BY <1>4, <3>1
    <3> QED
      BY <3>2 DEF Last
  <2> QED
    BY <1>3, <2>1, <2>2
<1>6. S \subseteq Revision
  BY <1>1, <1>3 DEF TypeInv, TablesInv
<1>7. rows \in Seq(Revision)
  BY <1>4, <1>6
<1> QED
  BY <1>5, <1>7, FoldsCover

-----------------------------------------------------------------------------
(* The strip                                                                *)

\* A row is locked between the two updates of a transaction.  The first update
\* of a link's transaction holds its build, which is there until it ends.
LocksInv ==
    /\ locks \in [Builds -> Handlers \cup {None}]
    /\ \A b \in Builds : locks[b] # None =>
          req[locks[b]] # None /\ req[locks[b]].pc = "second"
    /\ \A h \in Handlers :
          req[h] # None /\ req[h].route \in {"link", "unlink"} /\ req[h].pc = "second"
              => locks[req[h].own] = h /\ req[h].own \in live

StripInv ==
    /\ LocksInv
    /\ IsFiniteSet(links) /\ links \subseteq live \X live
    /\ member \in [Orgs -> SUBSET Users]
    /\ order \in [Builds -> Seq(Builds)] /\ \A b \in Builds : IsInjective(order[b])

\* A request that holds no row changes.
LEMMA LocksIdle ==
  ASSUME TypeInv, LocksInv, NEW h \in Handlers, req[h] = None \/ req[h].pc # "second",
         NEW r, req' = [req EXCEPT ![h] = r], r # None => r.pc # "second",
         UNCHANGED <<live, locks>>
  PROVE  LocksInv'
<1>1. \A g \in Handlers : req'[g] = IF g = h THEN r ELSE req[g]
  BY DEF TypeInv, RequestsInv
<1>2. \A b \in Builds : locks[b] # h
  BY PartnerAssumption DEF LocksInv
<1>3. \A b \in Builds : locks[b] # None => locks[b] \in Handlers /\ locks[b] # h
  BY <1>2 DEF LocksInv
<1>4. \A b \in Builds : locks'[b] # None => req'[locks'[b]] # None /\ req'[locks'[b]].pc = "second"
  BY <1>1, <1>3 DEF LocksInv
<1>5. ASSUME NEW g \in Handlers, req'[g] # None, req'[g].route \in {"link", "unlink"},
             req'[g].pc = "second"
      PROVE  locks'[req'[g].own] = g /\ req'[g].own \in live'
  <2>1. g # h /\ req'[g] = req[g]
    BY <1>1, <1>5
  <2>2. QED
    BY <1>5, <2>1 DEF LocksInv
<1>6. QED
  BY <1>4, <1>5 DEF LocksInv

\* A transaction ends and lets its rows go.
LEMMA LocksEnd ==
  ASSUME TypeInv, LocksInv, NEW h \in Handlers, End(h), live' = live
  PROVE  LocksInv'
<1>1. \A g \in Handlers : req'[g] = IF g = h THEN None ELSE req[g]
  BY DEF TypeInv, RequestsInv, End
<1>2. \A b \in Builds : locks'[b] = IF locks[b] = h THEN None ELSE locks[b]
  BY DEF End
<1>3. locks' \in [Builds -> Handlers \cup {None}]
  BY DEF End, LocksInv
<1>4. ASSUME NEW b \in Builds, locks'[b] # None
      PROVE  req'[locks'[b]] # None /\ req'[locks'[b]].pc = "second"
  <2>1. locks'[b] = locks[b] /\ locks[b] # h /\ locks[b] # None /\ locks[b] \in Handlers
    BY <1>2, <1>4 DEF LocksInv
  <2>2. QED
    BY <1>1, <2>1 DEF LocksInv
<1>5. ASSUME NEW g \in Handlers, req'[g] # None, req'[g].route \in {"link", "unlink"},
             req'[g].pc = "second"
      PROVE  locks'[req'[g].own] = g /\ req'[g].own \in live'
  <2>1. g # h /\ req'[g] = req[g]
    BY <1>1, <1>5
  <2>2. locks[req[g].own] = g /\ req[g].own \in live /\ req[g].own \in Builds
    BY <1>5, <2>1 DEF LocksInv, TypeInv, TablesInv
  <2>3. QED
    BY <1>2, <2>1, <2>2
<1>6. QED
  BY <1>3, <1>4, <1>5 DEF LocksInv

\* A transaction goes on to its second statement, with the free rows it took.
LEMMA LocksTaken ==
  ASSUME TypeInv, LocksInv, NEW h \in Handlers, req[h] # None, req[h].pc # "second",
         NEW taken \in SUBSET Builds, \A b \in taken : locks[b] = None,
         req[h].route \in {"link", "unlink", "deleteOrg"},
         req[h].route \in {"link", "unlink"} => req[h].own \in taken \cap live,
         Advance(h, "second"),
         locks' = [b \in Builds |-> IF b \in taken THEN h ELSE locks[b]],
         live' = live
  PROVE  LocksInv'
<1>0. IsRequest(req[h])
  BY DEF TypeInv, RequestsInv
<1>1. /\ \A g \in Handlers : g # h => req'[g] = req[g]
      /\ req'[h] = [req[h] EXCEPT !.pc = "second"]
  BY DEF TypeInv, RequestsInv, Advance
<1>2. /\ req'[h] # None => req'[h].pc = "second"
      /\ req'[h].route = req[h].route /\ req'[h].own = req[h].own /\ req'[h].pc = "second"
  BY <1>0, <1>1 DEF IsRequest, LinkRequest, UnlinkRequest, VariantRequest, IsOrderRequest,
                    Request, PatchRequest, DeleteOrgRequest
<1>3. req'[h] # None
  <2>1. req[h] \in LinkRequest \cup UnlinkRequest \cup DeleteOrgRequest
    BY RequestFields DEF TypeInv
  <2> DEFINE seen == [own : TargetMaps, partner : TargetMaps] \cup {None}
             r == req'[h]
  <2>2. r \in LinkRequest \cup UnlinkRequest \cup DeleteOrgRequest /\ r.pc = "second"
    BY <1>1, <2>1 DEF LinkRequest, UnlinkRequest, DeleteOrgRequest
  <2>3. None \in seen /\ [own : TargetMaps, partner : TargetMaps] \subseteq seen
    OBVIOUS
  <2>4. None \notin [route : {"link", "unlink", "deleteOrg"}, own : Builds \cup {None},
                     partner : Builds \cup {None}, arg : Orgs \cup {None}, seen : seen,
                     pc : {"second"}]
    BY NoneAssumption
  <2> HIDE DEF seen, r
  <2>5. ASSUME r \in LinkRequest PROVE r # None
    BY <2>2, <2>3, <2>4, <2>5 DEF LinkRequest
  <2>6. ASSUME r \in UnlinkRequest PROVE r # None
    BY <2>2, <2>3, <2>4, <2>6 DEF UnlinkRequest
  <2>7. ASSUME r \in DeleteOrgRequest PROVE r # None
    BY <2>2, <2>3, <2>4, <2>7 DEF DeleteOrgRequest
  <2>8. r # None
    BY <2>2, <2>5, <2>6, <2>7
  <2>9. QED
    BY <2>8 DEF r
<1>4. ASSUME NEW b \in Builds, locks'[b] # None
      PROVE  req'[locks'[b]] # None /\ req'[locks'[b]].pc = "second"
  <2>1. CASE b \in taken
    BY <1>2, <1>3, <2>1
  <2>2. CASE b \notin taken
    <3>1. locks'[b] = locks[b] /\ locks[b] \in Handlers /\ req[locks[b]].pc = "second"
          /\ req[locks[b]] # None
      BY <1>4, <2>2 DEF LocksInv
    <3>2. QED
      BY <1>1, <3>1
  <2>3. QED
    BY <2>1, <2>2
<1>5. ASSUME NEW g \in Handlers, req'[g] # None, req'[g].route \in {"link", "unlink"},
             req'[g].pc = "second"
      PROVE  locks'[req'[g].own] = g /\ req'[g].own \in live'
  <2>1. CASE g = h
    BY <1>2, <1>5, <2>1
  <2>2. CASE g # h
    <3>1. /\ req'[g] = req[g] /\ locks[req[g].own] = g /\ req[g].own \in live
          /\ req[g].own \in Builds /\ g # None
      BY <1>1, <1>5, <2>2, PartnerAssumption DEF LocksInv, TypeInv, TablesInv
    <3>2. req[g].own \notin taken
      BY <3>1
    <3>3. QED
      BY <3>1, <3>2
  <2>3. QED
    BY <2>1, <2>2
<1>6. locks' \in [Builds -> Handlers \cup {None}]
  BY DEF LocksInv
<1>7. QED
  BY <1>4, <1>5, <1>6 DEF LocksInv

LEMMA LocksStep ==
  ASSUME TypeInv, LocksInv, Step
  PROVE  LocksInv'
<1>1. ASSUME NEW h \in Handlers, NEW r, Arrives(h, r)
      PROVE  LocksInv'
  BY <1>1, LocksIdle DEF Arrives, Start, IsFresh, rowVars
<1>2. ASSUME NEW h \in Handlers, countLink(h)
      PROVE  LocksInv'
  <2>1. req[h] # None /\ req[h].pc = "count" /\ live' = live
    BY <1>2 DEF countLink, At, rowVars
  <2>2. CASE End(h)
    BY <2>1, <2>2, LocksEnd
  <2>3. CASE Advance(h, "first") /\ UNCHANGED locks
    <3> DEFINE r == [req[h] EXCEPT !.pc = "first"]
    <3>1. req' = [req EXCEPT ![h] = r]
      BY <2>3 DEF Advance
    <3>2. r.pc # "second"
      <4>1. req[h] \in UnlinkRequest
        BY <1>2, RequestFields DEF countLink, At, TypeInv
      <4>2. QED
        BY <4>1 DEF UnlinkRequest
    <3> HIDE DEF r
    <3>3. QED
      BY <2>1, <2>3, <3>1, <3>2, LocksIdle
  <2>4. QED
    BY <1>2, <2>2, <2>3 DEF countLink
<1>3. ASSUME NEW h \in Handlers, updateOwn(h)
      PROVE  LocksInv'
  <2> DEFINE own == req[h].own
  <2>1. /\ req[h] # None /\ req[h].pc = "first" /\ req[h].route \in {"link", "unlink"}
        /\ live' = live /\ locks[own] = None
    BY <1>3 DEF updateOwn, At, rowVars
  <2>2. CASE own \notin live
    BY <1>3, <2>1, <2>2, LocksEnd DEF updateOwn
  <2>3. CASE own \in live
    <3>1. own \in Builds
      BY <2>3 DEF TypeInv, TablesInv
    <3>2. Advance(h, "second") /\ locks' = [locks EXCEPT ![own] = h]
      BY <1>3, <2>3 DEF updateOwn
    <3>3. locks' = [b \in Builds |-> IF b \in {own} THEN h ELSE locks[b]]
      BY <3>2 DEF LocksInv
    <3> DEFINE taken == {own}
    <3>4. /\ taken \in SUBSET Builds /\ \A b \in taken : locks[b] = None
          /\ own \in taken \cap live
          /\ locks' = [b \in Builds |-> IF b \in taken THEN h ELSE locks[b]]
      BY <2>1, <2>3, <3>1, <3>3
    <3> HIDE DEF taken
    <3>5. QED
      BY <2>1, <3>2, <3>4, LocksTaken
  <2>4. QED
    BY <2>2, <2>3
<1>4. ASSUME NEW h \in Handlers, detachBuilds(h)
      PROVE  LocksInv'
  <2> DEFINE found == {b \in live : org[b] = req[h].arg}
  <2>1. /\ req[h] # None /\ req[h].pc = "detach" /\ req[h].route = "deleteOrg"
        /\ live' = live /\ \A b \in found : locks[b] = None
        /\ Advance(h, "second")
        /\ locks' = [b \in Builds |-> IF b \in found THEN h ELSE locks[b]]
    BY <1>4 DEF detachBuilds, At, rowVars
  <2>2. found \in SUBSET Builds
    BY DEF TypeInv, TablesInv
  <2> HIDE DEF found
  <2>3. QED
    BY <2>1, <2>2, LocksTaken
<1>5. ASSUME NEW h \in Handlers,
             \/ updatePartner(h) \/ deadlockDetected(h) \/ writeColumn(h)
             \/ writePatch(h) \/ deleteOrgRow(h)
      PROVE  LocksInv'
  <2>1. End(h) /\ live' = live
    BY <1>5 DEF updatePartner, deadlockDetected, writeColumn, writePatch, deleteOrgRow, rowVars
  <2>2. QED
    BY <2>1, LocksEnd
<1>6. ASSUME NEW b \in Builds, deleteBuild(b)
      PROVE  LocksInv'
  <2>1. locks[b] = None /\ live' = live \ {b} /\ UNCHANGED <<locks, req>>
    BY <1>6 DEF deleteBuild
  <2>2. QED
    BY <2>1, PartnerAssumption DEF LocksInv
<1>7. ASSUME UNCHANGED <<live, locks, req>>
      PROVE  LocksInv'
  BY <1>7 DEF LocksInv
<1>8. CASE \/ \E b \in Builds : pruneRevisions(b)
           \/ \E u \in Users, o \in Orgs : leaveOrg(u, o)
           \/ tick
  BY <1>7, <1>8 DEF pruneRevisions, leaveOrg, tick, partnerVars
<1>9. QED
  BY <1>1, <1>2, <1>3, <1>4, <1>5, <1>6, <1>8 DEF Step

\* A transaction that links two builds holds the one and finds the other there.
LEMMA LinkedAreLive ==
  ASSUME TypeInv, StripInv, Step
  PROVE  IsFiniteSet(links') /\ links' \subseteq live' \X live'
<1>0. IsFiniteSet(links) /\ links \subseteq live \X live /\ LocksInv
  BY DEF StripInv
<1>1. ASSUME links' \subseteq links, live' = live
      PROVE  IsFiniteSet(links') /\ links' \subseteq live' \X live'
  BY <1>0, <1>1, FS_Subset
<1>2. ASSUME NEW h \in Handlers, updatePartner(h)
      PROVE  IsFiniteSet(links') /\ links' \subseteq live' \X live'
  <2> DEFINE own == req[h].own
             partner == req[h].partner
  <2>1. /\ req[h] # None /\ req[h].route \in {"link", "unlink"} /\ req[h].pc = "second"
        /\ live' = live
    BY <1>2 DEF updatePartner, At, rowVars
  <2>2. own \in live
    BY <1>0, <2>1 DEF LocksInv
  <2>3. CASE partner \in live /\ req[h].route = "link"
    <3>1. links' = links \cup {<<own, partner>>, <<partner, own>>}
      BY <1>2, <2>3 DEF updatePartner, connect, Linked
    <3> HIDE DEF own, partner
    <3>2. links' = (links \cup {<<own, partner>>}) \cup {<<partner, own>>}
      BY <3>1
    <3>3. IsFiniteSet(links')
      BY <1>0, <3>2, FS_AddElement
    <3>4. links' \subseteq live \X live
      BY <1>0, <2>2, <2>3, <3>1
    <3>5. QED
      BY <2>1, <3>3, <3>4
  <2>4. CASE ~(partner \in live /\ req[h].route = "link")
    <3>1. links' \subseteq links
      BY <1>2, <2>4 DEF updatePartner, disconnect
    <3>2. QED
      BY <1>1, <2>1, <3>1
  <2>5. QED
    BY <2>3, <2>4
<1>3. ASSUME NEW b \in Builds, deleteBuild(b)
      PROVE  IsFiniteSet(links') /\ links' \subseteq live' \X live'
  <2>1. links' = {l \in links : l[1] # b /\ l[2] # b} /\ live' = live \ {b}
    BY <1>3 DEF deleteBuild
  <2>2. links' \subseteq live' \X live'
    <3>1. ASSUME NEW l \in links'
          PROVE  l \in live' \X live'
      <4>1. l \in live \X live /\ l[1] # b /\ l[2] # b
        BY <1>0, <2>1
      <4>2. l = <<l[1], l[2]>> /\ l[1] \in live' /\ l[2] \in live'
        BY <2>1, <4>1
      <4>3. QED
        BY <4>2
    <3>2. QED
      BY <3>1
  <2>3. links' \subseteq links
    BY <2>1
  <2>4. QED
    BY <1>0, <2>2, <2>3, FS_Subset
<1>4. ASSUME NEW h \in Handlers,
             \/ countLink(h) \/ updateOwn(h) \/ deadlockDetected(h) \/ writeColumn(h)
             \/ writePatch(h) \/ detachBuilds(h) \/ deleteOrgRow(h)
      PROVE  links' = links /\ live' = live
  BY <1>4 DEF countLink, updateOwn, deadlockDetected, writeColumn, writePatch, detachBuilds,
              deleteOrgRow, rowVars
<1>5. ASSUME NEW h \in Handlers, NEW r, Arrives(h, r)
      PROVE  links' = links /\ live' = live
  BY <1>5 DEF Arrives, Start, rowVars
<1>6. CASE \/ \E b \in Builds : pruneRevisions(b)
           \/ \E u \in Users, o \in Orgs : leaveOrg(u, o)
           \/ tick
  <2>1. links' = links /\ live' = live
    BY <1>6 DEF pruneRevisions, leaveOrg, tick, partnerVars
  <2>2. QED
    BY <1>1, <2>1
<1>7. CASE \/ \E h \in Handlers : \E r : Arrives(h, r)
           \/ \E h \in Handlers :
                 \/ countLink(h) \/ updateOwn(h) \/ deadlockDetected(h) \/ writeColumn(h)
                 \/ writePatch(h) \/ detachBuilds(h) \/ deleteOrgRow(h)
  <2>1. links' = links /\ live' = live
    BY <1>4, <1>5, <1>7
  <2>2. QED
    BY <1>1, <2>1
<1>8. QED
  BY <1>2, <1>3, <1>6, <1>7 DEF Step

LEMMA OrdersStep ==
  ASSUME TypeInv, StripInv, Step
  PROVE  /\ member' \in [Orgs -> SUBSET Users]
         /\ order' \in [Builds -> Seq(Builds)] /\ \A b \in Builds : IsInjective(order'[b])
<1>0. /\ member \in [Orgs -> SUBSET Users]
      /\ order \in [Builds -> Seq(Builds)] /\ \A b \in Builds : IsInjective(order[b])
  BY DEF StripInv
<1>1. ASSUME NEW h \in Handlers, writeColumn(h)
      PROVE  /\ member' = member /\ order' \in [Builds -> Seq(Builds)]
             /\ \A b \in Builds : IsInjective(order'[b])
  <2>1. member' = member
    BY <1>1 DEF writeColumn, rowVars
  <2>2. CASE order' = order
    BY <1>0, <2>1, <2>2
  <2>3. CASE req[h].route = "order" /\ order' = [order EXCEPT ![req[h].own] = req[h].arg]
    <3>1. /\ req[h].own \in Builds /\ req[h].arg \in Seq(Builds)
          /\ IsInjective(req[h].arg)
      BY <1>1, <2>3, RequestFields DEF writeColumn, At, TypeInv
    <3> DEFINE own == req[h].own
               arg == req[h].arg
    <3>2. \A b \in Builds : order'[b] = IF b = own THEN arg ELSE order[b]
      BY <1>0, <2>3
    <3>3. order' \in [Builds -> Seq(Builds)]
      BY <1>0, <2>3, <3>1
    <3> HIDE DEF own, arg
    <3>4. \A b \in Builds : IsInjective(order'[b])
      <4>1. IsInjective(arg)
        BY <3>1 DEF arg
      <4>2. ASSUME NEW b \in Builds PROVE IsInjective(order'[b])
        <5>1. order'[b] = arg \/ order'[b] = order[b]
          BY <3>2
        <5>2. IsInjective(order[b])
          BY <1>0
        <5>3. QED
          BY <4>1, <5>1, <5>2
      <4>3. QED
        BY <4>2
    <3>5. QED
      BY <2>1, <3>3, <3>4
  <2>4. QED
    BY <1>1, <2>2, <2>3 DEF writeColumn, columnVars
<1>2. ASSUME NEW h \in Handlers, deleteOrgRow(h)
      PROVE  order' = order /\ member' \in [Orgs -> SUBSET Users]
  <2>1. order' = order
    BY <1>2 DEF deleteOrgRow, columnVars
  <2>2. member' = member \/ member' = [member EXCEPT ![req[h].arg] = {}]
    BY <1>2 DEF deleteOrgRow
  <2>3. QED
    BY <1>0, <2>1, <2>2
<1>3. ASSUME NEW u \in Users, NEW o \in Orgs, leaveOrg(u, o)
      PROVE  order' = order /\ member' \in [Orgs -> SUBSET Users]
  BY <1>0, <1>3 DEF leaveOrg, columnVars
<1>4. ASSUME NEW h \in Handlers,
             \/ countLink(h) \/ updateOwn(h) \/ deadlockDetected(h) \/ updatePartner(h)
             \/ writePatch(h) \/ detachBuilds(h)
      PROVE  order' = order /\ member' = member
  BY <1>4 DEF countLink, updateOwn, deadlockDetected, updatePartner, connect, disconnect,
              writePatch, detachBuilds, rowVars, columnVars
<1>5. ASSUME NEW h \in Handlers, NEW r, Arrives(h, r)
      PROVE  order' = order /\ member' = member
  BY <1>5 DEF Arrives, Start, rowVars, columnVars
<1>6. ASSUME NEW b \in Builds, deleteBuild(b) \/ pruneRevisions(b)
      PROVE  order' = order /\ member' = member
  BY <1>6 DEF deleteBuild, pruneRevisions, columnVars, partnerVars
<1>7. ASSUME tick
      PROVE  order' = order /\ member' = member
  BY <1>7 DEF tick, partnerVars
<1>8. QED
  BY <1>0, <1>1, <1>2, <1>3, <1>4, <1>5, <1>6, <1>7 DEF Step

LEMMA StripStep ==
  ASSUME TypeInv, StripInv, Step
  PROVE  StripInv'
  BY LocksStep, LinkedAreLive, OrdersStep DEF StripInv

LEMMA StripTypes ==
  ASSUME TypeInv, StripInv
  PROVE  PartnerTypeOK
<1>1. /\ live \subseteq Builds /\ org \in [Builds -> Orgs \cup {None}]
      /\ targets \in [Builds -> [Builds -> isVariantIndex]]
  BY DEF TypeInv, TablesInv, TargetMaps
<1>2. /\ member \in [Orgs -> SUBSET Users] /\ links \subseteq live \X live
      /\ \A b \in Builds : order[b] \in Seq(Builds) /\ IsInjective(order[b])
  BY DEF StripInv
<1>3. \A b \in Builds : locks[b] # None =>
          /\ locks[b] \in Handlers
          /\ req[locks[b]] # None /\ req[locks[b]].pc = "second"
  BY DEF StripInv, LocksInv
<1>4. QED
  BY <1>1, <1>2, <1>3 DEF PartnerTypeOK

-----------------------------------------------------------------------------
(* Theorems                                                                 *)

IInv ==
    /\ TypeInv
    /\ MutualInv
    /\ OnlyStaleWritesLoseTargets
    /\ FlagsAreForTheirOrg
    /\ LogInv
    /\ StripInv

LEMMA InitInv ==
  ASSUME Init
  PROVE  IInv
<1>1. TypeInv
  BY InitTypes
<1>2. /\ links = FirstLinks /\ req = [h \in Handlers |-> None] /\ live = Builds
      /\ targets = [b \in Builds |-> NoTargets] /\ chosen = targets
      /\ hideAuthor = [b \in Builds |-> FALSE]
      /\ content = [b \in Builds |-> 0] /\ log = [b \in Builds |-> {Created(b)}]
      /\ saved = [b \in Builds |-> <<Created(b)>>] /\ clock = 0
  BY DEF Init, PartnerInit
<1>3. MutualInv
  BY <1>2, PartnerAssumption DEF MutualInv, LinksAreMutual, Apart
<1>4. OnlyStaleWritesLoseTargets
  BY <1>2 DEF OnlyStaleWritesLoseTargets, NoTargets
<1>5. FlagsAreForTheirOrg
  BY <1>2 DEF FlagsAreForTheirOrg
<1>6. ASSUME NEW b \in Builds
      PROVE  InOrder(saved[b], content[b], clock) /\ Keeps(log[b], saved[b])
  <2> DEFINE first == Created(b)
  <2>1. saved[b] = <<first>> /\ content[b] = 0 /\ log[b] = {first} /\ clock = 0
    BY <1>2
  <2>2. first.n = 1 /\ first.to = 0 /\ first.read = 0 /\ first.at = 0
    BY DEF Created
  <2> HIDE DEF first
  <2>3. Len(saved[b]) = 1 /\ saved[b][1] = first /\ DOMAIN saved[b] = {1}
    BY <2>1
  <2>4. InOrder(saved[b], content[b], clock)
    BY <2>1, <2>2, <2>3 DEF InOrder
  <2>5. IsFiniteSet({first}) /\ Cardinality({first}) = 1
    BY FS_Singleton
  <2>6. Range(saved[b]) = {first}
    BY <2>3 DEF Range
  <2>7. Keeps(log[b], saved[b])
    BY <2>1, <2>3, <2>5, <2>6 DEF Keeps
  <2> QED
    BY <2>4, <2>7
<1>7. ReadsInv
  BY <1>2 DEF ReadsInv
<1>8. StripInv
  <2>1. /\ member = MembersOf /\ order = [b \in Builds |-> <<>>]
        /\ locks = [b \in Builds |-> None]
    BY DEF Init, PartnerInit
  <2>2. LocksInv
    BY <1>2, <2>1 DEF LocksInv
  <2>3. /\ order \in [Builds -> Seq(Builds)]
        /\ \A b \in Builds : order[b] = <<>>
    BY <2>1
  <2>4. \A b \in Builds : IsInjective(order[b])
    BY <2>3 DEF IsInjective
  <2>5. QED
    BY <1>2, <2>1, <2>2, <2>3, <2>4, PartnerAssumption DEF StripInv
<1> QED
  BY <1>1, <1>3, <1>4, <1>5, <1>6, <1>7, <1>8 DEF IInv, LogInv

LEMMA StutterStep ==
  ASSUME IInv, UNCHANGED vars
  PROVE  IInv'
<1>1. UNCHANGED <<live, org, member, links, targets, order, locks, req, writes, chosen,
                  raced, orgs, hideAuthor, content, log, saved, clock, flagFor,
                  overtaken>>
  BY DEF vars, partnerVars, editVars
<1>2. TypeInv'
  BY <1>1 DEF IInv, TypeInv, TablesInv, RequestsInv
<1>3. MutualInv'
  BY <1>1 DEF IInv, MutualInv, LinksAreMutual, Apart
<1>4. OnlyStaleWritesLoseTargets'
  BY <1>1 DEF IInv, OnlyStaleWritesLoseTargets, Partners
<1>5. FlagsAreForTheirOrg'
  BY <1>1 DEF IInv, FlagsAreForTheirOrg
<1>6. LogInv'
  BY <1>1 DEF IInv, LogInv, InOrder, Keeps, ReadsInv, Read
<1>7. StripInv'
  BY <1>1 DEF IInv, StripInv, LocksInv
<1> QED
  BY <1>2, <1>3, <1>4, <1>5, <1>6, <1>7 DEF IInv

LEMMA NextInv ==
  ASSUME IInv, [Next]_vars
  PROVE  IInv'
<1>1. CASE UNCHANGED vars
  BY <1>1, StutterStep
<1>2. CASE Next
  <2>1. TypeInv /\ Step
    BY <1>2, NextIsStep DEF IInv
  <2>2. TypeInv'
    BY <2>1, RequestsStep, TablesStep DEF TypeInv
  <2> QED
    BY <2>1, <2>2, MutualStep, TargetsStep, FlagsStep, LogStep, StripStep DEF IInv
<1> QED
  BY <1>1, <1>2

\* Whatever link, unlink and delete requests overlap, fail between their two updates
\* or deadlock, the join rows are there in both directions and never lead from a
\* build to itself (builds.ts, putLink and deleteLink).
THEOREM LinksStayMutual == Spec => []LinksAreMutual
<1>1. Init => IInv
  BY InitInv
<1>2. IInv /\ [Next]_vars => IInv'
  BY NextInv
<1>3. IInv => LinksAreMutual
  BY DEF IInv, MutualInv
<1> QED
  BY <1>1, <1>2, <1>3, PTL DEF Spec

\* A build's partnerVariants are what its owners last chose, and lead only through
\* links that are there, unless a request wrote the column from a stale read.
THEOREM TargetsAreLostOnlyToStaleWrites == Spec => []OnlyStaleWritesLoseTargets
<1>1. Init => IInv
  BY InitInv
<1>2. IInv /\ [Next]_vars => IInv'
  BY NextInv
<1>3. IInv => OnlyStaleWritesLoseTargets
  BY DEF IInv
<1> QED
  BY <1>1, <1>2, <1>3, PTL DEF Spec

\* A hidden author is hidden under the organization hideAuthor was asked for, unless
\* the PATCH or the deletion that decided it was overtaken by a move.
THEOREM HiddenUnderTheRightOrg == Spec => []FlagsAreForTheirOrg
<1>1. Init => IInv
  BY InitInv
<1>2. IInv /\ [Next]_vars => IInv'
  BY NextInv
<1>3. IInv => FlagsAreForTheirOrg
  BY DEF IInv
<1> QED
  BY <1>1, <1>2, <1>3, PTL DEF Spec

\* However requests overlap and members come and go, a build changes its
\* organization only by its author's PATCH, or when the organization is deleted.
THEOREM AuthorsMoveTheirBuilds == Spec => OnlyTheAuthorMovesABuild
<1>1. Init => IInv
  BY InitInv
<1>2. IInv /\ [Next]_vars => IInv'
  BY NextInv
<1> DEFINE Moves == \A b \in live : org'[b] # org[b] =>
                        \/ org[b] \in orgs \ orgs'
                        \/ \E h \in Handlers :
                              /\ At(h, {"patch"}, "write")
                              /\ req[h].own = b /\ req[h].arg.editor = AuthorOf[b]
                              /\ req'[h] = None
<1>3. IInv /\ [Next]_vars => [Moves]_vars
  BY NextIsStep, MovesStep DEF IInv
<1> QED
  BY <1>1, <1>2, <1>3, PTL DEF Spec, OnlyTheAuthorMovesABuild

\* However PATCHes overlap, are dated before they have the row, and are pruned: the
\* last save to commit wrote what the row holds, the log has MAX_STORED_REVISIONS rows
\* or one for each save, none of them older than one that is gone but by a save that
\* overlapped it, and no save is dated before one that it had read.
THEOREM LogsTellEverySave == Spec => []LogTellsEverySave
<1>1. Init => IInv
  BY InitInv
<1>2. IInv /\ [Next]_vars => IInv'
  BY NextInv
<1>3. IInv => LogTellsEverySave
  BY LogTells DEF IInv
<1> QED
  BY <1>1, <1>2, <1>3, PTL DEF Spec

\* Whichever requests overlap, fail or deadlock, a strip stored for a build names no
\* partner twice, a link leads from a build that exists to one that exists, and a
\* locked row is held by a transaction that has yet to commit (_build-partners.ts).
THEOREM PartnerTypesHold == Spec => []PartnerTypeOK
<1>1. Init => IInv
  BY InitInv
<1>2. IInv /\ [Next]_vars => IInv'
  BY NextInv
<1>3. IInv => PartnerTypeOK
  BY StripTypes DEF IInv
<1> QED
  BY <1>1, <1>2, <1>3, PTL DEF Spec

\* Whoever looks at a strip, and whichever rows the query takes of those they may see,
\* it has one chip for each, leaves one out only when it is full, and follows the order
\* that was stored wherever the owner named one of two partners, whatever was linked,
\* unlinked or deleted since (partnerSelect, visiblePartnerScope, orderPartners).
THEOREM StripsFollowTheOrder == Spec => []StripFollowsTheOrder
<1>1. Init => IInv
  BY InitInv
<1>2. IInv /\ [Next]_vars => IInv'
  BY NextInv
<1>3. IInv => StripFollowsTheOrder
  BY StripsFollow DEF IInv, TypeInv, TablesInv, StripInv
<1> QED
  BY <1>1, <1>2, <1>3, PTL DEF Spec

\* In whichever order the query returns rows of one time: the entries of a build's
\* history hold every row it read, in order, and a row it did not read is no newer
\* than those; an entry of several is one editor's and within the window of its newest,
\* and no two neighbours could be one (readRevisions, foldRevisions).
THEOREM FoldsTellEverySave == Spec => []FoldsCoverEverySave
<1>1. Init => IInv
  BY InitInv
<1>2. IInv /\ [Next]_vars => IInv'
  BY NextInv
<1>3. IInv => FoldsCoverEverySave
  BY LogsFold DEF IInv
<1> QED
  BY <1>1, <1>2, <1>3, PTL DEF Spec
=============================================================================
