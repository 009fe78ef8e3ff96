--------------------------- MODULE BuildSlotsProofs ---------------------------
(* Where a mod may be is decided when it is picked, dropped, swapped or      *)
(* planned; what is kept for later (the undo entry, the slot of the Riven    *)
(* dialog, the plan in preview) fits no worse when its turn comes.  A plan   *)
(* brings the variants it was made for under capacity, and permutes mods.    *)
EXTENDS BuildSlots, FiniteSetTheorems, NaturalsInduction, WellFoundedInduction,
        TLAPS

\* What a variant's mods have to be, whatever else is on the screen.
Sound(mods) == EveryModFits(mods) /\ NoNameTwice(mods) /\ AlternatesFit(mods)

\* A map of mods that fit, and one that may be on the screen.
FittingMap(mods) == mods \in PlacedMaps /\ EveryModFits(mods)
SoundMap(mods)   == mods \in PlacedMaps /\ Sound(mods)

MapsInv ==
    /\ SoundMap(placed)
    /\ SoundMap(before.placed)
    /\ \A v \in Others : FittingMap(others[v])

\* Whatever comes back from a drag or a dialog may still be carried out.
DragInv ==
    drag # Empty =>
        \/ drag.kind = "pool" /\ drag.mod \in Mods
        \/ drag.kind = "slot" /\ drag.slot \in Slots

RivenInv == riven # Empty => SlotKind[riven] = "normal"

PlanInv ==
    pending # Empty =>
        /\ SoundMap(pending.plan.builds[Active])
        /\ \A v \in Others : FittingMap(pending.plan.builds[v])

SlotsInv == MapsInv /\ DragInv /\ RivenInv /\ PlanInv

-----------------------------------------------------------------------------
(* The library's minimum                                                    *)

LEMMA MinIsThere ==
    ASSUME NEW S \in SUBSET Nat, S # {}
    PROVE  Min(S) \in S
<1> DEFINE R == OpToRel(<, Nat)
<1>1. IsWellFoundedOn(R, Nat)
  BY NatLessThanWellFounded
<1>2. \A x, y \in Nat : <<y, x>> \in R <=> y < x
  BY DEF OpToRel
<1> HIDE DEF R
<1>3. PICK x \in S : \A y \in S : ~(<<y, x>> \in R)
  BY <1>1, WFMin
<1>4. x \in Nat /\ \A y \in S : y \in Nat /\ ~(y < x)
  BY <1>2, <1>3
<1>5. \A y \in S : x =< y
  BY <1>4
<1>6. QED
  BY <1>5, Zenon DEF Min

-----------------------------------------------------------------------------
(* Recursion, and finite sets                                               *)

\* Induction up to N, for a set of numbers.
LEMMA UpTo ==
  ASSUME NEW N \in Nat, NEW T, 0 \in T, \A n \in 1 .. N : n - 1 \in T => n \in T
  PROVE  \A n \in 0 .. N : n \in T
<1> DEFINE R == OpToRel(<, Nat)
           Bad == (0 .. N) \ T
<1>1. IsWellFoundedOn(R, Nat)
  BY NatLessThanWellFounded
<1>2. \A x, y \in Nat : <<y, x>> \in R <=> y < x
  BY DEF OpToRel
<1> HIDE DEF R
<1>3. CASE Bad # {}
  <2>1. Bad \subseteq Nat
    OBVIOUS
  <2>2. PICK x \in Bad : \A y \in Bad : ~(<<y, x>> \in R)
    BY <1>1, <1>3, <2>1, WFMin
  <2>3. x \in 1 .. N /\ x - 1 \in 0 .. N /\ x - 1 < x
    OBVIOUS
  <2>4. x - 1 \notin Bad
    BY <1>2, <2>1, <2>2, <2>3
  <2>5. QED
    BY <2>3, <2>4
<1>4. QED
  BY <1>3

\* The functions that are defined from the value before.
Recursions(S, start, N, step) ==
    {f \in [0 .. N -> S] : f[0] = start /\ \A n \in 1 .. N : f[n] = step[n][f[n - 1]]}

LEMMA RecursionExists ==
  ASSUME NEW S, NEW start \in S, NEW N \in Nat, NEW step \in [1 .. N -> [S -> S]]
  PROVE  Recursions(S, start, N, step) # {}
<1> DEFINE Solves(f, m) == f[0] = start /\ \A n \in 1 .. m : f[n] = step[n][f[n - 1]]
           T == {m \in 0 .. N : \E f \in [0 .. m -> S] : Solves(f, m)}
<1>1. 0 \in T
  <2> DEFINE f == [n \in 0 .. 0 |-> start]
  <2>1. f \in [0 .. 0 -> S] /\ f[0] = start /\ 0 \in 0 .. N /\ 1 .. 0 = {}
    OBVIOUS
  <2> HIDE DEF f
  <2>2. Solves(f, 0)
    BY <2>1
  <2>3. QED
    BY <2>1, <2>2
<1>2. ASSUME NEW m \in 1 .. N, m - 1 \in T PROVE m \in T
  <2>1. PICK f \in [0 .. m - 1 -> S] : Solves(f, m - 1)
    BY <1>2
  <2> DEFINE g == [n \in 0 .. m |-> IF n = m THEN step[m][f[m - 1]] ELSE f[n]]
  <2>2. step[m] \in [S -> S] /\ f[m - 1] \in S
    OBVIOUS
  <2>3. step[m][f[m - 1]] \in S
    BY <2>2
  <2>4. g \in [0 .. m -> S]
    BY <2>3
  <2>5. ASSUME NEW n \in 1 .. m PROVE g[n] = step[n][g[n - 1]]
    <3>1. CASE n = m
      BY <3>1
    <3>2. CASE n # m
      <4>1. g[n] = f[n] /\ g[n - 1] = f[n - 1] /\ n \in 1 .. m - 1
        BY <3>2
      <4>2. QED
        BY <2>1, <4>1
    <3>3. QED
      BY <3>1, <3>2
  <2>6. g[0] = start
    BY <2>1
  <2> HIDE DEF g
  <2>7. Solves(g, m)
    BY <2>5, <2>6
  <2>8. QED
    BY <2>4, <2>7
<1> HIDE DEF T
<1>3. \A m \in 1 .. N : m - 1 \in T => m \in T
  BY <1>2
<1>4. \A m \in 0 .. N : m \in T
  BY <1>1, <1>3, UpTo
<1>5. N \in T
  BY <1>4
<1>6. QED
  BY <1>5 DEF T, Recursions

\* A finite set that is not empty has an element of the greatest value.
LEMMA FiniteMax ==
    ASSUME NEW S, IsFiniteSet(S), S # {}, NEW h \in [S -> Int]
    PROVE  \E x \in S : \A y \in S : h[y] =< h[x]
<1> DEFINE R == StrictSubsetOrdering(S)
           HasMax(U) == U = {} \/ \E x \in U : \A y \in U : h[y] =< h[x]
           Bad == {U \in SUBSET S : ~HasMax(U)}
<1>1. FiniteSubsetsOf(S) = SUBSET S
  BY FS_FiniteSubsetsOfFinite
<1>2. IsWellFoundedOn(R, SUBSET S)
  BY <1>1, FS_StrictSubsetOrderingWellFounded
<1>3. \A U, V \in SUBSET S : U \subseteq V /\ U # V => <<U, V>> \in R
  BY DEF StrictSubsetOrdering
<1> HIDE DEF R
<1>4. CASE Bad # {}
  <2>1. Bad \subseteq SUBSET S
    OBVIOUS
  <2> HIDE DEF Bad
  <2>2. PICK U \in Bad : \A V \in Bad : ~(<<V, U>> \in R)
    BY <1>2, <1>4, <2>1, WFMin
  <2>3. U \in SUBSET S /\ ~HasMax(U)
    BY <2>2 DEF Bad
  <2>4. PICK x \in U : TRUE
    BY <2>3
  <2>5. U \ {x} \in SUBSET S /\ U \ {x} \subseteq U /\ U \ {x} # U
    BY <2>3, <2>4
  <2>6. HasMax(U \ {x})
    BY <1>3, <2>2, <2>3, <2>5 DEF Bad
  <2>7. CASE U \ {x} = {}
    <3>1. U = {x} /\ h[x] \in Int
      BY <2>3, <2>4, <2>7
    <3>2. QED
      BY <2>3, <3>1
  <2>8. CASE U \ {x} # {}
    <3>1. PICK m \in U \ {x} : \A y \in U \ {x} : h[y] =< h[m]
      BY <2>6, <2>8
    <3>2. \A y \in U : h[y] \in Int
      BY <2>3
    <3>3. QED
      BY <2>3, <2>4, <3>1, <3>2
  <2>9. QED
    BY <2>7, <2>8
<1>5. QED
  BY <1>4

-----------------------------------------------------------------------------
(* The capacity left                                                        *)

LEMMA SlotsAreFinite == IsFiniteSet(Slots)
<1>1. IsFiniteSet(DOMAIN Layout)
  BY SlotAssumption, FS_Interval
<1>2. Layout \in Surjection(DOMAIN Layout, Visible)
  BY SlotAssumption DEF Surjection, Visible
<1>3. IsFiniteSet(Visible)
  BY <1>1, <1>2, FS_Surjection
<1>4. IsFiniteSet((Visible \cup {"exilus"}) \cup {"stance"})
  BY <1>3, FS_AddElement
<1>5. Slots \in SUBSET ((Visible \cup {"exilus"}) \cup {"stance"})
  BY SlotAssumption DEF Visible
<1>6. QED
  BY <1>4, <1>5, FS_Subset

\* Sets by size, for sums: what is left when an element is taken out.
LEMMA TakenOut ==
    ASSUME NEW S, IsFiniteSet(S), NEW s \in SUBSET S
    PROVE  /\ Cardinality(s) \in 0 .. Cardinality(S)
           /\ Cardinality(s) = 0 <=> s = {}
           /\ \A x \in s : /\ s \ {x} \in SUBSET S
                          /\ Cardinality(s \ {x}) = Cardinality(s) - 1
<1>1. IsFiniteSet(s) /\ Cardinality(s) =< Cardinality(S)
  BY FS_Subset
<1>2. /\ Cardinality(S) \in Nat /\ Cardinality(s) \in Nat
      /\ Cardinality(s) = 0 <=> s = {}
  BY <1>1, FS_CardinalityType, FS_EmptySet
<1>3. \A x \in s : Cardinality(s \ {x}) = Cardinality(s) - 1
  BY <1>1, FS_RemoveElement
<1>4. QED
  BY <1>1, <1>2, <1>3

\* The sums that are defined from the sum of what is left.
Sums(D, size, rest, val) ==
    {sum \in [D -> Int] : \A s \in D :
        sum[s] = IF size[s] = 0 THEN 0 ELSE val[s] + sum[rest[s]]}

LEMMA SumExists ==
    ASSUME NEW D, NEW N \in Nat, NEW size \in [D -> 0 .. N],
           NEW rest \in [D -> D], NEW val \in [D -> Int],
           \A s \in D : size[s] # 0 => size[rest[s]] = size[s] - 1
    PROVE  Sums(D, size, rest, val) # {}
<1> DEFINE W == [D -> Int]
           none == [s \in D |-> 0]
           F(n, w) == [s \in D |-> IF size[s] = n THEN val[s] + w[rest[s]] ELSE w[s]]
           step == [n \in 1 .. N |-> [w \in W |-> F(n, w)]]
           Adds(w, s) == w[s] = IF size[s] = 0 THEN 0 ELSE val[s] + w[rest[s]]
<1>1. none \in W /\ \A s \in D : none[s] = 0
  OBVIOUS
<1>2. ASSUME NEW n \in 1 .. N, NEW w \in W
      PROVE  /\ F(n, w) \in W
             /\ \A s \in D : F(n, w)[s] = IF size[s] = n THEN val[s] + w[rest[s]] ELSE w[s]
  <2>1. \A s \in D : w[s] \in Int
    OBVIOUS
  <2>2. \A s \in D : size[s] = n => val[s] + w[rest[s]] \in Int
    BY <2>1
  <2>3. QED
    BY <2>1, <2>2
<1> HIDE DEF W, F, none
<1>3. step \in [1 .. N -> [W -> W]]
  BY <1>2
<1>4. \A n \in 1 .. N : \A w \in W : step[n][w] = F(n, w)
  OBVIOUS
<1> HIDE DEF step
<1>5. PICK f \in [0 .. N -> W] : f[0] = none /\ \A n \in 1 .. N : f[n] = step[n][f[n - 1]]
  <2>1. Recursions(W, none, N, step) # {}
    BY <1>1, <1>3, RecursionExists
  <2>2. QED
    BY <2>1 DEF Recursions
<1>6. ASSUME NEW n \in 1 .. N
      PROVE  \A s \in D : f[n][s] = IF size[s] = n THEN val[s] + f[n - 1][rest[s]]
                                    ELSE f[n - 1][s]
  <2>1. f[n - 1] \in W /\ n - 1 \in 0 .. N
    BY <1>5
  <2>2. f[n] = F(n, f[n - 1])
    BY <1>4, <1>5, <2>1
  <2>3. QED
    BY <1>2, <2>1, <2>2
<1> DEFINE T == {n \in 0 .. N : \A s \in D : size[s] =< n => Adds(f[n], s)}
<1>7. 0 \in T
  <2>1. \A s \in D : size[s] =< 0 => size[s] = 0
    OBVIOUS
  <2>2. QED
    BY <1>1, <1>5, <2>1
<1>8. ASSUME NEW n \in 1 .. N, n - 1 \in T PROVE n \in T
  <2> SUFFICES ASSUME NEW s \in D, size[s] =< n PROVE Adds(f[n], s)
    OBVIOUS
  <2>1. size[s] \in Nat /\ n \in Nat \ {0}
    OBVIOUS
  <2>2. CASE size[s] = 0
    <3>1. size[s] =< n - 1 /\ size[s] # n
      BY <2>1, <2>2
    <3>2. Adds(f[n - 1], s)
      BY <1>8, <3>1
    <3>3. f[n][s] = f[n - 1][s]
      BY <1>6, <3>1
    <3>4. QED
      BY <2>2, <3>2, <3>3
  <2>3. CASE size[s] # 0
    <3>1. rest[s] \in D /\ size[rest[s]] = size[s] - 1
      BY <2>3
    <3>2. f[n][rest[s]] = f[n - 1][rest[s]]
      BY <1>6, <2>1, <3>1
    <3>3. CASE size[s] = n
      BY <1>6, <2>3, <3>2, <3>3
    <3>4. CASE size[s] # n
      <4>1. size[s] =< n - 1
        BY <2>1, <3>4
      <4>2. Adds(f[n - 1], s) /\ f[n][s] = f[n - 1][s]
        BY <1>6, <1>8, <3>4, <4>1
      <4>3. QED
        BY <2>3, <3>2, <4>2
    <3>5. QED
      BY <3>3, <3>4
  <2>4. QED
    BY <2>2, <2>3
<1> HIDE DEF T
<1>9. \A n \in 0 .. N : n \in T
  BY <1>7, <1>8, UpTo
<1>10. N \in T /\ f[N] \in W
  BY <1>5, <1>9
<1>11. \A s \in D : Adds(f[N], s)
  BY <1>10 DEF T
<1>12. QED
  BY <1>10, <1>11 DEF W, Sums

LEMMA CapacityInt ==
    ASSUME NEW mods \in PlacedMaps, NEW f, NEW s \in Filled(mods)
    PROVE  capacityOf(s, mods, f) \in Int
<1>1. mods[s] \in PlacedMods
  BY DEF Filled, PlacedMaps
<1>2. baseDrain(mods[s]) \in Nat
  BY <1>1, ModAssumption DEF baseDrain, PlacedMods
<1>3. getMatchState(ModPolarity[mods[s].mod], polarityOf(s, f)) \in {"neutral", "match", "mismatch"}
  BY DEF getMatchState
<1>4. effectiveDrain(mods[s], polarityOf(s, f)) \in Int
  BY <1>2, <1>3 DEF effectiveDrain
<1>5. auraBonus(mods[s], polarityOf(s, f)) \in Int
  BY <1>2, <1>3 DEF auraBonus
<1>6. QED
  BY <1>4, <1>5 DEF capacityOf

LEMMA HeadroomInt ==
    ASSUME NEW mods \in PlacedMaps, NEW f
    PROVE  headroom(mods, f) \in Int
<1> DEFINE S == Filled(mods)
           D == SUBSET S
           N == Cardinality(S)
           C(s) == capacityOf(s, mods, f)
           first(s) == CHOOSE x \in s : TRUE
           size == [s \in D |-> Cardinality(s)]
           rest == [s \in D |-> s \ {first(s)}]
           val  == [s \in D |-> IF s = {} THEN 0 ELSE C(first(s))]
           Eq(w) == w = [s \in D |-> IF s = {} THEN 0 ELSE C(first(s)) + w[s \ {first(s)}]]
           iter == CHOOSE w : Eq(w)
<1>1. headroom(mods, f) = BaseCapacity + iter[S]
  BY DEF headroom, MapThenSumSet, MapThenFoldSet
<1>2. IsFiniteSet(S) /\ N \in Nat
  <2>1. IsFiniteSet(S)
    BY SlotsAreFinite, FS_Subset DEF Filled
  <2>2. QED
    BY <2>1, FS_CardinalityType
<1>3. ASSUME NEW s \in D
      PROVE  /\ size[s] \in 0 .. N
             /\ s = {} <=> size[s] = 0
             /\ rest[s] = s \ {first(s)} /\ rest[s] \in D
             /\ val[s] \in Int /\ (s # {} => val[s] = C(first(s)))
             /\ size[s] # 0 => size[rest[s]] = size[s] - 1
  <2>1. /\ size[s] = Cardinality(s) /\ rest[s] = s \ {first(s)}
        /\ val[s] = IF s = {} THEN 0 ELSE C(first(s))
        /\ rest[s] \in D /\ size[rest[s]] = Cardinality(s \ {first(s)})
    OBVIOUS
  <2>2. /\ Cardinality(s) \in 0 .. N
        /\ Cardinality(s) = 0 <=> s = {}
        /\ \A x \in s : Cardinality(s \ {x}) = Cardinality(s) - 1
    BY <1>2, TakenOut
  <2>3. s # {} => first(s) \in s
    OBVIOUS
  <2>4. s # {} => C(first(s)) \in Int
    BY <2>3, CapacityInt
  <2>5. s # {} => Cardinality(s \ {first(s)}) = Cardinality(s) - 1
    BY <2>2, <2>3
  <2> HIDE DEF size, rest, val, first, C
  <2>6. QED
    BY <2>1, <2>2, <2>4, <2>5
<1>4. S \in D /\ size[S] \in 0 .. N
  BY <1>3
<1>5. size \in [D -> 0 .. N] /\ rest \in [D -> D] /\ val \in [D -> Int]
  BY <1>3
<1> HIDE DEF S, D, N, C, first, size, rest, val
<1>6. \A s \in D : /\ size[s] \in 0 .. N
                   /\ s = {} <=> size[s] = 0
                   /\ rest[s] = s \ {first(s)} /\ rest[s] \in D
                   /\ val[s] \in Int /\ (s # {} => val[s] = C(first(s)))
                   /\ size[s] # 0 => size[rest[s]] = size[s] - 1
  BY <1>3
<1>7. PICK sum \in [D -> Int] : \A s \in D :
         sum[s] = IF size[s] = 0 THEN 0 ELSE val[s] + sum[rest[s]]
  <2>1. \A s \in D : size[s] # 0 => size[rest[s]] = size[s] - 1
    BY <1>6
  <2>2. Sums(D, size, rest, val) # {}
    BY <1>2, <1>5, <2>1, SumExists
  <2>3. QED
    BY <2>2 DEF Sums
<1>8. \A s \in D : sum[s] = IF s = {} THEN 0 ELSE C(first(s)) + sum[s \ {first(s)}]
  <2> SUFFICES ASSUME NEW s \in D
               PROVE  sum[s] = IF s = {} THEN 0 ELSE C(first(s)) + sum[s \ {first(s)}]
    OBVIOUS
  <2>1. CASE s = {}
    BY <1>6, <1>7, <2>1
  <2>2. CASE s # {}
    <3>1. /\ size[s] # 0 /\ val[s] = C(first(s)) /\ rest[s] = s \ {first(s)}
      BY <1>6, <2>2
    <3>2. QED
      BY <1>7, <2>2, <3>1
  <2>3. QED
    BY <2>1, <2>2
<1>9. Eq(sum)
  BY <1>7, <1>8
<1>10. Eq(iter)
  <2> HIDE DEF Eq
  <2>1. QED
    BY <1>9
<1>11. \A s \in D : iter[s] = IF size[s] = 0 THEN 0 ELSE val[s] + iter[rest[s]]
  <2>1. \A s \in D : iter[s] = IF s = {} THEN 0 ELSE C(first(s)) + iter[s \ {first(s)}]
    BY <1>10
  <2> HIDE DEF iter, Eq
  <2> SUFFICES ASSUME NEW s \in D
               PROVE  iter[s] = IF size[s] = 0 THEN 0 ELSE val[s] + iter[rest[s]]
    OBVIOUS
  <2>2. CASE s = {}
    BY <1>6, <2>1, <2>2
  <2>3. CASE s # {}
    <3>1. /\ size[s] # 0 /\ val[s] = C(first(s)) /\ rest[s] = s \ {first(s)}
      BY <1>6, <2>3
    <3>2. QED
      BY <2>1, <2>3, <3>1
  <2>4. QED
    BY <2>2, <2>3
<1> HIDE DEF iter, Eq
<1> DEFINE T == {n \in 0 .. N : \A s \in D : size[s] = n => iter[s] \in Int}
<1>12. 0 \in T
  BY <1>2, <1>11
<1>13. ASSUME NEW n \in 1 .. N, n - 1 \in T PROVE n \in T
  <2> SUFFICES ASSUME NEW s \in D, size[s] = n PROVE iter[s] \in Int
    BY <1>2
  <2>1. n # 0 /\ n \in Nat
    BY <1>2
  <2>2. size[rest[s]] = n - 1 /\ rest[s] \in D /\ val[s] \in Int
    BY <1>6, <2>1
  <2>3. iter[rest[s]] \in Int
    BY <1>13, <2>2
  <2>4. QED
    BY <1>11, <2>1, <2>2, <2>3
<1> HIDE DEF T
<1>14. \A n \in 0 .. N : n \in T
  BY <1>2, <1>12, <1>13, UpTo
<1>15. iter[S] \in Int
  BY <1>4, <1>14 DEF T
<1>16. QED
  BY <1>1, <1>15, SlotAssumption

-----------------------------------------------------------------------------
(* Changes of one slot                                                      *)

\* A free slot is chosen among those the mod fits.
LEMMA FreeSlotFits ==
    ASSUME NEW m \in Mods, firstFree(m) # Empty
    PROVE  firstFree(m) \in Slots /\ canPlaceIn(m, firstFree(m))
<1> DEFINE free == {i \in DOMAIN candidateSlots :
                      /\ placed[candidateSlots[i]] = Empty
                      /\ canPlaceIn(m, candidateSlots[i])}
<1>1. candidateSlots \in Seq(Slots)
  BY SlotAssumption DEF candidateSlots
<1>2. free \in SUBSET Nat
  BY <1>1
<1>3. free # {} /\ firstFree(m) = candidateSlots[Min(free)]
  BY DEF firstFree
<1> HIDE DEF free
<1>4. Min(free) \in free
  BY <1>2, <1>3, MinIsThere
<1>5. /\ Min(free) \in DOMAIN candidateSlots
      /\ canPlaceIn(m, candidateSlots[Min(free)])
  BY <1>4 DEF free
<1>6. QED
  BY <1>1, <1>3, <1>5

\* A fitting mod put into a slot, with an Alternate that fits it too; its name
\* is not on the build but for Rivens.
LEMMA PutSound ==
    ASSUME NEW mods, SoundMap(mods), NEW s, NEW pm \in PlacedMods,
           canPlaceIn(pm.mod, s),
           pm.mod \in Rivens \/ ~\E n \in usedNames(mods) : sameName(pm.mod, n),
           pm.alternate # Empty => canBeAlternate(pm.alternate, s)
    PROVE  SoundMap([mods EXCEPT ![s] = pm])
<1> DEFINE new == [mods EXCEPT ![s] = pm]
<1>1. mods \in PlacedMaps /\ EveryModFits(mods) /\ NoNameTwice(mods) /\ AlternatesFit(mods)
  BY DEF SoundMap, Sound
<1>2. new \in PlacedMaps
  BY <1>1 DEF PlacedMaps
<1>3. \A t \in Slots : \/ t = s /\ new[t] = pm
                       \/ t # s /\ new[t] = mods[t]
  BY <1>1 DEF PlacedMaps
<1> HIDE DEF new
<1>4. EveryModFits(new)
  BY <1>1, <1>3 DEF EveryModFits, Filled
<1>5. AlternatesFit(new)
  BY <1>1, <1>3 DEF AlternatesFit, Filled, canBeAlternate
<1>6. NoNameTwice(new)
  <2> SUFFICES ASSUME NEW t \in Filled(new), NEW u \in Filled(new), t # u,
                      sameName(new[t].mod, new[u].mod)
               PROVE  new[t].mod \in Rivens
    BY DEF NoNameTwice
  <2>1. t \in Slots /\ u \in Slots
    BY DEF Filled
  <2>2. CASE t # s /\ u # s
    BY <1>1, <1>3, <2>1, <2>2 DEF NoNameTwice, Filled
  <2>3. CASE t = s
    <3>1. new[t] = pm /\ u \in Filled(mods) /\ new[u] = mods[u]
      BY <1>3, <2>1, <2>3 DEF Filled
    <3>2. mods[u].mod \in usedNames(mods)
      BY <3>1 DEF usedNames
    <3>3. QED
      BY <3>1, <3>2
  <2>4. CASE u = s
    <3>1. new[u] = pm /\ t \in Filled(mods) /\ new[t] = mods[t]
      BY <1>3, <2>1, <2>4 DEF Filled
    <3>2. mods[t].mod \in usedNames(mods)
      BY <3>1 DEF usedNames
    <3>3. sameName(pm.mod, mods[t].mod)
      BY <3>1 DEF sameName
    <3>4. pm.mod \in Rivens
      BY <3>2, <3>3
    <3>5. QED
      BY <3>1, <3>4 DEF sameName
  <2>5. QED
    BY <2>2, <2>3, <2>4
<1>7. QED
  BY <1>2, <1>4, <1>5, <1>6 DEF new, SoundMap, Sound

\* A mod that keeps its slot: taken out, ranked, or given another Alternate.
LEMMA ChangeSound ==
    ASSUME NEW mods, SoundMap(mods), NEW new \in PlacedMaps,
           NEW s, \A t \in Slots : t # s => new[t] = mods[t],
           s \in Filled(new) =>
              /\ s \in Filled(mods) /\ new[s].mod = mods[s].mod
              /\ \/ new[s].alternate = mods[s].alternate
                 \/ new[s].alternate = Empty
                 \/ canBeAlternate(new[s].alternate, s)
    PROVE  SoundMap(new)
<1>1. mods \in PlacedMaps /\ EveryModFits(mods) /\ NoNameTwice(mods) /\ AlternatesFit(mods)
  BY DEF SoundMap, Sound
<1>2. \A t \in Filled(new) : t \in Filled(mods) /\ new[t].mod = mods[t].mod
  BY <1>1 DEF Filled, PlacedMaps
<1>3. EveryModFits(new)
  BY <1>1, <1>2 DEF EveryModFits
<1>4. NoNameTwice(new)
  BY <1>1, <1>2 DEF NoNameTwice
<1>5. AlternatesFit(new)
  BY <1>1, <1>2 DEF AlternatesFit, canBeAlternate, Filled
<1>6. QED
  BY <1>3, <1>4, <1>5 DEF SoundMap, Sound

-----------------------------------------------------------------------------
(* Mods that change places                                                  *)

\* Of an Alternate, only that it fits the slot of a mod it is to go along with.
LEMMA AlternateGoesAlong ==
    ASSUME NEW s, NEW t, NEW m, NEW a,
           canPlaceIn(m, s), canPlaceIn(m, t),
           \/ canPlaceIn(a, s)
           \/ SlotKind[s] = "exilus" /\ ModKind[a] = "normal"
    PROVE  \/ canPlaceIn(a, t)
           \/ SlotKind[t] = "exilus" /\ ModKind[a] = "normal"
BY DEF canPlaceIn

\* Mods that are moved about, each to a slot it fits, none to two slots.
LEMMA MoveSound ==
    ASSUME NEW mods, SoundMap(mods), NEW new \in PlacedMaps, NEW source,
           \A s \in Filled(new) :
              /\ source[s] \in Filled(mods)
              /\ new[s] = mods[source[s]]
              /\ canPlaceIn(mods[source[s]].mod, s),
           \A s, t \in Filled(new) : source[s] = source[t] => s = t
    PROVE  SoundMap(new)
<1>1. EveryModFits(mods) /\ NoNameTwice(mods) /\ AlternatesFit(mods)
  BY DEF SoundMap, Sound
<1>2. EveryModFits(new)
  BY DEF EveryModFits
<1>3. NoNameTwice(new)
  BY <1>1 DEF NoNameTwice
<1>4. AlternatesFit(new)
  <2> SUFFICES ASSUME NEW s \in Filled(new), new[s].alternate # Empty
               PROVE  /\ new[s].alternate \notin Rivens
                      /\ \/ canPlaceIn(new[s].alternate, s)
                         \/ /\ SlotKind[s] = "exilus"
                            /\ ModKind[new[s].alternate] = "normal"
    BY DEF AlternatesFit
  <2>1. source[s] \in Filled(mods) /\ new[s] = mods[source[s]]
    OBVIOUS
  <2>2. canPlaceIn(mods[source[s]].mod, s) /\ canPlaceIn(mods[source[s]].mod, source[s])
    BY <1>1 DEF EveryModFits
  <2>3. QED
    BY <1>1, <2>1, <2>2, AlternateGoesAlong DEF AlternatesFit
<1>5. QED
  BY <1>2, <1>3, <1>4 DEF SoundMap, Sound

LEMMA SwapSound ==
    ASSUME SoundMap(placed), NEW from \in Slots, NEW to \in Slots, swap(from, to)
    PROVE  SoundMap(placed')
<1> DEFINE source == [s \in Slots |-> IF s = from THEN to
                                      ELSE IF s = to THEN from ELSE s]
<1>1. /\ from # to /\ placed[from] # Empty
      /\ canPlaceIn(placed[from].mod, to)
      /\ placed[to] # Empty => canPlaceIn(placed[to].mod, from)
      /\ placed' = [placed EXCEPT ![to] = placed[from], ![from] = placed[to]]
  BY DEF swap
<1>2. placed \in PlacedMaps /\ EveryModFits(placed)
  BY DEF SoundMap, Sound
<1>3. placed' \in PlacedMaps
  BY <1>1, <1>2 DEF PlacedMaps
<1>4. \A s \in Slots : source[s] \in Slots /\ placed'[s] = placed[source[s]]
  BY <1>1, <1>2 DEF PlacedMaps
<1>5. \A s, t \in Slots : source[s] = source[t] => s = t
  OBVIOUS
<1>6. \A s \in Slots : placed[source[s]] # Empty => canPlaceIn(placed[source[s]].mod, s)
  BY <1>1, <1>2 DEF EveryModFits, Filled
<1> HIDE DEF source
<1>7. \A s \in Filled(placed)' : /\ source[s] \in Filled(placed)
                                 /\ placed'[s] = placed[source[s]]
                                 /\ canPlaceIn(placed[source[s]].mod, s)
  BY <1>4, <1>6 DEF Filled
<1>8. \A s, t \in Filled(placed)' : source[s] = source[t] => s = t
  BY <1>5 DEF Filled
<1>9. Filled(placed)' = Filled(placed')
  BY DEF Filled
<1>10. QED
  BY <1>3, <1>7, <1>8, <1>9, MoveSound

\* The movable slots of an item are alike.
LEMMA MovableAlike ==
    ASSUME NEW m \in Mods, NEW s \in Slots, NEW t \in Slots,
           movable(s), movable(t), canPlaceIn(m, s)
    PROVE  canPlaceIn(m, t)
BY SlotAssumption, ModAssumption
   DEF movable, isNormal, consumesDrain, canPlaceIn, Kinds, PlexusGroups

\* Where the mod in a slot came from when a variant is rearranged.
LEMMA MovedFrom ==
    ASSUME NEW mods \in PlacedMaps,
           NEW from, from = {s \in Filled(mods) : movable(s)},
           NEW to \in [from -> {s \in Slots : movable(s)}]
    PROVE  /\ moved(mods, to) \in PlacedMaps
           /\ \A s \in Filled(moved(mods, to)) :
                 \E t \in Filled(mods) :
                    /\ moved(mods, to)[s] = mods[t]
                    /\ IF movable(s) THEN t \in from /\ to[t] = s ELSE t = s
<1> DEFINE new == moved(mods, to)
<1>1. DOMAIN to = from /\ from \subseteq Slots
  BY DEF Filled
<1>2. \A s \in Slots :
         \/ ~movable(s) /\ new[s] = mods[s]
         \/ movable(s) /\ new[s] = Empty
         \/ movable(s) /\ \E t \in from : to[t] = s /\ new[s] = mods[t]
  <2> SUFFICES ASSUME NEW s \in Slots, movable(s), \E t \in from : to[t] = s
               PROVE  \E t \in from : to[t] = s /\ new[s] = mods[t]
    BY <1>1 DEF moved
  <2>1. new[s] = mods[CHOOSE t \in from : to[t] = s]
    BY <1>1 DEF moved
  <2>2. QED
    BY <2>1
<1>3. new = [s \in Slots |-> new[s]]
  BY DEF moved
<1> HIDE DEF new
<1>4. \A s \in Slots : new[s] \in PlacedMods \cup {Empty}
  BY <1>1, <1>2 DEF PlacedMaps
<1>5. new \in PlacedMaps
  BY <1>3, <1>4 DEF PlacedMaps
<1>6. \A s \in Filled(new) :
         \E t \in Filled(mods) :
            /\ new[s] = mods[t]
            /\ IF movable(s) THEN t \in from /\ to[t] = s ELSE t = s
  BY <1>2 DEF Filled
<1>7. QED
  BY <1>5, <1>6 DEF new

-----------------------------------------------------------------------------
(* Plans                                                                    *)

LEMMA ArrangedFits ==
    ASSUME NEW mods, FittingMap(mods), NEW f,
           NEW arranged \in tryArrangeVariant(mods, f)
    PROVE  /\ FittingMap(arranged)
           /\ SoundMap(mods) => SoundMap(arranged)
<1> DEFINE from == {s \in Filled(mods) : movable(s)}
<1>1. arranged = mods \/ arranged \in permutations(mods)
  BY DEF tryArrangeVariant
<1>2. CASE arranged = mods
  BY <1>2
<1>3. CASE arranged \in permutations(mods)
  <2>1. PICK to \in [from -> {s \in Slots : movable(s)}] : arranged = moved(mods, to)
    BY <1>3 DEF permutations
  <2> DEFINE Came(s, t) ==
               /\ arranged[s] = mods[t]
               /\ IF movable(s) THEN t \in from /\ to[t] = s ELSE t = s
             source == [s \in Filled(arranged) |-> CHOOSE t \in Filled(mods) : Came(s, t)]
  <2>2. mods \in PlacedMaps /\ EveryModFits(mods)
    BY DEF FittingMap
  <2>3. /\ arranged \in PlacedMaps
        /\ \A s \in Filled(arranged) : \E t \in Filled(mods) : Came(s, t)
    BY <2>1, <2>2, MovedFrom
  <2>4. \A s \in Filled(arranged) : source[s] \in Filled(mods) /\ Came(s, source[s])
    BY <2>3
  <2> HIDE DEF source
  <2>5. ASSUME NEW s \in Filled(arranged)
        PROVE  canPlaceIn(mods[source[s]].mod, s)
    <3>1. /\ source[s] \in Filled(mods) /\ source[s] \in Slots /\ s \in Slots
          /\ mods[source[s]].mod \in Mods
          /\ canPlaceIn(mods[source[s]].mod, source[s])
      BY <2>2, <2>4 DEF EveryModFits, Filled, PlacedMaps, PlacedMods
    <3>2. CASE movable(s)
      BY <2>4, <3>1, <3>2, MovableAlike
    <3>3. CASE ~movable(s)
      BY <2>4, <3>1, <3>3
    <3>4. QED
      BY <3>2, <3>3
  <2>6. ASSUME NEW s \in Filled(arranged), NEW t \in Filled(arranged),
               source[s] = source[t]
        PROVE  s = t
    BY <2>4, <2>6
  <2>7. FittingMap(arranged)
    BY <2>3, <2>4, <2>5 DEF FittingMap, EveryModFits
  <2>8. SoundMap(mods) => SoundMap(arranged)
    BY <2>3, <2>4, <2>5, <2>6, MoveSound
  <2>9. QED
    BY <2>7, <2>8
<1>4. QED
  BY <1>1, <1>2, <1>3

LEMMA SearchArranges ==
    ASSUME NEW builds, NEW start, NEW omni,
           NEW plan \in searchWithRearrangement(builds, start, omni)
    PROVE  \E k : \E f \in withNewFormas(builds, start, omni, k) :
              /\ plan.forma = steps(start, f)
              /\ plan.builds \in arrangements(builds, f)
<1> DEFINE feasible(k) == {f \in withNewFormas(builds, start, omni, k) :
                             \A v \in DOMAIN builds : tryArrangeVariant(builds[v], f) # {}}
           bound == Min({MaxNewFormas, Cardinality(candidates(builds, start, omni))})
           sizes == {k \in 0..bound : feasible(k) # {}}
           plans(f) == {[forma |-> steps(start, f), builds |-> arranged] :
                           arranged \in arrangements(builds, f)}
<1>1. plan \in UNION {plans(f) : f \in feasible(Min(sizes))}
  BY Zenon DEF searchWithRearrangement
<1> HIDE DEF sizes
<1> DEFINE k == Min(sizes)
<1> HIDE DEF k
<1>2. PICK f \in feasible(k) : plan \in plans(f)
  BY <1>1 DEF k
<1>3. PICK arranged \in arrangements(builds, f) :
         plan = [forma |-> steps(start, f), builds |-> arranged]
  BY <1>2
<1>4. plan.forma = steps(start, f) /\ plan.builds \in arrangements(builds, f)
  BY <1>3
<1>5. f \in withNewFormas(builds, start, omni, k)
  OBVIOUS
<1>6. QED
  BY <1>4, <1>5

LEMMA PlanArranges ==
    ASSUME NEW plan \in heavyPlans
    PROVE  \E f : plan.builds \in arrangements(allVariantSlots, f)
<1>1. PICK omni : plan \in searchWithRearrangement(allVariantSlots, forma, omni)
  BY DEF heavyPlans
<1>2. QED
  BY <1>1, SearchArranges

\* What the planner is given fits, so what it gives does.
LEMMA PlanFits ==
    ASSUME MapsInv, NEW plan \in heavyPlans
    PROVE  /\ SoundMap(plan.builds[Active])
           /\ \A v \in Others : FittingMap(plan.builds[v])
<1>1. /\ DOMAIN allVariantSlots = Others \cup {Active}
      /\ allVariantSlots[Active] = placed
      /\ \A v \in Others : allVariantSlots[v] \in {dropOrphanSlots(others[v]), NoMods}
  BY EditorAssumption DEF allVariantSlots, variantSlots
<1>2. FittingMap(NoMods)
  BY SlotAssumption DEF FittingMap, NoMods, PlacedMaps, EveryModFits, Filled
<1>3. ASSUME NEW v \in Others PROVE FittingMap(dropOrphanSlots(others[v]))
  BY DEF MapsInv, FittingMap, dropOrphanSlots, PlacedMaps, EveryModFits, Filled
<1>4. SoundMap(placed) /\ FittingMap(placed)
  BY DEF MapsInv, SoundMap, Sound, FittingMap
<1>5. \A v \in Others : FittingMap(allVariantSlots[v])
  BY <1>1, <1>2, <1>3
<1>6. PICK f : plan.builds \in arrangements(allVariantSlots, f)
  BY PlanArranges
<1>7. \A v \in Others \cup {Active} :
         plan.builds[v] \in tryArrangeVariant(allVariantSlots[v], f)
  BY <1>1, <1>6 DEF arrangements
<1>8. SoundMap(plan.builds[Active])
  BY <1>1, <1>4, <1>7, ArrangedFits
<1>9. \A v \in Others : FittingMap(plan.builds[v])
  BY <1>5, <1>7, ArrangedFits
<1>10. QED
  BY <1>8, <1>9

-----------------------------------------------------------------------------
(* Init                                                                     *)

LEMMA InitSlots == Init => SlotsInv
<1> SUFFICES ASSUME Init PROVE SlotsInv
  OBVIOUS
<1>1. PICK b \in SavedBuilds :
         /\ placed = b.placed /\ others = b.others
         /\ before.placed = b.placed
  BY DEF Init
<1>2. /\ b.placed \in PlacedMaps
      /\ b.others \in [Others -> PlacedMaps]
      /\ Sound(b.placed)
      /\ \A v \in Others : EveryModFits(b.others[v])
  BY EditorAssumption DEF Sound
<1>3. MapsInv
  BY <1>1, <1>2 DEF MapsInv, SoundMap, FittingMap
<1>4. QED
  BY <1>3 DEF Init, SlotsInv, DragInv, RivenInv, PlanInv

-----------------------------------------------------------------------------
(* Steps                                                                    *)

LEMMA EditKeeps ==
    ASSUME MapsInv, Edit, SoundMap(placed')
    PROVE  MapsInv'
BY DEF MapsInv, Edit, snapshot, SoundMap, Sound, FittingMap, EveryModFits,
       NoNameTwice, AlternatesFit, Filled

LEMMA MapsKept ==
    ASSUME MapsInv, UNCHANGED <<placed, before, others>>
    PROVE  MapsInv'
BY DEF MapsInv, SoundMap, Sound, FittingMap, EveryModFits, NoNameTwice,
       AlternatesFit, Filled

LEMMA DialogsKept ==
    ASSUME DragInv, RivenInv, PlanInv, UNCHANGED dialogs
    PROVE  DragInv' /\ RivenInv' /\ PlanInv'
BY DEF DragInv, RivenInv, PlanInv, dialogs, SoundMap, Sound, FittingMap,
       EveryModFits, NoNameTwice, AlternatesFit, Filled

LEMMA StampIsPlaced ==
    ASSUME NEW m \in Mods, NEW alternate \in Mods \cup {Empty}
    PROVE  /\ stamp(m, alternate) \in PlacedMods
           /\ stamp(m, alternate).mod = m
           /\ stamp(m, alternate).alternate = alternate
BY ModAssumption DEF stamp, PlacedMods

\* A mod put where it fits keeps the slot's Alternate if that is legal there.
LEMMA PlaceAtSound ==
    ASSUME SoundMap(placed), NEW s, NEW m \in Mods, canPlaceIn(m, s),
           m \in Rivens \/ ~isUsed(m), placeAt(s, m)
    PROVE  SoundMap(placed')
<1> DEFINE alt  == IF placed[s] = Empty THEN Empty ELSE placed[s].alternate
           keep == alt # Empty /\ alt # m /\ canBeAlternate(alt, s)
           pm   == stamp(m, IF keep THEN alt ELSE Empty)
<1>1. placed' = [placed EXCEPT ![s] = pm]
  BY DEF placeAt
<1>2. CASE s \in Slots
  <2>1. alt \in Mods \cup {Empty}
    BY <1>2 DEF SoundMap, PlacedMaps, PlacedMods
  <2>2. /\ pm \in PlacedMods /\ pm.mod = m
        /\ pm.alternate # Empty => canBeAlternate(pm.alternate, s)
    BY <2>1, StampIsPlaced
  <2> HIDE DEF pm
  <2>3. QED
    BY <1>1, <2>2, PutSound DEF isUsed
<1>3. CASE s \notin Slots
  BY <1>1, <1>3 DEF SoundMap, PlacedMaps
<1>4. QED
  BY <1>2, <1>3

LEMMA PlaceStep ==
    ASSUME MapsInv, NEW m \in Mods \ Rivens, place(m)
    PROVE  MapsInv' /\ UNCHANGED dialogs
<1> DEFINE target == placementTarget(m)
<1>1. /\ ~isUsed(m) /\ target # Empty /\ Edit
      /\ placed' = [placed EXCEPT ![target] = stamp(m, Empty)]
      /\ UNCHANGED dialogs
  BY DEF place, isActionable, isBlocked
<1>2. canPlaceIn(m, target)
  BY <1>1, FreeSlotFits DEF placementTarget
<1>3. SoundMap(placed)
  BY DEF MapsInv
<1>4. /\ stamp(m, Empty) \in PlacedMods /\ stamp(m, Empty).mod = m
      /\ stamp(m, Empty).alternate = Empty
  BY StampIsPlaced
<1> HIDE DEF target
<1>5. SoundMap(placed')
  BY <1>1, <1>2, <1>3, <1>4, PutSound DEF isUsed
<1>6. QED
  BY <1>1, <1>5, EditKeeps

\* Alternates, ranks, and a mod that goes.
LEMMA SameModStep ==
    ASSUME MapsInv, NEW s \in Slots,
           \/ \E m \in Mods : setAlternate(s, m)
           \/ removeAlternate(s) \/ remove(s)
           \/ \E delta \in {-1, 1} : setRank(s, delta)
    PROVE  MapsInv' /\ UNCHANGED dialogs
<1>1. SoundMap(placed) /\ placed \in PlacedMaps
  BY DEF MapsInv, SoundMap
<1>2. Edit /\ UNCHANGED dialogs /\ placed[s] # Empty
  BY DEF setAlternate, removeAlternate, remove, setRank
<1>3. placed[s] \in PlacedMods
  BY <1>1, <1>2 DEF PlacedMaps
<1>4. ASSUME NEW pm \in PlacedMods \cup {Empty},
             placed' = [placed EXCEPT ![s] = pm],
             pm # Empty =>
                /\ pm.mod = placed[s].mod
                /\ \/ pm.alternate = placed[s].alternate
                   \/ pm.alternate = Empty
                   \/ canBeAlternate(pm.alternate, s)
      PROVE  MapsInv'
  <2>1. placed' \in PlacedMaps /\ \A t \in Slots : t # s => placed'[t] = placed[t]
    BY <1>1, <1>4 DEF PlacedMaps
  <2>2. placed'[s] = pm
    BY <1>1, <1>4 DEF PlacedMaps
  <2>3. s \in Filled(placed') =>
           /\ s \in Filled(placed) /\ placed'[s].mod = placed[s].mod
           /\ \/ placed'[s].alternate = placed[s].alternate
              \/ placed'[s].alternate = Empty
              \/ canBeAlternate(placed'[s].alternate, s)
    BY <1>2, <1>4, <2>2 DEF Filled
  <2>4. SoundMap(placed')
    BY <1>1, <2>1, <2>3, ChangeSound
  <2>5. QED
    BY <1>2, <2>4, EditKeeps
<1>5. ASSUME NEW m \in Mods, setAlternate(s, m) PROVE MapsInv'
  <2>1. [placed[s] EXCEPT !.alternate = m] \in PlacedMods
    BY <1>3 DEF PlacedMods
  <2>2. QED
    BY <1>1, <1>3, <1>4, <1>5, <2>1 DEF setAlternate, PlacedMods
<1>6. ASSUME removeAlternate(s) PROVE MapsInv'
  <2>1. [placed[s] EXCEPT !.alternate = Empty] \in PlacedMods
    BY <1>3 DEF PlacedMods
  <2>2. QED
    BY <1>1, <1>3, <1>4, <1>6, <2>1 DEF removeAlternate, PlacedMods
<1>7. ASSUME remove(s) PROVE MapsInv'
  BY <1>4, <1>7 DEF remove
<1>8. ASSUME NEW delta \in {-1, 1}, setRank(s, delta) PROVE MapsInv'
  <2>1. placed[s].rank + delta \in Nat
    BY <1>3, <1>8, ModAssumption DEF setRank, PlacedMods
  <2>2. [placed[s] EXCEPT !.rank = @ + delta] \in PlacedMods
    BY <1>3, <2>1 DEF PlacedMods
  <2>3. QED
    BY <1>1, <1>3, <1>4, <1>8, <2>2 DEF setRank, PlacedMods
<1>9. QED
  BY <1>2, <1>5, <1>6, <1>7, <1>8

LEMMA VisibleSlots == Visible \subseteq Slots
BY SlotAssumption DEF Visible

\* Formas, the cursor and a plan of formas alone touch no mod.
LEMMA NoModStep ==
    ASSUME MapsInv,
           \/ \E s \in Visible : \/ \E p \in Polarities \cup {Empty} : setForma(s, p)
                                \/ select(s)
           \/ undo
           \/ \E f, how : applyFormas(f, how)
    PROVE  MapsInv' /\ UNCHANGED dialogs
<1>1. ASSUME NEW s, NEW p, setForma(s, p) PROVE MapsInv' /\ UNCHANGED dialogs
  <2>1. Edit /\ placed' = placed /\ UNCHANGED dialogs
    BY <1>1 DEF setForma
  <2>2. QED
    BY <2>1, EditKeeps DEF MapsInv
<1>2. ASSUME NEW s, select(s) PROVE MapsInv' /\ UNCHANGED dialogs
  BY <1>2, MapsKept DEF select
<1>3. ASSUME undo PROVE MapsInv' /\ UNCHANGED dialogs
  BY <1>3
     DEF undo, snapshot, MapsInv, SoundMap, Sound, FittingMap, EveryModFits,
         NoNameTwice, AlternatesFit, Filled
<1>4. ASSUME NEW f, NEW how, applyFormas(f, how) PROVE MapsInv' /\ UNCHANGED dialogs
  BY <1>4
     DEF applyFormas, snapshot, MapsInv, SoundMap, Sound, FittingMap,
         EveryModFits, NoNameTwice, AlternatesFit, Filled
<1>5. QED
  BY <1>1, <1>2, <1>3, <1>4

\* A Riven is of the normal kind, and so is every slot one fits.
LEMMA RivenFits ==
    ASSUME NEW m \in Rivens
    PROVE  m \in Mods /\ \A s : canPlaceIn(m, s) <=> SlotKind[s] = "normal"
BY ModAssumption DEF canPlaceIn

LEMMA RivenStep ==
    ASSUME SlotsInv,
           \/ \E m \in Rivens : openForPlacement(m) \/ confirmRiven(m)
           \/ \E s \in Visible : openForEdit(s)
    PROVE  SlotsInv'
<1>1. MapsInv /\ DragInv /\ RivenInv /\ PlanInv
  BY DEF SlotsInv
<1>2. ASSUME UNCHANGED <<drag, pending>> PROVE DragInv' /\ PlanInv'
  BY <1>1, <1>2 DEF DragInv, PlanInv, SoundMap, Sound, FittingMap, EveryModFits,
                    NoNameTwice, AlternatesFit, Filled
<1>3. ASSUME NEW m \in Rivens, openForPlacement(m) PROVE SlotsInv'
  <2>1. canPlaceIn(m, rivenTarget(m))
    BY <1>3, RivenFits, FreeSlotFits DEF openForPlacement, rivenTarget
  <2>2. RivenInv'
    BY <1>3, <2>1, RivenFits DEF openForPlacement, RivenInv
  <2>3. QED
    BY <1>1, <1>2, <1>3, <2>2, MapsKept DEF openForPlacement, SlotsInv
<1>4. ASSUME NEW s \in Visible, openForEdit(s) PROVE SlotsInv'
  <2>1. s \in Slots /\ placed[s] # Empty /\ placed[s].mod \in Rivens
    BY <1>4, VisibleSlots DEF openForEdit
  <2>2. canPlaceIn(placed[s].mod, s)
    BY <1>1, <2>1 DEF MapsInv, SoundMap, Sound, EveryModFits, Filled
  <2>3. RivenInv'
    BY <1>4, <2>1, <2>2, RivenFits DEF openForEdit, RivenInv
  <2>4. QED
    BY <1>1, <1>2, <1>4, <2>3, MapsKept DEF openForEdit, SlotsInv
<1>5. ASSUME NEW m \in Rivens, confirmRiven(m) PROVE SlotsInv'
  <2>1. /\ riven # Empty /\ placeAt(riven, m) /\ riven' = Empty /\ Edit
        /\ UNCHANGED <<drag, pending>>
    BY <1>5 DEF confirmRiven
  <2>2. m \in Mods /\ canPlaceIn(m, riven)
    BY <1>1, <2>1, RivenFits DEF RivenInv
  <2>3. SoundMap(placed')
    BY <1>1, <2>1, <2>2, PlaceAtSound DEF MapsInv
  <2>4. QED
    BY <1>1, <1>2, <2>1, <2>3, EditKeeps DEF SlotsInv, RivenInv
<1>6. QED
  BY <1>3, <1>4, <1>5

LEMMA DragStep ==
    ASSUME SlotsInv,
           \/ \E m \in Mods : dragCard(m)
           \/ \E s \in Visible : dragSlot(s) \/ drop(s)
           \/ dismiss
    PROVE  SlotsInv'
<1>1. MapsInv /\ DragInv /\ RivenInv /\ PlanInv
  BY DEF SlotsInv
<1>2. ASSUME UNCHANGED <<riven, pending>> PROVE RivenInv' /\ PlanInv'
  BY <1>1, <1>2 DEF RivenInv, PlanInv, SoundMap, Sound, FittingMap, EveryModFits,
                    NoNameTwice, AlternatesFit, Filled
<1>3. ASSUME NEW m \in Mods, dragCard(m) PROVE SlotsInv'
  <2>1. DragInv'
    BY <1>3 DEF dragCard, startDrag, DragInv
  <2>2. QED
    BY <1>1, <1>2, <1>3, <2>1, MapsKept DEF dragCard, startDrag, SlotsInv
<1>4. ASSUME NEW s \in Visible, dragSlot(s) PROVE SlotsInv'
  <2>1. DragInv'
    BY <1>4, VisibleSlots DEF dragSlot, startDrag, DragInv
  <2>2. QED
    BY <1>1, <1>2, <1>4, <2>1, MapsKept DEF dragSlot, startDrag, SlotsInv
<1>5. ASSUME NEW t \in Visible, drop(t) PROVE SlotsInv'
  <2>1. /\ drag # Empty /\ drag' = Empty /\ Edit /\ UNCHANGED <<riven, pending>>
        /\ IF drag.kind = "pool" THEN dropCard(t) ELSE swap(drag.slot, t)
    BY <1>5 DEF drop
  <2>2. SoundMap(placed) /\ t \in Slots
    BY <1>1, VisibleSlots DEF MapsInv
  <2>3. CASE drag.kind = "pool"
    <3>1. drag.mod \in Mods
      BY <1>1, <2>1, <2>3 DEF DragInv
    <3>2. QED
      BY <2>1, <2>2, <2>3, <3>1, PlaceAtSound, <1>1, <1>2, EditKeeps
         DEF dropCard, SlotsInv, DragInv
  <2>4. CASE drag.kind # "pool"
    <3>1. drag.slot \in Slots
      BY <1>1, <2>1, <2>4 DEF DragInv
    <3>2. SoundMap(placed')
      BY <2>1, <2>2, <2>4, <3>1, SwapSound
    <3>3. QED
      BY <1>1, <1>2, <2>1, <3>2, EditKeeps DEF SlotsInv, DragInv
  <2>5. QED
    BY <2>3, <2>4
<1>6. ASSUME dismiss PROVE SlotsInv'
  BY <1>1, <1>6, MapsKept DEF dismiss, SlotsInv, DragInv, RivenInv, PlanInv
<1>7. QED
  BY <1>3, <1>4, <1>5, <1>6

LEMMA PreviewStep ==
    ASSUME SlotsInv, NEW plan \in heavyPlans, previewPlan(plan)
    PROVE  SlotsInv'
<1>1. MapsInv /\ DragInv /\ RivenInv
  BY DEF SlotsInv
<1>2. pending'.plan = plan
  BY DEF previewPlan
<1>3. PlanInv'
  BY <1>1, <1>2, PlanFits
     DEF PlanInv, SoundMap, Sound, FittingMap, EveryModFits, NoNameTwice,
         AlternatesFit, Filled
<1>4. QED
  BY <1>1, <1>3, MapsKept DEF previewPlan, SlotsInv, DragInv, RivenInv

\* The mods of the plan come back as they were planned, whole maps at a time.
LEMMA ApplyPlanStep ==
    ASSUME SlotsInv, applyPendingPlan
    PROVE  SlotsInv'
<1>1. MapsInv /\ DragInv /\ RivenInv /\ PlanInv
  BY DEF SlotsInv
<1>2. /\ pending # Empty /\ pending' = Empty /\ before' = snapshot
      /\ UNCHANGED <<drag, riven>>
      /\ placed' = placed \/ placed' = pending.plan.builds[Active]
      /\ \A v \in Others : \/ others'[v] = others[v]
                           \/ others'[v] = pending.plan.builds[v]
  BY DEF applyPendingPlan
<1>3. SoundMap(placed') /\ SoundMap(before'.placed)
  BY <1>1, <1>2 DEF MapsInv, PlanInv, snapshot
<1>4. \A v \in Others : FittingMap(others'[v])
  BY <1>1, <1>2 DEF MapsInv, PlanInv
<1>5. MapsInv'
  BY <1>3, <1>4
     DEF MapsInv, SoundMap, Sound, FittingMap, EveryModFits, NoNameTwice,
         AlternatesFit, Filled
<1>6. QED
  BY <1>1, <1>2, <1>5 DEF SlotsInv, DragInv, RivenInv, PlanInv

LEMMA SlotsStep ==
    ASSUME SlotsInv, [Next]_vars
    PROVE  SlotsInv'
<1>1. MapsInv /\ DragInv /\ RivenInv /\ PlanInv
  BY DEF SlotsInv
<1>2. ASSUME MapsInv', UNCHANGED dialogs PROVE SlotsInv'
  BY <1>1, <1>2, DialogsKept DEF SlotsInv
<1>3. ASSUME NEW m \in Mods \ Rivens, place(m) PROVE SlotsInv'
  BY <1>1, <1>2, <1>3, PlaceStep
<1>4. ASSUME \E m \in Rivens : openForPlacement(m) \/ confirmRiven(m)
      PROVE  SlotsInv'
  BY <1>4, RivenStep
<1>5. ASSUME \E m \in Mods : dragCard(m) PROVE SlotsInv'
  BY <1>5, DragStep
<1>6. ASSUME NEW s \in Visible,
             \/ dragSlot(s) \/ drop(s)
             \/ \E m \in Mods : setAlternate(s, m)
             \/ removeAlternate(s) \/ remove(s) \/ openForEdit(s)
             \/ \E p \in Polarities \cup {Empty} : setForma(s, p)
             \/ \E delta \in {-1, 1} : setRank(s, delta)
             \/ select(s)
      PROVE  SlotsInv'
  <2>1. s \in Slots
    BY VisibleSlots
  <2>2. CASE dragSlot(s) \/ drop(s)
    BY <2>2, DragStep
  <2>3. CASE \/ \E m \in Mods : setAlternate(s, m)
             \/ removeAlternate(s) \/ remove(s)
             \/ \E delta \in {-1, 1} : setRank(s, delta)
    BY <1>1, <1>2, <2>1, <2>3, SameModStep
  <2>4. CASE openForEdit(s)
    BY <2>4, RivenStep
  <2>5. CASE (\E p \in Polarities \cup {Empty} : setForma(s, p)) \/ select(s)
    BY <1>1, <1>2, <2>5, NoModStep
  <2>6. QED
    BY <1>6, <2>2, <2>3, <2>4, <2>5
<1>7. CASE dismiss
  BY <1>7, DragStep
<1>8. CASE undo
  BY <1>1, <1>2, <1>8, NoModStep
<1>9. CASE handleAutoForma
  <2>1. CASE \E f, how : applyFormas(f, how)
    BY <1>1, <1>2, <2>1, NoModStep
  <2>2. CASE \E plan \in heavyPlans : previewPlan(plan)
    BY <2>2, PreviewStep
  <2>3. QED
    BY <1>9, <2>1, <2>2 DEF handleAutoForma
<1>10. CASE applyPendingPlan
  BY <1>10, ApplyPlanStep
<1>11. CASE UNCHANGED vars
  BY <1>1, <1>2, <1>11, MapsKept DEF vars, dialogs
<1>12. QED
  BY <1>3, <1>4, <1>5, <1>6, <1>7, <1>8, <1>9, <1>10, <1>11 DEF Next

-----------------------------------------------------------------------------
(* Types                                                                    *)

\* A plan in preview brings the variants it was made for under capacity.
PreviewInv ==
    pending # Empty =>
        /\ pending.plan.forma \in FormaMaps
        /\ pending.plan.builds \in arrangements(pending.variants, pending.plan.forma)
        /\ Active \in DOMAIN pending.variants

TypesInv == SlotsTypeOK /\ PreviewInv

LEMMA NextSlotVisible ==
    ASSUME NEW s, NEW mods
    PROVE  getNextEmptySlot(s, mods) \in Visible \cup {Empty}
<1> DEFINE later == {j \in DOMAIN Layout :
                       /\ mods[Layout[j]] = Empty
                       /\ \E i \in 1..(j - 1) : Layout[i] = s}
<1>1. later \in SUBSET Nat /\ later \subseteq DOMAIN Layout
  BY SlotAssumption
<1>2. getNextEmptySlot(s, mods) = IF later = {} THEN Empty ELSE Layout[Min(later)]
  BY DEF getNextEmptySlot
<1> HIDE DEF later
<1>3. later # {} => Min(later) \in DOMAIN Layout
  BY <1>1, MinIsThere
<1>4. QED
  BY <1>2, <1>3 DEF Visible

\* What the mods in some slots ask for.
LEMMA WantedIsPolarity ==
    ASSUME NEW builds, \A v \in DOMAIN builds : builds[v] \in PlacedMaps, NEW S
    PROVE  wanted(builds, S) \subseteq Polarities
<1>1. ASSUME NEW v \in DOMAIN builds, NEW s \in S \cap Filled(builds[v])
      PROVE  builds[v][s].mod \in Mods
  BY <1>1 DEF Filled, PlacedMaps, PlacedMods
<1>2. QED
  BY <1>1, ModAssumption DEF wanted

LEMMA StepsAreFormas ==
    ASSUME NEW f \in FormaMaps, NEW g \in FormaMaps
    PROVE  steps(f, g) \in FormaMaps
BY DEF steps, FormaMaps

\* A plan that takes nothing away is carried out as it stands.
LEMMA StepsArePlan ==
    ASSUME NEW f \in FormaMaps, NEW g \in FormaMaps,
           \A s \in Slots : g[s] = f[s] \/ g[s] \in Polarities
    PROVE  steps(f, g) = g
BY SlotAssumption DEF steps, FormaMaps

LEMMA AssignmentsAreFormas ==
    ASSUME NEW builds, \A v \in DOMAIN builds : builds[v] \in PlacedMaps,
           NEW start \in FormaMaps, NEW f \in assignments(builds, start)
    PROVE  /\ f \in FormaMaps
           /\ \A s \in Slots : f[s] = start[s] \/ f[s] \in Polarities
<1> DEFINE asked == {s \in Slots : wanted(builds, {s}) # {}}
<1>1. PICK g : /\ \A s \in asked : g[s] \in slotSpec(builds, start, s)
               /\ f = [s \in Slots |-> IF s \in asked THEN g[s] ELSE start[s]]
  BY DEF assignments
<1>2. \A s \in Slots : f[s] = start[s] \/ f[s] \in Polarities
  BY <1>1, WantedIsPolarity DEF slotSpec
<1>3. QED
  BY <1>1, <1>2 DEF FormaMaps

LEMMA NewFormasAreFormas ==
    ASSUME NEW builds, NEW start \in FormaMaps, NEW omni, NEW k,
           NEW f \in withNewFormas(builds, start, omni, k)
    PROVE  /\ f \in FormaMaps
           /\ \A s \in Slots : f[s] = start[s] \/ f[s] \in Polarities
<1>1. PICK combo \in kSubset(k, candidates(builds, start, omni)) :
         f = [s \in Slots |-> IF \E c \in combo : c[1] = s
                               THEN (CHOOSE c \in combo : c[1] = s)[2] ELSE start[s]]
  BY DEF withNewFormas
<1>2. \A c \in combo : c[2] \in Polarities
  BY DEF kSubset, candidates
<1>3. \A s \in Slots : f[s] = start[s] \/ f[s] \in Polarities
  BY <1>1, <1>2
<1>4. QED
  BY <1>1, <1>3 DEF FormaMaps

-----------------------------------------------------------------------------
(* The greedy fix                                                           *)

\* What the planner is given.
Planned(builds) ==
    /\ IsFiniteSet(DOMAIN builds) /\ DOMAIN builds # {}
    /\ \A v \in DOMAIN builds : builds[v] \in PlacedMaps

LEMMA WorstInt ==
    ASSUME NEW builds, Planned(builds), NEW f
    PROVE  worst(builds, f) \in Int
<1> DEFINE V == DOMAIN builds
           H(v) == headroom(builds[v], f)
           h == [v \in V |-> -H(v)]
<1>1. \A v \in V : H(v) \in Int
  BY HeadroomInt DEF Planned
<1>2. worst(builds, f) = Min({H(v) : v \in V})
  BY DEF worst
<1> HIDE DEF H
<1>3. h \in [V -> Int] /\ \A v \in V : h[v] = -H(v)
  BY <1>1
<1> HIDE DEF h
<1>4. PICK v \in V : \A w \in V : h[w] =< h[v]
  BY <1>3, FiniteMax DEF Planned
<1>5. \A w \in V : H(v) =< H(w)
  BY <1>1, <1>3, <1>4
<1>6. Min({H(w) : w \in V}) \in {H(w) : w \in V}
  BY <1>5, Zenon DEF Min
<1>7. QED
  BY <1>1, <1>2, <1>6

\* Formas that add to the ones a plan started from and help, if they differ.
Helping(builds, start) ==
    {f \in FormaMaps :
        /\ \A s \in Slots : f[s] = start[s] \/ f[s] \in Polarities
        /\ f # start =>
              /\ worst(builds, f) > worst(builds, start)
              /\ \A v \in DOMAIN builds : headroom(builds[v], f) >= headroom(builds[v], start)}

LEMMA BetterHelps ==
    ASSUME NEW builds, Planned(builds), NEW start, NEW f \in Helping(builds, start),
           NEW g \in better(builds, start, f)
    PROVE  g \in Helping(builds, start)
<1>1. PICK s \in Slots, p \in Polarities : g = [f EXCEPT ![s] = p]
  BY DEF better
<1>2. /\ worst(builds, g) > worst(builds, f)
      /\ \A v \in DOMAIN builds : headroom(builds[v], g) >= headroom(builds[v], start)
  BY DEF better
<1>3. /\ worst(builds, g) \in Int /\ worst(builds, f) \in Int
      /\ worst(builds, start) \in Int
  BY WorstInt
<1>4. worst(builds, f) >= worst(builds, start)
  BY <1>3 DEF Helping
<1>5. worst(builds, g) > worst(builds, start)
  BY <1>2, <1>3, <1>4
<1>6. /\ g \in FormaMaps
      /\ \A t \in Slots : g[t] = start[t] \/ g[t] \in Polarities
  BY <1>1 DEF Helping, FormaMaps
<1>7. QED
  BY <1>2, <1>5, <1>6 DEF Helping

\* Of the formas that help there is one that helps most.
LEMMA BestOfBetter ==
    ASSUME NEW builds, Planned(builds), NEW start, NEW f,
           better(builds, start, f) # {}
    PROVE  \E g \in better(builds, start, f) :
              \A h \in better(builds, start, f) : worst(builds, h) =< worst(builds, g)
<1> DEFINE B == better(builds, start, f)
           E(c) == [f EXCEPT ![c[1]] = c[2]]
           D == Slots \X Polarities
           I == {E(c) : c \in D}
           put == [c \in D |-> E(c)]
           h == [g \in B |-> worst(builds, g)]
<1>1. IsFiniteSet(D)
  BY SlotsAreFinite, SlotAssumption, FS_Product
<1>2. put \in Surjection(D, I)
  BY DEF Surjection
<1>3. B \in SUBSET I
  <2>1. \A s \in Slots, p \in Polarities : [f EXCEPT ![s] = p] = E(<<s, p>>)
    OBVIOUS
  <2>2. \A s \in Slots, p \in Polarities : [f EXCEPT ![s] = p] \in I
    BY <2>1
  <2> HIDE DEF I
  <2>3. QED
    BY <2>2 DEF better
<1> HIDE DEF D, I, put
<1>4. IsFiniteSet(I)
  BY <1>1, <1>2, FS_Surjection
<1>5. IsFiniteSet(B)
  BY <1>3, <1>4, FS_Subset
<1> HIDE DEF B
<1>6. h \in [B -> Int] /\ \A g \in B : h[g] = worst(builds, g)
  BY WorstInt
<1> HIDE DEF h
<1>7. PICK g \in B : \A y \in B : h[y] =< h[g]
  <2>1. B # {}
    BY DEF B
  <2>2. QED
    BY <1>5, <1>6, <2>1, FiniteMax
<1>8. \A y \in B : worst(builds, y) =< worst(builds, g)
  BY <1>6, <1>7
<1>9. QED
  BY <1>8 DEF B

LEMMA BestEffortHelps ==
    ASSUME NEW builds, Planned(builds), NEW start \in FormaMaps
    PROVE  bestEffort(builds, start) \in Helping(builds, start)
<1> DEFINE G == Helping(builds, start)
           best(f) == CHOOSE g \in better(builds, start, f) :
                        \A h \in better(builds, start, f) : worst(builds, h) =< worst(builds, g)
           F(f) == IF worst(builds, f) >= 0 \/ better(builds, start, f) = {} THEN f
                   ELSE best(f)
           step == [n \in 1 .. Passes |-> [f \in G |-> F(f)]]
           Eq(pass) == pass = [n \in 0 .. Passes |-> IF n = 0 THEN start ELSE F(pass[n - 1])]
           pass == CHOOSE pass : Eq(pass)
<1>1. bestEffort(builds, start) = pass[Passes]
  BY DEF bestEffort
<1>2. start \in G
  BY DEF Helping
<1>3. ASSUME NEW f \in G PROVE F(f) \in G
  <2>1. better(builds, start, f) # {} => best(f) \in better(builds, start, f)
    <3>1. CASE better(builds, start, f) # {}
      BY <3>1, BestOfBetter, Zenon
    <3>2. QED
      BY <3>1
  <2> HIDE DEF best
  <2>2. QED
    BY <2>1, BetterHelps
<1>4. Passes \in Nat
  BY DEF Passes
<1> HIDE DEF G, F, pass
<1>5. step \in [1 .. Passes -> [G -> G]]
  BY <1>3
<1>6. \A n \in 1 .. Passes : \A f \in G : step[n][f] = F(f)
  OBVIOUS
<1> HIDE DEF step
<1>7. PICK f \in [0 .. Passes -> G] :
         f[0] = start /\ \A n \in 1 .. Passes : f[n] = step[n][f[n - 1]]
  <2>1. Recursions(G, start, Passes, step) # {}
    BY <1>2, <1>4, <1>5, RecursionExists
  <2>2. QED
    BY <2>1 DEF Recursions
<1>8. \A n \in 1 .. Passes : f[n] = F(f[n - 1])
  BY <1>4, <1>6, <1>7
<1>9. Eq(f)
  BY <1>4, <1>7, <1>8
<1>10. Eq(pass)
  <2> HIDE DEF Eq
  <2>1. QED
    BY <1>9 DEF pass
<1>11. pass[0] = start /\ \A n \in 1 .. Passes : pass[n] = F(pass[n - 1])
  BY <1>4, <1>10
<1> HIDE DEF Eq
<1> DEFINE T == {n \in 0 .. Passes : pass[n] \in G}
<1>12. 0 \in T
  BY <1>2, <1>4, <1>11
<1>13. \A n \in 1 .. Passes : n - 1 \in T => n \in T
  BY <1>3, <1>4, <1>11
<1> HIDE DEF T
<1>14. \A n \in 0 .. Passes : n \in T
  BY <1>4, <1>12, <1>13, UpTo
<1>15. pass[Passes] \in G
  BY <1>4, <1>14 DEF T
<1>16. QED
  BY <1>1, <1>15 DEF G

-----------------------------------------------------------------------------
(* What the formas become                                                   *)

LEMMA VariantsArePlanned ==
    ASSUME SlotsTypeOK
    PROVE  /\ Planned(allVariantSlots) /\ DOMAIN allVariantSlots = Others \cup {Active}
           /\ forma \in FormaMaps
<1>1. /\ placed \in PlacedMaps /\ others \in [Others -> PlacedMaps] /\ forma \in FormaMaps
  BY DEF SlotsTypeOK
<1>2. IsFiniteSet(Others \cup {Active})
  BY EditorAssumption, FS_AddElement
<1>3. NoMods \in PlacedMaps /\ \A v \in Others : dropOrphanSlots(others[v]) \in PlacedMaps
  BY <1>1 DEF NoMods, dropOrphanSlots, PlacedMaps
<1>4. QED
  BY <1>1, <1>2, <1>3 DEF Planned, allVariantSlots, variantSlots

\* A plan of formas alone is what the formas become.
LEMMA ExactFix ==
    ASSUME SlotsTypeOK, NEW f \in exactFix
    PROVE  f \in FormaMaps /\ steps(forma, f) = f /\ Fits(allVariantSlots, f)
<1>1. f \in assignments(allVariantSlots, forma) /\ Fits(allVariantSlots, f)
  BY DEF exactFix, stage1
<1>2. QED
  BY <1>1, VariantsArePlanned, AssignmentsAreFormas, StepsArePlan DEF Planned

LEMMA PartialFix ==
    ASSUME SlotsTypeOK
    PROVE  /\ partialFix \in FormaMaps /\ steps(forma, partialFix) = partialFix
           /\ partialFix \in Helping(allVariantSlots, forma)
<1>1. partialFix \in Helping(allVariantSlots, forma)
  BY VariantsArePlanned, BestEffortHelps DEF partialFix
<1>2. QED
  BY <1>1, VariantsArePlanned, StepsArePlan DEF Helping

LEMMA HeavyPlan ==
    ASSUME SlotsTypeOK, NEW plan \in heavyPlans
    PROVE  /\ plan.forma \in FormaMaps
           /\ plan.builds \in arrangements(allVariantSlots, plan.forma)
<1>1. PICK omni : plan \in searchWithRearrangement(allVariantSlots, forma, omni)
  BY DEF heavyPlans
<1>2. PICK k : \E f \in withNewFormas(allVariantSlots, forma, omni, k) :
         /\ plan.forma = steps(forma, f)
         /\ plan.builds \in arrangements(allVariantSlots, f)
  BY <1>1, SearchArranges
<1>3. PICK f \in withNewFormas(allVariantSlots, forma, omni, k) :
         /\ plan.forma = steps(forma, f)
         /\ plan.builds \in arrangements(allVariantSlots, f)
  BY <1>2
<1>4. f \in FormaMaps /\ steps(forma, f) = f
  BY <1>3, VariantsArePlanned, NewFormasAreFormas, StepsArePlan
<1>5. QED
  BY <1>3, <1>4

-----------------------------------------------------------------------------
(* Types of each step                                                       *)

LEMMA InitTypes == Init => TypesInv
<1> SUFFICES ASSUME Init PROVE TypesInv
  OBVIOUS
<1>1. PICK b \in SavedBuilds :
         /\ placed = b.placed /\ forma = b.forma /\ others = b.others
         /\ before = [placed |-> b.placed, forma |-> b.forma]
  BY DEF Init
<1>2. /\ b.placed \in PlacedMaps /\ b.forma \in FormaMaps
      /\ b.others \in [Others -> PlacedMaps]
  BY EditorAssumption
<1> DEFINE normal == {i \in DOMAIN Layout : isNormal(Layout[i])}
<1>3. normal # {} /\ normal \in SUBSET Nat /\ normal \subseteq DOMAIN Layout
  BY SlotAssumption DEF isNormal
<1>4. selected = Layout[Min(normal)]
  BY DEF Init
<1> HIDE DEF normal
<1>5. Min(normal) \in DOMAIN Layout
  BY <1>3, MinIsThere
<1>6. selected \in Visible
  BY <1>4, <1>5 DEF Visible
<1>7. /\ drag = Empty /\ riven = Empty /\ pending = Empty /\ edits = 0 /\ last = "edit"
  BY DEF Init
<1>8. QED
  BY <1>1, <1>2, <1>6, <1>7, EditorAssumption DEF TypesInv, SlotsTypeOK, PreviewInv

\* An edit leaves an entry to undo and is counted.
LEMMA EditTypes ==
    ASSUME SlotsTypeOK, edits < MaxEdits, edits' = edits + 1, before' = snapshot
    PROVE  /\ edits' \in 0 .. MaxEdits
           /\ before' \in [placed : PlacedMaps, forma : FormaMaps]
BY EditorAssumption DEF SlotsTypeOK, snapshot

LEMMA DragKept ==
    ASSUME UNCHANGED <<drag, riven, pending>>, PreviewInv
    PROVE  PreviewInv'
BY DEF PreviewInv

LEMMA TypesStep ==
    ASSUME SlotsInv, SlotsInv', TypesInv, [Next]_vars
    PROVE  TypesInv'
<1>1. /\ placed \in PlacedMaps /\ forma \in FormaMaps /\ selected \in Visible \cup {Empty}
      /\ others \in [Others -> PlacedMaps]
      /\ before \in [placed : PlacedMaps, forma : FormaMaps]
      /\ drag \in {Empty} \cup [kind : {"pool"}, mod : Mods]
                           \cup [kind : {"slot"}, slot : Slots]
      /\ riven \in Slots \cup {Empty}
      /\ edits \in 0 .. MaxEdits
      /\ last \in {"edit", "exact", "partial", "stale"}
      /\ SlotsTypeOK /\ PreviewInv
  BY DEF TypesInv, SlotsTypeOK
<1>2. placed' \in PlacedMaps /\ \A v \in Others : others'[v] \in PlacedMaps
  BY DEF SlotsInv, MapsInv, SoundMap, FittingMap
<1>3. ASSUME Edit, forma' \in FormaMaps, selected' \in Visible \cup {Empty},
             drag' \in {drag, Empty}, riven' \in {riven, Empty}, pending' = pending
      PROVE  TypesInv'
  <2>1. /\ edits' \in 0 .. MaxEdits
        /\ before' \in [placed : PlacedMaps, forma : FormaMaps]
        /\ others' = others /\ last' = "edit"
    BY <1>1, <1>3, EditTypes DEF Edit
  <2>2. PreviewInv'
    BY <1>1, <1>3 DEF PreviewInv
  <2>3. QED
    BY <1>1, <1>2, <1>3, <2>1, <2>2 DEF TypesInv, SlotsTypeOK
<1>4. ASSUME UNCHANGED <<placed, forma, others, before, edits>>, last' = "edit",
             selected' \in Visible \cup {Empty},
             drag' \in {Empty} \cup [kind : {"pool"}, mod : Mods]
                              \cup [kind : {"slot"}, slot : Slots],
             riven' \in Slots \cup {Empty}, PreviewInv'
      PROVE  TypesInv'
  BY <1>1, <1>4 DEF TypesInv, SlotsTypeOK
<1>5. ASSUME NEW f \in FormaMaps, NEW how \in {"exact", "partial"}, applyFormas(f, how)
      PROVE  TypesInv'
  <2>1. /\ edits' \in 0 .. MaxEdits
        /\ before' \in [placed : PlacedMaps, forma : FormaMaps]
    BY <1>1, <1>5, EditTypes DEF applyFormas
  <2>2. forma' \in FormaMaps
    BY <1>1, <1>5, StepsAreFormas DEF applyFormas
  <2>3. PreviewInv'
    BY <1>1, <1>5, DragKept DEF applyFormas, dialogs
  <2>4. QED
    BY <1>1, <1>2, <1>5, <2>1, <2>2, <2>3 DEF applyFormas, dialogs, TypesInv, SlotsTypeOK
<1>6. ASSUME NEW m \in Mods \ Rivens, place(m) PROVE TypesInv'
  BY <1>1, <1>3, <1>6, NextSlotVisible DEF place, dialogs
<1>7. ASSUME NEW m \in Rivens, openForPlacement(m) PROVE TypesInv'
  <2>1. rivenTarget(m) \in Slots
    BY <1>1, <1>7, RivenFits, FreeSlotFits, VisibleSlots DEF openForPlacement, rivenTarget
  <2>2. QED
    BY <1>1, <1>4, <1>7, <2>1 DEF openForPlacement, PreviewInv
<1>8. ASSUME NEW m \in Rivens, confirmRiven(m) PROVE TypesInv'
  BY <1>1, <1>3, <1>8, NextSlotVisible DEF confirmRiven
<1>9. ASSUME NEW m \in Mods, dragCard(m) PROVE TypesInv'
  BY <1>1, <1>4, <1>9 DEF dragCard, startDrag, PreviewInv
<1>10. ASSUME NEW s \in Visible, dragSlot(s) PROVE TypesInv'
  BY <1>1, <1>4, <1>10, VisibleSlots DEF dragSlot, startDrag, PreviewInv
<1>11. ASSUME NEW s \in Visible, drop(s) PROVE TypesInv'
  BY <1>1, <1>3, <1>11 DEF drop
<1>12. ASSUME NEW s \in Visible,
              \/ \E m \in Mods : setAlternate(s, m)
              \/ removeAlternate(s) \/ remove(s)
              \/ \E delta \in {-1, 1} : setRank(s, delta)
       PROVE  TypesInv'
  BY <1>1, <1>3, <1>12 DEF setAlternate, removeAlternate, remove, setRank, dialogs
<1>13. ASSUME NEW s \in Visible, openForEdit(s) PROVE TypesInv'
  BY <1>1, <1>4, <1>13, VisibleSlots DEF openForEdit, PreviewInv
<1>14. ASSUME NEW s \in Visible, NEW p \in Polarities \cup {Empty}, setForma(s, p)
       PROVE  TypesInv'
  <2>1. forma' \in FormaMaps
    BY <1>1, <1>14, VisibleSlots DEF setForma, FormaMaps
  <2>2. QED
    BY <1>1, <1>3, <1>14, <2>1 DEF setForma, dialogs
<1>15. ASSUME NEW s \in Visible, select(s) PROVE TypesInv'
  BY <1>1, <1>4, <1>15 DEF select, dialogs, PreviewInv
<1>16. CASE dismiss
  BY <1>1, <1>4, <1>16 DEF dismiss, PreviewInv
<1>17. CASE undo
  <2>1. /\ forma' \in FormaMaps /\ before' \in [placed : PlacedMaps, forma : FormaMaps]
        /\ last' = "edit" /\ UNCHANGED <<selected, others, edits, drag, riven, pending>>
    BY <1>1, <1>17 DEF undo, snapshot, dialogs
  <2>2. PreviewInv'
    BY <1>1, <2>1, DragKept
  <2>3. QED
    BY <1>1, <1>2, <2>1, <2>2 DEF TypesInv, SlotsTypeOK
<1>18. CASE handleAutoForma
  <2>1. ASSUME NEW f \in exactFix, applyFormas(f, "exact") PROVE TypesInv'
    BY <1>1, <1>5, <2>1, ExactFix
  <2>2. CASE applyFormas(partialFix, "partial")
    BY <1>1, <1>5, <2>2, PartialFix
  <2>3. ASSUME NEW plan \in heavyPlans, previewPlan(plan) PROVE TypesInv'
    <3>1. pending'.plan = plan /\ pending'.variants = allVariantSlots
      BY <2>3 DEF previewPlan
    <3>2. PreviewInv'
      BY <1>1, <3>1, HeavyPlan, VariantsArePlanned DEF PreviewInv, TypesInv
    <3>3. QED
      BY <1>1, <1>4, <2>3, <3>2 DEF previewPlan
  <2>4. QED
    BY <1>18, <2>1, <2>2, <2>3 DEF handleAutoForma
<1>19. CASE applyPendingPlan
  <2>1. /\ pending.plan.forma \in FormaMaps
        /\ pending' = Empty /\ edits < MaxEdits /\ edits' = edits + 1 /\ before' = snapshot
        /\ forma' = [s \in Slots |-> IF pending.plan.forma[s] # pending.forma[s]
                                     THEN pending.plan.forma[s] ELSE forma[s]]
        /\ others' = [v \in Others |-> others'[v]]
        /\ last' \in {"exact", "stale"}
        /\ UNCHANGED <<selected, drag, riven>>
    BY <1>1, <1>19 DEF applyPendingPlan, PreviewInv
  <2>2. forma' \in FormaMaps
    BY <1>1, <2>1 DEF FormaMaps
  <2>3. others' \in [Others -> PlacedMaps]
    BY <1>2, <2>1
  <2>4. /\ edits' \in 0 .. MaxEdits
        /\ before' \in [placed : PlacedMaps, forma : FormaMaps]
    BY <1>1, <2>1, EditTypes
  <2>5. QED
    BY <1>1, <1>2, <2>1, <2>2, <2>3, <2>4 DEF TypesInv, SlotsTypeOK, PreviewInv
<1>20. CASE UNCHANGED vars
  BY <1>1, <1>20, DragKept DEF vars, TypesInv, SlotsTypeOK
<1>21. QED
  BY <1>6, <1>7, <1>8, <1>9, <1>10, <1>11, <1>12, <1>13, <1>14, <1>15, <1>16,
     <1>17, <1>18, <1>19, <1>20
     DEF Next

-----------------------------------------------------------------------------
(* What a plan brings                                                       *)

\* However many slots hold one of some mods, as many do when they have moved.
LEMMA MovedCount ==
    ASSUME NEW mods \in PlacedMaps,
           NEW from, from = {s \in Filled(mods) : movable(s)},
           NEW to \in [from -> {s \in Slots : movable(s)}],
           \A s, t \in from : to[s] = to[t] => s = t,
           NEW X, Empty \notin X
    PROVE  Cardinality({t \in Slots : moved(mods, to)[t] \in X})
             = Cardinality({t \in Slots : mods[t] \in X})
<1> DEFINE new == moved(mods, to)
           A == {t \in Slots : mods[t] \in X}
           B == {t \in Slots : new[t] \in X}
           g == [t \in A |-> IF movable(t) THEN to[t] ELSE t]
<1>1. DOMAIN to = from /\ from \subseteq Slots
  BY DEF Filled
<1>2. \A t \in from : to[t] \in Slots /\ movable(to[t]) /\ new[to[t]] = mods[t]
  <2> SUFFICES ASSUME NEW t \in from
               PROVE  to[t] \in Slots /\ movable(to[t]) /\ new[to[t]] = mods[t]
    OBVIOUS
  <2>1. to[t] \in Slots /\ movable(to[t])
    OBVIOUS
  <2>2. (CHOOSE u \in from : to[u] = to[t]) = t
    OBVIOUS
  <2>3. new[to[t]] = mods[CHOOSE u \in from : to[u] = to[t]]
    BY <1>1, <2>1 DEF moved
  <2>4. QED
    BY <2>1, <2>2, <2>3
<1>3. \A t \in Slots : ~movable(t) => new[t] = mods[t]
  BY DEF moved
<1>4. \A s \in Filled(new) : \E t \in Filled(mods) :
         /\ new[s] = mods[t]
         /\ IF movable(s) THEN t \in from /\ to[t] = s ELSE t = s
  BY MovedFrom
<1>5. \A t \in A : movable(t) => t \in from
  BY DEF Filled
<1>6. \A t \in from : movable(t)
  OBVIOUS
<1> HIDE DEF new
<1>7. g \in [A -> B]
  BY <1>2, <1>3, <1>5
<1>8. \A t, u \in A : g[t] = g[u] => t = u
  BY <1>2, <1>5
<1>9. \A s \in B : \E t \in A : g[t] = s
  <2> SUFFICES ASSUME NEW s \in B PROVE \E t \in A : g[t] = s
    OBVIOUS
  <2>1. s \in Filled(new)
    BY DEF Filled
  <2>2. PICK t \in Filled(mods) :
           /\ new[s] = mods[t]
           /\ IF movable(s) THEN t \in from /\ to[t] = s ELSE t = s
    BY <1>4, <2>1
  <2>3. t \in A /\ g[t] = s
    BY <1>6, <2>2 DEF Filled
  <2>4. QED
    BY <2>3
<1>10. IsFiniteSet(A)
  BY SlotsAreFinite, FS_Subset
<1> HIDE DEF A, B, g
<1>11. ExistsBijection(A, B)
  BY <1>7, <1>8, <1>9 DEF ExistsBijection, Bijection, Injection, Surjection, IsInjective
<1>12. Cardinality(B) = Cardinality(A)
  BY <1>10, <1>11, FS_Bijection
<1>13. QED
  BY <1>12 DEF A, B, new

\* A rearranged variant fits, has the mods it had, and none where it shows none.
LEMMA ArrangedKeeps ==
    ASSUME NEW mods \in PlacedMaps, NEW f, NEW arranged \in tryArrangeVariant(mods, f)
    PROVE  /\ headroom(arranged, f) >= 0 /\ SameMods(mods, arranged)
           /\ arranged \in PlacedMaps
           /\ Filled(mods) \subseteq Visible => Filled(arranged) \subseteq Visible
<1> DEFINE from == {s \in Filled(mods) : movable(s)}
<1>1. /\ headroom(arranged, f) >= 0
      /\ arranged = mods \/ arranged \in permutations(mods)
  BY DEF tryArrangeVariant
<1>2. CASE arranged = mods
  BY <1>1, <1>2 DEF SameMods
<1>3. CASE arranged \in permutations(mods)
  <2>1. PICK to \in [from -> {s \in Slots : movable(s)}] :
           /\ \A s, t \in from : to[s] = to[t] => s = t
           /\ arranged = moved(mods, to)
    BY <1>3 DEF permutations
  <2>2. arranged \in PlacedMaps
    BY <2>1, MovedFrom
  <2>3. \A s \in Slots : ~movable(s) => arranged[s] = mods[s]
    BY <2>1 DEF moved
  <2>4. ASSUME NEW X, Empty \notin X
        PROVE  Cardinality({t \in Slots : arranged[t] \in X})
                 = Cardinality({t \in Slots : mods[t] \in X})
    BY <2>1, <2>4, MovedCount
  <2>5. ASSUME NEW s \in Filled(mods)
        PROVE  Cardinality({t \in Slots : arranged[t] = mods[s]})
                 = Cardinality({t \in Slots : mods[t] = mods[s]})
    <3>1. Empty \notin {mods[s]}
      BY DEF Filled
    <3>2. /\ {t \in Slots : arranged[t] \in {mods[s]}} = {t \in Slots : arranged[t] = mods[s]}
          /\ {t \in Slots : mods[t] \in {mods[s]}} = {t \in Slots : mods[t] = mods[s]}
      OBVIOUS
    <3>3. QED
      BY <2>4, <3>1, <3>2
  <2>6. Cardinality(Filled(arranged)) = Cardinality(Filled(mods))
    <3> DEFINE X == PlacedMods \ {Empty}
    <3>1. /\ {t \in Slots : arranged[t] \in X} = Filled(arranged)
          /\ {t \in Slots : mods[t] \in X} = Filled(mods)
      BY <2>2 DEF Filled, PlacedMaps
    <3>2. Empty \notin X
      OBVIOUS
    <3> HIDE DEF X
    <3>3. QED
      BY <2>4, <3>1, <3>2
  <2>7. \A s \in Slots : movable(s) => s \in Visible
    BY SlotAssumption DEF movable, isNormal, Visible
  <2>8. Filled(mods) \subseteq Visible => Filled(arranged) \subseteq Visible
    BY <2>3, <2>7 DEF Filled
  <2>9. QED
    BY <1>1, <2>2, <2>3, <2>5, <2>6, <2>8 DEF SameMods
<1>4. QED
  BY <1>1, <1>2, <1>3

LEMMA OrphanFree ==
    ASSUME NEW mods \in PlacedMaps
    PROVE  /\ Filled(dropOrphanSlots(mods)) \subseteq Visible
           /\ dropOrphanSlots(mods) \in PlacedMaps
           /\ Filled(mods) \subseteq Visible => dropOrphanSlots(mods) = mods
BY DEF dropOrphanSlots, Filled, PlacedMaps

\* An empty variant is not over any capacity, and has nothing to rearrange.
LEMMA EmptyStays ==
    ASSUME NEW f, NEW arranged \in tryArrangeVariant(NoMods, f)
    PROVE  arranged = NoMods
<1>1. {s \in Filled(NoMods) : movable(s)} = {}
  BY DEF Filled, NoMods
<1>2. Cardinality({s \in Filled(NoMods) : movable(s)}) =< 1
  BY <1>1, FS_EmptySet
<1>3. QED
  BY <1>2 DEF tryArrangeVariant

\* What a plan, applied where it was made, makes of the variants and formas.
LEMMA PlanIsApplied ==
    ASSUME SlotsTypeOK, PreviewInv, applyPendingPlan,
           pending.variants = allVariantSlots, pending.forma = forma
    PROVE  /\ forma' = pending.plan.forma
           /\ \A v \in Others \cup {Active} :
                 /\ pending.plan.builds[v]
                       \in tryArrangeVariant(allVariantSlots[v], pending.plan.forma)
                 /\ IF arrangementEquals(allVariantSlots[v], pending.plan.builds[v])
                    THEN allVariantSlots'[v] = allVariantSlots[v]
                    ELSE allVariantSlots'[v] = pending.plan.builds[v]
<1> DEFINE plan == pending.plan
           changed(v) == ~arrangementEquals(allVariantSlots[v], plan.builds[v])
<1>1. /\ plan.forma \in FormaMaps /\ plan.builds \in arrangements(allVariantSlots, plan.forma)
      /\ forma' = [s \in Slots |-> IF plan.forma[s] # forma[s] THEN plan.forma[s] ELSE forma[s]]
      /\ placed' = IF changed(Active) THEN plan.builds[Active] ELSE placed
      /\ others' = [v \in Others |-> IF changed(v) THEN plan.builds[v] ELSE others[v]]
  BY DEF applyPendingPlan, PreviewInv
<1>2. /\ DOMAIN allVariantSlots = Others \cup {Active}
      /\ allVariantSlots[Active] = placed
      /\ \A v \in Others : allVariantSlots[v] =
            IF v \in Sharing THEN dropOrphanSlots(others[v]) ELSE NoMods
      /\ others \in [Others -> PlacedMaps]
  BY EditorAssumption DEF allVariantSlots, variantSlots, SlotsTypeOK
<1>3. /\ allVariantSlots'[Active] = placed'
      /\ \A v \in Others : allVariantSlots'[v] =
            IF v \in Sharing THEN dropOrphanSlots(others'[v]) ELSE NoMods
  BY EditorAssumption DEF allVariantSlots, variantSlots, dropOrphanSlots, NoMods
<1>4. forma' = plan.forma
  BY <1>1 DEF FormaMaps
<1>5. \A v \in Others \cup {Active} :
         plan.builds[v] \in tryArrangeVariant(allVariantSlots[v], plan.forma)
  BY <1>1, <1>2 DEF arrangements
<1> HIDE DEF plan
<1>6. allVariantSlots'[Active] = IF changed(Active) THEN plan.builds[Active]
                                 ELSE allVariantSlots[Active]
  BY <1>1, <1>2, <1>3
<1>7. ASSUME NEW v \in Others
      PROVE  allVariantSlots'[v] = IF changed(v) THEN plan.builds[v] ELSE allVariantSlots[v]
  <2>1. CASE v \notin Sharing
    BY <1>2, <1>3, <1>5, <2>1, EmptyStays
  <2>2. CASE v \in Sharing
    <3>1. /\ allVariantSlots[v] = dropOrphanSlots(others[v])
          /\ allVariantSlots'[v] = dropOrphanSlots(others'[v])
          /\ others[v] \in PlacedMaps
      BY <1>2, <1>3, <2>2
    <3>2. allVariantSlots[v] \in PlacedMaps /\ Filled(allVariantSlots[v]) \subseteq Visible
      BY <3>1, OrphanFree
    <3>3. plan.builds[v] \in PlacedMaps /\ Filled(plan.builds[v]) \subseteq Visible
      BY <1>5, <3>2, ArrangedKeeps
    <3>4. dropOrphanSlots(plan.builds[v]) = plan.builds[v]
      BY <3>3, OrphanFree
    <3>5. others'[v] = IF changed(v) THEN plan.builds[v] ELSE others[v]
      BY <1>1
    <3>6. QED
      BY <3>1, <3>4, <3>5
  <2>3. QED
    BY <2>1, <2>2
<1>8. QED
  BY <1>4, <1>5, <1>6, <1>7 DEF plan

\* What a step that applied a plan has done.
Delivers ==
    /\ last' = "exact" =>
         \A v \in Others \cup {Active} :
             headroom(allVariantSlots'[v], forma') >= 0 \/ LosesItsMove(v)
    /\ last' = "partial" =>
         /\ worst(allVariantSlots, forma)' > worst(allVariantSlots, forma)
         /\ \A v \in Others \cup {Active} :
               headroom(allVariantSlots'[v], forma') >= headroom(allVariantSlots[v], forma)
    /\ last' \in {"exact", "partial"} =>
         \A v \in Others \cup {Active} :
             SameMods(allVariantSlots[v], allVariantSlots'[v])

LEMMA PlanDelivers ==
    ASSUME SlotsTypeOK, PreviewInv, applyPendingPlan
    PROVE  Delivers
<1>1. last' = IF pending.variants = allVariantSlots /\ pending.forma = forma
              THEN "exact" ELSE "stale"
  BY DEF applyPendingPlan
<1>2. CASE pending.variants = allVariantSlots /\ pending.forma = forma
  <2> DEFINE plan == pending.plan
  <2>1. /\ forma' = plan.forma
        /\ \A v \in Others \cup {Active} :
              /\ plan.builds[v] \in tryArrangeVariant(allVariantSlots[v], plan.forma)
              /\ IF arrangementEquals(allVariantSlots[v], plan.builds[v])
                 THEN allVariantSlots'[v] = allVariantSlots[v]
                 ELSE allVariantSlots'[v] = plan.builds[v]
    BY <1>2, PlanIsApplied
  <2>2. \A v \in Others \cup {Active} : allVariantSlots[v] \in PlacedMaps
    BY VariantsArePlanned DEF Planned
  <2>3. ASSUME NEW v \in Others \cup {Active}
        PROVE  /\ headroom(allVariantSlots'[v], forma') >= 0 \/ LosesItsMove(v)
               /\ SameMods(allVariantSlots[v], allVariantSlots'[v])
    <3>1. /\ headroom(plan.builds[v], plan.forma) >= 0
          /\ SameMods(allVariantSlots[v], plan.builds[v])
      BY <2>1, <2>2, ArrangedKeeps
    <3>2. CASE allVariantSlots'[v] = plan.builds[v]
      BY <2>1, <3>1, <3>2
    <3>3. CASE /\ arrangementEquals(allVariantSlots[v], plan.builds[v])
               /\ allVariantSlots'[v] = allVariantSlots[v]
               /\ plan.builds[v] # allVariantSlots[v]
      <4>1. LosesItsMove(v)
        BY <1>2, <3>3, Zenon DEF LosesItsMove, applyPendingPlan
      <4>2. SameMods(allVariantSlots[v], allVariantSlots'[v])
        BY <3>3 DEF SameMods
      <4>3. QED
        BY <4>1, <4>2
    <3>4. QED
      BY <2>1, <3>2, <3>3
  <2>4. QED
    BY <1>1, <1>2, <2>3 DEF Delivers
<1>3. CASE ~(pending.variants = allVariantSlots /\ pending.forma = forma)
  BY <1>1, <1>3 DEF Delivers
<1>4. QED
  BY <1>2, <1>3

LEMMA FormasDeliver ==
    ASSUME SlotsTypeOK,
           \/ \E f \in exactFix : applyFormas(f, "exact")
           \/ partialFix # forma /\ applyFormas(partialFix, "partial")
    PROVE  Delivers
<1>1. DOMAIN allVariantSlots = Others \cup {Active}
  BY VariantsArePlanned
<1>2. ASSUME UNCHANGED <<placed, others>>
      PROVE  /\ allVariantSlots' = allVariantSlots
             /\ \A v \in Others \cup {Active} :
                   SameMods(allVariantSlots[v], allVariantSlots'[v])
  BY <1>2 DEF allVariantSlots, SameMods
<1>3. ASSUME NEW f \in exactFix, applyFormas(f, "exact") PROVE Delivers
  <2>1. /\ forma' = steps(forma, f) /\ last' = "exact" /\ UNCHANGED <<placed, others>>
    BY <1>3 DEF applyFormas
  <2>2. forma' = f /\ Fits(allVariantSlots, f)
    BY <2>1, ExactFix
  <2>3. \A v \in Others \cup {Active} : headroom(allVariantSlots'[v], forma') >= 0
    BY <1>1, <1>2, <2>1, <2>2 DEF Fits
  <2>4. QED
    BY <1>2, <2>1, <2>3 DEF Delivers
<1>4. ASSUME partialFix # forma, applyFormas(partialFix, "partial") PROVE Delivers
  <2>1. /\ forma' = steps(forma, partialFix) /\ last' = "partial"
        /\ UNCHANGED <<placed, others>>
    BY <1>4 DEF applyFormas
  <2>2. forma' = partialFix /\ partialFix \in Helping(allVariantSlots, forma)
    BY <2>1, PartialFix
  <2>3. /\ worst(allVariantSlots, forma') > worst(allVariantSlots, forma)
        /\ \A v \in Others \cup {Active} :
              headroom(allVariantSlots[v], forma') >= headroom(allVariantSlots[v], forma)
    BY <1>1, <1>4, <2>2 DEF Helping
  <2>4. /\ worst(allVariantSlots', forma') > worst(allVariantSlots, forma)
        /\ \A v \in Others \cup {Active} :
              headroom(allVariantSlots'[v], forma') >= headroom(allVariantSlots[v], forma)
    BY <1>2, <2>1, <2>3
  <2>5. QED
    BY <1>2, <2>1, <2>4 DEF Delivers
<1>5. QED
  BY <1>3, <1>4

LEMMA StepDelivers ==
    ASSUME SlotsTypeOK, PreviewInv, Next
    PROVE  Delivers
<1>1. last' = "edit" => Delivers
  BY DEF Delivers
<1>2. CASE applyPendingPlan
  BY <1>2, PlanDelivers
<1>3. CASE handleAutoForma
  BY <1>1, <1>3, FormasDeliver DEF handleAutoForma, previewPlan
<1>4. CASE ~handleAutoForma /\ ~applyPendingPlan
  BY <1>1, <1>4
     DEF Next, place, Edit, openForPlacement, confirmRiven, dragCard, dragSlot,
         startDrag, drop, setAlternate, removeAlternate, remove, openForEdit,
         setForma, setRank, select, dismiss, undo
<1>5. QED
  BY <1>2, <1>3, <1>4

-----------------------------------------------------------------------------
(* Where an Alternate comes from                                            *)

\* A mod put into a slot keeps an Alternate that fits beside it.
LEMMA PlaceAtKeeps ==
    ASSUME placed \in PlacedMaps, NEW s, NEW m \in Mods, placeAt(s, m)
    PROVE  \A t \in Filled(placed') :
              \/ placed'[t].alternate = Empty
              \/ canBeAlternate(placed'[t].alternate, t)
              \/ KeptBeside(t)
<1> DEFINE alt  == IF placed[s] = Empty THEN Empty ELSE placed[s].alternate
           keep == alt # Empty /\ alt # m /\ canBeAlternate(alt, s)
           pm   == stamp(m, IF keep THEN alt ELSE Empty)
<1>1. placed' = [placed EXCEPT ![s] = pm]
  BY DEF placeAt
<1>2. pm.alternate = Empty \/ canBeAlternate(pm.alternate, s)
  BY DEF stamp
<1> HIDE DEF pm
<1>3. \A t \in Slots : placed'[t] = IF t = s THEN pm ELSE placed[t]
  BY <1>1 DEF PlacedMaps
<1>4. QED
  BY <1>2, <1>3 DEF Filled, KeptBeside

\* The mods of a plan that a rearrangement may not move are where they were.
LEMMA PlanPins ==
    ASSUME SlotsInv, PreviewInv, applyPendingPlan, NEW s \in Filled(placed'),
           placed' # placed
    PROVE  \/ placed'[s].alternate = Empty
           \/ canBeAlternate(placed'[s].alternate, s)
           \/ placed'[s] = pending.variants[Active][s]
<1> DEFINE build == pending.plan.builds[Active]
<1>1. /\ placed' = build /\ SoundMap(build)
      /\ pending.plan.builds \in arrangements(pending.variants, pending.plan.forma)
      /\ Active \in DOMAIN pending.variants
  BY DEF applyPendingPlan, PreviewInv, SlotsInv, PlanInv
<1>2. build \in tryArrangeVariant(pending.variants[Active], pending.plan.forma)
  BY <1>1 DEF arrangements
<1> HIDE DEF build
<1>3. s \in Slots /\ s \in Filled(build)
  BY <1>1 DEF Filled
<1>4. ~movable(s) => build[s] = pending.variants[Active][s]
  BY <1>2, <1>3 DEF tryArrangeVariant, permutations, moved
<1>5. movable(s) => SlotKind[s] # "exilus"
  BY DEF movable, isNormal
<1>6. QED
  BY <1>1, <1>3, <1>4, <1>5 DEF SoundMap, Sound, AlternatesFit, canBeAlternate

\* What a step does to the Alternates of the active variant.
AlternatesCome ==
    \A s \in Filled(placed') :
        \/ placed'[s].alternate = Empty
        \/ canBeAlternate(placed'[s].alternate, s)
        \/ KeptBeside(s) \/ SwappedInto(s)
        \/ placed' = before.placed
        \/ /\ pending # Empty /\ pending' = Empty
           /\ placed'[s] = pending.variants[Active][s]

LEMMA ClicksKeepAlternates ==
    ASSUME placed \in PlacedMaps, NEW s \in Slots,
           \/ \E m \in Mods : setAlternate(s, m)
           \/ removeAlternate(s) \/ remove(s)
           \/ \E delta \in {-1, 1} : setRank(s, delta)
    PROVE  AlternatesCome
<1>1. \A t \in Slots : placed[t] # Empty => placed[t] \in PlacedMods
  BY DEF PlacedMaps
<1>2. ASSUME NEW pm, placed' = [placed EXCEPT ![s] = pm],
             \/ pm = Empty
             \/ pm.alternate = Empty \/ canBeAlternate(pm.alternate, s)
             \/ /\ placed[s] # Empty /\ pm.mod = placed[s].mod
                /\ pm.alternate = placed[s].alternate
      PROVE  AlternatesCome
  <2>1. \A t \in Slots : placed'[t] = IF t = s THEN pm ELSE placed[t]
    BY <1>2 DEF PlacedMaps
  <2>2. QED
    BY <1>2, <2>1 DEF AlternatesCome, Filled, KeptBeside
<1>3. ASSUME NEW m \in Mods, setAlternate(s, m) PROVE AlternatesCome
  BY <1>1, <1>2, <1>3 DEF setAlternate, PlacedMods
<1>4. CASE removeAlternate(s)
  BY <1>1, <1>2, <1>4 DEF removeAlternate, PlacedMods
<1>5. CASE remove(s)
  BY <1>2, <1>5 DEF remove
<1>6. ASSUME NEW delta \in {-1, 1}, setRank(s, delta) PROVE AlternatesCome
  BY <1>1, <1>2, <1>6 DEF setRank, PlacedMods
<1>7. QED
  BY <1>3, <1>4, <1>5, <1>6

LEMMA SwapBrings ==
    ASSUME placed \in PlacedMaps, NEW to \in Slots, drag # Empty, drag.kind = "slot",
           drag.slot \in Slots, drag' = Empty, swap(drag.slot, to)
    PROVE  AlternatesCome
<1> DEFINE from == drag.slot
<1>1. /\ from # to
      /\ placed' = [placed EXCEPT ![to] = placed[from], ![from] = placed[to]]
  BY DEF swap
<1>2. placed'[to] = placed[from] /\ placed'[from] = placed[to]
  BY <1>1 DEF PlacedMaps
<1>3. \A s \in Slots : s \notin {from, to} => placed'[s] = placed[s]
  BY <1>1 DEF PlacedMaps
<1>4. SwappedInto(from) /\ SwappedInto(to)
  BY <1>1, <1>2 DEF SwappedInto
<1>5. QED
  BY <1>3, <1>4 DEF AlternatesCome, KeptBeside, Filled

LEMMA AlternatesStep ==
    ASSUME SlotsInv, SlotsTypeOK, PreviewInv, Next
    PROVE  AlternatesCome
<1>1. placed \in PlacedMaps
  BY DEF SlotsTypeOK
<1>2. placed' = placed => AlternatesCome
  BY DEF AlternatesCome, KeptBeside, Filled
<1>3. ASSUME NEW m \in Mods, place(m) PROVE AlternatesCome
  <2>1. placed' = [placed EXCEPT ![placementTarget(m)] = stamp(m, Empty)]
    BY <1>3 DEF place
  <2>2. stamp(m, Empty).alternate = Empty
    BY DEF stamp
  <2>3. \A t \in Slots : \/ placed'[t] = stamp(m, Empty)
                         \/ placed'[t] = placed[t]
    BY <1>1, <2>1 DEF PlacedMaps
  <2>4. QED
    BY <2>2, <2>3 DEF AlternatesCome, KeptBeside, Filled
<1>4. ASSUME NEW s, NEW m \in Mods, placeAt(s, m) PROVE AlternatesCome
  BY <1>1, <1>4, PlaceAtKeeps DEF AlternatesCome
<1>5. ASSUME NEW m \in Rivens, openForPlacement(m) \/ confirmRiven(m)
      PROVE  AlternatesCome
  BY <1>2, <1>4, <1>5, RivenFits DEF openForPlacement, confirmRiven
<1>6. ASSUME NEW t \in Visible, drop(t) PROVE AlternatesCome
  <2>1. /\ drag # Empty /\ drag' = Empty
        /\ IF drag.kind = "pool" THEN dropCard(t) ELSE swap(drag.slot, t)
    BY <1>6 DEF drop
  <2>2. /\ drag.kind = "pool" => drag.mod \in Mods
        /\ drag.kind # "pool" => drag.kind = "slot" /\ drag.slot \in Slots
    BY <2>1 DEF SlotsTypeOK
  <2>3. CASE drag.kind = "pool"
    BY <1>4, <2>1, <2>2, <2>3 DEF dropCard
  <2>4. CASE drag.kind # "pool"
    BY <1>1, <2>1, <2>2, <2>4, SwapBrings, VisibleSlots
  <2>5. QED
    BY <2>3, <2>4
<1>7. ASSUME NEW s \in Visible,
             \/ \E m \in Mods : setAlternate(s, m)
             \/ removeAlternate(s) \/ remove(s)
             \/ \E delta \in {-1, 1} : setRank(s, delta)
      PROVE  AlternatesCome
  <2>1. s \in Slots
    BY VisibleSlots
  <2>2. QED
    BY <1>1, <1>7, <2>1, ClicksKeepAlternates
<1>8. CASE undo
  BY <1>8 DEF undo, AlternatesCome
<1>9. CASE applyPendingPlan
  <2>1. pending # Empty /\ pending' = Empty
    BY <1>9 DEF applyPendingPlan
  <2>2. CASE placed' # placed
    BY <1>9, <2>1, <2>2, PlanPins DEF AlternatesCome
  <2>3. QED
    BY <1>2, <2>2
<1>10. ASSUME \/ \E m \in Mods : dragCard(m)
              \/ \E s \in Visible :
                    \/ dragSlot(s) \/ openForEdit(s) \/ select(s)
                    \/ \E p \in Polarities \cup {Empty} : setForma(s, p)
              \/ dismiss \/ handleAutoForma
       PROVE  AlternatesCome
  BY <1>2, <1>10
     DEF dragCard, dragSlot, startDrag, openForEdit, select, setForma, dismiss,
         handleAutoForma, applyFormas, previewPlan
<1>11. QED
  BY <1>3, <1>5, <1>6, <1>7, <1>8, <1>9, <1>10 DEF Next

-----------------------------------------------------------------------------
(* Theorems                                                                 *)

THEOREM SlotsInvariant == Spec => []SlotsInv
BY InitSlots, SlotsStep, PTL DEF Spec

\* Whatever is picked, dragged, swapped, planned or undone, and however late a
\* dialog is confirmed, every mod of every variant fits the slot it is in.
THEOREM ModsAlwaysFit == Spec => []ModsFitTheirSlots
<1>1. SlotsInv => ModsFitTheirSlots
  BY DEF SlotsInv, MapsInv, SoundMap, Sound, FittingMap, ModsFitTheirSlots
<1>2. QED
  BY <1>1, SlotsInvariant, PTL

\* No mod but a Riven is ever equipped twice.
THEOREM NobodyEquipsAModTwice == Spec => []NoModTwice
<1>1. SlotsInv => NoModTwice
  BY DEF SlotsInv, MapsInv, SoundMap, Sound, NoModTwice
<1>2. QED
  BY <1>1, SlotsInvariant, PTL

\* No Alternate but an ordinary one in the Exilus slot is where it does not fit,
\* and nothing puts that one there but a swap of its mod, an undo, or a plan that
\* brings back what the slot held: no pick and no dropped mod does.
THEOREM AlternatesStayLegal == Spec => OnlySwapsMisplaceAlternates
<1>1. Init => SlotsInv /\ TypesInv
  BY InitSlots, InitTypes
<1>2. SlotsInv /\ TypesInv /\ [Next]_vars => (SlotsInv /\ TypesInv)'
  BY SlotsStep, TypesStep
<1>3. SlotsInv => AlternatesFit(placed)
  BY DEF SlotsInv, MapsInv, SoundMap, Sound
<1>4. SlotsInv /\ TypesInv /\ [Next]_vars => [AlternatesCome]_vars
  BY AlternatesStep DEF TypesInv
<1>5. QED
  BY <1>1, <1>2, <1>3, <1>4, PTL
     DEF Spec, OnlySwapsMisplaceAlternates, AlternatesCome

\* The editor's state is well typed throughout: no rank is below zero, no slot
\* selected that the item does not have, no polarity but the known ones, whatever
\* plans, undone edits and late dialogs write.
THEOREM SlotsKeepTheirTypes == Spec => []SlotsTypeOK
<1>1. Init => SlotsInv /\ TypesInv
  BY InitSlots, InitTypes
<1>2. SlotsInv /\ TypesInv /\ [Next]_vars => (SlotsInv /\ TypesInv)'
  BY SlotsStep, TypesStep
<1>3. TypesInv => SlotsTypeOK
  BY DEF TypesInv
<1>4. QED
  BY <1>1, <1>2, <1>3, PTL DEF Spec

\* A plan that is applied where it was made brings every variant under its
\* capacity but one it was to exchange equal names in, as two Rivens; a partial
\* fix helps the worst variant and leaves none worse off, and neither loses a mod,
\* for any layout, formas and variants.
THEOREM PlansDeliver == Spec => PlansKeepTheirPromise
<1>1. Init => SlotsInv /\ TypesInv
  BY InitSlots, InitTypes
<1>2. SlotsInv /\ TypesInv /\ [Next]_vars => (SlotsInv /\ TypesInv)'
  BY SlotsStep, TypesStep
<1>3. SlotsInv /\ TypesInv /\ [Next]_vars => [Delivers]_vars
  BY StepDelivers DEF TypesInv
<1>4. QED
  BY <1>1, <1>2, <1>3, PTL DEF Spec, PlansKeepTheirPromise, Delivers
=============================================================================
