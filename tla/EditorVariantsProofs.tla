------------------------- MODULE EditorVariantsProofs -------------------------
(* What the variants of a build may become: every step keeps the variants    *)
(* that exist as they are shown, adds one or drops one, and the documents    *)
(* that are saved and shared are read back as what they were made from.      *)
EXTENDS EditorVariants, FiniteSetTheorems, SequenceTheorems, WellFoundedInduction, TLAPS

\* A variant of a build that has seen n edits.
VariantsOf(n) ==
    [id : Nat, named : BOOLEAN, form : Forms, mods : 0..n, helminth : 0..n, forma : 0..n,
     shards : 0..n, guide : 0..n]

Contents(n) == [mods : 0..n, helminth : 0..n, forma : 0..n, shards : 0..n]

DistinctIds(vs) == \A i, j \in DOMAIN vs : vs[i].id = vs[j].id => i = j

WithinBudget(vs) == \A f \in Forms : Cardinality(OfForm(vs, f)) \in 1 .. MAX_VARIANTS

\* An array the editor may hold.
WellFormed(vs, n) == vs \in Seq(VariantsOf(n)) /\ DistinctIds(vs) /\ WithinBudget(vs)

VariantsInv ==
    /\ forms \in Nat \ {0}
    /\ edits \in 0 .. MaxEdits
    /\ WellFormed(variants, edits)
    /\ active \in DOMAIN variants
    /\ scope \in DOMAIN variants \cup {None}
    /\ mode \in {"linked", "independent"}
    /\ live \in Contents(edits)

-----------------------------------------------------------------------------
(* Places in an array                                                       *)

LEMMA FirstIsThere ==
    ASSUME NEW S \in SUBSET Nat, S # {}
    PROVE  First(S) \in S /\ \A i \in S : First(S) <= i
<1> DEFINE R == OpToRel(<, Nat)
<1>1. IsWellFoundedOn(R, Nat)
  BY NatLessThanWellFounded
<1>2. \A x, y \in Nat : <<y, x>> \in R <=> y < x
  BY DEF OpToRel
<1> HIDE DEF R
<1>3. PICK x \in S : \A y \in S : ~(<<y, x>> \in R)
  BY <1>1, WFMin
<1>4. x \in Nat /\ \A y \in S : y \in Nat /\ ~(y < x)
  BY <1>2, <1>3
<1>5. \A y \in S : x <= y
  BY <1>4
<1>6. QED
  BY <1>5, Zenon DEF First

LEMMA PlacesAreFinite ==
    ASSUME NEW S, NEW vs \in Seq(S), NEW f
    PROVE  /\ IsFiniteSet(OfForm(vs, f)) /\ Cardinality(OfForm(vs, f)) \in Nat
           /\ OfForm(vs, f) \subseteq DOMAIN vs /\ DOMAIN vs \subseteq Nat
<1>1. DOMAIN vs = 1 .. Len(vs) /\ Len(vs) \in Nat
  OBVIOUS
<1>2. IsFiniteSet(DOMAIN vs)
  BY <1>1, FS_Interval
<1>3. OfForm(vs, f) \subseteq DOMAIN vs
  BY DEF OfForm
<1>4. QED
  BY <1>1, <1>2, <1>3, FS_Subset, FS_CardinalityType

\* ws is vs with one more entry, at p.
OneMore(vs, ws, p) ==
    /\ Len(ws) = Len(vs) + 1
    /\ p \in 1 .. Len(ws)
    /\ \A i \in 1 .. Len(vs) : vs[i] = ws[IF i < p THEN i ELSE i + 1]

LEMMA AppendIsOneMore ==
    ASSUME NEW S, NEW vs \in Seq(S), NEW v \in S
    PROVE  /\ Append(vs, v) \in Seq(S)
           /\ OneMore(vs, Append(vs, v), Len(vs) + 1)
           /\ Append(vs, v)[Len(vs) + 1] = v
BY DEF OneMore

LEMMA InsertIsOneMore ==
    ASSUME NEW S, NEW vs \in Seq(S), NEW v \in S, NEW p \in 1 .. Len(vs) + 1
    PROVE  /\ InsertAt(vs, p, v) \in Seq(S)
           /\ OneMore(vs, InsertAt(vs, p, v), p)
           /\ InsertAt(vs, p, v)[p] = v
<1> DEFINE head == SubSeq(vs, 1, p - 1)
           tail == SubSeq(vs, p, Len(vs))
<1>1. /\ head \in Seq(S) /\ Len(head) = p - 1
      /\ \A i \in 1 .. p - 1 : head[i] = vs[i]
  OBVIOUS
<1>2. /\ tail \in Seq(S) /\ Len(tail) = Len(vs) - p + 1
      /\ \A i \in 1 .. Len(vs) - p + 1 : tail[i] = vs[p + i - 1]
  OBVIOUS
<1> HIDE DEF head, tail
<1> DEFINE upTo == head \o <<v>>
           new  == upTo \o tail
<1>9. /\ upTo \in Seq(S) /\ Len(upTo) = p
      /\ \A i \in 1 .. p : upTo[i] = IF i < p THEN head[i] ELSE v
  BY <1>1
<1> HIDE DEF upTo
<1>3. /\ new \in Seq(S) /\ Len(new) = Len(vs) + 1
      /\ \A i \in 1 .. Len(vs) + 1 :
            new[i] = IF i < p THEN head[i] ELSE IF i = p THEN v ELSE tail[i - p]
  BY <1>1, <1>2, <1>9
<1> HIDE DEF new
<1>4. ASSUME NEW i \in 1 .. Len(vs)
      PROVE  vs[i] = new[IF i < p THEN i ELSE i + 1]
  <2>1. CASE i < p
    BY <1>1, <1>3, <2>1
  <2>2. CASE ~(i < p)
    <3>1. i + 1 - p \in 1 .. Len(vs) - p + 1 /\ p + (i + 1 - p) - 1 = i
      BY <2>2
    <3>2. new[i + 1] = tail[i + 1 - p]
      BY <1>3, <2>2
    <3>3. tail[i + 1 - p] = vs[i]
      BY <1>2, <3>1
    <3>4. QED
      BY <2>2, <3>2, <3>3
  <2>3. QED
    BY <2>1, <2>2
<1>5. new[p] = v
  BY <1>3
<1>6. new = InsertAt(vs, p, v)
  BY DEF new, upTo, head, tail, InsertAt
<1>7. QED
  BY <1>3, <1>4, <1>5, <1>6 DEF OneMore

LEMMA RemoveIsOneLess ==
    ASSUME NEW S, NEW ws \in Seq(S), NEW p \in DOMAIN ws
    PROVE  /\ RemoveAt(ws, p) \in Seq(S)
           /\ OneMore(RemoveAt(ws, p), ws, p)
<1> DEFINE head == SubSeq(ws, 1, p - 1)
           tail == SubSeq(ws, p + 1, Len(ws))
<1>0. p \in 1 .. Len(ws) /\ Len(ws) \in Nat
  OBVIOUS
<1>1. /\ head \in Seq(S) /\ Len(head) = p - 1
      /\ \A i \in 1 .. p - 1 : head[i] = ws[i]
  BY <1>0
<1>2. /\ tail \in Seq(S) /\ Len(tail) = Len(ws) - p
      /\ \A i \in 1 .. Len(ws) - p : tail[i] = ws[p + i]
  BY <1>0
<1> HIDE DEF head, tail
<1> DEFINE new == head \o tail
<1>3. /\ new \in Seq(S) /\ Len(new) = Len(ws) - 1
      /\ \A i \in 1 .. Len(ws) - 1 : new[i] = IF i < p THEN head[i] ELSE tail[i - p + 1]
  BY SMTT(30), <1>0, <1>1, <1>2
<1> HIDE DEF new
<1>4. ASSUME NEW i \in 1 .. Len(new)
      PROVE  new[i] = ws[IF i < p THEN i ELSE i + 1]
  <2>1. i \in 1 .. Len(ws) - 1 /\ p \in Nat
    BY <1>0, <1>3
  <2>2. CASE i < p
    BY <1>0, <1>1, <1>3, <2>1, <2>2
  <2>3. CASE ~(i < p)
    <3>1. i - p + 1 \in 1 .. Len(ws) - p /\ p + (i - p + 1) = i + 1
      BY <1>0, <2>1, <2>3
    <3>2. new[i] = tail[i - p + 1]
      BY <1>3, <2>1, <2>3
    <3>3. tail[i - p + 1] = ws[i + 1]
      BY <1>2, <3>1
    <3>4. QED
      BY <2>3, <3>2, <3>3
  <2>4. QED
    BY <2>2, <2>3
<1>5. new = RemoveAt(ws, p)
  BY DEF new, head, tail, RemoveAt
<1>6. QED
  BY <1>0, <1>3, <1>4, <1>5 DEF OneMore

\* One more entry counts for its own form and for no other.
LEMMA OneMoreOfForm ==
    ASSUME NEW S, NEW vs \in Seq(S), NEW ws \in Seq(S), NEW p, OneMore(vs, ws, p), NEW f
    PROVE  Cardinality(OfForm(ws, f))
             = Cardinality(OfForm(vs, f)) + (IF ws[p].form = f THEN 1 ELSE 0)
<1> DEFINE h == [i \in OfForm(vs, f) |-> IF i < p THEN i ELSE i + 1]
           T == OfForm(ws, f) \ {p}
<1>1. /\ DOMAIN vs = 1 .. Len(vs) /\ DOMAIN ws = 1 .. Len(ws)
      /\ Len(vs) \in Nat /\ Len(ws) = Len(vs) + 1 /\ p \in 1 .. Len(ws)
  BY DEF OneMore
<1>2. IsFiniteSet(OfForm(vs, f)) /\ IsFiniteSet(OfForm(ws, f))
  BY PlacesAreFinite
<1>3. ASSUME NEW i \in OfForm(vs, f) PROVE h[i] \in T
  BY <1>1 DEF OneMore, OfForm
<1>4. ASSUME NEW j \in T PROVE \E i \in OfForm(vs, f) : h[i] = j
  <2>1. j \in Nat /\ j # p /\ j \in 1 .. Len(ws) /\ ws[j].form = f
    BY <1>1 DEF OfForm
  <2>2. CASE j < p
    <3>1. vs[j] = ws[j] /\ j \in 1 .. Len(vs)
      BY <1>1, <2>1, <2>2 DEF OneMore
    <3>2. j \in OfForm(vs, f)
      BY <1>1, <2>1, <3>1 DEF OfForm
    <3>3. QED
      BY <2>2, <3>2
  <2>3. CASE j > p
    <3>1. j - 1 \in 1 .. Len(vs) /\ ~(j - 1 < p)
      BY <1>1, <2>1, <2>3
    <3>2. vs[j - 1] = ws[j]
      BY <1>1, <2>1, <3>1 DEF OneMore
    <3>3. j - 1 \in OfForm(vs, f)
      BY <1>1, <2>1, <3>1, <3>2 DEF OfForm
    <3>4. h[j - 1] = j
      BY <2>1, <3>1, <3>3
    <3>5. QED
      BY <3>3, <3>4
  <2>4. QED
    BY <1>1, <2>1, <2>2, <2>3
<1>5. \A i, j \in OfForm(vs, f) : h[i] = h[j] => i = j
  BY <1>1 DEF OfForm
<1>6. h \in Bijection(OfForm(vs, f), T)
  <2>1. h \in [OfForm(vs, f) -> T]
    BY <1>3
  <2> HIDE DEF h, T
  <2>2. QED
    BY <2>1, <1>4, <1>5 DEF Bijection, Injection, Surjection, IsInjective
<1> HIDE DEF h
<1>7. Cardinality(T) = Cardinality(OfForm(vs, f))
  BY <1>2, <1>6, FS_Bijection DEF ExistsBijection
<1>8. CASE ws[p].form = f
  <2>1. p \in OfForm(ws, f)
    BY <1>1, <1>8 DEF OfForm
  <2>2. Cardinality(T) = Cardinality(OfForm(ws, f)) - 1
    BY <1>2, <2>1, FS_RemoveElement
  <2>3. QED
    BY <1>7, <1>8, <2>2, PlacesAreFinite
<1>9. CASE ws[p].form # f
  <2>1. T = OfForm(ws, f)
    BY <1>9 DEF OfForm
  <2>2. Cardinality(OfForm(vs, f)) \in Nat
    BY PlacesAreFinite
  <2>3. Cardinality(OfForm(ws, f)) = Cardinality(OfForm(vs, f))
    BY <1>7, <2>1
  <2>4. QED
    BY <1>9, <2>2, <2>3
<1>10. QED
  BY <1>8, <1>9

LEMMA OneMoreGrows ==
    ASSUME NEW n, NEW vs, WellFormed(vs, n), NEW ws \in Seq(VariantsOf(n)), NEW p,
           OneMore(vs, ws, p), \A i \in DOMAIN vs : vs[i].id # ws[p].id,
           Cardinality(OfForm(vs, ws[p].form)) < MAX_VARIANTS
    PROVE  WellFormed(ws, n)
<1>1. /\ vs \in Seq(VariantsOf(n)) /\ DistinctIds(vs) /\ WithinBudget(vs)
      /\ DOMAIN vs = 1 .. Len(vs) /\ DOMAIN ws = 1 .. Len(ws)
      /\ Len(vs) \in Nat /\ Len(ws) = Len(vs) + 1 /\ p \in 1 .. Len(ws)
  BY DEF OneMore, WellFormed
<1>2. DistinctIds(ws)
  <2>1. ASSUME NEW j \in DOMAIN ws, j # p
        PROVE  \E i \in DOMAIN vs : vs[i] = ws[j] /\ j = IF i < p THEN i ELSE i + 1
    <3>1. CASE j < p
      <4>1. j \in DOMAIN vs /\ vs[j] = ws[j]
        BY <1>1, <3>1 DEF OneMore
      <4>2. QED
        BY <3>1, <4>1
    <3>2. CASE j > p
      <4>1. j - 1 \in DOMAIN vs /\ ~(j - 1 < p) /\ (j - 1) + 1 = j
        BY <1>1, <3>2
      <4>2. vs[j - 1] = ws[j]
        BY <1>1, <4>1 DEF OneMore
      <4>3. QED
        BY <4>1, <4>2
    <3>3. QED
      BY <1>1, <2>1, <3>1, <3>2
  <2>2. \A j \in DOMAIN ws : j # p => ws[j].id # ws[p].id
    BY <2>1
  <2>3. ASSUME NEW i \in DOMAIN ws, NEW j \in DOMAIN ws, i # p, j # p, ws[i].id = ws[j].id
        PROVE  i = j
    <3>1. PICK k \in DOMAIN vs : vs[k] = ws[i] /\ i = IF k < p THEN k ELSE k + 1
      BY <2>1, <2>3
    <3>2. PICK l \in DOMAIN vs : vs[l] = ws[j] /\ j = IF l < p THEN l ELSE l + 1
      BY <2>1, <2>3
    <3>3. k = l
      BY <1>1, <2>3, <3>1, <3>2 DEF DistinctIds
    <3>4. QED
      BY <3>1, <3>2, <3>3
  <2>4. QED
    BY <2>2, <2>3 DEF DistinctIds
<1>3. WithinBudget(ws)
  <2> SUFFICES ASSUME NEW f \in Forms
               PROVE  Cardinality(OfForm(ws, f)) \in 1 .. MAX_VARIANTS
    BY DEF WithinBudget
  <2>1. Cardinality(OfForm(vs, f)) \in 1 .. MAX_VARIANTS
    BY <1>1 DEF WithinBudget
  <2>2. Cardinality(OfForm(ws, f))
          = Cardinality(OfForm(vs, f)) + (IF ws[p].form = f THEN 1 ELSE 0)
    BY <1>1, OneMoreOfForm
  <2>3. QED
    BY <2>1, <2>2, VariantsAssumption
<1>4. QED
  BY <1>2, <1>3 DEF WellFormed

LEMMA OneLessShrinks ==
    ASSUME NEW n, NEW ws, WellFormed(ws, n), NEW vs \in Seq(VariantsOf(n)), NEW p,
           OneMore(vs, ws, p), Cardinality(OfForm(ws, ws[p].form)) > 1
    PROVE  WellFormed(vs, n)
<1>1. /\ ws \in Seq(VariantsOf(n)) /\ DistinctIds(ws) /\ WithinBudget(ws)
      /\ DOMAIN vs = 1 .. Len(vs) /\ DOMAIN ws = 1 .. Len(ws)
      /\ Len(vs) \in Nat /\ Len(ws) = Len(vs) + 1 /\ p \in 1 .. Len(ws)
  BY DEF OneMore, WellFormed
<1>2. DistinctIds(vs)
  <2> DEFINE at(i) == IF i < p THEN i ELSE i + 1
  <2>1. \A i \in DOMAIN vs : at(i) \in DOMAIN ws /\ vs[i] = ws[at(i)]
    BY <1>1 DEF OneMore
  <2>2. \A i, j \in DOMAIN vs : at(i) = at(j) => i = j
    BY <1>1
  <2> HIDE DEF at
  <2>3. QED
    BY <1>1, <2>1, <2>2 DEF DistinctIds
<1>3. WithinBudget(vs)
  <2> SUFFICES ASSUME NEW f \in Forms
               PROVE  Cardinality(OfForm(vs, f)) \in 1 .. MAX_VARIANTS
    BY DEF WithinBudget
  <2>1. Cardinality(OfForm(ws, f)) \in 1 .. MAX_VARIANTS
    BY <1>1 DEF WithinBudget
  <2>2. Cardinality(OfForm(ws, f))
          = Cardinality(OfForm(vs, f)) + (IF ws[p].form = f THEN 1 ELSE 0)
    BY <1>1, OneMoreOfForm
  <2>3. Cardinality(OfForm(vs, f)) \in Nat
    BY PlacesAreFinite
  <2>4. CASE ws[p].form = f
    <3>1. Cardinality(OfForm(ws, f)) > 1
      BY <2>4
    <3>2. QED
      BY <2>1, <2>2, <2>3, <2>4, <3>1, VariantsAssumption
  <2>5. CASE ws[p].form # f
    BY <2>1, <2>2, <2>3, <2>5
  <2>6. QED
    BY <2>4, <2>5
<1>4. QED
  BY <1>2, <1>3 DEF WellFormed

\* The same variants in other clothes.
LEMMA SameFormsAndIds ==
    ASSUME NEW n, NEW k, NEW vs, WellFormed(vs, n), NEW ws \in Seq(VariantsOf(k)),
           Len(ws) = Len(vs),
           \A i \in DOMAIN vs : ws[i].id = vs[i].id /\ ws[i].form = vs[i].form
    PROVE  WellFormed(ws, k)
<1>1. DOMAIN ws = DOMAIN vs /\ DistinctIds(vs) /\ WithinBudget(vs)
  BY DEF WellFormed
<1>2. \A f : OfForm(ws, f) = OfForm(vs, f)
  BY <1>1 DEF OfForm
<1>3. DistinctIds(ws)
  BY <1>1 DEF DistinctIds
<1>4. QED
  BY <1>1, <1>2, <1>3 DEF WellFormed, WithinBudget

LEMMA EntryTyped ==
    ASSUME NEW n, NEW vs, WellFormed(vs, n), NEW i \in DOMAIN vs
    PROVE  vs[i] \in VariantsOf(n) /\ i \in Nat
BY DEF WellFormed

\* A build of several forms has several variants.
LEMMA OneVariantOneForm ==
    ASSUME NEW n, NEW vs, WellFormed(vs, n), forms \in Nat \ {0}
    PROVE  /\ \A f \in Forms : OfForm(vs, f) # {}
           /\ Len(vs) \in Nat \ {0}
           /\ Len(vs) = 1 => forms = 1
<1>1. vs \in Seq(VariantsOf(n)) /\ DOMAIN vs = 1 .. Len(vs) /\ Len(vs) \in Nat
  BY DEF WellFormed
<1>2. ASSUME NEW f \in Forms PROVE OfForm(vs, f) # {}
  <2>1. Cardinality(OfForm(vs, f)) # 0
    BY DEF WellFormed, WithinBudget
  <2>2. QED
    BY <2>1, FS_EmptySet
<1>3. 0 \in Forms /\ (forms # 1 => 1 \in Forms)
  BY DEF Forms
<1>4. PICK i \in DOMAIN vs : vs[i].form = 0
  BY <1>2, <1>3 DEF OfForm
<1>5. forms # 1 => \E j \in DOMAIN vs : vs[j].form = 1
  BY <1>2, <1>3 DEF OfForm
<1>6. QED
  BY <1>1, <1>2, <1>4, <1>5

-----------------------------------------------------------------------------
(* What is on the screen                                                    *)

LEMMA LinkKeeps ==
    ASSUME NEW n, NEW vs, WellFormed(vs, n), NEW k \in DOMAIN vs
    PROVE  LET ws == linkVariants(vs, k)
           IN  /\ WellFormed(ws, n) /\ Len(ws) = Len(vs) /\ DOMAIN ws = DOMAIN vs
               /\ \A i \in DOMAIN vs :
                     /\ ws[i].id = vs[i].id /\ ws[i].named = vs[i].named
                     /\ ws[i].form = vs[i].form /\ ws[i].mods = vs[i].mods
                     /\ ws[i].guide = vs[i].guide /\ ws[i].helminth = vs[i].helminth
                     /\ ws[i].shards = vs[k].shards
                     /\ ws[i].forma = IF vs[i].form = vs[k].form THEN vs[k].forma
                                                                ELSE vs[i].forma
               /\ ws[k] = vs[k]
               /\ \A i, j \in DOMAIN ws : ws[i].shards = ws[j].shards
<1> DEFINE ws == linkVariants(vs, k)
<1>1. vs \in Seq(VariantsOf(n)) /\ DOMAIN vs = 1 .. Len(vs) /\ Len(vs) \in Nat
  BY DEF WellFormed
<1>2. DOMAIN ws = DOMAIN vs
  BY DEF linkVariants
<1>3. ASSUME NEW i \in DOMAIN vs
      PROVE  /\ ws[i] \in VariantsOf(n)
             /\ ws[i].id = vs[i].id /\ ws[i].named = vs[i].named
             /\ ws[i].form = vs[i].form /\ ws[i].mods = vs[i].mods
             /\ ws[i].guide = vs[i].guide /\ ws[i].helminth = vs[i].helminth
             /\ ws[i].shards = vs[k].shards
             /\ ws[i].forma = IF vs[i].form = vs[k].form THEN vs[k].forma
                                                        ELSE vs[i].forma
             /\ i = k => ws[i] = vs[i]
  <2>1. vs[i] \in VariantsOf(n) /\ vs[k] \in VariantsOf(n)
    BY EntryTyped
  <2>2. QED
    BY <2>1 DEF linkVariants, VariantsOf, SameForm
<1>4. ws \in Seq(VariantsOf(n)) /\ Len(ws) = Len(vs)
  <2>1. ws = [i \in 1 .. Len(vs) |-> ws[i]]
    BY <1>1 DEF linkVariants
  <2> HIDE DEF ws
  <2>2. QED
    BY <1>1, <1>2, <1>3, <2>1
<1> HIDE DEF ws
<1>5. WellFormed(ws, n)
  BY <1>3, <1>4, SameFormsAndIds
<1>6. QED
  BY <1>2, <1>3, <1>4, <1>5 DEF ws

\* The live loadout is folded back into its own variant.
LEMMA FoldedKeeps ==
    ASSUME VariantsInv
    PROVE  /\ WellFormed(foldedVariants, edits)
           /\ Len(foldedVariants) = Len(variants)
           /\ DOMAIN foldedVariants = DOMAIN variants
           /\ \A i \in DOMAIN variants :
                 /\ foldedVariants[i].id = variants[i].id
                 /\ foldedVariants[i].named = variants[i].named
                 /\ foldedVariants[i].form = variants[i].form
                 /\ foldedVariants[i].guide = variants[i].guide
                 /\ i # active => foldedVariants[i] = variants[i]
           /\ foldedVariants[active].mods = live.mods
           /\ foldedVariants[active].helminth = live.helminth
           /\ foldedVariants[active].forma = live.forma
           /\ foldedVariants[active].shards = live.shards
<1> DEFINE entry == [variants[active] EXCEPT !.mods = live.mods, !.helminth = live.helminth,
                                             !.forma = live.forma, !.shards = live.shards]
<1>1. /\ WellFormed(variants, edits) /\ variants \in Seq(VariantsOf(edits))
      /\ active \in DOMAIN variants /\ live \in Contents(edits)
  BY DEF VariantsInv, WellFormed
<1>2. variants[active] \in VariantsOf(edits)
  BY <1>1, EntryTyped
<1>3. /\ entry \in VariantsOf(edits)
      /\ entry.id = variants[active].id /\ entry.named = variants[active].named
      /\ entry.form = variants[active].form /\ entry.guide = variants[active].guide
      /\ entry.mods = live.mods /\ entry.helminth = live.helminth
      /\ entry.forma = live.forma /\ entry.shards = live.shards
  BY <1>1, <1>2 DEF VariantsOf, Contents
<1>4. foldedVariants = [variants EXCEPT ![active] = entry]
  BY DEF foldedVariants
<1> HIDE DEF entry
<1>5. /\ foldedVariants \in Seq(VariantsOf(edits))
      /\ Len(foldedVariants) = Len(variants)
      /\ DOMAIN foldedVariants = DOMAIN variants
      /\ \A i \in DOMAIN variants :
            foldedVariants[i] = IF i = active THEN entry ELSE variants[i]
  BY <1>1, <1>3, <1>4, ExceptSeq
<1>6. WellFormed(foldedVariants, edits)
  BY SMTT(30), <1>1, <1>3, <1>5, SameFormsAndIds
<1>7. QED
  BY <1>1, <1>3, <1>5, <1>6

LEMMA CaptureKeeps ==
    ASSUME VariantsInv
    PROVE  /\ WellFormed(captureVariants, edits)
           /\ Len(captureVariants) = Len(variants)
           /\ DOMAIN captureVariants = DOMAIN variants
           /\ \A i \in DOMAIN variants :
                 /\ captureVariants[i].id = variants[i].id
                 /\ captureVariants[i].named = variants[i].named
                 /\ captureVariants[i].form = variants[i].form
                 /\ captureVariants[i].guide = variants[i].guide
                 /\ captureVariants[i].mods = foldedVariants[i].mods
                 /\ captureVariants[i].helminth = foldedVariants[i].helminth
           /\ captureVariants[active] = foldedVariants[active]
           /\ mode = "independent" => captureVariants = foldedVariants
           /\ mode = "linked" =>
                 \A i \in DOMAIN variants :
                    /\ captureVariants[i].shards = live.shards
                    /\ captureVariants[i].forma =
                          IF variants[i].form = variants[active].form THEN live.forma
                                                                      ELSE variants[i].forma
<1>1. active \in DOMAIN variants
  BY DEF VariantsInv
<1>2. CASE mode = "linked"
  <2> DEFINE ws == linkVariants(foldedVariants, active)
  <2>0. WellFormed(foldedVariants, edits) /\ active \in DOMAIN foldedVariants
    BY <1>1, FoldedKeeps
  <2>1. /\ WellFormed(ws, edits) /\ Len(ws) = Len(foldedVariants)
        /\ DOMAIN ws = DOMAIN foldedVariants
        /\ \A i \in DOMAIN foldedVariants :
              /\ ws[i].id = foldedVariants[i].id /\ ws[i].named = foldedVariants[i].named
              /\ ws[i].form = foldedVariants[i].form /\ ws[i].mods = foldedVariants[i].mods
              /\ ws[i].guide = foldedVariants[i].guide
              /\ ws[i].helminth = foldedVariants[i].helminth
              /\ ws[i].shards = foldedVariants[active].shards
              /\ ws[i].forma = IF foldedVariants[i].form = foldedVariants[active].form
                               THEN foldedVariants[active].forma ELSE foldedVariants[i].forma
        /\ ws[active] = foldedVariants[active]
    BY <2>0, LinkKeeps
  <2> HIDE DEF ws
  <2>2. captureVariants = ws
    BY <1>2 DEF captureVariants, ws
  <2>3. QED
    BY <1>1, <1>2, <2>1, <2>2, FoldedKeeps
<1>3. CASE mode # "linked"
  <2>1. captureVariants = foldedVariants
    BY <1>3 DEF captureVariants
  <2>2. QED
    BY <1>1, <1>3, <2>1, FoldedKeeps
<1>4. QED
  BY <1>2, <1>3

LEMMA CapturedActive ==
    ASSUME VariantsInv
    PROVE  Content(captureVariants[active]) = live
<1>1. live \in Contents(edits)
  BY DEF VariantsInv
<1>2. /\ captureVariants[active].mods = live.mods
      /\ captureVariants[active].helminth = live.helminth
      /\ captureVariants[active].forma = live.forma
      /\ captureVariants[active].shards = live.shards
  BY CaptureKeeps, FoldedKeeps
<1>3. QED
  BY <1>1, <1>2 DEF Content, Contents

-----------------------------------------------------------------------------
(* What is saved is read back                                               *)

\* The build is a synthetic variant alone, which is left to the top level.
Alone == Len(variants) = 1 /\ isSyntheticVariant(variants[1])

LEMMA ReadBack ==
    ASSUME VariantsInv
    PROVE  LET saved == captureBuildData
           IN  /\ saved.mode = mode /\ saved.mode # None
               /\ saved.mods = live.mods /\ saved.helminth = live.helminth
               /\ saved.forma = live.forma /\ saved.shards = live.shards
               /\ saved.form = variants[active].form
               /\ Alone => /\ saved.variants = <<>>
                           /\ getVariants(saved) = <<Variant(0, saved.form, saved)>>
               /\ ~Alone => /\ saved.variants = captureVariants
                            /\ saved.variants # <<>>
                            /\ getVariants(saved) = captureVariants
<1> DEFINE saved == captureBuildData
           vs    == captureVariants
<1>1. /\ WellFormed(vs, edits) /\ vs \in Seq(VariantsOf(edits)) /\ Len(vs) = Len(variants)
      /\ DOMAIN vs = 1 .. Len(vs)
      /\ Len(vs) \in Nat \ {0}
      /\ vs[1].id = variants[1].id /\ vs[1].named = variants[1].named
  <2>1. WellFormed(vs, edits) /\ Len(vs) = Len(variants) /\ DOMAIN vs = DOMAIN variants
    BY CaptureKeeps
  <2>2. Len(vs) \in Nat \ {0}
    BY <2>1, OneVariantOneForm DEF VariantsInv
  <2>3. vs \in Seq(VariantsOf(edits))
    BY <2>1 DEF WellFormed
  <2>4. 1 \in DOMAIN variants
    <3> HIDE DEF vs
    <3>1. DOMAIN vs = 1 .. Len(vs)
      BY <2>3
    <3>2. QED
      BY <2>1, <2>2, <3>1
  <2>5. QED
    BY <2>1, <2>2, <2>3, <2>4, CaptureKeeps
<1>2. Alone <=> Len(vs) = 1 /\ isSyntheticVariant(vs[1])
  BY <1>1 DEF Alone, isSyntheticVariant
<1>3. /\ saved.mode = mode /\ saved.mods = live.mods /\ saved.helminth = live.helminth
      /\ saved.forma = live.forma /\ saved.shards = live.shards
      /\ saved.form = variants[active].form
      /\ saved.variants = IF Len(vs) > 1 \/ ~isSyntheticVariant(vs[1]) THEN vs ELSE <<>>
  BY DEF captureBuildData, Document
<1>4. saved.mode # None
  BY <1>3, VariantsAssumption DEF VariantsInv
<1> HIDE DEF saved, vs
<1>5. CASE Alone
  <2>0. Len(vs) = 1 /\ vs[1].id = 0 /\ ~vs[1].named
    BY <1>2, <1>5 DEF isSyntheticVariant
  <2>1. saved.variants = <<>>
    BY <1>3, <2>0 DEF isSyntheticVariant
  <2>2. getVariants(saved) = <<Variant(0, saved.form, saved)>>
    BY <2>1 DEF getVariants
  <2>3. QED
    BY <1>3, <1>4, <1>5, <2>1, <2>2 DEF saved
<1>6. CASE ~Alone
  <2>1. saved.variants = vs /\ vs # <<>>
    BY <1>1, <1>2, <1>3, <1>6
  <2>2. ASSUME NEW i \in DOMAIN vs
        PROVE  [vs[i] EXCEPT !.shards = IF FALSE \/ @ = None THEN saved.shards ELSE @,
                             !.forma  = IF @ = None \/ (FALSE /\ vs[i].form = saved.form)
                                        THEN saved.forma ELSE @] = vs[i]
    <3>1. vs[i] \in VariantsOf(edits) /\ edits \in Nat
      BY <1>1, EntryTyped, VariantsAssumption DEF VariantsInv
    <3>2. vs[i].shards # None /\ vs[i].forma # None
      BY <3>1, VariantsAssumption DEF VariantsOf
    <3>3. QED
      BY <3>1, <3>2 DEF VariantsOf
  <2>3. getVariants(saved) = [i \in DOMAIN vs |->
           [vs[i] EXCEPT !.shards = IF FALSE \/ @ = None THEN saved.shards ELSE @,
                         !.forma  = IF @ = None \/ (FALSE /\ vs[i].form = saved.form)
                                    THEN saved.forma ELSE @]]
    BY <1>4, <2>1 DEF getVariants
  <2>4. getVariants(saved) = [i \in DOMAIN vs |-> vs[i]]
    BY ZenonT(60), <2>2, <2>3
  <2>5. vs = [i \in DOMAIN vs |-> vs[i]]
    BY <1>1
  <2>6. QED
    BY <1>3, <1>4, <1>6, <2>1, <2>4, <2>5 DEF saved, vs
<1>7. QED
  BY <1>5, <1>6
-----------------------------------------------------------------------------
(* Activation                                                               *)

\* An id is free while the build has fewer variants than ids.
LEMMA NewIdIsNew ==
    ASSUME VariantsInv, Len(variants) < MaxVariants
    PROVE  NewId \in Nat /\ \A i \in DOMAIN variants : variants[i].id # NewId
<1> DEFINE ids == 1 .. MaxVariants
           at  == DOMAIN variants
           f   == [n \in ids |-> CHOOSE i \in at : variants[i].id = n]
<1>1. at = 1 .. Len(variants) /\ Len(variants) \in Nat /\ MaxVariants \in Nat
  BY VariantsAssumption DEF VariantsInv, WellFormed
<1>2. ASSUME \A n \in ids : \E i \in at : variants[i].id = n
      PROVE  FALSE
  <2>1. \A n \in ids : f[n] \in at /\ variants[f[n]].id = n
    BY <1>2
  <2>2. f \in [ids -> at]
    BY <2>1
  <2> HIDE DEF f
  <2>3. f \in Injection(ids, at)
    BY <2>1, <2>2 DEF Injection, IsInjective
  <2>4. IsFiniteSet(at) /\ Cardinality(at) = Len(variants) /\ Cardinality(ids) = MaxVariants
    <3>1. \A n \in Nat : IsFiniteSet(1 .. n) /\ Cardinality(1 .. n) = n
      BY FS_Interval
    <3>2. QED
      BY <1>1, <3>1
  <2>5. Cardinality(ids) <= Cardinality(at)
    BY <2>3, <2>4, FS_Injection DEF ExistsInjection
  <2>6. QED
    BY <1>1, <2>4, <2>5
<1>3. PICK n \in ids : \A i \in at : variants[i].id # n
  BY <1>2
<1>4. NewId \in ids /\ \A i \in at : variants[i].id # NewId
  BY <1>3, Zenon DEF NewId
<1>5. QED
  BY <1>1, <1>4

LEMMA MoreEdits ==
    ASSUME NEW n \in Nat, NEW k \in Nat, n <= k
    PROVE  /\ VariantsOf(n) \subseteq VariantsOf(k)
           /\ Contents(n) \subseteq Contents(k)
           /\ \A vs : WellFormed(vs, n) => WellFormed(vs, k)
<1>1. VariantsOf(n) \subseteq VariantsOf(k) /\ Contents(n) \subseteq Contents(k)
  <2>1. 0..n \subseteq 0..k
    OBVIOUS
  <2>2. QED
    BY <2>1 DEF VariantsOf, Contents
<1>2. QED
  BY <1>1 DEF WellFormed

\* The number of forms is fixed, and with it what an array may be.
LEMMA SameForms ==
    ASSUME forms' = forms
    PROVE  /\ Forms' = Forms
           /\ \A n : WellFormed(variants', n) /\ edits' = n => WellFormed(variants, edits)'
<1>1. Forms' = Forms
  BY DEF Forms
<1>2. QED
  BY <1>1 DEF WellFormed, VariantsOf, DistinctIds, WithinBudget, OfForm

\* The active variant of the array is the one on the screen.
LEMMA ShownIsFolded ==
    ASSUME NEW n, WellFormed(variants', n), active' \in DOMAIN variants',
           live' = Content(variants'[active'])
    PROVE  foldedVariants' = variants' /\ live' \in Contents(n)
<1>1. variants'[active'] \in VariantsOf(n)
  BY EntryTyped
<1>2. [variants'[active'] EXCEPT !.mods = live'.mods, !.helminth = live'.helminth,
                                 !.forma = live'.forma, !.shards = live'.shards]
      = variants'[active']
  BY <1>1 DEF VariantsOf, Content
<1>3. variants' \in Seq(VariantsOf(n))
  BY DEF WellFormed
<1>4. [variants' EXCEPT ![active'] = variants'[active']] = variants'
  BY <1>3
<1>5. foldedVariants' = variants'
  BY <1>2, <1>4 DEF foldedVariants
<1>6. QED
  BY <1>1, <1>5 DEF VariantsOf, Content, Contents

\* The scope is on the variant it was on, or on the first if that one is gone.
ScopeStays(next) ==
    scope # None /\ scope' # None
      => \/ next[scope'].id = variants[scope].id
         \/ /\ \A j \in DOMAIN next : next[j].id # variants[scope].id
            /\ scope' = 1

LEMMA ScopeFollows ==
    ASSUME VariantsInv, NEW next, WellFormed(next, edits), followVariants(next)
    PROVE  scope' \in DOMAIN next \cup {None} /\ ScopeStays(next)
<1> DEFINE at == {i \in DOMAIN next : next[i].id = variants[scope].id}
<1>1. /\ DOMAIN next = 1 .. Len(next) /\ Len(next) \in Nat \ {0} /\ 1 \in DOMAIN next
      /\ DOMAIN next \subseteq Nat
  <2>1. next \in Seq(VariantsOf(edits)) /\ Len(next) \in Nat \ {0}
    BY OneVariantOneForm DEF WellFormed, VariantsInv
  <2>2. QED
    BY <2>1
<1>2. CASE scope = None
  BY <1>2 DEF followVariants, ScopeStays
<1>3. CASE scope # None /\ at = {}
  BY <1>1, <1>3 DEF followVariants, ScopeStays
<1>4. CASE scope # None /\ at # {}
  <2>1. First(at) \in at
    BY <1>1, <1>4, FirstIsThere
  <2>2. scope' = First(at)
    BY <1>4 DEF followVariants
  <2>3. QED
    BY <2>1, <2>2 DEF ScopeStays
<1>5. QED
  BY <1>2, <1>3, <1>4

LEMMA Activated ==
    ASSUME VariantsInv, NEW next, WellFormed(next, edits), NEW index \in DOMAIN next,
           activate(next, index)
    PROVE  /\ VariantsInv' /\ ScopeStays(next)
           /\ variants' = next /\ foldedVariants' = next /\ active' = index
           /\ mode' = mode /\ edits' = edits
<1>1. /\ variants' = next /\ active' = index /\ live' = Content(next[index])
      /\ forms' = forms /\ mode' = mode /\ edits' = edits /\ followVariants(next)
  BY DEF activate
<1>2. foldedVariants' = next /\ live' \in Contents(edits)
  BY <1>1, ShownIsFolded
<1>3. WellFormed(variants, edits)'
  BY <1>1, SameForms
<1>4. scope' \in DOMAIN next \cup {None} /\ ScopeStays(next)
  BY <1>1, ScopeFollows
<1>5. QED
  BY <1>1, <1>2, <1>3, <1>4 DEF VariantsInv, Contents

-----------------------------------------------------------------------------
(* Sets of the variants                                                     *)

LEMMA AgreeByPlace ==
    ASSUME NEW vs
    PROVE  Agree(Range(vs)) <=>
             \A i, j \in DOMAIN vs :
                /\ vs[i].shards = vs[j].shards
                /\ vs[i].form = vs[j].form => vs[i].forma = vs[j].forma
BY DEF Agree, Range, SameForm

\* Variants agree when linking them, from whichever, changes nothing.
LEMMA AgreeLinks ==
    ASSUME NEW n, NEW vs, WellFormed(vs, n)
    PROVE  /\ Agree(Range(vs)) => \A k \in DOMAIN vs : linkVariants(vs, k) = vs
           /\ (\A k \in DOMAIN vs : linkVariants(vs, k) = vs) => Agree(Range(vs))
<1>1. vs \in Seq(VariantsOf(n))
  BY DEF WellFormed
<1>2. ASSUME Agree(Range(vs)), NEW k \in DOMAIN vs
      PROVE  linkVariants(vs, k) = vs
  <2>1. \A i \in DOMAIN vs :
           /\ vs[i].shards = vs[k].shards
           /\ vs[i].form = vs[k].form => vs[i].forma = vs[k].forma
    BY <1>2, AgreeByPlace
  <2>2. ASSUME NEW i \in DOMAIN vs
        PROVE  [vs[i] EXCEPT !.shards = vs[k].shards,
                             !.forma = IF SameForm(vs[i], vs[k]) THEN vs[k].forma ELSE @]
               = vs[i]
    <3>1. vs[i] \in VariantsOf(n)
      BY EntryTyped
    <3>2. QED
      BY <2>1, <3>1 DEF VariantsOf, SameForm
  <2>3. linkVariants(vs, k) = [i \in DOMAIN vs |-> vs[i]]
    BY <2>2 DEF linkVariants
  <2>4. QED
    BY <1>1, <2>3
<1>3. ASSUME \A k \in DOMAIN vs : linkVariants(vs, k) = vs
      PROVE  Agree(Range(vs))
  <2>1. ASSUME NEW i \in DOMAIN vs, NEW k \in DOMAIN vs
        PROVE  /\ vs[i].shards = vs[k].shards
               /\ vs[i].form = vs[k].form => vs[i].forma = vs[k].forma
    <3>1. linkVariants(vs, k) = vs
      BY <1>3
    <3> DEFINE ws == linkVariants(vs, k)
    <3>2. /\ ws[i].shards = vs[k].shards
          /\ ws[i].forma = IF vs[i].form = vs[k].form THEN vs[k].forma ELSE vs[i].forma
      BY LinkKeeps
    <3> HIDE DEF ws
    <3>3. ws = vs
      BY <3>1 DEF ws
    <3>4. QED
      BY <3>2, <3>3
  <2>2. QED
    BY <2>1, AgreeByPlace
<1>4. QED
  BY <1>2, <1>3

\* When the mode is linked, what is captured agrees unless another form disagrees.
LEMMA LinkedCapture ==
    ASSUME VariantsInv, mode = "linked",
           \A i, j \in DOMAIN variants :
              variants[i].form = variants[j].form /\ variants[i].form # variants[active].form
                => variants[i].forma = variants[j].forma
    PROVE  Agree(Range(captureVariants))
<1>1. /\ DOMAIN captureVariants = DOMAIN variants
      /\ \A i \in DOMAIN variants :
            /\ captureVariants[i].form = variants[i].form
            /\ captureVariants[i].shards = live.shards
            /\ captureVariants[i].forma =
                  IF variants[i].form = variants[active].form THEN live.forma
                                                              ELSE variants[i].forma
  BY CaptureKeeps
<1>2. \A i, j \in DOMAIN captureVariants :
         /\ captureVariants[i].shards = captureVariants[j].shards
         /\ captureVariants[i].form = captureVariants[j].form
              => captureVariants[i].forma = captureVariants[j].forma
  BY <1>1
<1>3. QED
  BY <1>2, AgreeByPlace

LEMMA AgreedElsewhere ==
    ASSUME VariantsInv, mode = "linked", Agree(Range(captureVariants))
    PROVE  \A i, j \in DOMAIN variants :
              variants[i].form = variants[j].form /\ variants[i].form # variants[active].form
                => variants[i].forma = variants[j].forma
<1>1. \A i, j \in DOMAIN captureVariants :
         captureVariants[i].form = captureVariants[j].form
            => captureVariants[i].forma = captureVariants[j].forma
  BY AgreeByPlace
<1>2. QED
  BY <1>1, CaptureKeeps

-----------------------------------------------------------------------------
(* What a step may do to the variants                                       *)

\* No variant but the excepted changes its loadout, forma or shards.
KeepsContents ==
    SameOnCommonIds(OwnContents(IF edits' = edits THEN {} ELSE {active}), OwnContents({})')

\* Linked variants keep agreeing, and no set changes without an edit.
KeepsSets ==
    Agree(Range(captureVariants)) =>
       /\ Agree(Range(captureVariants)')
       /\ edits' = edits => SameOnCommonIds(SharedSets(Range(captureVariants)),
                                            SharedSets(Range(captureVariants)'))

\* Every entry of next is one of the build, or a new one, with the sets of one
\* of the build when they are linked.
Offspring(next) ==
    \A j \in DOMAIN next :
       \/ \E i \in DOMAIN variants : next[j] = captureVariants[i]
       \/ /\ \A i \in DOMAIN variants : variants[i].id # next[j].id
          /\ mode = "linked" =>
                \E i \in DOMAIN variants : /\ SameForm(next[j], captureVariants[i])
                                           /\ next[j].forma = captureVariants[i].forma
                                           /\ next[j].shards = captureVariants[i].shards

\* Contents and sets by place rather than by id.
LEMMA ContentsByPlace ==
    ASSUME DOMAIN foldedVariants = DOMAIN variants,
           DOMAIN (foldedVariants') = DOMAIN (variants'),
           \A i \in DOMAIN variants, j \in DOMAIN variants' :
              foldedVariants[i].id = foldedVariants'[j].id /\ (edits' = edits \/ i # active)
                 => Content(foldedVariants[i]) = Content(foldedVariants'[j])
    PROVE  KeepsContents
<1>1. OwnContents({})' = {[id |-> foldedVariants'[j].id, own |-> Content(foldedVariants'[j])]
                            : j \in DOMAIN variants'}
  BY DEF OwnContents, Content
<1>2. OwnContents(IF edits' = edits THEN {} ELSE {active})
        = {[id |-> foldedVariants[i].id, own |-> Content(foldedVariants[i])]
             : i \in {k \in DOMAIN variants : edits' = edits \/ k # active}}
  BY DEF OwnContents
<1>3. ASSUME NEW b \in OwnContents(IF edits' = edits THEN {} ELSE {active}),
             NEW a \in OwnContents({})', b.id = a.id
      PROVE  b = a
  <2>1. PICK j \in DOMAIN variants' :
           a = [id |-> foldedVariants'[j].id, own |-> Content(foldedVariants'[j])]
    BY <1>1
  <2>2. PICK i \in {k \in DOMAIN variants : edits' = edits \/ k # active} :
           b = [id |-> foldedVariants[i].id, own |-> Content(foldedVariants[i])]
    BY <1>2
  <2>3. foldedVariants[i].id = foldedVariants'[j].id
    BY <1>3, <2>1, <2>2
  <2>4. QED
    BY <2>1, <2>2, <2>3
<1>4. QED
  BY <1>3 DEF KeepsContents, SameOnCommonIds

LEMMA SetsByPlace ==
    ASSUME NEW vs, NEW ws,
           \A i \in DOMAIN vs, j \in DOMAIN ws :
              vs[i].id = ws[j].id => vs[i].forma = ws[j].forma /\ vs[i].shards = ws[j].shards
    PROVE  SameOnCommonIds(SharedSets(Range(vs)), SharedSets(Range(ws)))
<1>1. SUFFICES ASSUME NEW b \in SharedSets(Range(vs)), NEW a \in SharedSets(Range(ws)),
                      b.id = a.id
               PROVE  b = a
  BY DEF SameOnCommonIds
<1>2. PICK i \in DOMAIN vs :
         b = [id |-> vs[i].id, forma |-> vs[i].forma, shards |-> vs[i].shards]
  BY DEF SharedSets, Range
<1>3. PICK j \in DOMAIN ws :
         a = [id |-> ws[j].id, forma |-> ws[j].forma, shards |-> ws[j].shards]
  BY DEF SharedSets, Range
<1>4. vs[i].id = ws[j].id
  BY <1>1, <1>2, <1>3
<1>5. QED
  BY <1>2, <1>3, <1>4

\* An activation of variants and their offspring.
LEMMA Rearranged ==
    ASSUME VariantsInv, NEW next, WellFormed(next, edits), Offspring(next),
           NEW index \in DOMAIN next, activate(next, index)
    PROVE  /\ VariantsInv' /\ ScopeStays(variants')
           /\ mode = "independent" => KeepsContents
           /\ mode = "linked" => KeepsSets
<1>1. /\ VariantsInv' /\ ScopeStays(next) /\ variants' = next /\ foldedVariants' = next
      /\ active' = index /\ mode' = mode /\ edits' = edits
  BY Activated
<1>2. /\ DOMAIN captureVariants = DOMAIN variants /\ DOMAIN foldedVariants = DOMAIN variants
      /\ WellFormed(captureVariants, edits) /\ DistinctIds(variants)
      /\ \A i \in DOMAIN variants : /\ captureVariants[i].id = variants[i].id
                                    /\ foldedVariants[i].id = variants[i].id
  BY CaptureKeeps, FoldedKeeps DEF VariantsInv, WellFormed
<1>3. ASSUME NEW i \in DOMAIN variants, NEW j \in DOMAIN next, variants[i].id = next[j].id
      PROVE  next[j] = captureVariants[i]
  <2>1. PICK k \in DOMAIN variants : next[j] = captureVariants[k]
    BY <1>3 DEF Offspring
  <2>2. k = i
    BY <1>2, <1>3, <2>1 DEF DistinctIds
  <2>3. QED
    BY <2>1, <2>2
<1>4. ASSUME mode = "independent" PROVE KeepsContents
  <2>1. captureVariants = foldedVariants
    BY <1>4, CaptureKeeps
  <2>2. \A i \in DOMAIN variants, j \in DOMAIN variants' :
           foldedVariants[i].id = foldedVariants'[j].id
             => Content(foldedVariants[i]) = Content(foldedVariants'[j])
    BY <1>1, <1>2, <1>3, <2>1
  <2>3. QED
    BY <1>1, <1>2, <2>2, ContentsByPlace
<1>5. ASSUME mode = "linked", Agree(Range(captureVariants))
      PROVE  /\ Agree(Range(captureVariants)')
             /\ SameOnCommonIds(SharedSets(Range(captureVariants)),
                                SharedSets(Range(captureVariants)'))
  <2>1. ASSUME NEW j \in DOMAIN next
        PROVE  \E i \in DOMAIN variants : /\ next[j].form = captureVariants[i].form
                                          /\ next[j].forma = captureVariants[i].forma
                                          /\ next[j].shards = captureVariants[i].shards
    BY <1>5 DEF Offspring, SameForm
  <2>2. \A i, j \in DOMAIN variants :
           /\ captureVariants[i].shards = captureVariants[j].shards
           /\ captureVariants[i].form = captureVariants[j].form
                => captureVariants[i].forma = captureVariants[j].forma
    BY <1>2, <1>5, AgreeByPlace
  <2>3. ASSUME NEW i \in DOMAIN next, NEW j \in DOMAIN next
        PROVE  /\ next[i].shards = next[j].shards
               /\ next[i].form = next[j].form => next[i].forma = next[j].forma
    <3>1. PICK k \in DOMAIN variants : /\ next[i].form = captureVariants[k].form
                                       /\ next[i].forma = captureVariants[k].forma
                                       /\ next[i].shards = captureVariants[k].shards
      BY <2>1
    <3>2. PICK l \in DOMAIN variants : /\ next[j].form = captureVariants[l].form
                                       /\ next[j].forma = captureVariants[l].forma
                                       /\ next[j].shards = captureVariants[l].shards
      BY <2>1
    <3>3. QED
      BY <2>2, <3>1, <3>2
  <2>4. Agree(Range(next))
    BY <2>3, AgreeByPlace
  <2>5. linkVariants(next, index) = next
    BY <2>4, AgreeLinks
  <2>6. captureVariants' = next
    BY <1>1, <1>5, <2>5 DEF captureVariants
  <2>7. Range(captureVariants)' = Range(next)
    BY <2>6 DEF Range
  <2>8. SameOnCommonIds(SharedSets(Range(captureVariants)), SharedSets(Range(next)))
    <3>1. \A i \in DOMAIN captureVariants, j \in DOMAIN next :
             captureVariants[i].id = next[j].id
               => /\ captureVariants[i].forma = next[j].forma
                  /\ captureVariants[i].shards = next[j].shards
      BY <1>2, <1>3
    <3>2. QED
      BY <3>1, SetsByPlace
  <2>9. QED
    BY <2>4, <2>7, <2>8
<1>6. QED
  BY <1>1, <1>4, <1>5 DEF KeepsSets

LEMMA CapturedOffspring ==
    ASSUME VariantsInv
    PROVE  Offspring(captureVariants)
BY CaptureKeeps DEF Offspring

\* What a new variant starts with.
LEMMA SeedIsShared ==
    ASSUME VariantsInv, NEW form \in Forms
    PROVE  LET seed == newVariantSeed(mode, captureVariants, captureVariants[active], form)
           IN  /\ seed \in Contents(edits)
               /\ mode = "linked" =>
                     \E i \in DOMAIN variants : /\ captureVariants[i].form = form
                                                /\ seed.forma = captureVariants[i].forma
                                                /\ seed.shards = captureVariants[i].shards
<1> DEFINE vs   == captureVariants
           at   == OfForm(vs, form)
           seed == newVariantSeed(mode, vs, vs[active], form)
<1>1. /\ WellFormed(vs, edits) /\ vs \in Seq(VariantsOf(edits))
      /\ DOMAIN vs = DOMAIN variants /\ active \in DOMAIN vs
      /\ edits \in Nat /\ mode \in {"linked", "independent"}
      /\ mode = "linked" => \A i \in DOMAIN variants : vs[i].shards = live.shards
  BY CaptureKeeps, VariantsAssumption DEF VariantsInv, WellFormed
<1>2. at # {} /\ at \in SUBSET Nat /\ at \subseteq DOMAIN vs
  BY <1>1, OneVariantOneForm, PlacesAreFinite DEF VariantsInv
<1>3. First(at) \in at
  BY <1>2, FirstIsThere
<1>4. First(at) \in DOMAIN vs /\ vs[First(at)].form = form
  BY <1>2, <1>3 DEF OfForm
<1>5. vs[First(at)] \in VariantsOf(edits) /\ vs[active] \in VariantsOf(edits)
  BY <1>1, <1>4, EntryTyped
<1>6. CASE mode = "independent"
  BY <1>1, <1>6 DEF newVariantSeed, Empty, Contents
<1>7. CASE mode = "linked"
  <2>1. seed = [mods |-> 0, helminth |-> 0, forma |-> vs[First(at)].forma,
                shards |-> vs[active].shards]
    BY <1>2, <1>7 DEF newVariantSeed, Empty
  <2> HIDE DEF seed, vs, at
  <2>2. seed \in Contents(edits)
    BY SMTT(30), <1>1, <1>5, <2>1 DEF Contents, VariantsOf
  <2>3. /\ First(at) \in DOMAIN variants /\ seed.forma = vs[First(at)].forma
        /\ seed.shards = vs[First(at)].shards
    BY <1>1, <1>4, <1>7, <2>1
  <2>4. QED
    BY <1>4, <2>2, <2>3 DEF seed, vs
<1>8. QED
  BY <1>1, <1>6, <1>7

-----------------------------------------------------------------------------
(* The steps of the editor                                                  *)

\* What every step keeps.
StepKeeps ==
    /\ VariantsInv'
    /\ onScopeChange \/ ScopeStays(variants')
    /\ mode = "independent" /\ mode' = "independent"
         => KeepsContents \/ openShareLink \/ oldClientSaves
    /\ mode = "linked" /\ mode' = "linked" => KeepsSets

LEMMA SwitchStep ==
    ASSUME VariantsInv, NEW i \in DOMAIN variants, switchVariant(i)
    PROVE  StepKeeps
<1>1. activate(captureVariants, i)
  BY DEF switchVariant
<1>2. WellFormed(captureVariants, edits) /\ i \in DOMAIN captureVariants
  BY CaptureKeeps
<1>3. QED
  BY <1>1, <1>2, CapturedOffspring, Rearranged DEF StepKeeps

\* The budget of the active variant's form bounds the capture of it, too.
LEMMA CaptureHasRoom ==
    ASSUME VariantsInv, formCount < MAX_VARIANTS
    PROVE  Cardinality(OfForm(captureVariants, formOf(active))) < MAX_VARIANTS
<1>1. OfForm(captureVariants, formOf(active)) = OfForm(variants, formOf(active))
  BY CaptureKeeps DEF OfForm
<1>2. QED
  BY <1>1 DEF formCount

\* An array with one new variant.
LEMMA GrownIsOffspring ==
    ASSUME VariantsInv, NEW next, NEW p, OneMore(captureVariants, next, p),
           next \in Seq(VariantsOf(edits)),
           \A i \in DOMAIN variants : variants[i].id # next[p].id,
           mode = "linked" =>
              \E i \in DOMAIN variants : /\ SameForm(next[p], captureVariants[i])
                                         /\ next[p].forma = captureVariants[i].forma
                                         /\ next[p].shards = captureVariants[i].shards
    PROVE  Offspring(next) /\ p \in DOMAIN next
<1>1. /\ DOMAIN captureVariants = DOMAIN variants
      /\ captureVariants \in Seq(VariantsOf(edits))
      /\ DOMAIN captureVariants = 1 .. Len(captureVariants) /\ Len(captureVariants) \in Nat
      /\ DOMAIN next = 1 .. Len(next) /\ Len(next) = Len(captureVariants) + 1
      /\ p \in 1 .. Len(next)
  BY CaptureKeeps DEF WellFormed, OneMore
<1>2. ASSUME NEW j \in DOMAIN next, j # p
      PROVE  \E i \in DOMAIN variants : next[j] = captureVariants[i]
  <2>1. CASE j < p
    BY <1>1, <2>1 DEF OneMore
  <2>2. CASE j > p
    <3>1. j - 1 \in DOMAIN variants /\ ~(j - 1 < p) /\ j - 1 + 1 = j
      BY <1>1, <2>2
    <3>2. captureVariants[j - 1] = next[j]
      BY <1>1, <3>1 DEF OneMore
    <3>3. QED
      BY <3>1, <3>2
  <2>3. QED
    BY <1>1, <1>2, <2>1, <2>2
<1>3. QED
  BY <1>1, <1>2 DEF Offspring

LEMMA BlankTyped ==
    ASSUME VariantsInv, NEW form \in Forms, Len(variants) < MaxVariants
    PROVE  LET v == makeBlankVariant(form, captureVariants)
           IN  /\ v \in VariantsOf(edits) /\ v.form = form /\ v.id = NewId
               /\ mode = "linked" =>
                     \E i \in DOMAIN variants : /\ SameForm(v, captureVariants[i])
                                                /\ v.forma = captureVariants[i].forma
                                                /\ v.shards = captureVariants[i].shards
<1> DEFINE seed == newVariantSeed(mode, captureVariants, captureVariants[active], form)
           v    == makeBlankVariant(form, captureVariants)
<1>1. seed \in Contents(edits) /\ NewId \in Nat /\ 0 \in 0 .. edits
  BY SeedIsShared, NewIdIsNew, VariantsAssumption DEF VariantsInv
<1>2. v = Variant(NewId, form, seed)
  BY DEF makeBlankVariant
<1>3. mode = "linked" =>
         \E i \in DOMAIN variants : /\ captureVariants[i].form = form
                                    /\ seed.forma = captureVariants[i].forma
                                    /\ seed.shards = captureVariants[i].shards
  BY SeedIsShared
<1> HIDE DEF seed, v
<1>4. /\ v \in VariantsOf(edits) /\ v.form = form /\ v.id = NewId
      /\ v.forma = seed.forma /\ v.shards = seed.shards
  BY <1>1, <1>2 DEF Variant, VariantsOf, Contents
<1>5. QED
  BY <1>3, <1>4 DEF SameForm, v

LEMMA AddBlank ==
    ASSUME VariantsInv, NEW form \in Forms, Len(variants) < MaxVariants,
           Cardinality(OfForm(captureVariants, form)) < MAX_VARIANTS,
           activate(Append(captureVariants, makeBlankVariant(form, captureVariants)),
                    Len(captureVariants) + 1)
    PROVE  StepKeeps
<1> DEFINE vs   == captureVariants
           v    == makeBlankVariant(form, vs)
           next == Append(vs, v)
           p    == Len(vs) + 1
<1>1. v \in VariantsOf(edits) /\ v.form = form /\ v.id = NewId
  BY BlankTyped
<1>2. WellFormed(vs, edits) /\ vs \in Seq(VariantsOf(edits))
  BY CaptureKeeps DEF WellFormed
<1>3. next \in Seq(VariantsOf(edits)) /\ OneMore(vs, next, p) /\ next[p] = v
  BY <1>1, <1>2, AppendIsOneMore
<1>4. \A i \in DOMAIN variants : variants[i].id # NewId
  BY NewIdIsNew
<1>5. \A i \in DOMAIN vs : vs[i].id # next[p].id
  BY <1>1, <1>3, <1>4, CaptureKeeps
<1>6. mode = "linked" =>
         \E i \in DOMAIN variants : /\ SameForm(v, vs[i]) /\ v.forma = vs[i].forma
                                    /\ v.shards = vs[i].shards
  BY BlankTyped
<1>7. activate(next, p)
  OBVIOUS
<1> HIDE DEF next, p, v, vs
<1>8. WellFormed(next, edits)
  BY <1>1, <1>2, <1>3, <1>5, OneMoreGrows DEF vs
<1>9. Offspring(next) /\ p \in DOMAIN next
  BY <1>1, <1>3, <1>4, <1>6, GrownIsOffspring DEF vs
<1>10. QED
  BY <1>7, <1>8, <1>9, Rearranged DEF StepKeeps

LEMMA AddStep ==
    ASSUME VariantsInv, addVariant
    PROVE  StepKeeps
<1>1. /\ Len(variants) < MaxVariants /\ formCount < MAX_VARIANTS
      /\ activate(Append(captureVariants, makeBlankVariant(formOf(active), captureVariants)),
                  Len(variants) + 1)
  BY DEF addVariant
<1>2. Len(captureVariants) = Len(variants)
  BY CaptureKeeps
<1>3. formOf(active) \in Forms
  BY EntryTyped DEF VariantsInv, VariantsOf, formOf
<1>4. QED
  BY <1>1, <1>2, <1>3, CaptureHasRoom, AddBlank

LEMMA DuplicateStep ==
    ASSUME VariantsInv, duplicateActive
    PROVE  StepKeeps
<1> DEFINE vs   == captureVariants
           dup  == [vs[active] EXCEPT !.id = NewId, !.named = TRUE]
           next == InsertAt(vs, active + 1, dup)
           p    == active + 1
<1>1. Len(variants) < MaxVariants /\ formCount < MAX_VARIANTS /\ activate(next, p)
  BY DEF duplicateActive
<1>2. /\ WellFormed(vs, edits) /\ vs \in Seq(VariantsOf(edits))
      /\ active \in DOMAIN vs /\ DOMAIN vs = DOMAIN variants
  BY CaptureKeeps DEF WellFormed, VariantsInv
<1>3. vs[active] \in VariantsOf(edits) /\ vs[active].form = formOf(active)
  BY <1>2, EntryTyped, CaptureKeeps DEF formOf
<1>4. NewId \in Nat /\ \A i \in DOMAIN variants : variants[i].id # NewId
  BY <1>1, NewIdIsNew
<1> HIDE DEF vs
<1>5. /\ dup \in VariantsOf(edits) /\ dup.id = NewId /\ dup.form = formOf(active)
      /\ SameForm(dup, vs[active]) /\ dup.forma = vs[active].forma
      /\ dup.shards = vs[active].shards
  BY <1>3, <1>4 DEF VariantsOf, SameForm
<1> HIDE DEF dup
<1>6. p \in 1 .. Len(vs) + 1
  BY <1>2
<1>7. next \in Seq(VariantsOf(edits)) /\ OneMore(vs, next, p) /\ next[p] = dup
  BY <1>2, <1>5, <1>6, InsertIsOneMore
<1> HIDE DEF next, p
<1>8. \A i \in DOMAIN vs : vs[i].id # next[p].id
  BY <1>2, <1>4, <1>5, <1>7, CaptureKeeps DEF vs
<1>9. WellFormed(next, edits)
  BY <1>1, <1>2, <1>5, <1>7, <1>8, CaptureHasRoom, OneMoreGrows DEF vs
<1>10. Offspring(next) /\ p \in DOMAIN next
  BY <1>2, <1>4, <1>5, <1>7, GrownIsOffspring DEF vs
<1>11. QED
  BY <1>1, <1>9, <1>10, Rearranged DEF StepKeeps

LEMMA DeleteStep ==
    ASSUME VariantsInv, deleteActive
    PROVE  StepKeeps
<1> DEFINE vs   == captureVariants
           next == RemoveAt(vs, active)
           at   == OfForm(next, formOf(active))
<1>1. formCount > 1 /\ activate(next, First(at))
  BY DEF deleteActive
<1>2. /\ WellFormed(vs, edits) /\ vs \in Seq(VariantsOf(edits))
      /\ active \in DOMAIN vs /\ DOMAIN vs = DOMAIN variants
      /\ vs[active].form = formOf(active)
      /\ OfForm(vs, formOf(active)) = OfForm(variants, formOf(active))
  BY CaptureKeeps DEF WellFormed, VariantsInv, formOf, OfForm
<1>3. Cardinality(OfForm(vs, vs[active].form)) > 1
  BY <1>1, <1>2 DEF formCount
<1> HIDE DEF vs
<1>4. next \in Seq(VariantsOf(edits)) /\ OneMore(next, vs, active)
  BY <1>2, RemoveIsOneLess
<1> HIDE DEF next
<1>5. WellFormed(next, edits)
  BY <1>2, <1>3, <1>4, OneLessShrinks
<1>6. Offspring(next)
  <2>1. ASSUME NEW j \in DOMAIN next
        PROVE  \E i \in DOMAIN variants : next[j] = vs[i]
    <3>1. /\ DOMAIN next = 1 .. Len(next) /\ Len(next) \in Nat
          /\ DOMAIN vs = 1 .. Len(vs) /\ Len(vs) = Len(next) + 1
      BY <1>2, <1>4 DEF OneMore
    <3>2. next[j] = vs[IF j < active THEN j ELSE j + 1]
      BY <1>4, <3>1 DEF OneMore
    <3>3. (IF j < active THEN j ELSE j + 1) \in DOMAIN variants
      BY <1>2, <3>1
    <3>4. QED
      BY <3>2, <3>3
  <2>2. QED
    BY <2>1 DEF Offspring, vs
<1>7. First(at) \in DOMAIN next
  <2>1. formOf(active) \in Forms
    BY EntryTyped DEF VariantsInv, VariantsOf, formOf
  <2>2. at # {}
    BY <1>5, <2>1, OneVariantOneForm DEF VariantsInv
  <2>3. at \in SUBSET Nat /\ at \subseteq DOMAIN next
    BY <1>4, PlacesAreFinite
  <2>4. First(at) \in at
    BY <2>2, <2>3, FirstIsThere
  <2>5. QED
    BY <2>3, <2>4
<1>8. QED
  BY <1>1, <1>5, <1>6, <1>7, Rearranged DEF StepKeeps

LEMMA SwitchFormStep ==
    ASSUME VariantsInv, NEW form \in Forms, switchForm(form)
    PROVE  StepKeeps
<1> DEFINE vs == captureVariants
           at == OfForm(vs, form)
<1>1. WellFormed(vs, edits) /\ vs \in Seq(VariantsOf(edits))
  BY CaptureKeeps DEF WellFormed
<1>2. at # {}
  BY <1>1, OneVariantOneForm DEF VariantsInv
<1>3. at \in SUBSET Nat /\ at \subseteq DOMAIN vs
  BY <1>1, PlacesAreFinite
<1>4. First(at) \in DOMAIN vs
  BY <1>2, <1>3, FirstIsThere
<1>5. activate(vs, First(at))
  BY <1>2 DEF switchForm
<1>6. QED
  BY <1>1, <1>4, <1>5, CapturedOffspring, Rearranged DEF StepKeeps

-----------------------------------------------------------------------------
(* Steps that leave the array as it is                                      *)

\* What FoldedKeeps and CaptureKeeps say of a state, to be said of the next.
FoldedIsBuild ==
    /\ DOMAIN foldedVariants = DOMAIN variants
    /\ \A i \in DOMAIN variants :
          /\ foldedVariants[i].id = variants[i].id
          /\ foldedVariants[i].form = variants[i].form
          /\ i # active => foldedVariants[i] = variants[i]
    /\ foldedVariants[active].mods = live.mods
    /\ foldedVariants[active].helminth = live.helminth
    /\ foldedVariants[active].forma = live.forma
    /\ foldedVariants[active].shards = live.shards

CaptureIsBuild ==
    /\ DOMAIN captureVariants = DOMAIN variants
    /\ WellFormed(captureVariants, edits)
    /\ \A i \in DOMAIN variants :
          /\ captureVariants[i].id = variants[i].id
          /\ captureVariants[i].form = variants[i].form
          /\ captureVariants[i].guide = variants[i].guide
    /\ mode = "linked" =>
          \A i \in DOMAIN variants :
             /\ captureVariants[i].shards = live.shards
             /\ captureVariants[i].forma =
                   IF variants[i].form = variants[active].form THEN live.forma
                                                               ELSE variants[i].forma

LinkedCaptureAgrees ==
    mode = "linked"
    /\ (\A i, j \in DOMAIN variants :
           variants[i].form = variants[j].form /\ variants[i].form # variants[active].form
             => variants[i].forma = variants[j].forma)
      => Agree(Range(captureVariants))

LEMMA StateFacts == VariantsInv => FoldedIsBuild /\ CaptureIsBuild /\ LinkedCaptureAgrees
BY FoldedKeeps, CaptureKeeps, LinkedCapture
   DEF FoldedIsBuild, CaptureIsBuild, LinkedCaptureAgrees

LEMMA NextStateFacts ==
    VariantsInv' => FoldedIsBuild' /\ CaptureIsBuild' /\ LinkedCaptureAgrees'
BY StateFacts, PTL

\* The array keeps every loadout and set, and the screen unless it is edited.
LEMMA TouchedStep ==
    ASSUME VariantsInv, VariantsInv', active' = active, mode' = mode,
           DOMAIN (variants') = DOMAIN variants,
           \A i \in DOMAIN variants :
              /\ variants'[i].id = variants[i].id /\ variants'[i].form = variants[i].form
              /\ variants'[i].mods = variants[i].mods
              /\ variants'[i].helminth = variants[i].helminth
              /\ variants'[i].forma = variants[i].forma
              /\ variants'[i].shards = variants[i].shards,
           live' = live \/ edits' # edits
    PROVE  KeepsContents /\ (mode = "linked" => KeepsSets)
<1>1. /\ FoldedIsBuild /\ CaptureIsBuild
      /\ FoldedIsBuild' /\ CaptureIsBuild' /\ LinkedCaptureAgrees'
      /\ active \in DOMAIN variants /\ DistinctIds(variants)
  BY StateFacts, NextStateFacts DEF VariantsInv, WellFormed
<1>2. KeepsContents
  <2>1. ASSUME NEW i \in DOMAIN variants, NEW j \in DOMAIN variants',
               foldedVariants[i].id = foldedVariants'[j].id, edits' = edits \/ i # active
        PROVE  Content(foldedVariants[i]) = Content(foldedVariants'[j])
    <3>1. foldedVariants'[j].id = variants'[j].id /\ foldedVariants[i].id = variants[i].id
      BY <1>1 DEF FoldedIsBuild
    <3>2. i = j
      BY <1>1, <2>1, <3>1 DEF DistinctIds
    <3>3. CASE i = active
      BY <1>1, <2>1, <3>2, <3>3 DEF FoldedIsBuild, Content
    <3>4. CASE i # active
      BY <1>1, <3>2, <3>4 DEF FoldedIsBuild, Content
    <3>5. QED
      BY <3>3, <3>4
  <2>2. QED
    BY <1>1, <2>1, ContentsByPlace DEF FoldedIsBuild
<1>3. ASSUME mode = "linked", Agree(Range(captureVariants))
      PROVE  /\ Agree(Range(captureVariants)')
             /\ edits' = edits => SameOnCommonIds(SharedSets(Range(captureVariants)),
                                                  SharedSets(Range(captureVariants)'))
  <2>1. \A i, j \in DOMAIN variants' :
           variants'[i].form = variants'[j].form /\ variants'[i].form # variants'[active'].form
             => variants'[i].forma = variants'[j].forma
    BY <1>1, <1>3, AgreedElsewhere
  <2>2. Agree(Range(captureVariants)')
    BY <1>1, <1>3, <2>1 DEF LinkedCaptureAgrees
  <2>3. ASSUME edits' = edits, NEW i \in DOMAIN captureVariants,
               NEW j \in DOMAIN (captureVariants'),
               captureVariants[i].id = captureVariants'[j].id
        PROVE  /\ captureVariants[i].forma = captureVariants'[j].forma
               /\ captureVariants[i].shards = captureVariants'[j].shards
    <3>1. i \in DOMAIN variants /\ j \in DOMAIN variants /\ variants[i].id = variants[j].id
      BY <1>1, <2>3 DEF CaptureIsBuild
    <3>2. i = j
      BY <1>1, <3>1 DEF DistinctIds
    <3>3. QED
      BY <1>1, <1>3, <2>3, <3>1, <3>2 DEF CaptureIsBuild
  <2>4. ASSUME edits' = edits
        PROVE  SameOnCommonIds(SharedSets(Range(captureVariants)),
                               SharedSets(Range(captureVariants)'))
    <3>1. Range(captureVariants)' = Range(captureVariants')
      BY DEF Range
    <3>2. SameOnCommonIds(SharedSets(Range(captureVariants)),
                          SharedSets(Range(captureVariants')))
      BY <2>3, <2>4, SetsByPlace
    <3>3. QED
      BY <3>1, <3>2
  <2>5. QED
    BY <2>2, <2>4
<1>4. QED
  BY <1>2, <1>3 DEF KeepsSets

\* The scope is not moved by a step that leaves the ids in their places.
LEMMA ScopeUntouched ==
    ASSUME VariantsInv, scope' = scope, NEW next, DOMAIN next = DOMAIN variants,
           \A i \in DOMAIN variants : next[i].id = variants[i].id
    PROVE  ScopeStays(next)
BY DEF ScopeStays, VariantsInv

LEMMA EditStep ==
    ASSUME VariantsInv, edit
    PROVE  StepKeeps
<1>1. /\ edits < MaxEdits /\ edits' = edits + 1 /\ edits \in Nat /\ MaxEdits \in Nat
      /\ UNCHANGED <<forms, variants, active, mode, scope>>
  BY VariantsAssumption DEF edit, VariantsInv
<1>2. WellFormed(variants, edits + 1)
  BY <1>1, MoreEdits DEF VariantsInv
<1>3. live' \in Contents(edits + 1)
  <2>1. live \in Contents(edits + 1)
    BY <1>1, MoreEdits DEF VariantsInv
  <2>2. \E field \in {"mods", "helminth", "forma", "shards"} :
           live' = [live EXCEPT ![field] = edits + 1]
    BY <1>1 DEF edit
  <2>3. QED
    BY <1>1, <2>1, <2>2 DEF Contents
<1>4. VariantsInv'
  BY <1>1, <1>2, <1>3, SameForms DEF VariantsInv, Contents
<1>5. KeepsContents /\ (mode = "linked" => KeepsSets)
  BY <1>1, <1>4, TouchedStep
<1>6. ScopeStays(variants')
  BY <1>1, ScopeUntouched
<1>7. QED
  BY <1>4, <1>5, <1>6 DEF StepKeeps

LEMMA EditGuideStep ==
    ASSUME VariantsInv, editGuide
    PROVE  StepKeeps
<1>1. /\ edits < MaxEdits /\ edits' = edits + 1 /\ edits \in Nat /\ MaxEdits \in Nat
      /\ scope \in DOMAIN variants
      /\ variants' = [variants EXCEPT ![scope] = [variants[scope] EXCEPT !.guide = edits + 1]]
      /\ UNCHANGED <<forms, active, live, mode, scope>>
  BY VariantsAssumption DEF editGuide, VariantsInv
<1>2. WellFormed(variants, edits + 1) /\ live \in Contents(edits + 1)
  BY <1>1, MoreEdits DEF VariantsInv
<1> DEFINE entry == [variants[scope] EXCEPT !.guide = edits + 1]
<1>3. variants[scope] \in VariantsOf(edits + 1)
  BY <1>1, <1>2, EntryTyped
<1>4. /\ entry \in VariantsOf(edits + 1) /\ entry.id = variants[scope].id
      /\ entry.form = variants[scope].form /\ entry.mods = variants[scope].mods
      /\ entry.helminth = variants[scope].helminth
      /\ entry.forma = variants[scope].forma /\ entry.shards = variants[scope].shards
  BY <1>1, <1>3 DEF VariantsOf
<1>5. /\ variants' \in Seq(VariantsOf(edits + 1)) /\ Len(variants') = Len(variants)
      /\ DOMAIN (variants') = DOMAIN variants
      /\ \A i \in DOMAIN variants : variants'[i] = IF i = scope THEN entry ELSE variants[i]
  <2> HIDE DEF entry
  <2>1. variants' = [variants EXCEPT ![scope] = entry]
    BY <1>1 DEF entry
  <2>2. variants \in Seq(VariantsOf(edits + 1))
    BY <1>2 DEF WellFormed
  <2>3. entry \in VariantsOf(edits + 1) /\ scope \in DOMAIN variants
    BY <1>1, <1>4
  <2>4. QED
    BY <2>1, <2>2, <2>3, ExceptSeq
<1> HIDE DEF entry
<1>6. \A i \in DOMAIN variants :
         /\ variants'[i].id = variants[i].id /\ variants'[i].form = variants[i].form
         /\ variants'[i].mods = variants[i].mods /\ variants'[i].forma = variants[i].forma
         /\ variants'[i].shards = variants[i].shards
         /\ variants'[i].helminth = variants[i].helminth
  BY <1>4, <1>5
<1>7. WellFormed(variants', edits + 1)
  BY <1>2, <1>5, <1>6, SameFormsAndIds
<1>8. VariantsInv'
  <2>1. WellFormed(variants, edits)'
    BY <1>1, <1>7, SameForms
  <2>2. (live \in Contents(edits))'
    BY <1>1, <1>2 DEF Contents
  <2>3. /\ forms' \in Nat \ {0} /\ edits' \in 0 .. MaxEdits /\ active' \in DOMAIN (variants')
        /\ scope' \in DOMAIN (variants') \cup {None} /\ mode' \in {"linked", "independent"}
    BY <1>1, <1>5 DEF VariantsInv
  <2>4. QED
    BY <2>1, <2>2, <2>3 DEF VariantsInv
<1>9. KeepsContents /\ (mode = "linked" => KeepsSets)
  BY <1>1, <1>5, <1>6, <1>8, TouchedStep
<1>10. ScopeStays(variants')
  BY <1>1, <1>5, <1>6, ScopeUntouched
<1>11. QED
  BY <1>8, <1>9, <1>10 DEF StepKeeps

LEMMA RenameStep ==
    ASSUME VariantsInv, renameActive
    PROVE  StepKeeps
<1> DEFINE entry == [variants[active] EXCEPT !.named = TRUE]
<1>1. /\ variants' = [variants EXCEPT ![active] = entry] /\ active \in DOMAIN variants
      /\ WellFormed(variants, edits) /\ variants \in Seq(VariantsOf(edits))
      /\ UNCHANGED <<forms, active, live, mode, scope, edits>>
  BY DEF renameActive, VariantsInv, WellFormed
<1>2. variants[active] \in VariantsOf(edits)
  BY <1>1, EntryTyped
<1>3. /\ entry \in VariantsOf(edits) /\ entry.id = variants[active].id
      /\ entry.form = variants[active].form /\ entry.mods = variants[active].mods
      /\ entry.helminth = variants[active].helminth
      /\ entry.forma = variants[active].forma /\ entry.shards = variants[active].shards
  BY <1>2 DEF VariantsOf
<1> HIDE DEF entry
<1>4. /\ variants' \in Seq(VariantsOf(edits)) /\ Len(variants') = Len(variants)
      /\ DOMAIN (variants') = DOMAIN variants
      /\ \A i \in DOMAIN variants : variants'[i] = IF i = active THEN entry ELSE variants[i]
  BY <1>1, <1>3, ExceptSeq
<1>5. \A i \in DOMAIN variants :
         /\ variants'[i].id = variants[i].id /\ variants'[i].form = variants[i].form
         /\ variants'[i].mods = variants[i].mods /\ variants'[i].forma = variants[i].forma
         /\ variants'[i].shards = variants[i].shards
         /\ variants'[i].helminth = variants[i].helminth
  BY <1>3, <1>4
<1>6. WellFormed(variants', edits)
  BY <1>1, <1>4, <1>5, SameFormsAndIds
<1>7. VariantsInv'
  BY <1>1, <1>4, <1>6, SameForms DEF VariantsInv, Contents
<1>8. KeepsContents /\ (mode = "linked" => KeepsSets)
  BY <1>1, <1>4, <1>5, <1>7, TouchedStep
<1>9. ScopeStays(variants')
  BY <1>1, <1>4, <1>5, ScopeUntouched
<1>10. QED
  BY <1>7, <1>8, <1>9 DEF StepKeeps

LEMMA ScopeChangeStep ==
    ASSUME VariantsInv, onScopeChange
    PROVE  StepKeeps
<1>1. /\ scope' \in DOMAIN variants
      /\ UNCHANGED <<forms, variants, active, live, mode, edits>>
  BY DEF onScopeChange
<1>2. VariantsInv'
  BY <1>1, SameForms DEF VariantsInv, Contents
<1>3. KeepsContents /\ (mode = "linked" => KeepsSets)
  BY <1>1, <1>2, TouchedStep
<1>4. QED
  BY <1>2, <1>3 DEF StepKeeps

LEMMA StutterStep ==
    ASSUME VariantsInv, UNCHANGED vars
    PROVE  StepKeeps
<1>1. UNCHANGED <<forms, variants, active, live, mode, scope, edits>>
  BY DEF vars
<1>2. VariantsInv'
  BY <1>1, SameForms DEF VariantsInv, Contents
<1>3. KeepsContents /\ (mode = "linked" => KeepsSets)
  BY <1>1, <1>2, TouchedStep
<1>4. ScopeStays(variants')
  BY <1>1, ScopeUntouched
<1>5. QED
  BY <1>2, <1>3, <1>4 DEF StepKeeps

LEMMA ModeStep ==
    ASSUME VariantsInv, NEW m \in {"linked", "independent"}, applyVariantMode(m)
    PROVE  StepKeeps
<1>1. /\ mode' = m /\ m # mode
      /\ variants' = IF m = "linked" THEN linkVariants(captureVariants, active) ELSE variants
      /\ UNCHANGED <<forms, active, live, scope, edits>>
  BY DEF applyVariantMode
<1>2. /\ WellFormed(variants', edits) /\ DOMAIN (variants') = DOMAIN variants
      /\ \A i \in DOMAIN variants : variants'[i].id = variants[i].id
  <2>1. CASE m = "linked"
    <3>1. WellFormed(captureVariants, edits) /\ active \in DOMAIN captureVariants
      BY CaptureKeeps DEF VariantsInv
    <3> DEFINE ws == linkVariants(captureVariants, active)
    <3>2. /\ WellFormed(ws, edits) /\ DOMAIN ws = DOMAIN captureVariants
          /\ \A i \in DOMAIN captureVariants : ws[i].id = captureVariants[i].id
      BY <3>1, LinkKeeps
    <3> HIDE DEF ws
    <3>3. variants' = ws
      BY <1>1, <2>1 DEF ws
    <3>4. QED
      BY <3>2, <3>3, CaptureKeeps
  <2>2. CASE m # "linked"
    BY <1>1, <2>2 DEF VariantsInv
  <2>3. QED
    BY <2>1, <2>2
<1>3. VariantsInv'
  BY <1>1, <1>2, SameForms DEF VariantsInv, Contents
<1>4. ScopeStays(variants')
  BY <1>1, <1>2, ScopeUntouched
<1>5. QED
  BY <1>1, <1>3, <1>4 DEF StepKeeps

-----------------------------------------------------------------------------
(* Documents opened                                                         *)

LEMMA ModeResolves ==
    ASSUME NEW data, data.mode \in {None, "linked", "independent"}
    PROVE  /\ resolveVariantMode(data) \in {"linked", "independent"}
           /\ data.mode # None => resolveVariantMode(data) = data.mode
           /\ data.mode = None =>
                (resolveVariantMode(data) = "linked"
                   <=> \A i \in DOMAIN getVariants(data) :
                          linkVariants(getVariants(data), i) = getVariants(data))
<1> DEFINE vs == getVariants(data)
           agree == \A i \in DOMAIN vs : linkVariants(vs, i) = vs
<1>1. CASE data.mode # None
  BY <1>1 DEF resolveVariantMode
<1>2. CASE data.mode = None /\ agree
  <2>1. resolveVariantMode(data) = "linked"
    BY <1>2 DEF resolveVariantMode
  <2>2. QED
    BY <1>2, <2>1
<1>3. CASE data.mode = None /\ ~agree
  <2>1. resolveVariantMode(data) = "independent"
    BY <1>3 DEF resolveVariantMode
  <2>2. QED
    BY <1>3, <2>1
<1>4. QED
  BY <1>1, <1>2, <1>3

\* Only an item of one form is left with one variant, so nothing is seeded.
LEMMA NothingToSeed ==
    ASSUME NEW n, NEW data, WellFormed(getVariants(data), n), forms \in Nat \ {0}
    PROVE  seedVariants(data) = getVariants(data)
<1>1. Len(getVariants(data)) = 1 => forms = 1
  BY OneVariantOneForm
<1>2. ~(forms > 1 /\ Len(getVariants(data)) = 1)
  BY <1>1
<1>3. QED
  BY <1>2 DEF seedVariants

LEMMA SingleIsWellFormed ==
    ASSUME NEW n, NEW v \in VariantsOf(n), forms = 1
    PROVE  WellFormed(<<v>>, n)
<1>1. <<v>> \in Seq(VariantsOf(n)) /\ DOMAIN <<v>> = {1} /\ <<v>>[1] = v
  OBVIOUS
<1>2. Forms = {0} /\ v.form = 0
  BY DEF Forms, VariantsOf
<1>3. OfForm(<<v>>, 0) = {1}
  BY <1>1, <1>2 DEF OfForm
<1>4. Cardinality({1}) = 1
  BY FS_Singleton
<1>5. WithinBudget(<<v>>)
  BY <1>2, <1>3, <1>4, VariantsAssumption DEF WithinBudget
<1>6. DistinctIds(<<v>>)
  BY <1>1 DEF DistinctIds
<1>7. QED
  BY <1>1, <1>5, <1>6 DEF WellFormed

LEMMA Opened ==
    ASSUME VariantsInv, NEW data, NEW n \in 0 .. MaxEdits, WellFormed(getVariants(data), n),
           data.mode \in {None, "linked", "independent"}, NEW index \in Nat \ {0},
           Open(data, index), edits' = n
    PROVE  /\ VariantsInv' /\ ScopeStays(variants')
           /\ variants' = getVariants(data) /\ foldedVariants' = variants'
           /\ mode' = resolveVariantMode(data)
<1> DEFINE vs == getVariants(data)
<1>1. forms \in Nat \ {0} /\ vs \in Seq(VariantsOf(n)) /\ Len(vs) \in Nat \ {0}
  BY OneVariantOneForm DEF VariantsInv, WellFormed
<1>2. seedVariants(data) = vs
  BY <1>1, NothingToSeed
<1> HIDE DEF vs
<1>3. /\ variants' = vs /\ active' = (IF index > Len(vs) THEN Len(vs) ELSE index)
      /\ live' = Content(variants'[active'])
      /\ mode' = resolveVariantMode(data) /\ scope' = None /\ forms' = forms
  BY <1>2 DEF Open
<1>4. active' \in DOMAIN (variants')
  BY <1>1, <1>3
<1>5. WellFormed(variants', n)
  BY <1>3 DEF vs
<1>6. foldedVariants' = variants' /\ live' \in Contents(n)
  BY <1>3, <1>4, <1>5, ShownIsFolded
<1>7. WellFormed(variants, edits)'
  BY <1>3, <1>5, SameForms
<1>8. VariantsInv'
  BY <1>1, <1>3, <1>4, <1>6, <1>7, ModeResolves DEF VariantsInv, Contents
<1>9. QED
  BY <1>3, <1>6, <1>8 DEF ScopeStays, vs

\* A document with the forma and shards that were captured.
ShowsSets(vs) ==
    /\ DOMAIN vs = DOMAIN variants
    /\ \A j \in DOMAIN variants : /\ vs[j].form = captureVariants[j].form
                                  /\ vs[j].forma = captureVariants[j].forma
                                  /\ vs[j].shards = captureVariants[j].shards
    /\ \/ Len(variants) = 1
       \/ \A j \in DOMAIN variants : vs[j].id = variants[j].id

\* A document that shows all that was captured.
Shows(vs) ==
    /\ ShowsSets(vs)
    /\ \A j \in DOMAIN variants : Content(vs[j]) = Content(captureVariants[j])

\* A content with the Helminth ability on the screen.
Infused(c) == [c EXCEPT !.helminth = live.helminth]

LEMMA ContentFields ==
    ASSUME NEW v, NEW w, Content(v) = Content(w)
    PROVE  v.mods = w.mods /\ v.forma = w.forma /\ v.shards = w.shards
<1>1. Content(v).mods = v.mods /\ Content(v).forma = v.forma /\ Content(v).shards = v.shards
  BY DEF Content
<1>2. Content(w).mods = w.mods /\ Content(w).forma = w.forma /\ Content(w).shards = w.shards
  BY DEF Content
<1>3. QED
  BY <1>1, <1>2

\* What is shown agrees exactly when what was captured does.
LEMMA ShownAgrees ==
    ASSUME VariantsInv, NEW vs, ShowsSets(vs)
    PROVE  Agree(Range(vs)) <=> Agree(Range(captureVariants))
<1>1. DOMAIN captureVariants = DOMAIN variants
  BY CaptureKeeps
<1>2. \A j \in DOMAIN variants : /\ vs[j].forma = captureVariants[j].forma
                                 /\ vs[j].shards = captureVariants[j].shards
                                 /\ vs[j].form = captureVariants[j].form
  BY DEF ShowsSets
<1>3. Agree(Range(vs)) <=>
        \A i, j \in DOMAIN vs : /\ vs[i].shards = vs[j].shards
                                /\ vs[i].form = vs[j].form => vs[i].forma = vs[j].forma
  BY AgreeByPlace
<1>4. Agree(Range(captureVariants)) <=>
        \A i, j \in DOMAIN captureVariants :
           /\ captureVariants[i].shards = captureVariants[j].shards
           /\ captureVariants[i].form = captureVariants[j].form
                => captureVariants[i].forma = captureVariants[j].forma
  BY AgreeByPlace
<1>5. DOMAIN vs = DOMAIN variants
  BY DEF ShowsSets
<1>6. QED
  BY <1>1, <1>2, <1>3, <1>4, <1>5

\* Linked variants that agree are captured as they are.
LEMMA AgreedIsCaptured ==
    ASSUME NEW n, WellFormed(variants', n), active' \in DOMAIN (variants'),
           foldedVariants' = variants', Agree(Range(variants'))
    PROVE  captureVariants' = variants' /\ Range(captureVariants)' = Range(variants')
<1>1. linkVariants(variants', active') = variants'
  BY AgreeLinks
<1>2. captureVariants' = variants'
  BY <1>1 DEF captureVariants
<1>3. QED
  BY <1>2 DEF Range

LEMMA ShownStep ==
    ASSUME VariantsInv, VariantsInv', forms' = forms, edits' = edits,
           foldedVariants' = variants', ShowsSets(variants')
    PROVE  /\ mode = "independent" /\ Shows(variants') => KeepsContents
           /\ mode = "linked" => KeepsSets
<1>1. /\ DOMAIN captureVariants = DOMAIN variants /\ DOMAIN foldedVariants = DOMAIN variants
      /\ DOMAIN (variants') = DOMAIN variants /\ DistinctIds(variants)
      /\ DOMAIN variants = 1 .. Len(variants)
      /\ \A i \in DOMAIN variants : /\ captureVariants[i].id = variants[i].id
                                    /\ foldedVariants[i].id = variants[i].id
  BY CaptureKeeps, FoldedKeeps DEF VariantsInv, WellFormed, ShowsSets
<1>2. ASSUME NEW i \in DOMAIN variants, NEW j \in DOMAIN variants,
             variants[i].id = variants'[j].id
      PROVE  i = j
  <2>1. CASE Len(variants) = 1
    BY <1>1, <2>1
  <2>2. CASE Len(variants) # 1
    BY <1>1, <1>2, <2>2 DEF ShowsSets, DistinctIds
  <2>3. QED
    BY <2>1, <2>2
<1>3. \A j \in DOMAIN variants : /\ variants'[j].forma = captureVariants[j].forma
                                 /\ variants'[j].shards = captureVariants[j].shards
  BY DEF ShowsSets
<1>4. ASSUME mode = "independent", Shows(variants') PROVE KeepsContents
  <2>1. captureVariants = foldedVariants
    BY <1>4, CaptureKeeps
  <2>2. \A i \in DOMAIN variants, j \in DOMAIN variants' :
           foldedVariants[i].id = foldedVariants'[j].id
             => Content(foldedVariants[i]) = Content(foldedVariants'[j])
    BY <1>1, <1>2, <1>4, <2>1 DEF Shows
  <2>3. QED
    BY <1>1, <2>2, ContentsByPlace
<1>5. ASSUME mode = "linked", Agree(Range(captureVariants))
      PROVE  /\ Agree(Range(captureVariants)')
             /\ SameOnCommonIds(SharedSets(Range(captureVariants)),
                                SharedSets(Range(captureVariants)'))
  <2>1. Agree(Range(variants'))
    BY <1>5, ShownAgrees
  <2>2. WellFormed(variants', edits) /\ active' \in DOMAIN (variants')
    <3>1. Forms' = Forms
      BY SameForms
    <3>2. WellFormed(variants, edits)' /\ active' \in DOMAIN (variants')
      BY DEF VariantsInv
    <3>3. QED
      BY <3>1, <3>2 DEF WellFormed, VariantsOf, DistinctIds, WithinBudget, OfForm
  <2>3. Range(captureVariants)' = Range(variants')
    BY <2>1, <2>2, AgreedIsCaptured
  <2>4. \A i \in DOMAIN captureVariants, j \in DOMAIN variants' :
           captureVariants[i].id = variants'[j].id
             => /\ captureVariants[i].forma = variants'[j].forma
                /\ captureVariants[i].shards = variants'[j].shards
    BY <1>1, <1>2, <1>3
  <2>5. SameOnCommonIds(SharedSets(Range(captureVariants)), SharedSets(Range(variants')))
    BY <2>4, SetsByPlace
  <2>6. QED
    BY <2>1, <2>3, <2>5
<1>6. QED
  BY <1>4, <1>5 DEF KeepsSets

\* A build that is a synthetic variant alone has one form, and it is read back
\* from the top level.
LEMMA AloneIsTheTop ==
    ASSUME VariantsInv, Len(variants) = 1
    PROVE  /\ forms = 1 /\ active = 1 /\ variants[1].form = 0 /\ variants[active].form = 0
           /\ DOMAIN variants = {1} /\ Content(captureVariants[1]) = live
           /\ captureVariants[1].form = 0 /\ captureVariants[1].mods = live.mods
<1>1. /\ WellFormed(variants, edits) /\ variants \in Seq(VariantsOf(edits))
      /\ active \in DOMAIN variants /\ forms \in Nat \ {0}
  BY DEF VariantsInv, WellFormed
<1>2. forms = 1
  BY <1>1, OneVariantOneForm
<1>3. DOMAIN variants = {1} /\ active = 1
  BY <1>1
<1>4. variants[1] \in VariantsOf(edits)
  BY <1>1, <1>3
<1>5. variants[1].form = 0
  BY <1>2, <1>4 DEF VariantsOf, Forms
<1>6. Content(captureVariants[1]) = live
  BY <1>3, CapturedActive
<1>7. captureVariants[1].form = variants[1].form
  BY <1>3, CaptureKeeps
<1>8. captureVariants[1].mods = live.mods
  BY <1>3, CaptureKeeps, FoldedKeeps
<1>9. QED
  BY <1>2, <1>3, <1>5, <1>6, <1>7, <1>8

LEMMA ReadBackShows ==
    ASSUME VariantsInv
    PROVE  LET loaded == getVariants(captureBuildData)
           IN  WellFormed(loaded, edits) /\ Shows(loaded)
<1> DEFINE saved  == captureBuildData
           loaded == getVariants(saved)
<1>1. CASE ~Alone
  <2>1. loaded = captureVariants
    BY <1>1, ReadBack
  <2>2. WellFormed(captureVariants, edits) /\ Shows(captureVariants)
    BY CaptureKeeps DEF Shows, ShowsSets
  <2>3. QED
    BY <2>1, <2>2
<1>2. CASE Alone
  <2>1. Len(variants) = 1 /\ variants[1].id = 0
    BY <1>2 DEF Alone, isSyntheticVariant
  <2>2. /\ forms = 1 /\ variants[active].form = 0 /\ DOMAIN variants = {1}
        /\ Content(captureVariants[1]) = live /\ captureVariants[1].form = 0
    BY <2>1, AloneIsTheTop
  <2>3. /\ loaded = <<Variant(0, saved.form, saved)>> /\ saved.form = 0
        /\ saved.mods = live.mods /\ saved.helminth = live.helminth
        /\ saved.forma = live.forma /\ saved.shards = live.shards
    BY <1>2, <2>2, ReadBack
  <2> DEFINE v == Variant(0, 0, saved)
  <2>4. live \in Contents(edits) /\ 0 \in Forms /\ 0 \in 0 .. edits
    BY <2>2, VariantsAssumption DEF VariantsInv, Forms
  <2> HIDE DEF saved
  <2>5. v \in VariantsOf(edits) /\ Content(v) = live /\ v.form = 0 /\ v.id = 0
    BY <2>3, <2>4 DEF Variant, VariantsOf, Contents, Content
  <2> HIDE DEF v
  <2>6. loaded = <<v>>
    BY <2>3 DEF v
  <2> HIDE DEF loaded
  <2>7. WellFormed(<<v>>, edits)
    BY <2>2, <2>5, SingleIsWellFormed
  <2>8. Shows(<<v>>)
    <3>1. Content(v) = Content(captureVariants[1]) /\ DOMAIN <<v>> = {1} /\ <<v>>[1] = v
      BY <2>2, <2>5
    <3>2. QED
      BY <2>1, <2>2, <2>5, <3>1, ContentFields DEF Shows, ShowsSets
  <2>9. QED
    BY <2>6, <2>7, <2>8 DEF loaded, saved
<1>3. QED
  BY <1>1, <1>2

LEMMA ReopenStep ==
    ASSUME VariantsInv, reopen
    PROVE  StepKeeps
<1> DEFINE data == captureBuildData
<1>1. PICK index \in DOMAIN variants : Open(data, index)
  BY DEF reopen
<1>2. edits' = edits /\ edits \in 0 .. MaxEdits /\ index \in Nat \ {0}
  BY <1>1 DEF reopen, VariantsInv, WellFormed
<1>3. data.mode \in {None, "linked", "independent"}
  BY ReadBack DEF VariantsInv
<1>4. WellFormed(getVariants(data), edits) /\ Shows(getVariants(data))
  BY ReadBackShows
<1>5. forms' = forms
  BY <1>1 DEF Open
<1> HIDE DEF data
<1>6. /\ VariantsInv' /\ ScopeStays(variants') /\ foldedVariants' = variants'
      /\ variants' = getVariants(data)
  BY <1>1, <1>2, <1>3, <1>4, Opened
<1>7. Shows(variants')
  BY <1>4, <1>6
<1>8. QED
  BY <1>2, <1>5, <1>6, <1>7, ShownStep DEF StepKeeps, Shows

\* The link that is shared decodes to what was captured, without guides and with
\* one Helminth ability.
LEMMA SharedShows ==
    ASSUME VariantsInv
    PROVE  LET data   == savedDataFromBuildDoc(buildDocFromVariants(live, captureVariants))
               loaded == getVariants(data)
           IN  /\ WellFormed(loaded, edits) /\ ShowsSets(loaded) /\ data.mode = None
               /\ \A i \in DOMAIN variants :
                     Content(loaded[i]) = Infused(Content(captureVariants[i]))
<1> DEFINE vs     == captureVariants
           doc    == buildDocFromVariants(live, vs)
           data   == savedDataFromBuildDoc(doc)
           loaded == getVariants(data)
<1>1. /\ WellFormed(vs, edits) /\ vs \in Seq(VariantsOf(edits)) /\ DOMAIN vs = DOMAIN variants
      /\ Len(vs) = Len(variants) /\ DOMAIN vs = 1 .. Len(vs) /\ Len(vs) \in Nat \ {0}
      /\ edits \in Nat /\ 0 \in 0 .. edits
      /\ \A i \in DOMAIN variants : vs[i].id = variants[i].id
      /\ live.helminth \in 0 .. edits
  <2>1. /\ WellFormed(vs, edits) /\ Len(vs) = Len(variants) /\ DOMAIN vs = DOMAIN variants
        /\ \A i \in DOMAIN variants : vs[i].id = variants[i].id
    BY CaptureKeeps
  <2>2. edits \in Nat
    BY VariantsAssumption DEF VariantsInv
  <2>3. Len(vs) \in Nat \ {0}
    BY <2>1, OneVariantOneForm DEF VariantsInv
  <2>4. live.helminth \in 0 .. edits
    BY DEF VariantsInv, Contents
  <2>5. QED
    BY <2>1, <2>2, <2>3, <2>4 DEF WellFormed
<1> HIDE DEF vs
<1>2. ASSUME NEW i \in DOMAIN vs
      PROVE  /\ doc[i] \in VariantsOf(edits) /\ Content(doc[i]) = Infused(Content(vs[i]))
             /\ doc[i].form = vs[i].form /\ doc[i].id = vs[i].id
             /\ doc[i].forma = vs[i].forma /\ doc[i].shards = vs[i].shards
  <2>1. vs[i] \in VariantsOf(edits)
    BY <1>1, EntryTyped
  <2>2. doc[i] = [vs[i] EXCEPT !.guide = 0, !.helminth = live.helminth]
    BY DEF buildDocFromVariants
  <2> HIDE DEF doc
  <2>3. /\ doc[i] \in VariantsOf(edits) /\ doc[i].form = vs[i].form /\ doc[i].id = vs[i].id
        /\ doc[i].forma = vs[i].forma /\ doc[i].shards = vs[i].shards
        /\ doc[i].mods = vs[i].mods /\ doc[i].helminth = live.helminth
    BY <1>1, <2>1, <2>2 DEF VariantsOf
  <2>4. QED
    BY <2>3 DEF Content, Infused
<1>3. DOMAIN doc = DOMAIN vs /\ doc = [i \in 1 .. Len(vs) |-> doc[i]]
  BY <1>1 DEF buildDocFromVariants
<1> HIDE DEF doc
<1>4. doc \in Seq(VariantsOf(edits)) /\ Len(doc) = Len(vs)
  BY <1>1, <1>2, <1>3
<1>5. data.mode = None /\ data.mods = doc[1].mods /\ data.helminth = doc[1].helminth
      /\ data.forma = doc[1].forma /\ data.shards = doc[1].shards /\ data.form = doc[1].form
      /\ data.variants = IF Len(doc) = 1 THEN <<>> ELSE doc
  BY DEF savedDataFromBuildDoc, Document, Content
<1>6. CASE Len(vs) = 1
  <2>1. loaded = <<Variant(0, data.form, data)>>
    BY <1>4, <1>5, <1>6 DEF getVariants
  <2>2. /\ forms = 1 /\ DOMAIN variants = {1} /\ Len(variants) = 1 /\ vs[1].form = 0
    BY <1>1, <1>6, AloneIsTheTop DEF vs
  <2>3. 1 \in DOMAIN vs
    BY <1>1, <2>2
  <2>4. /\ doc[1] \in VariantsOf(edits) /\ Content(doc[1]) = Infused(Content(vs[1]))
        /\ doc[1].form = 0 /\ doc[1].forma = vs[1].forma /\ doc[1].shards = vs[1].shards
    BY <1>2, <2>2, <2>3
  <2> DEFINE v == Variant(0, data.form, data)
  <2> HIDE DEF data
  <2>5. v \in VariantsOf(edits) /\ Content(v) = Content(doc[1]) /\ v.form = 0
    BY <1>1, <1>5, <2>4 DEF Variant, VariantsOf, Content
  <2> HIDE DEF v
  <2>6. loaded = <<v>>
    BY <2>1 DEF v
  <2> HIDE DEF loaded
  <2>7. WellFormed(<<v>>, edits)
    BY <2>2, <2>5, SingleIsWellFormed
  <2>8. /\ ShowsSets(<<v>>) /\ Content(<<v>>[1]) = Infused(Content(vs[1]))
    <3>1. DOMAIN <<v>> = {1} /\ <<v>>[1] = v
      OBVIOUS
    <3>2. v.forma = vs[1].forma /\ v.shards = vs[1].shards
      BY <2>4, <2>5, ContentFields
    <3>3. QED
      BY <2>2, <2>4, <2>5, <3>1, <3>2 DEF ShowsSets, vs
  <2>9. QED
    BY <1>5, <2>2, <2>6, <2>7, <2>8 DEF loaded, data, doc, vs
<1>7. CASE Len(vs) # 1
  <2>1. data.variants = doc /\ doc # <<>>
    BY <1>1, <1>4, <1>5, <1>7
  <2>2. ASSUME NEW i \in DOMAIN doc
        PROVE  doc[i].forma # None /\ doc[i].shards # None
    <3>1. doc[i] \in VariantsOf(edits)
      BY <1>2, <1>3
    <3>2. doc[i].forma \in Nat /\ doc[i].shards \in Nat
      BY <1>1, <3>1 DEF VariantsOf
    <3>3. QED
      BY <3>2, VariantsAssumption
  <2>3. loaded = [i \in DOMAIN doc |->
           [doc[i] EXCEPT !.shards = IF FALSE \/ @ = None THEN data.shards ELSE @,
                          !.forma  = IF @ = None \/ (FALSE /\ doc[i].form = data.form)
                                     THEN data.forma ELSE @]]
    BY <2>1, <2>2 DEF getVariants
  <2>4. ASSUME NEW i \in DOMAIN doc
        PROVE  [doc[i] EXCEPT !.shards = IF FALSE \/ @ = None THEN data.shards ELSE @,
                              !.forma  = IF @ = None \/ (FALSE /\ doc[i].form = data.form)
                                         THEN data.forma ELSE @] = doc[i]
    <3> HIDE DEF data
    <3>1. doc[i] \in VariantsOf(edits)
      BY <1>2, <1>3
    <3>2. QED
      BY <2>2, <3>1 DEF VariantsOf
  <2> HIDE DEF loaded, data
  <2>5. loaded = [i \in DOMAIN doc |-> doc[i]]
    BY <2>3, <2>4
  <2>6. loaded = doc
    BY <1>4, <2>5
  <2>7. WellFormed(doc, edits)
    BY <1>1, <1>2, <1>4, SameFormsAndIds
  <2>8. ShowsSets(doc)
    BY <1>1, <1>2, <1>3 DEF ShowsSets, vs
  <2>9. QED
    BY <1>1, <1>2, <1>5, <2>6, <2>7, <2>8 DEF loaded, data, doc, vs
<1>8. QED
  BY <1>6, <1>7

LEMMA ShareStep ==
    ASSUME VariantsInv, openShareLink
    PROVE  StepKeeps
<1> DEFINE data == savedDataFromBuildDoc(buildDocFromVariants(live, captureVariants))
<1>1. Open(data, active) /\ edits' = edits
  BY DEF openShareLink
<1>2. edits \in 0 .. MaxEdits /\ active \in Nat \ {0}
  BY DEF VariantsInv, WellFormed
<1>3. /\ data.mode \in {None, "linked", "independent"}
      /\ WellFormed(getVariants(data), edits) /\ ShowsSets(getVariants(data))
  BY SharedShows
<1>4. forms' = forms
  BY <1>1 DEF Open
<1> HIDE DEF data
<1>5. /\ VariantsInv' /\ ScopeStays(variants') /\ foldedVariants' = variants'
      /\ variants' = getVariants(data)
  BY <1>1, <1>2, <1>3, Opened
<1>6. ShowsSets(variants')
  BY <1>3, <1>5
<1>7. QED
  BY <1>1, <1>4, <1>5, <1>6, ShownStep DEF StepKeeps

\* What an old client saved is read with its forma on its variant's form and
\* its shards on every variant; only the variants it did not know of keep more.
LEMMA OldClientLoads ==
    ASSUME VariantsInv, NEW n \in Nat, edits <= n, NEW a \in DOMAIN variants,
           NEW f \in 0 .. n, NEW e \in 0 .. n
    PROVE  LET data   == OldClient(captureBuildData, a, f, e)
               loaded == getVariants(data)
           IN  /\ data.mode = None /\ WellFormed(loaded, n) /\ DOMAIN loaded = DOMAIN variants
               /\ loaded[a].forma = f /\ loaded[a].shards = e
               /\ Agree(Range(captureVariants)) => Agree(Range(loaded))
<1> DEFINE vs     == captureVariants
           saved  == captureBuildData
           data   == OldClient(saved, a, f, e)
           loaded == getVariants(data)
           G(i)   == [vs[i] EXCEPT !.shards = e,
                                   !.forma = IF vs[i].form = vs[a].form THEN f ELSE vs[i].forma]
<1>1. /\ WellFormed(vs, n) /\ vs \in Seq(VariantsOf(n)) /\ DOMAIN vs = DOMAIN variants
      /\ Len(vs) = Len(variants) /\ DOMAIN vs = 1 .. Len(vs) /\ Len(vs) \in Nat \ {0}
      /\ a \in DOMAIN vs /\ None \notin Nat
  <2>1. WellFormed(vs, edits) /\ Len(vs) = Len(variants) /\ DOMAIN vs = DOMAIN variants
    BY CaptureKeeps
  <2>2. edits \in Nat
    BY VariantsAssumption DEF VariantsInv
  <2>3. WellFormed(vs, n)
    BY <2>1, <2>2, MoreEdits
  <2>4. Len(vs) \in Nat \ {0}
    BY <2>1, OneVariantOneForm DEF VariantsInv
  <2>5. QED
    BY <2>1, <2>3, <2>4, VariantsAssumption DEF WellFormed
<1>2. CASE Alone
  <2>1. Len(variants) = 1
    BY <1>2 DEF Alone
  <2>2. forms = 1 /\ variants[active].form = 0 /\ DOMAIN variants = {1} /\ a = 1
    BY <2>1, AloneIsTheTop
  <2>3. saved.variants = <<>> /\ saved.form = 0
    BY <1>2, <2>2, ReadBack
  <2>10. \E m, r, g : saved = [mode |-> m, mods |-> live.mods, helminth |-> live.helminth,
                               forma |-> r, shards |-> g, form |-> 0, variants |-> <<>>]
    BY <2>3 DEF captureBuildData, Document
  <2> HIDE DEF saved
  <2>4. /\ data.mode = None /\ data.forma = f /\ data.shards = e /\ data.form = 0
        /\ data.mods = live.mods /\ data.helminth = live.helminth
        /\ data.variants = <<>>
    BY <2>10 DEF OldClient
  <2> HIDE DEF data
  <2> DEFINE v == Variant(0, 0, data)
  <2>5. loaded = <<v>>
    BY <2>4 DEF getVariants
  <2>6. live.mods \in 0 .. n /\ live.helminth \in 0 .. n
    <3>1. live.mods \in 0 .. edits /\ live.helminth \in 0 .. edits /\ edits \in Nat
      BY VariantsAssumption DEF VariantsInv, Contents
    <3>2. QED
      BY <3>1
  <2>7. v \in VariantsOf(n) /\ v.forma = f /\ v.shards = e
    BY <2>2, <2>4, <2>6 DEF Variant, VariantsOf, Forms
  <2> HIDE DEF v, loaded
  <2>8. WellFormed(<<v>>, n)
    BY <2>2, <2>7, SingleIsWellFormed
  <2>11. DOMAIN <<v>> = {1}
    OBVIOUS
  <2>9. Agree(Range(<<v>>))
    BY <2>11, AgreeByPlace
  <2>12. QED
    BY <2>2, <2>4, <2>5, <2>7, <2>8, <2>9, <2>11 DEF loaded, data, saved
<1>3. CASE ~Alone
  <2> DEFINE mine == [vs[a] EXCEPT !.forma = None, !.shards = e]
             ds   == [vs EXCEPT ![a] = mine]
  <2>1. \E m, r, g, h : saved = [mode |-> m, mods |-> live.mods, helminth |-> live.helminth,
                                 forma |-> r, shards |-> g, form |-> h, variants |-> vs]
    <3>1. saved.variants = vs
      BY <1>3, ReadBack
    <3>2. QED
      BY <3>1 DEF captureBuildData, Document
  <2>2. vs # <<>>
    BY <1>1
  <2> HIDE DEF saved, vs
  <2>3. /\ data.mode = None /\ data.forma = f /\ data.shards = e
        /\ data.form = vs[a].form /\ data.variants = ds
    BY <2>1, <2>2 DEF OldClient
  <2> HIDE DEF data
  <2>4. ASSUME NEW i \in DOMAIN vs
        PROVE  /\ vs[i] \in VariantsOf(n) /\ vs[i].forma # None /\ vs[i].shards # None
    <3>1. vs[i] \in VariantsOf(n)
      BY <1>1, EntryTyped
    <3>2. vs[i].forma \in Nat /\ vs[i].shards \in Nat
      BY <3>1 DEF VariantsOf
    <3>3. QED
      BY <1>1, <3>1, <3>2
  <2>5. /\ mine.forma = None /\ mine.shards = e /\ mine.form = vs[a].form
        /\ [mine EXCEPT !.forma = f] = G(a) /\ [mine EXCEPT !.shards = e, !.forma = f] = G(a)
    BY <1>1, <2>4 DEF VariantsOf
  <2>6. /\ DOMAIN ds = DOMAIN vs /\ ds[a] = mine
        /\ \A i \in DOMAIN vs : i # a => ds[i] = vs[i]
    BY <1>1
  <2>7. ds # <<>>
    BY <1>1, <2>6
  <2> DEFINE stale == /\ \E i \in DOMAIN ds : ds[i].forma # None
                      /\ \E i \in DOMAIN ds : ds[i].forma = None
             R(i)  == [ds[i] EXCEPT !.shards = IF stale \/ @ = None THEN data.shards ELSE @,
                                    !.forma = IF @ = None \/ (stale /\ ds[i].form = data.form)
                                              THEN data.forma ELSE @]
  <2>8. loaded = [i \in DOMAIN ds |-> R(i)]
    <3> HIDE DEF ds
    <3>1. QED
      BY <2>3, <2>7 DEF getVariants
  <2> HIDE DEF ds, mine
  <2>9. stale <=> \E i \in DOMAIN vs : i # a
    BY <1>1, <2>4, <2>5, <2>6
  <2> HIDE DEF stale
  <2>10. ASSUME NEW i \in DOMAIN vs PROVE R(i) = G(i)
    <3>1. CASE i = a
      <4>1. R(i) = [mine EXCEPT !.shards = IF stale \/ mine.shards = None THEN e
                                           ELSE mine.shards,
                                !.forma = f]
        BY <2>3, <2>5, <2>6, <3>1
      <4>2. (IF stale \/ mine.shards = None THEN e ELSE mine.shards) = e
        BY <2>5
      <4>3. R(i) = [mine EXCEPT !.shards = e, !.forma = f]
        BY <4>1, <4>2
      <4>4. QED
        BY <2>5, <3>1, <4>3
    <3>2. CASE i # a
      <4>1. stale
        BY <2>9, <3>2
      <4>2. ds[i] = vs[i] /\ vs[i].forma # None
        BY <2>4, <2>6, <3>2
      <4>3. R(i) = [vs[i] EXCEPT !.shards = e,
                                 !.forma = IF vs[i].form = vs[a].form THEN f ELSE vs[i].forma]
        <5> DEFINE r == IF ds[i].forma = None \/ (stale /\ ds[i].form = data.form)
                        THEN data.forma ELSE ds[i].forma
                   g == IF stale \/ ds[i].shards = None THEN data.shards ELSE ds[i].shards
        <5>1. r = IF vs[i].form = vs[a].form THEN f ELSE vs[i].forma
          BY <2>3, <4>1, <4>2
        <5>2. g = e
          BY <2>3, <4>1
        <5>3. R(i) = [ds[i] EXCEPT !.shards = g, !.forma = r]
          OBVIOUS
        <5> HIDE DEF r, g, R
        <5>4. QED
          BY <4>2, <5>1, <5>2, <5>3
      <4>4. QED
        BY <4>3
    <3>3. QED
      BY <3>1, <3>2
  <2>11. loaded = [i \in DOMAIN vs |-> G(i)]
    <3> HIDE DEF R, G, loaded
    <3>1. \A i \in DOMAIN vs : R(i) = G(i)
      BY <2>10
    <3>2. DOMAIN ds = DOMAIN vs
      BY <2>6
    <3>3. QED
      BY <2>8, <3>1, <3>2
  <2> HIDE DEF loaded
  <2>12. ASSUME NEW i \in DOMAIN vs
         PROVE  /\ loaded[i] \in VariantsOf(n) /\ loaded[i].id = vs[i].id
                /\ loaded[i].form = vs[i].form /\ loaded[i].shards = e
                /\ loaded[i].forma = IF vs[i].form = vs[a].form THEN f ELSE vs[i].forma
    BY <2>4, <2>11 DEF VariantsOf
  <2>13. loaded \in Seq(VariantsOf(n)) /\ Len(loaded) = Len(vs) /\ DOMAIN loaded = DOMAIN vs
    <3>1. loaded = [i \in 1 .. Len(vs) |-> loaded[i]]
      BY <1>1, <2>11
    <3>2. QED
      BY <1>1, <2>12, <3>1
  <2>14. WellFormed(loaded, n)
    BY <1>1, <2>12, <2>13, SameFormsAndIds
  <2>15. ASSUME Agree(Range(vs)) PROVE Agree(Range(loaded))
    <3>1. \A i, j \in DOMAIN vs : vs[i].form = vs[j].form => vs[i].forma = vs[j].forma
      BY <2>15, AgreeByPlace
    <3>2. \A i, j \in DOMAIN loaded :
             /\ loaded[i].shards = loaded[j].shards
             /\ loaded[i].form = loaded[j].form => loaded[i].forma = loaded[j].forma
      BY <2>12, <2>13, <3>1
    <3>3. QED
      BY <3>2, AgreeByPlace
  <2>16. QED
    BY <1>1, <2>3, <2>12, <2>13, <2>14, <2>15 DEF loaded, data, saved, vs
<1>4. QED
  BY <1>2, <1>3

LEMMA OldClientStep ==
    ASSUME VariantsInv, oldClientSaves
    PROVE  StepKeeps
<1>1. /\ edits < MaxEdits /\ edits' = edits + 1 /\ edits \in Nat /\ MaxEdits \in Nat
      /\ live.forma \in 0 .. edits
  BY VariantsAssumption DEF oldClientSaves, VariantsInv, Contents
<1>2. PICK a \in DOMAIN variants :
         Open(OldClient(captureBuildData, a, live.forma, edits'), 1)
  BY DEF oldClientSaves
<1> DEFINE n    == edits + 1
           data == OldClient(captureBuildData, a, live.forma, n)
<1>3. n \in 0 .. MaxEdits /\ n \in Nat /\ edits <= n /\ live.forma \in 0 .. n /\ n \in 0 .. n
  BY <1>1
<1>4. Open(data, 1) /\ edits' = n
  BY <1>1, <1>2
<1>5. data.mode = None /\ WellFormed(getVariants(data), n)
  BY <1>3, OldClientLoads
<1> HIDE DEF data, n
<1>6. /\ VariantsInv' /\ ScopeStays(variants') /\ foldedVariants' = variants'
      /\ variants' = getVariants(data) /\ mode' = resolveVariantMode(data)
  BY <1>3, <1>4, <1>5, Opened
<1>7. ASSUME mode' = "linked" PROVE KeepsSets
  <2>1. \A i \in DOMAIN getVariants(data) :
           linkVariants(getVariants(data), i) = getVariants(data)
    <3>1. data.mode \in {None, "linked", "independent"} /\ data.mode = None
      BY <1>5
    <3>2. resolveVariantMode(data) = "linked"
      BY <1>6, <1>7
    <3>3. QED
      BY <3>1, <3>2, ModeResolves
  <2>2. Agree(Range(variants'))
    BY <1>5, <1>6, <2>1, AgreeLinks
  <2>3. active' \in DOMAIN (variants') /\ WellFormed(variants', n)
    BY <1>5, <1>6 DEF VariantsInv
  <2>4. Range(captureVariants)' = Range(variants')
    BY <1>6, <2>2, <2>3, AgreedIsCaptured
  <2>5. edits' # edits
    BY <1>1
  <2>6. QED
    BY <2>2, <2>4, <2>5 DEF KeepsSets
<1>8. QED
  BY <1>6, <1>7 DEF StepKeeps

-----------------------------------------------------------------------------
(* Every behavior                                                           *)

LEMMA InitHolds ==
    ASSUME Init
    PROVE  VariantsInv
<1> DEFINE data == Document(None, Empty, 0, <<>>)
           v    == Variant(0, 0, Empty)
<1>1. /\ forms \in Nat \ {0} /\ edits = 0 /\ active = 1 /\ scope = None
      /\ variants = seedVariants(data) /\ mode = resolveVariantMode(data)
      /\ live = Content(variants[1])
  BY VariantsAssumption DEF Init
<1>2. data.mode = None /\ data.variants = <<>> /\ data.form = 0 /\ data.mods = 0
      /\ data.helminth = 0 /\ data.forma = 0 /\ data.shards = 0
  BY DEF Document, Empty
<1> HIDE DEF data
<1>3. getVariants(data) = <<v>>
  BY <1>2 DEF getVariants, Variant, Empty
<1>4. v = [id |-> 0, named |-> FALSE, form |-> 0, mods |-> 0, helminth |-> 0, forma |-> 0,
           shards |-> 0, guide |-> 0]
  BY DEF Variant, Empty
<1> HIDE DEF v
<1>5. WellFormed(variants, 0) /\ 1 \in DOMAIN variants
  <2>1. CASE forms = 1
    <3>1. variants = <<v>>
      BY <1>1, <1>3, <2>1 DEF seedVariants
    <3>2. v \in VariantsOf(0)
      BY <1>4, <2>1 DEF VariantsOf, Forms
    <3>3. WellFormed(<<v>>, 0)
      BY <2>1, <3>2, SingleIsWellFormed
    <3>4. QED
      BY <3>1, <3>3
  <2>2. CASE forms # 1
    <3>1. forms > 1
      BY <1>1, <2>2
    <3>2. isSyntheticVariant(<<v>>[1])
      BY <1>4 DEF isSyntheticVariant
    <3> DEFINE E(i) == [v EXCEPT !.form = i - 1, !.id = i - 1, !.named = i > 1]
    <3>3. variants = [i \in 1 .. forms |-> E(i)]
      <4>1. Len(<<v>>) = 1 /\ <<v>>[1] = v
        OBVIOUS
      <4>2. seedVariants(data) = [i \in 1 .. forms |-> E(i)]
        <5> HIDE DEF E
        <5>1. \A i : E(i) = [(<<v>>)[1] EXCEPT !.form = i - 1, !.id = i - 1, !.named = i > 1]
          BY <4>1 DEF E
        <5>2. forms > 1 /\ Len(getVariants(data)) = 1 /\ isSyntheticVariant(getVariants(data)[1])
          BY <1>3, <3>1, <3>2, <4>1
        <5>3. seedVariants(data)
                = [i \in 1 .. forms |-> [(getVariants(data))[1] EXCEPT
                                            !.form = i - 1, !.id = i - 1, !.named = i > 1]]
          BY <5>2 DEF seedVariants
        <5>4. QED
          BY <1>3, <5>1, <5>3
      <4>3. QED
        BY <1>1, <4>2
    <3>4. ASSUME NEW i \in 1 .. forms
          PROVE  E(i) \in VariantsOf(0) /\ E(i).form = i - 1 /\ E(i).id = i - 1
      <4> DEFINE later == i > 1
      <4>1. E(i) = [v EXCEPT !.form = i - 1, !.id = i - 1, !.named = later]
        OBVIOUS
      <4>2. later \in BOOLEAN /\ i - 1 \in Nat /\ i - 1 \in Forms /\ 0 \in Forms
        BY <1>1 DEF Forms
      <4>3. v \in VariantsOf(0)
        BY <1>4, <4>2 DEF VariantsOf
      <4> HIDE DEF E, later
      <4>4. QED
        BY <4>1, <4>2, <4>3 DEF VariantsOf
    <3> HIDE DEF E
    <3>5. /\ variants \in Seq(VariantsOf(0)) /\ DOMAIN variants = 1 .. forms
          /\ \A i \in 1 .. forms : variants[i].form = i - 1 /\ variants[i].id = i - 1
      BY <1>1, <3>3, <3>4
    <3>6. DistinctIds(variants)
      BY <1>1, <3>5 DEF DistinctIds
    <3>7. WithinBudget(variants)
      <4>1. SUFFICES ASSUME NEW f \in Forms
                     PROVE  Cardinality(OfForm(variants, f)) \in 1 .. MAX_VARIANTS
        BY DEF WithinBudget
      <4>2. f \in 0 .. forms - 1 /\ f + 1 \in 1 .. forms
        BY <1>1 DEF Forms
      <4>3. OfForm(variants, f) = {f + 1}
        BY <1>1, <3>5, <4>2 DEF OfForm
      <4>4. Cardinality({f + 1}) = 1
        BY FS_Singleton
      <4>5. QED
        BY <4>3, <4>4, VariantsAssumption
    <3>8. QED
      BY <1>1, <3>5, <3>6, <3>7 DEF WellFormed
  <2>3. QED
    BY <2>1, <2>2
<1>6. live \in Contents(0)
  <2>1. variants[1] \in VariantsOf(0)
    BY <1>5, EntryTyped
  <2>2. QED
    BY <1>1, <2>1 DEF VariantsOf, Content, Contents
<1>7. mode \in {"linked", "independent"}
  BY <1>1, <1>2, ModeResolves
<1>8. QED
  BY <1>1, <1>5, <1>6, <1>7, VariantsAssumption DEF VariantsInv

LEMMA NextKeeps ==
    ASSUME VariantsInv, [Next]_vars
    PROVE  StepKeeps
<1>1. CASE edit
  BY <1>1, EditStep
<1>2. CASE editGuide
  BY <1>2, EditGuideStep
<1>3. CASE onScopeChange
  BY <1>3, ScopeChangeStep
<1>4. CASE \E i \in DOMAIN variants : switchVariant(i)
  BY <1>4, SwitchStep
<1>5. CASE addVariant
  BY <1>5, AddStep
<1>6. CASE duplicateActive
  BY <1>6, DuplicateStep
<1>7. CASE deleteActive
  BY <1>7, DeleteStep
<1>8. CASE renameActive
  BY <1>8, RenameStep
<1>9. CASE \E f \in Forms : switchForm(f)
  BY <1>9, SwitchFormStep
<1>10. CASE \E m \in {"linked", "independent"} : applyVariantMode(m)
  BY <1>10, ModeStep
<1>11. CASE reopen
  BY <1>11, ReopenStep
<1>12. CASE openShareLink
  BY <1>12, ShareStep
<1>13. CASE oldClientSaves
  BY <1>13, OldClientStep
<1>14. CASE UNCHANGED vars
  BY <1>14, StutterStep
<1>15. QED
  BY <1>1, <1>2, <1>3, <1>4, <1>5, <1>6, <1>7, <1>8, <1>9, <1>10, <1>11, <1>12, <1>13,
     <1>14 DEF Next

\* The inductive invariant: whatever the user does, and whichever document is
\* opened, the array is one the editor may hold and the indices lead into it.
THEOREM VariantsStayWellFormed == Spec => []VariantsInv
<1>1. Init => VariantsInv
  BY InitHolds
<1>2. VariantsInv /\ [Next]_vars => VariantsInv'
  BY NextKeeps DEF StepKeeps
<1> QED
  BY <1>1, <1>2, PTL DEF Spec

\* Types, distinct ids, and of every form at least one variant and at most its
\* budget, for any number of forms, variants and edits.
THEOREM VariantsKeepTheirTypes == Spec => []VariantsTypeOK
<1>1. ASSUME VariantsInv PROVE VariantsTypeOK
  <2>1. \A i \in DOMAIN variants :
           /\ variants[i].form \in Forms
           /\ {variants[i].mods, variants[i].helminth, variants[i].forma, variants[i].shards,
               variants[i].guide} \subseteq 0 .. edits
    <3>1. ASSUME NEW i \in DOMAIN variants PROVE variants[i] \in VariantsOf(edits)
      BY <1>1, EntryTyped DEF VariantsInv
    <3>2. QED
      BY <3>1 DEF VariantsOf
  <2>2. QED
    BY <1>1, <2>1
       DEF VariantsTypeOK, VariantsInv, WellFormed, DistinctIds, WithinBudget, Contents
<1> QED
  BY <1>1, VariantsStayWellFormed, PTL

\* The guide editor never shows another variant's guide after an array change.
THEOREM TheScopeFollows == Spec => GuideScopeFollowsItsVariant
<1>1. VariantsInv /\ [Next]_vars =>
        [scope # None /\ scope' # None /\ ~onScopeChange
           => \/ variants'[scope'].id = variants[scope].id
              \/ /\ \A j \in DOMAIN variants' : variants'[j].id # variants[scope].id
                 /\ scope' = 1]_vars
  BY NextKeeps DEF StepKeeps, ScopeStays
<1> QED
  BY <1>1, VariantsStayWellFormed, PTL DEF Spec, GuideScopeFollowsItsVariant

\* While variants are independent no step loses or mixes up what they hold, but a
\* share link, which has one Helminth ability, and an old client's save.
THEOREM IndependentStaysOwn == Spec => IndependentVariantsKeepTheirOwn
<1>1. VariantsInv /\ [Next]_vars =>
        [mode = "independent" /\ mode' = "independent"
           => \/ SameOnCommonIds(OwnContents(IF edits' = edits THEN {} ELSE {active}),
                                 OwnContents({})')
              \/ openShareLink \/ oldClientSaves]_vars
  BY NextKeeps DEF StepKeeps, KeepsContents
<1> QED
  BY <1>1, VariantsStayWellFormed, PTL DEF Spec, IndependentVariantsKeepTheirOwn

\* Linked variants go on sharing one shard set and one forma set per form.
THEOREM LinkedStaysShared == Spec => LinkedVariantsShareOneSet
<1>1. VariantsInv /\ [Next]_vars =>
        [mode = "linked" /\ mode' = "linked" =>
           LET now  == Range(captureVariants)
               next == Range(captureVariants)'
           IN  Agree(now) => /\ Agree(next)
                             /\ edits' = edits =>
                                   SameOnCommonIds(SharedSets(now), SharedSets(next))]_vars
  BY NextKeeps DEF StepKeeps, KeepsSets
<1> QED
  BY <1>1, VariantsStayWellFormed, PTL DEF Spec, LinkedVariantsShareOneSet

\* Saving and opening a build is a round trip for every variant and the mode.
THEOREM ReopeningIsARoundTrip == Spec => []ReopeningKeepsVariants
<1>1. ASSUME VariantsInv PROVE ReopeningKeepsVariants
  <2> DEFINE saved  == captureBuildData
             loaded == getVariants(saved)
  <2>1. saved.mode = mode /\ mode # None /\ mode \in {"linked", "independent"}
    BY <1>1, ReadBack DEF VariantsInv
  <2>2. resolveVariantMode(saved) = mode
    <3> HIDE DEF saved
    <3>1. QED
      BY <2>1, ModeResolves
  <2>3. CASE Alone
    <3>1. Shows(loaded)
      BY <1>1, ReadBackShows
    <3>2. 1 \in DOMAIN variants
      BY <1>1, <2>3, AloneIsTheTop DEF Alone
    <3>3. Content(loaded[1]) = Content(captureVariants[1])
      BY <3>1, <3>2 DEF Shows
    <3>4. QED
      BY <2>2, <2>3, <3>3 DEF ReopeningKeepsVariants, Alone
  <2>4. CASE ~Alone
    <3>1. loaded = captureVariants
      BY <1>1, <2>4, ReadBack
    <3>2. QED
      BY <2>2, <2>4, <3>1 DEF ReopeningKeepsVariants, Alone
  <2>5. QED
    BY <2>3, <2>4
<1> QED
  BY <1>1, VariantsStayWellFormed, PTL

\* A share link shows every variant as the saved build does, but with the one
\* Helminth ability on the screen, and is linked exactly when the variants agree.
THEOREM LinksShowTheBuild == Spec => []ShareLinksShowTheVariants
<1>1. ASSUME VariantsInv PROVE ShareLinksShowTheVariants
  <2> DEFINE doc    == savedDataFromBuildDoc(buildDocFromVariants(live, captureVariants))
             loaded == getVariants(doc)
             saved  == getVariants(captureBuildData)
  <2>1. /\ WellFormed(loaded, edits) /\ ShowsSets(loaded) /\ doc.mode = None
        /\ \A i \in DOMAIN variants : Content(loaded[i]) = Infused(Content(captureVariants[i]))
        /\ WellFormed(saved, edits) /\ Shows(saved)
    BY <1>1, SharedShows, ReadBackShows
  <2>2. Len(loaded) = Len(saved) /\ DOMAIN saved = DOMAIN variants
    <3> HIDE DEF loaded, saved
    <3>1. /\ DOMAIN loaded = 1 .. Len(loaded) /\ Len(loaded) \in Nat
          /\ DOMAIN saved = 1 .. Len(saved) /\ Len(saved) \in Nat
          /\ DOMAIN loaded = DOMAIN saved
      BY <2>1 DEF WellFormed, Shows, ShowsSets
    <3>2. QED
      BY <2>1, <3>1 DEF Shows, ShowsSets
  <2>3. \A i \in DOMAIN saved : /\ Content(loaded[i]) = [Content(saved[i]) EXCEPT
                                                           !.helminth = live.helminth]
                                /\ SameForm(loaded[i], saved[i])
    <3> HIDE DEF loaded, saved
    <3>1. QED
      BY <2>1, <2>2 DEF Shows, ShowsSets, SameForm, Infused
  <2>4. resolveVariantMode(doc) = "linked" <=> Agree(Range(captureVariants))
    <3>1. resolveVariantMode(doc) = "linked"
            <=> \A i \in DOMAIN loaded : linkVariants(loaded, i) = loaded
      <4> HIDE DEF doc
      <4>1. doc.mode \in {None, "linked", "independent"} /\ doc.mode = None
        BY <2>1
      <4>2. QED
        BY <4>1, ModeResolves
    <3>2. (\A i \in DOMAIN loaded : linkVariants(loaded, i) = loaded)
            <=> Agree(Range(loaded))
      <4> HIDE DEF loaded
      <4>1. QED
        BY <2>1, AgreeLinks
    <3>3. Agree(Range(loaded)) <=> Agree(Range(captureVariants))
      <4> HIDE DEF loaded
      <4>1. QED
        BY <1>1, <2>1, ShownAgrees
    <3>4. QED
      BY <3>1, <3>2, <3>3
  <2>5. QED
    BY <2>2, <2>3, <2>4 DEF ShareLinksShowTheVariants
<1> QED
  BY <1>1, VariantsStayWellFormed, PTL

\* A linked build that a client from before variant modes saves again is linked
\* when it is opened, and has what that client set.
THEOREM TheLinkSurvivesOldClients == Spec => []OldClientsKeepTheLink
<1>1. ASSUME VariantsInv PROVE OldClientsKeepTheLink
  <2> DEFINE clients == {live, [live EXCEPT !.forma = edits + 1, !.shards = edits + 1]}
  <2>1. SUFFICES ASSUME Agree(Range(captureVariants)), NEW a \in DOMAIN variants,
                        NEW client \in clients
                 PROVE  LET data   == OldClient(captureBuildData, a, client.forma,
                                                client.shards)
                            loaded == getVariants(data)
                        IN  /\ resolveVariantMode(data) = "linked"
                            /\ loaded[a].forma = client.forma
                            /\ loaded[a].shards = client.shards
    BY DEF OldClientsKeepTheLink
  <2> DEFINE data   == OldClient(captureBuildData, a, client.forma, client.shards)
             loaded == getVariants(data)
             n      == edits + 1
  <2>2. n \in Nat /\ edits <= n /\ client.forma \in 0 .. n /\ client.shards \in 0 .. n
    <3>1. edits \in Nat /\ live \in Contents(edits)
      BY <1>1, VariantsAssumption DEF VariantsInv
    <3>2. CASE client = live
      BY <3>1, <3>2 DEF Contents
    <3>3. CASE client = [live EXCEPT !.forma = edits + 1, !.shards = edits + 1]
      <4>1. client.forma = edits + 1 /\ client.shards = edits + 1
        BY <3>1, <3>3 DEF Contents
      <4>2. QED
        BY <3>1, <4>1
    <3>4. QED
      BY <3>2, <3>3
  <2> HIDE DEF n
  <2>3. /\ data.mode = None /\ WellFormed(loaded, n)
        /\ loaded[a].forma = client.forma /\ loaded[a].shards = client.shards
        /\ Agree(Range(loaded))
    BY <1>1, <2>1, <2>2, OldClientLoads
  <2>4. \A i \in DOMAIN loaded : linkVariants(loaded, i) = loaded
    <3> HIDE DEF loaded
    <3>1. QED
      BY <2>3, AgreeLinks
  <2>5. resolveVariantMode(data) = "linked"
    <3> HIDE DEF data
    <3>1. data.mode \in {None, "linked", "independent"} /\ data.mode = None
      BY <2>3
    <3>2. QED
      BY <2>4, <3>1, ModeResolves
  <2>6. QED
    BY <2>3, <2>5
<1> QED
  BY <1>1, VariantsStayWellFormed, PTL
=============================================================================
