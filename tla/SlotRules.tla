------------------------------ MODULE SlotRules ------------------------------
(***************************************************************************)
(* What the build editor knows about mods and slots: which mod fits which  *)
(* slot, what a mod drains in a polarized slot, how much capacity a build  *)
(* has left and how many Forma its polarities cost.                        *)
(*                                                                         *)
(* A slot's kind is "aura", "stance", "exilus", "normal", or the group of  *)
(* a Plexus slot, which is a normal slot for its own group's mods only.    *)
(***************************************************************************)
EXTENDS Integers, Sequences, FiniteSets, FiniteSetsExt

CONSTANTS
    Slots,          \* the slot ids a build may name
    SlotKind,       \* the kind of each
    Layout,         \* the slots this item has, in reading order
    Innate,         \* a slot's innate polarity, Empty if none
    BaseCapacity,   \* level, reactor and the bonus of a locked exalted stance
    LockedStance,   \* TRUE for an exalted weapon, whose stance is its own
    Mods,
    ModKind,        \* modSlotKind; a Plexus Matrix mod is an "aura"
    ModPolarity,
    ModDrain,       \* the magnitude of baseDrain
    ModMaxRank,
    Rivens,         \* the synthetic Riven
    Conflicts,      \* mutually exclusive mods, as two-element sets
    Polarities,     \* what a slot can be given, "universal" and "any" included
    Empty

PlexusGroups == {"integrated", "battle", "tactical"}
Kinds        == {"aura", "stance", "exilus", "normal"} \cup PlexusGroups

ASSUME SlotAssumption ==
    /\ {"exilus", "stance"} \subseteq Slots
    /\ SlotKind \in [Slots -> Kinds]
    /\ SlotKind["exilus"] = "exilus"
    /\ SlotKind["stance"] = "stance"
    /\ \A s, t \in Slots :   \* a Plexus has no other normal slots
          SlotKind[s] = "normal" => SlotKind[t] \notin PlexusGroups
    /\ Layout \in Seq(Slots)
    /\ \E i \in DOMAIN Layout : SlotKind[Layout[i]] \notin {"aura", "stance", "exilus"}
    /\ Slots \subseteq {Layout[i] : i \in DOMAIN Layout} \cup {"exilus", "stance"}
    /\ Innate \in [Slots -> Polarities \cup {Empty}]
    /\ BaseCapacity \in Nat
    /\ LockedStance \in BOOLEAN
    /\ IsFiniteSet(Polarities)
    /\ Empty \notin Slots \cup Mods \cup Polarities

ASSUME ModAssumption ==
    /\ ModKind \in [Mods -> Kinds]
    /\ ModPolarity \in [Mods -> Polarities]
    /\ ModDrain \in [Mods -> Nat]
    /\ ModMaxRank \in [Mods -> Nat]
    /\ Rivens \subseteq {m \in Mods : ModKind[m] = "normal"}
    /\ Conflicts \subseteq SUBSET Mods

PlacedMods == [mod : Mods, rank : Nat, alternate : Mods \cup {Empty}]
PlacedMaps == [Slots -> PlacedMods \cup {Empty}]
FormaMaps  == [Slots -> Polarities \cup {Empty}]

Filled(placed)    == {s \in Slots : placed[s] # Empty}
usedNames(placed) == {placed[s].mod : s \in Filled(placed)}

-----------------------------------------------------------------------------
(* Slot kinds and the layout                                                *)

\* A slot a user can place into.
Visible == {Layout[i] : i \in DOMAIN Layout}

isNormal(s)      == SlotKind[s] \notin {"aura", "stance", "exilus"}
consumesDrain(s) == isNormal(s) /\ SlotKind[s] \notin {"battle", "tactical"}

\* An Exilus-compatible mod also fits a normal slot.
canPlaceIn(m, s) ==
    \/ ModKind[m] = SlotKind[s]
    \/ ModKind[m] = "exilus" /\ SlotKind[s] = "normal"

canBeAlternate(m, s) == m \notin Rivens /\ canPlaceIn(m, s)

\* The order in which the slots are tried that fit a picked mod: a stance mod
\* fits nothing but the stance, and only an Exilus-compatible mod the Exilus.
\* Both are named whether the item has them or not.
candidateSlots == <<"stance", "exilus">> \o Layout

dropOrphanSlots(placed) ==
    [s \in Slots |-> IF s \in Visible THEN placed[s] ELSE Empty]

\* The next empty slot after s in reading order, Empty if there is none.
getNextEmptySlot(s, placed) ==
    LET later == {j \in DOMAIN Layout :
                    /\ placed[Layout[j]] = Empty
                    /\ \E i \in 1..(j - 1) : Layout[i] = s}
    IN  IF later = {} THEN Empty ELSE Layout[Min(later)]

-----------------------------------------------------------------------------
(* Polarities and capacity                                                  *)

effectivePolarity(innate, forma) ==
    IF forma = Empty THEN innate
    ELSE IF forma = "universal" THEN Empty ELSE forma

polarityOf(s, forma) == effectivePolarity(Innate[s], forma[s])

getMatchState(modPolarity, p) ==
    CASE p \in {Empty, "universal"} -> "neutral"
      [] p = "any" -> IF modPolarity = "umbra" THEN "neutral" ELSE "match"
      [] OTHER     -> IF modPolarity \in {"any", p} THEN "match" ELSE "mismatch"

\* A Riven's drain is configured for its maximum rank.
baseDrain(pm) == ModDrain[pm.mod] + (IF pm.mod \in Rivens THEN 0 ELSE pm.rank)

\* Half, rounded up; or 1.25 times, rounded to the nearest.
effectiveDrain(pm, p) ==
    CASE getMatchState(ModPolarity[pm.mod], p) = "neutral"  -> baseDrain(pm)
      [] getMatchState(ModPolarity[pm.mod], p) = "match"    -> (baseDrain(pm) + 1) \div 2
      [] getMatchState(ModPolarity[pm.mod], p) = "mismatch" -> (5 * baseDrain(pm) + 2) \div 4

\* Auras and stances add capacity: twice, or 0.75 times, rounded.
auraBonus(pm, p) ==
    CASE getMatchState(ModPolarity[pm.mod], p) = "neutral"  -> baseDrain(pm)
      [] getMatchState(ModPolarity[pm.mod], p) = "match"    -> 2 * baseDrain(pm)
      [] getMatchState(ModPolarity[pm.mod], p) = "mismatch" -> (3 * baseDrain(pm) + 2) \div 4

\* What one filled slot adds to the capacity left.  The Exilus slot counts
\* whether the item has it or not; a stance, unless the locked one does.
capacityOf(s, placed, forma) ==
    IF SlotKind[s] = "aura" \/ (SlotKind[s] = "stance" /\ ~LockedStance)
    THEN auraBonus(placed[s], polarityOf(s, forma))
    ELSE IF SlotKind[s] = "exilus" \/ consumesDrain(s)
    THEN -effectiveDrain(placed[s], polarityOf(s, forma))
    ELSE 0

\* max - used: the build is over capacity when this is negative.
headroom(placed, forma) ==
    BaseCapacity + MapThenSumSet(LAMBDA s : capacityOf(s, placed, forma), Filled(placed))

-----------------------------------------------------------------------------
(* Forma                                                                    *)

\* Slots of one pool whose polarity is p: before and after.
Surplus(pool, forma, p) ==
    Cardinality({s \in pool : polarityOf(s, forma) = p})
        - Cardinality({s \in pool : Innate[s] = p})

groupForma(pool, forma) ==
    LET gains(p)  == Max({Surplus(pool, forma, p), 0})
        losses(p) == Max({-Surplus(pool, forma, p), 0})
    IN  Max({MapThenSumSet(gains, Polarities), MapThenSumSet(losses, Polarities)})

\* Forma is spent per polarity: all slots but the stance exchange theirs
\* freely, once one Forma has been spent.
calculateFormaCount(forma) ==
    LET pool   == Slots \ {"stance"}
        pooled == groupForma(pool, forma)
        moved  == \E s \in pool : polarityOf(s, forma) # Innate[s]
        stance == IF polarityOf("stance", forma) # Innate["stance"] THEN 1 ELSE 0
    IN  (IF pooled = 0 /\ moved THEN 1 ELSE pooled) + stance
=============================================================================
