------------------------------ MODULE BuildSlots ------------------------------
(***************************************************************************)
(* The mod slots of the build editor: picking, dragging, ranking and       *)
(* removing mods, Alternates, Rivens, Forma, the auto-forma button with    *)
(* its preview dialog, and undo.                                           *)
(*                                                                         *)
(* A click is handled on the rendered state, so it is one step.  A drag    *)
(* and a dialog last from one step to a later one: the keyboard shortcuts  *)
(* (undo, redo, rank, arrows) work in between, since useHotkey listens on  *)
(* the window whatever has the focus, text fields aside.                   *)
(***************************************************************************)
EXTENDS AutoForma

CONSTANTS
    Others,         \* the variants besides the active one
    Sharing,        \* those of them whose formas are the active variant's
    SavedBuilds,    \* what may be loaded: [placed, forma, others]
    MaxEdits        \* bound: edits of one session

Active == "active"

\* All Rivens are "Riven Mod", and share one unique name.
sameName(m, n) == m = n \/ {m, n} \subseteq Rivens

EveryModFits(mods) == \A s \in Filled(mods) : canPlaceIn(mods[s].mod, s)

NoNameTwice(mods) ==
    \A s, t \in Filled(mods) :
        s # t /\ sameName(mods[s].mod, mods[t].mod) => mods[s].mod \in Rivens

AlternatesFit(mods) ==
    \A s \in Filled(mods) : mods[s].alternate # Empty =>
        /\ mods[s].alternate \notin Rivens
        /\ \/ canPlaceIn(mods[s].alternate, s)
           \/ SlotKind[s] = "exilus" /\ ModKind[mods[s].alternate] = "normal"

\* A saved build was checked when it was made, and its orphans are dropped.
ASSUME EditorAssumption ==
    /\ Active \notin Others /\ IsFiniteSet(Others)
    /\ Sharing \subseteq Others
    /\ SavedBuilds \subseteq [placed : PlacedMaps, forma : FormaMaps,
                              others : [Others -> PlacedMaps]]
    /\ \A b \in SavedBuilds :
          /\ Filled(b.placed) \subseteq Visible
          /\ EveryModFits(b.placed) /\ NoNameTwice(b.placed) /\ AlternatesFit(b.placed)
          /\ \A v \in Others : EveryModFits(b.others[v])
    /\ MaxEdits \in Nat

VARIABLES
    placed,     \* slots.placed: the active variant's mods
    forma,      \* slots.formaPolarities
    selected,   \* the slot picks go to
    others,     \* the saved slots of the other variants
    before,     \* the snapshot one undo, or one redo, away
    drag,       \* the source of the drag in progress
    riven,      \* the slot the Riven dialog edits
    pending,    \* pendingHeavyPlan, with the state it was made from
    edits,      \* counts edits, for MaxEdits
    last        \* what the last step was: "edit", or how a plan was applied

vars == <<placed, forma, selected, others, before, drag, riven, pending, edits, last>>
dialogs == <<drag, riven, pending>>

snapshot == [placed |-> placed, forma |-> forma]

NoMods == [s \in Slots |-> Empty]

Init ==
    /\ \E b \in SavedBuilds :
          /\ placed = b.placed
          /\ forma  = b.forma
          /\ others = b.others
          /\ before = [placed |-> b.placed, forma |-> b.forma]
    /\ selected = Layout[Min({i \in DOMAIN Layout : isNormal(Layout[i])})]
    /\ drag = Empty
    /\ riven = Empty
    /\ pending = Empty
    /\ edits = 0
    /\ last = "edit"

\* Nothing modal is open, and the pointer is free.
Idle == drag = Empty /\ riven = Empty /\ pending = Empty

\* A change of mods or formas that undo can take back; every edit here is
\* a history entry of its own.
Edit ==
    /\ edits < MaxEdits
    /\ edits' = edits + 1
    /\ before' = snapshot
    /\ last' = "edit"
    /\ UNCHANGED others

-----------------------------------------------------------------------------
(* The picker                                                               *)

isUsed(m) == \E n \in usedNames(placed) : sameName(m, n)

modsConflict(m, n) == {m, n} \in Conflicts

isBlocked(m) == isUsed(m) \/ \E n \in usedNames(placed) : modsConflict(m, n)

\* The card is lit: it matches the kind of the slot picked for and is not
\* blocked.  A normal slot, or none, asks for no kind.
isActionable(m, s) ==
    /\ ~isBlocked(m)
    /\ s # Empty => isNormal(s) \/ canPlaceIn(m, s)

firstFree(m) ==
    LET free == {i \in DOMAIN candidateSlots :
                   /\ placed[candidateSlots[i]] = Empty
                   /\ canPlaceIn(m, candidateSlots[i])}
    IN  IF free = {} THEN Empty ELSE candidateSlots[Min(free)]

\* The selected slot when the mod fits it, occupied or not.
placementTarget(m) ==
    IF selected # Empty /\ canPlaceIn(m, selected) THEN selected ELSE firstFree(m)

stamp(m, alternate) == [mod |-> m, rank |-> ModMaxRank[m], alternate |-> alternate]

place(m) ==
    LET target == placementTarget(m) IN
    /\ Idle
    /\ m \notin Rivens
    /\ isActionable(m, selected)
    /\ target # Empty
    /\ placed' = [placed EXCEPT ![target] = stamp(m, Empty)]
    /\ selected' = getNextEmptySlot(target, placed)
    /\ Edit
    /\ UNCHANGED <<forma, dialogs>>

\* Mutant: the slot keeps its Alternate, legal or not.
placeAt_keeps(s, m) ==
    LET alt  == IF placed[s] = Empty THEN Empty ELSE placed[s].alternate
        keep == alt # Empty /\ alt # m
    IN  placed' = [placed EXCEPT ![s] = stamp(m, IF keep THEN alt ELSE Empty)]

\* The slot keeps its Alternate where that stays legal.
placeAt(s, m) ==
    LET alt  == IF placed[s] = Empty THEN Empty ELSE placed[s].alternate
        keep == alt # Empty /\ alt # m /\ canBeAlternate(alt, s)
    IN  placed' = [placed EXCEPT ![s] = stamp(m, IF keep THEN alt ELSE Empty)]

\* In Alternate mode a pick goes beside the slot's mod.
setAlternate(s, m) ==
    /\ Idle
    /\ placed[s] # Empty
    /\ isActionable(m, s)
    /\ canBeAlternate(m, s)
    /\ placed' = [placed EXCEPT ![s].alternate = m]
    /\ Edit
    /\ UNCHANGED <<forma, selected, dialogs>>

removeAlternate(s) ==
    /\ Idle
    /\ placed[s] # Empty
    /\ placed[s].alternate # Empty
    /\ placed' = [placed EXCEPT ![s].alternate = Empty]
    /\ Edit
    /\ UNCHANGED <<forma, selected, dialogs>>

remove(s) ==
    /\ Idle
    /\ placed[s] # Empty
    /\ placed' = [placed EXCEPT ![s] = Empty]
    /\ Edit
    /\ UNCHANGED <<forma, selected, dialogs>>

setForma(s, p) ==
    /\ Idle
    /\ forma[s] # p
    /\ forma' = [forma EXCEPT ![s] = p]
    /\ Edit
    /\ UNCHANGED <<placed, selected, dialogs>>
-----------------------------------------------------------------------------
(* Rivens                                                                   *)

\* Never over an equipped mod, as the slots are now.
rivenTarget(m) ==
    IF selected # Empty /\ placed[selected] = Empty /\ canPlaceIn(m, selected)
    THEN selected ELSE firstFree(m)

openForPlacement(m) ==
    /\ Idle
    /\ isActionable(m, selected)
    /\ rivenTarget(m) # Empty
    /\ riven' = rivenTarget(m)
    /\ last' = "edit"
    /\ UNCHANGED <<placed, forma, selected, others, before, drag, pending, edits>>

openForEdit(s) ==
    /\ Idle
    /\ placed[s] # Empty
    /\ placed[s].mod \in Rivens
    /\ riven' = s
    /\ last' = "edit"
    /\ UNCHANGED <<placed, forma, selected, others, before, drag, pending, edits>>

\* The slot of the dialog is not looked at again.
confirmRiven(m) ==
    /\ riven # Empty
    /\ placeAt(riven, m)
    /\ selected' = getNextEmptySlot(riven, placed)
    /\ riven' = Empty
    /\ Edit
    /\ UNCHANGED <<forma, drag, pending>>

-----------------------------------------------------------------------------
(* Drag and drop                                                            *)

startDrag(source) ==
    /\ Idle
    /\ drag' = source
    /\ last' = "edit"
    /\ UNCHANGED <<placed, forma, selected, others, before, riven, pending, edits>>

dragCard(m) == isActionable(m, selected) /\ startDrag([kind |-> "pool", mod |-> m])
dragSlot(s) == placed[s] # Empty /\ startDrag([kind |-> "slot", slot |-> s])

\* Mutant: the card was lit when the drag began, so it is not asked again.
dropCard_unchecked(t) ==
    /\ canPlaceIn(drag.mod, t)
    /\ placeAt(t, drag.mod)

dropCard(t) ==
    /\ canPlaceIn(drag.mod, t)
    /\ ~isUsed(drag.mod)
    /\ placeAt(t, drag.mod)

\* Mutant: only the dragged mod has to fit where it goes.
swap_oneWay(from, to) ==
    /\ from # to
    /\ placed[from] # Empty
    /\ canPlaceIn(placed[from].mod, to)
    /\ placed' = [placed EXCEPT ![to] = placed[from], ![from] = placed[to]]

\* Both mods must fit; their Alternates go along unasked, the formas stay.
swap(from, to) ==
    /\ from # to
    /\ placed[from] # Empty
    /\ canPlaceIn(placed[from].mod, to)
    /\ placed[to] # Empty => canPlaceIn(placed[to].mod, from)
    /\ placed' = [placed EXCEPT ![to] = placed[from], ![from] = placed[to]]

drop(t) ==
    /\ drag # Empty
    /\ IF drag.kind = "pool" THEN dropCard(t) ELSE swap(drag.slot, t)
    /\ drag' = Empty
    /\ Edit
    /\ UNCHANGED <<forma, selected, riven, pending>>

\* A drop that is refused, Escape, or a cancelled dialog.
dismiss ==
    /\ ~Idle
    /\ drag' = Empty
    /\ riven' = Empty
    /\ pending' = Empty
    /\ last' = "edit"
    /\ UNCHANGED <<placed, forma, selected, others, before, edits>>
-----------------------------------------------------------------------------
(* Keyboard shortcuts, open dialog or not                                   *)

select(s) ==
    /\ selected' = IF selected = s THEN Empty ELSE s
    /\ last' = "edit"
    /\ UNCHANGED <<placed, forma, others, before, dialogs, edits>>

\* Mutant: the rank is not clamped below.
setRank_unclamped(s, delta) ==
    /\ Idle \/ s = selected
    /\ placed[s] # Empty
    /\ placed[s].rank + delta <= ModMaxRank[placed[s].mod]
    /\ placed' = [placed EXCEPT ![s].rank = @ + delta]
    /\ Edit
    /\ UNCHANGED <<forma, selected, dialogs>>

\* By one, of the selected slot or the one under the pointer.
setRank(s, delta) ==
    /\ Idle \/ s = selected
    /\ placed[s] # Empty
    /\ placed[s].rank + delta \in 0..ModMaxRank[placed[s].mod]
    /\ placed' = [placed EXCEPT ![s].rank = @ + delta]
    /\ Edit
    /\ UNCHANGED <<forma, selected, dialogs>>

\* The other variants are no part of a history entry.
undo ==
    /\ before # snapshot
    /\ placed' = before.placed
    /\ forma'  = before.forma
    /\ before' = snapshot
    /\ last'   = "edit"
    /\ UNCHANGED <<selected, others, dialogs, edits>>

-----------------------------------------------------------------------------
(* The auto-forma button                                                    *)

\* A variant with formas of its own is planned as empty, which always fits.
variantSlots(own, saved) ==
    [v \in Others \cup {Active} |->
        IF v = Active THEN own
        ELSE IF v \in Sharing THEN dropOrphanSlots(saved[v]) ELSE NoMods]

allVariantSlots == variantSlots(placed, others)

isOver == headroom(placed, forma) < 0

exactFix == stage1(allVariantSlots, forma)

partialFix == bestEffort(allVariantSlots, forma)

heavyPlans ==
    LET rearranged == searchWithRearrangement(allVariantSlots, forma, FALSE)
    IN  IF rearranged # {} THEN rearranged
        ELSE searchWithRearrangement(allVariantSlots, forma, TRUE)

\* A plan of formas alone is applied at once.
applyFormas(after, how) ==
    /\ forma' = steps(forma, after)
    /\ edits < MaxEdits
    /\ edits' = edits + 1
    /\ before' = snapshot
    /\ last' = how
    /\ UNCHANGED <<placed, selected, others, dialogs>>

previewPlan(plan) ==
    /\ pending' = [plan |-> plan, variants |-> allVariantSlots, forma |-> forma]
    /\ last' = "edit"
    /\ UNCHANGED <<placed, forma, selected, others, before, drag, riven, edits>>

handleAutoForma ==
    /\ Idle
    /\ isOver
    /\ \/ \E f \in exactFix : applyFormas(f, "exact")
       \/ /\ exactFix = {}
          /\ partialFix # forma
          /\ applyFormas(partialFix, "partial")
       \/ /\ exactFix = {}
          /\ partialFix = forma
          /\ \E plan \in heavyPlans : previewPlan(plan)

\* The same names in the same slots: whose rank, or which Riven, is not asked.
arrangementEquals(a, b) ==
    /\ Filled(a) = Filled(b)
    /\ \A s \in Filled(a) : sameName(a[s].mod, b[s].mod)

\* What the plan changes, on top of what is there by now.
applyPendingPlan ==
    LET plan   == pending.plan
        changed(v) == ~arrangementEquals(pending.variants[v], plan.builds[v])
    IN
    /\ pending # Empty
    /\ edits < MaxEdits
    /\ forma' = [s \in Slots |-> IF plan.forma[s] # pending.forma[s]
                                 THEN plan.forma[s] ELSE forma[s]]
    /\ placed' = IF changed(Active) THEN plan.builds[Active] ELSE placed
    /\ others' = [v \in Others |-> IF changed(v) THEN plan.builds[v] ELSE others[v]]
    /\ before' = snapshot
    /\ last' = IF pending.variants = allVariantSlots /\ pending.forma = forma
               THEN "exact" ELSE "stale"
    /\ pending' = Empty
    /\ edits' = edits + 1
    /\ UNCHANGED <<selected, drag, riven>>

Next ==
    \/ \E m \in Mods \ Rivens : place(m)
    \/ \E m \in Rivens : openForPlacement(m) \/ confirmRiven(m)
    \/ \E m \in Mods : dragCard(m)
    \/ \E s \in Visible :
          \/ dragSlot(s) \/ drop(s)
          \/ \E m \in Mods : setAlternate(s, m)
          \/ removeAlternate(s) \/ remove(s) \/ openForEdit(s)
          \/ \E p \in Polarities \cup {Empty} : setForma(s, p)
          \/ \E delta \in {-1, 1} : setRank(s, delta)
          \/ select(s)
    \/ dismiss \/ undo
    \/ handleAutoForma \/ applyPendingPlan

Spec == Init /\ [][Next]_vars

-----------------------------------------------------------------------------
(* Properties                                                               *)

SlotsTypeOK ==
    /\ placed \in PlacedMaps
    /\ forma \in FormaMaps
    /\ selected \in Visible \cup {Empty}
    /\ others \in [Others -> PlacedMaps]
    /\ before \in [placed : PlacedMaps, forma : FormaMaps]
    /\ drag \in {Empty} \cup [kind : {"pool"}, mod : Mods]
                          \cup [kind : {"slot"}, slot : Slots]
    /\ riven \in Slots \cup {Empty}
    /\ edits \in 0..MaxEdits
    /\ last \in {"edit", "exact", "partial", "stale"}

\* Every mod, of every variant, sits in a slot it fits: after swaps, undone
\* edits, a Riven dialog confirmed late and a plan that rearranged two
\* variants (use-build-slots.ts, arrange.ts).
ModsFitTheirSlots ==
    /\ EveryModFits(placed)
    /\ \A v \in Others : EveryModFits(others[v])

\* No mod is equipped twice, Rivens aside: a drag that an undo overtakes is
\* refused, and a stale plan brings back a whole consistent map.
NoModTwice == NoNameTwice(placed)

\* The record of slot s came with a swap, from the slot its own mod went to.
SwappedInto(s) ==
    /\ drag # Empty /\ drag.kind = "slot" /\ drag' = Empty
    /\ \E t \in Slots \ {s} : /\ drag.slot \in {s, t}
                             /\ placed'[s] = placed[t] /\ placed'[t] = placed[s]

\* The step left slot s its mod and the mod's Alternate.
KeptBeside(s) ==
    placed[s] # Empty /\ placed[s].mod = placed'[s].mod
                      /\ placed[s].alternate = placed'[s].alternate

\* No Alternate but an ordinary one in the Exilus slot is where it does not
\* fit, and that one was not put there: not picked for the slot, and not kept
\* when another mod was dropped into it.  It came along in a swap of its mod,
\* or an undo or a plan brought back a slot that held it (canBeAlternate, and
\* what swap leaves unasked, use-build-slots.ts:191).
OnlySwapsMisplaceAlternates ==
    /\ []AlternatesFit(placed)
    /\ [][\A s \in Filled(placed') :
            \/ placed'[s].alternate = Empty
            \/ canBeAlternate(placed'[s].alternate, s)
            \/ KeptBeside(s) \/ SwappedInto(s)
            \/ placed' = before.placed
            \/ /\ pending # Empty /\ pending' = Empty
               /\ placed'[s] = pending.variants[Active][s]]_vars

\* Slots that hold mods are slots the item has, so that they are shown.
FilledSlotsAreVisible == Filled(placed) \subseteq Visible

\* A rearrangement permutes the mods of the movable slots and nothing else.
SameMods(mods, arranged) ==
    /\ \A s \in Slots : ~movable(s) => arranged[s] = mods[s]
    /\ \A s \in Filled(mods) :
          Cardinality({t \in Slots : arranged[t] = mods[s]}) =
          Cardinality({t \in Slots : mods[t] = mods[s]})
    /\ Cardinality(Filled(arranged)) = Cardinality(Filled(mods))

\* A plan that only exchanges mods of one name, as two Rivens of unlike
\* polarity, does not move them.
LosesItsMove(v) ==
    /\ pending # Empty
    /\ pending.plan.builds[v] # pending.variants[v]
    /\ arrangementEquals(pending.variants[v], pending.plan.builds[v])

\* A plan applied to the state it was made from brings every variant that
\* shares the formas under its capacity, but one whose Rivens it should have
\* exchanged; a partial fix helps the worst of them and leaves none worse
\* off.  Neither loses a mod.
PlansKeepTheirPromise ==
    [][/\ last' = "exact" =>
            \A v \in Others \cup {Active} :
                headroom(allVariantSlots'[v], forma') >= 0 \/ LosesItsMove(v)
       /\ last' = "partial" =>
            /\ worst(allVariantSlots, forma)' > worst(allVariantSlots, forma)
            /\ \A v \in Others \cup {Active} :
                  headroom(allVariantSlots'[v], forma') >= headroom(allVariantSlots[v], forma)
       /\ last' \in {"exact", "partial"} =>
            \A v \in Others \cup {Active} :
                SameMods(allVariantSlots[v], allVariantSlots'[v])]_vars
=============================================================================
