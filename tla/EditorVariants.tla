---------------------------- MODULE EditorVariants ----------------------------
(***************************************************************************)
(* The variants of a build in the editor: useVariantActions and the        *)
(* activate of useEditorStore, the Variant mode, per-variant guides, and   *)
(* what a saved document, a share link and a client from before            *)
(* per-variant forma make of them (build-codec-adapter.ts).                *)
(*                                                                         *)
(* A loadout (slots, arcanes and per-variant extras), a Helminth ability,  *)
(* a forma set, a shard set and a guide are each the number of the edit    *)
(* that made them: 0 is the empty one, None one that an old document does  *)
(* not have.  The guide of the whole build, which seeds a variant's empty  *)
(* one, stays empty.                                                       *)
(***************************************************************************)
EXTENDS Naturals, Sequences, FiniteSets, SequencesExt

CONSTANTS
    MaxForms,       \* bound on the forms of a frame: 1 for all but twin-frames
    MAX_VARIANTS,   \* per form
    MaxEdits,       \* bound on edits
    MaxVariants,    \* bound on the variants of a build
    None

ASSUME VariantsAssumption ==
    /\ MaxForms \in Nat \ {0}
    /\ MAX_VARIANTS \in Nat \ {0}
    /\ MaxEdits \in Nat /\ MaxVariants \in Nat
    /\ None \notin Nat \cup {"linked", "independent"}

VARIABLES
    forms,      \* how many forms the item has
    variants,   \* the array; the active entry is as it was last switched to
    active,     \* clampedActiveIndex, from 1
    live,       \* the active variant on the screen: [mods, helminth, forma, shards]
    mode,       \* variantMode
    scope,      \* the guide's scope: a variant's index, or None for the build
    edits       \* the number of the last edit

vars == <<forms, variants, active, live, mode, scope, edits>>

Forms == 0 .. forms - 1

Content(v) ==
    [mods |-> v.mods, helminth |-> v.helminth, forma |-> v.forma, shards |-> v.shards]

\* isSyntheticVariant: id 0 under its first label.
isSyntheticVariant(v) == v.id = 0 /\ ~v.named

\* A saved document: the active variant mirrored at the top, and the variants.
Document(m, top, form, vs) ==
    [mode |-> m, mods |-> top.mods, helminth |-> top.helminth, forma |-> top.forma,
     shards |-> top.shards, form |-> form, variants |-> vs]

Variant(id, form, c) ==
    [id |-> id, named |-> id # 0, form |-> form, mods |-> c.mods, helminth |-> c.helminth,
     forma |-> c.forma, shards |-> c.shards, guide |-> 0]

Empty == [mods |-> 0, helminth |-> 0, forma |-> 0, shards |-> 0]

-----------------------------------------------------------------------------
(* build-codec-adapter.ts                                                   *)

SameForm(v, w) == v.form = w.form

\* The source's shards on every variant and its forma on those of its form.
linkVariants(vs, source) ==
    [i \in DOMAIN vs |->
        [vs[i] EXCEPT !.shards = vs[source].shards,
                      !.forma  = IF SameForm(vs[i], vs[source]) THEN vs[source].forma
                                                                 ELSE @]]

\* find and findIndex: the first of the places at.
First(at) == CHOOSE i \in at : \A j \in at : i <= j

OfForm(vs, form) == {i \in DOMAIN vs : vs[i].form = form}

\* Mutant: a new variant always starts without forma and shards.
newVariantSeed_empty(m, vs, source, form) == Empty

\* What a blank variant of the form starts with.
newVariantSeed(m, vs, source, form) ==
    LET sameForm == OfForm(vs, form)
    IN  IF m = "independent" THEN Empty
        ELSE [Empty EXCEPT !.forma  = IF sameForm = {} THEN 0 ELSE vs[First(sameForm)].forma,
                           !.shards = source.shards]

\* Mutant: every absent forma is filled from the mirror, stale copies stay.
getVariants_fill(data) ==
    IF data.variants = <<>>
    THEN <<Variant(0, data.form, data)>>
    ELSE [i \in DOMAIN data.variants |->
             LET v == data.variants[i]
             IN  [v EXCEPT !.shards = IF @ = None THEN data.shards ELSE @,
                           !.forma  = IF @ = None THEN data.forma ELSE @]]

\* Copy-on-load: what a variant lacks comes from the mirror.  A document that
\* mixes variants with and without forma and has no mode was linked and saved
\* again by an old client: it is linked again from the mirror.
getVariants(data) ==
    LET vs    == data.variants
        stale == /\ data.mode = None
                 /\ \E i \in DOMAIN vs : vs[i].forma # None
                 /\ \E i \in DOMAIN vs : vs[i].forma = None
        Resolved(v) ==
            [v EXCEPT !.shards = IF stale \/ @ = None THEN data.shards ELSE @,
                      !.forma  = IF @ = None \/ (stale /\ v.form = data.form)
                                 THEN data.forma ELSE @]
    IN  IF vs = <<>> THEN <<Variant(0, data.form, data)>>
                     ELSE [i \in DOMAIN vs |-> Resolved(vs[i])]

\* Documents without a mode are linked unless their variants differ.
resolveVariantMode(data) ==
    LET vs == getVariants(data)
    IN  CASE data.mode # None -> data.mode
          [] data.mode = None /\ \A i \in DOMAIN vs : linkVariants(vs, i) = vs -> "linked"
          [] OTHER -> "independent"

\* Mutant: every variant of the link carries the active one's forma.
buildDocFromVariants_base(base, vs) ==
    [i \in DOMAIN vs |-> [vs[i] EXCEPT !.guide = 0, !.helminth = base.helminth,
                                       !.forma = base.forma]]

\* The share link: each variant's own data without its guide, but one Helminth
\* ability for all, the active variant's.
buildDocFromVariants(base, vs) ==
    [i \in DOMAIN vs |-> [vs[i] EXCEPT !.guide = 0, !.helminth = base.helminth]]

\* And back, without a mode; a single variant is the top level alone.
savedDataFromBuildDoc(doc) ==
    Document(None, Content(doc[1]), doc[1].form, IF Len(doc) = 1 THEN <<>> ELSE doc)

\* seedVariants: a synthetic variant of a twin-frame stands for every form.
seedVariants(data) ==
    LET initial == getVariants(data)
    IN  IF forms > 1 /\ Len(initial) = 1 /\ isSyntheticVariant(initial[1])
        THEN [i \in 1 .. forms |->
                [initial[1] EXCEPT !.form = i - 1, !.id = i - 1, !.named = i > 1]]
        ELSE initial

-----------------------------------------------------------------------------
(* editor-capture.ts                                                        *)

foldedVariants ==
    [variants EXCEPT ![active] = [@ EXCEPT !.mods = live.mods, !.helminth = live.helminth,
                                           !.forma = live.forma, !.shards = live.shards]]

captureVariants ==
    IF mode = "linked" THEN linkVariants(foldedVariants, active) ELSE foldedVariants

\* Mutant: a single variant is never written, whatever its name.
captureBuildData_single ==
    Document(mode, live, variants[active].form,
             IF Len(captureVariants) > 1 THEN captureVariants ELSE <<>>)

\* The synthetic variant is left to the top level.
captureBuildData ==
    Document(mode, live, variants[active].form,
             IF Len(captureVariants) > 1 \/ ~isSyntheticVariant(captureVariants[1])
             THEN captureVariants ELSE <<>>)

-----------------------------------------------------------------------------
(* The editor                                                               *)

\* A client from before per-variant forma opens the document at the a-th
\* variant, changes forma and shards and saves: it knows neither the mode nor
\* a variant's forma.
OldClient(data, a, forma, shards) ==
    LET vs == data.variants
    IN  [data EXCEPT !.mode = None, !.forma = forma, !.shards = shards,
                     !.form = IF vs = <<>> THEN @ ELSE vs[a].form,
                     !.variants =
                        IF vs = <<>> THEN vs
                        ELSE [vs EXCEPT ![a] = [vs[a] EXCEPT !.forma = None,
                                                             !.shards = shards]]]

Open(data, index) ==
    /\ variants' = seedVariants(data)
    /\ active' = IF index > Len(variants') THEN Len(variants') ELSE index
    /\ live' = Content(variants'[active'])
    /\ mode' = resolveVariantMode(data)
    /\ scope' = None
    /\ UNCHANGED forms

Init ==
    /\ forms \in 1 .. MaxForms
    /\ variants = seedVariants(Document(None, Empty, 0, <<>>))
    /\ mode = resolveVariantMode(Document(None, Empty, 0, <<>>))
    /\ active = 1
    /\ live = Content(variants[1])
    /\ scope = None
    /\ edits = 0

\* A change of the live slots, Helminth ability, forma or shards.
edit ==
    /\ edits < MaxEdits
    /\ edits' = edits + 1
    /\ \E field \in {"mods", "helminth", "forma", "shards"} :
          live' = [live EXCEPT ![field] = edits']
    /\ UNCHANGED <<forms, variants, active, mode, scope>>

\* Mutant: the scope keeps its index while the array shifts.
followVariants_stay(next) == scope' = scope

\* The guide's scope stays on its variant, or falls to the first one.
followVariants(next) ==
    LET id == variants[scope].id
        at == {i \in DOMAIN next : next[i].id = id}
    IN  scope' = IF scope = None THEN None
                 ELSE IF at = {} THEN 1 ELSE First(at)

activate(next, index) ==
    /\ followVariants(next)
    /\ variants' = next
    /\ active' = index
    /\ live' = Content(next[index])
    /\ UNCHANGED <<forms, mode, edits>>

formOf(i) == variants[i].form
formCount == Cardinality(OfForm(variants, formOf(active)))

\* crypto.randomUUID: an id no variant of the build has.
NewId == CHOOSE n \in 1 .. MaxVariants : \A i \in DOMAIN variants : variants[i].id # n

makeBlankVariant(form, captured) ==
    Variant(NewId, form, newVariantSeed(mode, captured, captured[active], form))

\* Mutant: the live edits are not folded back.
switchVariant_drop(i) ==
    /\ i # active
    /\ activate(variants, i)

switchVariant(i) ==
    /\ i # active
    /\ activate(captureVariants, i)

addVariant ==
    /\ formCount < MAX_VARIANTS
    /\ Len(variants) < MaxVariants
    /\ activate(Append(captureVariants, makeBlankVariant(formOf(active), captureVariants)),
                Len(variants) + 1)

duplicateActive ==
    /\ formCount < MAX_VARIANTS
    /\ Len(variants) < MaxVariants
    /\ LET dup == [captureVariants[active] EXCEPT !.id = NewId, !.named = TRUE]
       IN  activate(InsertAt(captureVariants, active + 1, dup), active + 1)

\* Mutant: any variant goes, the last of its form too.
deleteActive_any ==
    /\ Len(variants) > 1
    /\ activate(RemoveAt(captureVariants, active), 1)

\* Every form keeps one variant; the first of the same form takes over.
deleteActive ==
    /\ formCount > 1
    /\ LET next == RemoveAt(captureVariants, active)
       IN  activate(next, First(OfForm(next, formOf(active))))

renameActive ==
    /\ variants' = [variants EXCEPT ![active] = [@ EXCEPT !.named = TRUE]]
    /\ UNCHANGED <<forms, active, live, mode, scope, edits>>

switchForm(form) ==
    /\ form # formOf(active)
    /\ LET captured == captureVariants
           target   == OfForm(captured, form)
       IN  IF target # {}
           THEN activate(captured, First(target))
           ELSE /\ Len(variants) < MaxVariants
                /\ activate(Append(captured, makeBlankVariant(form, captured)),
                            Len(captured) + 1)

\* Linking copies the active variant's shards, and its form's forma.
applyVariantMode(next) ==
    /\ next # mode
    /\ variants' = IF next = "linked" THEN linkVariants(captureVariants, active)
                                      ELSE variants
    /\ mode' = next
    /\ UNCHANGED <<forms, active, live, scope, edits>>

\* The guide editor turns to a variant, and writes its guide.
onScopeChange ==
    /\ Len(variants) > 1
    /\ scope' \in DOMAIN variants
    /\ scope' # scope
    /\ UNCHANGED <<forms, variants, active, live, mode, edits>>

editGuide ==
    /\ scope # None
    /\ edits < MaxEdits
    /\ edits' = edits + 1
    /\ variants' = [variants EXCEPT ![scope] = [@ EXCEPT !.guide = edits']]
    /\ UNCHANGED <<forms, active, live, mode, scope>>

\* A saved build or a draft is opened, at the variant in the URL.
reopen ==
    /\ \E index \in DOMAIN variants : Open(captureBuildData, index)
    /\ UNCHANGED edits

openShareLink ==
    /\ Open(savedDataFromBuildDoc(buildDocFromVariants(live, captureVariants)), active)
    /\ UNCHANGED edits

oldClientSaves ==
    /\ edits < MaxEdits
    /\ edits' = edits + 1
    /\ \E a \in DOMAIN variants :
          Open(OldClient(captureBuildData, a, live.forma, edits'), 1)

Next ==
    \/ edit \/ editGuide \/ onScopeChange
    \/ \E i \in DOMAIN variants : switchVariant(i)
    \/ addVariant \/ duplicateActive \/ deleteActive \/ renameActive
    \/ \E f \in Forms : switchForm(f)
    \/ \E m \in {"linked", "independent"} : applyVariantMode(m)
    \/ reopen \/ openShareLink \/ oldClientSaves

Spec == Init /\ [][Next]_vars

-----------------------------------------------------------------------------
(* Properties                                                               *)

\* Every variable has its type; ids tell variants apart; every form has a
\* variant, for form tabs and indices to lead to, and none exceeds its budget.
VariantsTypeOK ==
    /\ \A i \in DOMAIN variants :
          /\ variants[i].form \in Forms
          /\ {variants[i].mods, variants[i].helminth, variants[i].forma, variants[i].shards,
              variants[i].guide} \subseteq 0 .. edits
    /\ \A i, j \in DOMAIN variants : variants[i].id = variants[j].id => i = j
    /\ \A f \in Forms : Cardinality(OfForm(variants, f)) \in 1 .. MAX_VARIANTS
    /\ active \in DOMAIN variants
    /\ scope \in DOMAIN variants \cup {None}
    /\ mode \in {"linked", "independent"}
    /\ live \in [mods : 0 .. edits, helminth : 0 .. edits, forma : 0 .. edits,
                 shards : 0 .. edits]
    /\ edits \in 0 .. MaxEdits

\* Of what two sets of records say of the same variants, neither contradicts
\* the other.
SameOnCommonIds(before, after) == \A b \in before, a \in after : b.id = a.id => b = a

\* What every variant holds, but for those at the excepted places.
OwnContents(except) ==
    LET vs == foldedVariants
    IN  {[id |-> vs[i].id, own |-> Content(vs[i])] : i \in DOMAIN vs \ except}

\* "changing them only affects the variant you're editing"
\* (variant-mode-dialog.tsx): while variants are independent, a step that makes,
\* drops, renames or shows a variant changes no loadout, Helminth ability, forma
\* or shards of another, nor its own: the edits on the screen always come along.
\* A share link has the one Helminth ability (ShareLinksShowTheVariants).
IndependentVariantsKeepTheirOwn ==
    [][mode = "independent" /\ mode' = "independent"
         => \/ SameOnCommonIds(OwnContents(IF edits' = edits THEN {} ELSE {active}),
                               OwnContents({})')
            \/ openShareLink \/ oldClientSaves]_vars

\* Linked mode has one shard set, and one forma set per form.
Agree(vs) ==
    \A v, w \in vs : v.shards = w.shards /\ (SameForm(v, w) => v.forma = w.forma)

\* The forma and shards of every variant.
SharedSets(vs) == {[id |-> v.id, forma |-> v.forma, shards |-> v.shards] : v \in vs}

\* "In linked mode the editor keeps the copies in sync (per twin-frame form)"
\* (build-data.ts): once the variants of every form agree they stay so, and no
\* variant's forma or shards change unless the user edits them.
LinkedVariantsShareOneSet ==
    [][mode = "linked" /\ mode' = "linked" =>
         LET now  == Range(captureVariants)
             next == Range(captureVariants)'
         IN  Agree(now) => /\ Agree(next)
                           /\ edits' = edits =>
                                 SameOnCommonIds(SharedSets(now), SharedSets(next))]_vars

\* "restores the draft, every variant included, when reopened"
\* (use-editor-store.test.tsx): opening what is saved gives back every variant
\* and the mode; only a guide that is the last variant's own is left out.
ReopeningKeepsVariants ==
    LET saved  == captureBuildData
        loaded == getVariants(saved)
        now    == captureVariants
        only   == Len(variants) = 1 /\ isSyntheticVariant(variants[1])
    IN  /\ resolveVariantMode(saved) = mode
        /\ IF only THEN Content(loaded[1]) = Content(now[1])
                   ELSE loaded = now

\* "a share link decodes to what selectVariant shows for the saved build", but for
\* the Helminth ability, which "stays build-wide" (build-codec-adapter.ts): every
\* variant of the link has the one on the screen, whatever it was saved with.  A
\* link of variants that agree decodes as linked.
ShareLinksShowTheVariants ==
    LET doc    == savedDataFromBuildDoc(buildDocFromVariants(live, captureVariants))
        loaded == getVariants(doc)
        saved  == getVariants(captureBuildData)
    IN  /\ Len(loaded) = Len(saved)
        /\ \A i \in DOMAIN saved : /\ Content(loaded[i]) = [Content(saved[i]) EXCEPT
                                                             !.helminth = live.helminth]
                                  /\ SameForm(loaded[i], saved[i])
        /\ resolveVariantMode(doc) = "linked" <=> Agree(Range(captureVariants))

\* "Such a build was linked, so re-link it from the top-level mirror": a linked
\* build that an old client saved again opens linked, with the old client's sets.
OldClientsKeepTheLink ==
    LET saved == captureBuildData
    IN  mode = "linked" /\ Agree(Range(captureVariants)) =>
        \A a \in DOMAIN variants,
           client \in {live, [live EXCEPT !.forma = edits + 1, !.shards = edits + 1]} :
            LET data   == OldClient(saved, a, client.forma, client.shards)
                loaded == getVariants(data)
            IN  /\ resolveVariantMode(data) = "linked"
                /\ loaded[a].forma = client.forma
                /\ loaded[a].shards = client.shards

\* "Keep a variant scope on the same variant when the array is about to become
\* next" (use-guide-state.ts).
GuideScopeFollowsItsVariant ==
    [][scope # None /\ scope' # None /\ ~onScopeChange
         => \/ variants'[scope'].id = variants[scope].id
            \/ /\ \A j \in DOMAIN variants' : variants'[j].id # variants[scope].id
               /\ scope' = 1]_vars

\* "Each variant keeps the forma and Archon Shards it has now"
\* (variant-mode-dialog.tsx), of the switch to independent variants.
UnlinkingKeepsTheSets ==
    [][applyVariantMode("independent") => captureVariants' = captureVariants]_vars
=============================================================================
