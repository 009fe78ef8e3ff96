---------------------------- MODULE EditorHistory ----------------------------
(***************************************************************************)
(* Undo and redo in the build editor: useEditorHistory (three refs and a   *)
(* flag) driven by the recording effect of useEditorUndo, and the switch   *)
(* from one variant of the build to another.                               *)
(*                                                                         *)
(* React runs the effects of a click or a key before the next event, so a  *)
(* change of the loadout and the recording effect it triggers are one      *)
(* step; the debounce timer is a step of its own.  A loadout is an         *)
(* immutable reference: n is fresh at each edit, and undo brings back the  *)
(* old one.                                                                *)
(***************************************************************************)
EXTENDS Naturals, Sequences, SequencesExt

CONSTANTS
    Variants,
    MAX_HISTORY,
    MaxEdits,   \* bound on edits
    None        \* no timer

ASSUME HistoryAssumption ==
    /\ MAX_HISTORY \in Nat \ {0}
    /\ MaxEdits \in Nat
    /\ Variants # {}
    /\ None \notin [v : Variants, n : Nat]

EditorHistorySnapshot == [v : Variants, n : Nat]

VARIABLES
    live,       \* the active variant's loadout and extras, on the screen
    variants,   \* the variants array: the loadout each was left with
    edits,      \* the last fresh reference
    past, future, baseline, applying,   \* the refs of useEditorHistory
    handle      \* the debounced commit: the snapshot it will record, or None

historyVars == <<past, future, baseline, applying, handle>>
loadoutVars == <<live, variants, edits>>

HistoryInit ==
    /\ live \in [v : Variants, n : {0}]
    /\ variants = [v \in Variants |-> 0]
    /\ edits = 0
    /\ past = <<>>
    /\ future = <<>>
    /\ baseline = live
    /\ applying = FALSE
    /\ handle = None

\* Mutant: a restored snapshot is recorded as an edit of its own.
recordingEffect_all(s, flag) ==
    /\ handle' = s
    /\ applying' = flag

\* The effect after the loadout became s: an undo or redo is consumed,
\* anything else restarts the debounce.  Either way the cleanup of the last
\* run has cleared its timer.
recordingEffect(s, flag) ==
    /\ handle' = IF flag THEN None ELSE s
    /\ applying' = FALSE

fresh(v) == [v |-> v, n |-> edits + 1]

\* Any change of slots, forma, arcanes or extras.
edit ==
    /\ edits < MaxEdits
    /\ edits' = edits + 1
    /\ live' = fresh(live.v)
    /\ recordingEffect(live', applying)
    /\ baseline' = IF applying THEN live' ELSE baseline
    /\ UNCHANGED <<variants, past, future>>

\* The timer fires.
commit ==
    /\ handle # None
    /\ handle' = None
    /\ IF handle = baseline
       THEN UNCHANGED <<past, future, baseline>>
       ELSE LET pushed == Append(past, baseline)
            IN  /\ past' = IF Len(pushed) > MAX_HISTORY THEN Tail(pushed)
                                                        ELSE pushed
                /\ future' = <<>>
                /\ baseline' = handle
    /\ UNCHANGED <<loadoutVars, applying>>

\* apply(s): the setters and, unless the screen already showed s, the effect,
\* which calls consumeApply.
apply(s) ==
    /\ baseline' = s
    /\ live' = s
    /\ IF s = live THEN applying' = TRUE /\ UNCHANGED handle
                   ELSE recordingEffect(s, TRUE)
    /\ UNCHANGED <<variants, edits>>

undo ==
    /\ past # <<>>
    /\ past' = Front(past)
    /\ future' = Append(future, baseline)
    /\ apply(Last(past))

redo ==
    /\ future # <<>>
    /\ future' = Front(future)
    /\ past' = Append(past, baseline)
    /\ apply(Last(future))

\* Mutant: the stacks survive a switch.
reset_keep(s) ==
    /\ baseline' = s
    /\ applying' = FALSE
    /\ UNCHANGED <<past, future>>

reset(s) ==
    /\ past' = <<>>
    /\ future' = <<>>
    /\ baseline' = s
    /\ applying' = FALSE

foldedVariants == [variants EXCEPT ![live.v] = live.n]

\* switchVariant: the live loadout is folded back into the array, the target's
\* takes the screen and history restarts.  The effect sees a change.
activate(v) ==
    /\ v # live.v
    /\ variants' = foldedVariants
    /\ live' = [v |-> v, n |-> variants[v]]
    /\ reset(live')
    /\ handle' = live'
    /\ UNCHANGED edits

ChangeLoadout == edit \/ undo \/ redo \/ \E v \in Variants : activate(v)

HistoryNext == ChangeLoadout \/ commit

HistorySpec == HistoryInit /\ [][HistoryNext]_<<loadoutVars, historyVars>>

-----------------------------------------------------------------------------
(* Properties                                                               *)

Recorded == {past[i] : i \in DOMAIN past} \cup {future[i] : i \in DOMAIN future}
                \cup {baseline}

HistoryTypeOK ==
    /\ live \in EditorHistorySnapshot
    /\ variants \in [Variants -> Nat]
    /\ edits \in Nat
    /\ past \in Seq(EditorHistorySnapshot)
    /\ future \in Seq(EditorHistorySnapshot)
    /\ baseline \in EditorHistorySnapshot
    /\ applying \in BOOLEAN
    /\ handle \in EditorHistorySnapshot \cup {None}

\* "Every commit/undo/redo keeps this in lock-step with what's on screen"
\* (use-editor-history.ts): with no commit pending the baseline is the screen,
\* and a pending commit will record the screen; every restore was consumed;
\* "history covers one variant"; and the two stacks together never hold more
\* than MAX_HISTORY snapshots, though redo pushes without looking.
HistoryInLockStep ==
    /\ handle \in {None, live}
    /\ handle = None => baseline = live
    /\ ~applying
    /\ \A s \in Recorded : s.v = live.v
    /\ Len(past) + Len(future) <= MAX_HISTORY

Reversed(s) == [i \in 1 .. Len(s) |-> s[Len(s) + 1 - i]]

Timeline == INSTANCE UndoTimeline WITH
    Snapshots <- EditorHistorySnapshot,
    Depth     <- MAX_HISTORY,
    line      <- past \o <<baseline>> \o Reversed(future),
    at        <- Len(past) + 1,
    shown     <- live

\* Undo and redo move along the line of recorded loadouts and show exactly
\* what was recorded there; no restore is recorded again, and a variant switch
\* starts a new line.
ImplementsUndoTimeline == Timeline!Spec
=============================================================================
