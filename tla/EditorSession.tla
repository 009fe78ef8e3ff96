---------------------------- MODULE EditorSession ----------------------------
(***************************************************************************)
(* One browser tab editing one build: the history of the loadout           *)
(* (EditorHistory), the autosaved draft in localStorage (useDraftAutosave, *)
(* lib/drafts.ts), and saving (useBuildSave) with its publish dialog, its  *)
(* failure toast and Retry.                                                *)
(*                                                                         *)
(* An editor session is one mount of the editor; leaving and opening it    *)
(* again, a reset, a restored draft and a reload each start another one,   *)
(* while the requests of the old one go on (a reload ends them).  A save   *)
(* sends the document captured by the render its click saw, clears the     *)
(* draft when the answer is good and then navigates to the build's page,   *)
(* which takes as long as that page's loader.                              *)
(***************************************************************************)
EXTENDS EditorHistory, FiniteSets

CONSTANTS
    Own, Backup,    \* the draft slots storeKey and replacedDraftKey(storeKey)
    Others,         \* the draft slots of other builds
    Quota,          \* how many drafts localStorage holds
    MaxSaves,       \* bound on saves
    MaxSessions     \* bound on sessions

ASSUME SessionAssumption ==
    /\ Quota \in Nat \ {0}
    /\ MaxSaves \in Nat /\ MaxSessions \in Nat \ {0}
    /\ Own # Backup /\ Own \notin Others /\ Backup \notin Others
    /\ None \notin [Variants -> Nat]

VARIABLES
    isUpdate,   \* the editor of a saved build, or of a new one
    page,       \* "editor", "leaving" (mounted, navigating away) or "away"
    session,    \* which session this is
    opened,     \* what it was hydrated from
    armed,      \* the autosave timer
    drafts,     \* localStorage, oldest savedAt first
    offered,    \* the replaced draft in the toast, or None
    saveStatus, dialogOpen,
    requests,   \* saves under way: [id, session, doc, stored]
    retries,    \* Retry toasts: [id, session, doc]
    saves,      \* how many saves were sent
    server,     \* the documents stored, oldest first
    retried,    \* history: Retry clicks per session
    cleared     \* history: a save cleared the draft of what is on the screen

sessionVars == <<isUpdate, page, session, opened, armed, drafts, offered,
                 saveStatus, dialogOpen, requests, retries, saves, server, retried,
                 cleared>>
vars == <<loadoutVars, historyVars, sessionVars>>

Docs  == [Variants -> Nat]
Blank == [v \in Variants |-> 0]
Slots == {Own, Backup} \cup Others

\* Mutant: the live variant is left as it was last switched to.
captureBuildData_array == variants

\* captureBuildData: the variants with the live one folded in.
captureBuildData == foldedVariants

SessionInit ==
    /\ HistoryInit
    /\ isUpdate \in BOOLEAN
    /\ page = "editor"
    /\ session = 1
    /\ opened = Blank
    /\ armed = FALSE
    /\ drafts = <<>>
    /\ offered = None
    /\ saveStatus = "idle"
    /\ dialogOpen = FALSE
    /\ requests = {}
    /\ retries = {}
    /\ saves = 0
    /\ server = IF isUpdate THEN <<Blank>> ELSE <<>>
    /\ retried = [s \in 1 .. MaxSessions |-> 0]
    /\ cleared = FALSE

-----------------------------------------------------------------------------
(* Drafts, as operators on localStorage                                     *)

\* Where the draft of a slot is: nowhere, or in one place.
Places(ds, k) == {i \in DOMAIN ds : ds[i].key = k}

clearEditorDraft(ds, k) ==
    IF Places(ds, k) = {} THEN ds ELSE RemoveAt(ds, CHOOSE i \in Places(ds, k) : TRUE)

loadEditorDraft(ds, k) ==
    IF Places(ds, k) = {} THEN None ELSE ds[CHOOSE i \in Places(ds, k) : TRUE].doc

\* Mutant: no draft is evicted.
saveEditorDraft_noEviction(ds, k, doc) ==
    Append(clearEditorDraft(ds, k), [key |-> k, doc |-> doc])

\* When localStorage is full, other drafts go oldest first until this one fits.
saveEditorDraft(ds, k, doc) ==
    LET others == clearEditorDraft(ds, k)
        room   == IF Len(others) < Quota THEN others ELSE Tail(others)
    IN  Append(room, [key |-> k, doc |-> doc])

\* Mutant: the newest replaced draft takes the backup's place.
Adopted_overwrite(ds, doc) ==
    LET replaced == loadEditorDraft(ds, Own)
        own      == saveEditorDraft(ds, Own, doc)
    IN  IF replaced # None THEN saveEditorDraft(own, Backup, replaced) ELSE own

\* A shared document becomes the draft; the draft it replaced is backed up
\* unless a backup is there already.
Adopted(ds, doc) ==
    LET replaced == loadEditorDraft(ds, Own)
        own      == saveEditorDraft(ds, Own, doc)
    IN  IF replaced # None /\ loadEditorDraft(own, Backup) = None
        THEN saveEditorDraft(own, Backup, replaced)
        ELSE own

-----------------------------------------------------------------------------
(* Sessions                                                                 *)

\* The saved build, or a blank one.
Saved == IF isUpdate THEN Last(server) ELSE Blank

\* resolveSavedDataAll without an import or a share.
resolveSavedDataAll(ds) ==
    IF loadEditorDraft(ds, Own) # None THEN loadEditorDraft(ds, Own) ELSE Saved

\* The editor's state around doc: no history and no timers.
Fresh(doc) ==
    /\ variants' = doc
    /\ opened' = doc
    /\ past' = <<>>
    /\ future' = <<>>
    /\ baseline' = live'
    /\ applying' = FALSE
    /\ handle' = None
    /\ armed' = FALSE
    /\ cleared' = FALSE
    /\ saveStatus' = "idle"
    /\ dialogOpen' = FALSE

\* A session starts on doc over the drafts ds.
Mount(doc, ds) ==
    /\ session < MaxSessions
    /\ session' = session + 1
    /\ page' = "editor"
    /\ \E v \in Variants : live' = [v |-> v, n |-> doc[v]]
    /\ Fresh(doc)
    /\ drafts' = ds

\* Nothing of the editor is left.
Unmount ==
    /\ page' = "away"
    /\ live' = [v |-> live.v, n |-> 0]
    /\ Fresh(Blank)

mounted == page # "away"

\* The mount effect's toast; without a backup an earlier toast stays.
offers(ds) ==
    IF loadEditorDraft(ds, Backup) # None THEN loadEditorDraft(ds, Backup) ELSE offered

\* What a session leaves behind: its saves, their toasts and the server.
outside == <<isUpdate, requests, retries, saves, server, retried>>

leave ==
    /\ mounted
    /\ Unmount
    /\ UNCHANGED <<edits, session, drafts, offered, outside>>

open ==
    /\ page = "away"
    /\ Mount(resolveSavedDataAll(drafts), drafts)
    /\ offered' = offers(drafts)
    /\ UNCHANGED <<edits, outside>>

\* A share link or an import: a document nobody here has seen.
adopt ==
    /\ page = "away"
    /\ ~isUpdate
    /\ edits < MaxEdits
    /\ edits' = edits + 1
    /\ LET doc == [v \in Variants |-> edits']
       IN  Mount(doc, Adopted(drafts, doc))
    /\ offered' = offers(drafts')
    /\ UNCHANGED outside

\* The browser tab: its requests, timers and toasts are gone.
reload ==
    /\ mounted
    /\ Mount(resolveSavedDataAll(drafts), drafts)
    /\ offered' = loadEditorDraft(drafts, Backup)
    /\ requests' = {}
    /\ retries' = {}
    /\ UNCHANGED <<edits, isUpdate, saves, server, retried>>

\* Reset to saved, or Discard.
resetToSaved ==
    /\ mounted
    /\ loadEditorDraft(drafts, Own) # None
    /\ LET ds == clearEditorDraft(drafts, Own) IN Mount(resolveSavedDataAll(ds), ds)
    /\ offered' = offers(drafts')
    /\ UNCHANGED <<edits, outside>>

\* "Restore it" in the toast.
restoreReplaced ==
    /\ offered # None
    /\ offered' = None
    /\ LET ds == clearEditorDraft(saveEditorDraft(drafts, Own, offered), Backup)
       IN  IF mounted
           THEN Mount(resolveSavedDataAll(ds), ds) /\ UNCHANGED edits
           ELSE /\ drafts' = ds
                /\ UNCHANGED <<loadoutVars, historyVars, page, session, opened, armed,
                               saveStatus, dialogOpen, cleared>>
    /\ UNCHANGED outside

\* "Discard" in the toast.
discardReplaced ==
    /\ offered # None
    /\ offered' = None
    /\ drafts' = clearEditorDraft(drafts, Backup)
    /\ UNCHANGED <<loadoutVars, historyVars, page, session, opened, armed, saveStatus,
                   dialogOpen, cleared, outside>>

\* The editor of another build autosaves.
otherDraft ==
    /\ page = "away"
    /\ \E k \in Others : drafts' = saveEditorDraft(drafts, k, Blank)
    /\ UNCHANGED <<loadoutVars, historyVars, page, session, opened, armed, offered,
                   saveStatus, dialogOpen, cleared, outside>>

-----------------------------------------------------------------------------
(* Editing                                                                  *)

screenVars == <<page, session, opened, offered, saveStatus, dialogOpen>>

\* The deps effect restarts the autosave.
changeLoadout ==
    /\ mounted
    /\ ChangeLoadout
    /\ armed' = TRUE
    /\ UNCHANGED <<screenVars, drafts, cleared, outside>>

recordHistory ==
    /\ commit
    /\ UNCHANGED <<screenVars, drafts, armed, cleared, outside>>

autosave ==
    /\ armed
    /\ armed' = FALSE
    /\ drafts' = saveEditorDraft(drafts, Own, captureBuildData)
    /\ cleared' = FALSE
    /\ UNCHANGED <<loadoutVars, historyVars, screenVars, outside>>

-----------------------------------------------------------------------------
(* Saving                                                                   *)

\* The session s sends doc.
performSave(s, doc) ==
    /\ saves < MaxSaves
    /\ saves' = saves + 1
    /\ requests' = requests \cup
           {[id |-> saves', session |-> s, doc |-> doc, stored |-> FALSE]}
    /\ saveStatus' = IF mounted /\ s = session THEN "saving" ELSE saveStatus

\* Mutant: no guard against a save under way.
handleSaveClick_unguarded ==
    /\ mounted
    /\ IF isUpdate
       THEN performSave(session, captureBuildData) /\ UNCHANGED dialogOpen
       ELSE /\ dialogOpen' = TRUE
            /\ UNCHANGED <<saves, requests, saveStatus>>
    /\ UNCHANGED <<loadoutVars, historyVars, isUpdate, page, session, opened, offered,
                   armed, drafts, retries, server, retried, cleared>>

\* The button or Ctrl+S: a new build asks for its visibility first.
handleSaveClick ==
    /\ mounted
    /\ saveStatus # "saving"
    /\ IF isUpdate
       THEN performSave(session, captureBuildData) /\ UNCHANGED dialogOpen
       ELSE /\ dialogOpen' = TRUE
            /\ UNCHANGED <<saves, requests, saveStatus>>
    /\ UNCHANGED <<loadoutVars, historyVars, isUpdate, page, session, opened, offered,
                   armed, drafts, retries, server, retried, cleared>>

onConfirm ==
    /\ dialogOpen
    /\ dialogOpen' = FALSE
    /\ performSave(session, captureBuildData)
    /\ UNCHANGED <<loadoutVars, historyVars, isUpdate, page, session, opened, offered,
                   armed, drafts, retries, server, retried, cleared>>

\* The Retry of a failure toast runs the performSave of the render that failed.
retry ==
    /\ \E t \in retries :
           /\ performSave(t.session, t.doc)
           /\ retries' = retries \ {t}
           /\ retried' = [retried EXCEPT ![t.session] = @ + 1]
    /\ UNCHANGED <<loadoutVars, historyVars, isUpdate, page, session, opened, offered,
                   dialogOpen, armed, drafts, server, cleared>>

\* The server stores the document: over the build, or as another new one.
store ==
    /\ \E r \in requests :
           /\ ~r.stored
           /\ server' = Append(server, r.doc)
           /\ requests' = (requests \ {r}) \cup {[r EXCEPT !.stored = TRUE]}
    /\ UNCHANGED <<loadoutVars, historyVars, screenVars, armed, drafts, isUpdate, retries,
                   saves, retried, cleared>>

\* The save failed, or its answer was lost.
saveFails ==
    /\ \E r \in requests :
           /\ requests' = requests \ {r}
           /\ retries' = retries \cup {[id |-> r.id, session |-> r.session, doc |-> r.doc]}
           /\ saveStatus' = IF r.session = session THEN "idle" ELSE saveStatus
    /\ UNCHANGED <<loadoutVars, historyVars, isUpdate, page, session, opened, offered,
                   dialogOpen, armed, drafts, saves, server, retried, cleared>>

\* A good answer: the draft is cleared and the build's page loads.
saveSucceeds ==
    /\ \E r \in requests :
           /\ r.stored
           /\ requests' = requests \ {r}
    /\ drafts' = clearEditorDraft(drafts, Own)
    /\ cleared' = TRUE
    /\ page' = IF mounted THEN "leaving" ELSE page
    /\ UNCHANGED <<loadoutVars, historyVars, isUpdate, session, opened, offered, saveStatus,
                   dialogOpen, armed, retries, saves, server, retried>>

navigated ==
    /\ page = "leaving"
    /\ Unmount
    /\ UNCHANGED <<edits, session, drafts, offered, outside>>

SessionNext ==
    \/ leave \/ open \/ adopt \/ reload \/ resetToSaved
    \/ restoreReplaced \/ discardReplaced \/ otherDraft
    \/ changeLoadout \/ recordHistory \/ autosave
    \/ handleSaveClick \/ onConfirm \/ retry
    \/ store \/ saveFails \/ saveSucceeds \/ navigated

SessionSpec == SessionInit /\ [][SessionNext]_vars

-----------------------------------------------------------------------------
(* Properties                                                               *)

\* Every variable has its type, no slot holds two drafts, and localStorage
\* never holds more than it can.
SessionTypeOK ==
    /\ HistoryTypeOK
    /\ isUpdate \in BOOLEAN
    /\ page \in {"editor", "leaving", "away"}
    /\ session \in 1 .. MaxSessions
    /\ opened \in Docs
    /\ armed \in BOOLEAN /\ cleared \in BOOLEAN /\ dialogOpen \in BOOLEAN
    /\ \A i \in DOMAIN drafts : drafts[i].key \in Slots /\ drafts[i].doc \in Docs
    /\ \A i, j \in DOMAIN drafts : drafts[i].key = drafts[j].key => i = j
    /\ Len(drafts) <= Quota
    /\ offered \in Docs \cup {None}
    /\ saveStatus \in {"idle", "saving"}
    /\ \A r \in requests : r.session \in 1 .. session /\ r.doc \in Docs
    /\ \A t \in retries : t.session \in 1 .. session /\ t.doc \in Docs
    /\ server \in Seq(Docs)
    /\ retried \in [1 .. MaxSessions -> Nat]

\* "so a refresh doesn't wipe unsaved work" (use-draft-autosave.ts): once the
\* autosave has run, opening the editor again shows what is on the screen now,
\* unless a save has cleared the draft since.
RefreshKeepsEdits ==
    mounted /\ ~armed /\ ~cleared /\ foldedVariants # opened
        => resolveSavedDataAll(drafts) = foldedVariants

\* "a missed toast doesn't lose it: every later mount of this item offers it
\* again until it's restored or discarded. An existing backup is never
\* overwritten" (use-draft-autosave.ts): a backup goes only by the toast that
\* offers it or, oldest first, when localStorage is full.
BackupWaitsForTheUser ==
    [][LET backup == loadEditorDraft(drafts, Backup)
       IN  backup # None /\ loadEditorDraft(drafts', Backup) # backup
             => /\ loadEditorDraft(drafts', Backup) = None
                /\ \/ offered # None /\ offered' = None
                   \/ Len(drafts) = Quota /\ drafts[1].key = Backup]_vars

\* The guard of handleSaveClick: "a double-press could fire two concurrent
\* saves (duplicate POST, double navigate/toast)".  Without Retry a session
\* has one save under way, and each Retry adds one at most.
OverlapsNeedRetries ==
    \A s \in 1 .. session :
        Cardinality({r \in requests : r.session = s}) <= 1 + retried[s]
=============================================================================
