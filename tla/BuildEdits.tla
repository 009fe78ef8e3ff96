------------------------------- MODULE BuildEdits -------------------------------
(***************************************************************************)
(* PATCH /builds/:slug and what follows from it: the organization a build  *)
(* is published under, hideAuthor, and the edit log (_build-revisions.ts), *)
(* next to the partner routes and against deletions of organizations and   *)
(* changes of membership.  A PATCH decides from the row it read first.     *)
(***************************************************************************)
EXTENDS PartnerStrip

CONSTANTS
    Workloads,              \* bound: sets of what happens in one behaviour: the
                            \* routes that arrive, prunes, clock ticks
    Patched,                \* bound: the builds that are PATCHed
    Bodies,                 \* bound: what a PATCH may change: [org, hide, edit]
    MAX_STORED_REVISIONS,
    REVISION_READ_LIMIT,
    REVISION_FOLD,          \* REVISION_FOLD_MS, in ticks
    MaxClock,               \* bound on ticks
    Same                    \* a field that the PATCH does not change

ASSUME EditsAssumption ==
    /\ MAX_STORED_REVISIONS \in Nat \ {0} /\ REVISION_READ_LIMIT \in Nat \ {0}
    /\ REVISION_FOLD \in Nat
    /\ MaxClock \in Nat
    /\ Same \notin Orgs \cup {None} \cup BOOLEAN
    /\ Patched \subseteq Builds
    /\ Bodies \subseteq [org : Orgs \cup {None, Same}, hide : BOOLEAN \cup {Same},
                         edit : BOOLEAN]

VARIABLES
    routes,     \* the workload of this behaviour
    orgs,       \* organizations that exist
    hideAuthor,
    content,    \* name and buildData: the number of the save that wrote them
    log,        \* build_revisions: the set of a build's rows
    pruning,    \* builds with a prune in the background
    clock,      \* of the API, which stamps a revision before its save has the row
    saved,      \* history: a build's revisions, pruned ones too, as they committed
    flagFor,    \* history: the organization hideAuthor was decided for
    overtaken   \* history: builds whose flag was decided from a stale row

editVars == <<routes, orgs, hideAuthor, content, log, pruning, clock, saved, flagFor,
              overtaken>>
vars     == <<partnerVars, editVars>>

Created(b) ==
    [n |-> 1, kind |-> "CREATED", editor |-> AuthorOf[b], at |-> 0, from |-> 0, to |-> 0,
     read |-> 0]

Init ==
    /\ PartnerInit
    /\ routes \in Workloads
    /\ orgs = Orgs
    /\ hideAuthor = [b \in Builds |-> FALSE]
    /\ content = [b \in Builds |-> 0]
    /\ log = [b \in Builds |-> {Created(b)}]
    /\ pruning = {}
    /\ clock = 0
    /\ saved = [b \in Builds |-> <<Created(b)>>]
    /\ flagFor = [b \in Builds |-> None]
    /\ overtaken = {}

-----------------------------------------------------------------------------
(* PATCH /builds/:slug                                                      *)

\* Mutant: a move without a flag keeps the flag.
hideAuthorFor_kept(requested, move, organization) ==
    IF requested = Same THEN Same ELSE organization # None /\ requested = TRUE

\* hideAuthorFor, and when it is asked: the flag means something only under an
\* organization, and a move without a fresh one resets it.
hideAuthorFor(requested, move, organization) ==
    IF requested = Same /\ ~move THEN Same ELSE organization # None /\ requested = TRUE

\* Mutant: a co-member may move it too.
MoveIsAllowed_member(b, viewer, organization) ==
    organization # None => viewer \in member[organization]

\* Only the author may move a build, to no organization or one of theirs.
MoveIsAllowed(b, viewer, organization) ==
    /\ viewer = AuthorOf[b]
    /\ organization # None => viewer \in member[organization]

patchBuild(h, b, viewer, body) ==
    LET move   == body.org \notin {Same, org[b]}
        target == IF move THEN body.org ELSE org[b]
    IN  /\ b \in live /\ canMutateBuild(b, viewer)
        /\ move => MoveIsAllowed(b, viewer, body.org)
        /\ Start(h, Request("patch", b, b,
              [org |-> IF move THEN body.org ELSE Same,
               hide |-> hideAuthorFor(body.hide, move, target), edit |-> body.edit,
               editor |-> viewer],
              [org |-> org[b], content |-> content[b], save |-> Len(saved[b]), at |-> clock],
              "write"))

\* describeEdit: what the save changed, against the row it read.
Edited(h, b, to, at) ==
    [n |-> Len(saved[b]) + 1, kind |-> "EDITED", editor |-> req[h].arg.editor, at |-> at,
     from |-> req[h].seen.content, to |-> to, read |-> req[h].seen.save]

\* createdAt is now() of the request, some time after it read the build; waiting
\* for the row comes later.
writeRevision(h, b, to) ==
    \E at \in req[h].seen.at .. clock :
        /\ log' = [log EXCEPT ![b] = @ \cup {Edited(h, b, to, at)}]
        /\ saved' = [saved EXCEPT ![b] = Append(@, Edited(h, b, to, at))]

\* One statement: the columns and the revision.  A prune follows one save in
\* fifty.
writePatch(h) ==
    LET b     == req[h].own
        patch == req[h].arg
        move  == patch.org # Same
        to    == IF patch.edit THEN writes + 1
                 ELSE content[b]
    IN  /\ At(h, {"patch"}, "write")
        /\ locks[b] = None
        /\ IF b \notin live \/ patch.org \in Orgs \ orgs
           THEN UNCHANGED <<org, writes, hideAuthor, content, log, pruning, saved,
                            flagFor, overtaken>>
           ELSE /\ writes' = writes + 1
                /\ org' = IF move THEN [org EXCEPT ![b] = patch.org] ELSE org
                /\ content' = [content EXCEPT ![b] = to]
                /\ writeRevision(h, b, to)
                /\ \/ UNCHANGED pruning
                   \/ "prune" \in routes /\ pruning' = pruning \cup {b}
                /\ IF patch.hide = Same
                   THEN UNCHANGED <<hideAuthor, flagFor, overtaken>>
                   ELSE /\ hideAuthor' = [hideAuthor EXCEPT ![b] = patch.hide]
                        /\ flagFor' = [flagFor EXCEPT ![b] = IF move THEN patch.org
                                                                  ELSE req[h].seen.org]
                        /\ overtaken' = IF ~move /\ req[h].seen.org # org[b]
                                        THEN overtaken \cup {b} ELSE overtaken \ {b}
        /\ End(h)
        /\ UNCHANGED <<live, member, links, columnVars, routes, orgs, clock>>

\* Mutant: the oldest revisions are kept.
Newest_oldest(rows, limit) ==
    {S \in kSubset(Min({limit, Cardinality(rows)}), rows) :
        \A r \in rows \ S, s \in S : s.at <= r.at}

\* ORDER BY "createdAt" DESC LIMIT: rows of one time come in any order.
Newest(rows, limit) ==
    {S \in kSubset(Min({limit, Cardinality(rows)}), rows) :
        \A r \in rows \ S, s \in S : r.at <= s.at}

pruneRevisions(b) ==
    /\ b \in pruning
    /\ pruning' = pruning \ {b}
    /\ \E kept \in Newest(log[b], MAX_STORED_REVISIONS) : log' = [log EXCEPT ![b] = kept]
    /\ UNCHANGED <<partnerVars, routes, orgs, hideAuthor, content, clock, saved, flagFor,
                   overtaken>>

-----------------------------------------------------------------------------
(* What else changes an organization's builds                               *)

deleteOrganization(h, o) ==
    /\ o \in orgs
    /\ Start(h, Request("deleteOrg", None, None, o, None, "detach"))
    /\ UNCHANGED editVars

\* The transaction's updateMany takes the rows it finds ...
detachBuilds(h) ==
    LET found == {b \in live : org[b] = req[h].arg}
    IN  /\ At(h, {"deleteOrg"}, "detach")
        /\ \A b \in found : locks[b] = None
        /\ locks' = [b \in Builds |-> IF b \in found THEN h ELSE locks[b]]
        /\ Advance(h, "second")
        /\ UNCHANGED <<rowVars, links, columnVars, writes, editVars>>

flagsWithoutOrg(found) == [b \in Builds |-> b \notin found /\ hideAuthor[b]]

\* ... and the delete follows; a build published meanwhile is only detached
\* (ON DELETE SET NULL).
deleteOrgRow(h) ==
    LET o     == req[h].arg
        found == {b \in Builds : locks[b] = h}
        late  == {b \in live : org[b] = o} \ found
    IN  /\ At(h, {"deleteOrg"}, "second")
        /\ \A b \in late : locks[b] = None
        /\ IF o \notin orgs
           THEN UNCHANGED <<org, member, writes, orgs, hideAuthor, overtaken>>
           ELSE /\ writes' = writes + 1
                /\ orgs' = orgs \ {o}
                /\ member' = [member EXCEPT ![o] = {}]
                /\ org' = [b \in Builds |-> IF org[b] = o THEN None ELSE org[b]]
                /\ hideAuthor' = flagsWithoutOrg(found)
                /\ overtaken' = (overtaken \ found) \cup {b \in late : hideAuthor[b]}
        /\ End(h)
        /\ UNCHANGED <<live, links, columnVars, routes, content, log, pruning, clock,
                       saved, flagFor>>

\* DELETE /orgs/:slug/members/:id.
leaveOrg(u, o) ==
    /\ u \in member[o]
    /\ member' = [member EXCEPT ![o] = @ \ {u}]
    /\ UNCHANGED <<live, org, links, columnVars, locks, req, writes, editVars>>

tick ==
    /\ clock < MaxClock
    /\ clock' = clock + 1
    /\ UNCHANGED <<partnerVars, routes, orgs, hideAuthor, content, log, pruning, saved,
                   flagFor, overtaken>>

-----------------------------------------------------------------------------
(* GET /builds/:slug/revisions                                              *)

\* The newest rows in the order of the query, newest first.
readRevisions(b) ==
    UNION {{rows \in SetToSeqs(S) : \A i, j \in DOMAIN rows : i < j => rows[j].at <= rows[i].at} :
              S \in Newest(log[b], REVISION_READ_LIMIT)}

foldable(head, row) ==
    /\ head.kind = "EDITED" /\ row.kind = "EDITED"
    /\ head.editor = row.editor
    /\ head.at - row.at < REVISION_FOLD

\* A row joins the last group.
Grown(groups, row) ==
    [groups EXCEPT ![Len(groups)] = Append(Last(groups), row)]

\* Mutant: the window is measured from the save before.
foldRevisions_chain(rows) ==
    LET groups[n \in 0 .. Len(rows)] ==
          IF n = 0 THEN <<>>
          ELSE IF n > 1 /\ foldable(rows[n - 1], rows[n])
               THEN Grown(groups[n - 1], rows[n])
               ELSE Append(groups[n - 1], <<rows[n]>>)
    IN  groups[Len(rows)]

\* Newest first: runs of one editor's saves within the window of the newest.
foldRevisions(rows) ==
    LET groups[n \in 0 .. Len(rows)] ==
          IF n = 0 THEN <<>>
          ELSE IF n > 1 /\ foldable(Last(groups[n - 1])[1], rows[n])
               THEN Grown(groups[n - 1], rows[n])
               ELSE Append(groups[n - 1], <<rows[n]>>)
    IN  groups[Len(rows)]

-----------------------------------------------------------------------------
ArriveEdit(h) ==
    \/ /\ \E b \in Patched, viewer \in Users, body \in Bodies :
             /\ (IF body.edit THEN "edit" ELSE "publish") \in routes
             /\ patchBuild(h, b, viewer, body)
       /\ UNCHANGED editVars
    \/ "deleteOrg" \in routes /\ \E o \in Orgs : deleteOrganization(h, o)

RunEdit(h) == writePatch(h) \/ detachBuilds(h) \/ deleteOrgRow(h)

Next ==
    \/ PartnerNext(routes) /\ UNCHANGED editVars
    \/ \E h \in Handlers : ArriveEdit(h) \/ RunEdit(h)
    \/ \E b \in Builds : pruneRevisions(b)
    \/ "leave" \in routes /\ \E u \in Users, o \in Orgs : leaveOrg(u, o)
    \/ "tick" \in routes /\ tick

Spec == Init /\ [][Next]_vars

-----------------------------------------------------------------------------
(* Properties                                                               *)

\* "a flag chosen for the previous org (or none) can't bleed into the new
\* attribution" (PATCH), "hideAuthor goes with the org" (deleteOrganization): a
\* hidden author is hidden under the organization it was asked for, except where
\* the PATCH that asked, or the deletion, was overtaken; the next move mends it.
FlagsAreForTheirOrg ==
    \A b \in live \ overtaken : hideAuthor[b] => org[b] # None /\ flagFor[b] = org[b]

\* "Only the author may move a build between orgs": whatever a co-member's save
\* carries, and however late it lands, the build stays where its author put it.
OnlyTheAuthorMovesABuild ==
    [][\A b \in live : org'[b] # org[b] =>
          \/ org[b] \in orgs \ orgs'
          \/ \E h \in Handlers :
                /\ At(h, {"patch"}, "write")
                /\ req[h].own = b /\ req[h].arg.editor = AuthorOf[b]
                /\ req'[h] = None]_vars

\* The save i was there when the save j read the row.
Precedes(i, j) == i.n <= j.read

\* "a save can never land without its log entry": the log has the row of every
\* save, or MAX_STORED_REVISIONS of them and none older than one that is gone,
\* unless the two overlapped.  A save that had read another is not dated before it,
\* so that only saves that overlap, or of one instant, may be listed in reverse; and
\* one that had read the save before it says what it changed from.
LogTellsEverySave ==
    \A b \in live :
        LET saves == Range(saved[b])
        IN  /\ Last(saved[b]).to = content[b]
            /\ log[b] \subseteq saves
            /\ Cardinality(log[b]) >= Min({MAX_STORED_REVISIONS, Len(saved[b])})
            /\ \A gone \in saves \ log[b], kept \in log[b] :
                  gone.at <= kept.at \/ (gone.n < kept.n /\ ~Precedes(gone, kept))
            /\ \A i, j \in saves :
                  /\ Precedes(i, j) => i.at <= j.at
                  /\ Precedes(i, j) /\ j.n = i.n + 1 => j.from = i.to

\* "Fold a newest-first row list into display entries, collapsing runs of
\* same-editor saves": every row is in one entry, in order, but for older ones
\* than those of a full list; an entry of several is one editor's and no longer
\* than the window; no two neighbours could be one.
FoldsCoverEverySave ==
    \A b \in live : \A rows \in readRevisions(b) :
        LET entries == foldRevisions(rows)
        IN  /\ FlattenSeq(entries) = rows
            /\ \A row \in log[b] \ Range(rows) :
                  Len(rows) = REVISION_READ_LIMIT /\ row.at <= Last(rows).at
            /\ \A i \in DOMAIN entries : Len(entries[i]) > 1 =>
                  /\ \A r \in Range(entries[i]) :
                        r.kind = "EDITED" /\ r.editor = entries[i][1].editor
                  /\ entries[i][1].at - Last(entries[i]).at < REVISION_FOLD
            /\ \A i \in 1 .. Len(entries) - 1 :
                  ~foldable(entries[i][1], entries[i + 1][1])
=============================================================================
