# Arsenyx, in TLA+

Arsenyx is a build planner: a React editor (`apps/web`), a Hono API on
Cloudflare Workers (`apps/api`) over Postgres, Workers KV and the colo-local
edge cache, and pure packages shared by both (`packages/shared`). This
directory holds TLA+ models of the parts whose correctness depends on the order
in which things happen, the TLC configurations that check them and the theorems
that TLAPS proves about them.

Contents: [inventory](#inventory) · [modules](#modules) · [runs](#runs) ·
[proofs](#proofs) · [divergences](#divergences-from-the-documentation) ·
[not modelled](#what-is-not-modelled) · [plan](#plan)

Run from this directory: `tlc -config orgs.cfg Orgs`, `tlapm OrgsProofs.tla`.

## Inventory

Paths are below `apps/api/src` for the API and `apps/web/src` for the web.

### API

| component | state | operations | module |
|---|---|---|---|
| snapshots, `routes/_build-snapshot.ts` | KV: slug to anonymous page, 24 h TTL | read-through on a miss; refresh now and 5 s later; delete | `BuildSnapshot` |
| edge cache, `lib/edge-cache.ts` | `caches.default` of each colo | match, put after the response, colo-local delete | `EdgeCache` |
| builds, `routes/builds.ts` | `builds`, `build_guides`, partner join rows | create, fork, patch, delete, link, unlink, order, variant, view count | `BuildSnapshot`, `PartnerStrip`, `BuildEdits` |
| partner strip, `_build-partners.ts` | `partnerOrder`, `partnerVariants` (JSON) | coerce, order | `PartnerStrip` |
| revisions, `_build-revisions.ts` | `build_revisions` | describe an edit, prune to 200, fold by editor and 30 min | `BuildEdits` |
| social, `_build-social.ts` | `build_likes`, `build_bookmarks`, three counters | set, flip, clear, add, remove: one statement each | `Social` |
| access, `_build-visibility.ts` | none | who may see, act on, mutate; list scopes | in each |
| organizations, `orgs.ts` | `organizations`, `organization_members` | create (capped), patch, delete, add, promote, demote, remove, leave | `Orgs`, `BuildEdits` |
| account deletion, `lib/user-deletion.ts` + `auth.ts` | `users` and everything that cascades | hook transaction, then the delete | `Orgs`, `Social`, `BuildSnapshot` |
| admin, `admin.ts` | flags, visibility, `verified` | patch and delete of users, builds, organizations | partly in these |
| sessions, `auth.ts`, `lib/session.ts` | session rows, 60 s cookie cache | fresh and cached reads | none |
| rate limits, `middleware/rate-limit.ts` | one counter per user, bucket, minute | upsert, prune | none |
| database scope, `db.ts` | per-request pool, pending background work | register, settle, close | `BuildSnapshot` (background work) |
| lists, search, directories | none | read-only SQL | none |
| imports, images, `safe-fetch`, `validate` | none | fetch and parse foreign content | none |

### Web

| component | state | operations | module |
|---|---|---|---|
| undo, `use-editor-history.ts`, `use-editor-undo.ts` | past, future, baseline, `applying`, debounce timer | commit, undo, redo, reset | `EditorHistory` |
| drafts, `use-draft-autosave.ts`, `lib/drafts.ts` | localStorage per session key, a backup slot | autosave, restore, adopt, evict on quota | `EditorSession` |
| saving, `use-build-save.tsx` | `saveStatus` | save, confirm, retry | `EditorSession` |
| variants and guides, `use-editor-store.ts`, `use-variant-actions.ts`, `use-guide-state.ts` | variants, active index, live set, mode, guide scope | switch, add, rename, move, delete, link, unlink | `EditorVariants` |
| build document, `build-codec-adapter.ts`, `build-doc.ts` | none | capture, open, encode, decode, re-link | `EditorVariants` |
| slots, `use-build-slots.ts`, `drag-controller.tsx`, `use-riven-dialog.tsx` | placed mods, polarities, cursor, drag, dialog | place, swap, remove, rank, forma, Alternates, Rivens | `SlotRules`, `BuildSlots` |
| auto-forma, `use-auto-forma-planner.ts`, `lib/build/auto-forma` | pending plan | search, preview, apply | `AutoForma`, `BuildSlots` |
| optimistic queries, `lib/queries/build-query.ts` | query cache | toggle, roll back | none |
| statistics, diff, interface, web Worker, data scripts | none | rendering and pure functions over game data | none |

### What is hard, and what correct means

* **Snapshots.** Three writers of one last-writer-wins key, each loading the
  page before it puts it. Correct: when the refreshes are over no old page is
  left, a hidden or deleted build least of all; every page a mutation changes
  is refreshed, the pages that embed the build's card included; a lost refresh
  costs no more than the TTL.
* **Edge.** A put that carries an answer from before a mutation, a purge that
  reaches one colo, KV that lags behind. Correct: every colo ends with the
  current page or none; a miss after the refreshes gets the current page.
* **Organizations.** Check-then-write under a row lock that account deletion
  does not take. Correct: an ADMIN in every organization that lost no account;
  nobody founds more than the cap; no request waits for ever.
* **Social.** A denormalized counter beside its rows, floored at zero.
  Correct: never below its rows, equal to them while no account is deleted.
* **Partners.** Two rows per link, and JSON columns that are read, changed and
  written whole. Correct: links are mutual; each build leads to the variants
  its owners chose unless a stale write came between; a strip shows no
  partner twice and follows the order its owner stored.
* **Edits.** A PATCH decides from the row it read. Correct: only the author
  moves a build; a hidden author is hidden under the organization it was asked
  for; the log accounts for every save, folded or pruned as it may be.
* **Undo, drafts, saving.** A debounce timer for undo and one for drafts, a
  save that awaits the network, edits meanwhile, sessions that end. Correct:
  undo and redo move along what was recorded; a reopened editor shows what the
  screen showed; a backup waits for the user.
* **Variants.** The active variant lives apart from the array and is folded
  back now and then; sets are shared or not; documents go through old clients.
  Correct: no step loses or exchanges a variant's sets.
* **Slots.** Five ways to put a mod into a slot, and a dialog or a drag that
  lasts while the keyboard goes on. Correct: every mod fits, once; a plan does
  what it showed.

`PROJECT.json` lists each hazard at its line, with the properties that cover it.

## Modules

| module | models |
|---|---|
| `BuildSnapshot` | KV snapshots, every mutation of a build, background refreshes, faults |
| `EventualCache` | what such a cache promises: stale only while unsettled |
| `EdgeCache` | extends `BuildSnapshot` with the edge caches in front of it |
| `Orgs` | organizations, members, locks, account deletion |
| `Social` | join rows and counters, account deletion |
| `PartnerStrip` | partner links, their two-row transactions, the order and variant columns |
| `BuildEdits` | extends `PartnerStrip` with PATCH, organizations, `hideAuthor` and the revision log |
| `UndoTimeline` | what undo and redo promise: a line of recorded snapshots and a place on it |
| `EditorHistory` | the undo stacks, the debounced recording effect, variant switches |
| `EditorSession` | extends `EditorHistory` with mounts, drafts, saves and their retries |
| `EditorVariants` | variants, modes, guides, and the documents they become |
| `SlotRules` | which mod fits which slot, drain, capacity, Forma count |
| `AutoForma` | extends `SlotRules` with the planner's searches |
| `BuildSlots` | extends `AutoForma` with clicks, drags, dialogs, undo and the planner's buttons |
| `MC*` | instances for TLC; `Orgs` and `EditorVariants` need none |
| `*Proofs` | theorems |

Some definitions have a neighbour whose comment begins with *Mutant*: the same
definition with a plausible bug. They are used by no specification; they
document which bug each property finds.

### BuildSnapshot

`rows` and `links` are Postgres, `kv` is the namespace. A build is reduced to
its visibility, a version of what its page and its card show (`ver`), and a
version of what only its own page shows (`lay`). `Page` is the page
`loadAnonSnapshot` makes of them, with the cards of the visible partners.

A read-through (`reader`) and each refresh (`phase`) are a load step and a put
step with anything in between. A mutation is one committed statement which
leaves its handler *owing* a refresh of some slugs; `invalidateBuilds` is a
later step, so the invocation may die before it (`LoseInvocation`).
`refreshWithRaceCover` is load, put, wait, load, put. Its comment says that
whatever was loaded before is put well inside the wait: `racing` holds the
writers that were in flight when the wait began, and `RefreshWake` waits for
them. This is the model's only timing assumption, and the one the code makes.
The model is more liberal than the code in that the read of a key and its miss
are not steps: a read-through may begin at any time.

Deleting is two steps, as in the code: `snapshotSlugs`, then the delete and
what follows. `lapsed` is a history variable: builds whose page was left to
`SNAPSHOT_TTL`, because a refresh of theirs was lost or a delete did not know
of them, and which no later write owes a refresh. It guards no action. What
other requests do between the two steps is not excused as a whole:
`EveryChangedPageIsRefreshed` excepts the pages a delete did not know of when
it read its slugs, and demands that it knew then of every page it would change;
`OnlyLostOrLateDeletesLinger` lets a deleted build keep its snapshot only if a
fault took its refresh, or if it went unknown to the delete with all builds of
its author. A build deleted on its own, by however many racing requests, is
gone from KV. `deleteUser` stands for both the admin route and
the `/auth/delete-user` middleware.

### EdgeCache

A request is a miss at a key (colo, slug, variant), an answer, and a background
put. It is answered from KV, from Postgres (this is the `ReadThrough` of
`BuildSnapshot`), or not at all. `InvalidateAndPurge` is `invalidateBuilds`
with its `purgeEdge`, which deletes in the colo of the mutating request.
Requests with a session bypass both caches and change nothing.

### Orgs

A request reads the viewer's role, and then runs its transaction as one step
per statement: lock, check, write; the last statement is merged with the commit
that makes it visible. `orgLock` and `userLock` are the `FOR UPDATE` locks;
inserts with foreign keys and cascading deletes wait for them without holding
them. Account deletion is two steps for `/auth/delete-user` (hook transaction,
then the row) and one for the admin route, whose statements share a
transaction. The longest-standing member is abstracted to *some* member.
`bereaved` and `granted` are history variables: organizations that lost a
member to an account's end, and users whom someone else made an ADMIN.

### Social

A request is checked (`Ask`) and its statement lands later (`setLike`, ...), by
when the build or the user may be gone and the foreign key rejects it. Each
statement writes rows and counters together, as the CTEs do. `joined` has a set
of users per kind; like and dislike exclude each other because they are one
row. Deletion is as in `Orgs`.

### PartnerStrip and BuildEdits

A request reads the builds, and the viewer's membership with them, in one step
and writes later; `seen` is what it read of the columns it will write back
whole. Linking and unlinking are the two updates of one transaction, which
holds the first row while it waits for the second; two of them in opposite
order wait in a circle, which Postgres breaks (`deadlockDetected`). The JSON
map `partnerVariants` is a function with 0 for *no entry*, so that an entry for
variant 0 and none are one, as they are to the strip. `chosen` and `raced` are
history variables: what the owners asked for, and the builds whose column was
written from a stale read of it.

A PATCH is reduced to a move between organizations, the flag `hideAuthor`, and
an edit of what the revision log compares; title, visibility and guide are the
business of `BuildSnapshot`. `content` is the number of the save that wrote the
row, so a revision's `from` and `to` are what `describeEdit` was given. A
prune is a background step that may follow any save (one in fifty does). A log
is a set of rows, and queries list it by `createdAt`, whose default `now()` is
taken before the statement has the build's row: a save is dated by any tick
between its read of the row and its commit, rows of one tick come in any order,
and `saved` keeps, as history, the order they committed in. One clock is assumed
to stamp them all. `Newest` is `ORDER BY createdAt DESC LIMIT`, of the
prune and of the list, whose first rows only are read (`readRevisions`).

A strip is made of the rows that `partnerSelect` takes: of the partners the
viewer may see, at most `PARTNERS_TAKEN` (50), any of them when there are more,
in any order. `Strips` is the set of what may be shown. `scopes` is the set of
what a viewer may see of a build's partners, for any choice of hidden ones: the
visibility of builds belongs to `BuildSnapshot`.

### EditorHistory and EditorSession

A loadout is an immutable reference, as in React: `n` is fresh at each edit.
React runs the effects of an event before the next one, so a change and the
recording effect it triggers are one step; the timers are steps of their own.
`apply` has the case in which the restored snapshot is the one on the screen,
so that no effect runs and `applying` would stay set; `HistoryInLockStep` shows
that it never happens.

`EditorSession` is one browser. A *session* is one mount of the editor; leaving
and opening it, a reset, a restored draft and a reload start another, while the
requests of the old one go on, except over a reload. localStorage is a sequence
of drafts, oldest first, that holds `Quota`. A request stores (or not) and then
is answered (or not), so a lost answer after a store is among the failures, and
Retry sends the document of the render that failed. `EditorSession` reuses the
actions of `EditorHistory` and arms the autosave with them.

### EditorVariants

The array `variants`, whose active entry is as it was last switched to, beside
`live`, the active variant on the screen. A loadout, a Helminth ability, a forma
set, a shard set and a guide are each the number of the edit that made them. The
editor and a saved build have a Helminth ability per variant, a share link one
for all (`buildDocFromVariants`). `captureBuildData`,
`getVariants`, `resolveVariantMode`, `buildDocFromVariants` and
`savedDataFromBuildDoc` are the documents; `OldClient` is what a client from
before per-variant forma makes of one. The shape of its save is taken from the
comments of `build-codec-adapter.ts` and its tests. The guide of the whole
build, which seeds a variant's empty one, stays empty.

### SlotRules, AutoForma and BuildSlots

`SlotRules` has the tables (`modSlotKind`, `canPlaceIn`, `candidateSlots`,
drain, capacity, Forma count) with mods and slots as constants. The Plexus
groups are slot kinds; the reactor and the bonus of a locked exalted stance
are in `BaseCapacity`, and with `LockedStance` a placed stance adds nothing. In `AutoForma` each search is the set of the plans it may find:
where the code takes the first of several of one cost, the model takes any.
`BuildSlots` makes a click one step, and a drag, the Riven dialog and the
preview of a plan two, between which the keyboard shortcuts go on. Undo is one
level deep and every edit is its own entry; the debounce belongs to
`EditorHistory`. Other variants are there as the planner sees them; switching
belongs to `EditorVariants`.

## Runs

| run | instance | checks |
|---|---|---|
| `snapshot_refines` | 2 handlers, 2 readers, 1 build, 3 writes, 1 fault, deletes | `TypeOK`, `SettledIsFresh`, `ImplementsEventualCache` |
| `snapshot_deletes` | 2 handlers, 2 builds of one author, 3 writes, deletes of builds and of the account | `OnlyLostOrLateDeletesLinger`, `EveryChangedPageIsRefreshed` |
| `snapshot_delete_race` | 2 handlers, 1 reader, 2 builds of one author whose account is deleted | `DeletedBuildsHaveNoSnapshot`: violated |
| `edge` | 2 colos, 1 build, 1 request, 2 writes, 1 fault | `EdgeTypeOK`, `SettledMissesAreCurrent`, `EdgeEventuallySettles`, `EventuallySettled` |
| `orgs` | 2 requests, 2 organizations, 2 users, cap 1, an account that is deleted | `OrgsHaveAnAdmin`, `OwnsAtMostMax`, `EveryRequestEnds` |
| `social` | 2 requests, 3 users, 1 build, 2 accounts deleted | `CountersCoverRows`, `OnlyLateRowsDrift` |
| `editor` | 2 variants, 2 edits, 1 undo level, 3 sessions, 2 saves, room for 2 of 3 drafts | `SessionTypeOK`, `HistoryInLockStep`, `RefreshKeepsEdits`, `OverlapsNeedRetries`, `BackupWaitsForTheUser`, `ImplementsUndoTimeline` |
| `variants` | 1 and 2 forms, 2 variants per form, 3 in all, 2 edits | `VariantsTypeOK`, `ReopeningKeepsVariants`, `ShareLinksShowTheVariants`, `OldClientsKeepTheLink`, `IndependentVariantsKeepTheirOwn`, `LinkedVariantsShareOneSet`, `GuideScopeFollowsItsVariant` |
| `variants_unlink` | the same | `UnlinkingKeepsTheSets`: violated |
| `edits` | 2 requests, 3 linked builds of 2 authors, 2 organizations, 3 writes, a log of 2, lists of 3, ticks, strips of 1 and 2 | `PartnerTypeOK`, `LinksAreMutual`, `OnlyStaleWritesLoseTargets`, `FlagsAreForTheirOrg`, `LogTellsEverySave`, `FoldsCoverEverySave`, `StripFollowsTheOrder`, `OnlyTheAuthorMovesABuild` |
| `slots` | a frame with 4 visible slots, 6 mods, two of them Rivens of unlike polarity, another variant of shared forma, 2 edits, 2 new formas | `SlotsTypeOK`, `ModsFitTheirSlots`, `NoModTwice`, `OnlySwapsMisplaceAlternates`, `PlansKeepTheirPromise` |
| `slots_hidden` | a companion weapon with 2 slots and no Exilus slot | `FilledSlotsAreVisible`: violated |

Bounds. `MaxWrites` bounds committed mutations, `MaxFaults` lost invocations
and failed background writes, `Deletable` and `Leavers` what may be deleted,
`Visibility` and `NewRoles` what authors and ADMINs choose, `Variants` (of
`EdgeCache`) the URLs of a build, `MaxEdits`, `MaxSaves` and `MaxSessions` what
a user does in the editor, `MaxForms` and `MaxVariants` the variants,
`MaxNewFormas` the formas of a plan, `MaxClock` the ticks, `Workloads` which
kinds of requests meet in one behaviour.

The snapshot races take two writers of one key and a mutation between a load
and a put; a third write with two readers on one build covers an old page that
passes two refreshes. In `snapshot_deletes` one request links, publishes or
makes a build between the two steps of another's delete; making one, publishing
it and its deletion are three writes. A build of `edits` has two partners: a
strip of one has to leave one out, a strip of two shows the order.
One variant is enough at the edge: a purge treats every variant of a slug
alike. The guards of `Orgs` need two requests on one organization, and a second
organization for the cap. In `edits` the routes that share a table meet in one
workload: links, variants; links, orders, deletes; moves, deletions of
organizations, members who leave; saves, prunes, ticks. Three writes are an
entry, a change and a stale change; a log of two with three saves is pruned,
and a window of two ticks is met and missed. In `editor` a third session finds
what the first left after the second; the undo line of one level overflows at
the second edit; two places for three drafts force an eviction; two saves
overlap. Three variants are two of one form beside one of another. In `slots`
two edits before and after a preview make it stale. The bounds of the code
itself are parameters: `MAX_HISTORY`, `MAX_VARIANTS`, `MAX_TOTAL_VARIANTS`,
`MAX_STORED_REVISIONS` and `MaxOrgs` (5) are small so that they are reached.
Symmetry is used only where no liveness is checked.

Deadlock checking is off throughout: a bounded number of writes or edits ends,
and a quiet system is a final state.

Fairness. `edge`: background work that `ctx.waitUntil` holds open settles (`WF`
of `InvalidateAndPurge`, `Refresh`, `PutReadThrough`, `EdgePut`), and edge
entries expire, since a colo-local purge has no other remedy; the KV TTL is
assumed of `lapsed` builds only, so that `EventuallySettled` shows that KV
settles without it wherever no fault or delete was in the way. `orgs`: a request
runs on, and a lock is granted to whoever waits for it (`SF`, Postgres queues
lock requests). There is no fairness for arrivals, deletions, faults or users.

What they show. The second refresh is what makes the snapshots correct: with
one pass TLC leaves an old page in KV. Without the row lock two ADMINs demote
each other; without the user row lock two creations pass the cap. Undo is a
line and a place on it, although a flag, a timer and three refs keep it:
recording what an undo restores breaks it. The guard against a double save
holds but for Retry, which goes around it. Every way to put a mod into a slot
keeps it where it fits, late dialogs and stale plans included.

## Proofs

For every value of the constants, so for any number of builds, users, requests,
mods, slots, edits, writes and faults:

| theorem | says |
|---|---|
| `TypeCorrect`, `InductiveInvariant`, `SettledSnapshotsAreFresh` | `Spec => []TypeOK`, `[]IInv`, `[]SettledIsFresh` |
| `ChangedPagesAreRefreshed`, `DeletedBuildsGoFromKv` | `Spec => EveryChangedPageIsRefreshed`, `[]OnlyLostOrLateDeletesLinger` |
| `RefinesEventualCache` | `Spec => ImplementsEventualCache` |
| `EdgeTypeCorrect`, `MissesAreCurrent` | `EdgeSpec => []EdgeTypeOK`, `SettledMissesAreCurrent` |
| `OrgsTypeCorrect`, `OrganizationsKeepAnAdmin`, `NobodyFoundsTooMany` | `Spec => []TypeOK`, `[]OrgsHaveAnAdmin`, `[]OwnsAtMostMax` |
| `NoCounterUnderflows`, `OnlyLateRowsMoveCounters` | `Spec => [](TypeOK /\ CountersCoverRows)`, `OnlyLateRowsDrift` |
| `CountersAreExact` | `Spec => []CountersMatchRows`, if no account is deleted |
| `HistoryTypeCorrect`, `HistoryStaysInLockStep` | `HistorySpec => []HistoryTypeOK`, `[]HistoryInLockStep` |
| `RefinesUndoTimeline` | `HistorySpec => ImplementsUndoTimeline` |
| `SessionsKeepTheirTypes`, `SessionsStayInLockStep`, `SessionsRefineUndoTimeline` | `SessionSpec => []SessionTypeOK`, `[]HistoryInLockStep`, `ImplementsUndoTimeline` |
| `RefreshIsSafe`, `OverlapsAreRetries`, `BackupIsKept` | `SessionSpec => []RefreshKeepsEdits`, `[]OverlapsNeedRetries`, `BackupWaitsForTheUser` |
| `VariantsStayWellFormed`, `VariantsKeepTheirTypes` | `Spec => []VariantsInv`, `[]VariantsTypeOK` |
| `ReopeningIsARoundTrip`, `LinksShowTheBuild`, `TheLinkSurvivesOldClients` | `Spec => []ReopeningKeepsVariants`, `[]ShareLinksShowTheVariants`, `[]OldClientsKeepTheLink` |
| `IndependentStaysOwn`, `LinkedStaysShared`, `TheScopeFollows` | `Spec => IndependentVariantsKeepTheirOwn`, `LinkedVariantsShareOneSet`, `GuideScopeFollowsItsVariant` |
| `LinksStayMutual`, `TargetsAreLostOnlyToStaleWrites`, `HiddenUnderTheRightOrg`, `AuthorsMoveTheirBuilds`, `LogsTellEverySave` | `Spec => []LinksAreMutual`, `[]OnlyStaleWritesLoseTargets`, `[]FlagsAreForTheirOrg`, `OnlyTheAuthorMovesABuild`, `[]LogTellsEverySave` |
| `PartnerTypesHold`, `StripsFollowTheOrder`, `FoldsTellEverySave` | `Spec => []PartnerTypeOK`, `[]StripFollowsTheOrder`, `[]FoldsCoverEverySave` |
| `ModsAlwaysFit`, `NobodyEquipsAModTwice`, `AlternatesStayLegal` | `Spec => []ModsFitTheirSlots`, `[]NoModTwice`, `OnlySwapsMisplaceAlternates` |
| `SlotsKeepTheirTypes`, `PlansDeliver` | `Spec => []SlotsTypeOK`, `PlansKeepTheirPromise` |

The constants have the assumptions that the modules state beside them, which
TLC evaluates. `DeletedBuildsHaveNoSnapshot`, which the documentation promises,
does not hold (`snapshot_delete_race`); what `DeletedBuildsGoFromKv` proves is
how far it does, with any number of requests and faults.

*Snapshots.* `SettledIsFresh` is not inductive: a stale page can be in flight
while KV is fresh. `IInv` adds `InFlightInv` (a stale page in flight is
outlasted by a refresh that has yet to load after it is put, unless the build
lapsed) and `KvInv` (a stale page in KV will be repaired by a refresh that has
yet to load, or has loaded a page still true). A mutation makes pages stale and
owes them a refresh, which establishes both; for that the partners of a build
must be the pages that show it, which is `LinksInv` (join rows are symmetric).
A put keeps `KvInv` because of `InFlightInv`; the end of a wait keeps
`InFlightInv` because of `racing`. With no refresh under way the disjuncts
about refreshes are false, and `KvInv` is `SettledIsFresh`. For the deletes
`IInv` has `ScopesInv` (the delete of one build has it among its slugs, that of
a user takes all builds of that user) and `LapsedInv` (a deleted build is left
to the TTL by a fault, or gone with its author). `SlugsCoverTheDelete` is the
fact about the tables: `snapshotSlugs` of some builds has every page that
deleting them changes at that moment, since join rows are symmetric. The refinement maps `truth` to the page Postgres has, `cache` to `kv` and
`unsettled` to the builds being refreshed or lapsed; `IInv` shows that a step
that settles a key leaves it fresh. Every step of `EdgeCache` is a step of
`BuildSnapshot` or none, so `IInv` holds behind the edge as well, and an answer
from KV is as fresh as KV is.

*Organizations.* `AdminInv` adds to the goal what a role change knows between
its check and its write: it holds the row (`OrgLockInv`), so that the other
ADMIN it counted is still there, has left with an account (`bereaved`), or the
organization is gone (`GuardInv`). `CapInv` is the same for creations, with the
user's row and the count, less what others `granted`.

*Social.* `TypeOK /\ CountersCoverRows` is inductive as it stands: each statement
changes a counter by the number of rows it changes, so a floor never bites. A
leaver's late rows are the whole of the drift.

*Undo.* To the lock-step of the refs the invariant adds `LineInv`: nothing is on
the line twice, and the screen shows nothing that is on the line elsewhere. So
an undo or a redo always changes the screen, its effect runs, and `applying` is
consumed. The line is the past, the baseline and the future read backwards; a
commit cuts it behind the place and appends, undo and redo move the place.

*Sessions.* `SessionInv` is that invariant over mounts, and what it takes from
the world outside the editor. A mount puts a document on the screen whose edits
are all numbered up to `edits`, so an edit to come is not on the line, and the
line starts again. Such documents come from drafts and the server: `Kept` says
that the store has one draft per slot and no more than `Quota`, `OutsideInv`
that what is under way, or stored, or offered for a retry is as old. Saving a
draft leaves it the newest, and only older ones are evicted for it; so a
session whose timer has fired since its last edit finds it again, which is
`RefreshInv`. `OverlapInv` counts: while the button or the dialog would save,
nothing of the session is under way but its retries.

*Variants.* `VariantsInv` says of the array that its variants have different
ids, that each form has at least one of them and at most `MAX_VARIANTS`, and
that their contents were made by edits up to now. The round trips follow from it
alone: the documents hold the array with the live variant
folded in, and loading undoes, entry by entry, what saving left out because it
was shared. The three action properties compare the array with the next one
through the ids, where a variant that was moved, added or deleted moves the
places of others.

*Edits.* `LinksAreMutual` needs that an unlink past its count has two different
builds (`Apart`): the two updates of a transaction become visible together. The
targets, the flags and the log each have a part of the invariant that says what
a request in flight has read: a PATCH's read is no newer than the saves, if it is
the newest it is what the row holds, and the saves before it were dated by then.
So a save that read the one before says what it changed from and is not dated
before it (`InOrder`), and a row that is gone is newer than one that is kept only
if the save kept had not read it (`Keeps`), which a prune and the next save leave
so.

*The strip and the entries.* `StripInv` says of a request what it may store: an
order that names no build twice, and a link only of builds that exist, since the
first update of its transaction locks one of them (`LocksInv`) and the second
finds the other. That stored orders are injective and links finite is all the
strips need; what `LIMIT` takes of a finite set is `Limited`. The functions behind it (`Picked`, `foldRevisions`) recurse over a
sequence, for which the prover has no induction: `RecursionExists` shows that
such a function is there, `UpTo` does the induction for one set of numbers, and
both follow from the well-foundedness of `<`. `FoldedTo` is what holds of the
entries of the first rows; that they join to the log is `FlattenIs`.

*Slots.* `SlotsInv` says of what waits that it may still be carried out: the
undo entry and the plan in preview hold sound maps, the slot of the Riven
dialog is of the normal kind, a drag carries a mod or a slot. It does not say
that they are up to date, which they are not. Rearranging keeps the kinds
because the movable slots of an item are of one kind, an assumption on the
layout that `plexus.ts` meets. `AlternatesFit` says which Alternates may be out
of place, ordinary ones in the Exilus slot; how they get there is a property of
the steps (`AlternatesStep`): a dropped mod keeps an Alternate only where it fits
(`PlaceAtKeeps`), and a plan leaves the Exilus slot alone (`PlanPins`).

*Plans.* `PreviewInv` says of the plan in preview that its mods are an
arrangement, under its formas, of the variants it was made for; so if they are
still there when it is applied, they fit. But for one case: `arrangementEquals`
compares names, so a variant whose arrangement only exchanges two Rivens
(`LosesItsMove`) stays as it is, and may stay over capacity. Its formas are the ones the search
found, since a search never empties a slot (`StepsArePlan`); the empty variants
that stand for those with formas of their own come back empty (`EmptyStays`), and
an arrangement shows no mod where the item has no slot (`ArrangedKeeps`). That no
mod is lost is a bijection between the slots before and after (`MovedCount`). The
greedy fix stays in `Helping`, the formas that help the worst variant and hurt
none, pass by pass; there is a best next forma since the candidates are finite
(`FiniteMax`), and the capacities are integers although a sum over a set is
defined by recursion (`SumExists`). The searches themselves, which plans they
find and how cheap, are not what the theorem is about.

Model-checked only: liveness (`EventuallySettled`, `EdgeEventuallySettles`,
`EveryRequestEnds`), which the prover cannot do under fairness.

## Divergences from the documentation

* `snapshot_delete_race`. `_build-snapshot.ts` says a deleted build is never
  stored. `snapshotSlugs` is read before the rows are deleted, so a build that
  another request of the same account makes and publishes in between, once
  read by a viewer, stays in KV until its TTL.
* `variants_unlink`. The dialog says that each variant keeps the forma and
  shards it has now. While they are linked, an edit changes the live set and
  leaves the captured ones as they were; unlinking hands those back.
* `slots_hidden`. `slot-order.ts` has the slots a user can place into, and
  warns of mods in slots an item lacks. `candidateSlots` offers the Exilus slot
  to an Exilus mod on an item without one.

Not runs of their own, but worth knowing, since the models show them:

* A plan skips what the comment at `plan.ts:114` calls no effective move, by
  comparing unique names, which all Rivens share. If the search brought a
  variant under capacity by exchanging two Rivens of unlike polarity, the plan
  is shown and applied without the move. `PlansKeepTheirPromise` excepts just
  that (`LosesItsMove`), and `slots` reaches it. A build gets its second Riven
  when the Riven dialog is confirmed after an undo brought the first one back.
* `user-deletion.ts` promotes an heir so that no organization is left
  unmanageable. It takes no organization lock, so a member added by a request
  that had already passed its check may find no ADMIN. Its counters exclude a
  leaver's rows; a like that was checked before lands after the hook's commit.
* `MAX_ORGS_PER_USER` is worded as a cap on the organizations one is ADMIN of,
  and is enforced at creation only.
* Writing `partnerVariants` from a stale read leaves a target through a severed
  link; `partnerOrder` keeps ids that are linked no more (the strip skips them),
  and of more than 50 partners the query takes any 50 before the order applies.
  Linking and unlinking the same pair in opposite directions can deadlock.
* A PATCH of `hideAuthor` that a move overtakes hides the author under the new
  organization. The delete of an organization detaches a build that was
  published into it meanwhile and keeps its flag. After `MAX_STORED_REVISIONS`
  saves the prune drops the `CREATED` row, of which `builds.ts` says that only
  it tells who made the build. Two saves that overlap may be listed, and pruned,
  in the reverse of the order they committed in: the newest entry need not be what
  the row holds, and says what changed since a row that another save has replaced.
* A save clears the draft with the edits made while it was awaited; an autosave
  timer armed before then stores a draft of what is already saved. Retry sends
  the document of the render that failed.
* Undo while a commit waits for its timer goes back past the pending edit.
* A share link shows every variant with the active one's Helminth ability, which
  `build-codec-adapter.ts` calls build-wide, though a saved build keeps one per
  variant: what is shared then differs from what is saved, so
  `ShareLinksShowTheVariants` says "but for the Helminth ability", and
  `IndependentVariantsKeepTheirOwn` leaves the opening of a link to it.
* Linking variants of two forms aligns one form only in a share link; a build of
  one variant loses that variant's own guide when it is saved; an old client
  links variants that were independent.
* Stage 1 of auto-forma takes the cheapest assignment of Forma among those that
  keep the mods, not the cheapest plan. The preview dialog does not stop the
  keyboard: an undo makes the plan stale, and applying it then mixes the two. A
  Riven confirmed after an undo replaces what the undo brought back. Undoing a
  plan leaves the other variants rearranged. A swap carries an ordinary
  Alternate into the Exilus slot; a dragged card is not asked again whether it
  conflicts.

## What is not modelled

Of the modelled components: renames of users and organizations, the `verified`
badge and the deletion of an organization as the snapshots see them; view, like
and bookmark counts inside a snapshot, which the code lets go stale on purpose;
KV's own cross-colo read cache (up to 60 s); the edge entries of lists, which
are never purged on purpose; validation, formatting and status codes; bans,
which only keep a deletion from starting. The admin deletion transaction is one
step, though under READ COMMITTED its statements could interleave with others'.
A request of `PartnerStrip` reads the build and the membership in one step. A
snapshot of `BuildSnapshot` has all cards, not the 50 its query takes. The ranks
and the endo cost of Alternates, arcane slots, the filters of the mod search, and the
iteration limits of the auto-forma search are left out, as is the guide of the
whole build.

Not at all: lists and search (read-only SQL), image proxy and imports (foreign
content), the web Worker (stateless), sign-in and sessions (Better Auth), rate
limits (one upsert and one comparison), the optimistic queries of the web, the
encoding of share links, the damage statistics (floating-point functions over
game data) with the build diff, the interface, and the offline scripts and the
tables of game data, which are most of the repository's lines.

## Plan

What would come next, in this order:

1. *Organizations in `BuildSnapshot`*: `deleteOrganization`, the verified badge
   and renames, where the slugs are read apart from the write.
2. *Optimistic queries* composed with `Social`: rollback against the server.
