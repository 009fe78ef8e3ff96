------------------------- MODULE BuildSnapshotProofs -------------------------
(* Proofs about BuildSnapshot, for every set of builds, users, handlers and *)
(* readers and every value of the bounds.                                   *)
EXTENDS BuildSnapshot, TLAPS

-----------------------------------------------------------------------------
(* Types                                                                    *)

\* The page of a build is a body or Missing.
LEMMA PageType ==
    ASSUME NEW rs \in [Builds -> Row], NEW ls, NEW b \in Builds
    PROVE  Page(rs, ls, b) \in BodyOrMissing
<1>1. CASE isAnonVisible(rs[b])
  <2> DEFINE shown == {q \in partnersOf(ls, b) : isAnonVisible(rs[q])}
             strip == {[b |-> p, ver |-> rs[p].ver] : p \in shown}
  <2>1. \A p \in shown : p \in Builds
    BY DEF partnersOf
  <2>2. \A p \in shown : [b |-> p, ver |-> rs[p].ver] \in Card
    BY <2>1 DEF Card, Row
  <2>3. strip \in SUBSET Card
    BY <2>2
  <2> HIDE DEF strip
  <2>4. [ver |-> rs[b].ver, vis |-> rs[b].vis, lay |-> rs[b].lay,
         strip |-> strip] \in Body
    BY <1>1, <2>3 DEF isAnonVisible, Row, Body
  <2>5. QED
    BY <1>1, <2>4 DEF Page, strip, BodyOrMissing
<1>2. CASE ~isAnonVisible(rs[b])
  BY <1>2 DEF Page, BodyOrMissing
<1>3. QED
  BY <1>1, <1>2

LEMMA SlugsType ==
    ASSUME NEW S \in SUBSET Builds
    PROVE  snapshotSlugs(S) \in SUBSET Builds
BY DEF snapshotSlugs, partnersOf

LEMMA InitType == Init => TypeOK
<1> SUFFICES ASSUME Init PROVE TypeOK
  OBVIOUS
<1>1. rows \in [Builds -> Row]
  BY SnapshotAssumption DEF Init, FreshRow, Row, BuildVisibility, AnonVisible
<1>2. kv \in [Builds -> BodyOrMissing]
  BY <1>1, PageType DEF Init
<1>3. links \subseteq Builds \X Builds
  BY DEF Init
<1>4. QED
  BY <1>1, <1>2, <1>3
     DEF Init, TypeOK, BodyOrMissing, Phase, HandlerStep, Idle, Loading, Putting

\* A committed statement keeps the types if the new tables have theirs.
LEMMA CommitType ==
    ASSUME TypeOK, NEW h, NEW rs \in [Builds -> Row],
           NEW ls \in SUBSET (Builds \X Builds), NEW S,
           Commit(h, rs, ls, S)
    PROVE  TypeOK'
<1>1. phase' \in [Jobs -> Phase]
  BY DEF Commit, Owe, TypeOK, Phase
<1>2. QED
  BY <1>1 DEF Commit, TypeOK, delVars

LEMMA MutateType == ASSUME TypeOK, NEW h \in Handlers, Mutate(h) PROVE TypeOK'
<1>1. ASSUME NEW b \in Builds, NEW v \in Visibility, createBuild(h, b, v)
      PROVE  TypeOK'
  <2>1. FreshRow("live", v) \in Row
    BY SnapshotAssumption DEF FreshRow, Row, BuildVisibility, AnonVisible
  <2>2. [rows EXCEPT ![b] = FreshRow("live", v)] \in [Builds -> Row]
    BY <2>1 DEF TypeOK
  <2>3. QED
    BY <1>1, <2>2, CommitType DEF createBuild, TypeOK
<1>2. ASSUME NEW b \in Builds, NEW v \in Visibility, patchBuild(h, b, v)
      PROVE  TypeOK'
  <2>1. [rows[b] EXCEPT !.ver = @ + 1, !.vis = v] \in Row
    <3>1. rows[b] \in Row /\ v \in BuildVisibility
      BY SnapshotAssumption DEF TypeOK, BuildVisibility, AnonVisible
    <3>2. rows[b].ver + 1 \in Nat
      BY <3>1 DEF Row
    <3>3. QED
      BY <3>1, <3>2 DEF Row
  <2>2. [rows EXCEPT ![b].ver = @ + 1, ![b].vis = v]
           = [rows EXCEPT ![b] = [rows[b] EXCEPT !.ver = @ + 1, !.vis = v]]
    BY Zenon DEF TypeOK
  <2>3. [rows EXCEPT ![b].ver = @ + 1, ![b].vis = v] \in [Builds -> Row]
    BY <2>1, <2>2 DEF TypeOK
  <2>4. QED
    BY <1>2, <2>3, CommitType DEF patchBuild, TypeOK
<1>3. ASSUME NEW b \in Builds, NEW v \in Visibility, adminSetVisibility(h, b, v)
      PROVE  TypeOK'
  <2>1. [rows EXCEPT ![b].vis = v] \in [Builds -> Row]
    BY SnapshotAssumption DEF TypeOK, Row, BuildVisibility, AnonVisible
  <2>2. QED
    BY <1>3, <2>1, CommitType DEF adminSetVisibility, TypeOK
<1>4. ASSUME NEW b \in Builds, arrangeStrip(h, b)
      PROVE  TypeOK'
  <2>1. [rows EXCEPT ![b].lay = @ + 1] \in [Builds -> Row]
    BY DEF TypeOK, Row
  <2>2. QED
    BY <1>4, <2>1, CommitType DEF arrangeStrip, TypeOK
<1>5. ASSUME NEW a \in Builds, NEW b \in Builds,
             linkPartner(h, a, b) \/ unlinkPartner(h, a, b)
      PROVE  TypeOK'
  <2>1. /\ links \cup {<<a, b>>, <<b, a>>} \in SUBSET (Builds \X Builds)
        /\ links \ {<<a, b>>, <<b, a>>} \in SUBSET (Builds \X Builds)
    BY DEF TypeOK
  <2>2. QED
    BY <1>5, <2>1, CommitType DEF linkPartner, unlinkPartner, TypeOK
<1>6. ASSUME NEW b \in Builds, deleteBuild(h, b)
      PROVE  TypeOK'
  BY <1>6, SlugsType DEF deleteBuild, ReadSlugs, TypeOK, HandlerStep, jobVars,
                         dbVars
<1>7. ASSUME NEW u \in Users, deleteUser(h, u)
      PROVE  TypeOK'
  BY <1>7, SlugsType DEF deleteUser, ReadSlugs, TypeOK, HandlerStep, jobVars,
                         dbVars
<1>8. ASSUME CommitDelete(h)
      PROVE  TypeOK'
  <2>1. rows' \in [Builds -> Row]
    BY <1>8 DEF CommitDelete, RowsWithout, TypeOK, Row
  <2>2. phase' \in [Jobs -> Phase]
    BY <1>8 DEF CommitDelete, Owe, TypeOK, Phase
  <2>3. /\ links' \subseteq Builds \X Builds
        /\ lapsed' \subseteq Builds
        /\ writes' \in Nat
    BY <1>8 DEF CommitDelete, LinksWithout, Changed, TypeOK
  <2>4. QED
    BY <1>8, <2>1, <2>2, <2>3
       DEF CommitDelete, EndDelete, TypeOK, HandlerStep
<1>9. ASSUME DeleteFails(h)
      PROVE  TypeOK'
  BY <1>9 DEF DeleteFails, EndDelete, TypeOK, HandlerStep, jobVars, dbVars
<1>10. QED
  BY <1>1, <1>2, <1>3, <1>4, <1>5, <1>6, <1>7, <1>8, <1>9 DEF Mutate

LEMMA BackgroundType == ASSUME TypeOK, Background PROVE TypeOK'
<1>1. ASSUME NEW r \in Readers, NEW b \in Builds, ReadThrough(r, b)
      PROVE  TypeOK'
  <2>1. loadAnonSnapshot(b) \in BodyOrMissing
    BY PageType DEF TypeOK, loadAnonSnapshot
  <2>2. QED
    BY <1>1, <2>1 DEF ReadThrough, TypeOK, Writers, jobVars, delVars, dbVars
<1>2. ASSUME NEW r \in Readers, PutReadThrough(r)
      PROVE  TypeOK'
  <2>1. kv' \in [Builds -> BodyOrMissing]
    BY <1>2 DEF PutReadThrough, writeSnapshot, TypeOK, Writers
  <2>2. racing' \in [Jobs -> SUBSET Writers]
    BY <1>2 DEF PutReadThrough, Landed, TypeOK
  <2>3. QED
    BY <1>2, <2>1, <2>2
       DEF PutReadThrough, TypeOK, BodyOrMissing, delVars, dbVars
<1>3. ASSUME NEW r \in Readers, ReadThroughFails(r)
      PROVE  TypeOK'
  <2>1. racing' \in [Jobs -> SUBSET Writers]
    BY <1>3 DEF ReadThroughFails, Landed, TypeOK
  <2>2. faults' \in Nat
    BY <1>3 DEF ReadThroughFails, TypeOK
  <2>3. QED
    BY <1>3, <2>1, <2>2
       DEF ReadThroughFails, TypeOK, BodyOrMissing, delVars, dbVars
<1>4. ASSUME NEW b \in Builds, Expire(b)
      PROVE  TypeOK'
  BY <1>4 DEF Expire, TypeOK, BodyOrMissing, jobVars, delVars, dbVars
<1>5. ASSUME NEW j \in Jobs, RefreshLoad(j)
      PROVE  TypeOK'
  <2>1. loadAnonSnapshot(j[2]) \in BodyOrMissing
    BY PageType DEF TypeOK, loadAnonSnapshot, Jobs
  <2>2. QED
    BY <1>5, <2>1 DEF RefreshLoad, TypeOK, Phase, Putting, Writers, delVars, dbVars
<1>6. ASSUME NEW j \in Jobs, RefreshPut1(j)
      PROVE  TypeOK'
  <2>1. kv' \in [Builds -> BodyOrMissing]
    BY <1>6 DEF RefreshPut1, writeSnapshot, TypeOK, Writers
  <2>2. racing' \in [Jobs -> SUBSET Writers]
    BY <1>6 DEF RefreshPut1, Landed, InFlight, TypeOK, Writers
  <2>3. QED
    BY <1>6, <2>1, <2>2
       DEF RefreshPut1, TypeOK, Phase, BodyOrMissing, delVars, dbVars
<1>7. ASSUME NEW j \in Jobs, RefreshWake(j)
      PROVE  TypeOK'
  BY <1>7 DEF RefreshWake, TypeOK, Phase, Loading, delVars, dbVars
<1>8. ASSUME NEW j \in Jobs, RefreshPut2(j)
      PROVE  TypeOK'
  <2>1. kv' \in [Builds -> BodyOrMissing]
    BY <1>8 DEF RefreshPut2, writeSnapshot, TypeOK, Writers
  <2>2. racing' \in [Jobs -> SUBSET Writers]
    BY <1>8 DEF RefreshPut2, Landed, TypeOK
  <2>3. QED
    BY <1>8, <2>1, <2>2
       DEF RefreshPut2, TypeOK, Phase, BodyOrMissing, delVars, dbVars
<1>9. ASSUME NEW j \in Jobs, RefreshFails(j)
      PROVE  TypeOK'
  <2>1. racing' \in [Jobs -> SUBSET Writers]
    BY <1>9 DEF RefreshFails, Landed, TypeOK
  <2>2. lapsed' \subseteq Builds
    BY <1>9 DEF RefreshFails, TypeOK, Jobs
  <2>3. faults' \in Nat
    BY <1>9 DEF RefreshFails, TypeOK
  <2>4. QED
    BY <1>9, <2>1, <2>2, <2>3
       DEF RefreshFails, TypeOK, Phase, BodyOrMissing, delVars, dbVars
<1>10. QED
  BY <1>1, <1>2, <1>3, <1>4, <1>5, <1>6, <1>7, <1>8, <1>9
     DEF Background, Refresh

LEMMA TypeStep == ASSUME TypeOK, [Next]_vars PROVE TypeOK'
<1>1. ASSUME NEW h \in Handlers, Mutate(h) PROVE TypeOK'
  BY <1>1, MutateType
<1>2. ASSUME NEW h \in Handlers, invalidateBuilds(h) PROVE TypeOK'
  BY <1>2 DEF invalidateBuilds, TypeOK, Phase, Loading, delVars, dbVars
<1>3. ASSUME NEW h \in Handlers, LoseInvocation(h) PROVE TypeOK'
  BY <1>3 DEF LoseInvocation, TypeOK, Phase, delVars, dbVars
<1>4. CASE Background
  BY <1>4, BackgroundType
<1>5. CASE UNCHANGED vars
  BY <1>5 DEF vars, TypeOK
<1>6. QED
  BY <1>1, <1>2, <1>3, <1>4, <1>5 DEF Next

\* Every variable keeps its type, whatever the bounds.
THEOREM TypeCorrect == Spec => []TypeOK
BY InitType, TypeStep, PTL DEF Spec

-----------------------------------------------------------------------------
(* What a page depends on                                                   *)

LEMMA JobParts ==
    ASSUME NEW h \in Handlers, NEW b \in Builds
    PROVE  <<h, b>> \in Jobs /\ <<h, b>>[1] = h /\ <<h, b>>[2] = b
BY DEF Jobs

\* The page of a build depends on its own row, on its partners, and on what
\* its partners' cards show.
LEMMA PageLocal ==
    ASSUME NEW rs, NEW ls, NEW rs2, NEW ls2, NEW b \in Builds,
           rs2[b] = rs[b],
           partnersOf(ls2, b) = partnersOf(ls, b),
           \A p \in partnersOf(ls, b) :
              /\ rs2[p].ver = rs[p].ver
              /\ isAnonVisible(rs2[p]) <=> isAnonVisible(rs[p])
    PROVE  Page(rs2, ls2, b) = Page(rs, ls, b)
<1> DEFINE shown(r) == {q \in partnersOf(ls, b) : isAnonVisible(r[q])}
           cards(r) == {[b |-> p, ver |-> r[p].ver] : p \in shown(r)}
<1>1. shown(rs2) = shown(rs)
  OBVIOUS
<1>2. \A p \in shown(rs) : p \in partnersOf(ls, b)
  OBVIOUS
<1> HIDE DEF shown
<1>3. \A p \in shown(rs) : [b |-> p, ver |-> rs2[p].ver] = [b |-> p, ver |-> rs[p].ver]
  BY <1>2
<1>4. cards(rs2) = cards(rs)
  BY <1>1, <1>3
<1>5. QED
  BY <1>4 DEF Page, shown

\* The page of a build no one links to and no one may see is Missing.
LEMMA HiddenPage ==
    ASSUME NEW b \in Builds, ~Live(b)
    PROVE  loadAnonSnapshot(b) = Missing
BY DEF Live, loadAnonSnapshot, Page, isAnonVisible

-----------------------------------------------------------------------------
(* Mutations preserve the invariant                                         *)

\* A step of the database and nothing else, where every build whose page it
\* changes is owed a refresh, or was not there to be cached, or has lapsed.
LEMMA MutationInv ==
    ASSUME TypeOK, InFlightInv, KvInv, NEW h \in Handlers, NEW S,
           Owe(h, S),
           UNCHANGED <<kv, reader, loaded, racing>>,
           lapsed \ S \subseteq lapsed',
           \A b \in Builds \ S : \/ loadAnonSnapshot(b)' = loadAnonSnapshot(b)
                                 \/ loadAnonSnapshot(b) = Missing
                                 \/ b \in lapsed'
    PROVE  InFlightInv' /\ KvInv'
<1>1. ASSUME NEW b \in Builds, b \in S
      PROVE  phase'[<<h, b>>] = "owed"
  BY <1>1, JobParts DEF Owe
<1>2. ASSUME NEW b \in Builds, b \notin S
      PROVE  /\ \A k \in Handlers : phase'[<<k, b>>] = phase[<<k, b>>]
             /\ InFlight(b)' = InFlight(b)
  <2>1. \A j \in Jobs : j[2] = b => phase'[j] = phase[j]
    BY <1>2 DEF Owe
  <2>2. \A k \in Handlers : phase'[<<k, b>>] = phase[<<k, b>>]
    BY <2>1, JobParts
  <2>3. InFlight(b)' = InFlight(b)
    BY <2>1 DEF InFlight
  <2>4. QED
    BY <2>2, <2>3
<1>3. InFlightInv'
  <2> SUFFICES ASSUME NEW b \in Builds, NEW w \in InFlight(b)'
               PROVE  \/ loaded'[w] \in {Missing, loadAnonSnapshot(b)'}
                      \/ b \in lapsed'
                      \/ \E k \in Handlers : Outlasts(<<k, b>>, w)'
    BY DEF InFlightInv
  <2>1. CASE b \in S
    BY <1>1, <2>1 DEF Outlasts
  <2>2. CASE b \notin S
    <3>1. w \in InFlight(b)
      BY <1>2, <2>2
    <3>2. \A k \in Handlers : Outlasts(<<k, b>>, w) => Outlasts(<<k, b>>, w)'
      BY <1>2, <2>2 DEF Outlasts
    <3>3. QED
      BY <2>2, <3>1, <3>2 DEF InFlightInv
  <2>3. QED
    BY <2>1, <2>2
<1>4. KvInv'
  <2> SUFFICES ASSUME NEW b \in Builds
               PROVE  \/ IsFresh(b)'
                      \/ b \in lapsed'
                      \/ \E k \in Handlers : WillRepair(<<k, b>>)'
    BY DEF KvInv
  <2>1. CASE b \in S
    BY <1>1, <2>1 DEF WillRepair
  <2>2. CASE b \notin S
    <3>1. \/ loadAnonSnapshot(b)' = loadAnonSnapshot(b)
          \/ loadAnonSnapshot(b) = Missing
          \/ b \in lapsed'
      BY <2>2
    <3>2. IsFresh(b) => IsFresh(b)' \/ b \in lapsed'
      BY <3>1 DEF IsFresh
    <3>3. \A k \in Handlers :
             WillRepair(<<k, b>>) => WillRepair(<<k, b>>)' \/ b \in lapsed'
      BY <1>2, <2>2, <3>1, JobParts DEF WillRepair
    <3>4. QED
      BY <2>2, <3>2, <3>3 DEF KvInv
  <2>3. QED
    BY <2>1, <2>2
<1>5. QED
  BY <1>3, <1>4

\* A change of one row changes no page but its own and its partners'.
LEMMA OneRowChanges ==
    ASSUME LinksInv, NEW b \in Builds, NEW rs,
           \A c \in Builds \ {b} : rs[c] = rows[c]
    PROVE  \A c \in Builds \ withPartners(links, b) :
              Page(rs, links, c) = Page(rows, links, c)
<1> SUFFICES ASSUME NEW c \in Builds, c \notin withPartners(links, b)
             PROVE  Page(rs, links, c) = Page(rows, links, c)
  OBVIOUS
<1>1. c # b /\ <<b, c>> \notin links
  BY DEF withPartners, partnersOf
<1>2. <<c, b>> \notin links
  BY <1>1 DEF LinksInv, Symmetric
<1>3. \A p \in partnersOf(links, c) : rs[p] = rows[p]
  BY <1>2 DEF partnersOf
<1>4. QED
  BY <1>1, <1>3, PageLocal

\* What the hypothesis of MutationInv asks of a committed statement.
LEMMA CommitInv ==
    ASSUME TypeOK, InFlightInv, KvInv, NEW h \in Handlers, NEW rs, NEW ls,
           NEW S, Commit(h, rs, ls, S),
           \A b \in Builds \ S : \/ Page(rs, ls, b) = Page(rows, links, b)
                                 \/ Page(rows, links, b) = Missing
    PROVE  InFlightInv' /\ KvInv'
<1>1. Owe(h, S) /\ lapsed \ S \subseteq lapsed'
  BY DEF Commit
<1>2. UNCHANGED <<kv, reader, loaded, racing>>
  BY DEF Commit
<1>3. \A b \in Builds : loadAnonSnapshot(b)' = Page(rs, ls, b)
  BY DEF Commit, loadAnonSnapshot
<1>4. \A b \in Builds \ S : \/ loadAnonSnapshot(b)' = loadAnonSnapshot(b)
                            \/ loadAnonSnapshot(b) = Missing
                            \/ b \in lapsed'
  BY <1>3 DEF loadAnonSnapshot
<1>5. QED
  BY <1>1, <1>2, <1>4, MutationInv

\* A statement that is no delete.
Statement(h) ==
    \E b \in Builds :
        \/ \E v \in Visibility : \/ createBuild(h, b, v)
                                 \/ patchBuild(h, b, v)
                                 \/ adminSetVisibility(h, b, v)
        \/ arrangeStrip(h, b)
        \/ \E p \in Builds : linkPartner(h, b, p) \/ unlinkPartner(h, b, p)

\* Such a statement passes to invalidateBuilds every build whose page it
\* changes, but the one it makes.
Reported(h) ==
    \E rs, ls, S :
        /\ Commit(h, rs, ls, S)
        /\ \A b \in Builds \ S :
              Page(rs, ls, b) = Page(rows, links, b) \/ ~Live(b)

LEMMA StatementReports ==
    ASSUME TypeOK, LinksInv, NEW h \in Handlers, Statement(h)
    PROVE  Reported(h)
<1>1. ASSUME NEW b \in Builds, NEW v \in Visibility, createBuild(h, b, v)
      PROVE  Reported(h)
  <2> DEFINE rs == [rows EXCEPT ![b] = FreshRow("live", v)]
  <2>1. ~Live(b)
    BY <1>1 DEF createBuild, Live
  <2>2. withPartners(links, b) = {b}
    BY <2>1 DEF withPartners, partnersOf, LinksInv
  <2>3. \A c \in Builds \ {b} : rs[c] = rows[c]
    BY DEF TypeOK
  <2>4. \A c \in Builds \ {b} : Page(rs, links, c) = Page(rows, links, c)
    <3> HIDE DEF rs
    <3>1. QED
      BY <2>2, <2>3, OneRowChanges
  <2>5. Commit(h, rs, links, {})
    BY <1>1 DEF createBuild
  <2> HIDE DEF rs
  <2>6. QED
    BY <2>1, <2>4, <2>5 DEF Reported
<1>2. ASSUME NEW b \in Builds, NEW rs, Commit(h, rs, links, withPartners(links, b)),
             \A c \in Builds \ {b} : rs[c] = rows[c]
      PROVE  Reported(h)
  BY <1>2, OneRowChanges DEF Reported
<1>3. ASSUME NEW b \in Builds, NEW v \in Visibility, patchBuild(h, b, v)
      PROVE  Reported(h)
  <2> DEFINE rs == [rows EXCEPT ![b].ver = @ + 1, ![b].vis = v]
  <2>1. \A c \in Builds \ {b} : rs[c] = rows[c]
    BY DEF TypeOK
  <2>2. Commit(h, rs, links, withPartners(links, b))
    BY <1>3 DEF patchBuild
  <2> HIDE DEF rs
  <2>3. QED
    BY <1>2, <2>1, <2>2
<1>4. ASSUME NEW b \in Builds, NEW v \in Visibility, adminSetVisibility(h, b, v)
      PROVE  Reported(h)
  <2> DEFINE rs == [rows EXCEPT ![b].vis = v]
  <2>1. \A c \in Builds \ {b} : rs[c] = rows[c]
    BY DEF TypeOK
  <2>2. Commit(h, rs, links, withPartners(links, b))
    BY <1>4 DEF adminSetVisibility
  <2> HIDE DEF rs
  <2>3. QED
    BY <1>2, <2>1, <2>2
<1>5. ASSUME NEW b \in Builds, arrangeStrip(h, b)
      PROVE  Reported(h)
  <2> DEFINE rs == [rows EXCEPT ![b].lay = @ + 1]
  <2>1. \A c \in Builds : /\ c # b => rs[c] = rows[c]
                          /\ rs[c].ver = rows[c].ver
                          /\ isAnonVisible(rs[c]) <=> isAnonVisible(rows[c])
    BY DEF TypeOK, Row, isAnonVisible
  <2>2. Commit(h, rs, links, {b})
    BY <1>5 DEF arrangeStrip
  <2> HIDE DEF rs
  <2>3. \A c \in Builds \ {b} : Page(rs, links, c) = Page(rows, links, c)
    <3> SUFFICES ASSUME NEW c \in Builds, c # b
                 PROVE  Page(rs, links, c) = Page(rows, links, c)
      OBVIOUS
    <3>1. \A p \in partnersOf(links, c) : p \in Builds
      BY DEF partnersOf
    <3>2. QED
      BY <2>1, <3>1, PageLocal
  <2>4. QED
    BY <2>2, <2>3 DEF Reported
<1>6. ASSUME NEW a \in Builds, NEW b \in Builds, NEW ls,
             Commit(h, rows, ls, {a, b}),
             \A c \in Builds \ {a, b} : partnersOf(ls, c) = partnersOf(links, c)
      PROVE  Reported(h)
  <2>1. \A c \in Builds \ {a, b} : Page(rows, ls, c) = Page(rows, links, c)
    BY <1>6, PageLocal
  <2>2. QED
    BY <1>6, <2>1 DEF Reported
<1>7. ASSUME NEW a \in Builds, NEW b \in Builds,
             linkPartner(h, a, b) \/ unlinkPartner(h, a, b)
      PROVE  Reported(h)
  <2> DEFINE more == links \cup {<<a, b>>, <<b, a>>}
             less == links \ {<<a, b>>, <<b, a>>}
  <2>1. \A c \in Builds \ {a, b} : /\ partnersOf(more, c) = partnersOf(links, c)
                                   /\ partnersOf(less, c) = partnersOf(links, c)
    BY DEF partnersOf
  <2>2. Commit(h, rows, more, {a, b}) \/ Commit(h, rows, less, {a, b})
    BY <1>7 DEF linkPartner, unlinkPartner
  <2> HIDE DEF more, less
  <2>3. QED
    BY <1>6, <2>1, <2>2
<1>8. QED
  BY <1>1, <1>3, <1>4, <1>5, <1>7 DEF Statement

LEMMA MutateInv ==
    ASSUME IInv, NEW h \in Handlers, Mutate(h)
    PROVE  InFlightInv' /\ KvInv'
<1> USE DEF IInv
<1>1. CASE Statement(h)
  <2>1. PICK rs, ls, S :
           /\ Commit(h, rs, ls, S)
           /\ \A b \in Builds \ S :
                 Page(rs, ls, b) = Page(rows, links, b) \/ ~Live(b)
    BY <1>1, StatementReports DEF Reported
  <2>2. \A b \in Builds : ~Live(b) => Page(rows, links, b) = Missing
    BY HiddenPage DEF loadAnonSnapshot
  <2>3. QED
    BY <2>1, <2>2, CommitInv
<1>2. CASE CommitDelete(h)
  <2>1. Owe(h, slugs[h]) /\ lapsed \ slugs[h] \subseteq lapsed'
    BY <1>2 DEF CommitDelete
  <2>2. UNCHANGED <<kv, reader, loaded, racing>>
    BY <1>2 DEF CommitDelete
  <2>3. lapsed' = (lapsed \cup Changed(rows', links')) \ slugs[h]
    BY <1>2 DEF CommitDelete
  <2>4. \A b \in Builds \ slugs[h] : \/ loadAnonSnapshot(b)' = loadAnonSnapshot(b)
                                     \/ b \in lapsed'
    BY <2>3 DEF Changed, loadAnonSnapshot
  <2>5. QED
    BY <2>1, <2>2, <2>4, MutationInv
<1>3. ASSUME UNCHANGED <<rows, links, kv, reader, loaded, phase, racing, lapsed>>
      PROVE  InFlightInv' /\ KvInv'
  BY <1>3 DEF InFlightInv, KvInv, InFlight, IsFresh, Outlasts, WillRepair,
              loadAnonSnapshot
<1>4. ASSUME NEW b \in Builds, deleteBuild(h, b)
      PROVE  InFlightInv' /\ KvInv'
  BY <1>3, <1>4 DEF deleteBuild, ReadSlugs, jobVars, dbVars
<1>5. ASSUME NEW u \in Users, deleteUser(h, u)
      PROVE  InFlightInv' /\ KvInv'
  BY <1>3, <1>5 DEF deleteUser, ReadSlugs, jobVars, dbVars
<1>6. CASE DeleteFails(h)
  BY <1>3, <1>6 DEF DeleteFails, jobVars, dbVars
<1>7. QED
  BY <1>1, <1>2, <1>4, <1>5, <1>6 DEF Mutate, Statement

\* Join rows stay symmetric and between live builds.
LEMMA LinksInvStep == ASSUME TypeOK, LinksInv, [Next]_vars PROVE LinksInv'
<1>1. ASSUME UNCHANGED <<rows, links>> PROVE LinksInv'
  BY <1>1 DEF LinksInv, Symmetric, Live
<1>2. ASSUME UNCHANGED links, \A c \in Builds : Live(c) => Live(c)'
      PROVE  LinksInv'
  BY <1>2 DEF LinksInv, Symmetric
<1>3. ASSUME NEW h \in Handlers, NEW b \in Builds, NEW v \in Visibility,
             \/ createBuild(h, b, v)
             \/ patchBuild(h, b, v)
             \/ adminSetVisibility(h, b, v)
      PROVE  LinksInv'
  <2>1. UNCHANGED links
    BY <1>3 DEF createBuild, patchBuild, adminSetVisibility, Commit
  <2>2. CASE createBuild(h, b, v)
    <3>1. \A c \in Builds : Live(c) => Live(c)'
      BY <2>2 DEF createBuild, Commit, Live, TypeOK
    <3>2. QED
      BY <1>2, <2>1, <3>1
  <2>3. CASE patchBuild(h, b, v)
    <3>1. \A c \in Builds : Live(c) => Live(c)'
      BY <2>3 DEF patchBuild, Commit, Live, TypeOK, Row
    <3>2. QED
      BY <1>2, <2>1, <3>1
  <2>4. CASE adminSetVisibility(h, b, v)
    <3>1. \A c \in Builds : Live(c) => Live(c)'
      BY <2>4 DEF adminSetVisibility, Commit, Live, TypeOK, Row
    <3>2. QED
      BY <1>2, <2>1, <3>1
  <2>5. QED
    BY <1>3, <2>2, <2>3, <2>4
<1>4. ASSUME NEW h \in Handlers, NEW a \in Builds, NEW b \in Builds,
             linkPartner(h, a, b)
      PROVE  LinksInv'
  <2>1. /\ a # b /\ Live(a) /\ Live(b)
        /\ rows' = rows
        /\ links' = links \cup {<<a, b>>, <<b, a>>}
    BY <1>4 DEF linkPartner, Commit
  <2>2. QED
    BY <2>1 DEF LinksInv, Symmetric, Live
<1>5. ASSUME NEW h \in Handlers, NEW a \in Builds, NEW b \in Builds,
             unlinkPartner(h, a, b)
      PROVE  LinksInv'
  <2>1. rows' = rows /\ links' = links \ {<<a, b>>, <<b, a>>}
    BY <1>5 DEF unlinkPartner, Commit
  <2>2. QED
    BY <2>1 DEF LinksInv, Symmetric, Live
<1>6. ASSUME NEW h \in Handlers, CommitDelete(h)
      PROVE  LinksInv'
  <2>1. /\ links' = links \ ((scope[h] \X Builds) \cup (Builds \X scope[h]))
        /\ \A c \in Builds \ scope[h] : rows'[c] = rows[c]
    BY <1>6 DEF CommitDelete, RowsWithout, LinksWithout
  <2>2. \A c, d \in Builds : <<c, d>> \in links' => c \notin scope[h]
    BY <2>1
  <2>3. \A c, d \in Builds : <<c, d>> \in links' => Live(c)'
    BY <2>1, <2>2 DEF LinksInv, Live
  <2>4. Symmetric(links')
    BY <2>1 DEF LinksInv, Symmetric
  <2>5. QED
    BY <2>3, <2>4 DEF LinksInv
<1>7. ASSUME NEW h \in Handlers, Mutate(h) PROVE LinksInv'
  <2>1. ASSUME NEW b \in Builds, deleteBuild(h, b) PROVE LinksInv'
    BY <1>1, <2>1 DEF deleteBuild, ReadSlugs, dbVars
  <2>2. ASSUME NEW u \in Users, deleteUser(h, u) PROVE LinksInv'
    BY <1>1, <2>2 DEF deleteUser, ReadSlugs, dbVars
  <2>3. ASSUME DeleteFails(h) PROVE LinksInv'
    BY <1>1, <2>3 DEF DeleteFails, dbVars
  <2>4. ASSUME NEW b \in Builds, arrangeStrip(h, b) PROVE LinksInv'
    <3>1. UNCHANGED links
      BY <2>4 DEF arrangeStrip, Commit
    <3>2. \A c \in Builds : Live(c) => Live(c)'
      BY <2>4 DEF arrangeStrip, Commit, Live, TypeOK, Row
    <3>3. QED
      BY <1>2, <3>1, <3>2
  <2>5. QED
    BY <1>3, <1>4, <1>5, <1>6, <1>7, <2>1, <2>2, <2>3, <2>4 DEF Mutate
<1>8. ASSUME Background PROVE LinksInv'
  BY <1>1, <1>8
     DEF Background, Refresh, ReadThrough, PutReadThrough, ReadThroughFails,
         Expire, RefreshLoad, RefreshPut1, RefreshWake, RefreshPut2,
         RefreshFails, dbVars
<1>9. ASSUME NEW h \in Handlers, invalidateBuilds(h) \/ LoseInvocation(h)
      PROVE  LinksInv'
  BY <1>1, <1>9 DEF invalidateBuilds, LoseInvocation, dbVars
<1>10. CASE UNCHANGED vars
  BY <1>1, <1>10 DEF vars
<1>11. QED
  BY <1>7, <1>8, <1>9, <1>10 DEF Next

-----------------------------------------------------------------------------
(* What the deletes know, and what they leave behind                        *)

\* The steps that neither write the tables nor begin or end a delete.
LEMMA QuietSteps ==
    ASSUME \/ Background
           \/ \E h \in Handlers : invalidateBuilds(h) \/ LoseInvocation(h)
           \/ UNCHANGED vars
    PROVE  UNCHANGED <<rows, links, delVars>>
<1>1. CASE Background
  BY <1>1
     DEF Background, Refresh, ReadThrough, PutReadThrough, ReadThroughFails,
         Expire, RefreshLoad, RefreshPut1, RefreshWake, RefreshPut2,
         RefreshFails, dbVars
<1>2. ASSUME NEW h \in Handlers, invalidateBuilds(h) \/ LoseInvocation(h)
      PROVE  UNCHANGED <<rows, links, delVars>>
  BY <1>2 DEF invalidateBuilds, LoseInvocation, dbVars
<1>3. CASE UNCHANGED vars
  BY <1>3 DEF vars, delVars
<1>4. QED
  BY <1>1, <1>2, <1>3

\* Statements that are no deletes leave the deletes in progress alone, and
\* delete nothing.
LEMMA StatementsDeleteNothing ==
    ASSUME TypeOK, NEW h \in Handlers, Statement(h)
    PROVE  /\ UNCHANGED <<delVars, faults>>
           /\ lapsed' \subseteq lapsed
           /\ \A c \in Builds : rows'[c].life = "deleted" <=> rows[c].life = "deleted"
<1> DEFINE Goal == /\ UNCHANGED <<delVars, faults>>
                   /\ lapsed' \subseteq lapsed
                   /\ \A c \in Builds :
                         rows'[c].life = "deleted" <=> rows[c].life = "deleted"
<1>1. ASSUME NEW rs, NEW ls, NEW S, Commit(h, rs, ls, S),
             \A c \in Builds : rs[c].life = "deleted" <=> rows[c].life = "deleted"
      PROVE  Goal
  BY <1>1 DEF Commit
<1> HIDE DEF Goal
<1>2. ASSUME NEW b \in Builds, NEW v \in Visibility, createBuild(h, b, v)
      PROVE  Goal
  <2> DEFINE rs == [rows EXCEPT ![b] = FreshRow("live", v)]
  <2>1. \A c \in Builds : rs[c].life = "deleted" <=> rows[c].life = "deleted"
    BY <1>2 DEF createBuild, FreshRow, TypeOK
  <2>2. Commit(h, rs, links, {})
    BY <1>2 DEF createBuild
  <2> HIDE DEF rs
  <2>3. QED
    BY <1>1, <2>1, <2>2
<1>3. ASSUME NEW b \in Builds, NEW v \in Visibility, patchBuild(h, b, v)
      PROVE  Goal
  <2> DEFINE rs == [rows EXCEPT ![b].ver = @ + 1, ![b].vis = v]
  <2>1. \A c \in Builds : rs[c].life = "deleted" <=> rows[c].life = "deleted"
    BY DEF TypeOK, Row
  <2>2. Commit(h, rs, links, withPartners(links, b))
    BY <1>3 DEF patchBuild
  <2> HIDE DEF rs
  <2>3. QED
    BY <1>1, <2>1, <2>2
<1>4. ASSUME NEW b \in Builds, NEW v \in Visibility, adminSetVisibility(h, b, v)
      PROVE  Goal
  <2> DEFINE rs == [rows EXCEPT ![b].vis = v]
  <2>1. \A c \in Builds : rs[c].life = "deleted" <=> rows[c].life = "deleted"
    BY DEF TypeOK, Row
  <2>2. Commit(h, rs, links, withPartners(links, b))
    BY <1>4 DEF adminSetVisibility
  <2> HIDE DEF rs
  <2>3. QED
    BY <1>1, <2>1, <2>2
<1>5. ASSUME NEW b \in Builds, arrangeStrip(h, b)
      PROVE  Goal
  <2> DEFINE rs == [rows EXCEPT ![b].lay = @ + 1]
  <2>1. \A c \in Builds : rs[c].life = "deleted" <=> rows[c].life = "deleted"
    BY DEF TypeOK, Row
  <2>2. Commit(h, rs, links, {b})
    BY <1>5 DEF arrangeStrip
  <2> HIDE DEF rs
  <2>3. QED
    BY <1>1, <2>1, <2>2
<1>6. ASSUME NEW a \in Builds, NEW b \in Builds,
             linkPartner(h, a, b) \/ unlinkPartner(h, a, b)
      PROVE  Goal
  BY <1>1, <1>6 DEF linkPartner, unlinkPartner
<1>7. Goal
  BY <1>2, <1>3, <1>4, <1>5, <1>6 DEF Statement
<1>8. QED
  BY <1>7 DEF Goal

LEMMA ScopesInvStep == ASSUME TypeOK, ScopesInv, [Next]_vars PROVE ScopesInv'
<1>1. ASSUME UNCHANGED delVars PROVE ScopesInv'
  BY <1>1 DEF ScopesInv, delVars
<1>2. ASSUME NEW h \in Handlers, EndDelete(h) PROVE ScopesInv'
  BY <1>2 DEF EndDelete, ScopesInv, TypeOK, Idle
<1>3. ASSUME NEW h \in Handlers, NEW b \in Builds, deleteBuild(h, b)
      PROVE  ScopesInv'
  <2>1. b \in snapshotSlugs({b})
    BY <1>3 DEF deleteBuild, Live, snapshotSlugs
  <2>2. /\ step' = [step EXCEPT ![h] = "deleteBuild"]
        /\ scope' = [scope EXCEPT ![h] = {b}]
        /\ slugs' = [slugs EXCEPT ![h] = snapshotSlugs({b})]
    BY <1>3 DEF deleteBuild, ReadSlugs
  <2>3. QED
    BY <2>1, <2>2 DEF ScopesInv, TypeOK
<1>4. ASSUME NEW h \in Handlers, NEW u \in Users, deleteUser(h, u)
      PROVE  ScopesInv'
  <2>1. /\ step' = [step EXCEPT ![h] = "deleteUser"]
        /\ scope' = [scope EXCEPT ![h] = {b \in Builds : AuthorOf[b] = u}]
        /\ \A k \in Handlers \ {h} : slugs'[k] = slugs[k]
    BY <1>4 DEF deleteUser, ReadSlugs, TypeOK
  <2>2. QED
    BY <2>1 DEF ScopesInv, TypeOK
<1>5. ASSUME NEW h \in Handlers, Mutate(h) PROVE ScopesInv'
  <2>1. CASE Statement(h)
    BY <1>1, <2>1, StatementsDeleteNothing
  <2>2. CASE CommitDelete(h) \/ DeleteFails(h)
    BY <1>2, <2>2 DEF CommitDelete, DeleteFails
  <2>3. QED
    BY <1>3, <1>4, <1>5, <2>1, <2>2 DEF Mutate, Statement
<1>6. QED
  BY <1>1, <1>5, QuietSteps DEF Next

\* Where nothing more is deleted or left to the TTL.
LEMMA LapsedKept ==
    ASSUME LapsedInv, TypeOK, lapsed' \subseteq lapsed, UNCHANGED faults,
           \A c \in Builds : rows'[c].life = "deleted" <=> rows[c].life = "deleted"
    PROVE  LapsedInv'
BY DEF LapsedInv, AuthorGone, TypeOK

\* The deleted builds of a delete were among its slugs, or went with all builds
\* of their author; the page of a build that was gone before does not change.
LEMMA DeleteLapsed ==
    ASSUME TypeOK, ScopesInv, LapsedInv, NEW h \in Handlers, CommitDelete(h)
    PROVE  LapsedInv'
<1>1. /\ rows' = RowsWithout(scope[h])
      /\ lapsed' = (lapsed \cup Changed(rows', links')) \ slugs[h]
      /\ UNCHANGED faults
  BY DEF CommitDelete
<1>2. \A c \in Builds : rows'[c].life = "deleted"
                           <=> c \in scope[h] \/ rows[c].life = "deleted"
  BY <1>1 DEF RowsWithout, TypeOK, Row
<1> SUFFICES ASSUME NEW b \in lapsed', rows'[b].life = "deleted", faults' = 0
             PROVE  AuthorGone(b)'
  BY DEF LapsedInv
<1>3. b \in Builds /\ b \notin slugs[h]
  BY <1>1 DEF Changed, TypeOK
<1>4. CASE b \in scope[h]
  <2>1. step[h] = "deleteUser"
    BY <1>3, <1>4 DEF CommitDelete, ScopesInv, TypeOK, HandlerStep
  <2>2. PICK u \in Users : scope[h] = {c \in Builds : AuthorOf[c] = u}
    BY <2>1 DEF ScopesInv
  <2>3. QED
    BY <1>2, <1>4, <2>2 DEF AuthorGone
<1>5. CASE b \notin scope[h]
  <2>1. rows[b].life = "deleted" /\ rows'[b] = rows[b]
    BY <1>1, <1>2, <1>3, <1>5 DEF RowsWithout
  <2>2. b \notin Changed(rows', links')
    BY <2>1 DEF Changed, Page, isAnonVisible
  <2>3. AuthorGone(b)
    BY <1>1, <2>1, <2>2 DEF LapsedInv
  <2>4. QED
    BY <1>2, <2>3 DEF AuthorGone
<1>6. QED
  BY <1>4, <1>5

LEMMA LapsedInvStep ==
    ASSUME TypeOK, ScopesInv, LapsedInv, [Next]_vars
    PROVE  LapsedInv'
<1>1. ASSUME UNCHANGED <<rows, lapsed, faults>> PROVE LapsedInv'
  BY <1>1, LapsedKept
<1>2. ASSUME faults' = faults + 1 PROVE LapsedInv'
  BY <1>2 DEF LapsedInv, TypeOK
<1>3. ASSUME NEW h \in Handlers, Mutate(h) PROVE LapsedInv'
  <2>1. CASE Statement(h)
    BY <2>1, StatementsDeleteNothing, LapsedKept
  <2>2. CASE CommitDelete(h)
    BY <2>2, DeleteLapsed
  <2>3. ASSUME NEW b \in Builds, deleteBuild(h, b) PROVE LapsedInv'
    BY <1>1, <2>3 DEF deleteBuild, ReadSlugs, dbVars
  <2>4. ASSUME NEW u \in Users, deleteUser(h, u) PROVE LapsedInv'
    BY <1>1, <2>4 DEF deleteUser, ReadSlugs, dbVars
  <2>5. CASE DeleteFails(h)
    BY <1>1, <2>5 DEF DeleteFails, dbVars
  <2>6. QED
    BY <1>3, <2>1, <2>2, <2>3, <2>4, <2>5 DEF Mutate, Statement
<1>4. CASE Background
  BY <1>1, <1>2, <1>4
     DEF Background, Refresh, ReadThrough, PutReadThrough, ReadThroughFails,
         Expire, RefreshLoad, RefreshPut1, RefreshWake, RefreshPut2,
         RefreshFails, dbVars
<1>5. ASSUME NEW h \in Handlers, invalidateBuilds(h) \/ LoseInvocation(h)
      PROVE  LapsedInv'
  BY <1>1, <1>2, <1>5 DEF invalidateBuilds, LoseInvocation, dbVars
<1>6. CASE UNCHANGED vars
  BY <1>1, <1>6 DEF vars
<1>7. QED
  BY <1>3, <1>4, <1>5, <1>6 DEF Next

-----------------------------------------------------------------------------
(* Background steps preserve the invariant                                  *)

\* InFlightInv and KvInv at one build.
FlightInv(b) ==
    \A w \in InFlight(b) :
        \/ loaded[w] \in {Missing, loadAnonSnapshot(b)}
        \/ b \in lapsed
        \/ \E h \in Handlers : Outlasts(<<h, b>>, w)

StoreInv(b) ==
    \/ IsFresh(b)
    \/ b \in lapsed
    \/ \E h \in Handlers : WillRepair(<<h, b>>)

LEMMA InvByBuild ==
    /\ InFlightInv <=> \A b \in Builds : FlightInv(b)
    /\ KvInv <=> \A b \in Builds : StoreInv(b)
BY DEF InFlightInv, KvInv, FlightInv, StoreInv

\* What is in flight for a build: a reader of it, or one of its jobs.
LEMMA InFlightParts ==
    ASSUME NEW b \in Builds
    PROVE  /\ \A r \in Readers : r \in InFlight(b) <=> reader[r] = b
           /\ \A j \in Jobs : j \in InFlight(b) <=> j[2] = b /\ phase[j] \in Putting
           /\ \A w \in InFlight(b) : w \in Readers \/ w \in Jobs
           /\ \A j \in Jobs : j[2] = b => \E h \in Handlers : j = <<h, b>>
BY SnapshotAssumption DEF InFlight, Jobs

\* Steps that leave the database and the lapsed builds alone.
LEMMA SamePage ==
    ASSUME UNCHANGED <<rows, links>>
    PROVE  \A b \in Builds : loadAnonSnapshot(b)' = loadAnonSnapshot(b)
BY DEF loadAnonSnapshot

\* No new page in flight, and no refresh gives up outlasting what is.
LEMMA FlightKept ==
    ASSUME NEW b \in Builds, FlightInv(b), UNCHANGED <<rows, links>>,
           lapsed \subseteq lapsed',
           \A w \in InFlight(b)' :
              \/ loaded'[w] = loadAnonSnapshot(b)
              \/ /\ w \in InFlight(b) /\ loaded'[w] = loaded[w]
                 /\ \A h \in Handlers :
                       Outlasts(<<h, b>>, w) => Outlasts(<<h, b>>, w)'
    PROVE  FlightInv(b)'
BY SamePage DEF FlightInv

\* Nothing is stored, and no refresh gives up repairing.
LEMMA StoreKept ==
    ASSUME NEW b \in Builds, StoreInv(b), UNCHANGED <<rows, links>>,
           lapsed \subseteq lapsed',
           kv'[b] \in {kv[b], Missing},
           \A h \in Handlers : WillRepair(<<h, b>>) => WillRepair(<<h, b>>)'
    PROVE  StoreInv(b)'
<1>1. loadAnonSnapshot(b)' = loadAnonSnapshot(b)
  BY SamePage
<1>2. QED
  BY <1>1 DEF StoreInv, IsFresh

LEMMA ReadThroughInv ==
    ASSUME TypeOK, NEW r \in Readers, NEW c \in Builds, ReadThrough(r, c),
           NEW b \in Builds, FlightInv(b), StoreInv(b)
    PROVE  FlightInv(b)' /\ StoreInv(b)'
<1>1. /\ reader[r] = Idle /\ UNCHANGED <<rows, links, kv, phase, racing, lapsed>>
      /\ reader' = [reader EXCEPT ![r] = c]
      /\ loaded' = [loaded EXCEPT ![r] = loadAnonSnapshot(c)]
  BY DEF ReadThrough, jobVars, dbVars
<1>2. r \in Writers /\ r \notin Jobs
  BY SnapshotAssumption DEF Writers
<1>3. loaded'[r] = loadAnonSnapshot(c) /\ \A w \in Writers \ {r} : loaded'[w] = loaded[w]
  BY <1>1, <1>2 DEF TypeOK
<1>4. \A w \in InFlight(b)' : \/ w = r /\ b = c
                              \/ w # r /\ w \in InFlight(b) /\ w \in Writers
  BY <1>1, <1>2 DEF InFlight, TypeOK, Writers
<1>5. \A h \in Handlers, w \in Writers : Outlasts(<<h, b>>, w) => Outlasts(<<h, b>>, w)'
  BY <1>1 DEF Outlasts
<1>6. \A h \in Handlers : WillRepair(<<h, b>>) => WillRepair(<<h, b>>)'
  <2>1. \A h \in Handlers : loaded'[<<h, b>>] = loaded[<<h, b>>]
    BY <1>2, <1>3, JobParts DEF Writers
  <2>2. QED
    BY <1>1, <2>1, SamePage, JobParts DEF WillRepair
<1>7. FlightInv(b)'
  BY <1>1, <1>3, <1>4, <1>5, FlightKept
<1>8. StoreInv(b)'
  BY <1>1, <1>6, StoreKept
<1>9. QED
  BY <1>7, <1>8

\* A read-through ends, stored or not.
LEMMA ReadThroughEndsInv ==
    ASSUME TypeOK, NEW r \in Readers, PutReadThrough(r) \/ ReadThroughFails(r),
           NEW b \in Builds, FlightInv(b), StoreInv(b)
    PROVE  FlightInv(b)' /\ StoreInv(b)'
<1>1. /\ reader[r] # Idle /\ UNCHANGED <<rows, links, phase, lapsed>>
      /\ reader' = [reader EXCEPT ![r] = Idle]
      /\ loaded' = [loaded EXCEPT ![r] = Missing]
      /\ racing' = Landed(r)
  BY DEF PutReadThrough, ReadThroughFails, dbVars
<1>2. r \in Writers /\ r \notin Jobs
  BY SnapshotAssumption DEF Writers
<1>3. \A w \in Writers \ {r} : loaded'[w] = loaded[w]
  BY <1>1, <1>2 DEF TypeOK
<1>4. \A w \in InFlight(b)' : w # r /\ w \in InFlight(b) /\ w \in Writers
  BY <1>1, <1>2, SnapshotAssumption DEF InFlight, TypeOK, Writers
<1>5. \A h \in Handlers, w \in Writers \ {r} :
         Outlasts(<<h, b>>, w) => Outlasts(<<h, b>>, w)'
  BY <1>1, JobParts DEF Outlasts, Landed
<1>6. \A h \in Handlers : WillRepair(<<h, b>>) => WillRepair(<<h, b>>)'
  <2>1. \A h \in Handlers : loaded'[<<h, b>>] = loaded[<<h, b>>]
    BY <1>2, <1>3, JobParts DEF Writers
  <2>2. QED
    BY <1>1, <2>1, SamePage, JobParts DEF WillRepair
<1>7. FlightInv(b)'
  BY <1>1, <1>3, <1>4, <1>5, FlightKept
<1>8. CASE kv'[b] = kv[b]
  BY <1>1, <1>6, <1>7, <1>8, StoreKept
<1>9. CASE kv'[b] # kv[b]
  <2>1. reader[r] = b /\ kv'[b] = loaded[r]
    BY <1>9 DEF PutReadThrough, ReadThroughFails, writeSnapshot, TypeOK
  <2>2. r \in InFlight(b)
    BY <2>1, InFlightParts
  <2>3. CASE loaded[r] \in {Missing, loadAnonSnapshot(b)}
    BY <1>1, <1>7, <2>1, <2>3, SamePage DEF StoreInv, IsFresh
  <2>4. CASE b \in lapsed
    BY <1>1, <1>7, <2>4 DEF StoreInv
  <2>5. ASSUME NEW h \in Handlers, Outlasts(<<h, b>>, r) PROVE StoreInv(b)'
    <3>1. WillRepair(<<h, b>>)'
      BY <1>1, <2>5 DEF Outlasts, WillRepair
    <3>2. QED
      BY <3>1 DEF StoreInv
  <2>6. QED
    BY <1>7, <2>2, <2>3, <2>4, <2>5 DEF FlightInv
<1>10. QED
  BY <1>8, <1>9

\* A step of one job leaves the other builds' refreshes and pages alone.
LEMMA OtherBuilds ==
    ASSUME TypeOK, NEW j \in Jobs, NEW b \in Builds, j[2] # b,
           FlightInv(b), StoreInv(b),
           UNCHANGED <<rows, links, reader>>,
           lapsed \subseteq lapsed',
           kv'[b] = kv[b],
           \A k \in Jobs \ {j} : /\ phase'[k] = phase[k]
                                 /\ racing[k] \ {j} \subseteq racing'[k],
           \A w \in Writers \ {j} : loaded'[w] = loaded[w]
    PROVE  FlightInv(b)' /\ StoreInv(b)'
<1>1. \A h \in Handlers : <<h, b>> \in Jobs \ {j}
  BY JobParts
<1>2. \A w \in InFlight(b)' : w \in InFlight(b) /\ w \in Writers \ {j}
  BY SnapshotAssumption DEF InFlight, Writers
<1>3. \A w \in InFlight(b)' :
         /\ w \in InFlight(b) /\ loaded'[w] = loaded[w]
         /\ \A h \in Handlers : Outlasts(<<h, b>>, w) => Outlasts(<<h, b>>, w)'
  BY <1>1, <1>2 DEF Outlasts
<1>4. \A h \in Handlers : WillRepair(<<h, b>>) => WillRepair(<<h, b>>)'
  BY <1>1, SamePage, JobParts DEF WillRepair, Writers
<1>5. FlightInv(b)'
  BY <1>3, FlightKept
<1>6. StoreInv(b)'
  BY <1>4, StoreKept
<1>7. QED
  BY <1>5, <1>6

LEMMA RefreshLoadInv ==
    ASSUME TypeOK, NEW j \in Jobs, RefreshLoad(j),
           NEW b \in Builds, FlightInv(b), StoreInv(b)
    PROVE  FlightInv(b)' /\ StoreInv(b)'
<1>1. /\ phase[j] \in Loading
      /\ phase' = [phase EXCEPT ![j] = IF @ = "load1" THEN "put1" ELSE "put2"]
      /\ loaded' = [loaded EXCEPT ![j] = loadAnonSnapshot(j[2])]
      /\ UNCHANGED <<kv, reader, racing, rows, links, lapsed>>
  BY DEF RefreshLoad, dbVars
<1>2. /\ \A k \in Jobs \ {j} : phase'[k] = phase[k]
      /\ \A w \in Writers \ {j} : loaded'[w] = loaded[w]
      /\ loaded'[j] = loadAnonSnapshot(j[2])
      /\ phase[j] = "load1" => phase'[j] = "put1"
      /\ phase[j] = "load2" => phase'[j] = "put2"
  BY <1>1 DEF TypeOK, Writers
<1>3. CASE j[2] # b
  BY <1>1, <1>2, <1>3, OtherBuilds
<1>4. CASE j[2] = b
  <2>1. \A w \in InFlight(b)' : \/ w = j
                                \/ w \in InFlight(b) /\ w \in Writers \ {j}
    BY <1>1, <1>2 DEF InFlight, Writers
  <2>2. \A k \in Jobs, w \in Writers : Outlasts(k, w) => Outlasts(k, w)'
    BY <1>1, <1>2 DEF Outlasts, Loading
  <2>3. \A k \in Jobs : WillRepair(k) => WillRepair(k)'
    <3> SUFFICES ASSUME NEW k \in Jobs, WillRepair(k) PROVE WillRepair(k)'
      OBVIOUS
    <3>1. j[2] \in Builds /\ k[2] \in Builds
      BY DEF Jobs
    <3>2. CASE k = j
      BY <1>1, <1>2, <3>1, <3>2, SamePage DEF WillRepair, Loading
    <3>3. CASE k # j
      BY <1>1, <1>2, <3>1, <3>3, SamePage DEF WillRepair, Writers
    <3>4. QED
      BY <3>2, <3>3
  <2>4. FlightInv(b)'
    BY <1>1, <1>2, <1>4, <2>1, <2>2, JobParts, FlightKept DEF Writers
  <2>5. StoreInv(b)'
    BY <1>1, <2>3, JobParts, StoreKept
  <2>6. QED
    BY <2>4, <2>5
<1>5. QED
  BY <1>3, <1>4

LEMMA RefreshPut1Inv ==
    ASSUME TypeOK, NEW j \in Jobs, RefreshPut1(j),
           NEW b \in Builds, FlightInv(b), StoreInv(b)
    PROVE  FlightInv(b)' /\ StoreInv(b)'
<1>1. /\ phase[j] = "put1"
      /\ kv' = [kv EXCEPT ![j[2]] = loaded[j]]
      /\ phase' = [phase EXCEPT ![j] = "wait"]
      /\ loaded' = [loaded EXCEPT ![j] = Missing]
      /\ racing' = [Landed(j) EXCEPT ![j] = InFlight(j[2]) \ {j}]
      /\ UNCHANGED <<reader, rows, links, lapsed>>
  BY DEF RefreshPut1, writeSnapshot, dbVars
<1>2. /\ \A k \in Jobs \ {j} : /\ phase'[k] = phase[k]
                               /\ racing'[k] = racing[k] \ {j}
      /\ phase'[j] = "wait" /\ racing'[j] = InFlight(j[2]) \ {j}
      /\ \A w \in Writers \ {j} : loaded'[w] = loaded[w]
      /\ \A c \in Builds : c # j[2] => kv'[c] = kv[c]
  BY <1>1 DEF TypeOK, Writers, Landed
<1>3. CASE j[2] # b
  BY <1>1, <1>2, <1>3, OtherBuilds
<1>4. CASE j[2] = b
  <2>1. PICK h \in Handlers : j = <<h, b>>
    BY <1>4, InFlightParts
  <2>2. \A w \in InFlight(b)' : w \in InFlight(b) /\ w # j
    BY <1>1, <1>2, SnapshotAssumption DEF InFlight, Putting
  <2>3. \A w \in InFlight(b)' : Outlasts(<<h, b>>, w)'
    BY <1>2, <1>4, <2>1, <2>2 DEF Outlasts
  <2>4. WillRepair(<<h, b>>)'
    BY <1>2, <2>1 DEF WillRepair
  <2>5. QED
    BY <2>3, <2>4 DEF FlightInv, StoreInv
<1>5. QED
  BY <1>3, <1>4

LEMMA RefreshWakeInv ==
    ASSUME TypeOK, NEW j \in Jobs, RefreshWake(j),
           NEW b \in Builds, FlightInv(b), StoreInv(b)
    PROVE  FlightInv(b)' /\ StoreInv(b)'
<1>1. /\ phase[j] = "wait" /\ racing[j] = {}
      /\ UNCHANGED <<kv, reader, loaded, racing, rows, links, lapsed>>
      /\ phase'[j] = "load2"
      /\ \A k \in Jobs \ {j} : phase'[k] = phase[k]
  BY DEF RefreshWake, dbVars, TypeOK
<1>2. InFlight(b)' = InFlight(b)
  BY <1>1 DEF InFlight, Putting
<1>3. \A k \in Jobs : \A w : Outlasts(k, w) => Outlasts(k, w)'
  BY <1>1 DEF Outlasts
<1>4. \A k \in Jobs : WillRepair(k) => WillRepair(k)'
  <2> SUFFICES ASSUME NEW k \in Jobs, WillRepair(k) PROVE WillRepair(k)'
    OBVIOUS
  <2>1. k[2] \in Builds
    BY DEF Jobs
  <2>2. QED
    BY <1>1, <2>1, SamePage DEF WillRepair
<1>5. FlightInv(b)'
  BY <1>1, <1>2, <1>3, JobParts, FlightKept
<1>6. StoreInv(b)'
  BY <1>1, <1>4, JobParts, StoreKept
<1>7. QED
  BY <1>5, <1>6

LEMMA RefreshPut2Inv ==
    ASSUME TypeOK, NEW j \in Jobs, RefreshPut2(j),
           NEW b \in Builds, FlightInv(b), StoreInv(b)
    PROVE  FlightInv(b)' /\ StoreInv(b)'
<1>1. /\ phase[j] = "put2"
      /\ kv' = [kv EXCEPT ![j[2]] = loaded[j]]
      /\ phase' = [phase EXCEPT ![j] = Idle]
      /\ loaded' = [loaded EXCEPT ![j] = Missing]
      /\ racing' = Landed(j)
      /\ UNCHANGED <<reader, rows, links, lapsed>>
  BY DEF RefreshPut2, writeSnapshot, dbVars
<1>2. /\ \A k \in Jobs \ {j} : phase'[k] = phase[k]
      /\ \A k \in Jobs : racing'[k] = racing[k] \ {j}
      /\ phase'[j] = Idle
      /\ \A w \in Writers \ {j} : loaded'[w] = loaded[w]
      /\ \A c \in Builds : c # j[2] => kv'[c] = kv[c]
      /\ j[2] \in Builds /\ kv'[j[2]] = loaded[j]
  BY <1>1 DEF TypeOK, Writers, Landed, Jobs
<1>3. CASE j[2] # b
  BY <1>1, <1>2, <1>3, OtherBuilds
<1>4. CASE j[2] = b
  <2>1. \A w \in InFlight(b)' : w \in InFlight(b) /\ w \in Writers \ {j}
    BY <1>1, <1>2, SnapshotAssumption DEF InFlight, Putting, Idle, Writers
  <2>2. \A k \in Jobs, w \in Writers \ {j} : Outlasts(k, w) => Outlasts(k, w)'
    BY <1>1, <1>2 DEF Outlasts
  <2>3. FlightInv(b)'
    BY <1>1, <1>2, <2>1, <2>2, JobParts, FlightKept
  <2>4. j \in InFlight(b)
    BY <1>1, <1>4, InFlightParts DEF Putting
  <2>5. CASE loaded[j] \in {Missing, loadAnonSnapshot(b)} \/ b \in lapsed
    BY <1>1, <1>2, <1>4, <2>3, <2>5, SamePage DEF StoreInv, IsFresh
  <2>6. ASSUME NEW h \in Handlers, Outlasts(<<h, b>>, j) PROVE StoreInv(b)'
    <3>1. <<h, b>> # j
      BY <1>1, <2>6 DEF Outlasts
    <3>2. WillRepair(<<h, b>>)'
      BY <1>2, <2>6, <3>1, JobParts DEF Outlasts, WillRepair
    <3>3. QED
      BY <3>2 DEF StoreInv
  <2>7. QED
    BY <2>3, <2>4, <2>5, <2>6 DEF FlightInv
<1>5. QED
  BY <1>3, <1>4

LEMMA RefreshFailsInv ==
    ASSUME TypeOK, NEW j \in Jobs, RefreshFails(j),
           NEW b \in Builds, FlightInv(b), StoreInv(b)
    PROVE  FlightInv(b)' /\ StoreInv(b)'
<1>1. /\ phase' = [phase EXCEPT ![j] = Idle]
      /\ loaded' = [loaded EXCEPT ![j] = Missing]
      /\ racing' = [Landed(j) EXCEPT ![j] = {}]
      /\ lapsed' = lapsed \cup {j[2]}
      /\ UNCHANGED <<kv, reader, rows, links>>
  BY DEF RefreshFails, dbVars
<1>2. /\ \A k \in Jobs \ {j} : /\ phase'[k] = phase[k]
                               /\ racing'[k] = racing[k] \ {j}
      /\ \A w \in Writers \ {j} : loaded'[w] = loaded[w]
  BY <1>1 DEF TypeOK, Writers, Landed
<1>3. CASE j[2] # b
  BY <1>1, <1>2, <1>3, OtherBuilds
<1>4. CASE j[2] = b
  BY <1>1, <1>4 DEF FlightInv, StoreInv
<1>5. QED
  BY <1>3, <1>4

\* invalidateBuilds, or the loss of the invocation before it.
LEMMA AfterCommitInv ==
    ASSUME TypeOK, NEW h \in Handlers, invalidateBuilds(h) \/ LoseInvocation(h),
           NEW b \in Builds, FlightInv(b), StoreInv(b)
    PROVE  FlightInv(b)' /\ StoreInv(b)'
<1>1. /\ UNCHANGED <<kv, reader, loaded, racing, rows, links>>
      /\ lapsed \subseteq lapsed'
  BY DEF invalidateBuilds, LoseInvocation, delVars, dbVars
<1>2. CASE b \in lapsed'
  BY <1>2 DEF FlightInv, StoreInv
<1>3. CASE b \notin lapsed'
  <2>1. \A k \in Jobs : k[2] = b => \/ phase'[k] = phase[k]
                                    \/ phase[k] = "owed" /\ phase'[k] = "load1"
    BY <1>1, <1>3 DEF invalidateBuilds, LoseInvocation, Jobs
  <2>2. InFlight(b)' = InFlight(b)
    BY <1>1, <2>1 DEF InFlight, Putting
  <2>3. \A k \in Jobs : \A w : k[2] = b /\ Outlasts(k, w) => Outlasts(k, w)'
    BY <1>1, <2>1 DEF Outlasts
  <2>4. \A k \in Jobs : k[2] = b /\ WillRepair(k) => WillRepair(k)'
    BY <1>1, <2>1, SamePage DEF WillRepair
  <2>5. FlightInv(b)'
    BY <1>1, <2>2, <2>3, JobParts, FlightKept
  <2>6. StoreInv(b)'
    BY <1>1, <2>4, JobParts, StoreKept
  <2>7. QED
    BY <2>5, <2>6
<1>4. QED
  BY <1>2, <1>3

LEMMA BackgroundInv ==
    ASSUME TypeOK, Background, NEW b \in Builds, FlightInv(b), StoreInv(b)
    PROVE  FlightInv(b)' /\ StoreInv(b)'
<1>1. ASSUME NEW c \in Builds, Expire(c) PROVE FlightInv(b)' /\ StoreInv(b)'
  <2>1. /\ UNCHANGED <<reader, loaded, phase, racing, rows, links, lapsed>>
        /\ kv'[b] \in {kv[b], Missing}
    BY <1>1 DEF Expire, jobVars, dbVars, TypeOK
  <2>2. FlightInv(b)'
    BY <2>1, SamePage DEF FlightInv, InFlight, Outlasts
  <2>3. \A h \in Handlers : WillRepair(<<h, b>>) => WillRepair(<<h, b>>)'
    BY <2>1, SamePage, JobParts DEF WillRepair
  <2>4. QED
    BY <2>1, <2>2, <2>3, StoreKept
<1>2. ASSUME NEW r \in Readers,
             (\E c \in Builds : ReadThrough(r, c))
                 \/ PutReadThrough(r) \/ ReadThroughFails(r)
      PROVE  FlightInv(b)' /\ StoreInv(b)'
  BY <1>2, ReadThroughInv, ReadThroughEndsInv
<1>3. ASSUME NEW j \in Jobs, Refresh(j) \/ RefreshFails(j)
      PROVE  FlightInv(b)' /\ StoreInv(b)'
  BY <1>3, RefreshLoadInv, RefreshPut1Inv, RefreshWakeInv, RefreshPut2Inv,
     RefreshFailsInv DEF Refresh
<1>4. QED
  BY <1>1, <1>2, <1>3 DEF Background

-----------------------------------------------------------------------------
(* The safety theorem                                                       *)

LEMMA InitInv == Init => IInv
<1> SUFFICES ASSUME Init PROVE IInv
  OBVIOUS
<1>1. TypeOK
  BY InitType
<1>2. LinksInv
  BY DEF Init, LinksInv, Live
<1>3. \A b \in Builds : IsFresh(b)
  BY DEF Init, IsFresh, loadAnonSnapshot
<1>4. \A b \in Builds : InFlight(b) = {}
  BY SnapshotAssumption DEF Init, InFlight, Idle, Putting
<1>5. ScopesInv /\ LapsedInv
  BY DEF Init, ScopesInv, LapsedInv, Idle
<1>6. QED
  BY <1>1, <1>2, <1>3, <1>4, <1>5 DEF IInv, InFlightInv, KvInv

LEMMA StepInv == ASSUME IInv, [Next]_vars PROVE IInv'
<1>1. TypeOK /\ LinksInv /\ ScopesInv /\ LapsedInv /\ InFlightInv /\ KvInv
  BY DEF IInv
<1>2. TypeOK'
  BY <1>1, TypeStep
<1>3. LinksInv' /\ ScopesInv' /\ LapsedInv'
  BY <1>1, LinksInvStep, ScopesInvStep, LapsedInvStep
<1>4. InFlightInv' /\ KvInv'
  <2>1. ASSUME NEW h \in Handlers, Mutate(h) PROVE InFlightInv' /\ KvInv'
    BY <2>1, MutateInv
  <2>2. ASSUME \A b \in Builds : FlightInv(b)' /\ StoreInv(b)'
        PROVE  InFlightInv' /\ KvInv'
    BY <2>2 DEF InFlightInv, KvInv, FlightInv, StoreInv
  <2>3. \A b \in Builds : FlightInv(b) /\ StoreInv(b)
    BY <1>1, InvByBuild
  <2>4. ASSUME NEW h \in Handlers, invalidateBuilds(h) \/ LoseInvocation(h)
        PROVE  InFlightInv' /\ KvInv'
    BY <1>1, <2>2, <2>3, <2>4, AfterCommitInv
  <2>5. CASE Background
    BY <1>1, <2>2, <2>3, <2>5, BackgroundInv
  <2>6. CASE UNCHANGED vars
    <3>1. /\ UNCHANGED <<kv, lapsed>>
          /\ \A b \in Builds : UNCHANGED <<InFlight(b), loadAnonSnapshot(b)>>
          /\ \A j \in Jobs : WillRepair(j)' = WillRepair(j)
          /\ \A j \in Jobs : \A w : Outlasts(j, w)' = Outlasts(j, w)
          /\ loaded' = loaded
      BY <2>6 DEF vars, InFlight, loadAnonSnapshot, WillRepair, Outlasts
    <3>2. QED
      BY <1>1, <3>1, JobParts DEF InFlightInv, KvInv, IsFresh
  <2>7. QED
    BY <2>1, <2>4, <2>5, <2>6 DEF Next
<1>5. QED
  BY <1>2, <1>3, <1>4 DEF IInv

THEOREM InductiveInvariant == Spec => []IInv
BY InitInv, StepInv, PTL DEF Spec

\* A refresh that will repair a page is under way.
LEMMA IInvImpliesSettled == IInv => SettledIsFresh
BY DEF IInv, KvInv, SettledIsFresh, Refreshing, WillRepair, Idle

\* Once the refreshes of a build are over, its snapshot is the page anonymous
\* viewers may see, or gone: however many authors, admins and viewers race.
THEOREM SettledSnapshotsAreFresh == Spec => []SettledIsFresh
BY InductiveInvariant, IInvImpliesSettled, PTL

-----------------------------------------------------------------------------
(* No changed page is forgotten, but by a delete that read too early        *)

LEMMA ChangedIsOwed ==
    ASSUME TypeOK, LinksInv, [Next]_vars,
           NEW b \in Builds, Live(b), loadAnonSnapshot(b)' # loadAnonSnapshot(b)
    PROVE  \E h \in Handlers : \/ phase'[<<h, b>>] = "owed"
                               \/ EndsDelete(h) /\ b \notin slugs[h]
<1> DEFINE Goal == \E h \in Handlers : \/ phase'[<<h, b>>] = "owed"
                                       \/ EndsDelete(h) /\ b \notin slugs[h]
<1>1. ~UNCHANGED <<rows, links>>
  BY SamePage
<1>2. ASSUME NEW h \in Handlers, Statement(h) PROVE Goal
  <2>1. PICK rs, ls, S :
           /\ Commit(h, rs, ls, S)
           /\ \A c \in Builds \ S :
                 Page(rs, ls, c) = Page(rows, links, c) \/ ~Live(c)
    BY <1>2, StatementReports DEF Reported
  <2>2. loadAnonSnapshot(b)' = Page(rs, ls, b)
    BY <2>1 DEF Commit, loadAnonSnapshot
  <2>3. b \in S
    BY <2>1, <2>2 DEF loadAnonSnapshot
  <2>4. QED
    BY <2>1, <2>3, JobParts DEF Commit, Owe
<1>3. ASSUME NEW h \in Handlers, CommitDelete(h) PROVE Goal
  <2>1. EndsDelete(h) /\ Owe(h, slugs[h])
    BY <1>3 DEF CommitDelete, EndDelete, EndsDelete, TypeOK
  <2>2. b \in slugs[h] => phase'[<<h, b>>] = "owed"
    BY <2>1, JobParts DEF Owe
  <2>3. QED
    BY <2>1, <2>2
<1>4. ASSUME NEW h \in Handlers, Mutate(h) PROVE Statement(h) \/ CommitDelete(h)
  <2>1. /\ \A c \in Builds : ~deleteBuild(h, c)
        /\ \A u \in Users : ~deleteUser(h, u)
        /\ ~DeleteFails(h)
    BY <1>1 DEF deleteBuild, deleteUser, ReadSlugs, DeleteFails, dbVars
  <2>2. QED
    BY <1>4, <2>1 DEF Mutate, Statement
<1>5. \E h \in Handlers : Mutate(h)
  BY <1>1, QuietSteps DEF Next
<1>6. QED
  BY <1>2, <1>3, <1>4, <1>5

\* The builds of S have no page once they are deleted; and what remains of the
\* strip of any build whose card none of them showed is what it was.
LEMMA SlugsCoverTheDelete ==
    ASSUME TypeOK, LinksInv, NEW S \in SUBSET Builds
    PROVE  Changed(RowsWithout(S), LinksWithout(S)) \subseteq snapshotSlugs(S)
<1> SUFFICES ASSUME NEW b \in Builds, b \notin snapshotSlugs(S)
             PROVE  Page(RowsWithout(S), LinksWithout(S), b) = Page(rows, links, b)
  BY DEF Changed
<1>1. CASE b \in S
  <2>1. ~Live(b)
    BY <1>1 DEF snapshotSlugs, Live
  <2>2. RowsWithout(S)[b].life = "deleted"
    BY <1>1 DEF RowsWithout, TypeOK, Row
  <2>3. Page(RowsWithout(S), LinksWithout(S), b) = Missing
    BY <2>2 DEF Page, isAnonVisible
  <2>4. QED
    BY <2>1, <2>3, HiddenPage DEF loadAnonSnapshot
<1>2. CASE b \notin S
  <2>1. \A p \in partnersOf(links, b) : p \notin S
    <3> SUFFICES ASSUME NEW p \in partnersOf(links, b), p \in S
                 PROVE  FALSE
      OBVIOUS
    <3>1. p \in Builds /\ <<p, b>> \in links /\ Live(p)
      BY DEF partnersOf, LinksInv, Symmetric
    <3>2. b \in partnersOf(links, p)
      BY <3>1 DEF partnersOf
    <3>3. QED
      BY <3>1, <3>2 DEF snapshotSlugs, Live
  <2>2. partnersOf(LinksWithout(S), b) = partnersOf(links, b)
    BY <1>2, <2>1 DEF partnersOf, LinksWithout
  <2>3. /\ RowsWithout(S)[b] = rows[b]
        /\ \A p \in partnersOf(links, b) : RowsWithout(S)[p] = rows[p]
    BY <1>2, <2>1 DEF RowsWithout, partnersOf
  <2>4. QED
    BY <2>2, <2>3, PageLocal
<1>3. QED
  BY <1>1, <1>2

LEMMA ReadsCoverTheDelete ==
    ASSUME TypeOK, LinksInv, [Next]_vars, NEW h \in Handlers, ReadsSlugs(h)
    PROVE  Changed(RowsWithout(scope'[h]), LinksWithout(scope'[h]))
              \subseteq slugs'[h]
<1>1. step'[h] # step[h]
  BY DEF ReadsSlugs
<1>2. ASSUME NEW k \in Handlers, NEW kind, NEW S \in SUBSET Builds,
             ReadSlugs(k, kind, S)
      PROVE  Changed(RowsWithout(scope'[h]), LinksWithout(scope'[h]))
                \subseteq slugs'[h]
  <2>1. k = h
    BY <1>1, <1>2 DEF ReadSlugs, TypeOK
  <2>2. scope'[h] = S /\ slugs'[h] = snapshotSlugs(S)
    BY <1>2, <2>1 DEF ReadSlugs, TypeOK
  <2>3. QED
    BY <2>2, SlugsCoverTheDelete
<1>3. ASSUME NEW k \in Handlers, EndDelete(k) PROVE FALSE
  BY <1>1, <1>3 DEF EndDelete, ReadsSlugs, TypeOK
<1>4. ASSUME UNCHANGED delVars PROVE FALSE
  BY <1>1, <1>4 DEF delVars
<1>5. PICK k \in Handlers : Mutate(k)
  BY <1>4, QuietSteps DEF Next
<1>6. ~Statement(k)
  BY <1>4, StatementsDeleteNothing
<1>7. ~CommitDelete(k) /\ ~DeleteFails(k)
  BY <1>3 DEF CommitDelete, DeleteFails
<1>8. ASSUME NEW b \in Builds, deleteBuild(k, b)
      PROVE  Changed(RowsWithout(scope'[h]), LinksWithout(scope'[h]))
                \subseteq slugs'[h]
  BY <1>2, <1>8 DEF deleteBuild
<1>9. ASSUME NEW u \in Users, deleteUser(k, u)
      PROVE  Changed(RowsWithout(scope'[h]), LinksWithout(scope'[h]))
                \subseteq slugs'[h]
  BY <1>2, <1>9 DEF deleteUser
<1>10. QED
  BY <1>5, <1>6, <1>7, <1>8, <1>9 DEF Mutate, Statement

\* Every statement that changes a page anonymous viewers may have cached owes
\* that page a refresh, however many requests are served at a time; but a delete
\* owes it only to the pages that it changed when it read its slugs.
THEOREM ChangedPagesAreRefreshed == Spec => EveryChangedPageIsRefreshed
<1>1. IInv /\ [Next]_vars
         => [/\ \A b \in Builds :
                   (Live(b) /\ loadAnonSnapshot(b)' # loadAnonSnapshot(b))
                      => \E h \in Handlers :
                            \/ phase'[<<h, b>>] = "owed"
                            \/ EndsDelete(h) /\ b \notin slugs[h]
             /\ \A h \in Handlers :
                   ReadsSlugs(h)
                      => Changed(RowsWithout(scope'[h]), LinksWithout(scope'[h]))
                            \subseteq slugs'[h]]_vars
  BY ChangedIsOwed, ReadsCoverTheDelete DEF IInv
<1>2. QED
  BY <1>1, InductiveInvariant, PTL DEF Spec, EveryChangedPageIsRefreshed

-----------------------------------------------------------------------------
(* Which deleted builds stay in KV                                          *)

\* "A PRIVATE or deleted build is never stored": so it is once the refreshes
\* are over, whatever the requests do at the same time; but for a build whose
\* refresh a fault took, or one that went with all the builds of its author and
\* was unknown to the delete.
THEOREM DeletedBuildsGoFromKv == Spec => []OnlyLostOrLateDeletesLinger
<1>1. IInv => OnlyLostOrLateDeletesLinger
  <2> SUFFICES ASSUME IInv, NEW b \in Builds,
                      rows[b].life = "deleted", ~Refreshing(b), kv[b] # Missing
               PROVE  b \in lapsed /\ (faults = 0 => AuthorGone(b))
    BY DEF OnlyLostOrLateDeletesLinger
  <2>1. loadAnonSnapshot(b) = Missing
    BY HiddenPage DEF Live
  <2>2. b \in lapsed
    BY <2>1, IInvImpliesSettled DEF SettledIsFresh, IsFresh
  <2>3. QED
    BY <2>2 DEF IInv, LapsedInv
<1>2. QED
  BY <1>1, InductiveInvariant, PTL

-----------------------------------------------------------------------------
(* BuildSnapshot implements EventualCache: every step of the handlers and   *)
(* of their background work is a write of the truth, a store into the       *)
(* cache, or neither.                                                       *)

\* The cached keys that may be out of date.
Unsettled == {b \in Builds : Refreshing(b)} \cup lapsed

LEMMA TruthType == TypeOK => [b \in Builds |-> loadAnonSnapshot(b)] \in [Builds -> BodyOrMissing]
BY PageType DEF TypeOK, loadAnonSnapshot

\* A job that stays under way leaves its build unsettled.
LEMMA SameUnsettled ==
    ASSUME TypeOK, TypeOK', lapsed \subseteq lapsed',
           \A h \in Handlers, b \in Builds :
              \/ (phase'[<<h, b>>] # Idle) <=> (phase[<<h, b>>] # Idle)
              \/ phase[<<h, b>>] # Idle /\ b \in lapsed',
           \A b \in lapsed' : b \in Unsettled
    PROVE  Unsettled' = Unsettled
<1>1. Unsettled \subseteq Builds /\ Unsettled' \subseteq Builds
  BY DEF Unsettled, TypeOK
<1>2. \A b \in Builds : b \in Unsettled' <=> b \in Unsettled
  <2> SUFFICES ASSUME NEW b \in Builds PROVE b \in Unsettled' <=> b \in Unsettled
    OBVIOUS
  <2>1. b \in Unsettled' <=> b \in lapsed' \/ \E h \in Handlers : phase'[<<h, b>>] # Idle
    BY DEF Unsettled, Refreshing
  <2>2. b \in Unsettled <=> b \in lapsed \/ \E h \in Handlers : phase[<<h, b>>] # Idle
    BY DEF Unsettled, Refreshing
  <2>3. QED
    BY <2>1, <2>2
<1>3. QED
  BY <1>1, <1>2

-----------------------------------------------------------------------------
(* The three kinds of steps                                                 *)

LEMMA IsWrite ==
    ASSUME TypeOK, TypeOK', SettledIsFresh',
           UNCHANGED kv, Unsettled \subseteq Unsettled'
    PROVE  Abstract!Write
<1>1. [b \in Builds |-> loadAnonSnapshot(b)'] \in [Builds -> BodyOrMissing]
  BY PageType DEF TypeOK, loadAnonSnapshot
<1>2. Unsettled' \in SUBSET Builds
  BY DEF Unsettled, TypeOK
<1>3. \A b \in Builds \ Unsettled' : kv'[b] \in {Missing, loadAnonSnapshot(b)'}
  BY DEF SettledIsFresh, IsFresh, Unsettled
<1>4. QED
  BY <1>1, <1>2, <1>3 DEF Abstract!Write, Abstract!Fresh, Unsettled

LEMMA IsStore ==
    ASSUME TypeOK, TypeOK', SettledIsFresh', NEW k \in Builds,
           UNCHANGED <<rows, links>>,
           \A b \in Builds \ {k} : kv'[b] = kv[b],
           Unsettled' \in {Unsettled, Unsettled \ {k}}
    PROVE  Abstract!Store(k)
<1>1. kv' \in [Builds -> BodyOrMissing]
  BY DEF TypeOK
<1>2. [b \in Builds |-> loadAnonSnapshot(b)'] = [b \in Builds |-> loadAnonSnapshot(b)]
  BY SamePage
<1>3. k \notin Unsettled' => kv'[k] \in {Missing, loadAnonSnapshot(k)'}
  BY DEF SettledIsFresh, IsFresh, Unsettled
<1>4. QED
  BY <1>1, <1>2, <1>3 DEF Abstract!Store, Abstract!Fresh, Unsettled

LEMMA IsStutter ==
    ASSUME UNCHANGED <<rows, links, kv>>, Unsettled' = Unsettled
    PROVE  UNCHANGED Abstract!vars
<1>1. [b \in Builds |-> loadAnonSnapshot(b)'] = [b \in Builds |-> loadAnonSnapshot(b)]
  BY SamePage
<1>2. QED
  BY <1>1 DEF Abstract!vars, Unsettled

-----------------------------------------------------------------------------
(* Every step is one of them                                                *)

LEMMA MutateIsWrite ==
    ASSUME TypeOK, TypeOK', SettledIsFresh', NEW h \in Handlers, Mutate(h)
    PROVE  Abstract!Write
<1>1. ASSUME NEW rs, NEW ls, NEW S, Commit(h, rs, ls, S)
      PROVE  /\ kv' = kv
             /\ \A b \in lapsed : b \in lapsed' \/ phase'[<<h, b>>] = "owed"
             /\ \A j \in Jobs : phase'[j] \in {phase[j], "owed"}
  BY <1>1, JobParts DEF Commit, Owe, TypeOK
<1>2. /\ kv' = kv
      /\ \A b \in lapsed : b \in lapsed' \/ phase'[<<h, b>>] = "owed"
      /\ \A j \in Jobs : phase'[j] \in {phase[j], "owed"}
  <2>1. ASSUME NEW b \in Builds, NEW v \in Visibility,
               \/ createBuild(h, b, v)
               \/ patchBuild(h, b, v)
               \/ adminSetVisibility(h, b, v)
        PROVE  <1>2
    BY <1>1, <2>1 DEF createBuild, patchBuild, adminSetVisibility
  <2>2. ASSUME NEW b \in Builds, NEW p \in Builds,
               arrangeStrip(h, b) \/ linkPartner(h, b, p) \/ unlinkPartner(h, b, p)
        PROVE  <1>2
    BY <1>1, <2>2 DEF arrangeStrip, linkPartner, unlinkPartner
  <2>3. ASSUME NEW b \in Builds, deleteBuild(h, b) PROVE <1>2
    BY <2>3 DEF deleteBuild, ReadSlugs, jobVars
  <2>4. ASSUME NEW u \in Users, deleteUser(h, u) PROVE <1>2
    BY <2>4 DEF deleteUser, ReadSlugs, jobVars
  <2>5. CASE CommitDelete(h)
    BY <2>5, JobParts DEF CommitDelete, Owe, TypeOK
  <2>6. CASE DeleteFails(h)
    BY <2>6 DEF DeleteFails, jobVars
  <2>7. QED
    BY <2>1, <2>2, <2>3, <2>4, <2>5, <2>6 DEF Mutate
<1>3. \A k \in Handlers, b \in Builds :
         phase[<<k, b>>] # Idle => phase'[<<k, b>>] # Idle
  BY <1>2, JobParts DEF Idle
<1>4. Unsettled \subseteq Unsettled'
  BY <1>2, <1>3 DEF Unsettled, Refreshing, TypeOK, Idle
<1>5. QED
  BY <1>2, <1>4, IsWrite

\* The steps of readers, and of jobs that do not end.
LEMMA ReaderStep ==
    ASSUME TypeOK, TypeOK', SettledIsFresh', NEW r \in Readers,
           \/ \E b \in Builds : ReadThrough(r, b)
           \/ PutReadThrough(r)
           \/ ReadThroughFails(r)
    PROVE  (\E k \in Builds : Abstract!Store(k)) \/ UNCHANGED Abstract!vars
<1>1. UNCHANGED <<rows, links, phase, lapsed>>
  BY DEF ReadThrough, PutReadThrough, ReadThroughFails, jobVars, dbVars
<1>2. Unsettled' = Unsettled
  BY <1>1 DEF Unsettled, Refreshing
<1>3. CASE kv' = kv
  BY <1>1, <1>2, <1>3, IsStutter
<1>4. CASE kv' # kv
  <2>1. reader[r] \in Builds /\ kv' = [kv EXCEPT ![reader[r]] = loaded[r]]
    BY <1>4 DEF ReadThrough, PutReadThrough, ReadThroughFails, writeSnapshot, TypeOK
  <2>2. \A b \in Builds \ {reader[r]} : kv'[b] = kv[b]
    BY <2>1 DEF TypeOK
  <2>3. QED
    BY <1>1, <1>2, <2>1, <2>2, IsStore
<1>5. QED
  BY <1>3, <1>4

\* What is unsettled about the other builds, when a job of one goes on or ends.
LEMMA OthersUnsettled ==
    ASSUME NEW c, lapsed \subseteq lapsed', lapsed' \subseteq lapsed \cup {c},
           \A h \in Handlers, b \in Builds :
              b # c => phase'[<<h, b>>] = phase[<<h, b>>]
    PROVE  \A b \in Builds \ {c} : b \in Unsettled' <=> b \in Unsettled
<1> SUFFICES ASSUME NEW b \in Builds, b # c
             PROVE  b \in Unsettled' <=> b \in Unsettled
  OBVIOUS
<1>1. b \in Unsettled' <=> b \in lapsed' \/ \E h \in Handlers : phase'[<<h, b>>] # Idle
  BY DEF Unsettled, Refreshing
<1>2. b \in Unsettled <=> b \in lapsed \/ \E h \in Handlers : phase[<<h, b>>] # Idle
  BY DEF Unsettled, Refreshing
<1>3. QED
  BY <1>1, <1>2

LEMMA JobStep ==
    ASSUME TypeOK, TypeOK', SettledIsFresh', NEW j \in Jobs,
           Refresh(j) \/ RefreshFails(j)
    PROVE  (\E k \in Builds : Abstract!Store(k)) \/ UNCHANGED Abstract!vars
<1>1. /\ UNCHANGED <<rows, links>>
      /\ j[1] \in Handlers /\ j[2] \in Builds /\ j = <<j[1], j[2]>>
      /\ \A k \in Jobs \ {j} : phase'[k] = phase[k]
      /\ phase[j] # Idle
  <2>1. j[1] \in Handlers /\ j[2] \in Builds /\ j = <<j[1], j[2]>>
    BY DEF Jobs
  <2>2. UNCHANGED <<rows, links>>
    BY DEF Refresh, RefreshLoad, RefreshPut1, RefreshWake, RefreshPut2,
           RefreshFails, dbVars
  <2>3. phase[j] # Idle
    BY DEF Refresh, RefreshLoad, RefreshPut1, RefreshWake, RefreshPut2,
           RefreshFails, Loading, Putting, Idle
  <2>4. \A k \in Jobs \ {j} : phase'[k] = phase[k]
    BY DEF Refresh, RefreshLoad, RefreshPut1, RefreshWake, RefreshPut2,
           RefreshFails, TypeOK
  <2>5. QED
    BY <2>1, <2>2, <2>3, <2>4
<1>2. \A h \in Handlers, b \in Builds :
         <<h, b>> # j => phase'[<<h, b>>] = phase[<<h, b>>]
  BY <1>1, JobParts
<1>3. j[2] \in Unsettled
  BY <1>1 DEF Unsettled, Refreshing
<1>4. CASE RefreshLoad(j) \/ RefreshWake(j) \/ RefreshPut1(j)
  <2>1. phase'[j] # Idle /\ lapsed' = lapsed
    BY <1>4 DEF RefreshLoad, RefreshWake, RefreshPut1, TypeOK, Idle
  <2>2. Unsettled' = Unsettled
    <3>1. \A h \in Handlers, b \in Builds :
             (phase'[<<h, b>>] # Idle) <=> (phase[<<h, b>>] # Idle)
      BY <1>1, <1>2, <2>1
    <3>2. QED
      BY <2>1, <3>1 DEF Unsettled, Refreshing
  <2>3. CASE RefreshPut1(j)
    <3>1. \A b \in Builds \ {j[2]} : kv'[b] = kv[b]
      BY <2>3 DEF RefreshPut1, writeSnapshot, TypeOK
    <3>2. QED
      BY <1>1, <2>2, <3>1, IsStore
  <2>4. CASE kv' = kv
    BY <1>1, <2>2, <2>4, IsStutter
  <2>5. QED
    BY <1>4, <2>3, <2>4 DEF RefreshLoad, RefreshWake
<1>5. CASE RefreshPut2(j)
  <2>1. lapsed' = lapsed
    BY <1>5 DEF RefreshPut2
  <2>2. \A b \in Builds \ {j[2]} : kv'[b] = kv[b]
    BY <1>5 DEF RefreshPut2, writeSnapshot, TypeOK
  <2>3. \A b \in Builds \ {j[2]} : b \in Unsettled' <=> b \in Unsettled
    BY <1>1, <1>2, <2>1, JobParts, OthersUnsettled
  <2>4. Unsettled \subseteq Builds /\ Unsettled' \subseteq Builds
    BY DEF Unsettled, TypeOK
  <2>5. Unsettled' \in {Unsettled, Unsettled \ {j[2]}}
    BY <1>1, <1>3, <2>3, <2>4
  <2>6. QED
    BY <1>1, <2>2, <2>5, IsStore
<1>6. CASE RefreshFails(j)
  <2>1. lapsed' = lapsed \cup {j[2]} /\ kv' = kv
    BY <1>6 DEF RefreshFails
  <2>2. \A b \in Builds \ {j[2]} : b \in Unsettled' <=> b \in Unsettled
    BY <1>1, <1>2, <2>1, JobParts, OthersUnsettled
  <2>3. j[2] \in Unsettled'
    BY <2>1 DEF Unsettled
  <2>4. Unsettled \subseteq Builds /\ Unsettled' \subseteq Builds
    BY DEF Unsettled, TypeOK
  <2>5. Unsettled' = Unsettled
    BY <1>1, <1>3, <2>2, <2>3, <2>4
  <2>6. QED
    BY <1>1, <2>1, <2>5, IsStutter
<1>7. QED
  BY <1>4, <1>5, <1>6 DEF Refresh

LEMMA AfterCommitStep ==
    ASSUME TypeOK, TypeOK', NEW h \in Handlers,
           invalidateBuilds(h) \/ LoseInvocation(h)
    PROVE  UNCHANGED Abstract!vars
<1>1. UNCHANGED <<rows, links, kv>>
  BY DEF invalidateBuilds, LoseInvocation, dbVars
<1>2. \A k \in Handlers, b \in Builds :
         \/ phase'[<<k, b>>] = phase[<<k, b>>]
         \/ /\ phase[<<k, b>>] = "owed"
            /\ phase'[<<k, b>>] = "load1" \/ b \in lapsed'
  <2>1. CASE invalidateBuilds(h)
    BY <2>1, JobParts DEF invalidateBuilds
  <2>2. CASE LoseInvocation(h)
    <3> DEFINE owed == {b \in Builds : phase[<<h, b>>] = "owed"}
    <3>1. /\ lapsed' = lapsed \cup owed
          /\ phase' = [j \in Jobs |-> IF j[1] = h /\ j[2] \in owed
                                      THEN Idle ELSE phase[j]]
      BY <2>2 DEF LoseInvocation
    <3>2. QED
      BY <3>1, JobParts
  <2>3. QED
    BY <2>1, <2>2
<1>3. lapsed \subseteq lapsed' /\ \A b \in lapsed' : b \in Unsettled
  BY DEF invalidateBuilds, LoseInvocation, Unsettled, Refreshing, Idle
<1>4. Unsettled' = Unsettled
  <2>1. \A k \in Handlers, b \in Builds :
           \/ (phase'[<<k, b>>] # Idle) <=> (phase[<<k, b>>] # Idle)
           \/ phase[<<k, b>>] # Idle /\ b \in lapsed'
    BY <1>2 DEF Idle
  <2>2. QED
    BY <1>3, <2>1, SameUnsettled
<1>5. QED
  BY <1>1, <1>4, IsStutter

LEMMA ImplementsInit == Init => Abstract!Init
<1> SUFFICES ASSUME Init PROVE Abstract!Init
  OBVIOUS
<1>1. TypeOK
  BY InitType
<1>2. [b \in Builds |-> loadAnonSnapshot(b)] \in [Builds -> BodyOrMissing]
  BY <1>1, TruthType
<1>3. {b \in Builds : Refreshing(b)} \cup lapsed = {}
  BY JobParts DEF Init, Refreshing
<1>4. \A b \in Builds : kv[b] = loadAnonSnapshot(b)
  BY DEF Init, loadAnonSnapshot
<1>5. QED
  BY <1>1, <1>2, <1>3, <1>4 DEF Abstract!Init, Abstract!Fresh, TypeOK

LEMMA ImplementsStep ==
    ASSUME TypeOK, TypeOK', SettledIsFresh', [Next]_vars
    PROVE  [Abstract!Next]_(Abstract!vars)
<1>1. ASSUME NEW h \in Handlers, Mutate(h) PROVE Abstract!Next
  BY <1>1, MutateIsWrite DEF Abstract!Next
<1>2. ASSUME NEW h \in Handlers, invalidateBuilds(h) \/ LoseInvocation(h)
      PROVE  UNCHANGED Abstract!vars
  BY <1>2, AfterCommitStep
<1>3. CASE Background
  <2>1. ASSUME NEW b \in Builds, Expire(b) PROVE Abstract!Store(b)
    <3>1. /\ UNCHANGED <<rows, links, phase, lapsed>>
          /\ \A c \in Builds \ {b} : kv'[c] = kv[c]
      BY <2>1 DEF Expire, jobVars, dbVars, TypeOK
    <3>2. Unsettled' = Unsettled
      BY <3>1 DEF Unsettled, Refreshing
    <3>3. QED
      BY <3>1, <3>2, IsStore
  <2>2. QED
    BY <1>3, <2>1, ReaderStep, JobStep DEF Background, Abstract!Next
<1>4. CASE UNCHANGED vars
  <2>1. UNCHANGED <<rows, links, kv, phase, lapsed>>
    BY <1>4 DEF vars
  <2>2. Unsettled' = Unsettled
    BY <2>1 DEF Unsettled, Refreshing
  <2>3. QED
    BY <2>1, <2>2, IsStutter
<1>5. QED
  BY <1>1, <1>2, <1>3, <1>4 DEF Next

\* The handlers, with their background work and its failures, give what
\* EventualCache promises: a snapshot is out of date only while a refresh of
\* its build is under way, or once one was lost.
THEOREM RefinesEventualCache == Spec => ImplementsEventualCache
<1>1. IInv /\ IInv' /\ [Next]_vars => [Abstract!Next]_(Abstract!vars)
  <2> SUFFICES ASSUME IInv, IInv', [Next]_vars
               PROVE  [Abstract!Next]_(Abstract!vars)
    OBVIOUS
  <2>1. SettledIsFresh'
    BY DEF IInv, KvInv, SettledIsFresh, Refreshing, WillRepair, Idle
  <2>2. QED
    BY <2>1, ImplementsStep DEF IInv
<1>2. QED
  BY <1>1, ImplementsInit, InductiveInvariant, PTL
     DEF Spec, ImplementsEventualCache, Abstract!Spec
=============================================================================
