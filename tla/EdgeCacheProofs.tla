--------------------------- MODULE EdgeCacheProofs ---------------------------
(* The edge cache only ever runs steps of BuildSnapshot behind it, so the   *)
(* invariant of the snapshots holds there too, and with it every miss that  *)
(* comes after the refreshes of its build gets the current page.            *)
EXTENDS EdgeCache, BuildSnapshotProofs

AsksInv == asks \in [Requests -> Keys \cup {Missing}]

EdgeInv == IInv /\ EdgeTypeOK

LEMMA AskedBuild ==
    ASSUME AsksInv, NEW q \in Requests, asks[q] # Missing
    PROVE  asks[q] \in Keys /\ asks[q][2] \in Builds
BY DEF AsksInv, Keys

\* Whatever happens at the edge, the snapshots take a step of their own or
\* none.
LEMMA EdgeStepIsSnapshotStep ==
    ASSUME AsksInv, [EdgeNext]_allVars
    PROVE  [Next]_vars
<1>1. CASE UNCHANGED allVars
  BY <1>1 DEF allVars
<1>2. ASSUME NEW q \in Requests, NEW k \in Keys, EdgeMiss(q, k)
      PROVE  [Next]_vars
  BY <1>2 DEF EdgeMiss
<1>3. ASSUME NEW q \in Requests,
             AnswerFromKv(q) \/ AnswerNotFound(q) \/ EdgePut(q)
      PROVE  [Next]_vars
  BY <1>3 DEF AnswerFromKv, AnswerNotFound, EdgePut
<1>4. ASSUME NEW q \in Requests, AnswerFromPostgres(q)
      PROVE  [Next]_vars
  BY <1>4, AskedBuild DEF AnswerFromPostgres, Next, Background
<1>5. ASSUME NEW k \in Keys, EdgeExpire(k) PROVE [Next]_vars
  BY <1>5 DEF EdgeExpire
<1>6. ASSUME NEW h \in Handlers, InvalidateAndPurge(h) PROVE [Next]_vars
  BY <1>6 DEF InvalidateAndPurge, Next
<1>7. CASE BehindTheEdge
  BY <1>7 DEF BehindTheEdge, Next, Background
<1>8. QED
  BY <1>1, <1>2, <1>3, <1>4, <1>5, <1>6, <1>7 DEF EdgeNext

-----------------------------------------------------------------------------
(* Types                                                                    *)

LEMMA EdgeInitInv == EdgeInit => EdgeInv
BY InitInv DEF EdgeInit, EdgeInv, IInv, EdgeTypeOK, BodyOrMissing

LEMMA AnsweredType ==
    ASSUME EdgeTypeOK, NEW q \in Requests, NEW page \in BodyOrMissing,
           Answered(q, page)
    PROVE  /\ edge' \in [Keys -> BodyOrMissing]
           /\ asks' \in [Requests -> Keys \cup {Missing}]
           /\ answer' \in [Requests -> BodyOrMissing]
BY DEF Answered, EdgeTypeOK

LEMMA EdgeTypeStep ==
    ASSUME EdgeTypeOK, [EdgeNext]_allVars
    PROVE  EdgeTypeOK'
<1> DEFINE Typed == /\ edge' \in [Keys -> BodyOrMissing]
                    /\ asks' \in [Requests -> Keys \cup {Missing}]
                    /\ answer' \in [Requests -> BodyOrMissing]
<1>1. /\ TypeOK
      /\ AsksInv
      /\ edge \in [Keys -> BodyOrMissing]
      /\ answer \in [Requests -> BodyOrMissing]
  BY DEF EdgeTypeOK, AsksInv
<1>2. Missing \in BodyOrMissing
  BY DEF BodyOrMissing
<1>3. \A b \in Builds : /\ kv[b] \in BodyOrMissing
                        /\ loadAnonSnapshot(b) \in BodyOrMissing
  BY <1>1, PageType DEF TypeOK, loadAnonSnapshot
<1>4. ASSUME UNCHANGED edgeVars PROVE Typed
  BY <1>1, <1>4 DEF edgeVars, AsksInv
<1>5. ASSUME NEW q \in Requests, NEW k \in Keys, EdgeMiss(q, k) PROVE Typed
  BY <1>1, <1>5 DEF EdgeMiss, AsksInv
<1>6. ASSUME NEW q \in Requests, AnswerFromKv(q) PROVE Typed
  BY <1>1, <1>3, <1>6, AskedBuild, AnsweredType DEF AnswerFromKv
<1>7. ASSUME NEW q \in Requests, AnswerFromPostgres(q) PROVE Typed
  BY <1>1, <1>3, <1>7, AskedBuild, AnsweredType DEF AnswerFromPostgres
<1>8. ASSUME NEW q \in Requests, AnswerNotFound(q) PROVE Typed
  BY <1>2, <1>8, AnsweredType DEF AnswerNotFound
<1>9. ASSUME NEW q \in Requests, EdgePut(q) PROVE Typed
  BY <1>1, <1>2, <1>9 DEF EdgePut, AsksInv
<1>10. ASSUME NEW k \in Keys, EdgeExpire(k) PROVE Typed
  BY <1>1, <1>2, <1>10 DEF EdgeExpire, AsksInv
<1>11. ASSUME NEW h \in Handlers, InvalidateAndPurge(h) PROVE Typed
  BY <1>1, <1>2, <1>11 DEF InvalidateAndPurge, purgeEdge, AsksInv
<1>12. Typed
  BY <1>4, <1>5, <1>6, <1>7, <1>8, <1>9, <1>10, <1>11
     DEF EdgeNext, BehindTheEdge, allVars, edgeVars
<1>13. TypeOK'
  BY <1>1, EdgeStepIsSnapshotStep, TypeStep
<1>14. QED
  BY <1>12, <1>13 DEF EdgeTypeOK

LEMMA EdgeStepInv ==
    ASSUME EdgeInv, [EdgeNext]_allVars
    PROVE  EdgeInv'
<1>1. IInv /\ EdgeTypeOK /\ AsksInv
  BY DEF EdgeInv, EdgeTypeOK, AsksInv
<1>2. QED
  BY <1>1, EdgeStepIsSnapshotStep, StepInv, EdgeTypeStep DEF EdgeInv

THEOREM EdgeInvariant == EdgeSpec => []EdgeInv
BY EdgeInitInv, EdgeStepInv, PTL DEF EdgeSpec

\* Every variable of the edge cache, and of the snapshots behind it, keeps its
\* type.
THEOREM EdgeTypeCorrect == EdgeSpec => []EdgeTypeOK
<1>1. EdgeInv => EdgeTypeOK
  BY DEF EdgeInv
<1>2. QED
  BY <1>1, EdgeInvariant, PTL

-----------------------------------------------------------------------------
(* Misses                                                                   *)

LEMMA MissIsCurrent ==
    ASSUME EdgeInv, [EdgeNext]_allVars, NEW q \in Requests,
           answer'[q] # answer[q], answer'[q] # Missing, Settled(asks[q][2])
    PROVE  answer'[q] = loadAnonSnapshot(asks[q][2])
<1>1. AsksInv /\ answer \in [Requests -> BodyOrMissing] /\ SettledIsFresh
  BY IInvImpliesSettled DEF EdgeInv, EdgeTypeOK, AsksInv
<1>2. ASSUME NEW p \in Requests, NEW page, Answered(p, page)
      PROVE  p = q /\ page = answer'[q]
  BY <1>1, <1>2 DEF Answered
<1>3. ASSUME NEW p \in Requests, AnswerFromKv(p)
      PROVE  answer'[q] = loadAnonSnapshot(asks[q][2])
  <2>1. /\ p = q /\ answer'[q] = kv[asks[q][2]]
        /\ asks[q][2] \in Builds
        /\ kv[asks[q][2]] # Missing
    BY <1>1, <1>2, <1>3, AskedBuild DEF AnswerFromKv
  <2>2. IsFresh(asks[q][2])
    BY <1>1, <2>1 DEF SettledIsFresh, Settled
  <2>3. QED
    BY <2>1, <2>2 DEF IsFresh
<1>4. ASSUME NEW p \in Requests, AnswerFromPostgres(p)
      PROVE  answer'[q] = loadAnonSnapshot(asks[q][2])
  BY <1>2, <1>4 DEF AnswerFromPostgres
<1>5. ASSUME NEW p \in Requests, AnswerNotFound(p) PROVE FALSE
  BY <1>2, <1>5 DEF AnswerNotFound
<1>6. ASSUME NEW p \in Requests, EdgePut(p) PROVE FALSE
  BY <1>1, <1>6 DEF EdgePut
<1>7. answer' # answer
  OBVIOUS
<1>8. QED
  BY <1>3, <1>4, <1>5, <1>6, <1>7
     DEF EdgeNext, EdgeMiss, EdgeExpire, InvalidateAndPurge, BehindTheEdge,
         edgeVars, allVars

\* However many requests, colos and mutations race: a request that gets past
\* the edge cache after the refreshes of its build, none of them lost, is
\* answered with the current page.
THEOREM MissesAreCurrent == EdgeSpec => SettledMissesAreCurrent
<1>1. EdgeInv /\ [EdgeNext]_allVars
        => [\A q \in Requests :
              (answer'[q] # answer[q] /\ answer'[q] # Missing)
                 => \/ ~Settled(asks[q][2])
                    \/ answer'[q] = loadAnonSnapshot(asks[q][2])]_allVars
  BY MissIsCurrent
<1>2. QED
  BY <1>1, EdgeInvariant, PTL DEF EdgeSpec, SettledMissesAreCurrent
=============================================================================
