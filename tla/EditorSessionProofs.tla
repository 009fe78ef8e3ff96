-------------------------- MODULE EditorSessionProofs --------------------------
(***************************************************************************)
(* Theorems about EditorHistory and EditorSession, for any variants,       *)
(* MAX_HISTORY, room for drafts and number of edits, saves and sessions:   *)
(* the refs stay in lock-step with the screen, undo and redo move along a  *)
(* line of recorded snapshots, a refresh shows what was autosaved, a       *)
(* replaced draft waits for the user, and only Retry lets saves overlap.   *)
(***************************************************************************)
EXTENDS EditorSession, SequenceTheorems, FiniteSetTheorems, TLAPS

Snap == EditorHistorySnapshot

LEMMA SnapIsNotNone == \A s \in Snap : s # None
  BY HistoryAssumption DEF Snap, EditorHistorySnapshot

-----------------------------------------------------------------------------
(* Stacks                                                                   *)

\* Taking the top off a stack.
LEMMA FrontAndLast ==
  ASSUME NEW s \in Seq(Snap), s # <<>>
  PROVE  /\ Len(s) \in Nat \ {0}
         /\ Front(s) \in Seq(Snap)
         /\ Len(Front(s)) = Len(s) - 1
         /\ \A i \in 1 .. Len(s) - 1 : Front(s)[i] = s[i]
         /\ Last(s) \in Snap
         /\ Last(s) = s[Len(s)]
<1>1. Len(s) \in Nat \ {0}
  BY EmptySeq
<1>2. \A i \in 1 .. Len(s) : s[i] \in Snap
  BY ElementOfSeq
<1> DEFINE n == Len(s) - 1
<1>3. n \in Nat /\ n \in Int /\ 1 \in Int /\ \A i \in 1 .. n : i \in 1 .. Len(s)
  BY <1>1
<1>4. \A i \in 1 .. n : s[i] \in Snap
  BY <1>2, <1>3
<1>5. /\ SubSeq(s, 1, n) \in Seq(Snap)
      /\ Len(SubSeq(s, 1, n)) = IF 1 <= n THEN n - 1 + 1 ELSE 0
      /\ \A i \in 1 .. n - 1 + 1 : SubSeq(s, 1, n)[i] = s[1 + i - 1]
  BY <1>3, <1>4, SubSeqProperties
<1>6. Last(s) = s[Len(s)] /\ Len(s) \in 1 .. Len(s)
  BY <1>1 DEF Last
<1> HIDE DEF n
<1>7. Len(SubSeq(s, 1, n)) = n /\ \A i \in 1 .. n : SubSeq(s, 1, n)[i] = s[i]
  BY <1>3, <1>5
<1> QED
  BY <1>1, <1>2, <1>5, <1>6, <1>7 DEF Front, n

\* A stack read backwards.
LEMMA ReversedStack ==
  ASSUME NEW f \in Seq(Snap)
  PROVE  /\ Reversed(f) \in Seq(Snap)
         /\ Len(Reversed(f)) = Len(f)
         /\ \A i \in 1 .. Len(f) : Reversed(f)[i] = f[Len(f) + 1 - i]
<1>1. \A i \in 1 .. Len(f) : Len(f) + 1 - i \in 1 .. Len(f) /\ f[Len(f) + 1 - i] \in Snap
  BY LenProperties, ElementOfSeq
<1>2. Reversed(f) \in [1 .. Len(f) -> Snap]
  BY <1>1 DEF Reversed
<1>3. Reversed(f) \in Seq(Snap)
  BY <1>2, LenProperties, SeqDef
<1>4. Len(Reversed(f)) = Len(f)
  BY <1>2, <1>3, LenProperties
<1> QED
  BY <1>3, <1>4 DEF Reversed

-----------------------------------------------------------------------------
(* The timeline that two stacks and a baseline stand for                    *)

\* s is the past, the baseline, and the future from its top.
IsLine(s, p, b, f) ==
    /\ s \in Seq(Snap)
    /\ Len(s) = Len(p) + 1 + Len(f)
    /\ \A i \in 1 .. Len(p) : s[i] = p[i]
    /\ s[Len(p) + 1] = b
    /\ \A i \in 1 .. Len(f) : s[Len(p) + 1 + i] = f[Len(f) + 1 - i]

Line(p, b, f) == p \o <<b>> \o Reversed(f)

LEMMA LineOfStacks ==
  ASSUME NEW p \in Seq(Snap), NEW b \in Snap, NEW f \in Seq(Snap)
  PROVE  IsLine(Line(p, b, f), p, b, f)
<1> DEFINE r == Reversed(f)
           q == p \o <<b>>
<1>0. Len(p) \in Nat /\ Len(f) \in Nat
  BY LenProperties
<1>1. /\ r \in Seq(Snap) /\ Len(r) = Len(f)
      /\ \A i \in 1 .. Len(f) : r[i] = f[Len(f) + 1 - i]
  BY ReversedStack
<1>2. <<b>> \in Seq(Snap) /\ Len(<<b>>) = 1 /\ <<b>>[1] = b
  OBVIOUS
<1>3. /\ q \in Seq(Snap) /\ Len(q) = Len(p) + Len(<<b>>)
      /\ \A i \in 1 .. Len(p) + Len(<<b>>) :
            q[i] = IF i <= Len(p) THEN p[i] ELSE <<b>>[i - Len(p)]
  BY <1>2, ConcatProperties
<1>4. /\ q \in Seq(Snap) /\ Len(q) = Len(p) + 1
      /\ \A i \in 1 .. Len(p) : q[i] = p[i]
      /\ q[Len(p) + 1] = b
  BY <1>0, <1>2, <1>3
<1> HIDE DEF r, q
<1>q. q \in Seq(Snap)
  BY <1>4
<1>r. r \in Seq(Snap)
  BY <1>1
<1>5. /\ q \o r \in Seq(Snap) /\ Len(q \o r) = Len(q) + Len(r)
      /\ \A i \in 1 .. Len(q) + Len(r) :
            (q \o r)[i] = IF i <= Len(q) THEN q[i] ELSE r[i - Len(q)]
  BY <1>q, <1>r, ConcatProperties
<1>6. \A i \in 1 .. Len(p) : (q \o r)[i] = p[i]
  BY <1>0, <1>1, <1>4, <1>5
<1>7. (q \o r)[Len(p) + 1] = b
  BY <1>0, <1>1, <1>4, <1>5
<1>8. ASSUME NEW i \in 1 .. Len(f)
      PROVE  (q \o r)[Len(p) + 1 + i] = f[Len(f) + 1 - i]
  <2> DEFINE j == Len(p) + 1 + i
  <2>1. j \in 1 .. Len(q) + Len(r) /\ ~(j <= Len(q)) /\ j - Len(q) = i
    BY <1>0, <1>1, <1>4
  <2>2. (q \o r)[j] = r[j - Len(q)]
    BY <2>1, <1>5
  <2> QED
    BY <2>1, <2>2, <1>1
<1>9. Line(p, b, f) = q \o r
  BY DEF Line, q, r
<1>10. Len(q \o r) = Len(p) + 1 + Len(f)
  BY <1>0, <1>1, <1>4, <1>5
<1> QED
  BY <1>5, <1>6, <1>7, <1>8, <1>9, <1>10 DEF IsLine

\* Undo moves the top of the past to the baseline, and the line stays.
LEMMA LineAfterUndo ==
  ASSUME NEW p \in Seq(Snap), NEW b \in Snap, NEW f \in Seq(Snap), p # <<>>
  PROVE  Line(Front(p), Last(p), Append(f, b)) = Line(p, b, f)
<1> DEFINE p1 == Front(p)
           f1 == Append(f, b)
           b1 == Last(p)
           s == Line(p, b, f)
           t == Line(p1, b1, f1)
<1>1. Len(p) \in Nat \ {0} /\ Len(f) \in Nat
  BY FrontAndLast, LenProperties
<1>2. /\ p1 \in Seq(Snap) /\ Len(p1) = Len(p) - 1
      /\ \A i \in 1 .. Len(p) - 1 : p1[i] = p[i]
      /\ b1 \in Snap /\ b1 = p[Len(p)]
  BY FrontAndLast
<1>3. /\ f1 \in Seq(Snap) /\ Len(f1) = Len(f) + 1
      /\ \A i \in 1 .. Len(f) : f1[i] = f[i]
      /\ f1[Len(f) + 1] = b
  BY <1>1
<1> HIDE DEF p1, f1, b1
<1>4. IsLine(t, p1, b1, f1) /\ IsLine(s, p, b, f)
  BY <1>2, <1>3, LineOfStacks
<1> HIDE DEF s, t
<1>5. /\ t \in Seq(Snap) /\ s \in Seq(Snap)
      /\ Len(s) = Len(p) + 1 + Len(f)
      /\ Len(t) = Len(s)
  BY <1>1, <1>2, <1>3, <1>4 DEF IsLine
<1>6. ASSUME NEW i \in 1 .. Len(s)
      PROVE  t[i] = s[i]
  <2>0. i \in 1 .. Len(p) + 1 + Len(f) /\ i \in Nat
    BY <1>5, <1>1
  <2>1. CASE i < Len(p)
    <3>1. i \in 1 .. Len(p1) /\ i \in 1 .. Len(p) /\ i \in 1 .. Len(p) - 1
      BY <2>0, <2>1, <1>1, <1>2
    <3> QED
      BY <3>1, <1>2, <1>4 DEF IsLine
  <2>2. CASE i = Len(p)
    <3>1. i \in 1 .. Len(p) /\ Len(p1) + 1 = i
      BY <2>2, <1>1, <1>2
    <3> QED
      BY <3>1, <2>2, <1>2, <1>4 DEF IsLine
  <2>3. CASE i = Len(p) + 1
    <3>1. 1 \in 1 .. Len(f1) /\ i = Len(p1) + 1 + 1 /\ Len(f1) + 1 - 1 = Len(f) + 1
      BY <2>3, <1>1, <1>2, <1>3
    <3>2. t[Len(p1) + 1 + 1] = f1[Len(f1) + 1 - 1]
      BY <3>1, <1>4 DEF IsLine
    <3> QED
      BY <3>1, <3>2, <2>3, <1>3, <1>4 DEF IsLine
  <2>4. CASE i > Len(p) + 1
    <3> DEFINE j == i - (Len(p) + 1)
               k == j + 1
    <3>1. /\ j \in 1 .. Len(f) /\ k \in 1 .. Len(f1)
          /\ i = Len(p) + 1 + j /\ i = Len(p1) + 1 + k
          /\ Len(f1) + 1 - k = Len(f) + 1 - j
          /\ Len(f) + 1 - j \in 1 .. Len(f)
      BY <2>0, <2>4, <1>1, <1>2, <1>3
    <3> HIDE DEF j, k
    <3>2. t[Len(p1) + 1 + k] = f1[Len(f1) + 1 - k]
      BY <3>1, <1>4 DEF IsLine
    <3>3. s[Len(p) + 1 + j] = f[Len(f) + 1 - j]
      BY <3>1, <1>4 DEF IsLine
    <3> QED
      BY <3>1, <3>2, <3>3, <1>3
  <2> QED
    BY <1>1, <2>0, <2>1, <2>2, <2>3, <2>4
<1>7. t = s
  BY <1>5, <1>6, SeqEqual
<1> QED
  BY <1>7 DEF p1, f1, b1, s, t

\* Redo moves the top of the future there.
LEMMA LineAfterRedo ==
  ASSUME NEW p \in Seq(Snap), NEW b \in Snap, NEW f \in Seq(Snap), f # <<>>
  PROVE  Line(Append(p, b), Last(f), Front(f)) = Line(p, b, f)
<1> DEFINE p1 == Append(p, b)
           b1 == Last(f)
           f1 == Front(f)
<1>1. /\ p1 \in Seq(Snap) /\ p1 # <<>> /\ Len(p1) = Len(p) + 1
      /\ p1[Len(p) + 1] = b /\ \A i \in 1 .. Len(p) : p1[i] = p[i]
  OBVIOUS
<1>2. f1 \in Seq(Snap) /\ b1 \in Snap /\ Len(f) \in Nat \ {0} /\ Len(f1) = Len(f) - 1
      /\ b1 = f[Len(f)] /\ \A i \in 1 .. Len(f) - 1 : f1[i] = f[i]
  BY FrontAndLast
<1> HIDE DEF p1, b1, f1
<1>3. Front(p1) = p /\ Last(p1) = b
  <2>1. /\ Front(p1) \in Seq(Snap) /\ Len(Front(p1)) = Len(p1) - 1
        /\ \A i \in 1 .. Len(p1) - 1 : Front(p1)[i] = p1[i]
        /\ Last(p1) = p1[Len(p1)]
    BY <1>1, FrontAndLast
  <2>2. Len(p) \in Nat /\ Len(p1) - 1 = Len(p)
    BY <1>1, LenProperties
  <2>3. Front(p1) = p
    BY <2>1, <2>2, <1>1, SeqEqual
  <2> QED
    BY <2>1, <2>3, <1>1
<1>4. Append(f1, b1) = f
  <2>1. Append(f1, b1) \in Seq(Snap) /\ Len(Append(f1, b1)) = Len(f)
        /\ \A i \in 1 .. Len(f) : Append(f1, b1)[i] = f[i]
    BY <1>2
  <2> QED
    BY <2>1, SeqEqual
<1>5. Line(Front(p1), Last(p1), Append(f1, b1)) = Line(p1, b1, f1)
  BY <1>1, <1>2, LineAfterUndo
<1>6. Line(p1, b1, f1) = Line(p, b, f)
  BY <1>3, <1>4, <1>5
<1> QED
  BY <1>6 DEF p1, b1, f1

-----------------------------------------------------------------------------
(* Types, and the refs in lock-step with the screen                         *)

Now == Line(past, baseline, future)

\* Nothing is on the line twice, and the screen shows nothing that is on it
\* elsewhere: so undo and redo always change the screen, and every restore is
\* consumed.
LineInv ==
    /\ \A i \in 1 .. Len(Now) : Now[i].v = live.v /\ Now[i].n <= edits
    /\ \A i, j \in 1 .. Len(Now) : Now[i] = Now[j] => i = j
    /\ \A i \in 1 .. Len(Now) : Now[i] = live => i = Len(past) + 1
    /\ live.n <= edits
    /\ \A v \in Variants : variants[v] <= edits

RefsInv ==
    /\ handle \in {None, live}
    /\ handle = None => baseline = live
    /\ applying = FALSE
    /\ Len(past) + Len(future) <= MAX_HISTORY

IInv == HistoryTypeOK /\ RefsInv /\ LineInv

\* What the types say, in the form the steps use.
LEMMA Types ==
  ASSUME HistoryTypeOK
  PROVE  /\ live \in Snap /\ live.v \in Variants /\ live.n \in Nat /\ live # None
         /\ variants \in [Variants -> Nat] /\ edits \in Nat
         /\ past \in Seq(Snap) /\ future \in Seq(Snap) /\ baseline \in Snap
         /\ Len(past) \in Nat /\ Len(future) \in Nat
         /\ applying \in BOOLEAN /\ handle \in Snap \cup {None}
         /\ IsLine(Now, past, baseline, future)
         /\ MAX_HISTORY \in Nat \ {0}
<1>1. live \in Snap /\ past \in Seq(Snap) /\ future \in Seq(Snap) /\ baseline \in Snap
      /\ handle \in Snap \cup {None}
  BY DEF HistoryTypeOK, Snap
<1>2. live.v \in Variants /\ live.n \in Nat /\ live # None
  BY <1>1, HistoryAssumption DEF Snap, EditorHistorySnapshot
<1>3. Len(past) \in Nat /\ Len(future) \in Nat
  BY <1>1, LenProperties
<1>4. IsLine(Now, past, baseline, future)
  BY <1>1, LineOfStacks DEF Now
<1> QED
  BY <1>1, <1>2, <1>3, <1>4, HistoryAssumption DEF HistoryTypeOK

\* What is on the line is what was recorded.
LEMMA RecordedIsOnLine ==
  ASSUME HistoryTypeOK, NEW s \in Recorded
  PROVE  \E i \in 1 .. Len(Now) : Now[i] = s
<1>1. DOMAIN past = 1 .. Len(past) /\ DOMAIN future = 1 .. Len(future)
  BY Types, LenProperties
<1>2. IsLine(Now, past, baseline, future) /\ Len(past) \in Nat /\ Len(future) \in Nat
  BY Types
<1>3. CASE \E i \in 1 .. Len(past) : s = past[i]
  BY <1>2, <1>3 DEF IsLine
<1>4. CASE \E i \in 1 .. Len(future) : s = future[i]
  <2>1. PICK i \in 1 .. Len(future) : s = future[i]
    BY <1>4
  <2> DEFINE k == Len(future) + 1 - i
  <2>2. k \in 1 .. Len(future) /\ Len(future) + 1 - k = i
        /\ Len(past) + 1 + k \in 1 .. Len(Now)
    BY <1>2 DEF IsLine
  <2> HIDE DEF k
  <2>3. Now[Len(past) + 1 + k] = future[i]
    BY <1>2, <2>2 DEF IsLine
  <2> QED
    BY <2>1, <2>2, <2>3
<1>5. CASE s = baseline
  BY <1>2, <1>5 DEF IsLine
<1> QED
  BY <1>1, <1>3, <1>4, <1>5 DEF Recorded

LEMMA InvIsInLockStep ==
  ASSUME IInv
  PROVE  HistoryTypeOK /\ HistoryInLockStep
<1>1. \A s \in Recorded : s.v = live.v
  BY RecordedIsOnLine DEF IInv, LineInv
<1> QED
  BY <1>1 DEF IInv, RefsInv, HistoryInLockStep

\* A line of one snapshot.
LEMMA NewLine ==
  ASSUME NEW b \in Snap
  PROVE  /\ Line(<<>>, b, <<>>) = <<b>>
         /\ Len(<<>>) = 0 /\ <<>> \in Seq(Snap)
<1>1. Len(<<>>) = 0 /\ <<>> \in Seq(Snap)
  BY EmptySeq
<1>2. IsLine(Line(<<>>, b, <<>>), <<>>, b, <<>>)
  BY <1>1, LineOfStacks
<1>3. /\ Line(<<>>, b, <<>>) \in Seq(Snap) /\ Len(Line(<<>>, b, <<>>)) = 1
      /\ Line(<<>>, b, <<>>)[1] = b
  BY <1>1, <1>2 DEF IsLine
<1>4. <<b>> \in Seq(Snap) /\ Len(<<b>>) = 1 /\ <<b>>[1] = b
  OBVIOUS
<1>5. Line(<<>>, b, <<>>) = <<b>>
  BY <1>3, <1>4, SeqEqual
<1> QED
  BY <1>1, <1>5

LEMMA InitInv ==
  ASSUME HistoryInit
  PROVE  IInv
<1>1. /\ live \in EditorHistorySnapshot /\ live.n = 0
      /\ past = <<>> /\ future = <<>> /\ baseline = live /\ applying = FALSE
      /\ handle = None /\ edits = 0 /\ variants = [v \in Variants |-> 0]
  BY DEF HistoryInit, EditorHistorySnapshot
<1>2. /\ LineInv /\ Len(past) = 0 /\ Len(future) = 0
      /\ past \in Seq(Snap) /\ future \in Seq(Snap)
  <2>1. live \in Snap /\ live.n <= edits /\ \A v \in Variants : variants[v] <= edits
    BY <1>1 DEF Snap
  <2>2. /\ Now = <<live>> /\ Len(past) = 0 /\ Len(future) = 0
        /\ past \in Seq(Snap) /\ future \in Seq(Snap)
    BY <1>1, <2>1, NewLine DEF Now
  <2>3. LineInv
    BY <2>1, <2>2 DEF LineInv
  <2> QED
    BY <2>2, <2>3
<1>3. HistoryTypeOK
  BY <1>1, <1>2 DEF HistoryTypeOK, Snap
<1>4. RefsInv
  BY <1>1, <1>2, HistoryAssumption DEF RefsInv
<1> QED
  BY <1>2, <1>3, <1>4 DEF IInv

LEMMA EditStep ==
  ASSUME IInv, edit
  PROVE  IInv' /\ UNCHANGED <<past, baseline, future>> /\ live' \in Snap
<1>0. HistoryTypeOK /\ RefsInv /\ LineInv
  BY DEF IInv
<1>1. live' = [v |-> live.v, n |-> edits + 1] /\ edits' = edits + 1 /\ edits \in Nat
  BY <1>0, Types DEF edit, fresh
<1>2. live' \in Snap /\ live'.v = live.v /\ live'.n = edits + 1
  BY <1>0, <1>1, Types DEF Snap, EditorHistorySnapshot
<1>3. /\ handle' = live' /\ applying' = FALSE
      /\ UNCHANGED <<variants, past, baseline, future>>
  BY <1>0 DEF edit, recordingEffect, RefsInv
<1>4. Now' = Now
  BY <1>3 DEF Now
<1>5. \A i \in 1 .. Len(Now) : Now[i].n \in Nat
  <2>1. Now \in Seq(Snap)
    BY <1>0, Types DEF IsLine
  <2>2. \A i \in 1 .. Len(Now) : Now[i] \in Snap
    BY <2>1, ElementOfSeq
  <2> QED
    BY <2>2 DEF Snap, EditorHistorySnapshot
<1>6. \A v \in Variants : variants[v] \in Nat
  BY <1>0, Types
<1>7. LineInv'
  BY SMTT(30), <1>0, <1>1, <1>2, <1>3, <1>4, <1>5, <1>6 DEF LineInv
<1>8. HistoryTypeOK'
  <2>1. live' \in EditorHistorySnapshot /\ handle' \in EditorHistorySnapshot
    BY <1>2, <1>3 DEF Snap
  <2>2. edits' \in Nat
    BY <1>1
  <2>3. applying' \in BOOLEAN
    BY <1>3
  <2> QED
    BY <1>0, <1>3, <2>1, <2>2, <2>3 DEF HistoryTypeOK
<1>9. live' # None
  <2>1. \A s \in Snap : s # None
    BY SnapIsNotNone
  <2> QED
    BY <1>2, <2>1
<1>10. RefsInv'
  BY <1>0, <1>3, <1>9 DEF RefsInv
<1> QED
  BY <1>2, <1>3, <1>7, <1>8, <1>10 DEF IInv

LEMMA ActivateStep ==
  ASSUME IInv, NEW v \in Variants, activate(v)
  PROVE  IInv' /\ live' \in Snap /\ Now' = <<live'>> /\ past' = <<>>
<1>0. HistoryTypeOK /\ RefsInv /\ LineInv
  BY DEF IInv
<1>1. live' = [v |-> v, n |-> variants[v]] /\ handle' = live' /\ edits' = edits
  BY DEF activate
<1>2. past' = <<>> /\ future' = <<>> /\ baseline' = live' /\ applying' = FALSE
  BY DEF activate, reset
<1>3. live' \in Snap /\ live'.n <= edits'
  BY <1>0, <1>1, Types DEF Snap, EditorHistorySnapshot, LineInv
<1>4. variants' = [variants EXCEPT ![live.v] = live.n]
  BY DEF activate, foldedVariants
<1>5. variants' \in [Variants -> Nat] /\ \A w \in Variants : variants'[w] <= edits'
  BY <1>0, <1>1, <1>4, Types DEF LineInv
<1>6. /\ LineInv' /\ Len(past') = 0 /\ Len(future') = 0
      /\ past' \in Seq(Snap) /\ future' \in Seq(Snap) /\ Now' = <<live'>>
  <2>1. /\ Now' = <<live'>> /\ Len(past') = 0 /\ Len(future') = 0
        /\ past' \in Seq(Snap) /\ future' \in Seq(Snap)
    BY <1>2, <1>3, NewLine DEF Now
  <2>2. LineInv'
    BY <1>3, <1>5, <2>1 DEF LineInv
  <2> QED
    BY <2>1, <2>2
<1>7. HistoryTypeOK'
  BY <1>0, <1>1, <1>2, <1>3, <1>5, <1>6 DEF HistoryTypeOK, Snap
<1>8. live' # None
  <2>1. \A s \in Snap : s # None
    BY SnapIsNotNone
  <2> QED
    BY <1>3, <2>1
<1>9. RefsInv'
  <2>1. MAX_HISTORY \in Nat /\ 0 + 0 <= MAX_HISTORY
    BY HistoryAssumption
  <2> QED
    BY <1>1, <1>2, <1>6, <1>8, <2>1 DEF RefsInv
<1> QED
  BY <1>2, <1>3, <1>6, <1>7, <1>9 DEF IInv

\* A restore: the place on the line changes, and the line does not.
LEMMA RestoreStep ==
  ASSUME IInv, NEW s \in Snap, apply(s),
         past' \in Seq(Snap), future' \in Seq(Snap), Now' = Now,
         Len(past') + Len(future') = Len(past) + Len(future),
         NEW k \in 1 .. Len(Now), k # Len(past) + 1, Now[k] = s, Len(past') + 1 = k
  PROVE  IInv' /\ live' = s
<1>0. HistoryTypeOK /\ RefsInv /\ LineInv
  BY DEF IInv
<1>1. s # live
  BY <1>0 DEF LineInv
<1>2. /\ live' = s /\ baseline' = s /\ variants' = variants /\ edits' = edits
      /\ handle' = None /\ applying' = FALSE
  BY <1>1 DEF apply, recordingEffect
<1>3. HistoryTypeOK'
  BY <1>0, <1>2 DEF HistoryTypeOK, Snap
<1>4. RefsInv'
  BY <1>0, <1>2 DEF RefsInv
<1>5. LineInv'
  BY <1>0, <1>2 DEF LineInv
<1> QED
  BY <1>2, <1>3, <1>4, <1>5 DEF IInv

LEMMA UndoStep ==
  ASSUME IInv, undo
  PROVE  /\ IInv' /\ Now' = Now /\ Len(past) \in 1 .. Len(Now)
         /\ live' = Now[Len(past)] /\ Len(past') + 1 = Len(past)
<1>0. HistoryTypeOK
  BY DEF IInv
<1>1. /\ past # <<>> /\ past' = Front(past) /\ future' = Append(future, baseline)
      /\ apply(Last(past)) /\ baseline' = Last(past)
  BY DEF undo, apply
<1>2. /\ Len(past) \in Nat \ {0} /\ past' \in Seq(Snap) /\ Len(past') = Len(past) - 1
      /\ Last(past) \in Snap /\ Last(past) = past[Len(past)]
  BY <1>0, <1>1, Types, FrontAndLast
<1>3. future' \in Seq(Snap) /\ Len(future') = Len(future) + 1 /\ Len(future) \in Nat
  BY <1>0, <1>1, Types
<1>4. Now' = Now
  BY <1>0, <1>1, Types, LineAfterUndo DEF Now
<1>5. /\ Len(past) \in 1 .. Len(Now) /\ Len(past) # Len(past) + 1
      /\ Now[Len(past)] = Last(past) /\ Len(past') + 1 = Len(past)
  BY <1>0, <1>2, Types DEF IsLine
<1>6. IInv' /\ live' = Last(past)
  BY <1>1, <1>2, <1>3, <1>4, <1>5, RestoreStep
<1> QED
  BY <1>4, <1>5, <1>6

LEMMA RedoStep ==
  ASSUME IInv, redo
  PROVE  /\ IInv' /\ Now' = Now /\ Len(past) + 2 \in 1 .. Len(Now)
         /\ live' = Now[Len(past) + 2] /\ Len(past') + 1 = Len(past) + 2
<1>0. HistoryTypeOK
  BY DEF IInv
<1>1. /\ future # <<>> /\ future' = Front(future) /\ past' = Append(past, baseline)
      /\ apply(Last(future)) /\ baseline' = Last(future)
  BY DEF redo, apply
<1>2. /\ Len(future) \in Nat \ {0} /\ future' \in Seq(Snap)
      /\ Len(future') = Len(future) - 1
      /\ Last(future) \in Snap /\ Last(future) = future[Len(future)]
  BY <1>0, <1>1, Types, FrontAndLast
<1>3. past' \in Seq(Snap) /\ Len(past') = Len(past) + 1 /\ Len(past) \in Nat
  BY <1>0, <1>1, Types
<1>4. Now' = Now
  BY <1>0, <1>1, Types, LineAfterRedo DEF Now
<1> DEFINE k == Len(past) + 2
<1>5. /\ k \in 1 .. Len(Now) /\ k # Len(past) + 1
      /\ Now[k] = Last(future) /\ Len(past') + 1 = k
  <2>1. 1 \in 1 .. Len(future) /\ Len(future) + 1 - 1 = Len(future)
        /\ Len(past) + 1 + 1 = k
    BY <1>2, <1>3
  <2>2. Now[Len(past) + 1 + 1] = future[Len(future) + 1 - 1]
    BY <1>0, <2>1, Types DEF IsLine
  <2>3. Len(Now) = Len(past) + 1 + Len(future)
    BY <1>0, Types DEF IsLine
  <2> QED
    BY <1>2, <1>3, <2>1, <2>2, <2>3
<1> HIDE DEF k
<1>6. IInv' /\ live' = Last(future)
  BY <1>1, <1>2, <1>3, <1>4, <1>5, RestoreStep
<1> QED
  BY <1>4, <1>5, <1>6 DEF k

-----------------------------------------------------------------------------
(* A commit, and what it does to the line                                   *)

\* The line up to the screen, the oldest snapshot dropped if it is too long.
Longer  == Append(SubSeq(Now, 1, Len(past) + 1), live)
Trimmed == IF Len(Longer) > MAX_HISTORY + 1 THEN Tail(Longer) ELSE Longer

LEMMA LongerLine ==
  ASSUME HistoryTypeOK
  PROVE  /\ Longer \in Seq(Snap) /\ Longer # <<>> /\ Len(Longer) = Len(past) + 2
         /\ \A i \in 1 .. Len(past) + 1 :
               Longer[i] = Now[i] /\ i \in 1 .. Len(Now) /\ Now[i] = Append(past, baseline)[i]
         /\ Longer[Len(past) + 2] = live
<1> DEFINE n == Len(past) + 1
           q == SubSeq(Now, 1, n)
<1>1. /\ Now \in Seq(Snap) /\ Len(Now) = n + Len(future)
      /\ n \in Nat /\ 1 \in Int /\ n \in Int /\ Len(future) \in Nat /\ 1 <= n
      /\ live \in Snap
  BY Types DEF IsLine
<1>2. \A i \in 1 .. n : i \in 1 .. Len(Now)
  BY <1>1
<1>3. \A i \in 1 .. n : Now[i] \in Snap
  BY <1>1, <1>2, ElementOfSeq
<1>4. \A i \in 1 .. n : Now[i] = Append(past, baseline)[i]
  BY Types DEF IsLine
<1> HIDE DEF n
<1>5. /\ q \in Seq(Snap) /\ Len(q) = n - 1 + 1
      /\ \A i \in 1 .. n - 1 + 1 : q[i] = Now[1 + i - 1]
  BY <1>1, <1>3, SubSeqProperties
<1>6. Len(q) = n /\ \A i \in 1 .. n : q[i] = Now[i]
  BY <1>1, <1>5
<1> HIDE DEF q
<1>7. /\ Append(q, live) \in Seq(Snap) /\ Append(q, live) # <<>>
      /\ Len(Append(q, live)) = n + 1
      /\ \A i \in 1 .. n : Append(q, live)[i] = Now[i]
      /\ Append(q, live)[n + 1] = live
  BY <1>1, <1>5, <1>6
<1>8. Longer = Append(q, live) /\ n + 1 = Len(past) + 2
  BY <1>1 DEF Longer, q, n
<1> QED
  BY <1>2, <1>4, <1>7, <1>8 DEF n

LEMMA CommitStep ==
  ASSUME IInv, commit
  PROVE  /\ IInv' /\ live' = live
         /\ \/ UNCHANGED <<past, future, baseline>>
            \/ Now' = Trimmed /\ Len(past') + 1 = Len(Trimmed)
<1>0. HistoryTypeOK /\ RefsInv /\ LineInv
  BY DEF IInv
<1>1. /\ handle = live /\ handle' = None
      /\ UNCHANGED <<live, variants, edits, applying>>
  BY <1>0 DEF commit, loadoutVars, RefsInv
<1>2. CASE handle = baseline
  <2>1. UNCHANGED <<past, future, baseline>>
    BY <1>2 DEF commit
  <2>2. HistoryTypeOK' /\ RefsInv'
    BY <1>0, <1>1, <1>2, <2>1 DEF HistoryTypeOK, RefsInv
  <2>3. LineInv'
    BY <1>0, <1>1, <2>1 DEF LineInv, Now
  <2> QED
    BY <1>1, <2>1, <2>2, <2>3 DEF IInv
<1>3. CASE handle # baseline
  <2> DEFINE pushed == Append(past, baseline)
             cut == IF Len(pushed) > MAX_HISTORY THEN Tail(pushed) ELSE pushed
             d == IF Len(pushed) > MAX_HISTORY THEN 1 ELSE 0
  <2>1. past' = cut /\ future' = <<>> /\ baseline' = live
    BY <1>1, <1>3 DEF commit
  <2>2. /\ pushed \in Seq(Snap) /\ pushed # <<>> /\ Len(pushed) = Len(past) + 1
        /\ Len(past) \in Nat /\ MAX_HISTORY \in Nat \ {0} /\ Len(past) <= MAX_HISTORY
    <3>1. /\ past \in Seq(Snap) /\ baseline \in Snap
          /\ Len(past) \in Nat /\ Len(future) \in Nat /\ MAX_HISTORY \in Nat \ {0}
      BY <1>0, Types
    <3>2. Len(past) <= MAX_HISTORY
      BY <1>0, <3>1 DEF RefsInv
    <3> QED
      BY <3>1, <3>2
  <2>3. \A i \in 1 .. Len(pushed) :
            pushed[i] = Longer[i] /\ pushed[i] = Now[i] /\ i \in 1 .. Len(Now)
    BY <1>0, <2>2, LongerLine
  <2> HIDE DEF pushed
  <2>4. /\ Tail(pushed) \in Seq(Snap) /\ Len(Tail(pushed)) = Len(pushed) - 1
        /\ \A i \in 1 .. Len(Tail(pushed)) : Tail(pushed)[i] = pushed[i + 1]
    BY <2>2, HeadTailProperties
  <2>5. /\ d \in {0, 1} /\ cut \in Seq(Snap) /\ Len(cut) = Len(past) + 1 - d
        /\ Len(cut) \in Nat /\ Len(cut) <= MAX_HISTORY
        /\ \A i \in 1 .. Len(cut) : cut[i] = pushed[i + d]
    BY <2>2, <2>4
  <2>6. /\ Trimmed \in Seq(Snap) /\ Len(Trimmed) = Len(cut) + 1
        /\ \A i \in 1 .. Len(cut) + 1 : Trimmed[i] = Longer[i + d]
    <3>1. /\ Longer \in Seq(Snap) /\ Longer # <<>> /\ Len(Longer) = Len(past) + 2
      BY <1>0, LongerLine
    <3>2. /\ Tail(Longer) \in Seq(Snap) /\ Len(Tail(Longer)) = Len(Longer) - 1
          /\ \A i \in 1 .. Len(Tail(Longer)) : Tail(Longer)[i] = Longer[i + 1]
      BY <3>1, HeadTailProperties
    <3>3. CASE Len(pushed) > MAX_HISTORY
      <4>1. d = 1 /\ Trimmed = Tail(Longer)
        BY <2>2, <3>1, <3>3 DEF Trimmed
      <4> QED
        BY <4>1, <2>2, <2>5, <3>1, <3>2
    <3>4. CASE ~(Len(pushed) > MAX_HISTORY)
      <4>1. d = 0 /\ Trimmed = Longer
        BY <2>2, <3>1, <3>4 DEF Trimmed
      <4> QED
        BY <4>1, <2>2, <2>5, <3>1
    <3> QED
      BY <3>3, <3>4
  <2> HIDE DEF cut, d
  <2>7. \A i \in 1 .. Len(cut) : /\ i + d \in 1 .. Len(Now) /\ i + d \in 1 .. Len(pushed)
                                 /\ cut[i] = Now[i + d] /\ cut[i] = Trimmed[i]
    <3>1. \A i \in 1 .. Len(cut) : i + d \in 1 .. Len(pushed) /\ i \in 1 .. Len(cut) + 1
      BY <2>2, <2>5
    <3> QED
      BY <3>1, <2>3, <2>5, <2>6
  <2>8. Trimmed[Len(cut) + 1] = live
    <3>1. Len(cut) + 1 \in 1 .. Len(cut) + 1 /\ Len(cut) + 1 + d = Len(past) + 2
      BY <2>2, <2>5
    <3> QED
      BY <1>0, <3>1, <2>6, LongerLine
  <2>9. live \in Snap /\ future' \in Seq(Snap) /\ Len(future') = 0
    BY <1>0, <2>1, Types
  <2>10. IsLine(Now', cut, live, <<>>)
    BY <2>1, <2>5, <2>9, LineOfStacks DEF Now
  <2>11. /\ Now' \in Seq(Snap) /\ Len(Now') = Len(cut) + 1
         /\ \A i \in 1 .. Len(cut) : Now'[i] = cut[i]
         /\ Now'[Len(cut) + 1] = live
    BY <2>5, <2>9, <2>10, <2>1 DEF IsLine
  <2>12. \A i \in 1 .. Len(Now') : Now'[i] = Trimmed[i]
    BY SMTT(30), <2>5, <2>7, <2>8, <2>11
  <2>13. Now' = Trimmed
    BY <2>6, <2>11, <2>12, SeqEqual
  <2>14. HistoryTypeOK'
    BY <1>0, <1>1, <2>1, <2>5, <2>9 DEF HistoryTypeOK, Snap
  <2>15. RefsInv'
    BY <1>0, <1>1, <2>1, <2>5, <2>9 DEF RefsInv
  <2>16. LineInv'
    <3>1. \A i \in 1 .. Len(cut) : cut[i] # live
      <4>1. ASSUME NEW i \in 1 .. Len(cut), cut[i] = live
            PROVE  FALSE
        <5>1. i + d \in 1 .. Len(Now) /\ Now[i + d] = live
          BY <2>7, <4>1
        <5>2. i + d = Len(past) + 1
          BY <1>0, <5>1 DEF LineInv
        <5>3. Now[Len(past) + 1] = baseline
          BY <1>0, Types DEF IsLine
        <5> QED
          BY <5>1, <5>2, <5>3, <1>1, <1>3
      <4> QED
        BY <4>1
    <3>2. ASSUME NEW i \in 1 .. Len(cut), NEW j \in 1 .. Len(cut), cut[i] = cut[j]
          PROVE  i = j
      <4>1. i + d = j + d
        BY <1>0, <2>7, <3>2 DEF LineInv
      <4> QED
        BY <4>1, <2>5
    <3>3. \A i \in 1 .. Len(cut) : cut[i].v = live.v /\ cut[i].n <= edits
      BY <1>0, <2>7 DEF LineInv
    <3>4. \A i \in 1 .. Len(Now') : i \in 1 .. Len(cut) \/ i = Len(cut) + 1
      BY <2>5, <2>11
    <3>5. \A i \in 1 .. Len(Now') : Now'[i].v = live.v /\ Now'[i].n <= edits
      BY <1>0, <2>11, <3>3, <3>4 DEF LineInv
    <3>6. \A i, j \in 1 .. Len(Now') : Now'[i] = Now'[j] => i = j
      BY <2>11, <3>1, <3>2, <3>4
    <3>7. \A i \in 1 .. Len(Now') : Now'[i] = live => i = Len(cut) + 1
      BY <2>11, <3>1, <3>4
    <3> QED
      BY <1>0, <1>1, <2>1, <3>5, <3>6, <3>7 DEF LineInv
  <2> QED
    BY <1>1, <2>1, <2>6, <2>13, <2>14, <2>15, <2>16 DEF IInv
<1> QED
  BY <1>2, <1>3

-----------------------------------------------------------------------------
(* Theorems                                                                 *)

historyAll == <<loadoutVars, historyVars>>

LEMMA StutterStep ==
  ASSUME IInv, UNCHANGED historyAll
  PROVE  IInv' /\ Now' = Now /\ UNCHANGED <<live, past>>
<1>1. UNCHANGED <<live, variants, edits, past, future, baseline, applying, handle>>
  BY DEF historyAll, loadoutVars, historyVars
<1>2. Now' = Now
  BY <1>1 DEF Now
<1>3. HistoryTypeOK' /\ RefsInv' /\ LineInv'
  BY <1>1, <1>2 DEF IInv, HistoryTypeOK, RefsInv, LineInv
<1> QED
  BY <1>1, <1>2, <1>3 DEF IInv

LEMMA NextInv ==
  ASSUME IInv, [HistoryNext]_historyAll
  PROVE  IInv'
<1>1. CASE edit
  BY <1>1, EditStep
<1>2. CASE undo
  BY <1>2, UndoStep
<1>3. CASE redo
  BY <1>3, RedoStep
<1>4. CASE \E v \in Variants : activate(v)
  BY <1>4, ActivateStep
<1>5. CASE commit
  BY <1>5, CommitStep
<1>6. CASE UNCHANGED historyAll
  BY <1>6, StutterStep
<1> QED
  BY <1>1, <1>2, <1>3, <1>4, <1>5, <1>6 DEF HistoryNext, ChangeLoadout

\* The refs, the screen and the variants array stay what they are declared to be
\* (use-editor-history.ts, use-editor-store.ts).
THEOREM HistoryTypeCorrect == HistorySpec => []HistoryTypeOK
<1>1. HistoryInit => IInv
  BY InitInv
<1>2. IInv /\ [HistoryNext]_historyAll => IInv'
  BY NextInv
<1>3. IInv => HistoryTypeOK
  BY InvIsInLockStep
<1> QED
  BY <1>1, <1>2, <1>3, PTL DEF HistorySpec, historyAll

\* After every edit, commit, undo, redo and switch the refs of useEditorHistory
\* agree with the screen, hold snapshots of its variant only, and at most
\* MAX_HISTORY of them, for any MAX_HISTORY and any number of edits.
THEOREM HistoryStaysInLockStep == HistorySpec => []HistoryInLockStep
<1>1. HistoryInit => IInv
  BY InitInv
<1>2. IInv /\ [HistoryNext]_historyAll => IInv'
  BY NextInv
<1>3. IInv => HistoryInLockStep
  BY InvIsInLockStep
<1> QED
  BY <1>1, <1>2, <1>3, PTL DEF HistorySpec, historyAll

-----------------------------------------------------------------------------
(* The refinement                                                           *)

LEMMA InitIsTimelines ==
  ASSUME HistoryInit
  PROVE  Timeline!Init
<1>1. /\ past = <<>> /\ future = <<>> /\ baseline = live /\ live \in Snap
      /\ live.n <= edits /\ \A v \in Variants : variants[v] <= edits
  BY DEF HistoryInit, EditorHistorySnapshot, Snap
<1>2. Now = <<live>> /\ Len(past) + 1 = 1
  BY <1>1, NewLine DEF Now
<1> QED
  BY <1>1, <1>2 DEF Timeline!Init, Now, Line, Snap

LEMMA StepIsTimelines ==
  ASSUME IInv, [HistoryNext]_historyAll
  PROVE  [Timeline!Next]_(Timeline!vars)
<1> DEFINE at == Len(past) + 1
<1>0. HistoryTypeOK /\ Len(past) \in Nat /\ Now \in Seq(Snap)
  BY Types DEF IInv, IsLine
<1>1. CASE edit
  <2>1. live' \in EditorHistorySnapshot /\ Now' = Now /\ at' = at
    BY <1>1, EditStep DEF Now, Snap
  <2> QED
    BY <2>1 DEF Timeline!Next, Timeline!Edit, Now, Line
<1>2. CASE undo
  <2>1. /\ Len(past) \in DOMAIN Now /\ at' = at - 1 /\ at - 1 = Len(past)
        /\ live' = Now[at - 1] /\ Now' = Now
    BY <1>0, <1>2, UndoStep, LenProperties
  <2> QED
    BY <2>1 DEF Timeline!Next, Timeline!GoTo, Now, Line
<1>3. CASE redo
  <2>1. /\ at + 1 \in DOMAIN Now /\ at' = at + 1
        /\ live' = Now[at + 1] /\ Now' = Now
    BY <1>0, <1>3, RedoStep, LenProperties
  <2> QED
    BY <2>1 DEF Timeline!Next, Timeline!GoTo, Now, Line
<1>4. CASE \E v \in Variants : activate(v)
  <2>1. live' \in EditorHistorySnapshot /\ Now' = <<live'>> /\ past' = <<>>
    BY <1>4, ActivateStep DEF Snap
  <2>2. at' = 1
    BY <2>1
  <2> QED
    BY <2>1, <2>2 DEF Timeline!Next, Timeline!Restart, Now, Line
<1>5. CASE commit
  <2>1. CASE UNCHANGED <<past, future, baseline>>
    <3>1. live' = live /\ Now' = Now /\ at' = at
      BY <1>5, <2>1, CommitStep DEF Now
    <3> QED
      BY <3>1 DEF Timeline!vars, Now, Line
  <2>2. CASE Now' = Trimmed /\ Len(past') + 1 = Len(Trimmed)
    <3>1. live' = live /\ Now' = Trimmed /\ at' = Len(Now')
      BY <1>5, <2>2, CommitStep
    <3> QED
      BY <3>1 DEF Timeline!Next, Timeline!Record, Trimmed, Longer, Now, Line
  <2> QED
    BY <1>5, <2>1, <2>2, CommitStep
<1>6. CASE UNCHANGED historyAll
  BY <1>6, StutterStep DEF Timeline!vars, Now, Line
<1> QED
  BY <1>1, <1>2, <1>3, <1>4, <1>5, <1>6 DEF HistoryNext, ChangeLoadout

\* Undo and redo of the editor are moves along a line of recorded loadouts: each
\* step of the refs and of the debounced effect is a step of the timeline or
\* leaves it alone.
THEOREM RefinesUndoTimeline == HistorySpec => ImplementsUndoTimeline
<1>1. HistoryInit => IInv
  BY InitInv
<1>2. IInv /\ [HistoryNext]_historyAll => IInv'
  BY NextInv
<1>3. HistoryInit => Timeline!Init
  BY InitIsTimelines
<1>4. IInv /\ [HistoryNext]_historyAll => [Timeline!Next]_(Timeline!vars)
  BY StepIsTimelines
<1> QED
  BY <1>1, <1>2, <1>3, <1>4, PTL
  DEF HistorySpec, historyAll, ImplementsUndoTimeline, Timeline!Spec
-----------------------------------------------------------------------------
(* Drafts                                                                   *)

\* Documents and drafts of an editor that has seen n edits.
DocsUpTo(n) == [Variants -> 0 .. n]

Drafts(n) == [key : Slots, doc : DocsUpTo(n)]

\* localStorage: one draft to a slot, and no more of them than fit.
Kept(ds, n) ==
    /\ ds \in Seq(Drafts(n))
    /\ \A i, j \in DOMAIN ds : ds[i].key = ds[j].key => i = j
    /\ Len(ds) <= Quota

LEMMA DocsGrow ==
    ASSUME NEW n \in Nat, NEW m \in Nat, n <= m
    PROVE  /\ DocsUpTo(n) \subseteq DocsUpTo(m) /\ Drafts(n) \subseteq Drafts(m)
           /\ DocsUpTo(n) \subseteq Docs
           /\ \A ds : Kept(ds, n) => Kept(ds, m)
<1>1. 0 .. n \subseteq 0 .. m /\ 0 .. n \subseteq Nat
  OBVIOUS
<1>2. DocsUpTo(n) \subseteq DocsUpTo(m) /\ DocsUpTo(n) \subseteq Docs
  BY <1>1 DEF DocsUpTo, Docs
<1>3. Drafts(n) \subseteq Drafts(m)
  BY <1>2 DEF Drafts
<1>4. Seq(Drafts(n)) \subseteq Seq(Drafts(m))
  BY <1>3
<1>5. QED
  BY <1>2, <1>3, <1>4 DEF Kept

LEMMA DocIsNotNone ==
    ASSUME NEW n \in Nat, NEW d \in DocsUpTo(n)
    PROVE  d # None /\ d \in Docs
<1>1. d \in Docs
  BY DocsGrow
<1>2. QED
  BY <1>1, SessionAssumption DEF Docs

\* A draft that is there is the one that is loaded.
LEMMA LoadedIsThere ==
    ASSUME NEW n \in Nat, NEW ds, Kept(ds, n), NEW k
    PROVE  /\ \A i \in DOMAIN ds : ds[i].key = k => loadEditorDraft(ds, k) = ds[i].doc
           /\ loadEditorDraft(ds, k) = None <=> Places(ds, k) = {}
           /\ loadEditorDraft(ds, k) \in DocsUpTo(n) \cup {None}
<1>1. \A i \in DOMAIN ds : ds[i] \in Drafts(n)
  BY DEF Kept
<1>2. \A i, j \in DOMAIN ds : ds[i].key = ds[j].key => i = j
  BY DEF Kept
<1>3. CASE Places(ds, k) = {}
  BY <1>3 DEF loadEditorDraft, Places
<1>4. CASE Places(ds, k) # {}
  <2> DEFINE at == CHOOSE i \in Places(ds, k) : TRUE
  <2>1. at \in DOMAIN ds /\ ds[at].key = k
    BY <1>4 DEF Places
  <2>2. loadEditorDraft(ds, k) = ds[at].doc
    BY <1>4 DEF loadEditorDraft
  <2> HIDE DEF at
  <2>3. ds[at].doc \in DocsUpTo(n)
    BY <1>1, <2>1 DEF Drafts
  <2>4. \A i \in DOMAIN ds : ds[i].key = k => i = at
    BY <1>2, <2>1
  <2>5. QED
    BY <1>4, <2>2, <2>3, <2>4, DocIsNotNone
<1>5. QED
  BY <1>3, <1>4

\* new is ds without the entry at p.
Dropped(ds, new, p) ==
    /\ p \in DOMAIN ds
    /\ Len(new) = Len(ds) - 1
    /\ \A i \in 1 .. Len(new) : new[i] = ds[IF i < p THEN i ELSE i + 1]

LEMMA RemoveDrops ==
    ASSUME NEW S, NEW ds \in Seq(S), NEW p \in DOMAIN ds
    PROVE  RemoveAt(ds, p) \in Seq(S) /\ Dropped(ds, RemoveAt(ds, p), p)
<1> DEFINE head == SubSeq(ds, 1, p - 1)
           tail == SubSeq(ds, p + 1, Len(ds))
<1>0. p \in 1 .. Len(ds) /\ Len(ds) \in Nat
  OBVIOUS
<1>1. head \in Seq(S) /\ Len(head) = p - 1 /\ \A i \in 1 .. p - 1 : head[i] = ds[i]
  BY <1>0
<1>2. /\ tail \in Seq(S) /\ Len(tail) = Len(ds) - p
      /\ \A i \in 1 .. Len(ds) - p : tail[i] = ds[p + i]
  BY <1>0
<1> HIDE DEF head, tail
<1> DEFINE new == head \o tail
<1>3. /\ new \in Seq(S) /\ Len(new) = Len(ds) - 1
      /\ \A i \in 1 .. Len(ds) - 1 : new[i] = IF i < p THEN head[i] ELSE tail[i - p + 1]
  BY SMTT(30), <1>0, <1>1, <1>2
<1> HIDE DEF new
<1>4. ASSUME NEW i \in 1 .. Len(new)
      PROVE  new[i] = ds[IF i < p THEN i ELSE i + 1]
  <2>1. i \in 1 .. Len(ds) - 1 /\ p \in Nat
    BY <1>0, <1>3
  <2>2. CASE i < p
    BY <1>0, <1>1, <1>3, <2>1, <2>2
  <2>3. CASE ~(i < p)
    <3>1. i - p + 1 \in 1 .. Len(ds) - p /\ p + (i - p + 1) = i + 1
      BY <1>0, <2>1, <2>3
    <3>2. new[i] = tail[i - p + 1]
      BY <1>3, <2>1, <2>3
    <3>3. tail[i - p + 1] = ds[i + 1]
      BY <1>2, <3>1
    <3>4. QED
      BY <2>3, <3>2, <3>3
  <2>4. QED
    BY <2>2, <2>3
<1>5. new = RemoveAt(ds, p)
  BY DEF new, head, tail, RemoveAt
<1>6. QED
  BY <1>3, <1>4, <1>5 DEF Dropped

LEMMA TailDrops ==
    ASSUME NEW S, NEW ds \in Seq(S), Len(ds) > 0
    PROVE  Tail(ds) \in Seq(S) /\ Dropped(ds, Tail(ds), 1)
<1>1. ds # <<>>
  OBVIOUS
<1>2. /\ Tail(ds) \in Seq(S) /\ Len(Tail(ds)) = Len(ds) - 1
      /\ \A i \in 1 .. Len(ds) - 1 : Tail(ds)[i] = ds[i + 1]
  BY <1>1, HeadTailProperties
<1>3. 1 \in DOMAIN ds
  OBVIOUS
<1>4. \A i \in 1 .. Len(Tail(ds)) : ~(i < 1)
  OBVIOUS
<1>5. QED
  BY <1>2, <1>3, <1>4 DEF Dropped

\* Two stores with the same drafts of a slot load the same.
LEMMA SameDraftLoads ==
    ASSUME NEW n \in Nat, NEW a, NEW b, Kept(a, n), Kept(b, n), NEW k,
           \A i \in DOMAIN a : a[i].key = k => \E j \in DOMAIN b : b[j] = a[i],
           \A j \in DOMAIN b : b[j].key = k => \E i \in DOMAIN a : a[i] = b[j]
    PROVE  loadEditorDraft(a, k) = loadEditorDraft(b, k)
<1>1. CASE Places(a, k) = {}
  <2>1. Places(b, k) = {}
    BY <1>1 DEF Places
  <2>2. QED
    BY <1>1, <2>1, LoadedIsThere
<1>2. CASE Places(a, k) # {}
  <2>1. PICK i \in DOMAIN a : a[i].key = k
    BY <1>2 DEF Places
  <2>2. PICK j \in DOMAIN b : b[j] = a[i]
    BY <2>1
  <2>3. loadEditorDraft(a, k) = a[i].doc /\ loadEditorDraft(b, k) = b[j].doc
    BY <2>1, <2>2, LoadedIsThere
  <2>4. QED
    BY <2>2, <2>3
<1>3. QED
  BY <1>1, <1>2

\* A store that lost one draft.
LEMMA DropKeeps ==
    ASSUME NEW n \in Nat, NEW ds, Kept(ds, n), NEW new \in Seq(Drafts(n)), NEW p,
           Dropped(ds, new, p)
    PROVE  /\ Kept(new, n) /\ Len(new) < Len(ds)
           /\ Places(new, ds[p].key) = {}
           /\ \A k : k # ds[p].key => loadEditorDraft(new, k) = loadEditorDraft(ds, k)
<1>1. /\ ds \in Seq(Drafts(n)) /\ DOMAIN ds = 1 .. Len(ds) /\ Len(ds) \in Nat
      /\ DOMAIN new = 1 .. Len(new) /\ Len(new) = Len(ds) - 1 /\ Len(new) \in Nat
      /\ p \in 1 .. Len(ds) /\ Quota \in Nat /\ Len(ds) <= Quota
      /\ \A i, j \in DOMAIN ds : ds[i].key = ds[j].key => i = j
  BY SessionAssumption DEF Kept, Dropped
<1> DEFINE at(i) == IF i < p THEN i ELSE i + 1
<1>2. \A i \in DOMAIN new : at(i) \in DOMAIN ds /\ new[i] = ds[at(i)] /\ at(i) # p
  BY <1>1 DEF Dropped
<1>3. \A i, j \in DOMAIN new : at(i) = at(j) => i = j
  BY <1>1
<1>4. ASSUME NEW j \in DOMAIN ds, j # p
      PROVE  \E i \in DOMAIN new : new[i] = ds[j]
  <2>1. CASE j < p
    <3>1. j \in DOMAIN new /\ at(j) = j
      BY <1>1, <2>1
    <3>2. QED
      BY <1>2, <3>1
  <2>2. CASE j > p
    <3>1. j - 1 \in DOMAIN new /\ at(j - 1) = j
      BY <1>1, <2>2
    <3>2. QED
      BY <1>2, <3>1
  <2>3. QED
    BY <1>1, <1>4, <2>1, <2>2
<1> HIDE DEF at
<1>5. \A i, j \in DOMAIN new : new[i].key = new[j].key => i = j
  BY <1>1, <1>2, <1>3
<1>6. Kept(new, n)
  BY <1>1, <1>5 DEF Kept
<1>7. Places(new, ds[p].key) = {}
  BY <1>1, <1>2 DEF Places
<1>8. ASSUME NEW k, k # ds[p].key
      PROVE  loadEditorDraft(new, k) = loadEditorDraft(ds, k)
  <2>1. \A i \in DOMAIN new : new[i].key = k => \E j \in DOMAIN ds : ds[j] = new[i]
    BY <1>2
  <2>2. \A j \in DOMAIN ds : ds[j].key = k => \E i \in DOMAIN new : new[i] = ds[j]
    BY <1>4, <1>8
  <2>3. QED
    BY <1>6, <2>1, <2>2, SameDraftLoads
<1>9. QED
  BY <1>1, <1>6, <1>7, <1>8

\* localStorage without its oldest draft.
LEMMA TailKeeps ==
    ASSUME NEW n \in Nat, NEW ds, Kept(ds, n), Len(ds) > 0
    PROVE  /\ Kept(Tail(ds), n) /\ Len(Tail(ds)) < Len(ds)
           /\ Places(Tail(ds), ds[1].key) = {}
           /\ \A j : j # ds[1].key => loadEditorDraft(Tail(ds), j) = loadEditorDraft(ds, j)
<1>1. ds \in Seq(Drafts(n))
  BY DEF Kept
<1> DEFINE rest == Tail(ds)
<1>2. rest \in Seq(Drafts(n)) /\ Dropped(ds, rest, 1)
  BY <1>1, TailDrops
<1> HIDE DEF rest
<1>3. /\ Kept(rest, n) /\ Len(rest) < Len(ds) /\ Places(rest, ds[1].key) = {}
      /\ \A j : j # ds[1].key => loadEditorDraft(rest, j) = loadEditorDraft(ds, j)
  BY <1>2, DropKeeps
<1>4. QED
  BY <1>3 DEF rest

LEMMA ClearKeeps ==
    ASSUME NEW n \in Nat, NEW ds, Kept(ds, n), NEW k
    PROVE  LET new == clearEditorDraft(ds, k)
           IN  /\ Kept(new, n) /\ Places(new, k) = {} /\ loadEditorDraft(new, k) = None
               /\ \A j : j # k => loadEditorDraft(new, j) = loadEditorDraft(ds, j)
               /\ IF Places(ds, k) = {} THEN new = ds ELSE Len(new) < Len(ds)
<1>1. CASE Places(ds, k) = {}
  BY <1>1, LoadedIsThere DEF clearEditorDraft
<1>2. CASE Places(ds, k) # {}
  <2> DEFINE at  == CHOOSE i \in Places(ds, k) : TRUE
             new == RemoveAt(ds, at)
  <2>1. at \in DOMAIN ds /\ ds[at].key = k
    BY <1>2 DEF Places
  <2>2. clearEditorDraft(ds, k) = new
    BY <1>2 DEF clearEditorDraft
  <2> HIDE DEF at
  <2>3. new \in Seq(Drafts(n)) /\ Dropped(ds, new, at)
    BY <2>1, RemoveDrops DEF Kept
  <2> HIDE DEF new
  <2>4. /\ Kept(new, n) /\ Len(new) < Len(ds) /\ Places(new, k) = {}
        /\ \A j : j # k => loadEditorDraft(new, j) = loadEditorDraft(ds, j)
    <3>1. /\ Kept(new, n) /\ Len(new) < Len(ds) /\ Places(new, ds[at].key) = {}
          /\ \A j : j # ds[at].key => loadEditorDraft(new, j) = loadEditorDraft(ds, j)
      BY SMTT(30), <2>3, DropKeeps
    <3>2. QED
      BY <2>1, <3>1
  <2>5. loadEditorDraft(new, k) = None
    BY <2>4, LoadedIsThere
  <2>6. QED
    BY <1>2, <2>2, <2>4, <2>5
<1>3. QED
  BY <1>1, <1>2

LEMMA AppendKeeps ==
    ASSUME NEW n \in Nat, NEW ds, Kept(ds, n), NEW k \in Slots, NEW doc \in DocsUpTo(n),
           Places(ds, k) = {}, Len(ds) < Quota
    PROVE  LET new == Append(ds, [key |-> k, doc |-> doc])
           IN  /\ Kept(new, n) /\ loadEditorDraft(new, k) = doc
               /\ \A j : j # k => loadEditorDraft(new, j) = loadEditorDraft(ds, j)
<1> DEFINE d   == [key |-> k, doc |-> doc]
           new == Append(ds, d)
<1>1. d \in Drafts(n) /\ d.key = k /\ d.doc = doc
  BY DEF Drafts
<1>2. /\ ds \in Seq(Drafts(n)) /\ DOMAIN ds = 1 .. Len(ds) /\ Len(ds) \in Nat
      /\ \A i, j \in DOMAIN ds : ds[i].key = ds[j].key => i = j
      /\ Quota \in Nat
  BY SessionAssumption DEF Kept
<1> HIDE DEF d
<1>3. /\ new \in Seq(Drafts(n)) /\ Len(new) = Len(ds) + 1 /\ DOMAIN new = 1 .. Len(ds) + 1
      /\ \A i \in DOMAIN ds : new[i] = ds[i] /\ i \in DOMAIN new
      /\ new[Len(ds) + 1] = d
  BY <1>1, <1>2
<1>4. \A i \in DOMAIN new : i \in DOMAIN ds \/ i = Len(ds) + 1
  BY <1>2, <1>3
<1> HIDE DEF new
<1>5. \A i \in DOMAIN ds : ds[i].key # k
  BY DEF Places
<1>6. \A i, j \in DOMAIN new : new[i].key = new[j].key => i = j
  BY <1>1, <1>2, <1>3, <1>4, <1>5
<1>7. Kept(new, n)
  BY <1>2, <1>3, <1>6 DEF Kept
<1>8. loadEditorDraft(new, k) = doc
  <2>1. Len(ds) + 1 \in DOMAIN new /\ new[Len(ds) + 1].key = k
    BY <1>1, <1>2, <1>3
  <2>2. QED
    BY <1>1, <1>3, <1>7, <2>1, LoadedIsThere
<1>9. ASSUME NEW j, j # k
      PROVE  loadEditorDraft(new, j) = loadEditorDraft(ds, j)
  <2>1. \A i \in DOMAIN new : new[i].key = j => \E l \in DOMAIN ds : ds[l] = new[i]
    BY <1>1, <1>3, <1>4, <1>9
  <2>2. \A i \in DOMAIN ds : ds[i].key = j => \E l \in DOMAIN new : new[l] = ds[i]
    BY <1>3
  <2>3. QED
    BY <1>7, <2>1, <2>2, SameDraftLoads
<1>10. QED
  BY <1>7, <1>8, <1>9 DEF new, d

\* A draft that is saved is there; another one goes only when it is the oldest
\* of a full store that did not hold this one.
LEMMA SaveKeeps ==
    ASSUME NEW n \in Nat, NEW ds, Kept(ds, n), NEW k \in Slots, NEW doc \in DocsUpTo(n)
    PROVE  LET new == saveEditorDraft(ds, k, doc)
           IN  /\ Kept(new, n) /\ loadEditorDraft(new, k) = doc
               /\ \A j : j # k =>
                     \/ loadEditorDraft(new, j) = loadEditorDraft(ds, j)
                     \/ /\ loadEditorDraft(new, j) = None
                        /\ Places(ds, k) = {} /\ Len(ds) = Quota /\ ds[1].key = j
<1> DEFINE others == clearEditorDraft(ds, k)
           room   == IF Len(others) < Quota THEN others ELSE Tail(others)
           new    == Append(room, [key |-> k, doc |-> doc])
<1>1. /\ Kept(others, n) /\ Places(others, k) = {} /\ loadEditorDraft(others, k) = None
      /\ \A j : j # k => loadEditorDraft(others, j) = loadEditorDraft(ds, j)
      /\ IF Places(ds, k) = {} THEN others = ds ELSE Len(others) < Len(ds)
  BY ClearKeeps
<1>2. new = saveEditorDraft(ds, k, doc)
  BY DEF saveEditorDraft
<1> HIDE DEF others
<1>3. CASE Len(others) < Quota
  <2>1. room = others
    BY <1>3
  <2>2. /\ Kept(new, n) /\ loadEditorDraft(new, k) = doc
        /\ \A j : j # k => loadEditorDraft(new, j) = loadEditorDraft(others, j)
    BY <1>1, <1>3, <2>1, AppendKeeps
  <2>3. QED
    BY <1>1, <1>2, <2>2
<1>4. CASE ~(Len(others) < Quota)
  <2>1. /\ others \in Seq(Drafts(n)) /\ Len(others) \in Nat /\ Len(others) = Quota
        /\ Quota \in Nat \ {0} /\ Len(ds) \in Nat /\ Len(ds) <= Quota /\ 1 \in DOMAIN others
    BY <1>1, <1>4, SessionAssumption DEF Kept
  <2>2. Places(ds, k) = {} /\ others = ds /\ Len(ds) = Quota
    BY <1>1, <2>1
  <2> DEFINE rest == Tail(others)
  <2>3. Len(others) > 0
    BY <2>1
  <2>4. /\ Kept(rest, n) /\ Len(rest) < Quota
        /\ Places(rest, others[1].key) = {}
        /\ \A j : j # others[1].key =>
              loadEditorDraft(rest, j) = loadEditorDraft(others, j)
    BY <1>1, <2>1, <2>3, TailKeeps
  <2> HIDE DEF rest
  <2>5. others[1].key # k
    BY <1>1, <2>1 DEF Places
  <2>6. loadEditorDraft(rest, k) = None /\ Places(rest, k) = {}
    BY <1>1, <2>4, <2>5, LoadedIsThere
  <2>7. room = rest
    BY <1>4 DEF rest
  <2>8. /\ Kept(new, n) /\ loadEditorDraft(new, k) = doc
        /\ \A j : j # k => loadEditorDraft(new, j) = loadEditorDraft(rest, j)
    <3>1. LET longer == Append(rest, [key |-> k, doc |-> doc])
          IN  /\ Kept(longer, n) /\ loadEditorDraft(longer, k) = doc
              /\ \A j : j # k => loadEditorDraft(longer, j) = loadEditorDraft(rest, j)
      BY <2>4, <2>6, AppendKeeps
    <3>2. QED
      BY <2>7, <3>1
  <2>9. ASSUME NEW j, j # k
        PROVE  \/ loadEditorDraft(new, j) = loadEditorDraft(ds, j)
               \/ /\ loadEditorDraft(new, j) = None
                  /\ Places(ds, k) = {} /\ Len(ds) = Quota /\ ds[1].key = j
    <3>1. CASE j = others[1].key
      BY <2>2, <2>4, <2>8, <2>9, <3>1, LoadedIsThere
    <3>2. CASE j # others[1].key
      BY <2>2, <2>4, <2>8, <2>9, <3>2
    <3>3. QED
      BY <3>1, <3>2
  <2>10. QED
    BY <1>2, <2>8, <2>9
<1>5. QED
  BY <1>3, <1>4


-----------------------------------------------------------------------------
(* A session's invariant                                                    *)

\* Saves under way, and the toasts of those that failed.
SavesOf(n, s)  == [id : Nat, session : 1 .. s, doc : DocsUpTo(n), stored : BOOLEAN]
ToastsOf(n, s) == [id : Nat, session : 1 .. s, doc : DocsUpTo(n)]

\* How many saves of the session s are under way.
Under(rs, s) == Cardinality({r \in rs : r.session = s})

ScreenInv ==
    /\ isUpdate \in BOOLEAN
    /\ page \in {"editor", "leaving", "away"}
    /\ session \in 1 .. MaxSessions
    /\ opened \in DocsUpTo(edits)
    /\ armed \in BOOLEAN /\ cleared \in BOOLEAN /\ dialogOpen \in BOOLEAN
    /\ saveStatus \in {"idle", "saving"}
    /\ offered \in DocsUpTo(edits) \cup {None}

OutsideInv ==
    /\ saves \in Nat
    /\ requests \subseteq SavesOf(edits, session) /\ IsFiniteSet(requests)
    /\ retries \subseteq ToastsOf(edits, session)
    /\ server \in Seq(DocsUpTo(edits))
    /\ isUpdate => server # <<>>
    /\ retried \in [1 .. MaxSessions -> Nat]

\* RefreshKeepsEdits, as the draft itself.
RefreshInv ==
    mounted /\ ~armed /\ ~cleared /\ foldedVariants # opened
        => loadEditorDraft(drafts, Own) = foldedVariants

\* While the button or the dialog lets a session save again, nothing is under
\* way but what Retry has sent.
OverlapInv ==
    /\ \A s \in 1 .. session : Under(requests, s) <= 1 + retried[s]
    /\ mounted /\ (saveStatus = "idle" \/ dialogOpen)
           => Under(requests, session) <= retried[session]
    /\ dialogOpen => mounted /\ ~isUpdate

SessionInv ==
    /\ IInv
    /\ ScreenInv
    /\ Kept(drafts, edits)
    /\ OutsideInv
    /\ RefreshInv
    /\ OverlapInv

LEMMA FoldedIsDoc ==
    ASSUME IInv
    PROVE  /\ edits \in Nat /\ foldedVariants \in DocsUpTo(edits)
           /\ foldedVariants \in Docs /\ foldedVariants # None
<1>1. HistoryTypeOK /\ LineInv
  BY DEF IInv
<1>2. /\ edits \in Nat /\ live.v \in Variants /\ live.n \in 0 .. edits
      /\ variants \in [Variants -> 0 .. edits]
  BY <1>1, Types DEF LineInv
<1>3. foldedVariants \in DocsUpTo(edits)
  BY <1>2 DEF foldedVariants, DocsUpTo
<1>4. QED
  BY <1>2, <1>3, DocIsNotNone

\* The screen is left alone.
LEMMA StillScreen ==
    ASSUME IInv, UNCHANGED <<loadoutVars, historyVars>>
    PROVE  /\ IInv' /\ [Timeline!Next]_(Timeline!vars)
           /\ foldedVariants' = foldedVariants /\ edits' = edits /\ live' = live
<1>1. UNCHANGED historyAll
  BY DEF historyAll
<1>2. IInv' /\ [Timeline!Next]_(Timeline!vars)
  BY <1>1, NextInv, StepIsTimelines
<1>3. UNCHANGED <<live, variants, edits>>
  BY DEF loadoutVars
<1>4. QED
  BY <1>2, <1>3 DEF foldedVariants

\* A document takes the screen: the line starts again.
LEMMA NewScreen ==
    ASSUME edits' \in Nat, NEW doc \in DocsUpTo(edits'), NEW v \in Variants,
           live' = [v |-> v, n |-> doc[v]], Fresh(doc)
    PROVE  /\ IInv' /\ foldedVariants' = doc
           /\ [Timeline!Next]_(Timeline!vars)
<1>1. /\ variants' = doc /\ past' = <<>> /\ future' = <<>> /\ baseline' = live'
      /\ applying' = FALSE /\ handle' = None
  BY DEF Fresh
<1>2. doc \in [Variants -> Nat] /\ \A w \in Variants : doc[w] <= edits'
  BY DEF DocsUpTo
<1>3. live' \in Snap /\ live'.n <= edits' /\ live'.v = v /\ live'.n = doc[v]
  BY <1>2 DEF Snap, EditorHistorySnapshot
<1>4. /\ Now' = <<live'>> /\ Len(past') = 0 /\ Len(future') = 0
      /\ past' \in Seq(Snap) /\ future' \in Seq(Snap)
  BY <1>1, <1>3, NewLine DEF Now
<1>5. LineInv'
  BY <1>1, <1>2, <1>3, <1>4 DEF LineInv
<1>6. HistoryTypeOK'
  BY <1>1, <1>2, <1>3, <1>4 DEF HistoryTypeOK, Snap
<1>7. RefsInv'
  BY <1>1, <1>4, HistoryAssumption DEF RefsInv
<1>8. foldedVariants' = doc
  BY <1>1, <1>2, <1>3 DEF foldedVariants
<1>9. Timeline!Restart
  BY <1>1, <1>3, <1>4 DEF Timeline!Restart, Now, Line, Snap
<1>10. QED
  BY <1>5, <1>6, <1>7, <1>8, <1>9 DEF IInv, Timeline!Next

LEMMA UnderMonotone ==
    ASSUME NEW a, NEW b, IsFiniteSet(b), a \subseteq b, NEW s
    PROVE  /\ IsFiniteSet(a) /\ Under(a, s) \in Nat /\ Under(b, s) \in Nat
           /\ Under(a, s) <= Under(b, s)
<1> DEFINE A == {r \in a : r.session = s}
           B == {r \in b : r.session = s}
<1>1. IsFiniteSet(a) /\ A \subseteq a /\ B \subseteq b /\ A \subseteq B
  BY FS_Subset
<1>2. IsFiniteSet(A) /\ IsFiniteSet(B)
  BY <1>1, FS_Subset
<1>3. Cardinality(A) <= Cardinality(B) /\ Cardinality(A) \in Nat /\ Cardinality(B) \in Nat
  BY <1>1, <1>2, FS_Subset, FS_CardinalityType
<1>4. QED
  BY <1>1, <1>3 DEF Under

\* One more save under way.
LEMMA UnderOneMore ==
    ASSUME NEW rs, IsFiniteSet(rs), NEW r, NEW s
    PROVE  /\ IsFiniteSet(rs \cup {r})
           /\ Under(rs, s) \in Nat /\ Under(rs \cup {r}, s) \in Nat
           /\ Under(rs \cup {r}, s) <= Under(rs, s) + 1
           /\ r.session # s => Under(rs \cup {r}, s) = Under(rs, s)
<1> DEFINE A == {q \in rs : q.session = s}
           B == {q \in rs \cup {r} : q.session = s}
<1>1. IsFiniteSet(rs \cup {r}) /\ IsFiniteSet(A)
  BY FS_AddElement, FS_Subset
<1>2. Cardinality(A) \in Nat
  BY <1>1, FS_CardinalityType
<1>u. Under(rs, s) = Cardinality(A) /\ Under(rs \cup {r}, s) = Cardinality(B)
  BY DEF Under
<1>3. CASE r.session = s
  <2>1. B = A \cup {r}
    BY <1>3
  <2>2. Cardinality(B) = Cardinality(A) \/ Cardinality(B) = Cardinality(A) + 1
    BY <1>1, <2>1, FS_AddElement
  <2>3. QED
    BY <1>1, <1>2, <1>3, <1>u, <2>2
<1>4. CASE r.session # s
  <2>1. B = A
    BY <1>4
  <2>2. QED
    BY <1>1, <1>2, <1>4, <1>u, <2>1
<1>5. QED
  BY <1>3, <1>4

\* One save less.
LEMMA UnderOneLess ==
    ASSUME NEW rs, IsFiniteSet(rs), NEW r \in rs, NEW s, r.session = s
    PROVE  /\ Under(rs, s) \in Nat /\ Under(rs \ {r}, s) \in Nat
           /\ Under(rs \ {r}, s) = Under(rs, s) - 1
<1> DEFINE A == {q \in rs : q.session = s}
           B == {q \in rs \ {r} : q.session = s}
<1>1. IsFiniteSet(A) /\ r \in A /\ B = A \ {r}
  BY FS_Subset
<1>2. Cardinality(A) \in Nat
  BY <1>1, FS_CardinalityType
<1>3. IsFiniteSet(B) /\ Cardinality(B) = Cardinality(A) - 1
  BY <1>1, FS_RemoveElement
<1>4. Cardinality(B) \in Nat
  BY <1>3, FS_CardinalityType
<1>5. QED
  BY <1>2, <1>3, <1>4 DEF Under

\* What the sessions left behind is still typed when there are more documents
\* and more sessions.
LEMMA OutsideGrows ==
    ASSUME NEW n \in Nat, NEW m \in Nat, n <= m, NEW s \in Nat, NEW t \in Nat, s <= t
    PROVE  /\ SavesOf(n, s) \subseteq SavesOf(m, t)
           /\ ToastsOf(n, s) \subseteq ToastsOf(m, t)
           /\ Seq(DocsUpTo(n)) \subseteq Seq(DocsUpTo(m))
<1>1. DocsUpTo(n) \subseteq DocsUpTo(m) /\ 1 .. s \subseteq 1 .. t
  BY DocsGrow
<1>2. SavesOf(n, s) \subseteq SavesOf(m, t) /\ ToastsOf(n, s) \subseteq ToastsOf(m, t)
  BY <1>1 DEF SavesOf, ToastsOf
<1>3. QED
  BY <1>1, <1>2

\* A session starts on a document: whatever was on the screen, the invariant
\* holds of the new one.
LEMMA MountKeeps ==
    ASSUME SessionInv, edits' \in Nat, edits <= edits',
           NEW doc \in DocsUpTo(edits'), NEW ds, Kept(ds, edits'), Mount(doc, ds),
           offered' \in DocsUpTo(edits') \cup {None},
           UNCHANGED <<isUpdate, saves, server, retried>>,
           requests' \subseteq requests, retries' \subseteq retries
    PROVE  SessionInv' /\ [Timeline!Next]_(Timeline!vars)
<1>1. /\ ScreenInv /\ OutsideInv /\ OverlapInv /\ edits \in Nat
      /\ session \in 1 .. MaxSessions /\ MaxSessions \in Nat
  BY FoldedIsDoc, SessionAssumption DEF SessionInv, ScreenInv
<1>2. /\ session < MaxSessions /\ session' = session + 1 /\ page' = "editor"
      /\ Fresh(doc) /\ drafts' = ds
  BY DEF Mount
<1>3. PICK v \in Variants : live' = [v |-> v, n |-> doc[v]]
  BY DEF Mount
<1>4. IInv' /\ foldedVariants' = doc /\ [Timeline!Next]_(Timeline!vars)
  BY <1>2, <1>3, NewScreen
<1>5. /\ opened' = doc /\ armed' = FALSE /\ cleared' = FALSE /\ saveStatus' = "idle"
      /\ dialogOpen' = FALSE
  BY <1>2 DEF Fresh
<1>6. session' \in 1 .. MaxSessions /\ session <= session' /\ session \in Nat /\ session' \in Nat
  BY <1>1, <1>2
<1>7. ScreenInv'
  BY <1>1, <1>2, <1>5, <1>6 DEF ScreenInv
<1>8. OutsideInv'
  <2>1. /\ requests \subseteq SavesOf(edits, session) /\ IsFiniteSet(requests)
        /\ retries \subseteq ToastsOf(edits, session) /\ server \in Seq(DocsUpTo(edits))
    BY <1>1 DEF OutsideInv
  <2>2. /\ requests' \subseteq SavesOf(edits', session')
        /\ retries' \subseteq ToastsOf(edits', session')
        /\ server' \in Seq(DocsUpTo(edits'))
    BY <1>1, <1>6, <2>1, OutsideGrows
  <2>3. IsFiniteSet(requests')
    BY <2>1, FS_Subset
  <2>4. QED
    BY <1>1, <2>2, <2>3 DEF OutsideInv
<1>9. RefreshInv'
  BY <1>4, <1>5 DEF RefreshInv
<1>10. OverlapInv'
  <2>1. IsFiniteSet(requests) /\ requests \subseteq SavesOf(edits, session)
        /\ retried \in [1 .. MaxSessions -> Nat]
    BY <1>1 DEF OutsideInv
  <2>2. ASSUME NEW s \in 1 .. session
        PROVE  Under(requests', s) <= 1 + retried[s]
    <3>1. Under(requests, s) <= 1 + retried[s]
      BY <1>1 DEF OverlapInv
    <3>2. Under(requests', s) <= Under(requests, s)
          /\ Under(requests', s) \in Nat /\ Under(requests, s) \in Nat
      BY <2>1, UnderMonotone
    <3>3. retried[s] \in Nat
      BY <1>1, <2>1
    <3>4. QED
      BY <3>1, <3>2, <3>3
  <2>3. Under(requests', session') = 0
    <3>1. \A r \in requests' : r.session \in 1 .. session
      BY <2>1 DEF SavesOf
    <3>2. {r \in requests' : r.session = session'} = {}
      BY <1>2, <1>6, <3>1
    <3>3. QED
      BY <3>2, FS_EmptySet DEF Under
  <2>4. retried[session'] \in Nat
    BY <1>6, <2>1
  <2>5. \A s \in 1 .. session' : s \in 1 .. session \/ s = session'
    BY <1>2, <1>6
  <2>6. QED
    BY <1>5, <2>2, <2>3, <2>4, <2>5 DEF OverlapInv
<1>11. QED
  BY <1>2, <1>4, <1>7, <1>8, <1>9, <1>10 DEF SessionInv

\* The editor is left: its saves and drafts stay.
LEMMA UnmountKeeps ==
    ASSUME SessionInv, Unmount, UNCHANGED <<edits, session, drafts, offered, outside>>
    PROVE  SessionInv' /\ [Timeline!Next]_(Timeline!vars)
<1>1. /\ IInv /\ ScreenInv /\ OutsideInv /\ OverlapInv /\ Kept(drafts, edits)
      /\ edits \in Nat /\ live.v \in Variants
  BY FoldedIsDoc, Types DEF SessionInv, IInv
<1>2. /\ page' = "away" /\ live' = [v |-> live.v, n |-> 0] /\ Fresh(Blank)
      /\ UNCHANGED <<edits, session, drafts, offered, isUpdate, requests, retries, saves,
                     server, retried>>
  BY DEF Unmount, outside
<1>3. Blank \in DocsUpTo(edits') /\ edits' \in Nat /\ Blank[live.v] = 0
  BY <1>1, <1>2 DEF Blank, DocsUpTo
<1>4. IInv' /\ [Timeline!Next]_(Timeline!vars)
  <2>1. live' = [v |-> live.v, n |-> Blank[live.v]]
    BY <1>2, <1>3
  <2>2. QED
    BY <1>1, <1>2, <1>3, <2>1, NewScreen
<1>5. /\ opened' = Blank /\ armed' = FALSE /\ cleared' = FALSE /\ saveStatus' = "idle"
      /\ dialogOpen' = FALSE /\ ~mounted'
  BY <1>2 DEF Fresh, mounted
<1>6. ScreenInv' /\ Kept(drafts, edits)'
  BY <1>1, <1>2, <1>3, <1>5 DEF ScreenInv
<1>7. OutsideInv'
  BY <1>1, <1>2 DEF OutsideInv
<1>8. RefreshInv' /\ OverlapInv'
  BY <1>1, <1>2, <1>5 DEF RefreshInv, OverlapInv
<1>9. QED
  BY <1>4, <1>6, <1>7, <1>8 DEF SessionInv

-----------------------------------------------------------------------------
(* The steps that start or end a session                                    *)

\* The body of BackupWaitsForTheUser.
BackupStep ==
    LET backup == loadEditorDraft(drafts, Backup)
    IN  backup # None /\ loadEditorDraft(drafts', Backup) # backup
          => /\ loadEditorDraft(drafts', Backup) = None
             /\ \/ offered # None /\ offered' = None
                \/ Len(drafts) = Quota /\ drafts[1].key = Backup

\* What every step does: it keeps the invariant, is a move of the timeline or
\* none at all, and leaves the backup to the user.
Goal == SessionInv' /\ [Timeline!Next]_(Timeline!vars) /\ BackupStep

LEMMA SlotsAreApart ==
    /\ Own \in Slots /\ Backup \in Slots /\ Own # Backup
    /\ \A k \in Others : k \in Slots /\ k # Backup /\ k # Own
  BY SessionAssumption DEF Slots

\* What is offered, and what opens, is a document seen before.
LEMMA ResolvedIsDoc ==
    ASSUME SessionInv, NEW ds, Kept(ds, edits)
    PROVE  resolveSavedDataAll(ds) \in DocsUpTo(edits)
<1>1. /\ edits \in Nat /\ server \in Seq(DocsUpTo(edits)) /\ isUpdate \in BOOLEAN
      /\ isUpdate => server # <<>>
  BY FoldedIsDoc DEF SessionInv, OutsideInv, ScreenInv
<1>2. Saved \in DocsUpTo(edits)
  <2>1. Blank \in DocsUpTo(edits)
    BY <1>1 DEF Blank, DocsUpTo
  <2>2. CASE isUpdate
    <3>1. Len(server) \in 1 .. Len(server)
      BY <1>1, <2>2, EmptySeq
    <3>2. server[Len(server)] \in DocsUpTo(edits)
      BY <1>1, <3>1, ElementOfSeq
    <3>3. QED
      BY <2>2, <3>2 DEF Saved, Last
  <2>3. QED
    BY <2>1, <2>2 DEF Saved
<1>3. loadEditorDraft(ds, Own) \in DocsUpTo(edits) \cup {None}
  BY <1>1, LoadedIsThere
<1>4. QED
  BY <1>2, <1>3 DEF resolveSavedDataAll

LEMMA OfferIsDoc ==
    ASSUME NEW n \in Nat, NEW ds, Kept(ds, n), offered \in DocsUpTo(n) \cup {None}
    PROVE  offers(ds) \in DocsUpTo(n) \cup {None}
  BY LoadedIsThere DEF offers

\* The document a share link brings, and the drafts it leaves.
LEMMA AdoptedKeeps ==
    ASSUME NEW n \in Nat, NEW ds, Kept(ds, n), NEW doc \in DocsUpTo(n)
    PROVE  /\ Kept(Adopted(ds, doc), n)
           /\ LET backup == loadEditorDraft(ds, Backup)
                  after  == loadEditorDraft(Adopted(ds, doc), Backup)
              IN  backup # None /\ after # backup
                    => after = None /\ Len(ds) = Quota /\ ds[1].key = Backup
<1> DEFINE replaced == loadEditorDraft(ds, Own)
           own      == saveEditorDraft(ds, Own, doc)
           backup   == loadEditorDraft(ds, Backup)
<1>1. /\ Kept(own, n)
      /\ \/ loadEditorDraft(own, Backup) = backup
         \/ /\ loadEditorDraft(own, Backup) = None
            /\ Places(ds, Own) = {} /\ Len(ds) = Quota /\ ds[1].key = Backup
  BY SaveKeeps, SlotsAreApart
<1>2. replaced \in DocsUpTo(n) \cup {None} /\ (replaced = None <=> Places(ds, Own) = {})
  BY LoadedIsThere
<1>3. Adopted(ds, doc) = IF replaced # None /\ loadEditorDraft(own, Backup) = None
                         THEN saveEditorDraft(own, Backup, replaced) ELSE own
  BY DEF Adopted
<1> HIDE DEF own, replaced, backup
<1>4. CASE replaced # None /\ loadEditorDraft(own, Backup) = None
  <2>1. Kept(saveEditorDraft(own, Backup, replaced), n)
    BY <1>1, <1>2, <1>4, SaveKeeps, SlotsAreApart
  <2>2. backup = None
    BY <1>1, <1>2, <1>4
  <2>3. QED
    BY <1>3, <1>4, <2>1, <2>2 DEF backup
<1>5. CASE ~(replaced # None /\ loadEditorDraft(own, Backup) = None)
  <2>1. Adopted(ds, doc) = own
    BY <1>3, <1>5
  <2>2. QED
    BY <1>1, <2>1 DEF backup
<1>6. QED
  BY <1>4, <1>5

LEMMA LeaveStep ==
    ASSUME SessionInv, leave \/ navigated
    PROVE  Goal
<1>1. Unmount /\ UNCHANGED <<edits, session, drafts, offered, outside>>
  BY DEF leave, navigated
<1>2. BackupStep
  BY <1>1 DEF BackupStep
<1>3. QED
  BY <1>1, <1>2, UnmountKeeps DEF Goal

LEMMA OpenStep ==
    ASSUME SessionInv, open
    PROVE  Goal
<1>1. /\ edits \in Nat /\ Kept(drafts, edits) /\ offered \in DocsUpTo(edits) \cup {None}
  BY FoldedIsDoc DEF SessionInv, ScreenInv
<1>2. /\ Mount(resolveSavedDataAll(drafts), drafts) /\ offered' = offers(drafts)
      /\ UNCHANGED <<edits, isUpdate, requests, retries, saves, server, retried>>
  BY DEF open, outside
<1>3. resolveSavedDataAll(drafts) \in DocsUpTo(edits)
  BY <1>1, ResolvedIsDoc
<1>4. offers(drafts) \in DocsUpTo(edits) \cup {None}
  BY <1>1, OfferIsDoc
<1>5. SessionInv' /\ [Timeline!Next]_(Timeline!vars)
  BY <1>1, <1>2, <1>3, <1>4, MountKeeps
<1>6. drafts' = drafts
  BY <1>2 DEF Mount
<1>7. QED
  BY <1>5, <1>6 DEF Goal, BackupStep

LEMMA ReloadStep ==
    ASSUME SessionInv, reload
    PROVE  Goal
<1>1. /\ edits \in Nat /\ Kept(drafts, edits)
  BY FoldedIsDoc DEF SessionInv, ScreenInv
<1>2. /\ Mount(resolveSavedDataAll(drafts), drafts)
      /\ offered' = loadEditorDraft(drafts, Backup)
      /\ requests' = {} /\ retries' = {}
      /\ UNCHANGED <<edits, isUpdate, saves, server, retried>>
  BY DEF reload
<1>3. resolveSavedDataAll(drafts) \in DocsUpTo(edits)
  BY <1>1, ResolvedIsDoc
<1>4. offered' \in DocsUpTo(edits) \cup {None}
  BY <1>1, <1>2, LoadedIsThere
<1>5. SessionInv' /\ [Timeline!Next]_(Timeline!vars)
  BY <1>1, <1>2, <1>3, <1>4, MountKeeps
<1>6. drafts' = drafts
  BY <1>2 DEF Mount
<1>7. QED
  BY <1>5, <1>6 DEF Goal, BackupStep

LEMMA AdoptStep ==
    ASSUME SessionInv, adopt
    PROVE  Goal
<1>1. /\ edits \in Nat /\ Kept(drafts, edits) /\ offered \in DocsUpTo(edits) \cup {None}
  BY FoldedIsDoc DEF SessionInv, ScreenInv
<1> DEFINE doc == [v \in Variants |-> edits']
<1>2. /\ edits' = edits + 1 /\ Mount(doc, Adopted(drafts, doc))
      /\ offered' = offers(drafts')
      /\ UNCHANGED <<isUpdate, requests, retries, saves, server, retried>>
  BY DEF adopt, outside
<1>3. /\ edits' \in Nat /\ edits <= edits' /\ doc \in DocsUpTo(edits')
      /\ offered \in DocsUpTo(edits') \cup {None} /\ Kept(drafts, edits')
  <2>1. edits' \in Nat /\ edits <= edits' /\ doc \in DocsUpTo(edits')
    BY <1>1, <1>2 DEF DocsUpTo
  <2>2. QED
    BY <1>1, <2>1, DocsGrow
<1> HIDE DEF doc
<1>4. Kept(Adopted(drafts, doc), edits')
  BY <1>3, AdoptedKeeps
<1>5. drafts' = Adopted(drafts, doc)
  BY <1>2 DEF Mount
<1>6. offers(drafts') \in DocsUpTo(edits') \cup {None}
  BY <1>3, <1>4, <1>5, OfferIsDoc
<1>7. SessionInv' /\ [Timeline!Next]_(Timeline!vars)
  BY <1>2, <1>3, <1>4, <1>6, MountKeeps
<1>8. BackupStep
  BY <1>3, <1>5, AdoptedKeeps DEF BackupStep
<1>9. QED
  BY <1>7, <1>8 DEF Goal

LEMMA ResetStep ==
    ASSUME SessionInv, resetToSaved
    PROVE  Goal
<1>1. /\ edits \in Nat /\ Kept(drafts, edits) /\ offered \in DocsUpTo(edits) \cup {None}
  BY FoldedIsDoc DEF SessionInv, ScreenInv
<1> DEFINE ds == clearEditorDraft(drafts, Own)
<1>2. /\ Mount(resolveSavedDataAll(ds), ds) /\ offered' = offers(drafts')
      /\ UNCHANGED <<edits, isUpdate, requests, retries, saves, server, retried>>
  BY DEF resetToSaved, outside
<1>3. Kept(ds, edits) /\ loadEditorDraft(ds, Backup) = loadEditorDraft(drafts, Backup)
  BY <1>1, ClearKeeps, SlotsAreApart
<1> HIDE DEF ds
<1>4. drafts' = ds
  BY <1>2 DEF Mount
<1>5. resolveSavedDataAll(ds) \in DocsUpTo(edits)
  BY <1>3, ResolvedIsDoc
<1>6. offers(drafts') \in DocsUpTo(edits) \cup {None}
  BY <1>1, <1>3, <1>4, OfferIsDoc
<1>7. SessionInv' /\ [Timeline!Next]_(Timeline!vars)
  BY <1>1, <1>2, <1>3, <1>5, <1>6, MountKeeps
<1>8. QED
  BY <1>3, <1>4, <1>7 DEF Goal, BackupStep

\* Only the drafts and the toast change, and the draft of what is on a mounted
\* screen does not.
LEMMA DraftsOnly ==
    ASSUME SessionInv, Kept(drafts', edits), offered' \in DocsUpTo(edits) \cup {None},
           mounted => loadEditorDraft(drafts', Own) = loadEditorDraft(drafts, Own),
           UNCHANGED <<loadoutVars, historyVars, page, session, opened, armed, saveStatus,
                       dialogOpen, cleared, outside>>
    PROVE  SessionInv' /\ [Timeline!Next]_(Timeline!vars)
<1>1. IInv /\ ScreenInv /\ OutsideInv /\ RefreshInv /\ OverlapInv
  BY DEF SessionInv
<1>2. /\ IInv' /\ [Timeline!Next]_(Timeline!vars)
      /\ foldedVariants' = foldedVariants /\ edits' = edits
  BY <1>1, StillScreen
<1>3. UNCHANGED <<page, session, opened, armed, saveStatus, dialogOpen, cleared,
                  isUpdate, requests, retries, saves, server, retried>>
  BY DEF outside
<1>4. ScreenInv' /\ OutsideInv'
  BY <1>1, <1>2, <1>3 DEF ScreenInv, OutsideInv
<1>5. RefreshInv' /\ OverlapInv'
  BY <1>1, <1>2, <1>3 DEF RefreshInv, OverlapInv, mounted
<1>6. Kept(drafts, edits)'
  BY <1>2
<1>7. QED
  BY <1>2, <1>4, <1>5, <1>6 DEF SessionInv

LEMMA DiscardStep ==
    ASSUME SessionInv, discardReplaced
    PROVE  Goal
<1>1. edits \in Nat /\ Kept(drafts, edits)
  BY FoldedIsDoc DEF SessionInv
<1>2. /\ offered # None /\ offered' = None /\ drafts' = clearEditorDraft(drafts, Backup)
      /\ UNCHANGED <<loadoutVars, historyVars, page, session, opened, armed, saveStatus,
                     dialogOpen, cleared, outside>>
  BY DEF discardReplaced
<1>3. /\ Kept(drafts', edits) /\ loadEditorDraft(drafts', Backup) = None
      /\ loadEditorDraft(drafts', Own) = loadEditorDraft(drafts, Own)
  BY <1>1, <1>2, ClearKeeps, SlotsAreApart
<1>4. SessionInv' /\ [Timeline!Next]_(Timeline!vars)
  BY <1>2, <1>3, DraftsOnly
<1>5. QED
  BY <1>2, <1>3, <1>4 DEF Goal, BackupStep

LEMMA OtherDraftStep ==
    ASSUME SessionInv, otherDraft
    PROVE  Goal
<1>1. /\ edits \in Nat /\ Kept(drafts, edits) /\ offered \in DocsUpTo(edits) \cup {None}
  BY FoldedIsDoc DEF SessionInv, ScreenInv
<1>2. /\ ~mounted /\ offered' = offered
      /\ UNCHANGED <<loadoutVars, historyVars, page, session, opened, armed, saveStatus,
                     dialogOpen, cleared, outside>>
  BY DEF otherDraft, mounted
<1>3. PICK k \in Others : drafts' = saveEditorDraft(drafts, k, Blank)
  BY DEF otherDraft
<1>4. Blank \in DocsUpTo(edits) /\ k \in Slots /\ k # Backup
  BY <1>1, SlotsAreApart DEF Blank, DocsUpTo
<1>5. /\ Kept(drafts', edits)
      /\ \/ loadEditorDraft(drafts', Backup) = loadEditorDraft(drafts, Backup)
         \/ /\ loadEditorDraft(drafts', Backup) = None
            /\ Len(drafts) = Quota /\ drafts[1].key = Backup
  BY <1>1, <1>3, <1>4, SaveKeeps
<1>6. SessionInv' /\ [Timeline!Next]_(Timeline!vars)
  BY <1>1, <1>2, <1>5, DraftsOnly
<1>7. QED
  BY <1>5, <1>6 DEF Goal, BackupStep

LEMMA RestoreReplacedStep ==
    ASSUME SessionInv, restoreReplaced
    PROVE  Goal
<1>1. /\ edits \in Nat /\ Kept(drafts, edits) /\ offered \in DocsUpTo(edits) \cup {None}
  BY FoldedIsDoc DEF SessionInv, ScreenInv
<1> DEFINE own == saveEditorDraft(drafts, Own, offered)
           ds  == clearEditorDraft(own, Backup)
<1>2. /\ offered # None /\ offered' = None
      /\ UNCHANGED <<isUpdate, requests, retries, saves, server, retried>>
      /\ IF mounted
         THEN Mount(resolveSavedDataAll(ds), ds) /\ UNCHANGED edits
         ELSE /\ drafts' = ds
              /\ UNCHANGED <<loadoutVars, historyVars, page, session, opened, armed,
                             saveStatus, dialogOpen, cleared>>
  BY DEF restoreReplaced, outside
<1>3. Kept(own, edits)
  BY <1>1, <1>2, SaveKeeps, SlotsAreApart
<1> HIDE DEF own
<1>4. Kept(ds, edits) /\ loadEditorDraft(ds, Backup) = None
  BY <1>1, <1>3, ClearKeeps
<1> HIDE DEF ds
<1>5. drafts' = ds
  BY <1>2 DEF Mount
<1>6. SessionInv' /\ [Timeline!Next]_(Timeline!vars)
  <2>1. CASE mounted
    <3>1. resolveSavedDataAll(ds) \in DocsUpTo(edits)
      BY <1>4, ResolvedIsDoc
    <3>2. Mount(resolveSavedDataAll(ds), ds) /\ edits' = edits
      BY <1>2, <2>1
    <3>3. QED
      BY <1>1, <1>2, <1>4, <3>1, <3>2, MountKeeps
  <2>2. CASE ~mounted
    <3>1. UNCHANGED <<loadoutVars, historyVars, page, session, opened, armed, saveStatus,
                      dialogOpen, cleared, outside>>
      BY <1>2, <2>2 DEF outside
    <3>2. QED
      BY <1>2, <1>4, <1>5, <2>2, <3>1, DraftsOnly
  <2>3. QED
    BY <2>1, <2>2
<1>7. QED
  BY <1>2, <1>4, <1>5, <1>6 DEF Goal, BackupStep

-----------------------------------------------------------------------------
(* The steps of an open editor                                              *)

LEMMA ChangeStep ==
    ASSUME SessionInv, changeLoadout
    PROVE  Goal
<1>1. /\ IInv /\ ScreenInv /\ Kept(drafts, edits) /\ OutsideInv /\ OverlapInv
  BY DEF SessionInv
<1>2. /\ ChangeLoadout /\ armed' = TRUE
      /\ UNCHANGED <<page, session, opened, offered, saveStatus, dialogOpen, drafts,
                     cleared, isUpdate, requests, retries, saves, server, retried>>
  BY DEF changeLoadout, screenVars, outside
<1>3. [HistoryNext]_historyAll
  BY <1>2 DEF HistoryNext
<1>4. IInv' /\ [Timeline!Next]_(Timeline!vars)
  BY <1>1, <1>3, NextInv, StepIsTimelines
<1>5. edits \in Nat /\ edits' \in Nat /\ edits <= edits'
  <2>1. edits \in Nat
    BY <1>1, FoldedIsDoc
  <2>2. edits' = edits \/ edits' = edits + 1
    BY <1>2 DEF ChangeLoadout, edit, undo, redo, activate, apply
  <2>3. QED
    BY <2>1, <2>2
<1>6. ScreenInv'
  BY <1>1, <1>2, <1>5, DocsGrow DEF ScreenInv
<1>7. Kept(drafts, edits)'
  BY <1>1, <1>2, <1>5, DocsGrow
<1>8. OutsideInv'
  <2>1. session \in Nat
    BY <1>1 DEF ScreenInv
  <2>2. /\ SavesOf(edits, session) \subseteq SavesOf(edits', session)
        /\ ToastsOf(edits, session) \subseteq ToastsOf(edits', session)
        /\ Seq(DocsUpTo(edits)) \subseteq Seq(DocsUpTo(edits'))
    BY <1>5, <2>1, OutsideGrows
  <2>3. QED
    BY <1>1, <1>2, <2>2 DEF OutsideInv
<1>9. RefreshInv' /\ OverlapInv'
  BY <1>1, <1>2 DEF RefreshInv, OverlapInv, mounted
<1>10. QED
  BY <1>2, <1>4, <1>6, <1>7, <1>8, <1>9 DEF Goal, SessionInv, BackupStep

LEMMA RecordStep ==
    ASSUME SessionInv, recordHistory
    PROVE  Goal
<1>1. /\ IInv /\ ScreenInv /\ Kept(drafts, edits) /\ OutsideInv /\ RefreshInv /\ OverlapInv
  BY DEF SessionInv
<1>2. /\ commit
      /\ UNCHANGED <<page, session, opened, offered, saveStatus, dialogOpen, drafts, armed,
                     cleared, isUpdate, requests, retries, saves, server, retried>>
  BY DEF recordHistory, screenVars, outside
<1>3. [HistoryNext]_historyAll
  BY <1>2 DEF HistoryNext
<1>4. IInv' /\ [Timeline!Next]_(Timeline!vars)
  BY <1>1, <1>3, NextInv, StepIsTimelines
<1>5. edits' = edits /\ foldedVariants' = foldedVariants
  BY <1>2 DEF commit, loadoutVars, foldedVariants
<1>6. ScreenInv' /\ OutsideInv' /\ Kept(drafts, edits)'
  BY <1>1, <1>2, <1>5 DEF ScreenInv, OutsideInv
<1>7. RefreshInv' /\ OverlapInv'
  BY <1>1, <1>2, <1>5 DEF RefreshInv, OverlapInv, mounted
<1>8. QED
  BY <1>2, <1>4, <1>6, <1>7 DEF Goal, SessionInv, BackupStep

LEMMA AutosaveStep ==
    ASSUME SessionInv, autosave
    PROVE  Goal
<1>1. /\ IInv /\ ScreenInv /\ Kept(drafts, edits) /\ OutsideInv /\ OverlapInv
  BY DEF SessionInv
<1>2. /\ armed' = FALSE /\ cleared' = FALSE
      /\ drafts' = saveEditorDraft(drafts, Own, foldedVariants)
      /\ UNCHANGED <<page, session, opened, offered, saveStatus, dialogOpen,
                     isUpdate, requests, retries, saves, server, retried>>
      /\ UNCHANGED <<loadoutVars, historyVars>>
  BY DEF autosave, screenVars, outside, captureBuildData
<1>3. /\ IInv' /\ [Timeline!Next]_(Timeline!vars)
      /\ foldedVariants' = foldedVariants /\ edits' = edits
  BY <1>1, <1>2, StillScreen
<1>4. /\ Kept(drafts', edits) /\ loadEditorDraft(drafts', Own) = foldedVariants
      /\ \/ loadEditorDraft(drafts', Backup) = loadEditorDraft(drafts, Backup)
         \/ /\ loadEditorDraft(drafts', Backup) = None
            /\ Len(drafts) = Quota /\ drafts[1].key = Backup
  BY <1>1, <1>2, FoldedIsDoc, SaveKeeps, SlotsAreApart
<1>5. ScreenInv' /\ OutsideInv' /\ Kept(drafts, edits)'
  BY <1>1, <1>2, <1>3, <1>4 DEF ScreenInv, OutsideInv
<1>6. RefreshInv' /\ OverlapInv'
  BY <1>1, <1>2, <1>3, <1>4 DEF RefreshInv, OverlapInv, mounted
<1>7. QED
  BY <1>3, <1>4, <1>5, <1>6 DEF Goal, SessionInv, BackupStep

-----------------------------------------------------------------------------
(* Saving                                                                   *)

\* The screen and the drafts of a step that only saves.
LEMMA SavingStep ==
    ASSUME SessionInv,
           UNCHANGED <<loadoutVars, historyVars, page, session, opened, offered, armed,
                       drafts, cleared>>
    PROVE  /\ IInv' /\ [Timeline!Next]_(Timeline!vars) /\ edits' = edits
           /\ Kept(drafts, edits)' /\ RefreshInv' /\ BackupStep
<1>1. IInv /\ Kept(drafts, edits) /\ RefreshInv
  BY DEF SessionInv
<1>2. /\ IInv' /\ [Timeline!Next]_(Timeline!vars)
      /\ foldedVariants' = foldedVariants /\ edits' = edits
  BY <1>1, StillScreen
<1>3. Kept(drafts, edits)' /\ RefreshInv' /\ BackupStep
  BY <1>1, <1>2 DEF RefreshInv, mounted, BackupStep
<1>4. QED
  BY <1>2, <1>3

\* A save sent by s adds one to those s has under way.
LEMMA SendKeeps ==
    ASSUME SessionInv, NEW s \in 1 .. session, NEW doc \in DocsUpTo(edits),
           performSave(s, doc)
    PROVE  /\ saves' \in Nat /\ requests' \subseteq SavesOf(edits, session)
           /\ IsFiniteSet(requests')
           /\ \A q : /\ Under(requests, q) \in Nat /\ Under(requests', q) \in Nat
                     /\ Under(requests', q) <= Under(requests, q) + 1
                     /\ q # s => Under(requests', q) = Under(requests, q)
           /\ saveStatus' = IF mounted /\ s = session THEN "saving" ELSE saveStatus
<1>1. requests \subseteq SavesOf(edits, session) /\ IsFiniteSet(requests) /\ saves \in Nat
  BY DEF SessionInv, OutsideInv
<1> DEFINE r == [id |-> saves', session |-> s, doc |-> doc, stored |-> FALSE]
<1>2. /\ saves' = saves + 1 /\ requests' = requests \cup {r}
      /\ saveStatus' = IF mounted /\ s = session THEN "saving" ELSE saveStatus
  BY DEF performSave
<1>3. saves' \in Nat /\ r \in SavesOf(edits, session) /\ r.session = s
  BY <1>1, <1>2 DEF SavesOf
<1> HIDE DEF r
<1>4. ASSUME NEW q
      PROVE  /\ Under(requests, q) \in Nat /\ Under(requests', q) \in Nat
             /\ Under(requests', q) <= Under(requests, q) + 1
             /\ q # s => Under(requests', q) = Under(requests, q)
  BY <1>1, <1>2, <1>3, UnderOneMore
<1>5. IsFiniteSet(requests')
  BY <1>1, <1>2, FS_AddElement
<1>6. QED
  BY <1>1, <1>2, <1>3, <1>4, <1>5

\* What saving needs of the session.
LEMMA SessionFacts ==
    ASSUME SessionInv
    PROVE  /\ ScreenInv /\ OutsideInv /\ OverlapInv
           /\ session \in Nat /\ session \in 1 .. session
           /\ \A s \in 1 .. session : s \in 1 .. MaxSessions /\ retried[s] \in Nat
           /\ foldedVariants \in DocsUpTo(edits)
           /\ saveStatus \in {"idle", "saving"} /\ isUpdate \in BOOLEAN
           /\ dialogOpen \in BOOLEAN
<1>1. /\ ScreenInv /\ OutsideInv /\ OverlapInv /\ session \in 1 .. MaxSessions
      /\ MaxSessions \in Nat /\ foldedVariants \in DocsUpTo(edits)
  BY FoldedIsDoc, SessionAssumption DEF SessionInv, ScreenInv
<1>2. \A s \in 1 .. session : s \in 1 .. MaxSessions /\ retried[s] \in Nat
  BY <1>1 DEF OutsideInv
<1>3. QED
  BY <1>1, <1>2 DEF ScreenInv

LEMMA SaveClickStep ==
    ASSUME SessionInv, handleSaveClick
    PROVE  Goal
<1>1. /\ mounted /\ saveStatus # "saving"
      /\ UNCHANGED <<loadoutVars, historyVars, page, session, opened, offered, armed,
                     drafts, cleared>>
      /\ UNCHANGED <<isUpdate, retries, server, retried>>
  BY DEF handleSaveClick
<1>2. /\ IInv' /\ [Timeline!Next]_(Timeline!vars) /\ edits' = edits
      /\ Kept(drafts, edits)' /\ RefreshInv' /\ BackupStep
  BY <1>1, SavingStep
<1>3. Under(requests, session) <= retried[session]
  BY <1>1, SessionFacts DEF OverlapInv
<1>4. CASE isUpdate
  <2>1. performSave(session, foldedVariants) /\ dialogOpen' = dialogOpen
    BY <1>4 DEF handleSaveClick, captureBuildData
  <2>2. /\ saves' \in Nat /\ requests' \subseteq SavesOf(edits, session)
        /\ IsFiniteSet(requests')
        /\ \A q : /\ Under(requests, q) \in Nat /\ Under(requests', q) \in Nat
                  /\ Under(requests', q) <= Under(requests, q) + 1
                  /\ q # session => Under(requests', q) = Under(requests, q)
        /\ saveStatus' = "saving"
    BY <1>1, <2>1, SendKeeps, SessionFacts
  <2>3. ScreenInv' /\ OutsideInv'
    BY <1>1, <1>2, <2>1, <2>2, SessionFacts DEF ScreenInv, OutsideInv
  <2>4. ~dialogOpen
    BY <1>4, SessionFacts DEF OverlapInv
  <2>5. ASSUME NEW s \in 1 .. session
        PROVE  Under(requests', s) <= 1 + retried[s]
    <3>1. Under(requests, s) <= 1 + retried[s] /\ retried[s] \in Nat
      BY SessionFacts DEF OverlapInv
    <3>2. QED
      BY <1>3, <2>2, <3>1
  <2>6. OverlapInv'
    BY <1>1, <2>1, <2>2, <2>4, <2>5 DEF OverlapInv
  <2>7. QED
    BY <1>2, <2>3, <2>6 DEF Goal, SessionInv
<1>5. CASE ~isUpdate
  <2>1. dialogOpen' = TRUE /\ UNCHANGED <<saves, requests, saveStatus>>
    BY <1>5 DEF handleSaveClick
  <2>2. ScreenInv' /\ OutsideInv'
    BY <1>1, <1>2, <2>1, SessionFacts DEF ScreenInv, OutsideInv
  <2>3. OverlapInv'
    BY <1>1, <1>3, <1>5, <2>1, SessionFacts DEF OverlapInv, mounted
  <2>4. QED
    BY <1>2, <2>2, <2>3 DEF Goal, SessionInv
<1>6. QED
  BY <1>4, <1>5

LEMMA ConfirmStep ==
    ASSUME SessionInv, onConfirm
    PROVE  Goal
<1>1. /\ dialogOpen /\ dialogOpen' = FALSE /\ performSave(session, foldedVariants)
      /\ UNCHANGED <<loadoutVars, historyVars, page, session, opened, offered, armed,
                     drafts, cleared>>
      /\ UNCHANGED <<isUpdate, retries, server, retried>>
  BY DEF onConfirm, captureBuildData
<1>2. /\ IInv' /\ [Timeline!Next]_(Timeline!vars) /\ edits' = edits
      /\ Kept(drafts, edits)' /\ RefreshInv' /\ BackupStep
  BY <1>1, SavingStep
<1>3. mounted /\ Under(requests, session) <= retried[session]
  BY <1>1, SessionFacts DEF OverlapInv
<1>4. /\ saves' \in Nat /\ requests' \subseteq SavesOf(edits, session)
      /\ IsFiniteSet(requests')
      /\ \A q : /\ Under(requests, q) \in Nat /\ Under(requests', q) \in Nat
                /\ Under(requests', q) <= Under(requests, q) + 1
                /\ q # session => Under(requests', q) = Under(requests, q)
      /\ saveStatus' = "saving"
  BY <1>1, <1>3, SendKeeps, SessionFacts
<1>5. ScreenInv' /\ OutsideInv'
  BY <1>1, <1>2, <1>4, SessionFacts DEF ScreenInv, OutsideInv
<1>6. ASSUME NEW s \in 1 .. session
      PROVE  Under(requests', s) <= 1 + retried[s]
  <2>1. Under(requests, s) <= 1 + retried[s] /\ retried[s] \in Nat
    BY SessionFacts DEF OverlapInv
  <2>2. QED
    BY <1>3, <1>4, <2>1
<1>7. OverlapInv'
  BY <1>1, <1>4, <1>6 DEF OverlapInv
<1>8. QED
  BY <1>2, <1>5, <1>7 DEF Goal, SessionInv

LEMMA RetryStep ==
    ASSUME SessionInv, retry
    PROVE  Goal
<1>1. PICK t \in retries :
          /\ performSave(t.session, t.doc)
          /\ retries' = retries \ {t}
          /\ retried' = [retried EXCEPT ![t.session] = @ + 1]
  BY DEF retry
<1>2. /\ UNCHANGED <<loadoutVars, historyVars, page, session, opened, offered, armed,
                     drafts, cleared>>
      /\ UNCHANGED <<isUpdate, dialogOpen, server>>
  BY DEF retry
<1>3. /\ IInv' /\ [Timeline!Next]_(Timeline!vars) /\ edits' = edits
      /\ Kept(drafts, edits)' /\ RefreshInv' /\ BackupStep
  BY <1>2, SavingStep
<1> DEFINE at == t.session
<1>4. at \in 1 .. session /\ t.doc \in DocsUpTo(edits)
  BY SessionFacts DEF OutsideInv, ToastsOf
<1>5. /\ saves' \in Nat /\ requests' \subseteq SavesOf(edits, session)
      /\ IsFiniteSet(requests')
      /\ \A q : /\ Under(requests, q) \in Nat /\ Under(requests', q) \in Nat
                /\ Under(requests', q) <= Under(requests, q) + 1
                /\ q # at => Under(requests', q) = Under(requests, q)
      /\ saveStatus' = IF mounted /\ at = session THEN "saving" ELSE saveStatus
  BY <1>1, <1>4, SendKeeps
<1>6. /\ retried' \in [1 .. MaxSessions -> Nat]
      /\ retried'[at] = retried[at] + 1 /\ retried[at] \in Nat
      /\ \A s \in 1 .. session : s # at => retried'[s] = retried[s]
  BY <1>1, <1>4, SessionFacts DEF OutsideInv
<1> HIDE DEF at
<1>7. ScreenInv'
  BY <1>2, <1>3, <1>5, SessionFacts DEF ScreenInv
<1>8. OutsideInv'
  BY <1>1, <1>2, <1>3, <1>5, <1>6, SessionFacts DEF OutsideInv
<1>9. ASSUME NEW s \in 1 .. session
      PROVE  /\ Under(requests', s) <= 1 + retried'[s]
             /\ Under(requests, s) <= retried[s] => Under(requests', s) <= retried'[s]
  <2>1. Under(requests, s) <= 1 + retried[s] /\ retried[s] \in Nat
    BY SessionFacts DEF OverlapInv
  <2>2. CASE s = at
    BY <1>5, <1>6, <2>1, <2>2
  <2>3. CASE s # at
    BY <1>5, <1>6, <2>1, <2>3
  <2>4. QED
    BY <2>2, <2>3
<1>10. ASSUME mounted', saveStatus' = "idle" \/ dialogOpen'
       PROVE  Under(requests', session) <= retried'[session]
  <2>1. mounted /\ (saveStatus = "idle" \/ dialogOpen)
    BY <1>2, <1>5, <1>10 DEF mounted
  <2>2. Under(requests, session) <= retried[session]
    BY <2>1, SessionFacts DEF OverlapInv
  <2>3. QED
    BY <1>9, <2>2, SessionFacts
<1>11. OverlapInv'
  <2>1. dialogOpen' => mounted' /\ ~isUpdate'
    BY <1>2, SessionFacts DEF OverlapInv, mounted
  <2>2. QED
    BY <1>2, <1>9, <1>10, <2>1 DEF OverlapInv
<1>12. QED
  BY <1>3, <1>7, <1>8, <1>11 DEF Goal, SessionInv

LEMMA StoreStep ==
    ASSUME SessionInv, store
    PROVE  Goal
<1>1. PICK r \in requests :
          /\ server' = Append(server, r.doc)
          /\ requests' = (requests \ {r}) \cup {[r EXCEPT !.stored = TRUE]}
  BY DEF store
<1>2. /\ UNCHANGED <<loadoutVars, historyVars, page, session, opened, offered, armed,
                     drafts, cleared>>
      /\ UNCHANGED <<saveStatus, dialogOpen, isUpdate, retries, saves, retried>>
  BY DEF store, screenVars
<1>3. /\ IInv' /\ [Timeline!Next]_(Timeline!vars) /\ edits' = edits
      /\ Kept(drafts, edits)' /\ RefreshInv' /\ BackupStep
  BY <1>2, SavingStep
<1>4. requests \subseteq SavesOf(edits, session) /\ IsFiniteSet(requests)
      /\ server \in Seq(DocsUpTo(edits))
  BY SessionFacts DEF OutsideInv
<1> DEFINE q == [r EXCEPT !.stored = TRUE]
           rest == requests \ {r}
<1>5. q \in SavesOf(edits, session) /\ q.session = r.session /\ r.doc \in DocsUpTo(edits)
  BY <1>4 DEF SavesOf
<1>6. requests' = rest \cup {q}
  BY <1>1
<1> HIDE DEF q
<1>7. IsFiniteSet(rest) /\ IsFiniteSet(requests') /\ requests' \subseteq SavesOf(edits, session)
  BY <1>4, <1>5, <1>6, FS_Subset, FS_AddElement
<1>8. server' \in Seq(DocsUpTo(edits)) /\ server' # <<>>
  BY <1>1, <1>4, <1>5
<1>9. ScreenInv' /\ OutsideInv'
  BY <1>2, <1>3, <1>7, <1>8, SessionFacts DEF ScreenInv, OutsideInv
<1>10. ASSUME NEW s
       PROVE  /\ Under(requests', s) <= Under(requests, s)
              /\ Under(requests', s) \in Nat /\ Under(requests, s) \in Nat
  <2>1. CASE r.session = s
    <3>1. Under(rest, s) = Under(requests, s) - 1 /\ Under(rest, s) \in Nat
          /\ Under(requests, s) \in Nat
      BY <1>4, <2>1, UnderOneLess
    <3>2. Under(rest \cup {q}, s) <= Under(rest, s) + 1 /\ Under(rest \cup {q}, s) \in Nat
      BY <1>7, UnderOneMore
    <3>3. QED
      BY <1>6, <3>1, <3>2
  <2>2. CASE r.session # s
    <3>1. /\ Under(rest, s) <= Under(requests, s)
          /\ Under(rest, s) \in Nat /\ Under(requests, s) \in Nat
      BY <1>4, UnderMonotone
    <3>2. Under(rest \cup {q}, s) = Under(rest, s)
      BY <1>5, <1>7, <2>2, UnderOneMore
    <3>3. QED
      BY <1>6, <3>1, <3>2
  <2>3. QED
    BY <2>1, <2>2
<1>11. ASSUME NEW s \in 1 .. session, NEW n \in Nat, Under(requests, s) <= n
       PROVE  Under(requests', s) <= n
  BY <1>10, <1>11
<1>12. OverlapInv'
  <2>1. \A s \in 1 .. session : Under(requests', s) <= 1 + retried[s]
    BY <1>11, SessionFacts DEF OverlapInv
  <2>2. mounted /\ (saveStatus = "idle" \/ dialogOpen)
            => Under(requests', session) <= retried[session]
    BY <1>11, SessionFacts DEF OverlapInv
  <2>3. dialogOpen => mounted /\ ~isUpdate
    BY SessionFacts DEF OverlapInv
  <2>4. QED
    BY <1>2, <2>1, <2>2, <2>3 DEF OverlapInv, mounted
<1>13. QED
  BY <1>3, <1>9, <1>12 DEF Goal, SessionInv

LEMMA SaveFailsStep ==
    ASSUME SessionInv, saveFails
    PROVE  Goal
<1>1. PICK r \in requests :
          /\ requests' = requests \ {r}
          /\ retries' = retries \cup {[id |-> r.id, session |-> r.session, doc |-> r.doc]}
          /\ saveStatus' = IF r.session = session THEN "idle" ELSE saveStatus
  BY DEF saveFails
<1>2. /\ UNCHANGED <<loadoutVars, historyVars, page, session, opened, offered, armed,
                     drafts, cleared>>
      /\ UNCHANGED <<dialogOpen, isUpdate, saves, server, retried>>
  BY DEF saveFails
<1>3. /\ IInv' /\ [Timeline!Next]_(Timeline!vars) /\ edits' = edits
      /\ Kept(drafts, edits)' /\ RefreshInv' /\ BackupStep
  BY <1>2, SavingStep
<1>4. /\ requests \subseteq SavesOf(edits, session) /\ IsFiniteSet(requests)
      /\ retries \subseteq ToastsOf(edits, session)
  BY SessionFacts DEF OutsideInv
<1>5. [id |-> r.id, session |-> r.session, doc |-> r.doc] \in ToastsOf(edits, session)
  BY <1>4 DEF SavesOf, ToastsOf
<1>6. IsFiniteSet(requests') /\ requests' \subseteq requests
  BY <1>1, <1>4, FS_Subset
<1>7. ScreenInv' /\ OutsideInv'
  BY <1>1, <1>2, <1>3, <1>4, <1>5, <1>6, SessionFacts DEF ScreenInv, OutsideInv
<1>8. ASSUME NEW s
      PROVE  /\ Under(requests', s) <= Under(requests, s)
             /\ Under(requests', s) \in Nat /\ Under(requests, s) \in Nat
  BY <1>4, <1>6, UnderMonotone
<1>9. ASSUME NEW s \in 1 .. session, NEW n \in Nat, Under(requests, s) <= n
      PROVE  Under(requests', s) <= n
  BY <1>8, <1>9
<1>10. ASSUME mounted, saveStatus' = "idle" \/ dialogOpen
       PROVE  Under(requests', session) <= retried[session]
  <2>1. CASE r.session = session
    <3>1. Under(requests', session) = Under(requests, session) - 1
      BY <1>1, <1>4, <2>1, UnderOneLess
    <3>2. Under(requests, session) <= 1 + retried[session] /\ retried[session] \in Nat
      BY SessionFacts DEF OverlapInv
    <3>3. QED
      BY <1>8, <3>1, <3>2
  <2>2. CASE r.session # session
    <3>1. saveStatus = "idle" \/ dialogOpen
      BY <1>1, <1>10, <2>2
    <3>2. Under(requests, session) <= retried[session]
      BY <1>10, <3>1, SessionFacts DEF OverlapInv
    <3>3. QED
      BY <1>9, <3>2, SessionFacts
  <2>3. QED
    BY <2>1, <2>2
<1>11. OverlapInv'
  <2>1. \A s \in 1 .. session : Under(requests', s) <= 1 + retried[s]
    BY <1>9, SessionFacts DEF OverlapInv
  <2>2. dialogOpen => mounted /\ ~isUpdate
    BY SessionFacts DEF OverlapInv
  <2>3. QED
    BY <1>2, <1>10, <2>1, <2>2 DEF OverlapInv, mounted
<1>12. QED
  BY <1>3, <1>7, <1>11 DEF Goal, SessionInv

LEMMA SaveSucceedsStep ==
    ASSUME SessionInv, saveSucceeds
    PROVE  Goal
<1>1. PICK r \in requests : requests' = requests \ {r}
  BY DEF saveSucceeds
<1>2. /\ drafts' = clearEditorDraft(drafts, Own) /\ cleared' = TRUE
      /\ page' = IF mounted THEN "leaving" ELSE page
      /\ UNCHANGED <<loadoutVars, historyVars>>
      /\ UNCHANGED <<isUpdate, session, opened, offered, saveStatus, dialogOpen, armed,
                     retries, saves, server, retried>>
  BY DEF saveSucceeds
<1>3. IInv /\ Kept(drafts, edits) /\ edits \in Nat
  BY FoldedIsDoc DEF SessionInv
<1>4. IInv' /\ [Timeline!Next]_(Timeline!vars) /\ edits' = edits
  BY <1>2, <1>3, StillScreen
<1>5. /\ Kept(drafts, edits)'
      /\ loadEditorDraft(drafts', Backup) = loadEditorDraft(drafts, Backup)
  BY <1>2, <1>3, <1>4, ClearKeeps, SlotsAreApart
<1>6. requests \subseteq SavesOf(edits, session) /\ IsFiniteSet(requests)
  BY SessionFacts DEF OutsideInv
<1>7. IsFiniteSet(requests') /\ requests' \subseteq requests
  BY <1>1, <1>6, FS_Subset
<1>8. ScreenInv' /\ OutsideInv'
  BY <1>2, <1>4, <1>6, <1>7, SessionFacts DEF ScreenInv, OutsideInv
<1>9. RefreshInv'
  BY <1>2 DEF RefreshInv
<1>10. mounted' = mounted
  BY <1>2 DEF mounted
<1>11. ASSUME NEW s \in 1 .. session, NEW n \in Nat, Under(requests, s) <= n
       PROVE  Under(requests', s) <= n
  <2>1. /\ Under(requests', s) <= Under(requests, s)
        /\ Under(requests', s) \in Nat /\ Under(requests, s) \in Nat
    BY <1>6, <1>7, UnderMonotone
  <2>2. QED
    BY <1>11, <2>1
<1>12. OverlapInv'
  <2>1. \A s \in 1 .. session : Under(requests', s) <= 1 + retried[s]
    BY <1>11, SessionFacts DEF OverlapInv
  <2>2. mounted /\ (saveStatus = "idle" \/ dialogOpen)
            => Under(requests', session) <= retried[session]
    BY <1>11, SessionFacts DEF OverlapInv
  <2>3. dialogOpen => mounted /\ ~isUpdate
    BY SessionFacts DEF OverlapInv
  <2>4. QED
    BY <1>2, <1>10, <2>1, <2>2, <2>3 DEF OverlapInv
<1>13. QED
  BY <1>4, <1>5, <1>8, <1>9, <1>12 DEF Goal, SessionInv, BackupStep

-----------------------------------------------------------------------------
(* The theorems about sessions                                              *)

LEMMA SessionInit0 ==
    ASSUME SessionInit
    PROVE  SessionInv /\ Timeline!Init
<1>1. IInv /\ Timeline!Init /\ edits = 0
  BY InitInv, InitIsTimelines DEF SessionInit, HistoryInit
<1>2. /\ isUpdate \in BOOLEAN /\ page = "editor" /\ session = 1 /\ opened = Blank
      /\ armed = FALSE /\ drafts = <<>> /\ offered = None /\ saveStatus = "idle"
      /\ dialogOpen = FALSE /\ requests = {} /\ retries = {} /\ saves = 0
      /\ server = (IF isUpdate THEN <<Blank>> ELSE <<>>)
      /\ retried = [s \in 1 .. MaxSessions |-> 0] /\ cleared = FALSE
  BY DEF SessionInit
<1>3. foldedVariants = Blank
  <2>1. live.v \in Variants /\ live.n = 0 /\ variants = Blank
    BY DEF SessionInit, HistoryInit, Blank
  <2>2. QED
    BY <2>1 DEF foldedVariants, Blank
<1>4. Blank \in DocsUpTo(0) /\ 1 \in 1 .. MaxSessions
  BY SessionAssumption DEF Blank, DocsUpTo
<1>5. ScreenInv
  BY <1>1, <1>2, <1>4 DEF ScreenInv
<1>6. Kept(drafts, edits)
  BY <1>1, <1>2, SessionAssumption, EmptySeq DEF Kept
<1>7. OutsideInv
  <2>1. server \in Seq(DocsUpTo(0)) /\ (isUpdate => server # <<>>)
    BY <1>2, <1>4
  <2>2. IsFiniteSet(requests)
    BY <1>2, FS_EmptySet
  <2>3. QED
    BY <1>1, <1>2, <2>1, <2>2 DEF OutsideInv
<1>8. RefreshInv
  BY <1>2, <1>3 DEF RefreshInv
<1>9. OverlapInv
  <2>1. \A s : Under(requests, s) = 0
    <3>1. \A s : {r \in requests : r.session = s} = {}
      BY <1>2
    <3>2. QED
      BY <3>1, FS_EmptySet DEF Under
  <2>2. QED
    BY <1>2, <1>4, <2>1 DEF OverlapInv
<1>10. QED
  BY <1>1, <1>5, <1>6, <1>7, <1>8, <1>9 DEF SessionInv

LEMMA SessionStep ==
    ASSUME SessionInv, [SessionNext]_vars
    PROVE  Goal
<1>1. CASE leave \/ navigated
  BY <1>1, LeaveStep
<1>2. CASE open
  BY <1>2, OpenStep
<1>3. CASE adopt
  BY <1>3, AdoptStep
<1>4. CASE reload
  BY <1>4, ReloadStep
<1>5. CASE resetToSaved
  BY <1>5, ResetStep
<1>6. CASE restoreReplaced
  BY <1>6, RestoreReplacedStep
<1>7. CASE discardReplaced
  BY <1>7, DiscardStep
<1>8. CASE otherDraft
  BY <1>8, OtherDraftStep
<1>9. CASE changeLoadout
  BY <1>9, ChangeStep
<1>10. CASE recordHistory
  BY <1>10, RecordStep
<1>11. CASE autosave
  BY <1>11, AutosaveStep
<1>12. CASE handleSaveClick
  BY <1>12, SaveClickStep
<1>13. CASE onConfirm
  BY <1>13, ConfirmStep
<1>14. CASE retry
  BY <1>14, RetryStep
<1>15. CASE store
  BY <1>15, StoreStep
<1>16. CASE saveFails
  BY <1>16, SaveFailsStep
<1>17. CASE saveSucceeds
  BY <1>17, SaveSucceedsStep
<1>18. CASE UNCHANGED vars
  <2>1. UNCHANGED <<loadoutVars, historyVars, page, session, opened, armed, saveStatus,
                    dialogOpen, cleared, outside>> /\ UNCHANGED <<drafts, offered>>
    BY <1>18 DEF vars, sessionVars, outside
  <2>2. Kept(drafts', edits) /\ offered' \in DocsUpTo(edits) \cup {None}
    BY <2>1 DEF SessionInv, ScreenInv
  <2>3. SessionInv' /\ [Timeline!Next]_(Timeline!vars)
    BY <2>1, <2>2, DraftsOnly
  <2>4. QED
    BY <2>1, <2>3 DEF Goal, BackupStep
<1>19. QED
  BY <1>1, <1>2, <1>3, <1>4, <1>5, <1>6, <1>7, <1>8, <1>9, <1>10, <1>11, <1>12, <1>13,
     <1>14, <1>15, <1>16, <1>17, <1>18 DEF SessionNext

LEMMA InvSays ==
    ASSUME SessionInv
    PROVE  SessionTypeOK /\ HistoryInLockStep /\ RefreshKeepsEdits /\ OverlapsNeedRetries
<1>1. /\ IInv /\ ScreenInv /\ Kept(drafts, edits) /\ OutsideInv /\ RefreshInv /\ OverlapInv
      /\ edits \in Nat
  BY FoldedIsDoc DEF SessionInv
<1>2. HistoryTypeOK /\ HistoryInLockStep
  BY <1>1, InvIsInLockStep
<1>3. DocsUpTo(edits) \subseteq Docs /\ Seq(DocsUpTo(edits)) \subseteq Seq(Docs)
  <2>1. DocsUpTo(edits) \subseteq Docs
    BY <1>1, DocsGrow
  <2>2. QED
    BY <2>1
<1>4. SessionTypeOK
  <2>1. \A i \in DOMAIN drafts : drafts[i].key \in Slots /\ drafts[i].doc \in Docs
    <3>1. \A i \in DOMAIN drafts : drafts[i] \in Drafts(edits)
      BY <1>1 DEF Kept
    <3>2. QED
      BY <1>3, <3>1 DEF Drafts
  <2>2. \A r \in requests : r.session \in 1 .. session /\ r.doc \in Docs
    BY <1>1, <1>3 DEF OutsideInv, SavesOf
  <2>3. \A t \in retries : t.session \in 1 .. session /\ t.doc \in Docs
    BY <1>1, <1>3 DEF OutsideInv, ToastsOf
  <2>4. server \in Seq(Docs) /\ retried \in [1 .. MaxSessions -> Nat]
    BY <1>1, <1>3 DEF OutsideInv
  <2>5. opened \in Docs /\ offered \in Docs \cup {None}
    BY <1>1, <1>3 DEF ScreenInv
  <2>6. /\ \A i, j \in DOMAIN drafts : drafts[i].key = drafts[j].key => i = j
        /\ Len(drafts) <= Quota
    BY <1>1 DEF Kept
  <2>7. QED
    BY <1>1, <1>2, <2>1, <2>2, <2>3, <2>4, <2>5, <2>6 DEF SessionTypeOK, ScreenInv
<1>5. RefreshKeepsEdits
  BY <1>1, FoldedIsDoc DEF RefreshKeepsEdits, RefreshInv, resolveSavedDataAll
<1>6. OverlapsNeedRetries
  BY <1>1 DEF OverlapsNeedRetries, OverlapInv, Under
<1>7. QED
  BY <1>2, <1>4, <1>5, <1>6

\* However many editor sessions, drafts of other builds and saves there are, the
\* screen, localStorage and the saves under way stay what they are declared to
\* be: no slot holds two drafts and localStorage no more than fit
\* (use-draft-autosave.ts, drafts.ts, use-build-save.tsx).
THEOREM SessionsKeepTheirTypes == SessionSpec => []SessionTypeOK
<1>1. SessionInit => SessionInv
  BY SessionInit0
<1>2. SessionInv /\ [SessionNext]_vars => SessionInv'
  BY SessionStep DEF Goal
<1>3. SessionInv => SessionTypeOK
  BY InvSays
<1>4. QED
  BY <1>1, <1>2, <1>3, PTL DEF SessionSpec

\* The refs of useEditorHistory stay in lock-step with the screen in the whole
\* editor too: when sessions start over, drafts are restored and saves navigate
\* away between the edits.
THEOREM SessionsStayInLockStep == SessionSpec => []HistoryInLockStep
<1>1. SessionInit => SessionInv
  BY SessionInit0
<1>2. SessionInv /\ [SessionNext]_vars => SessionInv'
  BY SessionStep DEF Goal
<1>3. SessionInv => HistoryInLockStep
  BY InvSays
<1>4. QED
  BY <1>1, <1>2, <1>3, PTL DEF SessionSpec

\* A refresh does not wipe what the autosave has seen (use-draft-autosave.ts),
\* whatever the drafts of other builds take of localStorage meanwhile.
THEOREM RefreshIsSafe == SessionSpec => []RefreshKeepsEdits
<1>1. SessionInit => SessionInv
  BY SessionInit0
<1>2. SessionInv /\ [SessionNext]_vars => SessionInv'
  BY SessionStep DEF Goal
<1>3. SessionInv => RefreshKeepsEdits
  BY InvSays
<1>4. QED
  BY <1>1, <1>2, <1>3, PTL DEF SessionSpec

\* A session has at most one save under way for its own clicks, and one more for
\* each Retry: the guard of handleSaveClick and the publish dialog let no other
\* one through (use-build-save.tsx).
THEOREM OverlapsAreRetries == SessionSpec => []OverlapsNeedRetries
<1>1. SessionInit => SessionInv
  BY SessionInit0
<1>2. SessionInv /\ [SessionNext]_vars => SessionInv'
  BY SessionStep DEF Goal
<1>3. SessionInv => OverlapsNeedRetries
  BY InvSays
<1>4. QED
  BY <1>1, <1>2, <1>3, PTL DEF SessionSpec

\* The draft a shared build replaced stays backed up until its toast is answered
\* or localStorage, full, evicts it as its oldest (use-draft-autosave.ts).
THEOREM BackupIsKept == SessionSpec => BackupWaitsForTheUser
<1>1. SessionInit => SessionInv
  BY SessionInit0
<1>2. SessionInv /\ [SessionNext]_vars => SessionInv' /\ BackupStep
  BY SessionStep DEF Goal
<1>3. QED
  BY <1>1, <1>2, PTL DEF SessionSpec, BackupWaitsForTheUser, BackupStep

\* Undo and redo are moves along a line of recorded loadouts in the whole editor:
\* a session that starts over starts a new line, and nothing else of drafts and
\* saves touches it.
THEOREM SessionsRefineUndoTimeline == SessionSpec => ImplementsUndoTimeline
<1>1. SessionInit => SessionInv /\ Timeline!Init
  BY SessionInit0
<1>2. SessionInv /\ [SessionNext]_vars => SessionInv' /\ [Timeline!Next]_(Timeline!vars)
  BY SessionStep DEF Goal
<1>3. QED
  BY <1>1, <1>2, PTL DEF SessionSpec, ImplementsUndoTimeline, Timeline!Spec
=============================================================================
