----------------------------- MODULE UndoTimeline -----------------------------
(***************************************************************************)
(* What undo and redo promise: a line of recorded snapshots and a place on *)
(* it.  Going back and forward moves the place and shows the snapshot      *)
(* there; recording cuts off what lies ahead.  Between two recordings the  *)
(* screen may be ahead of the line.                                        *)
(***************************************************************************)
EXTENDS Naturals, Sequences

CONSTANTS
    Snapshots,
    Depth       \* how many snapshots can be undone

VARIABLES
    line,       \* recorded snapshots, oldest first
    at,         \* the place on the line
    shown       \* what the screen shows

vars == <<line, at, shown>>

Init ==
    /\ shown \in Snapshots
    /\ line = <<shown>>
    /\ at = 1

Edit ==
    /\ shown' \in Snapshots
    /\ UNCHANGED <<line, at>>

\* What the screen shows becomes the end of the line; the oldest snapshot is
\* forgotten when the line is too long.
Record ==
    LET longer == Append(SubSeq(line, 1, at), shown)
    IN  /\ line' = IF Len(longer) > Depth + 1 THEN Tail(longer) ELSE longer
        /\ at' = Len(line')
        /\ UNCHANGED shown

GoTo(i) ==
    /\ i \in DOMAIN line
    /\ at' = i
    /\ shown' = line[i]
    /\ UNCHANGED line

\* Another document is on the screen.
Restart ==
    /\ shown' \in Snapshots
    /\ line' = <<shown'>>
    /\ at' = 1

Next == Edit \/ Record \/ GoTo(at - 1) \/ GoTo(at + 1) \/ Restart

Spec == Init /\ [][Next]_vars
=============================================================================
