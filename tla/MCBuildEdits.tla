----------------------------- MODULE MCBuildEdits -----------------------------
(* Instances of BuildEdits for TLC: two authors, one of whom belongs to the *)
(* organization a build of the other is in.                                 *)
EXTENDS BuildEdits, TLC

CONSTANTS u1, u2, b1, b2, b3, o1

TwoAuthors == [b \in Builds |-> IF b = b1 THEN u1 ELSE u2]
OneInOrg   == [b \in Builds |-> IF b = b2 THEN o1 ELSE None]
AllLinked  == {<<a, b>> \in Builds \X Builds : a # b}
SomeOrders == {<<b2>>, <<b3, b2, b3, b1>>}
Members    == [o \in Orgs |-> IF o = o1 THEN {u1, u2} ELSE {u2}]

Serving ==
    {{"link", "unlink", "variant"}, {"unlink", "order", "delete"},
     {"publish", "deleteOrg", "leave"}, {"edit", "prune", "tick"}}

\* Moves, hiding and showing the author, and saves that change the loadout.
SomeBodies ==
    [org : Orgs \cup {None, Same}, hide : {TRUE}, edit : {FALSE}]
        \cup [org : (Orgs \ {o1}) \cup {None}, hide : {Same}, edit : {FALSE}]
        \cup [org : {Same}, hide : {FALSE}, edit : {FALSE}]
        \cup [org : {Same}, hide : {Same}, edit : {TRUE}]

Symmetry == Permutations(Handlers)
=============================================================================
