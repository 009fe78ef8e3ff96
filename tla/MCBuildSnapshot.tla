--------------------------- MODULE MCBuildSnapshot ---------------------------
(* Instances of BuildSnapshot for TLC.                                      *)
EXTENDS BuildSnapshot, TLC

CONSTANTS h1, h2, u1, u2, b1

OneAuthor  == [b \in Builds |-> u1]
TwoAuthors == [b \in Builds |-> IF b = b1 THEN u1 ELSE u2]

HandlerSymmetry == Permutations(Handlers)
=============================================================================
