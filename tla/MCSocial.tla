------------------------------- MODULE MCSocial -------------------------------
(* Instances of Social for TLC.                                             *)
EXTENDS Social, TLC

CONSTANTS u1, u2, b1

TwoOwners == [b \in Builds |-> IF b = b1 THEN u1 ELSE u2]

Symmetry == Permutations(Handlers)
=============================================================================
