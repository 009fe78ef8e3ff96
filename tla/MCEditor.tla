------------------------------ MODULE MCEditor ------------------------------
(* The variants of a build are interchangeable to its history and drafts.   *)
EXTENDS EditorSession, TLC

VariantSymmetry == Permutations(Variants)
=============================================================================
