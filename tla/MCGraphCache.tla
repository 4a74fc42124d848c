---------------------------- MODULE MCGraphCache ----------------------------
(* Instances of GraphCache for TLC. *)
EXTENDS GraphCache, TLC

ValSymmetry == Permutations(Vals)
=============================================================================
