---------------------------- MODULE MCGraphApply ----------------------------
(* Instances of GraphApply for TLC. *)
EXTENDS GraphApply, TLC

CONSTANTS w1, w2, h1, h2

\* Every writer on one recall handle, or each on a handle of its own.
OneHandle == [w \in Writers |-> h1]
OwnHandles == [w \in Writers |-> IF w = w1 THEN h1 ELSE h2]

ValSymmetry == Permutations(Vals)
=============================================================================
