--------------------------- MODULE MCReplication ----------------------------
(* Instances of Replication for TLC: three members. *)
EXTENDS Replication

CONSTANTS f1, f2

RankOf == [f \in Followers |-> IF f = f1 THEN 1 ELSE 2]

ValSymmetry == Permutations(Vals)
=============================================================================
