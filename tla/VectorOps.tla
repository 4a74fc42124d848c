----------------------------- MODULE VectorOps ------------------------------
(***************************************************************************)
(* The vector operations a transaction stages, and what a list of them     *)
(* does to a map of vectors.                                               *)
(***************************************************************************)
EXTENDS Naturals, Sequences

CONSTANTS Ids,     \* document ids
          Vals,    \* embeddings
          Absent,  \* no vector under this id; as an operation, its removal
          MaxOps   \* bound: operations staged by one transaction

Slot == Vals \cup {Absent}
Ops == [id : Ids, val : Slot]
OpLists == UNION {[1..n -> Ops] : n \in 0..MaxOps}

\* The last entry of ops for id, when there is one.
Touches(ops, id) == \E i \in DOMAIN ops : ops[i].id = id
LastFor(ops, id) ==
    CHOOSE i \in DOMAIN ops :
        /\ ops[i].id = id
        /\ \A j \in DOMAIN ops : ops[j].id = id => j <= i

\* The map m after the operations ops, in order: the last one per id wins.
After(m, ops) ==
    [id \in Ids |-> IF Touches(ops, id) THEN ops[LastFor(ops, id)].val ELSE m[id]]

Removal(id) == [id |-> id, val |-> Absent]
=============================================================================
