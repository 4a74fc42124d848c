----------------------------- MODULE MCEstateTx -----------------------------
(* Instances of EstateTx for TLC. *)
EXTENDS EstateTx, TLC

CONSTANTS w1, w2, h1, h2, c, g, b, t, u

\* Every writer on one recall handle, or each on a handle of its own.
OneHandle == [w \in Writers |-> h1]
OwnHandles == [w \in Writers |-> IF w = w1 THEN h1 ELSE h2]

\* Two members of a collection, one of them with a field, and an outsider with a
\* field of another type.
Member == [coll |-> c, val |-> g, term |-> t]
BareMember == [coll |-> c, val |-> None, term |-> u]
Outsider == [coll |-> None, val |-> b, term |-> u]
MixedDocs == {Member, BareMember, Outsider}

IdSymmetry == Permutations(Ids)
=============================================================================
