------------------------------ MODULE KeyOrder ------------------------------
(***************************************************************************)
(* Reading a set of numbers in ascending order: a scan over sorted keys,   *)
(* or what is left of a list when some of its places are passed over; a    *)
(* set in an order of its own; and sorting a list by a key, which leaves   *)
(* equal keys in their order.                                              *)
(***************************************************************************)
EXTENDS Integers, FiniteSets

\* The member of a set of keys that a scan reads ith.
InKeyOrder(keys, i) == CHOOSE k \in keys : Cardinality({j \in keys : j < k}) = i - 1

\* What is left of a list when only some of its places are kept.
KeptAt(s, places) == [i \in 1..Cardinality(places) |-> s[InKeyOrder(places, i)]]

\* The members of a set in order; B[x] is those that come before x.
Arranged(S, B) == [i \in 1..Cardinality(S) |-> CHOOSE x \in S : Cardinality(B[x]) = i - 1]

\* The place in a list, whose keys are given, of what a stable sort puts ith.
PlaceOf(key, i) ==
    CHOOSE p \in DOMAIN key :
        Cardinality({q \in DOMAIN key : key[q] < key[p] \/ (key[q] = key[p] /\ q < p)}) = i - 1

\* The list rows, sorted by its keys.
SortedBy(rows, key) == [i \in DOMAIN rows |-> rows[PlaceOf(key, i)]]
=============================================================================
