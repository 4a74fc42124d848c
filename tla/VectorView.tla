----------------------------- MODULE VectorView -----------------------------
(***************************************************************************)
(* What the out-of-band vector index promises its callers, with the queue, *)
(* the in-flight batch and the ANN graph hidden: there is one durable map  *)
(* of vectors and one map that searches see.  A commit changes the durable *)
(* map at once; the changes then become visible to searches one by one, in *)
(* the order in which they were staged, and nothing else ever changes what *)
(* a search sees.  GraphApply implements this specification.               *)
(***************************************************************************)
EXTENDS VectorOps

CONSTANT Writers   \* the tasks that write

VARIABLES committed,   \* the durable vectors
          visible,     \* the vectors a search ranks
          unrevealed   \* per writer, the committed changes not yet visible

viewVars == <<committed, visible, unrevealed>>

VInit ==
    /\ committed = [id \in Ids |-> Absent]
    /\ visible = [id \in Ids |-> Absent]
    /\ unrevealed = [w \in Writers |-> <<>>]

\* A transaction lands: all its operations at once.  The changes announced to
\* the index are the committed ones, and possibly one more removal of an id
\* (drop_collection announces each member's removal a second time).
VCommit(w) ==
    /\ unrevealed[w] = <<>>
    /\ \E ops \in OpLists, extra \in {<<>>} \cup {<<[id |-> id, val |-> Absent]>> : id \in Ids} :
          /\ committed' = After(committed, ops)
          /\ unrevealed' = [unrevealed EXCEPT ![w] = ops \o extra]
    /\ UNCHANGED visible

\* The oldest change of w still hidden becomes visible.
VReveal(w) ==
    /\ unrevealed[w] # <<>>
    /\ visible' = [visible EXCEPT ![Head(unrevealed[w]).id] = Head(unrevealed[w]).val]
    /\ unrevealed' = [unrevealed EXCEPT ![w] = Tail(@)]
    /\ UNCHANGED committed

VNext == \E w \in Writers : VCommit(w) \/ VReveal(w)

VSpec == VInit /\ [][VNext]_viewVars
=============================================================================
