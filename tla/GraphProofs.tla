---------------------------- MODULE GraphProofs -----------------------------
(***************************************************************************)
(* Proofs about the vector graph and its durable cache.                    *)
(*                                                                         *)
(* About GraphCache, for every set of ids and vectors and every number of  *)
(* commits, persists, compactions and crashes, where the three windows the *)
(* model can open are shut: no commit is unannounced when persist_graph    *)
(* reads its tag, none lands between compact_graph's check and its swap,   *)
(* and no crash splits a persist that follows a compaction.                *)
(*                                                                         *)
(*   TypeCorrect     the type invariant                                    *)
(*   CacheIsTrue     CacheNeverWrong                                       *)
(*   PersistPaysOff  RestartLoads                                          *)
(*                                                                         *)
(* The heart of the invariant is PairInv: a structure blob whose tag is    *)
(* the live sequence and the sidecar next to it make up a graph of exactly *)
(* the durable vectors.  The two are written in two steps, so it has to be *)
(* carried through a persist (PersistInv) and through the reuse of a       *)
(* sidecar that was not rewritten (SideInv).                               *)
(*                                                                         *)
(* About AnnGraph, for every run of inserts over any vectors, every        *)
(* quantizer, link and beam width, page size and number of levels,         *)
(* removals and reopenings:                                                *)
(*                                                                         *)
(*   GraphAlwaysSound   GraphSound                                         *)
(*   SearchAlwaysExact  SearchExact                                        *)
(*                                                                         *)
(* The walks, beams and folds of AnnGraph are recursive functions; the     *)
(* lemmas on unfolding say once that what each step carries from W[i - 1]  *)
(* to W[i] holds at the end.  AnnInv is inductive: WellLinked is carried   *)
(* through an insert layer by layer (Building, LinkInv), because the node  *)
(* under way has links above and is named by no list below, so that no     *)
(* walk returns it before it is linked.  A beam that has room for all it   *)
(* may return keeps all it has seen of them, and leaves one more node      *)
(* behind in every round (Round), so that it has seen whatever the layer   *)
(* leads to when its rounds are over (BeamFinds).                          *)
(***************************************************************************)
EXTENDS GraphCache, AnnGraph, OrderLemmas, SequenceTheorems

----------------------------------------------------------------------------
(* The durable cache.                                                      *)

\* A node that is live is the newest of its id.
LiveOnce(g) == \A i, j \in DOMAIN g : g[i].live /\ g[j].id = g[i].id => j <= i

\* A graph of exactly the durable vectors.
Mirrors(g) == LiveOnce(g) /\ \A id \in Ids : VectorIn(g, id) = vecs[id]

\* The graph that a structure and a file of vectors make up.
Paired(bare, file) ==
    [i \in DOMAIN bare |-> [id |-> bare[i].id, val |-> file[i], live |-> bare[i].live]]

\* Nothing is on its way to the graph.
Settled == pending = <<>> /\ unpushed = None

\* One pending operation per id; the unannounced one is the newest of its id.
QueueInv ==
    /\ \A i, j \in DOMAIN pending : pending[i].id = pending[j].id => i = j
    /\ unpushed # None => unpushed.val = vecs[unpushed.id]

ServeInv == LiveOnce(nodes) /\ CacheNeverWrong

\* A graph opened from a sidecar still begins with it.
SideInv ==
    base > 0 => /\ sidecar # None /\ base <= Len(sidecar) /\ Len(sidecar) <= Len(nodes)
                /\ \A i \in 1..Len(sidecar) : sidecar[i] = nodes[i].val

\* A structure and a file that are in step with the durable vectors.
GoodPair(bare, file) ==
    /\ file # None /\ Len(file) = Len(bare) /\ Mirrors(Paired(bare, file))
    /\ used.compactions = 0 => nodes = Paired(bare, file) /\ Settled

\* persist_graph on its way.
PersistInv ==
    /\ ppc = "locked" => Settled
    /\ ppc = "captured" => pcap.nodes = Structure(nodes) /\ (pcap.seq = feedSeq => Settled)
    /\ ppc = "flushed" /\ pcap.seq = feedSeq => GoodPair(pcap.nodes, sidecar)
    /\ ppc \in {"captured", "flushed"} /\ blob # None => blob.seq <= pcap.seq

\* What a restart would load.
PairInv ==
    blob # None /\ blob.seq = feedSeq /\ (ppc # "flushed" \/ used.compactions = 0)
        => GoodPair(blob.nodes, sidecar)

\* compact_graph on its way.
CompactInv ==
    /\ cpc # "idle" => tries < CompactAttempts /\ used.compactions # 0
    /\ (cpc = "built" /\ cseq = feedSeq) \/ cpc = "swap" => Mirrors(fresh)

CacheInv == TypeOK /\ QueueInv /\ ServeInv /\ SideInv /\ PersistInv /\ PairInv /\ CompactInv

-----------------------------------------------------------------------------
(* Graphs.                                                                 *)

\* The indices of a graph and its nodes.
LEMMA GraphTypes ==
  ASSUME NEW g \in Seq(Node)
  PROVE  /\ Len(g) \in Nat /\ DOMAIN g = 1..Len(g)
         /\ \A i \in DOMAIN g : g[i] \in Node /\ g[i].id \in Ids /\ g[i].val \in Vals /\ g[i].live \in BOOLEAN
<1>1. Len(g) \in Nat /\ DOMAIN g = 1..Len(g)
  BY LenProperties
<1>2. \A i \in DOMAIN g : g[i] \in Node
  BY <1>1, ElementOfSeq
<1>3. QED
  BY <1>1, <1>2 DEF Node

\* The live node of an id is the one a search finds.
LEMMA VectorOfLive ==
  ASSUME NEW g \in Seq(Node), LiveOnce(g), NEW i \in DOMAIN g, g[i].live
  PROVE  VectorIn(g, g[i].id) = g[i].val
<1> DEFINE P(k) == k \in DOMAIN g /\ g[k].id = g[i].id /\ g[k].live
           c == CHOOSE k \in DOMAIN g : g[k].id = g[i].id /\ g[k].live
<1>1. c \in DOMAIN g /\ g[c].id = g[i].id /\ g[c].live
  OBVIOUS
<1>2. c <= i /\ i <= c
  BY <1>1 DEF LiveOnce
<1>3. c \in Nat /\ i \in Nat
  BY <1>1, GraphTypes
<1> HIDE DEF c
<1>4. c = i
  BY <1>2, <1>3
<1>5. VectorIn(g, g[i].id) = g[c].val
  BY DEF VectorIn, c
<1>6. QED
  BY <1>4, <1>5

\* An id without a live node has no vector.
LEMMA VectorOfNone ==
  ASSUME NEW g, NEW id, ~ \E i \in DOMAIN g : g[i].id = id /\ g[i].live
  PROVE  VectorIn(g, id) = Absent
<1>1. QED
  BY DEF VectorIn

\* A tombstone takes an id out and leaves every node where it was.
LEMMA TombstonedNodes ==
  ASSUME NEW g \in Seq(Node), LiveOnce(g), NEW id \in Ids
  PROVE  /\ Tombstoned(g, id) \in Seq(Node) /\ Len(Tombstoned(g, id)) = Len(g)
         /\ DOMAIN Tombstoned(g, id) = DOMAIN g
         /\ \A i \in DOMAIN g : /\ Tombstoned(g, id)[i].id = g[i].id
                                /\ Tombstoned(g, id)[i].val = g[i].val
                                /\ Tombstoned(g, id)[i].live <=> g[i].live /\ g[i].id # id
<1> DEFINE t == Tombstoned(g, id)
<1>1. DOMAIN t = DOMAIN g /\ DOMAIN g = 1..Len(g) /\ Len(g) \in Nat
  BY GraphTypes DEF Tombstoned
<1>2. ASSUME NEW i \in DOMAIN g
      PROVE  /\ t[i] \in Node /\ t[i].id = g[i].id /\ t[i].val = g[i].val
             /\ t[i].live <=> g[i].live /\ g[i].id # id
  <2>1. g[i] \in Node /\ g[i].live \in BOOLEAN
    BY GraphTypes
  <2>2. CASE g[i].id = id /\ \A j \in DOMAIN g : g[j].id = id => j <= i
    <3>1. t[i] = [g[i] EXCEPT !.live = FALSE]
      BY <2>2 DEF Tombstoned
    <3>2. QED
      BY <2>1, <2>2, <3>1 DEF Node
  <2>3. CASE ~(g[i].id = id /\ \A j \in DOMAIN g : g[j].id = id => j <= i)
    <3>1. t[i] = g[i]
      BY <2>3 DEF Tombstoned
    <3>2. g[i].live => g[i].id # id
      BY <2>3 DEF LiveOnce
    <3>3. QED
      BY <2>1, <3>1, <3>2
  <2>4. QED
    BY <2>2, <2>3
<1>3. t \in Seq(Node) /\ Len(t) = Len(g)
  <2>1. t = [i \in 1..Len(g) |-> t[i]]
    BY <1>1 DEF Tombstoned
  <2>2. t \in [1..Len(g) -> Node]
    BY <1>1, <1>2, <2>1
  <2> HIDE DEF t
  <2>3. QED
    BY <1>1, <2>2
<1>4. QED
  BY <1>1, <1>2, <1>3

\* Applying an operation makes it what the graph holds for its id, keeps what it
\* holds for every other, and moves no vector.
LEMMA ApplyOpNodes ==
  ASSUME NEW g \in Seq(Node), LiveOnce(g), NEW op \in Ops
  PROVE  /\ ApplyOp(g, op) \in Seq(Node) /\ LiveOnce(ApplyOp(g, op))
         /\ Len(g) <= Len(ApplyOp(g, op))
         /\ \A i \in 1..Len(g) : ApplyOp(g, op)[i].val = g[i].val
         /\ \A id \in Ids : VectorIn(ApplyOp(g, op), id) = IF id = op.id THEN op.val ELSE VectorIn(g, id)
<1> DEFINE t == Tombstoned(g, op.id)
           a == ApplyOp(g, op)
<1>1. op.id \in Ids /\ op.val \in Slot
  BY DEF Ops
<1>2. /\ t \in Seq(Node) /\ Len(t) = Len(g) /\ DOMAIN t = DOMAIN g
      /\ \A i \in DOMAIN g : /\ t[i].id = g[i].id /\ t[i].val = g[i].val
                             /\ t[i].live <=> g[i].live /\ g[i].id # op.id
  BY <1>1, TombstonedNodes
<1>3. DOMAIN g = 1..Len(g) /\ Len(g) \in Nat
  BY GraphTypes
<1> HIDE DEF t
<1>4. LiveOnce(t)
  BY <1>2 DEF LiveOnce
<1>5. ASSUME NEW id \in Ids PROVE VectorIn(t, id) = IF id = op.id THEN Absent ELSE VectorIn(g, id)
  <2>1. CASE \E i \in DOMAIN g : g[i].id = id /\ g[i].live /\ id # op.id
    <3>1. PICK i \in DOMAIN g : g[i].id = id /\ g[i].live /\ id # op.id
      BY <2>1
    <3>2. t[i].id = id /\ t[i].live /\ t[i].val = g[i].val /\ i \in DOMAIN t
      BY <1>2, <3>1
    <3>3. VectorIn(t, id) = t[i].val /\ VectorIn(g, id) = g[i].val
      BY <1>2, <1>4, <3>1, <3>2, VectorOfLive
    <3>4. QED
      BY <3>1, <3>2, <3>3
  <2>2. CASE ~ \E i \in DOMAIN g : g[i].id = id /\ g[i].live /\ id # op.id
    <3>1. VectorIn(t, id) = Absent
      <4>1. ~ \E i \in DOMAIN t : t[i].id = id /\ t[i].live
        BY <1>2, <2>2
      <4>2. QED
        BY <4>1, VectorOfNone
    <3>2. id # op.id => VectorIn(g, id) = Absent
      BY <2>2, VectorOfNone
    <3>3. QED
      BY <3>1, <3>2
  <2>3. QED
    BY <2>1, <2>2
<1>6. CASE op.val = Absent
  <2>1. a = t
    BY <1>6 DEF ApplyOp, t
  <2> HIDE DEF a
  <2>2. QED
    BY <1>2, <1>3, <1>4, <1>5, <1>6, <2>1 DEF a
<1>7. CASE op.val # Absent
  <2> DEFINE n == [id |-> op.id, val |-> op.val, live |-> TRUE]
  <2>1. n \in Node /\ n.id = op.id /\ n.val = op.val /\ n.live = TRUE
    BY <1>1, <1>7 DEF Node, Slot
  <2>2. a = Append(t, n)
    BY <1>7 DEF ApplyOp, t
  <2> HIDE DEF n, a
  <2>3. /\ a \in Seq(Node) /\ Len(a) = Len(g) + 1 /\ a[Len(g) + 1] = n
        /\ \A i \in 1..Len(g) : a[i] = t[i]
    BY <1>2, <2>1, <2>2, AppendProperties
  <2>4. /\ DOMAIN a = 1..(Len(g) + 1) /\ Len(g) + 1 \in DOMAIN a
        /\ \A i \in DOMAIN a : i \in DOMAIN g \/ i = Len(g) + 1
        /\ \A i \in DOMAIN g : i \in DOMAIN a
    <3>1. DOMAIN a = 1..Len(a)
      BY <2>3, GraphTypes
    <3>2. QED
      BY <1>3, <2>3, <3>1
  <2>5. \A i \in DOMAIN g : /\ a[i].id = g[i].id /\ a[i].val = g[i].val
                            /\ a[i].live <=> g[i].live /\ g[i].id # op.id
    BY <1>2, <1>3, <2>3
  <2>6. LiveOnce(a)
    <3>1. ASSUME NEW i \in DOMAIN a, NEW j \in DOMAIN a, a[i].live, a[j].id = a[i].id PROVE j <= i
      <4>1. CASE i = Len(g) + 1
        BY <1>3, <2>4, <4>1
      <4>2. CASE i \in DOMAIN g /\ j \in DOMAIN g
        <5>1. g[i].live /\ g[j].id = g[i].id
          BY <2>5, <3>1, <4>2
        <5>2. QED
          BY <4>2, <5>1 DEF LiveOnce
      <4>3. CASE i \in DOMAIN g /\ j = Len(g) + 1
        BY <2>1, <2>3, <2>5, <3>1, <4>3
      <4>4. QED
        BY <2>4, <4>1, <4>2, <4>3
    <3>2. QED
      BY <3>1 DEF LiveOnce
  <2>7. ASSUME NEW id \in Ids PROVE VectorIn(a, id) = IF id = op.id THEN op.val ELSE VectorIn(g, id)
    <3>1. CASE id = op.id
      <4>1. VectorIn(a, a[Len(g) + 1].id) = a[Len(g) + 1].val
        BY <2>1, <2>3, <2>4, <2>6, VectorOfLive
      <4>2. QED
        BY <2>1, <2>3, <3>1, <4>1
    <3>2. CASE id # op.id /\ \E i \in DOMAIN g : g[i].id = id /\ g[i].live
      <4>1. PICK i \in DOMAIN g : g[i].id = id /\ g[i].live
        BY <3>2
      <4>2. i \in DOMAIN a /\ a[i].live /\ a[i].id = id /\ a[i].val = g[i].val
        BY <2>4, <2>5, <3>2, <4>1
      <4>3. VectorIn(a, id) = a[i].val /\ VectorIn(g, id) = g[i].val
        BY <2>3, <2>6, <4>1, <4>2, VectorOfLive
      <4>4. QED
        BY <3>2, <4>2, <4>3
    <3>3. CASE id # op.id /\ ~ \E i \in DOMAIN g : g[i].id = id /\ g[i].live
      <4>1. ~ \E i \in DOMAIN a : a[i].id = id /\ a[i].live
        BY <2>1, <2>3, <2>4, <2>5, <3>3
      <4>2. VectorIn(a, id) = Absent /\ VectorIn(g, id) = Absent
        BY <3>3, <4>1, VectorOfNone
      <4>3. QED
        BY <3>3, <4>2
    <3>4. QED
      BY <3>1, <3>2, <3>3
  <2>8. Len(g) <= Len(a)
    BY <1>3, <2>3
  <2>9. QED
    BY <1>3, <2>3, <2>5, <2>6, <2>7, <2>8 DEF a
<1>8. QED
  BY <1>6, <1>7

-----------------------------------------------------------------------------
(* A rebuild.                                                              *)

\* A rebuilt graph is one of the durable vectors.
LEMMA RebuiltMirrors ==
  ASSUME TypeOK
  PROVE  Rebuilt \in Seq(Node) /\ Mirrors(Rebuilt)
<1> DEFINE S == {id \in Ids : vecs[id] # Absent}
           n == Cardinality(S)
           K(i) == InKeyOrder(S, i)
           g == Rebuilt
<1>1. S \in SUBSET Nat /\ IsFiniteSet(S)
  BY IdsOrdered, FS_Subset
<1>2. /\ n \in Nat /\ \A i \in 1..n : K(i) \in S
      /\ \A i, j \in 1..n : K(i) = K(j) => i = j
      /\ \A id \in S : \E i \in 1..n : K(i) = id
  BY <1>1, ReadsEachOnce
<1>3. vecs \in [Ids -> Slot]
  BY DEF TypeOK
<1>4. g = [i \in 1..n |-> [id |-> K(i), val |-> vecs[K(i)], live |-> TRUE]]
  BY DEF Rebuilt
<1>5. \A id \in S : id \in Ids /\ vecs[id] \in Vals
  BY <1>3 DEF Slot
<1>6. \A id \in Ids : id \notin S => vecs[id] = Absent
  OBVIOUS
<1> HIDE DEF S, K, g
<1>7. DOMAIN g = 1..n /\ \A i \in 1..n : /\ g[i] \in Node /\ g[i].id = K(i) /\ g[i].val = vecs[K(i)]
                                         /\ g[i].live = TRUE
  BY <1>2, <1>4, <1>5 DEF Node
<1>8. g \in Seq(Node)
  <2>1. g \in [1..n -> Node]
    BY <1>4, <1>7
  <2>2. QED
    BY <1>2, <2>1
<1>9. LiveOnce(g)
  <2>1. \A i, j \in 1..n : g[j].id = g[i].id => j <= i
    BY <1>2, <1>7
  <2>2. QED
    BY <1>7, <2>1 DEF LiveOnce
<1>10. ASSUME NEW id \in Ids PROVE VectorIn(g, id) = vecs[id]
  <2>1. CASE id \in S
    <3>1. PICK i \in 1..n : K(i) = id
      BY <1>2, <2>1
    <3>2. i \in DOMAIN g /\ g[i].live /\ g[i].id = id /\ g[i].val = vecs[id]
      BY <1>7, <3>1
    <3>3. QED
      BY <1>8, <1>9, <3>2, VectorOfLive
  <2>2. CASE id \notin S
    <3>1. ~ \E i \in DOMAIN g : g[i].id = id /\ g[i].live
      BY <1>2, <1>7, <2>2
    <3>2. QED
      BY <1>6, <2>2, <3>1, VectorOfNone
  <2>3. QED
    BY <2>1, <2>2
<1>11. QED
  BY <1>8, <1>9, <1>10 DEF Mirrors, g

-----------------------------------------------------------------------------
(* What is served.                                                         *)

\* What a queue in front of a graph holds for an id.
ServedBy(p, g, id) ==
    IF \E i \in DOMAIN p : p[i].id = id
    THEN p[CHOOSE i \in DOMAIN p : p[i].id = id].val
    ELSE VectorIn(g, id)

OneEach(p) == \A i, j \in DOMAIN p : p[i].id = p[j].id => i = j

\* It is what the model serves.
LEMMA ServesIs == /\ \A id : Serves(id) = ServedBy(pending, nodes, id)
                  /\ \A id : Serves(id)' = ServedBy(pending', nodes', id)
<1>1. QED
  BY DEF Serves, ServedBy

\* A pending operation hides the graph, and it is the only one of its id.
LEMMA ServedPending ==
  ASSUME NEW p, NEW g, OneEach(p), NEW i \in DOMAIN p
  PROVE  ServedBy(p, g, p[i].id) = p[i].val
<1> DEFINE c == CHOOSE k \in DOMAIN p : p[k].id = p[i].id
<1>1. c \in DOMAIN p /\ p[c].id = p[i].id
  OBVIOUS
<1>2. c = i
  BY <1>1 DEF OneEach
<1>3. QED
  BY <1>2 DEF ServedBy

\* Without one the graph answers.
LEMMA ServedGraph ==
  ASSUME NEW p, NEW g, NEW id, ~ \E i \in DOMAIN p : p[i].id = id
  PROVE  ServedBy(p, g, id) = VectorIn(g, id)
<1>1. QED
  BY DEF ServedBy

\* With nothing on its way, the graph alone mirrors the durable vectors.
LEMMA SettledMirrors == ASSUME ServeInv, Settled PROVE Mirrors(nodes)
<1>1. DOMAIN pending = {}
  BY EmptySeq DEF Settled
<1>2. \A id \in Ids : ServedBy(pending, nodes, id) = VectorIn(nodes, id)
  BY <1>1, ServedGraph
<1>3. \A id \in Ids : Serves(id) = vecs[id]
  BY DEF ServeInv, CacheNeverWrong, Settled
<1>4. QED
  BY <1>2, <1>3, ServesIs DEF Mirrors, ServeInv

\* A graph is the pair of its structure and its vectors.
LEMMA PairedBack ==
  ASSUME NEW g \in Seq(Node)
  PROVE  /\ Structure(g) \in Seq(BareNode) /\ Len(Structure(g)) = Len(g)
         /\ VectorsOf(g) \in Seq(Vals) /\ Len(VectorsOf(g)) = Len(g)
         /\ \A file : (DOMAIN file = DOMAIN g /\ \A i \in DOMAIN g : file[i] = g[i].val)
                         => Paired(Structure(g), file) = g
<1>1. /\ Len(g) \in Nat /\ DOMAIN g = 1..Len(g)
      /\ \A i \in DOMAIN g : g[i] \in Node /\ g[i].id \in Ids /\ g[i].val \in Vals /\ g[i].live \in BOOLEAN
  BY GraphTypes
<1>2. Structure(g) \in [1..Len(g) -> BareNode] /\ VectorsOf(g) \in [1..Len(g) -> Vals]
  BY <1>1 DEF Structure, VectorsOf, BareNode
<1>3. /\ Structure(g) \in Seq(BareNode) /\ Len(Structure(g)) = Len(g)
      /\ VectorsOf(g) \in Seq(Vals) /\ Len(VectorsOf(g)) = Len(g)
  BY <1>1, <1>2
<1>4. ASSUME NEW file, DOMAIN file = DOMAIN g, \A i \in DOMAIN g : file[i] = g[i].val
      PROVE  Paired(Structure(g), file) = g
  <2>1. DOMAIN Paired(Structure(g), file) = DOMAIN g
    BY DEF Paired, Structure
  <2>2. ASSUME NEW i \in DOMAIN g PROVE Paired(Structure(g), file)[i] = g[i]
    <3>1. Paired(Structure(g), file)[i] = [id |-> g[i].id, val |-> g[i].val, live |-> g[i].live]
      BY <1>4 DEF Paired, Structure
    <3>2. g[i] = [id |-> g[i].id, val |-> g[i].val, live |-> g[i].live]
      BY <1>1 DEF Node
    <3>3. QED
      BY <3>1, <3>2
  <2>3. g = [i \in DOMAIN g |-> g[i]] /\ Paired(Structure(g), file) = [i \in DOMAIN g |-> Paired(Structure(g), file)[i]]
    BY <1>1, <2>1 DEF Paired, Structure
  <2>4. QED
    BY <2>2, <2>3
<1>5. QED
  BY <1>3, <1>4

\* The graph of a pair, and the vectors it gives back.
LEMMA PairedNodes ==
  ASSUME NEW bare \in Seq(BareNode), NEW file \in Seq(Vals), Len(file) = Len(bare)
  PROVE  /\ Paired(bare, file) \in Seq(Node) /\ Len(Paired(bare, file)) = Len(bare)
         /\ \A i \in 1..Len(file) : Paired(bare, file)[i].val = file[i]
         /\ VectorsOf(Paired(bare, file)) = file
<1> DEFINE g == Paired(bare, file)
<1>1. /\ Len(bare) \in Nat /\ DOMAIN bare = 1..Len(bare) /\ DOMAIN file = 1..Len(bare)
      /\ \A i \in 1..Len(bare) : bare[i] \in BareNode /\ file[i] \in Vals
  BY LenProperties, ElementOfSeq
<1>2. DOMAIN g = 1..Len(bare) /\ \A i \in 1..Len(bare) : g[i] \in Node /\ g[i].val = file[i]
  BY <1>1 DEF Paired, BareNode, Node
<1>3. g \in [1..Len(bare) -> Node]
  BY <1>1, <1>2 DEF Paired
<1> HIDE DEF g
<1>4. g \in Seq(Node) /\ Len(g) = Len(bare)
  BY <1>1, <1>3
<1>5. VectorsOf(g) \in Seq(Vals) /\ Len(VectorsOf(g)) = Len(bare)
  BY <1>4, PairedBack
<1>6. \A i \in 1..Len(VectorsOf(g)) : VectorsOf(g)[i] = file[i]
  BY <1>2, <1>5 DEF VectorsOf
<1>7. VectorsOf(g) = file
  BY <1>5, <1>6, SeqEqual
<1>8. QED
  BY <1>1, <1>2, <1>4, <1>7 DEF g

-----------------------------------------------------------------------------
(* The windows that are shut.                                              *)

Shut == ~WriteAtTag /\ ~WriteAtSwap /\ ~SkewedCrash

\* What the type invariant says of the numbers.
LEMMA SeqTypes ==
  ASSUME TypeOK
  PROVE  /\ feedSeq \in Nat /\ cseq \in Nat /\ cseq <= feedSeq
         /\ pcap.seq \in Nat /\ pcap.seq <= feedSeq /\ pcap.nodes \in Seq(BareNode)
         /\ blob # None => blob.seq \in Nat /\ blob.seq <= feedSeq /\ blob.nodes \in Seq(BareNode)
         /\ sidecar # None => sidecar \in Seq(Vals)
         /\ base \in Nat /\ Len(nodes) \in Nat /\ base <= Len(nodes) /\ nodes \in Seq(Node)
         /\ used.compactions \in Nat
<1>1. nodes \in Seq(Node) /\ Len(nodes) \in Nat
  BY LenProperties DEF TypeOK
<1>2. feedSeq \in Nat /\ cseq \in 0..feedSeq /\ base \in 0..Len(nodes)
  BY DEF TypeOK
<1>3. pcap \in [seq : 0..feedSeq, nodes : Seq(BareNode)]
  BY DEF TypeOK
<1>4. blob # None => blob \in [seq : 0..feedSeq, nodes : Seq(BareNode)]
  BY DEF TypeOK
<1>5. sidecar # None => sidecar \in Seq(Vals)
  BY DEF TypeOK
<1>6. used.compactions \in Nat
  BY DEF TypeOK
<1>7. QED
  BY <1>1, <1>2, <1>3, <1>4, <1>5, <1>6

\* Spending a bound.
LEMMA SpendTypes ==
  ASSUME TypeOK, NEW what \in {"commits", "persists", "compactions", "restarts"},
         used' = [used EXCEPT ![what] = @ + 1]
  PROVE  /\ used' \in [commits : Nat, persists : Nat, compactions : Nat, restarts : Nat]
         /\ what # "compactions" => used'.compactions = used.compactions
         /\ what = "compactions" => used'.compactions # 0
<1>1. used \in [commits : Nat, persists : Nat, compactions : Nat, restarts : Nat]
  BY DEF TypeOK
<1>2. \A n \in Nat : n + 1 \in Nat /\ n + 1 # 0
  OBVIOUS
<1>3. CASE what = "commits"
  BY <1>1, <1>2, <1>3
<1>4. CASE what = "persists"
  BY <1>1, <1>2, <1>4
<1>5. CASE what = "compactions"
  BY <1>1, <1>2, <1>5
<1>6. CASE what = "restarts"
  BY <1>1, <1>2, <1>6
<1>7. QED
  BY <1>3, <1>4, <1>5, <1>6

\* Nothing on disk, in memory or on its way.
LEMMA InitInv == Init => CacheInv
<1> SUFFICES ASSUME Init PROVE CacheInv
  OBVIOUS
<1>1. /\ Len(<<>>) = 0 /\ DOMAIN <<>> = {}
      /\ <<>> \in Seq(Node) /\ <<>> \in Seq(BareNode) /\ <<>> \in Seq(Ops)
  BY EmptySeq
<1>2. TypeOK
  <2>1. 0 \in 0..0 /\ 0 \in 0..CompactAttempts
    BY BoundsNat
  <2>2. QED
    BY <1>1, <2>1 DEF Init, TypeOK, Slot, Nothing
<1>3. \A id \in Ids : VectorIn(nodes, id) = Absent
  BY <1>1, VectorOfNone DEF Init
<1>4. CacheNeverWrong
  BY <1>1, <1>3, ServesIs, ServedGraph DEF Init, CacheNeverWrong
<1>5. QueueInv /\ ServeInv
  BY <1>1, <1>4 DEF Init, QueueInv, ServeInv, LiveOnce
<1>6. SideInv /\ PersistInv /\ PairInv /\ CompactInv
  BY DEF Init, SideInv, PersistInv, PairInv, CompactInv
<1>7. QED
  BY <1>2, <1>5, <1>6 DEF CacheInv

-----------------------------------------------------------------------------
(* Writes and the applier.                                                 *)

\* A sequence that moves makes every tag on its way or on disk stale.
LEMMA SequenceMoves ==
  ASSUME CacheInv, feedSeq' = feedSeq + 1, used'.compactions = used.compactions,
         UNCHANGED <<blob, sidecar, nodes, base, ppc, pcap, cpc, cseq, fresh, tries>>,
         ppc = "locked" => Settled', cpc = "swap" => Mirrors(fresh)'
  PROVE  SideInv' /\ PersistInv' /\ PairInv' /\ CompactInv'
<1>1. /\ feedSeq \in Nat /\ pcap.seq \in Nat /\ pcap.seq <= feedSeq /\ cseq \in Nat /\ cseq <= feedSeq
      /\ blob # None => blob.seq \in Nat /\ blob.seq <= feedSeq
  BY SeqTypes DEF CacheInv
<1>2. pcap.seq # feedSeq' /\ cseq # feedSeq' /\ (blob # None => blob.seq # feedSeq')
  BY <1>1
<1>3. SideInv'
  BY DEF CacheInv, SideInv
<1>4. PersistInv'
  BY <1>2 DEF CacheInv, PersistInv
<1>5. PairInv'
  BY <1>2 DEF PairInv
<1>6. CompactInv'
  BY <1>2 DEF CacheInv, CompactInv
<1>7. QED
  BY <1>3, <1>4, <1>5, <1>6

\* Nothing else of the state's type is at stake when the sequence moves.
LEMMA SequenceTypes ==
  ASSUME TypeOK, feedSeq' = feedSeq + 1, vecs' \in [Ids -> Slot], unpushed' \in Ops \cup {None},
         used' \in [commits : Nat, persists : Nat, compactions : Nat, restarts : Nat],
         UNCHANGED <<blob, sidecar, pending, nodes, base, ppc, pcap, cpc, cseq, fresh, tries>>
  PROVE  TypeOK'
<1>1. feedSeq \in Nat /\ feedSeq + 1 \in Nat /\ \A n \in 0..feedSeq : n \in 0..(feedSeq + 1)
  BY DEF TypeOK
<1>2. cseq' \in 0..feedSeq'
  BY <1>1 DEF TypeOK
<1>3. pcap' \in [seq : 0..feedSeq', nodes : Seq(BareNode)]
  BY <1>1 DEF TypeOK
<1>4. blob' \in [seq : 0..feedSeq', nodes : Seq(BareNode)] \cup {None}
  BY <1>1 DEF TypeOK
<1>5. QED
  BY <1>1, <1>2, <1>3, <1>4 DEF TypeOK

\* A commit changes the durable vector of the id it is about to announce.
LEMMA CommitInv == ASSUME Shut, CacheInv, Commit PROVE CacheInv'
<1>1. PICK op \in Ops : vecs' = [vecs EXCEPT ![op.id] = op.val] /\ unpushed' = op
  BY DEF Commit
<1>2. /\ feedSeq' = feedSeq + 1 /\ used' = [used EXCEPT !.commits = @ + 1] /\ unpushed = None
      /\ UNCHANGED <<blob, sidecar, pending, nodes, base, ppc, pcap, cpc, cseq, fresh, tries>>
      /\ ppc # "locked" /\ cpc # "swap"
  BY DEF Commit, Spend, persistVars, compactVars, Shut
<1>3. TypeOK /\ op.id \in Ids /\ op.val \in Slot /\ vecs \in [Ids -> Slot]
  BY DEF CacheInv, Ops, TypeOK
<1>4. /\ vecs' \in [Ids -> Slot] /\ vecs'[op.id] = op.val
      /\ \A id \in Ids : id # op.id => vecs'[id] = vecs[id]
  BY <1>1, <1>3
<1>5. /\ used' \in [commits : Nat, persists : Nat, compactions : Nat, restarts : Nat]
      /\ used'.compactions = used.compactions
  BY <1>2, <1>3, SpendTypes
<1>6. TypeOK'
  BY <1>1, <1>2, <1>3, <1>4, <1>5, SequenceTypes
<1>7. QueueInv'
  BY <1>1, <1>2, <1>4 DEF CacheInv, QueueInv
<1>8. ServeInv'
  <2>1. \A id : Serves(id)' = Serves(id)
    BY <1>2, ServesIs
  <2>2. ASSUME NEW id \in Ids PROVE (unpushed' # None /\ unpushed'.id = id) \/ Serves(id)' = vecs'[id]
    <3>1. CASE id = op.id
      BY <1>1, <3>1, NothingDistinct
    <3>2. CASE id # op.id
      BY <1>2, <1>4, <2>1, <3>2 DEF CacheInv, ServeInv, CacheNeverWrong
    <3>3. QED
      BY <3>1, <3>2
  <2>3. QED
    BY <1>2, <2>2 DEF CacheInv, ServeInv, CacheNeverWrong
<1>9. SideInv' /\ PersistInv' /\ PairInv' /\ CompactInv'
  BY <1>2, <1>5, SequenceMoves
<1>10. QED
  BY <1>6, <1>7, <1>8, <1>9 DEF CacheInv

\* A payload mutation moves the sequence and no vector.
LEMMA MutateInv == ASSUME CacheInv, MutatePayload PROVE CacheInv'
<1>1. /\ feedSeq' = feedSeq + 1 /\ used' = [used EXCEPT !.commits = @ + 1] /\ UNCHANGED <<vecs, unpushed>>
      /\ UNCHANGED <<blob, sidecar, pending, nodes, base, ppc, pcap, cpc, cseq, fresh, tries>>
  BY DEF MutatePayload, Spend, persistVars, compactVars
<1>2. TypeOK /\ vecs' \in [Ids -> Slot] /\ unpushed' \in Ops \cup {None}
  BY <1>1 DEF CacheInv, TypeOK
<1>3. /\ used' \in [commits : Nat, persists : Nat, compactions : Nat, restarts : Nat]
      /\ used'.compactions = used.compactions
  BY <1>1, <1>2, SpendTypes
<1>4. TypeOK'
  BY <1>1, <1>2, <1>3, SequenceTypes
<1>5. QueueInv' /\ ServeInv'
  <2>1. \A id : Serves(id)' = Serves(id)
    BY <1>1, ServesIs
  <2>2. QED
    BY <1>1, <2>1 DEF CacheInv, QueueInv, ServeInv, CacheNeverWrong
<1>6. (ppc = "locked" => Settled') /\ (cpc = "swap" => Mirrors(fresh)')
  BY <1>1 DEF CacheInv, PersistInv, CompactInv, Settled, Mirrors
<1>7. SideInv' /\ PersistInv' /\ PairInv' /\ CompactInv'
  BY <1>1, <1>3, <1>6, SequenceMoves
<1>8. QED
  BY <1>4, <1>5, <1>7 DEF CacheInv

\* While something is on its way to the graph no tag is current, unless a
\* compaction has overtaken it.
LEMMA OnItsWay ==
  ASSUME CacheInv, ~Settled, UNCHANGED <<vecs, feedSeq, blob, sidecar, ppc, pcap, cpc, cseq, fresh, tries, used>>,
         ppc = "captured" => nodes' = nodes
  PROVE  PersistInv' /\ PairInv' /\ CompactInv'
<1>1. \A bare, file : GoodPair(bare, file) =>
         /\ used.compactions # 0
         /\ file # None /\ Len(file) = Len(bare) /\ Mirrors(Paired(bare, file))
  BY DEF GoodPair
<1>2. \A g : Mirrors(g) => LiveOnce(g) /\ \A id \in Ids : VectorIn(g, id) = vecs'[id]
  BY DEF Mirrors
<1>3. PersistInv'
  <2>1. ppc' # "locked" /\ (ppc' = "captured" => pcap.seq # feedSeq /\ pcap.nodes = Structure(nodes))
    BY DEF CacheInv, PersistInv
  <2>2. ASSUME ppc = "flushed", pcap.seq = feedSeq PROVE GoodPair(pcap.nodes, sidecar)'
    <3>1. GoodPair(pcap.nodes, sidecar)
      BY <2>2 DEF CacheInv, PersistInv
    <3>2. QED
      BY <1>1, <1>2, <3>1 DEF GoodPair, Mirrors
  <2>3. QED
    BY <2>1, <2>2 DEF CacheInv, PersistInv
<1>4. PairInv'
  <2>1. ASSUME blob # None, blob.seq = feedSeq, ppc # "flushed" \/ used.compactions = 0
        PROVE  GoodPair(blob.nodes, sidecar)'
    <3>1. GoodPair(blob.nodes, sidecar)
      BY <2>1 DEF CacheInv, PairInv
    <3>2. QED
      BY <1>1, <1>2, <3>1 DEF GoodPair, Mirrors
  <2>2. QED
    BY <2>1 DEF PairInv
<1>5. CompactInv'
  BY DEF CacheInv, CompactInv, Mirrors
<1>6. QED
  BY <1>3, <1>4, <1>5

\* An announced operation is the one pending operation of its id.
LEMMA PushInv == ASSUME CacheInv, Push PROVE CacheInv'
<1> DEFINE u == unpushed
<1>1. /\ u # None /\ unpushed' = None
      /\ UNCHANGED <<vecs, feedSeq, blob, sidecar, nodes, base, ppc, pcap, cpc, cseq, fresh, tries, used>>
      /\ pending' = IF \E i \in DOMAIN pending : pending[i].id = u.id
                    THEN [i \in DOMAIN pending |-> IF pending[i].id = u.id THEN u ELSE pending[i]]
                    ELSE Append(pending, u)
  BY DEF Push, durable, persistVars, compactVars
<1>2. TypeOK /\ u \in Ops /\ u.id \in Ids /\ u.val = vecs[u.id] /\ pending \in Seq(Ops) /\ OneEach(pending)
  BY <1>1 DEF CacheInv, QueueInv, OneEach, TypeOK, Ops
<1>3. /\ Len(pending) \in Nat /\ DOMAIN pending = 1..Len(pending)
      /\ \A i \in DOMAIN pending : pending[i] \in Ops
  BY <1>2, LenProperties, ElementOfSeq
<1> HIDE DEF u
<1>4. /\ pending' \in Seq(Ops) /\ OneEach(pending') /\ \E i \in DOMAIN pending' : pending'[i] = u
      /\ \A i \in DOMAIN pending' : pending'[i] = u \/ (i \in DOMAIN pending /\ pending'[i] = pending[i])
      /\ \A i \in DOMAIN pending : pending[i].id # u.id => i \in DOMAIN pending' /\ pending'[i] = pending[i]
  <2>1. CASE \E i \in DOMAIN pending : pending[i].id = u.id
    <3>1. pending' = [i \in DOMAIN pending |-> IF pending[i].id = u.id THEN u ELSE pending[i]]
      BY <1>1, <2>1
    <3>2. pending' \in [1..Len(pending) -> Ops]
      BY <1>2, <1>3, <3>1
    <3>3. pending' \in Seq(Ops)
      BY <1>3, <3>2
    <3>4. OneEach(pending')
      BY <1>2, <3>1 DEF OneEach
    <3>5. QED
      BY <2>1, <3>1, <3>3, <3>4
  <2>2. CASE ~ \E i \in DOMAIN pending : pending[i].id = u.id
    <3>1. pending' = Append(pending, u)
      BY <1>1, <2>2
    <3>2. /\ pending' \in Seq(Ops) /\ Len(pending') = Len(pending) + 1
          /\ pending'[Len(pending) + 1] = u /\ \A i \in 1..Len(pending) : pending'[i] = pending[i]
      BY <1>2, <3>1, AppendProperties
    <3>3. /\ DOMAIN pending' = 1..(Len(pending) + 1) /\ Len(pending) + 1 \in DOMAIN pending'
          /\ \A i \in DOMAIN pending' : i \in DOMAIN pending \/ i = Len(pending) + 1
          /\ \A i \in DOMAIN pending : i \in DOMAIN pending'
      <4>1. DOMAIN pending' = 1..Len(pending')
        BY <3>2, LenProperties
      <4>2. QED
        BY <1>3, <3>2, <4>1
    <3>4. OneEach(pending')
      BY <1>2, <1>3, <2>2, <3>2, <3>3 DEF OneEach
    <3>5. QED
      BY <1>3, <3>2, <3>3, <3>4
  <2>3. QED
    BY <2>1, <2>2
<1>5. TypeOK'
  BY <1>1, <1>2, <1>4 DEF TypeOK
<1>6. QueueInv'
  BY <1>1, <1>4 DEF QueueInv, OneEach
<1>7. ASSUME NEW id \in Ids PROVE Serves(id)' = vecs'[id]
  <2>1. CASE id = u.id
    <3>1. PICK i \in DOMAIN pending' : pending'[i] = u
      BY <1>4
    <3>2. ServedBy(pending', nodes', pending'[i].id) = pending'[i].val
      BY <1>4, ServedPending
    <3>3. QED
      BY <1>1, <1>2, <2>1, <3>1, <3>2, ServesIs
  <2>2. CASE id # u.id
    <3>1. Serves(id) = vecs[id]
      BY <1>2, <2>2 DEF CacheInv, ServeInv, CacheNeverWrong, u
    <3>2. CASE \E i \in DOMAIN pending : pending[i].id = id
      <4>1. PICK i \in DOMAIN pending : pending[i].id = id
        BY <3>2
      <4>2. i \in DOMAIN pending' /\ pending'[i] = pending[i]
        BY <1>4, <2>2, <4>1
      <4>3. ServedBy(pending, nodes, pending[i].id) = pending[i].val
        BY <1>2, ServedPending
      <4>4. ServedBy(pending', nodes', pending'[i].id) = pending'[i].val
        BY <1>4, <4>2, ServedPending
      <4>5. QED
        BY <1>1, <3>1, <4>1, <4>2, <4>3, <4>4, ServesIs
    <3>3. CASE ~ \E i \in DOMAIN pending : pending[i].id = id
      <4>1. ~ \E i \in DOMAIN pending' : pending'[i].id = id
        BY <1>4, <2>2, <3>3
      <4>2. ServedBy(pending, nodes, id) = VectorIn(nodes, id) /\ ServedBy(pending', nodes', id) = VectorIn(nodes, id)
        BY <1>1, <3>3, <4>1, ServedGraph
      <4>3. QED
        BY <1>1, <3>1, <4>2, ServesIs
    <3>4. QED
      BY <3>2, <3>3
  <2>3. QED
    BY <2>1, <2>2
<1>8. ServeInv'
  BY <1>1, <1>7 DEF CacheInv, ServeInv, CacheNeverWrong
<1>9. SideInv'
  BY <1>1 DEF CacheInv, SideInv
<1>10. PersistInv' /\ PairInv' /\ CompactInv'
  BY <1>1, OnItsWay DEF Settled, u
<1>11. QED
  BY <1>5, <1>6, <1>8, <1>9, <1>10 DEF CacheInv

\* The applier hands an operation from the queue to the graph.
LEMMA ApplyInv == ASSUME CacheInv, Apply PROVE CacheInv'
<1> DEFINE op == pending[1]
<1>1. /\ pending # <<>> /\ nodes' = ApplyOp(nodes, Head(pending)) /\ pending' = Tail(pending)
      /\ UNCHANGED <<vecs, feedSeq, blob, sidecar, unpushed, base, ppc, pcap, cpc, cseq, fresh, tries, used>>
      /\ ppc # "captured"
  BY DEF Apply, durable, persistVars, compactVars
<1>2. TypeOK /\ pending \in Seq(Ops) /\ OneEach(pending) /\ nodes \in Seq(Node) /\ LiveOnce(nodes)
  BY DEF CacheInv, QueueInv, OneEach, TypeOK, ServeInv
<1>3. /\ Len(pending) \in Nat /\ DOMAIN pending = 1..Len(pending) /\ Head(pending) = op
      /\ \A i \in DOMAIN pending : pending[i] \in Ops
      /\ Len(pending) # 0
  BY <1>1, <1>2, LenProperties, ElementOfSeq, HeadTailProperties, EmptySeq
<1>4. 1 \in DOMAIN pending /\ op \in Ops /\ op.id \in Ids
  BY <1>3 DEF Ops
<1>5. /\ pending' \in Seq(Ops) /\ DOMAIN pending' = 1..(Len(pending) - 1)
      /\ \A i \in DOMAIN pending' : i + 1 \in DOMAIN pending /\ i + 1 # 1 /\ pending'[i] = pending[i + 1]
      /\ \A i \in DOMAIN pending : i # 1 => i - 1 \in DOMAIN pending' /\ pending'[i - 1] = pending[i]
  <2>1. /\ pending' \in Seq(Ops) /\ Len(pending') = Len(pending) - 1
        /\ \A i \in 1..Len(pending') : pending'[i] = pending[i + 1]
    BY <1>1, <1>2, HeadTailProperties
  <2>2. DOMAIN pending' = 1..Len(pending')
    BY <2>1, LenProperties
  <2>3. \A i \in DOMAIN pending' : i + 1 \in DOMAIN pending /\ i + 1 # 1
    BY <1>3, <2>1, <2>2
  <2>4. ASSUME NEW i \in DOMAIN pending, i # 1 PROVE i - 1 \in DOMAIN pending' /\ pending'[i - 1] = pending[i]
    <3>1. i - 1 \in 1..Len(pending') /\ (i - 1) + 1 = i
      BY <1>3, <2>1, <2>4
    <3>2. pending'[i - 1] = pending[(i - 1) + 1]
      BY <2>1, <3>1
    <3>3. QED
      BY <2>2, <3>1, <3>2
  <2>5. QED
    BY <2>1, <2>2, <2>3, <2>4
<1>6. OneEach(pending')
  <2>1. ASSUME NEW i \in DOMAIN pending', NEW j \in DOMAIN pending', pending'[i].id = pending'[j].id
        PROVE  i = j
    <3>1. i + 1 = j + 1
      BY <1>2, <1>5, <2>1 DEF OneEach
    <3>2. i \in Nat /\ j \in Nat
      BY <1>5
    <3>3. QED
      BY <3>1, <3>2
  <2>2. QED
    BY <2>1 DEF OneEach
<1>7. \A i \in DOMAIN pending' : pending'[i].id # op.id
  BY <1>2, <1>4, <1>5 DEF OneEach
<1>8. /\ nodes' \in Seq(Node) /\ LiveOnce(nodes') /\ Len(nodes) <= Len(nodes')
      /\ \A i \in 1..Len(nodes) : nodes'[i].val = nodes[i].val
      /\ \A id \in Ids : VectorIn(nodes', id) = IF id = op.id THEN op.val ELSE VectorIn(nodes, id)
  <2>1. nodes' = ApplyOp(nodes, op)
    BY <1>1, <1>3
  <2> HIDE DEF op
  <2>2. QED
    BY <1>2, <1>4, <2>1, ApplyOpNodes
<1> HIDE DEF op
<1>9. Len(nodes) \in Nat /\ Len(nodes') \in Nat
  BY <1>2, <1>8, GraphTypes
<1>10. TypeOK'
  <2>1. base' \in 0..Len(nodes')
    BY <1>1, <1>2, <1>8, <1>9 DEF TypeOK
  <2>2. QED
    BY <1>1, <1>2, <1>5, <1>8, <2>1 DEF TypeOK
<1>11. QueueInv'
  BY <1>1, <1>6 DEF CacheInv, QueueInv, OneEach
<1>12. ASSUME NEW id \in Ids PROVE Serves(id)' = Serves(id)
  <2>1. CASE id = op.id
    <3>1. ServedBy(pending, nodes, id) = op.val
      BY <1>2, <1>4, <2>1, ServedPending DEF op
    <3>2. ServedBy(pending', nodes', id) = VectorIn(nodes', id)
      BY <1>7, <2>1, ServedGraph
    <3>3. QED
      BY <1>8, <2>1, <3>1, <3>2, ServesIs
  <2>2. CASE id # op.id /\ \E i \in DOMAIN pending : pending[i].id = id
    <3>1. PICK i \in DOMAIN pending : pending[i].id = id
      BY <2>2
    <3>2. i # 1
      BY <2>2, <3>1 DEF op
    <3>3. i - 1 \in DOMAIN pending' /\ pending'[i - 1] = pending[i]
      BY <1>5, <3>2
    <3>4. ServedBy(pending, nodes, id) = pending[i].val /\ ServedBy(pending', nodes', id) = pending'[i - 1].val
      BY <1>2, <1>6, <3>1, <3>3, ServedPending
    <3>5. QED
      BY <3>3, <3>4, ServesIs
  <2>3. CASE id # op.id /\ ~ \E i \in DOMAIN pending : pending[i].id = id
    <3>1. ~ \E i \in DOMAIN pending' : pending'[i].id = id
      BY <1>5, <2>3
    <3>2. ServedBy(pending, nodes, id) = VectorIn(nodes, id) /\ ServedBy(pending', nodes', id) = VectorIn(nodes', id)
      BY <2>3, <3>1, ServedGraph
    <3>3. QED
      BY <1>8, <2>3, <3>2, ServesIs
  <2>4. QED
    BY <2>1, <2>2, <2>3
<1>13. ServeInv'
  BY <1>1, <1>8, <1>12 DEF CacheInv, ServeInv, CacheNeverWrong
<1>14. SideInv'
  <2>1. ASSUME base > 0
        PROVE  /\ sidecar # None /\ base <= Len(sidecar) /\ Len(sidecar) <= Len(nodes')
               /\ \A i \in 1..Len(sidecar) : sidecar[i] = nodes'[i].val
    <3>1. /\ sidecar # None /\ base <= Len(sidecar) /\ Len(sidecar) <= Len(nodes)
          /\ \A i \in 1..Len(sidecar) : sidecar[i] = nodes[i].val
      BY <2>1 DEF CacheInv, SideInv
    <3>2. Len(sidecar) \in Nat
      BY <1>2, <3>1, SeqTypes, LenProperties
    <3>3. \A i \in 1..Len(sidecar) : i \in 1..Len(nodes)
      BY <1>9, <3>1, <3>2
    <3>4. QED
      BY <1>8, <1>9, <3>1, <3>2, <3>3
  <2>2. QED
    BY <1>1, <2>1 DEF SideInv
<1>15. PersistInv' /\ PairInv' /\ CompactInv'
  BY <1>1, OnItsWay DEF Settled
<1>16. QED
  BY <1>10, <1>11, <1>13, <1>14, <1>15 DEF CacheInv

-----------------------------------------------------------------------------
(* persist_graph.                                                          *)

\* What is served does not depend on either of the two background jobs.
LEMMA ServedAsBefore ==
  ASSUME CacheInv, UNCHANGED <<vecs, unpushed, pending, nodes>>
  PROVE  QueueInv' /\ ServeInv'
<1>1. \A id : Serves(id)' = Serves(id)
  BY ServesIs
<1>2. QED
  BY <1>1 DEF CacheInv, QueueInv, ServeInv, CacheNeverWrong

\* A step of a persist is none of a compaction.
LEMMA CompactAsBefore ==
  ASSUME CacheInv, UNCHANGED <<vecs, feedSeq, cpc, cseq, fresh, tries>>, used'.compactions = used.compactions
  PROVE  CompactInv'
<1>1. QED
  BY DEF CacheInv, CompactInv, Mirrors

\* The pair on disk is as good as it was.
LEMMA PairAsBefore ==
  ASSUME CacheInv, UNCHANGED <<vecs, feedSeq, blob, sidecar, unpushed, pending, nodes>>,
         used'.compactions = 0 => used.compactions = 0,
         ppc = "flushed" => ppc' = "flushed"
  PROVE  PairInv'
<1>1. ASSUME blob # None, blob.seq = feedSeq, ppc' # "flushed" \/ used'.compactions = 0
      PROVE  GoodPair(blob.nodes, sidecar)'
  <2>1. GoodPair(blob.nodes, sidecar)
    BY <1>1 DEF CacheInv, PairInv
  <2>2. QED
    BY <2>1 DEF GoodPair, Mirrors, Settled
<1>2. QED
  BY <1>1 DEF PairInv

\* A persist starts with nothing on its way.
LEMMA PersistLockInv == ASSUME Shut, CacheInv, PersistLock PROVE CacheInv'
<1>1. /\ ppc = "idle" /\ ppc' = "locked" /\ unpushed = None /\ pending = <<>>
      /\ used' = [used EXCEPT !.persists = @ + 1]
      /\ UNCHANGED <<vecs, feedSeq, blob, sidecar, unpushed, pending, nodes, base, pcap, cpc, cseq, fresh, tries>>
  BY DEF PersistLock, Spend, durable, compactVars, Shut
<1>2. TypeOK
  BY DEF CacheInv
<1>3. /\ used' \in [commits : Nat, persists : Nat, compactions : Nat, restarts : Nat]
      /\ used'.compactions = used.compactions
  BY <1>1, <1>2, SpendTypes
<1>4. TypeOK'
  BY <1>1, <1>2, <1>3 DEF TypeOK
<1>5. QueueInv' /\ ServeInv' /\ CompactInv' /\ PairInv'
  BY <1>1, <1>3, ServedAsBefore, CompactAsBefore, PairAsBefore
<1>6. SideInv' /\ PersistInv'
  BY <1>1 DEF CacheInv, SideInv, PersistInv, Settled
<1>7. QED
  BY <1>4, <1>5, <1>6 DEF CacheInv

\* It captures the structure at the live sequence.
LEMMA PersistCaptureInv == ASSUME CacheInv, PersistCapture PROVE CacheInv'
<1>1. /\ ppc = "locked" /\ ppc' = "captured" /\ pcap' = [seq |-> feedSeq, nodes |-> Structure(nodes)]
      /\ UNCHANGED <<vecs, feedSeq, blob, sidecar, unpushed, pending, nodes, base, cpc, cseq, fresh, tries, used>>
  BY DEF PersistCapture, durable, compactVars
<1>2. TypeOK /\ Settled
  BY <1>1 DEF CacheInv, PersistInv
<1>3. /\ feedSeq \in Nat /\ Structure(nodes) \in Seq(BareNode)
      /\ blob # None => blob.seq <= feedSeq
  BY <1>2, SeqTypes, PairedBack
<1>4. pcap'.seq = feedSeq /\ pcap'.nodes = Structure(nodes)
  BY <1>1
<1>5. TypeOK'
  <2>1. feedSeq \in 0..feedSeq
    BY <1>3
  <2>2. pcap' \in [seq : 0..feedSeq, nodes : Seq(BareNode)]
    BY <1>1, <1>3, <2>1
  <2>3. QED
    BY <1>1, <1>2, <2>2 DEF TypeOK
<1>6. QueueInv' /\ ServeInv' /\ CompactInv' /\ PairInv'
  BY <1>1, ServedAsBefore, CompactAsBefore, PairAsBefore
<1>7. SideInv'
  BY <1>1 DEF CacheInv, SideInv
<1>8. PersistInv'
  BY <1>1, <1>2, <1>3, <1>4 DEF PersistInv, Settled
<1>9. QED
  BY <1>5, <1>6, <1>7, <1>8 DEF CacheInv

\* Whether the sidecar is rewritten or kept, it ends up holding the graph's
\* vectors; and before any compaction a blob that is current stays paired with it.
LEMMA PersistVectorsInv == ASSUME CacheInv, PersistVectors PROVE CacheInv'
<1>1. /\ ppc = "captured" /\ ppc' = "flushed"
      /\ sidecar' = IF NeedsFlush THEN VectorsOf(nodes) ELSE sidecar
      /\ UNCHANGED <<vecs, feedSeq, blob, unpushed, pending, nodes, base, pcap, cpc, cseq, fresh, tries, used>>
  BY DEF PersistVectors, compactVars
<1>2. TypeOK /\ nodes \in Seq(Node) /\ Len(nodes) \in Nat /\ base \in Nat /\ base <= Len(nodes)
  BY SeqTypes DEF CacheInv
<1>3. pcap.nodes = Structure(nodes) /\ (pcap.seq = feedSeq => Settled)
  BY <1>1 DEF CacheInv, PersistInv
<1>4. /\ sidecar' # None /\ sidecar' \in Seq(Vals) /\ Len(sidecar') = Len(nodes)
      /\ \A i \in 1..Len(nodes) : sidecar'[i] = nodes[i].val
  <2>1. CASE NeedsFlush
    <3>1. sidecar' = VectorsOf(nodes)
      BY <1>1, <2>1
    <3>2. sidecar' \in Seq(Vals) /\ Len(sidecar') = Len(nodes)
      BY <1>2, <3>1, PairedBack
    <3>3. DOMAIN nodes = 1..Len(nodes)
      BY <1>2, GraphTypes
    <3>4. \A i \in 1..Len(nodes) : sidecar'[i] = nodes[i].val
      BY <3>1, <3>3 DEF VectorsOf
    <3>5. QED
      BY <3>2, <3>4, NothingDistinct
  <2>2. CASE ~NeedsFlush
    <3>1. sidecar' = sidecar /\ base > 0 /\ base = Len(nodes)
      BY <1>1, <1>2, <2>2 DEF NeedsFlush
    <3>2. /\ sidecar # None /\ base <= Len(sidecar) /\ Len(sidecar) <= Len(nodes)
          /\ \A i \in 1..Len(sidecar) : sidecar[i] = nodes[i].val
      BY <3>1 DEF CacheInv, SideInv
    <3>3. sidecar \in Seq(Vals) /\ Len(sidecar) \in Nat
      BY <1>2, <3>2, SeqTypes, LenProperties
    <3>4. Len(sidecar) = Len(nodes)
      BY <1>2, <3>1, <3>2, <3>3
    <3>5. QED
      BY <3>1, <3>2, <3>3, <3>4
  <2>3. QED
    BY <2>1, <2>2
<1>5. TypeOK'
  BY <1>1, <1>2, <1>4 DEF TypeOK
<1>6. QueueInv' /\ ServeInv' /\ CompactInv'
  BY <1>1, ServedAsBefore, CompactAsBefore
<1>7. SideInv'
  BY <1>1, <1>2, <1>4 DEF SideInv
<1>8. PersistInv'
  <2>1. ASSUME pcap.seq = feedSeq PROVE GoodPair(pcap.nodes, sidecar)'
    <3>1. Settled /\ Mirrors(nodes)
      BY <1>3, <2>1, SettledMirrors DEF CacheInv
    <3>2. DOMAIN sidecar' = DOMAIN nodes /\ DOMAIN nodes = 1..Len(nodes)
      BY <1>2, <1>4, LenProperties
    <3>3. Paired(Structure(nodes), sidecar') = nodes /\ Len(Structure(nodes)) = Len(nodes)
      BY <1>2, <1>4, <3>2, PairedBack
    <3>4. QED
      BY <1>1, <1>3, <1>4, <3>1, <3>3 DEF GoodPair, Mirrors, Settled
  <2>2. blob # None => blob.seq <= pcap.seq
    BY <1>1 DEF CacheInv, PersistInv
  <2>3. QED
    BY <1>1, <2>1, <2>2 DEF PersistInv
<1>9. PairInv'
  <2>1. ASSUME blob # None, blob.seq = feedSeq, used.compactions = 0 PROVE GoodPair(blob.nodes, sidecar)'
    <3>1. GoodPair(blob.nodes, sidecar) /\ nodes = Paired(blob.nodes, sidecar)
      BY <1>1, <2>1 DEF CacheInv, PairInv, GoodPair
    <3>2. sidecar \in Seq(Vals) /\ blob.nodes \in Seq(BareNode) /\ Len(sidecar) = Len(blob.nodes)
      BY <1>2, <2>1, <3>1, SeqTypes DEF GoodPair
    <3>3. Len(nodes) = Len(sidecar) /\ \A i \in 1..Len(sidecar) : nodes[i].val = sidecar[i]
      BY <3>1, <3>2, PairedNodes
    <3>4. sidecar' = sidecar
      BY <1>4, <3>2, <3>3, SeqEqual
    <3>5. QED
      BY <1>1, <3>1, <3>4 DEF GoodPair, Mirrors, Settled
  <2>2. QED
    BY <1>1, <2>1 DEF PairInv
<1>10. QED
  BY <1>5, <1>6, <1>7, <1>8, <1>9 DEF CacheInv

\* The blob is committed only if its tag is still current.
LEMMA PersistBlobInv == ASSUME CacheInv, PersistBlob PROVE CacheInv'
<1>1. /\ ppc = "flushed" /\ ppc' = "idle" /\ pcap' = Nothing
      /\ blob' = IF feedSeq = pcap.seq THEN pcap ELSE blob
      /\ UNCHANGED <<vecs, feedSeq, sidecar, unpushed, pending, nodes, base, cpc, cseq, fresh, tries, used>>
  BY DEF PersistBlob, compactVars
<1>2. TypeOK
  BY DEF CacheInv
<1>3. TypeOK'
  <2>1. blob' \in [seq : 0..feedSeq, nodes : Seq(BareNode)] \cup {None}
    BY <1>1, <1>2 DEF TypeOK
  <2>2. pcap' \in [seq : 0..feedSeq, nodes : Seq(BareNode)]
    BY <1>1, <1>2, EmptySeq DEF TypeOK, Nothing
  <2>3. QED
    BY <1>1, <1>2, <2>1, <2>2 DEF TypeOK
<1>4. QueueInv' /\ ServeInv' /\ CompactInv'
  BY <1>1, ServedAsBefore, CompactAsBefore
<1>5. SideInv' /\ PersistInv'
  BY <1>1 DEF CacheInv, SideInv, PersistInv
<1>6. PairInv'
  <2>1. CASE feedSeq = pcap.seq
    <3>1. GoodPair(pcap.nodes, sidecar) /\ blob' = pcap
      BY <1>1, <2>1 DEF CacheInv, PersistInv
    <3>2. GoodPair(blob.nodes, sidecar)'
      BY <1>1, <3>1 DEF GoodPair, Mirrors, Settled
    <3>3. QED
      BY <3>2 DEF PairInv
  <2>2. CASE feedSeq # pcap.seq
    <3>1. blob' = blob /\ (blob # None => blob.seq <= pcap.seq)
      BY <1>1, <2>2 DEF CacheInv, PersistInv
    <3>2. blob # None => blob.seq # feedSeq
      BY <1>2, <2>2, <3>1, SeqTypes
    <3>3. QED
      BY <1>1, <3>1, <3>2 DEF PairInv
  <2>3. QED
    BY <2>1, <2>2
<1>7. QED
  BY <1>3, <1>4, <1>5, <1>6 DEF CacheInv

-----------------------------------------------------------------------------
(* compact_graph.                                                          *)

\* Until it swaps, a compaction touches nothing but its own variables.
LEMMA CompactQuiet ==
  ASSUME CacheInv, used'.compactions = 0 => used.compactions = 0,
         UNCHANGED <<vecs, feedSeq, blob, sidecar, unpushed, pending, nodes, base, ppc, pcap>>
  PROVE  QueueInv' /\ ServeInv' /\ SideInv' /\ PersistInv' /\ PairInv'
<1>1. QueueInv' /\ ServeInv' /\ PairInv'
  BY ServedAsBefore, PairAsBefore
<1>2. SideInv'
  BY DEF CacheInv, SideInv
<1>3. PersistInv'
  <2>1. ASSUME ppc = "flushed", pcap.seq = feedSeq PROVE GoodPair(pcap.nodes, sidecar)'
    <3>1. GoodPair(pcap.nodes, sidecar)
      BY <2>1 DEF CacheInv, PersistInv
    <3>2. QED
      BY <3>1 DEF GoodPair, Mirrors, Settled
  <2>2. QED
    BY <2>1 DEF CacheInv, PersistInv, Settled
<1>4. QED
  BY <1>1, <1>2, <1>3

\* A compaction is counted when it begins.
LEMMA CompactBeginInv == ASSUME CacheInv, CompactBegin PROVE CacheInv'
<1>1. /\ cpc = "idle" /\ cpc' = "start" /\ tries' = 0 /\ used' = [used EXCEPT !.compactions = @ + 1]
      /\ UNCHANGED <<vecs, feedSeq, blob, sidecar, unpushed, pending, nodes, base, ppc, pcap, cseq, fresh>>
  BY DEF CompactBegin, Spend, durable, persistVars
<1>2. TypeOK
  BY DEF CacheInv
<1>3. /\ used' \in [commits : Nat, persists : Nat, compactions : Nat, restarts : Nat]
      /\ used'.compactions # 0
  BY <1>1, <1>2, SpendTypes
<1>4. CompactAttempts \in Nat /\ 0 \in 0..CompactAttempts /\ 0 < CompactAttempts
  BY BoundsNat, TriesOnce
<1>5. TypeOK'
  BY <1>1, <1>2, <1>3, <1>4 DEF TypeOK
<1>6. CompactInv'
  BY <1>1, <1>3, <1>4 DEF CompactInv
<1>7. QED
  BY <1>1, <1>3, <1>5, <1>6, CompactQuiet DEF CacheInv

\* It reads the sequence.
LEMMA CompactReadInv == ASSUME CacheInv, CompactRead PROVE CacheInv'
<1>1. /\ cpc = "start" /\ cpc' = "building" /\ cseq' = feedSeq
      /\ UNCHANGED <<vecs, feedSeq, blob, sidecar, unpushed, pending, nodes, base, ppc, pcap, fresh, tries, used>>
  BY DEF CompactRead, durable, persistVars
<1>2. TypeOK /\ feedSeq \in 0..feedSeq
  BY SeqTypes DEF CacheInv
<1>3. TypeOK'
  BY <1>1, <1>2 DEF TypeOK
<1>4. CompactInv'
  BY <1>1 DEF CacheInv, CompactInv
<1>5. QED
  BY <1>1, <1>3, <1>4, CompactQuiet DEF CacheInv

\* What it builds is the durable vectors of that moment.
LEMMA CompactBuildInv == ASSUME CacheInv, CompactBuild PROVE CacheInv'
<1>1. /\ cpc = "building" /\ cpc' = "built" /\ fresh' = Rebuilt
      /\ UNCHANGED <<vecs, feedSeq, blob, sidecar, unpushed, pending, nodes, base, ppc, pcap, cseq, tries, used>>
  BY DEF CompactBuild, durable, persistVars
<1>2. TypeOK /\ Rebuilt \in Seq(Node) /\ Mirrors(Rebuilt)
  BY RebuiltMirrors DEF CacheInv
<1>3. TypeOK'
  BY <1>1, <1>2 DEF TypeOK
<1>4. Mirrors(fresh)'
  BY <1>1, <1>2 DEF Mirrors
<1>5. CompactInv'
  BY <1>1, <1>4 DEF CacheInv, CompactInv
<1>6. QED
  BY <1>1, <1>3, <1>5, CompactQuiet DEF CacheInv

\* It goes on to the swap only at the sequence it read, and gives up in time.
LEMMA CompactCheckInv == ASSUME CacheInv, CompactCheck PROVE CacheInv'
<1>1. /\ cpc = "built"
      /\ UNCHANGED <<vecs, feedSeq, blob, sidecar, unpushed, pending, nodes, base, ppc, pcap, cseq, fresh, used>>
  BY DEF CompactCheck, durable, persistVars
<1>2. TypeOK /\ tries < CompactAttempts /\ used.compactions # 0
  BY <1>1 DEF CacheInv, CompactInv
<1>3. CompactAttempts \in Nat /\ tries \in 0..CompactAttempts
  BY <1>2, BoundsNat DEF TypeOK
<1>4. CASE pending = <<>> /\ feedSeq = cseq
  <2>1. cpc' = "swap" /\ tries' = tries
    BY <1>4 DEF CompactCheck
  <2>2. Mirrors(fresh)'
    BY <1>1, <1>4 DEF CacheInv, CompactInv, Mirrors
  <2>3. TypeOK'
    BY <1>1, <1>2, <2>1 DEF TypeOK
  <2>4. CompactInv'
    BY <1>1, <1>2, <2>1, <2>2 DEF CompactInv
  <2>5. QED
    BY <1>1, <2>3, <2>4, CompactQuiet DEF CacheInv
<1>5. CASE ~(pending = <<>> /\ feedSeq = cseq)
  <2>1. tries' = tries + 1 /\ cpc' = IF tries' < CompactAttempts THEN "start" ELSE "idle"
    BY <1>5 DEF CompactCheck
  <2>2. tries' \in 0..CompactAttempts
    BY <1>2, <1>3, <2>1
  <2>3. TypeOK'
    BY <1>1, <1>2, <2>1, <2>2 DEF TypeOK
  <2>4. CompactInv'
    BY <1>1, <1>2, <2>1 DEF CompactInv
  <2>5. QED
    BY <1>1, <2>3, <2>4, CompactQuiet DEF CacheInv
<1>6. QED
  BY <1>4, <1>5

\* The graph it swaps in serves what the old one and its queue did.
LEMMA CompactSwapInv == ASSUME CacheInv, CompactSwap PROVE CacheInv'
<1>1. /\ cpc = "swap" /\ cpc' = "idle" /\ ppc \notin {"locked", "captured"} /\ nodes' = fresh /\ base' = 0
      /\ UNCHANGED <<vecs, feedSeq, blob, sidecar, unpushed, pending, ppc, pcap, cseq, fresh, tries, used>>
  BY DEF CompactSwap, durable, persistVars
<1>2. TypeOK /\ used.compactions # 0 /\ Mirrors(fresh) /\ fresh \in Seq(Node) /\ OneEach(pending)
  BY <1>1 DEF CacheInv, CompactInv, TypeOK, QueueInv, OneEach
<1>3. TypeOK'
  <2>1. 0 \in 0..Len(fresh)
    BY <1>2, LenProperties
  <2>2. QED
    BY <1>1, <1>2, <2>1 DEF TypeOK
<1>4. QueueInv' /\ SideInv' /\ CompactInv'
  BY <1>1 DEF CacheInv, QueueInv, SideInv, CompactInv
<1>5. ASSUME NEW id \in Ids PROVE (unpushed # None /\ unpushed.id = id) \/ Serves(id)' = vecs[id]
  <2>1. CASE \E i \in DOMAIN pending : pending[i].id = id
    <3>1. ServedBy(pending', nodes', id) = ServedBy(pending, nodes, id)
      BY <1>1, <2>1 DEF ServedBy
    <3>2. QED
      BY <3>1, ServesIs DEF CacheInv, ServeInv, CacheNeverWrong
  <2>2. CASE ~ \E i \in DOMAIN pending : pending[i].id = id
    <3>1. ServedBy(pending', nodes', id) = VectorIn(fresh, id)
      BY <1>1, <2>2, ServedGraph
    <3>2. QED
      BY <1>2, <3>1, ServesIs DEF Mirrors
  <2>3. QED
    BY <2>1, <2>2
<1>6. ServeInv'
  BY <1>1, <1>2, <1>5 DEF ServeInv, CacheNeverWrong, Mirrors
<1>7. PersistInv'
  <2>1. ASSUME ppc = "flushed", pcap.seq = feedSeq PROVE GoodPair(pcap.nodes, sidecar)'
    <3>1. GoodPair(pcap.nodes, sidecar)
      BY <2>1 DEF CacheInv, PersistInv
    <3>2. QED
      BY <1>1, <1>2, <3>1 DEF GoodPair, Mirrors
  <2>2. QED
    BY <1>1, <2>1 DEF CacheInv, PersistInv
<1>8. PairInv'
  <2>1. ASSUME blob # None, blob.seq = feedSeq, ppc # "flushed" PROVE GoodPair(blob.nodes, sidecar)'
    <3>1. GoodPair(blob.nodes, sidecar)
      BY <2>1 DEF CacheInv, PairInv
    <3>2. QED
      BY <1>1, <1>2, <3>1 DEF GoodPair, Mirrors
  <2>2. QED
    BY <1>1, <1>2, <2>1 DEF PairInv
<1>9. QED
  BY <1>3, <1>4, <1>6, <1>7, <1>8 DEF CacheInv

-----------------------------------------------------------------------------
(* A crash.                                                                *)

\* Outside a persist, or before any compaction, a blob that carries the live
\* sequence is loadable, and the pair is a graph of the durable vectors.
LEMMA TaggedIsGood ==
  ASSUME CacheInv, blob # None, blob.seq = feedSeq, ppc = "idle" \/ used.compactions = 0
  PROVE  Loadable /\ GoodPair(blob.nodes, sidecar)
<1>1. GoodPair(blob.nodes, sidecar)
  BY DEF CacheInv, PairInv
<1>2. Loadable
  BY <1>1 DEF Loadable, GoodPair
<1>3. QED
  BY <1>1, <1>2

\* An open serves the durable vectors, from the pair or from a rebuild.
LEMMA RestartInv == ASSUME Shut, CacheInv, Restart PROVE CacheInv'
<1>1. /\ ppc = "idle" \/ used.compactions = 0
      /\ nodes' = IF Loadable THEN Loaded ELSE Rebuilt
      /\ base' = IF Loadable THEN Len(blob.nodes) ELSE 0
      /\ unpushed' = None /\ pending' = <<>> /\ ppc' = "idle" /\ pcap' = Nothing
      /\ cpc' = "idle" /\ cseq' = 0 /\ fresh' = <<>> /\ tries' = 0
      /\ used' = [used EXCEPT !.restarts = @ + 1]
      /\ UNCHANGED <<vecs, feedSeq, blob, sidecar>>
  BY DEF Restart, Spend, durable, Shut
<1>2. TypeOK
  BY DEF CacheInv
<1>3. /\ used' \in [commits : Nat, persists : Nat, compactions : Nat, restarts : Nat]
      /\ used'.compactions = used.compactions
  BY <1>1, <1>2, SpendTypes
<1>4. Settled'
  BY <1>1 DEF Settled
<1>5. /\ nodes' \in Seq(Node) /\ LiveOnce(nodes') /\ \A id \in Ids : VectorIn(nodes', id) = vecs'[id]
      /\ base' \in 0..Len(nodes') /\ SideInv' /\ PairInv'
  <2>1. CASE Loadable
    <3>1. blob # None /\ blob.seq = feedSeq /\ GoodPair(blob.nodes, sidecar)
      BY <1>1, <2>1, TaggedIsGood DEF Loadable
    <3>2. /\ sidecar # None /\ sidecar \in Seq(Vals) /\ blob.nodes \in Seq(BareNode)
          /\ Len(sidecar) = Len(blob.nodes) /\ Mirrors(Paired(blob.nodes, sidecar))
      BY <1>2, <3>1, SeqTypes DEF GoodPair
    <3>3. nodes' = Paired(blob.nodes, sidecar) /\ base' = Len(blob.nodes)
      BY <1>1, <2>1 DEF Loaded, Paired
    <3>4. /\ nodes' \in Seq(Node) /\ Len(nodes') = Len(blob.nodes)
          /\ \A i \in 1..Len(sidecar) : nodes'[i].val = sidecar[i]
      BY <3>2, <3>3, PairedNodes
    <3>5. Len(blob.nodes) \in Nat
      BY <3>2, LenProperties
    <3>6. LiveOnce(nodes') /\ \A id \in Ids : VectorIn(nodes', id) = vecs'[id]
      BY <1>1, <3>2, <3>3 DEF Mirrors
    <3>7. base' \in 0..Len(nodes')
      BY <3>3, <3>4, <3>5
    <3>8. SideInv'
      BY <1>1, <3>2, <3>3, <3>4, <3>5 DEF SideInv
    <3>9. GoodPair(blob.nodes, sidecar)'
      BY <1>1, <1>4, <3>2, <3>3 DEF GoodPair, Mirrors
    <3>10. QED
      BY <3>4, <3>6, <3>7, <3>8, <3>9 DEF PairInv
  <2>2. CASE ~Loadable
    <3>1. nodes' = Rebuilt /\ base' = 0 /\ Rebuilt \in Seq(Node) /\ Mirrors(Rebuilt)
      BY <1>1, <1>2, <2>2, RebuiltMirrors
    <3>2. blob # None => blob.seq # feedSeq
      BY <1>1, <2>2, TaggedIsGood
    <3>3. 0 \in 0..Len(nodes')
      BY <3>1, LenProperties
    <3>4. SideInv' /\ PairInv'
      BY <1>1, <3>1, <3>2 DEF SideInv, PairInv
    <3>5. QED
      BY <1>1, <3>1, <3>3, <3>4 DEF Mirrors
  <2>3. QED
    BY <2>1, <2>2
<1>6. /\ <<>> \in Seq(Node) /\ <<>> \in Seq(BareNode) /\ <<>> \in Seq(Ops) /\ DOMAIN <<>> = {}
  BY EmptySeq
<1>7. TypeOK'
  <2>1. 0 \in 0..feedSeq /\ 0 \in 0..CompactAttempts
    BY <1>2, SeqTypes, BoundsNat
  <2>2. pcap' \in [seq : 0..feedSeq, nodes : Seq(BareNode)]
    BY <1>1, <1>6, <2>1 DEF Nothing
  <2>3. QED
    BY <1>1, <1>2, <1>3, <1>5, <1>6, <2>1, <2>2 DEF TypeOK
<1>8. QueueInv'
  BY <1>1, <1>6 DEF QueueInv
<1>9. ServeInv'
  <2>1. \A id \in Ids : ServedBy(pending', nodes', id) = VectorIn(nodes', id)
    BY <1>1, <1>6, ServedGraph
  <2>2. QED
    BY <1>5, <2>1, ServesIs DEF ServeInv, CacheNeverWrong
<1>10. PersistInv' /\ CompactInv'
  BY <1>1 DEF PersistInv, CompactInv
<1>11. QED
  BY <1>5, <1>7, <1>8, <1>9, <1>10 DEF CacheInv

-----------------------------------------------------------------------------
(* The theorems.                                                           *)

\* A step that changes nothing.
LEMMA StutterInv == ASSUME CacheInv, UNCHANGED vars PROVE CacheInv'
<1>1. UNCHANGED <<vecs, feedSeq, blob, sidecar, unpushed, pending, nodes, base, ppc, pcap, cpc, cseq, fresh, tries, used>>
  BY DEF vars, durable, persistVars, compactVars
<1>2. TypeOK'
  BY <1>1 DEF CacheInv, TypeOK
<1>3. CompactInv'
  BY <1>1, CompactAsBefore
<1>4. QED
  BY <1>1, <1>2, <1>3, CompactQuiet DEF CacheInv

\* The invariant is kept by every step of the specification.
LEMMA StepInv == ASSUME Shut PROVE CacheInv /\ [Next]_vars => CacheInv'
<1>1. SUFFICES ASSUME CacheInv, [Next]_vars PROVE CacheInv'
  OBVIOUS
<1>2. CASE Commit
  BY <1>1, <1>2, CommitInv
<1>3. CASE MutatePayload
  BY <1>1, <1>3, MutateInv
<1>4. CASE Push
  BY <1>1, <1>4, PushInv
<1>5. CASE Apply
  BY <1>1, <1>5, ApplyInv
<1>6. CASE PersistLock
  BY <1>1, <1>6, PersistLockInv
<1>7. CASE PersistCapture
  BY <1>1, <1>7, PersistCaptureInv
<1>8. CASE PersistVectors
  BY <1>1, <1>8, PersistVectorsInv
<1>9. CASE PersistBlob
  BY <1>1, <1>9, PersistBlobInv
<1>10. CASE CompactBegin
  BY <1>1, <1>10, CompactBeginInv
<1>11. CASE CompactRead
  BY <1>1, <1>11, CompactReadInv
<1>12. CASE CompactBuild
  BY <1>1, <1>12, CompactBuildInv
<1>13. CASE CompactCheck
  BY <1>1, <1>13, CompactCheckInv
<1>14. CASE CompactSwap
  BY <1>1, <1>14, CompactSwapInv
<1>15. CASE Restart
  BY <1>1, <1>15, RestartInv
<1>16. CASE UNCHANGED vars
  BY <1>1, <1>16, StutterInv
<1>17. QED
  BY <1>1, <1>2, <1>3, <1>4, <1>5, <1>6, <1>7, <1>8, <1>9, <1>10, <1>11, <1>12, <1>13, <1>14,
     <1>15, <1>16 DEF Next

\* CacheInv holds of every behaviour in which the three windows stay shut.
THEOREM CacheInvariant == ASSUME Shut PROVE Spec => []CacheInv
<1>1. CacheInv /\ [Next]_vars => CacheInv'
  BY StepInv
<1>2. QED
  BY InitInv, <1>1, PTL DEF Spec

\* Every variable keeps its type; in particular no tag is ever ahead of the
\* changefeed, and a compaction never rebuilds more often than it may.
THEOREM TypeCorrect == ASSUME Shut PROVE Spec => []TypeOK
<1>1. CacheInv => TypeOK
  BY DEF CacheInv
<1>2. QED
  BY CacheInvariant, <1>1, PTL

\* The cache is never wrong: whatever was persisted, swapped in or interrupted by
\* a crash, the graph that open_with, the applier and compact_graph leave in
\* memory serves, with its pending operations, the durable vector of every id.
THEOREM CacheIsTrue == ASSUME Shut PROVE Spec => []CacheNeverWrong
<1>1. CacheInv => CacheNeverWrong
  BY DEF CacheInv, ServeInv
<1>2. QED
  BY CacheInvariant, <1>1, PTL

\* A persist pays off: between persists, a blob that carries the live sequence is
\* one load_persisted_graph accepts.
THEOREM PersistPaysOff == ASSUME Shut PROVE Spec => []RestartLoads
<1>1. CacheInv => RestartLoads
  BY TaggedIsGood DEF RestartLoads
<1>2. QED
  BY CacheInvariant, <1>1, PTL

----------------------------------------------------------------------------
(* Steps one after the other: what holds of each after the one before       *)
(* holds at the end.                                                        *)

\* Through N steps, from W[i - 1] into W[i] each.
LeadsOn(G, N, W) == \A i \in 1..N : \A x \in W[i - 1] : G[<<i, x>>] \in W[i]

LEMMA ThreadedOn ==
  ASSUME NEW N \in Nat, NEW W, NEW v0 \in W[0], NEW V, V = UNION {W[i] : i \in 0..N},
         NEW G \in StepFns(N, V), LeadsOn(G, N, W)
  PROVE  \E f : IsThread(f, N, V, v0, G) /\ \A i \in 0..N : f[i] \in W[i]
<1>1. v0 \in V
  <2>1. 0 \in 0..N
    OBVIOUS
  <2>2. QED
    BY <2>1
<1>2. PICK f : IsThread(f, N, V, v0, G)
  BY <1>1, Threaded
<1>3. f[0] = v0 /\ \A i \in 1..N : f[i] = G[<<i, f[i - 1]>>]
  BY <1>2 DEF IsThread
<1> DEFINE P == {i \in 0..N : f[i] \in W[i]}
<1>4. 0 \in P
  BY <1>3
<1>5. \A i \in 1..N : i - 1 \in P => i \in P
  <2>1. \A i \in 1..N : i \in 0..N
    OBVIOUS
  <2>2. QED
    BY <1>3, <2>1 DEF LeadsOn
<1> HIDE DEF P
<1>6. \A i \in 0..N : i \in P
  BY <1>4, <1>5, Inductive
<1>7. QED
  BY <1>2, <1>6 DEF P

\* greedy_at takes one step after the other.
LEMMA WalkUnfolds ==
  ASSUME NEW g, NEW q, NEW cur, NEW layer, Len(g.ln) \in Nat, NEW W, cur \in W[0],
         \A i \in 1..Len(g.ln) : \A x \in W[i - 1] : Nearer(g, q, layer, x) \in W[i]
  PROVE  greedy_at(g, q, cur, layer) \in W[Len(g.ln)]
<1> DEFINE N == Len(g.ln)
           Body(c) == [i \in 0..N |-> IF i = 0 THEN cur ELSE Nearer(g, q, layer, c[i - 1])]
           at == CHOOSE c : c = Body(c)
           V == UNION {W[i] : i \in 0..N}
           G == [p \in (1..N) \X V |->
                   IF p[2] \in W[p[1] - 1] THEN Nearer(g, q, layer, p[2]) ELSE cur]
<1>1. greedy_at(g, q, cur, layer) = at[N]
  BY DEF greedy_at
<1>2. N \in Nat /\ \A i \in 1..N : i \in 0..N /\ i - 1 \in 0..N /\ i # 0
  OBVIOUS
<1>3. /\ \A i \in 1..N : \A x \in W[i - 1] : Nearer(g, q, layer, x) \in W[i]
      /\ cur \in W[0]
  OBVIOUS
<1> HIDE DEF N, at
<1>4. /\ \A i \in 1..N : \A x \in W[i - 1] : x \in V /\ Nearer(g, q, layer, x) \in V
      /\ cur \in V
  <2>1. 0 \in 0..N
    BY <1>2
  <2>2. QED
    BY <1>2, <1>3, <2>1
<1> HIDE DEF V
<1>5. /\ G \in StepFns(N, V)
      /\ \A i \in 1..N : \A x \in W[i - 1] : G[<<i, x>>] = Nearer(g, q, layer, x)
  BY <1>4 DEF StepFns
<1> HIDE DEF G
<1>6. LeadsOn(G, N, W)
  BY <1>3, <1>5 DEF LeadsOn
<1>7. PICK f : IsThread(f, N, V, cur, G) /\ \A i \in 0..N : f[i] \in W[i]
  BY <1>2, <1>3, <1>5, <1>6, ThreadedOn DEF V
<1>8. f \in [0..N -> V] /\ f[0] = cur /\ \A i \in 1..N : f[i] = Nearer(g, q, layer, f[i - 1])
  BY <1>2, <1>5, <1>7 DEF IsThread
<1>9. f = Body(f)
  <2>1. ASSUME NEW i \in 0..N, i # 0 PROVE f[i] = Nearer(g, q, layer, f[i - 1])
    <3>1. i \in 1..N
      BY <1>2, <2>1
    <3>2. QED
      BY <1>8, <3>1
  <2>2. f = [i \in 0..N |-> f[i]]
    BY <1>8
  <2>3. QED
    BY <1>8, <2>1, <2>2
<1>10. at = Body(at)
  BY <1>9 DEF at
<1>11. at[0] = cur /\ \A i \in 1..N : at[i] = Nearer(g, q, layer, at[i - 1])
  <2>1. 0 \in 0..N
    BY <1>2
  <2>2. QED
    BY <1>2, <1>10, <2>1
<1> DEFINE P == {i \in 0..N : at[i] \in W[i]}
<1>12. 0 \in P
  BY <1>2, <1>3, <1>11
<1>13. \A i \in 1..N : i - 1 \in P => i \in P
  BY <1>2, <1>3, <1>11
<1> HIDE DEF P
<1>14. \A i \in 0..N : i \in P
  BY <1>2, <1>12, <1>13, Inductive
<1>15. QED
  <2>1. N \in 0..N
    BY <1>2
  <2>2. at[N] \in W[N]
    BY <1>14, <2>1 DEF P
  <2>3. QED
    BY <1>1, <2>2 DEF N

\* The descent goes layer by layer.
LEMMA DescendedUnfolds ==
  ASSUME NEW g, NEW q, NEW from, NEW top, NEW above, (top - above) \in Nat, NEW W, from \in W[0],
         \A i \in 1..(top - above) : \A x \in W[i - 1] : greedy_at(g, q, x, top + 1 - i) \in W[i]
  PROVE  Descended(g, q, from, top, above) \in W[(top - above)]
<1> DEFINE N == (top - above)
           Body(c) == [i \in 0..N |-> IF i = 0 THEN from ELSE greedy_at(g, q, c[i - 1], top + 1 - i)]
           at == CHOOSE c : c = Body(c)
           V == UNION {W[i] : i \in 0..N}
           G == [p \in (1..N) \X V |->
                   IF p[2] \in W[p[1] - 1] THEN greedy_at(g, q, p[2], top + 1 - p[1]) ELSE from]
<1>1. Descended(g, q, from, top, above) = at[N]
  BY DEF Descended
<1>2. N \in Nat /\ \A i \in 1..N : i \in 0..N /\ i - 1 \in 0..N /\ i # 0
  OBVIOUS
<1>3. /\ \A i \in 1..N : \A x \in W[i - 1] : greedy_at(g, q, x, top + 1 - i) \in W[i]
      /\ from \in W[0]
  OBVIOUS
<1> HIDE DEF N, at
<1>4. /\ \A i \in 1..N : \A x \in W[i - 1] : x \in V /\ greedy_at(g, q, x, top + 1 - i) \in V
      /\ from \in V
  <2>1. 0 \in 0..N
    BY <1>2
  <2>2. QED
    BY <1>2, <1>3, <2>1
<1> HIDE DEF V
<1>5. /\ G \in StepFns(N, V)
      /\ \A i \in 1..N : \A x \in W[i - 1] : G[<<i, x>>] = greedy_at(g, q, x, top + 1 - i)
  BY <1>4 DEF StepFns
<1> HIDE DEF G
<1>6. LeadsOn(G, N, W)
  BY <1>3, <1>5 DEF LeadsOn
<1>7. PICK f : IsThread(f, N, V, from, G) /\ \A i \in 0..N : f[i] \in W[i]
  BY <1>2, <1>3, <1>5, <1>6, ThreadedOn DEF V
<1>8. f \in [0..N -> V] /\ f[0] = from /\ \A i \in 1..N : f[i] = greedy_at(g, q, f[i - 1], top + 1 - i)
  BY <1>2, <1>5, <1>7 DEF IsThread
<1>9. f = Body(f)
  <2>1. ASSUME NEW i \in 0..N, i # 0 PROVE f[i] = greedy_at(g, q, f[i - 1], top + 1 - i)
    <3>1. i \in 1..N
      BY <1>2, <2>1
    <3>2. QED
      BY <1>8, <3>1
  <2>2. f = [i \in 0..N |-> f[i]]
    BY <1>8
  <2>3. QED
    BY <1>8, <2>1, <2>2
<1>10. at = Body(at)
  BY <1>9 DEF at
<1>11. at[0] = from /\ \A i \in 1..N : at[i] = greedy_at(g, q, at[i - 1], top + 1 - i)
  <2>1. 0 \in 0..N
    BY <1>2
  <2>2. QED
    BY <1>2, <1>10, <2>1
<1> DEFINE P == {i \in 0..N : at[i] \in W[i]}
<1>12. 0 \in P
  BY <1>2, <1>3, <1>11
<1>13. \A i \in 1..N : i - 1 \in P => i \in P
  BY <1>2, <1>3, <1>11
<1> HIDE DEF P
<1>14. \A i \in 0..N : i \in P
  BY <1>2, <1>12, <1>13, Inductive
<1>15. QED
  <2>1. N \in 0..N
    BY <1>2
  <2>2. at[N] \in W[N]
    BY <1>14, <2>1 DEF P
  <2>3. QED
    BY <1>1, <2>2 DEF N

\* Neighbours are met one after the other.
LEMMA MeetAllUnfolds ==
  ASSUME NEW g, NEW q, NEW ef, NEW admit, NEW b, NEW nbs, Len(nbs) \in Nat, NEW W, b \in W[0],
         \A i \in 1..Len(nbs) : \A x \in W[i - 1] : Meet(g, q, ef, admit, x, nbs[i]) \in W[i]
  PROVE  MeetAll(g, q, ef, admit, b, nbs) \in W[Len(nbs)]
<1> DEFINE N == Len(nbs)
           Body(c) == [i \in 0..N |-> IF i = 0 THEN b ELSE Meet(g, q, ef, admit, c[i - 1], nbs[i])]
           at == CHOOSE c : c = Body(c)
           V == UNION {W[i] : i \in 0..N}
           G == [p \in (1..N) \X V |->
                   IF p[2] \in W[p[1] - 1] THEN Meet(g, q, ef, admit, p[2], nbs[p[1]]) ELSE b]
<1>1. MeetAll(g, q, ef, admit, b, nbs) = at[N]
  BY DEF MeetAll
<1>2. N \in Nat /\ \A i \in 1..N : i \in 0..N /\ i - 1 \in 0..N /\ i # 0
  OBVIOUS
<1>3. /\ \A i \in 1..N : \A x \in W[i - 1] : Meet(g, q, ef, admit, x, nbs[i]) \in W[i]
      /\ b \in W[0]
  OBVIOUS
<1> HIDE DEF N, at
<1>4. /\ \A i \in 1..N : \A x \in W[i - 1] : x \in V /\ Meet(g, q, ef, admit, x, nbs[i]) \in V
      /\ b \in V
  <2>1. 0 \in 0..N
    BY <1>2
  <2>2. QED
    BY <1>2, <1>3, <2>1
<1> HIDE DEF V
<1>5. /\ G \in StepFns(N, V)
      /\ \A i \in 1..N : \A x \in W[i - 1] : G[<<i, x>>] = Meet(g, q, ef, admit, x, nbs[i])
  BY <1>4 DEF StepFns
<1> HIDE DEF G
<1>6. LeadsOn(G, N, W)
  BY <1>3, <1>5 DEF LeadsOn
<1>7. PICK f : IsThread(f, N, V, b, G) /\ \A i \in 0..N : f[i] \in W[i]
  BY <1>2, <1>3, <1>5, <1>6, ThreadedOn DEF V
<1>8. f \in [0..N -> V] /\ f[0] = b /\ \A i \in 1..N : f[i] = Meet(g, q, ef, admit, f[i - 1], nbs[i])
  BY <1>2, <1>5, <1>7 DEF IsThread
<1>9. f = Body(f)
  <2>1. ASSUME NEW i \in 0..N, i # 0 PROVE f[i] = Meet(g, q, ef, admit, f[i - 1], nbs[i])
    <3>1. i \in 1..N
      BY <1>2, <2>1
    <3>2. QED
      BY <1>8, <3>1
  <2>2. f = [i \in 0..N |-> f[i]]
    BY <1>8
  <2>3. QED
    BY <1>8, <2>1, <2>2
<1>10. at = Body(at)
  BY <1>9 DEF at
<1>11. at[0] = b /\ \A i \in 1..N : at[i] = Meet(g, q, ef, admit, at[i - 1], nbs[i])
  <2>1. 0 \in 0..N
    BY <1>2
  <2>2. QED
    BY <1>2, <1>10, <2>1
<1> DEFINE P == {i \in 0..N : at[i] \in W[i]}
<1>12. 0 \in P
  BY <1>2, <1>3, <1>11
<1>13. \A i \in 1..N : i - 1 \in P => i \in P
  BY <1>2, <1>3, <1>11
<1> HIDE DEF P
<1>14. \A i \in 0..N : i \in P
  BY <1>2, <1>12, <1>13, Inductive
<1>15. QED
  <2>1. N \in 0..N
    BY <1>2
  <2>2. at[N] \in W[N]
    BY <1>14, <2>1 DEF P
  <2>3. QED
    BY <1>1, <2>2 DEF N

\* The beam goes on node by node.
LEMMA BeamUnfolds ==
  ASSUME NEW g, NEW q, NEW start, NEW layer, NEW ef, NEW admit, Len(g.ln) \in Nat, NEW W, BeamStart(start, admit) \in W[0],
         \A i \in 1..Len(g.ln) : \A x \in W[i - 1] : Onward(g, q, layer, ef, admit, x) \in W[i]
  PROVE  BeamEnd(g, q, start, layer, ef, admit) \in W[Len(g.ln)]
<1> DEFINE N == Len(g.ln)
           Body(c) == [i \in 0..N |-> IF i = 0 THEN BeamStart(start, admit) ELSE Onward(g, q, layer, ef, admit, c[i - 1])]
           at == CHOOSE c : c = Body(c)
           V == UNION {W[i] : i \in 0..N}
           G == [p \in (1..N) \X V |->
                   IF p[2] \in W[p[1] - 1] THEN Onward(g, q, layer, ef, admit, p[2]) ELSE BeamStart(start, admit)]
<1>1. BeamEnd(g, q, start, layer, ef, admit) = at[N]
  BY DEF BeamEnd
<1>2. N \in Nat /\ \A i \in 1..N : i \in 0..N /\ i - 1 \in 0..N /\ i # 0
  OBVIOUS
<1>3. /\ \A i \in 1..N : \A x \in W[i - 1] : Onward(g, q, layer, ef, admit, x) \in W[i]
      /\ BeamStart(start, admit) \in W[0]
  OBVIOUS
<1> HIDE DEF N, at
<1>4. /\ \A i \in 1..N : \A x \in W[i - 1] : x \in V /\ Onward(g, q, layer, ef, admit, x) \in V
      /\ BeamStart(start, admit) \in V
  <2>1. 0 \in 0..N
    BY <1>2
  <2>2. QED
    BY <1>2, <1>3, <2>1
<1> HIDE DEF V
<1>5. /\ G \in StepFns(N, V)
      /\ \A i \in 1..N : \A x \in W[i - 1] : G[<<i, x>>] = Onward(g, q, layer, ef, admit, x)
  BY <1>4 DEF StepFns
<1> HIDE DEF G
<1>6. LeadsOn(G, N, W)
  BY <1>3, <1>5 DEF LeadsOn
<1>7. PICK f : IsThread(f, N, V, BeamStart(start, admit), G) /\ \A i \in 0..N : f[i] \in W[i]
  BY <1>2, <1>3, <1>5, <1>6, ThreadedOn DEF V
<1>8. f \in [0..N -> V] /\ f[0] = BeamStart(start, admit) /\ \A i \in 1..N : f[i] = Onward(g, q, layer, ef, admit, f[i - 1])
  BY <1>2, <1>5, <1>7 DEF IsThread
<1>9. f = Body(f)
  <2>1. ASSUME NEW i \in 0..N, i # 0 PROVE f[i] = Onward(g, q, layer, ef, admit, f[i - 1])
    <3>1. i \in 1..N
      BY <1>2, <2>1
    <3>2. QED
      BY <1>8, <3>1
  <2>2. f = [i \in 0..N |-> f[i]]
    BY <1>8
  <2>3. QED
    BY <1>8, <2>1, <2>2
<1>10. at = Body(at)
  BY <1>9 DEF at
<1>11. at[0] = BeamStart(start, admit) /\ \A i \in 1..N : at[i] = Onward(g, q, layer, ef, admit, at[i - 1])
  <2>1. 0 \in 0..N
    BY <1>2
  <2>2. QED
    BY <1>2, <1>10, <2>1
<1> DEFINE P == {i \in 0..N : at[i] \in W[i]}
<1>12. 0 \in P
  BY <1>2, <1>3, <1>11
<1>13. \A i \in 1..N : i - 1 \in P => i \in P
  BY <1>2, <1>3, <1>11
<1> HIDE DEF P
<1>14. \A i \in 0..N : i \in P
  BY <1>2, <1>12, <1>13, Inductive
<1>15. QED
  <2>1. N \in 0..N
    BY <1>2
  <2>2. at[N] \in W[N]
    BY <1>14, <2>1 DEF P
  <2>3. QED
    BY <1>1, <2>2 DEF N

\* A candidate is kept or not, one after the other.
LEMMA DiverseUnfolds ==
  ASSUME NEW g, NEW sorted, NEW q, NEW m, Len(sorted) \in Nat, NEW W, <<>> \in W[0],
         \A i \in 1..Len(sorted) : \A x \in W[i - 1] : Keep(g, q, m, x, sorted[i]) \in W[i]
  PROVE  Diverse(g, sorted, q, m) \in W[Len(sorted)]
<1> DEFINE N == Len(sorted)
           Body(c) == [i \in 0..N |-> IF i = 0 THEN <<>> ELSE Keep(g, q, m, c[i - 1], sorted[i])]
           at == CHOOSE c : c = Body(c)
           V == UNION {W[i] : i \in 0..N}
           G == [p \in (1..N) \X V |->
                   IF p[2] \in W[p[1] - 1] THEN Keep(g, q, m, p[2], sorted[p[1]]) ELSE <<>>]
<1>1. Diverse(g, sorted, q, m) = at[N]
  BY DEF Diverse
<1>2. N \in Nat /\ \A i \in 1..N : i \in 0..N /\ i - 1 \in 0..N /\ i # 0
  OBVIOUS
<1>3. /\ \A i \in 1..N : \A x \in W[i - 1] : Keep(g, q, m, x, sorted[i]) \in W[i]
      /\ <<>> \in W[0]
  OBVIOUS
<1> HIDE DEF N, at
<1>4. /\ \A i \in 1..N : \A x \in W[i - 1] : x \in V /\ Keep(g, q, m, x, sorted[i]) \in V
      /\ <<>> \in V
  <2>1. 0 \in 0..N
    BY <1>2
  <2>2. QED
    BY <1>2, <1>3, <2>1
<1> HIDE DEF V
<1>5. /\ G \in StepFns(N, V)
      /\ \A i \in 1..N : \A x \in W[i - 1] : G[<<i, x>>] = Keep(g, q, m, x, sorted[i])
  BY <1>4 DEF StepFns
<1> HIDE DEF G
<1>6. LeadsOn(G, N, W)
  BY <1>3, <1>5 DEF LeadsOn
<1>7. PICK f : IsThread(f, N, V, <<>>, G) /\ \A i \in 0..N : f[i] \in W[i]
  BY <1>2, <1>3, <1>5, <1>6, ThreadedOn DEF V
<1>8. f \in [0..N -> V] /\ f[0] = <<>> /\ \A i \in 1..N : f[i] = Keep(g, q, m, f[i - 1], sorted[i])
  BY <1>2, <1>5, <1>7 DEF IsThread
<1>9. f = Body(f)
  <2>1. ASSUME NEW i \in 0..N, i # 0 PROVE f[i] = Keep(g, q, m, f[i - 1], sorted[i])
    <3>1. i \in 1..N
      BY <1>2, <2>1
    <3>2. QED
      BY <1>8, <3>1
  <2>2. f = [i \in 0..N |-> f[i]]
    BY <1>8
  <2>3. QED
    BY <1>8, <2>1, <2>2
<1>10. at = Body(at)
  BY <1>9 DEF at
<1>11. at[0] = <<>> /\ \A i \in 1..N : at[i] = Keep(g, q, m, at[i - 1], sorted[i])
  <2>1. 0 \in 0..N
    BY <1>2
  <2>2. QED
    BY <1>2, <1>10, <2>1
<1> DEFINE P == {i \in 0..N : at[i] \in W[i]}
<1>12. 0 \in P
  BY <1>2, <1>3, <1>11
<1>13. \A i \in 1..N : i - 1 \in P => i \in P
  BY <1>2, <1>3, <1>11
<1> HIDE DEF P
<1>14. \A i \in 0..N : i \in P
  BY <1>2, <1>12, <1>13, Inductive
<1>15. QED
  <2>1. N \in 0..N
    BY <1>2
  <2>2. at[N] \in W[N]
    BY <1>14, <2>1 DEF P
  <2>3. QED
    BY <1>1, <2>2 DEF N

\* The rest fills up the list one after the other.
LEMMA FilledUpUnfolds ==
  ASSUME NEW sorted, NEW m, NEW kept, Len(sorted) \in Nat, NEW W, kept \in W[0],
         \A i \in 1..Len(sorted) : \A x \in W[i - 1] : FillUp(m, x, sorted[i]) \in W[i]
  PROVE  FilledUp(sorted, m, kept) \in W[Len(sorted)]
<1> DEFINE N == Len(sorted)
           Body(c) == [i \in 0..N |-> IF i = 0 THEN kept ELSE FillUp(m, c[i - 1], sorted[i])]
           at == CHOOSE c : c = Body(c)
           V == UNION {W[i] : i \in 0..N}
           G == [p \in (1..N) \X V |->
                   IF p[2] \in W[p[1] - 1] THEN FillUp(m, p[2], sorted[p[1]]) ELSE kept]
<1>1. FilledUp(sorted, m, kept) = at[N]
  BY DEF FilledUp
<1>2. N \in Nat /\ \A i \in 1..N : i \in 0..N /\ i - 1 \in 0..N /\ i # 0
  OBVIOUS
<1>3. /\ \A i \in 1..N : \A x \in W[i - 1] : FillUp(m, x, sorted[i]) \in W[i]
      /\ kept \in W[0]
  OBVIOUS
<1> HIDE DEF N, at
<1>4. /\ \A i \in 1..N : \A x \in W[i - 1] : x \in V /\ FillUp(m, x, sorted[i]) \in V
      /\ kept \in V
  <2>1. 0 \in 0..N
    BY <1>2
  <2>2. QED
    BY <1>2, <1>3, <2>1
<1> HIDE DEF V
<1>5. /\ G \in StepFns(N, V)
      /\ \A i \in 1..N : \A x \in W[i - 1] : G[<<i, x>>] = FillUp(m, x, sorted[i])
  BY <1>4 DEF StepFns
<1> HIDE DEF G
<1>6. LeadsOn(G, N, W)
  BY <1>3, <1>5 DEF LeadsOn
<1>7. PICK f : IsThread(f, N, V, kept, G) /\ \A i \in 0..N : f[i] \in W[i]
  BY <1>2, <1>3, <1>5, <1>6, ThreadedOn DEF V
<1>8. f \in [0..N -> V] /\ f[0] = kept /\ \A i \in 1..N : f[i] = FillUp(m, f[i - 1], sorted[i])
  BY <1>2, <1>5, <1>7 DEF IsThread
<1>9. f = Body(f)
  <2>1. ASSUME NEW i \in 0..N, i # 0 PROVE f[i] = FillUp(m, f[i - 1], sorted[i])
    <3>1. i \in 1..N
      BY <1>2, <2>1
    <3>2. QED
      BY <1>8, <3>1
  <2>2. f = [i \in 0..N |-> f[i]]
    BY <1>8
  <2>3. QED
    BY <1>8, <2>1, <2>2
<1>10. at = Body(at)
  BY <1>9 DEF at
<1>11. at[0] = kept /\ \A i \in 1..N : at[i] = FillUp(m, at[i - 1], sorted[i])
  <2>1. 0 \in 0..N
    BY <1>2
  <2>2. QED
    BY <1>2, <1>10, <2>1
<1> DEFINE P == {i \in 0..N : at[i] \in W[i]}
<1>12. 0 \in P
  BY <1>2, <1>3, <1>11
<1>13. \A i \in 1..N : i - 1 \in P => i \in P
  BY <1>2, <1>3, <1>11
<1> HIDE DEF P
<1>14. \A i \in 0..N : i \in P
  BY <1>2, <1>12, <1>13, Inductive
<1>15. QED
  <2>1. N \in 0..N
    BY <1>2
  <2>2. at[N] \in W[N]
    BY <1>14, <2>1 DEF P
  <2>3. QED
    BY <1>1, <2>2 DEF N

\* The chosen are linked one after the other.
LEMMA LinkAllUnfolds ==
  ASSUME NEW g, NEW node, NEW nbs, NEW layer, Len(nbs) \in Nat, NEW W, g \in W[0],
         \A i \in 1..Len(nbs) : \A x \in W[i - 1] : Link(x, node, nbs[i], layer) \in W[i]
  PROVE  LinkAll(g, node, nbs, layer) \in W[Len(nbs)]
<1> DEFINE N == Len(nbs)
           Body(c) == [i \in 0..N |-> IF i = 0 THEN g ELSE Link(c[i - 1], node, nbs[i], layer)]
           at == CHOOSE c : c = Body(c)
           V == UNION {W[i] : i \in 0..N}
           G == [p \in (1..N) \X V |->
                   IF p[2] \in W[p[1] - 1] THEN Link(p[2], node, nbs[p[1]], layer) ELSE g]
<1>1. LinkAll(g, node, nbs, layer) = at[N]
  BY DEF LinkAll
<1>2. N \in Nat /\ \A i \in 1..N : i \in 0..N /\ i - 1 \in 0..N /\ i # 0
  OBVIOUS
<1>3. /\ \A i \in 1..N : \A x \in W[i - 1] : Link(x, node, nbs[i], layer) \in W[i]
      /\ g \in W[0]
  OBVIOUS
<1> HIDE DEF N, at
<1>4. /\ \A i \in 1..N : \A x \in W[i - 1] : x \in V /\ Link(x, node, nbs[i], layer) \in V
      /\ g \in V
  <2>1. 0 \in 0..N
    BY <1>2
  <2>2. QED
    BY <1>2, <1>3, <2>1
<1> HIDE DEF V
<1>5. /\ G \in StepFns(N, V)
      /\ \A i \in 1..N : \A x \in W[i - 1] : G[<<i, x>>] = Link(x, node, nbs[i], layer)
  BY <1>4 DEF StepFns
<1> HIDE DEF G
<1>6. LeadsOn(G, N, W)
  BY <1>3, <1>5 DEF LeadsOn
<1>7. PICK f : IsThread(f, N, V, g, G) /\ \A i \in 0..N : f[i] \in W[i]
  BY <1>2, <1>3, <1>5, <1>6, ThreadedOn DEF V
<1>8. f \in [0..N -> V] /\ f[0] = g /\ \A i \in 1..N : f[i] = Link(f[i - 1], node, nbs[i], layer)
  BY <1>2, <1>5, <1>7 DEF IsThread
<1>9. f = Body(f)
  <2>1. ASSUME NEW i \in 0..N, i # 0 PROVE f[i] = Link(f[i - 1], node, nbs[i], layer)
    <3>1. i \in 1..N
      BY <1>2, <2>1
    <3>2. QED
      BY <1>8, <3>1
  <2>2. f = [i \in 0..N |-> f[i]]
    BY <1>8
  <2>3. QED
    BY <1>8, <2>1, <2>2
<1>10. at = Body(at)
  BY <1>9 DEF at
<1>11. at[0] = g /\ \A i \in 1..N : at[i] = Link(at[i - 1], node, nbs[i], layer)
  <2>1. 0 \in 0..N
    BY <1>2
  <2>2. QED
    BY <1>2, <1>10, <2>1
<1> DEFINE P == {i \in 0..N : at[i] \in W[i]}
<1>12. 0 \in P
  BY <1>2, <1>3, <1>11
<1>13. \A i \in 1..N : i - 1 \in P => i \in P
  BY <1>2, <1>3, <1>11
<1> HIDE DEF P
<1>14. \A i \in 0..N : i \in P
  BY <1>2, <1>12, <1>13, Inductive
<1>15. QED
  <2>1. N \in 0..N
    BY <1>2
  <2>2. at[N] \in W[N]
    BY <1>14, <2>1 DEF P
  <2>3. QED
    BY <1>1, <2>2 DEF N

\* The layers are connected one after the other.
LEMMA ConnectAllUnfolds ==
  ASSUME NEW a, NEW node, NEW v, NEW last, (last + 1) \in Nat, NEW W, a \in W[0],
         \A i \in 1..(last + 1) : \A x \in W[i - 1] : Connect(x, node, v, last + 1 - i) \in W[i]
  PROVE  ConnectAll(a, node, v, last) \in W[(last + 1)]
<1> DEFINE N == (last + 1)
           Body(c) == [i \in 0..N |-> IF i = 0 THEN a ELSE Connect(c[i - 1], node, v, last + 1 - i)]
           at == CHOOSE c : c = Body(c)
           V == UNION {W[i] : i \in 0..N}
           G == [p \in (1..N) \X V |->
                   IF p[2] \in W[p[1] - 1] THEN Connect(p[2], node, v, last + 1 - p[1]) ELSE a]
<1>1. ConnectAll(a, node, v, last) = at[N]
  BY DEF ConnectAll
<1>2. N \in Nat /\ \A i \in 1..N : i \in 0..N /\ i - 1 \in 0..N /\ i # 0
  OBVIOUS
<1>3. /\ \A i \in 1..N : \A x \in W[i - 1] : Connect(x, node, v, last + 1 - i) \in W[i]
      /\ a \in W[0]
  OBVIOUS
<1> HIDE DEF N, at
<1>4. /\ \A i \in 1..N : \A x \in W[i - 1] : x \in V /\ Connect(x, node, v, last + 1 - i) \in V
      /\ a \in V
  <2>1. 0 \in 0..N
    BY <1>2
  <2>2. QED
    BY <1>2, <1>3, <2>1
<1> HIDE DEF V
<1>5. /\ G \in StepFns(N, V)
      /\ \A i \in 1..N : \A x \in W[i - 1] : G[<<i, x>>] = Connect(x, node, v, last + 1 - i)
  BY <1>4 DEF StepFns
<1> HIDE DEF G
<1>6. LeadsOn(G, N, W)
  BY <1>3, <1>5 DEF LeadsOn
<1>7. PICK f : IsThread(f, N, V, a, G) /\ \A i \in 0..N : f[i] \in W[i]
  BY <1>2, <1>3, <1>5, <1>6, ThreadedOn DEF V
<1>8. f \in [0..N -> V] /\ f[0] = a /\ \A i \in 1..N : f[i] = Connect(f[i - 1], node, v, last + 1 - i)
  BY <1>2, <1>5, <1>7 DEF IsThread
<1>9. f = Body(f)
  <2>1. ASSUME NEW i \in 0..N, i # 0 PROVE f[i] = Connect(f[i - 1], node, v, last + 1 - i)
    <3>1. i \in 1..N
      BY <1>2, <2>1
    <3>2. QED
      BY <1>8, <3>1
  <2>2. f = [i \in 0..N |-> f[i]]
    BY <1>8
  <2>3. QED
    BY <1>8, <2>1, <2>2
<1>10. at = Body(at)
  BY <1>9 DEF at
<1>11. at[0] = a /\ \A i \in 1..N : at[i] = Connect(at[i - 1], node, v, last + 1 - i)
  <2>1. 0 \in 0..N
    BY <1>2
  <2>2. QED
    BY <1>2, <1>10, <2>1
<1> DEFINE P == {i \in 0..N : at[i] \in W[i]}
<1>12. 0 \in P
  BY <1>2, <1>3, <1>11
<1>13. \A i \in 1..N : i - 1 \in P => i \in P
  BY <1>2, <1>3, <1>11
<1> HIDE DEF P
<1>14. \A i \in 0..N : i \in P
  BY <1>2, <1>12, <1>13, Inductive
<1>15. QED
  <2>1. N \in 0..N
    BY <1>2
  <2>2. at[N] \in W[N]
    BY <1>14, <2>1 DEF P
  <2>3. QED
    BY <1>1, <2>2 DEF N

----------------------------------------------------------------------------
(* Distances order the nodes.                                              *)

Points == Int \X Int

LEMMA DistanceType == \A v, w \in Points : Distance(v, w) \in Int
<1>1. SUFFICES ASSUME NEW v \in Points, NEW w \in Points PROVE Distance(v, w) \in Int
  OBVIOUS
<1>2. v[1] - w[1] \in Int /\ v[2] - w[2] \in Int
  BY DEF Points
<1>3. \A i \in Int : Square(i) \in Int
  BY DEF Square
<1>4. QED
  BY <1>2, <1>3 DEF Distance

LEMMA CloserOrders ==
  ASSUME NEW g, NEW n \in Nat, g.vec \in [1..n -> Points], NEW q \in Points, NEW S, S \subseteq 1..n
  PROVE  IsFiniteSet(S) /\ Orders([x \in S |-> {o \in S : Closer(g, q, o, x)}], S)
<1> DEFINE B == [x \in S |-> {o \in S : Closer(g, q, o, x)}]
<1>1. IsFiniteSet(S)
  <2>1. IsFiniteSet(1..n)
    BY FS_Interval
  <2>2. QED
    BY <2>1, FS_Subset
<1>2. PICK d : d = [x \in S |-> dist_to(g, x, q)]
  OBVIOUS
<1>3. d \in [S -> Int]
  <2>1. \A x \in S : dist_to(g, x, q) \in Int
    BY DistanceType DEF dist_to
  <2>2. QED
    BY <1>2, <2>1
<1>4. \A a, b \in S : Closer(g, q, a, b) <=> (d[a] < d[b] \/ (d[a] = d[b] /\ a < b))
  BY <1>2 DEF Closer
<1>5. \A a, b \in S : a \in B[b] <=> (d[a] < d[b] \/ (d[a] = d[b] /\ a < b))
  BY <1>4
<1>6. B \in [S -> SUBSET S]
  OBVIOUS
<1> HIDE DEF B
<1>7. S \subseteq Int
  OBVIOUS
<1>8. /\ \A a \in S : a \notin B[a]
      /\ \A a, b \in S : a # b => a \in B[b] \/ b \in B[a]
  <2>1. ASSUME NEW a \in S PROVE a \notin B[a]
    BY <1>3, <1>5, <1>7
  <2>2. ASSUME NEW a \in S, NEW b \in S, a # b PROVE a \in B[b] \/ b \in B[a]
    <3>1. a \in Int /\ b \in Int /\ d[a] \in Int /\ d[b] \in Int
      BY <1>3, <1>7
    <3>2. d[a] < d[b] \/ (d[a] = d[b] /\ a < b) \/ d[b] < d[a] \/ (d[b] = d[a] /\ b < a)
      BY <2>2, <3>1
    <3>3. QED
      BY <1>5, <3>2
  <2>3. QED
    BY <2>1, <2>2
<1>9. ASSUME NEW a \in S, NEW b \in S, a \in B[b] PROVE B[a] \subseteq B[b]
  <2>1. ASSUME NEW x \in B[a] PROVE x \in B[b]
    <3>1. x \in S
      BY <1>6
    <3>2. QED
      BY <1>3, <1>5, <1>7, <1>9, <2>1, <3>1
  <2>2. QED
    BY <2>1
<1>10. Orders(B, S)
  BY <1>6, <1>8, <1>9 DEF Orders
<1>11. QED
  BY <1>1, <1>10 DEF B

\* A list that names each member of a set once.
Lists(s, S) ==
    /\ s \in Seq(S) /\ Len(s) = Cardinality(S)
    /\ \A i, j \in 1..Len(s) : s[i] = s[j] => i = j
    /\ \A x \in S : \E i \in 1..Len(s) : s[i] = x

LEMMA NearestFirstLists ==
  ASSUME NEW g, NEW n \in Nat, g.vec \in [1..n -> Points], NEW q \in Points, NEW S, S \subseteq 1..n
  PROVE  IsFiniteSet(S) /\ Lists(NearestFirst(g, S, q), S)
<1>1. PICK B : B = [x \in S |-> {o \in S : Closer(g, q, o, x)}]
  OBVIOUS
<1>2. IsFiniteSet(S) /\ Orders(B, S)
  BY <1>1, CloserOrders
<1>3. NearestFirst(g, S, q) = Arranged(S, B)
  BY <1>1 DEF NearestFirst
<1>4. QED
  BY <1>2, <1>3, ArrangesEachOnce DEF Lists

LEMMA NearestIn ==
  ASSUME NEW g, NEW n \in Nat, g.vec \in [1..n -> Points], NEW q \in Points,
         NEW S, S \subseteq 1..n, S # {}
  PROVE  Nearest(g, S, q) \in S
<1>1. PICK B : B = [x \in S |-> {o \in S : Closer(g, q, o, x)}]
  OBVIOUS
<1>2. IsFiniteSet(S) /\ Orders(B, S)
  BY <1>1, CloserOrders
<1>3. Ranks(B, S)
  BY <1>2, RanksOnce
<1>4. 1 \in 1..Cardinality(S)
  <2>1. Cardinality(S) # 0 /\ Cardinality(S) \in Nat
    BY <1>2, FS_EmptySet, FS_CardinalityType
  <2>2. QED
    BY <2>1
<1>5. PICK a \in S : Cardinality(B[a]) = 1 - 1
  BY <1>3, <1>4 DEF Ranks
<1>6. B[a] = {}
  <2>1. IsFiniteSet(B[a])
    BY <1>2, FS_Subset DEF Orders
  <2>2. QED
    BY <1>5, <2>1, FS_EmptySet
<1>7. \A o \in S \ {a} : Closer(g, q, a, o)
  <2>1. \A o \in S \ {a} : a \in B[o]
    BY <1>2, <1>6 DEF Orders
  <2>2. QED
    BY <1>1, <2>1
<1>8. QED
  BY <1>7 DEF Nearest

----------------------------------------------------------------------------
(* Walking over the links of a layer.                                      *)

\* Links lead from V nowhere else, on this layer.
StaysIn(g, layer, V) == \A m \in V : Neighbours(g, m, layer) \in Seq(V)

LEMMA NearerStays ==
  ASSUME NEW g, NEW n \in Nat, g.vec \in [1..n -> Points], NEW q \in Points,
         NEW V, V \subseteq 1..n, NEW layer, StaysIn(g, layer, V), NEW c \in V
  PROVE  Nearer(g, q, layer, c) \in V
<1> DEFINE S == {c} \cup ToSet(Neighbours(g, c, layer))
<1>1. S \subseteq V /\ S # {}
  <2>1. \A nbs \in Seq(V) : ToSet(nbs) \subseteq V
    BY DEF ToSet
  <2>2. QED
    BY <2>1 DEF StaysIn
<1>2. Nearest(g, S, q) \in V
  <2>1. S \subseteq 1..n
    BY <1>1
  <2> HIDE DEF S
  <2>2. QED
    BY <1>1, <2>1, NearestIn
<1>3. QED
  BY <1>2 DEF Nearer

LEMMA GreedyStays ==
  ASSUME NEW g, NEW n \in Nat, g.vec \in [1..n -> Points], NEW q \in Points, Len(g.ln) = n,
         NEW V, V \subseteq 1..n, NEW layer, StaysIn(g, layer, V), NEW c \in V
  PROVE  greedy_at(g, q, c, layer) \in V
<1>1. \A x \in V : Nearer(g, q, layer, x) \in V
  BY NearerStays
<1>2. PICK W : W = [i \in 0..n |-> V]
  OBVIOUS
<1>3. c \in W[0] /\ \A i \in 1..n : \A x \in W[i - 1] : Nearer(g, q, layer, x) \in W[i]
  BY <1>1, <1>2
<1>4. greedy_at(g, q, c, layer) \in W[n]
  BY <1>3, WalkUnfolds
<1>5. QED
  BY <1>2, <1>4

\* A graph of n nodes.
IsGraph(g, n) ==
    /\ g = [vec |-> g.vec, ln |-> g.ln] /\ g.vec \in [1..n -> Points]
    /\ g.ln \in Seq(Seq(Seq(1..n))) /\ Len(g.ln) = n

\* The nodes that have a layer, but for x.
Having(g, n, x, layer) == {m \in 1..n : m # x /\ layer < Len(g.ln[m])}

LEMMA DescendedStays ==
  ASSUME NEW n \in Nat, NEW g, IsGraph(g, n), NEW x, NEW q \in Points,
         NEW above \in Nat, NEW top \in Nat, above <= top, NEW from \in Having(g, n, x, top),
         \A layer \in (above + 1)..top : StaysIn(g, layer, Having(g, n, x, layer))
  PROVE  Descended(g, q, from, top, above) \in Having(g, n, x, above)
<1> DEFINE N == top - above
           At(i) == IF i = 0 THEN top ELSE top + 1 - i
<1>1. \A l \in Nat : Having(g, n, x, l) \subseteq 1..n
  BY DEF Having
<1>2. g.vec \in [1..n -> Points] /\ Len(g.ln) = n
  BY DEF IsGraph
<1>3. \A l, k \in Nat : k <= l => Having(g, n, x, l) \subseteq Having(g, n, x, k)
  <2>1. \A m \in 1..n : Len(g.ln[m]) \in Nat
    BY DEF IsGraph
  <2>2. QED
    BY <2>1 DEF Having
<1>4. PICK W : W = [i \in 0..N |-> Having(g, n, x, At(i))]
  OBVIOUS
<1>5. N \in Nat /\ from \in W[0]
  BY <1>4
<1>6. ASSUME NEW i \in 1..N, NEW c \in W[i - 1] PROVE greedy_at(g, q, c, top + 1 - i) \in W[i]
  <2>1. PICK l : l = top + 1 - i
    OBVIOUS
  <2>2. l \in (above + 1)..top /\ l \in Nat /\ i \in 0..N /\ i # 0 /\ i - 1 \in 0..N
    BY <2>1
  <2>3. At(i - 1) \in Nat /\ l <= At(i - 1)
    BY <2>1, <2>2
  <2>4. W[i] = Having(g, n, x, l) /\ W[i - 1] = Having(g, n, x, At(i - 1))
    BY <1>4, <2>1, <2>2
  <2>5. c \in Having(g, n, x, l)
    BY <1>3, <1>6, <2>2, <2>3, <2>4
  <2>6. greedy_at(g, q, c, l) \in Having(g, n, x, l)
    BY <1>1, <1>2, <2>2, <2>5, GreedyStays
  <2>7. QED
    BY <2>1, <2>4, <2>6
<1>7. Descended(g, q, from, top, above) \in W[N]
  BY <1>5, <1>6, DescendedUnfolds
<1>8. W[N] = Having(g, n, x, At(N)) /\ At(N) \in Nat /\ above <= At(N)
  BY <1>4, <1>5
<1>9. QED
  BY <1>3, <1>7, <1>8

----------------------------------------------------------------------------
(* The beam.                                                               *)

Beams(V, admit) == [cand : SUBSET V, seen : SUBSET V, found : SUBSET (V \cap admit)]

LEMMA MeetStays ==
  ASSUME NEW g, NEW q, NEW ef, NEW V, NEW admit, NEW b \in Beams(V, admit), NEW nb \in V
  PROVE  Meet(g, q, ef, admit, b, nb) \in Beams(V, admit)
<1> DEFINE near == \/ Cardinality(b.found) < ef
                   \/ dist_to(g, nb, q) < dist_to(g, Farthest(g, b.found, q), q)
           with == b.found \cup ({nb} \cap admit)
           kept == IF ~near THEN b.found
                   ELSE IF Cardinality(with) > ef THEN with \ {Farthest(g, with, q)} ELSE with
<1>1. /\ b.cand \subseteq V /\ b.seen \subseteq V /\ b.found \subseteq V \cap admit
  BY DEF Beams
<1>2. with \subseteq V \cap admit
  BY <1>1
<1> HIDE DEF with
<1>3. with \ {Farthest(g, with, q)} \subseteq V \cap admit
  BY <1>2
<1>4. kept \subseteq V \cap admit
  BY <1>1, <1>2, <1>3
<1>5. Meet(g, q, ef, admit, b, nb) =
        IF nb \in b.seen THEN b
        ELSE [cand |-> IF near THEN b.cand \cup {nb} ELSE b.cand, seen |-> b.seen \cup {nb}, found |-> kept]
  BY DEF Meet, with
<1> HIDE DEF near, kept
<1>6. QED
  BY <1>1, <1>4, <1>5 DEF Beams

LEMMA MeetAllStays ==
  ASSUME NEW g, NEW q, NEW ef, NEW V, NEW admit, NEW b \in Beams(V, admit), NEW nbs \in Seq(V)
  PROVE  MeetAll(g, q, ef, admit, b, nbs) \in Beams(V, admit)
<1>1. Len(nbs) \in Nat /\ \A i \in 1..Len(nbs) : nbs[i] \in V
  OBVIOUS
<1>2. PICK B : B = Beams(V, admit)
  OBVIOUS
<1>3. \A i \in 1..Len(nbs), x \in B : Meet(g, q, ef, admit, x, nbs[i]) \in B
  BY <1>1, <1>2, MeetStays
<1>4. PICK W : W = [i \in 0..Len(nbs) |-> B]
  OBVIOUS
<1>5. b \in W[0] /\ \A i \in 1..Len(nbs) : \A x \in W[i - 1] : Meet(g, q, ef, admit, x, nbs[i]) \in W[i]
  BY <1>1, <1>2, <1>3, <1>4
<1>6. MeetAll(g, q, ef, admit, b, nbs) \in W[Len(nbs)]
  BY <1>1, <1>5, MeetAllUnfolds
<1>7. QED
  BY <1>1, <1>2, <1>4, <1>6

LEMMA OnwardStays ==
  ASSUME NEW g, NEW n \in Nat, g.vec \in [1..n -> Points], NEW q \in Points, NEW ef, NEW admit,
         NEW V, V \subseteq 1..n, NEW layer, StaysIn(g, layer, V), NEW b \in Beams(V, admit)
  PROVE  Onward(g, q, layer, ef, admit, b) \in Beams(V, admit)
<1> DEFINE next == Nearest(g, b.cand, q)
           less == [b EXCEPT !.cand = @ \ {next}]
<1>1. CASE b.cand = {}
  BY <1>1 DEF Onward
<1>2. CASE b.cand # {}
  <2>1. b.cand \subseteq V
    BY DEF Beams
  <2>2. b.cand \subseteq 1..n
    BY <2>1
  <2>3. next \in V
    BY <1>2, <2>1, <2>2, NearestIn
  <2> HIDE DEF next
  <2>4. less \in Beams(V, admit) /\ Neighbours(g, next, layer) \in Seq(V)
    BY <2>1, <2>3 DEF Beams, StaysIn
  <2> HIDE DEF less
  <2>5. MeetAll(g, q, ef, admit, less, Neighbours(g, next, layer)) \in Beams(V, admit)
    BY <2>4, MeetAllStays
  <2>6. QED
    BY <2>5 DEF Onward, less, next
<1>3. QED
  BY <1>1, <1>2

LEMMA BeamStays ==
  ASSUME NEW g, NEW n \in Nat, g.vec \in [1..n -> Points], NEW q \in Points, NEW ef, NEW admit,
         Len(g.ln) = n, NEW V, V \subseteq 1..n, NEW layer, StaysIn(g, layer, V), NEW start \in V
  PROVE  BeamEnd(g, q, start, layer, ef, admit) \in Beams(V, admit)
<1>1. PICK B : B = Beams(V, admit)
  OBVIOUS
<1>2. Len(g.ln) \in Nat
  OBVIOUS
<1>3. BeamStart(start, admit) \in B
  BY <1>1 DEF BeamStart, Beams
<1>4. \A x \in B : Onward(g, q, layer, ef, admit, x) \in B
  BY <1>1, OnwardStays
<1>5. PICK W : W = [i \in 0..Len(g.ln) |-> B]
  OBVIOUS
<1>6. /\ BeamStart(start, admit) \in W[0]
      /\ \A i \in 1..Len(g.ln) : \A x \in W[i - 1] : Onward(g, q, layer, ef, admit, x) \in W[i]
  BY <1>2, <1>3, <1>4, <1>5
<1>7. BeamEnd(g, q, start, layer, ef, admit) \in W[Len(g.ln)]
  BY <1>2, <1>6, BeamUnfolds
<1>8. QED
  BY <1>1, <1>2, <1>5, <1>7

\* What a beam returns is living in V, each node once.
Distinct(s) == \A i, j \in 1..Len(s) : s[i] = s[j] => i = j

LEMMA BeamReturns ==
  ASSUME NEW g, NEW n \in Nat, g.vec \in [1..n -> Points], NEW q \in Points, NEW ef, NEW admit,
         Len(g.ln) = n, NEW V, V \subseteq 1..n, NEW layer, StaysIn(g, layer, V), NEW start \in V
  PROVE  /\ beam_admit(g, q, start, layer, ef, admit) \in Seq(V)
         /\ Distinct(beam_admit(g, q, start, layer, ef, admit))
<1>1. PICK F : F = BeamEnd(g, q, start, layer, ef, admit).found
  OBVIOUS
<1>2. F \subseteq V
  BY <1>1, BeamStays DEF Beams
<1>3. F \subseteq 1..n
  BY <1>2
<1>4. PICK s : s = NearestFirst(g, F, q)
  OBVIOUS
<1>5. Lists(s, F)
  BY <1>3, <1>4, NearestFirstLists
<1>6. s \in Seq(V) /\ Distinct(s)
  <2>1. s \in Seq(F) /\ Distinct(s)
    BY <1>5 DEF Lists, Distinct
  <2>2. Len(s) \in Nat /\ s = [i \in 1..Len(s) |-> s[i]] /\ \A i \in 1..Len(s) : s[i] \in F
    BY <2>1
  <2>3. \A i \in 1..Len(s) : s[i] \in V
    BY <1>2, <2>2
  <2>4. s \in Seq(V)
    BY <2>2, <2>3
  <2>5. QED
    BY <2>1, <2>4
<1>7. QED
  BY <1>1, <1>4, <1>6 DEF beam_admit

----------------------------------------------------------------------------
(* Choosing neighbours.                                                    *)

LEMMA ToSetIs == ASSUME NEW T, NEW s \in Seq(T) PROVE ToSet(s) = {s[i] : i \in 1..Len(s)} /\ ToSet(s) \subseteq T
  BY DEF ToSet

\* The list r is s with c after it, which it did not name yet.
Extends(r, s, c, T) ==
    /\ r \in Seq(T) /\ Distinct(r) /\ Len(r) = Len(s) + 1
    /\ ToSet(r) = ToSet(s) \cup {c}

LEMMA AppendsDistinct ==
  ASSUME NEW T, NEW s \in Seq(T), NEW c \in T, Distinct(s), c \notin ToSet(s), NEW r, r = Append(s, c)
  PROVE  Extends(r, s, c, T)
<1>1. /\ r \in Seq(T) /\ Len(s) \in Nat /\ Len(r) = Len(s) + 1 /\ r[Len(s) + 1] = c
      /\ \A i \in 1..Len(s) : r[i] = s[i]
  OBVIOUS
<1>2. \A i \in 1..(Len(s) + 1) : i \in 1..Len(s) \/ i = Len(s) + 1
  BY <1>1
<1>3. \A i \in 1..Len(s) : s[i] # c /\ i \in 1..(Len(s) + 1)
  BY <1>1, ToSetIs
<1>4. Distinct(r)
  <2>1. ASSUME NEW i \in 1..(Len(s) + 1), NEW j \in 1..(Len(s) + 1), r[i] = r[j] PROVE i = j
    <3>1. CASE i \in 1..Len(s) /\ j \in 1..Len(s)
      BY <1>1, <2>1, <3>1 DEF Distinct
    <3>2. CASE ~(i \in 1..Len(s) /\ j \in 1..Len(s))
      BY <1>1, <1>2, <1>3, <2>1, <3>2
    <3>3. QED
      BY <3>1, <3>2
  <2>2. QED
    BY <1>1, <2>1 DEF Distinct
<1>5. ToSet(r) = ToSet(s) \cup {c}
  <2>1. ToSet(r) = {r[i] : i \in 1..(Len(s) + 1)} /\ ToSet(s) = {s[i] : i \in 1..Len(s)}
    <3>1. ToSet(r) = {r[i] : i \in 1..Len(r)}
      <4>1. r \in Seq(T)
        BY <1>1
      <4>2. QED
        BY <4>1 DEF ToSet
    <3>2. ToSet(s) = {s[i] : i \in 1..Len(s)}
      BY ToSetIs
    <3>3. QED
      BY <1>1, <3>1, <3>2
  <2>2. Len(s) + 1 \in 1..(Len(s) + 1)
    BY <1>1
  <2>3. QED
    BY <1>1, <1>2, <1>3, <2>1, <2>2
<1>6. QED
  BY <1>1, <1>4, <1>5 DEF Extends

\* A choice of at most m of the candidates, each once.
Choice(s, T, m) == s \in Seq(T) /\ Distinct(s) /\ Len(s) <= m

LEMMA AppendsChoice ==
  ASSUME NEW T, NEW m \in Nat, NEW s, Choice(s, T, m), ~(Len(s) >= m), NEW c \in T, c \notin ToSet(s),
         NEW X, ToSet(s) \subseteq X, c \in X
  PROVE  Choice(Append(s, c), T, m) /\ ToSet(Append(s, c)) \subseteq X
<1>1. s \in Seq(T) /\ Distinct(s) /\ Len(s) \in Nat
  BY DEF Choice
<1>2. PICK r : r = Append(s, c)
  OBVIOUS
<1>3. r \in Seq(T) /\ Distinct(r) /\ Len(r) = Len(s) + 1 /\ ToSet(r) = ToSet(s) \cup {c}
  <2>1. Extends(r, s, c, T)
    BY <1>1, <1>2, AppendsDistinct
  <2>2. QED
    BY <2>1 DEF Extends
<1>4. Len(r) <= m
  BY <1>1, <1>3
<1>5. QED
  BY <1>2, <1>3, <1>4 DEF Choice

LEMMA DiverseChooses ==
  ASSUME NEW g, NEW q, NEW T, NEW sorted \in Seq(T), Distinct(sorted), NEW m \in Nat
  PROVE  Choice(Diverse(g, sorted, q, m), T, m)
<1> DEFINE N == Len(sorted)
<1>1. N \in Nat /\ \A i \in 1..N : sorted[i] \in T
  OBVIOUS
<1>2. PICK W : W = [i \in 0..N |-> {s \in Seq(T) : /\ Choice(s, T, m)
                                                  /\ ToSet(s) \subseteq {sorted[j] : j \in 1..i}}]
  OBVIOUS
<1>3. <<>> \in W[0]
  <2>1. <<>> \in Seq(T) /\ Choice(<<>>, T, m) /\ ToSet(<<>>) = {}
    BY DEF ToSet, Choice, Distinct
  <2>2. QED
    BY <1>1, <1>2, <2>1
<1>4. ASSUME NEW i \in 1..N, NEW s \in W[i - 1] PROVE Keep(g, q, m, s, sorted[i]) \in W[i]
  <2>1. i \in 0..N /\ i - 1 \in 0..N /\ \A j \in 1..(i - 1) : j \in 1..i /\ j \in 1..N /\ j # i
    BY <1>1
  <2>2. PICK c : c = sorted[i]
    OBVIOUS
  <2>3. s \in Seq(T) /\ Choice(s, T, m) /\ ToSet(s) \subseteq {sorted[j] : j \in 1..(i - 1)}
    BY <1>2, <1>4, <2>1
  <2>4. c \in T /\ c \notin ToSet(s)
    <3>1. \A j \in 1..(i - 1) : sorted[j] # c
      BY <2>1, <2>2 DEF Distinct
    <3>2. QED
      BY <1>1, <2>2, <2>3, <3>1
  <2>5. PICK X : X = {sorted[j] : j \in 1..i}
    OBVIOUS
  <2>6. ToSet(s) \subseteq X /\ c \in X
    <3>1. i \in 1..i
      OBVIOUS
    <3>2. QED
      BY <2>1, <2>2, <2>3, <2>5, <3>1
  <2>7. W[i] = {r \in Seq(T) : Choice(r, T, m) /\ ToSet(r) \subseteq X}
    BY <1>2, <2>1, <2>5
  <2>8. CASE Keep(g, q, m, s, c) = s
    BY <2>2, <2>3, <2>6, <2>7, <2>8
  <2>9. CASE Keep(g, q, m, s, c) = Append(s, c) /\ ~(Len(s) >= m)
    <3>1. Choice(Append(s, c), T, m) /\ ToSet(Append(s, c)) \subseteq X
      BY <2>3, <2>4, <2>6, <2>9, AppendsChoice
    <3>2. Append(s, c) \in W[i]
      BY <2>7, <3>1 DEF Choice
    <3>3. QED
      BY <2>2, <2>9, <3>2
  <2>10. QED
    BY <2>8, <2>9 DEF Keep
<1>5. Diverse(g, sorted, q, m) \in W[N]
  BY <1>1, <1>3, <1>4, DiverseUnfolds
<1>6. QED
  BY <1>1, <1>2, <1>5

LEMMA FilledUpChooses ==
  ASSUME NEW T, NEW sorted \in Seq(T), NEW m \in Nat, NEW kept, Choice(kept, T, m)
  PROVE  Choice(FilledUp(sorted, m, kept), T, m)
<1> DEFINE V == {s \in Seq(T) : Choice(s, T, m)}
<1>1. Len(sorted) \in Nat /\ \A i \in 1..Len(sorted) : sorted[i] \in T
  OBVIOUS
<1>2. kept \in V
  BY DEF Choice
<1>3. ASSUME NEW s \in V, NEW c \in T PROVE FillUp(m, s, c) \in V
  <2>1. s \in Seq(T) /\ Distinct(s) /\ Len(s) <= m /\ Len(s) \in Nat
    BY DEF Choice
  <2>2. CASE Len(s) >= m \/ c \in ToSet(s)
    BY <2>2 DEF FillUp
  <2>3. CASE ~(Len(s) >= m \/ c \in ToSet(s))
    <3>1. PICK X : ToSet(s) \subseteq X /\ c \in X
      <4>1. ToSet(s) \subseteq ToSet(s) \cup {c} /\ c \in ToSet(s) \cup {c}
        OBVIOUS
      <4>2. QED
        BY <4>1
    <3>2. Choice(Append(s, c), T, m)
      BY <2>1, <2>3, <3>1, AppendsChoice DEF Choice
    <3>3. FillUp(m, s, c) = Append(s, c) /\ Append(s, c) \in Seq(T)
      BY <2>1, <2>3 DEF FillUp
    <3>4. QED
      BY <3>2, <3>3
  <2>4. QED
    BY <2>2, <2>3
<1> HIDE DEF V
<1>4. PICK W : W = [i \in 0..Len(sorted) |-> V]
  OBVIOUS
<1>5. kept \in W[0] /\ \A i \in 1..Len(sorted) : \A x \in W[i - 1] : FillUp(m, x, sorted[i]) \in W[i]
  BY <1>1, <1>2, <1>3, <1>4
<1>6. FilledUp(sorted, m, kept) \in W[Len(sorted)]
  BY <1>1, <1>5, FilledUpUnfolds
<1>7. QED
  BY <1>1, <1>4, <1>6 DEF V

LEMMA Selects ==
  ASSUME NEW g, NEW q, NEW T, NEW sorted \in Seq(T), Distinct(sorted), NEW m \in Nat
  PROVE  Choice(select_diverse(g, sorted, q, m), T, m)
  BY DiverseChooses, FilledUpChooses DEF select_diverse

----------------------------------------------------------------------------
(* Linking.                                                                *)

LEMMA Elements == ASSUME NEW T, NEW s \in Seq(T) PROVE Len(s) \in Nat /\ \A i \in 1..Len(s) : s[i] \in T
  OBVIOUS

LEMMA GraphLists ==
  ASSUME NEW n \in Nat, NEW g, IsGraph(g, n)
  PROVE  /\ Len(g.ln) = n /\ g.vec \in [1..n -> Points]
         /\ \A m \in 1..n : g.ln[m] \in Seq(Seq(1..n)) /\ Len(g.ln[m]) \in Nat
         /\ \A m \in 1..n : \A k \in 1..Len(g.ln[m]) : g.ln[m][k] \in Seq(1..n)
<1>1. PICK T : T = Seq(1..n)
  OBVIOUS
<1>2. PICK TT : TT = Seq(T)
  OBVIOUS
<1>3. g.ln \in Seq(TT) /\ Len(g.ln) = n /\ g.vec \in [1..n -> Points]
  BY <1>1, <1>2 DEF IsGraph
<1>4. \A m \in 1..n : g.ln[m] \in TT
  BY <1>3, Elements
<1>5. \A m \in 1..n : Len(g.ln[m]) \in Nat /\ \A k \in 1..Len(g.ln[m]) : g.ln[m][k] \in T
  BY <1>2, <1>4, Elements
<1>6. QED
  BY <1>1, <1>2, <1>3, <1>4, <1>5

\* Only list k of node f is another one.
Relists(r, g, n, f, k, list) ==
    /\ IsGraph(r, n) /\ r.vec = g.vec /\ r.ln[f][k] = list
    /\ \A m \in 1..n : Len(r.ln[m]) = Len(g.ln[m])
    /\ \A m \in 1..n : \A j \in 1..Len(g.ln[m]) : m # f \/ j # k => r.ln[m][j] = g.ln[m][j]

LEMMA Relisted ==
  ASSUME NEW n \in Nat, NEW g, IsGraph(g, n), NEW f \in 1..n, NEW k \in 1..Len(g.ln[f]),
         NEW list \in Seq(1..n), NEW r, r = [g EXCEPT !.ln[f][k] = list]
  PROVE  Relists(r, g, n, f, k, list)
<1> DEFINE T == Seq(Seq(1..n))
<1>1. g = [vec |-> g.vec, ln |-> g.ln] /\ g.vec \in [1..n -> Points] /\ g.ln \in Seq(T) /\ Len(g.ln) = n
  BY DEF IsGraph
<1>2. PICK lists : lists = [g.ln[f] EXCEPT ![k] = list]
  OBVIOUS
<1>3. PICK ln : ln = [g.ln EXCEPT ![f] = lists]
  OBVIOUS
<1>4. r = [vec |-> g.vec, ln |-> ln]
  BY <1>1, <1>2, <1>3
<1>5. g.ln[f] \in T
  BY <1>1
<1>6. /\ lists \in T /\ Len(lists) = Len(g.ln[f]) /\ lists[k] = list
      /\ \A j \in 1..Len(g.ln[f]) : j # k => lists[j] = g.ln[f][j]
  BY <1>2, <1>5
<1> HIDE DEF T
<1>7. /\ ln \in Seq(T) /\ Len(ln) = n /\ ln[f] = lists
      /\ \A m \in 1..n : m # f => ln[m] = g.ln[m]
  BY <1>1, <1>3, <1>6
<1>8. IsGraph(r, n) /\ r.vec = g.vec /\ r.ln = ln
  <2>1. r.vec = g.vec /\ r.ln = ln
    BY <1>4
  <2>2. r = [vec |-> r.vec, ln |-> r.ln]
    BY <1>4
  <2>3. r.vec \in [1..n -> Points] /\ Len(r.ln) = n
    BY <1>1, <1>7, <2>1
  <2>4. r.ln \in Seq(T)
    BY <1>7, <2>1
  <2>5. QED
    BY <2>1, <2>2, <2>3, <2>4 DEF IsGraph, T
<1>9. \A m \in 1..n : Len(r.ln[m]) = Len(g.ln[m])
  BY <1>6, <1>7, <1>8
<1>10. ASSUME NEW m \in 1..n, NEW j \in 1..Len(g.ln[m]), m # f \/ j # k PROVE r.ln[m][j] = g.ln[m][j]
  BY <1>6, <1>7, <1>8, <1>10
<1>11. QED
  BY <1>6, <1>7, <1>8, <1>9, <1>10 DEF Relists

\* A list of layer k - 1 as insert wants it.
ListedWell(s, g, n, m, k) ==
    /\ s \in Seq(1..n) /\ Distinct(s) /\ Len(s) <= MaxLinks(k - 1)
    /\ \A j \in 1..Len(s) : s[j] # m /\ k <= Len(g.ln[s[j]])

WellLinked(g, n) == \A m \in 1..n : \A k \in 1..Len(g.ln[m]) : ListedWell(g.ln[m][k], g, n, m, k)

LEMMA LinksFit == \A layer \in Nat : MaxLinks(layer) \in Nat /\ M <= MaxLinks(layer)
<1>1. M \in Nat
  BY AnnSizes
<1>2. ASSUME NEW layer \in Nat PROVE MaxLinks(layer) \in Nat /\ M <= MaxLinks(layer)
  <2>1. CASE layer = 0
    BY <1>1, <2>1 DEF MaxLinks
  <2>2. CASE layer # 0
    BY <1>1, <2>2 DEF MaxLinks
  <2>3. QED
    BY <2>1, <2>2
<1>3. QED
  BY <1>2

\* The list of nb with node in it, or what is kept of it.
Answers(s, old, n, node, k) ==
    /\ s \in Seq(1..n) /\ Distinct(s) /\ Len(s) <= MaxLinks(k - 1)
    /\ \A j \in 1..Len(s) : s[j] = node \/ s[j] \in ToSet(old)

\* What a link changes: the list of node names nb, and nb answers.
LinkIs(y, x, n, node, nb, k) ==
    /\ IsGraph(y, n) /\ y.vec = x.vec
    /\ \A m \in 1..n : Len(y.ln[m]) = Len(x.ln[m])
    /\ y.ln[node][k] = Append(x.ln[node][k], nb)
    /\ Answers(y.ln[nb][k], x.ln[nb][k], n, node, k)
    /\ \A m \in 1..n : \A j \in 1..Len(x.ln[m]) :
          j # k \/ (m # node /\ m # nb) => y.ln[m][j] = x.ln[m][j]

LEMMA SelectsFrom ==
  ASSUME NEW g, NEW n \in Nat, g.vec \in [1..n -> Points], NEW q \in Points, NEW S, S \subseteq 1..n,
         NEW m \in Nat, NEW s, s = select_diverse(g, NearestFirst(g, S, q), q, m)
  PROVE  s \in Seq(1..n) /\ Distinct(s) /\ Len(s) <= m /\ \A j \in 1..Len(s) : s[j] \in S
<1>1. PICK sorted : sorted = NearestFirst(g, S, q)
  OBVIOUS
<1>2. sorted \in Seq(S) /\ Distinct(sorted)
  <2>1. Lists(sorted, S)
    BY <1>1, NearestFirstLists
  <2>2. QED
    BY <2>1 DEF Lists, Distinct
<1>3. Choice(s, S, m)
  BY <1>1, <1>2, Selects
<1>4. s \in Seq(S) /\ Distinct(s) /\ Len(s) <= m /\ Len(s) \in Nat
  BY <1>3 DEF Choice
<1>5. s = [j \in 1..Len(s) |-> s[j]] /\ \A j \in 1..Len(s) : s[j] \in S /\ s[j] \in 1..n
  BY <1>4
<1>6. s \in Seq(1..n)
  BY <1>4, <1>5
<1>7. QED
  BY <1>4, <1>5, <1>6

LEMMA LinkLinks ==
  ASSUME NEW n \in Nat, NEW x, IsGraph(x, n), NEW node \in 1..n, NEW nb \in 1..n, node # nb,
         NEW layer \in Nat, NEW k, k = layer + 1, k <= Len(x.ln[node]), k <= Len(x.ln[nb]),
         Distinct(x.ln[nb][k]), node \notin ToSet(x.ln[nb][k])
  PROVE  LinkIs(Link(x, node, nb, layer), x, n, node, nb, k)
<1>1. Len(x.ln) = n /\ x.vec \in [1..n -> Points] /\ k \in Nat /\ k >= 1 /\ k - 1 = layer
  <2>1. Len(x.ln) = n /\ x.vec \in [1..n -> Points]
    BY GraphLists
  <2>2. k \in Nat /\ k >= 1 /\ k - 1 = layer
    OBVIOUS
  <2>3. QED
    BY <2>1, <2>2
<1>2. \A m \in 1..n : x.ln[m] \in Seq(Seq(1..n)) /\ Len(x.ln[m]) \in Nat
  BY GraphLists
<1>3. k \in 1..Len(x.ln[node]) /\ k \in 1..Len(x.ln[nb])
  BY <1>1, <1>2
<1>4. x.ln[node][k] \in Seq(1..n) /\ x.ln[nb][k] \in Seq(1..n)
  BY <1>3, GraphLists
<1>5. PICK s1 : s1 = Append(x.ln[node][k], nb)
  OBVIOUS
<1>6. PICK x1 : x1 = Linking(x, node, nb, layer)
  OBVIOUS
<1>7. s1 \in Seq(1..n)
  BY <1>4, <1>5
<1>8. Relists(x1, x, n, node, k, s1)
  <2>1. x1 = [x EXCEPT !.ln[node][k] = s1]
    BY <1>5, <1>6 DEF Linking
  <2>2. QED
    BY <1>3, <1>7, <2>1, Relisted
<1>9. IsGraph(x1, n) /\ x1.ln[nb][k] = x.ln[nb][k] /\ k \in 1..Len(x1.ln[nb])
  BY <1>3, <1>8 DEF Relists
<1>10. PICK s2 : s2 = Append(x.ln[nb][k], node)
  OBVIOUS
<1>11. PICK both : both = Linking(x1, nb, node, layer)
  OBVIOUS
<1>12. s2 \in Seq(1..n) /\ Distinct(s2) /\ Len(s2) \in Nat /\ ToSet(s2) = ToSet(x.ln[nb][k]) \cup {node}
  <2>1. Extends(s2, x.ln[nb][k], node, 1..n)
    BY <1>4, <1>10, AppendsDistinct
  <2>2. s2 \in Seq(1..n) /\ Len(s2) \in Nat
    BY <1>4, <1>10
  <2>3. QED
    BY <2>1, <2>2 DEF Extends
<1>13. Relists(both, x1, n, nb, k, s2)
  <2>1. both = [x1 EXCEPT !.ln[nb][k] = s2]
    BY <1>9, <1>10, <1>11 DEF Linking
  <2>2. QED
    BY <1>9, <1>12, <2>1, Relisted
<1>14. MaxLinks(layer) \in Nat
  BY LinksFit
<1>15. PICK y : y = Link(x, node, nb, layer)
  OBVIOUS
<1>16. PICK s : y.ln[nb][k] = s /\ Answers(s, x.ln[nb][k], n, node, k) /\ Relists(y, x1, n, nb, k, s)
  <2>1. both.ln[nb][k] = s2
    BY <1>13 DEF Relists
  <2>2. CASE Len(s2) <= MaxLinks(layer)
    <3>1. y = both
      BY <1>6, <1>11, <1>12, <1>14, <1>15, <2>1, <2>2 DEF Link
    <3>2. \A j \in 1..Len(s2) : s2[j] \in ToSet(s2)
      BY <1>12, ToSetIs
    <3>3. Answers(s2, x.ln[nb][k], n, node, k)
      BY <1>1, <1>12, <2>2, <3>2 DEF Answers
    <3>4. QED
      BY <1>13, <2>1, <3>1, <3>3
  <2>3. CASE ~(Len(s2) <= MaxLinks(layer))
    <3>1. y = prune(both, nb, layer, MaxLinks(layer))
      BY <1>6, <1>11, <1>12, <1>14, <1>15, <2>1, <2>3 DEF Link
    <3>2. IsGraph(both, n) /\ k \in 1..Len(both.ln[nb])
      BY <1>9, <1>13 DEF Relists
    <3>3. PICK q : q = both.vec[nb]
      OBVIOUS
    <3>4. q \in Points /\ both.vec \in [1..n -> Points]
      BY <3>2, <3>3 DEF IsGraph
    <3>5. PICK S : S = ToSet(s2)
      OBVIOUS
    <3>6. S \subseteq 1..n
      BY <1>12, <3>5, ToSetIs
    <3>7. PICK s : s = select_diverse(both, NearestFirst(both, S, q), q, MaxLinks(layer))
      OBVIOUS
    <3>8. /\ s \in Seq(1..n) /\ Distinct(s) /\ Len(s) <= MaxLinks(layer)
          /\ \A j \in 1..Len(s) : s[j] \in S
      BY <1>14, <3>4, <3>6, <3>7, SelectsFrom
    <3>9. y = [both EXCEPT !.ln[nb][k] = s]
      BY <2>1, <3>1, <3>3, <3>5, <3>7 DEF prune
    <3>10. Relists(y, both, n, nb, k, s)
      BY <3>2, <3>8, <3>9, Relisted
    <3>11. Relists(y, x1, n, nb, k, s)
      <4>1. IsGraph(y, n) /\ y.vec = x1.vec /\ y.ln[nb][k] = s
        BY <1>13, <3>10 DEF Relists
      <4>2. \A m \in 1..n : Len(y.ln[m]) = Len(x1.ln[m]) /\ Len(both.ln[m]) = Len(x1.ln[m])
        BY <1>13, <3>10 DEF Relists
      <4>3. ASSUME NEW m \in 1..n, NEW j \in 1..Len(x1.ln[m]), m # nb \/ j # k
            PROVE  y.ln[m][j] = x1.ln[m][j]
        <5>1. both.ln[m][j] = x1.ln[m][j]
          BY <1>13, <4>3 DEF Relists
        <5>2. j \in 1..Len(both.ln[m])
          BY <4>2
        <5>3. y.ln[m][j] = both.ln[m][j]
          BY <3>10, <4>3, <5>2 DEF Relists
        <5>4. QED
          BY <5>1, <5>3
      <4>4. QED
        BY <4>1, <4>2, <4>3 DEF Relists
    <3>12. Answers(s, x.ln[nb][k], n, node, k)
      BY <1>1, <1>12, <3>5, <3>8 DEF Answers
    <3>13. y.ln[nb][k] = s
      BY <3>11 DEF Relists
    <3>14. QED
      BY <3>11, <3>12, <3>13
  <2>4. QED
    BY <2>2, <2>3
<1>17. IsGraph(y, n) /\ y.vec = x.vec /\ \A m \in 1..n : Len(y.ln[m]) = Len(x.ln[m])
  BY <1>8, <1>16 DEF Relists
<1>18. y.ln[node][k] = s1
  <2>1. k \in 1..Len(x1.ln[node]) /\ x1.ln[node][k] = s1
    BY <1>3, <1>8 DEF Relists
  <2>2. QED
    BY <1>16, <2>1 DEF Relists
<1>19. ASSUME NEW m \in 1..n, NEW j \in 1..Len(x.ln[m]), j # k \/ (m # node /\ m # nb)
       PROVE  y.ln[m][j] = x.ln[m][j]
  <2>1. j \in 1..Len(x1.ln[m]) /\ x1.ln[m][j] = x.ln[m][j]
    BY <1>8, <1>19 DEF Relists
  <2>2. y.ln[m][j] = x1.ln[m][j]
    BY <1>16, <1>19, <2>1 DEF Relists
  <2>3. QED
    BY <2>1, <2>2
<1>20. QED
  BY <1>5, <1>15, <1>16, <1>17, <1>18, <1>19 DEF LinkIs

\* No list k names the node.
Unnamed(g, n, node, k) ==
    \A m \in 1..n : k \in 1..Len(g.ln[m]) => \A j \in 1..Len(g.ln[m][k]) : g.ln[m][k][j] # node

\* The first i of the neighbours chosen for a node have been linked.
LinkInv(x, x0, n, node, nbs, k, i) ==
    /\ IsGraph(x, n) /\ x.vec = x0.vec
    /\ \A m \in 1..n : Len(x.ln[m]) = Len(x0.ln[m])
    /\ Len(x.ln[node][k]) = i /\ \A j \in 1..i : x.ln[node][k][j] = nbs[j]
    /\ \A m \in 1..n : m # node /\ k \in 1..Len(x0.ln[m]) =>
          /\ ListedWell(x.ln[m][k], x0, n, m, k)
          /\ (\A j \in 1..i : nbs[j] # m) => x.ln[m][k] = x0.ln[m][k]
    /\ \A m \in 1..n : \A j \in 1..Len(x0.ln[m]) : j # k => x.ln[m][j] = x0.ln[m][j]

LEMMA AnswersWell ==
  ASSUME NEW n \in Nat, NEW g, IsGraph(g, n), NEW node \in 1..n, NEW m \in 1..n, m # node,
         NEW k \in Nat, k <= Len(g.ln[node]),
         NEW old, ListedWell(old, g, n, m, k), NEW s, Answers(s, old, n, node, k)
  PROVE  ListedWell(s, g, n, m, k)
<1>1. /\ s \in Seq(1..n) /\ Distinct(s) /\ Len(s) <= MaxLinks(k - 1) /\ Len(s) \in Nat
      /\ \A j \in 1..Len(s) : s[j] = node \/ s[j] \in ToSet(old)
  BY DEF Answers
<1>2. old \in Seq(1..n) /\ \A j \in 1..Len(old) : old[j] # m /\ k <= Len(g.ln[old[j]])
  BY DEF ListedWell
<1>3. \A c \in ToSet(old) : c # m /\ k <= Len(g.ln[c])
  BY <1>2, ToSetIs
<1>4. \A j \in 1..Len(s) : s[j] # m /\ k <= Len(g.ln[s[j]])
  BY <1>1, <1>3
<1>5. QED
  BY <1>1, <1>4 DEF ListedWell

LEMMA LinksOneMore ==
  ASSUME NEW n \in Nat, NEW x0, IsGraph(x0, n), NEW node \in 1..n, NEW layer \in Nat, NEW k, k = layer + 1,
         k <= Len(x0.ln[node]), Unnamed(x0, n, node, k),
         NEW nbs \in Seq(Having(x0, n, node, layer)), Distinct(nbs),
         NEW i \in 1..Len(nbs), NEW x, LinkInv(x, x0, n, node, nbs, k, i - 1)
  PROVE  LinkInv(Link(x, node, nbs[i], layer), x0, n, node, nbs, k, i)
<1>1. PICK nb : nb = nbs[i]
  OBVIOUS
<1>2. nb \in 1..n /\ nb # node /\ layer < Len(x0.ln[nb])
  <2>1. nb \in Having(x0, n, node, layer)
    BY <1>1
  <2>2. QED
    BY <2>1 DEF Having
<1>3. Len(nbs) \in Nat /\ i \in Nat /\ k \in Nat /\ k >= 1
  OBVIOUS
<1>4. \A m \in 1..n : Len(x0.ln[m]) \in Nat
  BY GraphLists
<1>5. k <= Len(x0.ln[nb]) /\ k \in 1..Len(x0.ln[nb]) /\ k \in 1..Len(x0.ln[node])
  BY <1>2, <1>3, <1>4
<1>6. IsGraph(x, n) /\ x.vec = x0.vec /\ \A m \in 1..n : Len(x.ln[m]) = Len(x0.ln[m])
  BY DEF LinkInv
<1>7. /\ ListedWell(x.ln[nb][k], x0, n, nb, k)
      /\ x.ln[nb][k] = x0.ln[nb][k]
  <2>1. \A j \in 1..(i - 1) : nbs[j] # nb
    <3>1. \A j \in 1..(i - 1) : j \in 1..Len(nbs) /\ j # i
      BY <1>3
    <3>2. QED
      BY <1>1, <3>1 DEF Distinct
  <2>2. QED
    BY <1>2, <1>5, <2>1 DEF LinkInv
<1>8. /\ x.ln[nb][k] \in Seq(1..n) /\ Distinct(x.ln[nb][k])
      /\ \A j \in 1..Len(x.ln[nb][k]) : x.ln[nb][k][j] # node
  BY <1>2, <1>5, <1>7 DEF ListedWell, Unnamed
<1>9. node \notin ToSet(x.ln[nb][k])
  BY <1>8, ToSetIs
<1>10. PICK y : y = Link(x, node, nb, layer)
  OBVIOUS
<1>11. LinkIs(y, x, n, node, nb, k)
  BY <1>2, <1>5, <1>6, <1>8, <1>9, <1>10, LinkLinks
<1>12. IsGraph(y, n) /\ y.vec = x0.vec /\ \A m \in 1..n : Len(y.ln[m]) = Len(x0.ln[m])
  BY <1>6, <1>11 DEF LinkIs
<1>13. Len(y.ln[node][k]) = i /\ \A j \in 1..i : y.ln[node][k][j] = nbs[j]
  <2>1. PICK s : s = x.ln[node][k]
    OBVIOUS
  <2>2. s \in Seq(1..n)
    BY <1>5, <1>6, <2>1, GraphLists
  <2>3. Len(s) = i - 1 /\ \A j \in 1..(i - 1) : s[j] = nbs[j]
    BY <2>1 DEF LinkInv
  <2>4. PICK t : t = Append(s, nb)
    OBVIOUS
  <2>5. y.ln[node][k] = t
    BY <1>11, <2>1, <2>4 DEF LinkIs
  <2>6. Len(t) = i /\ t[i] = nb /\ \A j \in 1..(i - 1) : t[j] = s[j]
    BY <1>2, <1>3, <2>2, <2>3, <2>4
  <2>7. \A j \in 1..i : j = i \/ j \in 1..(i - 1)
    BY <1>3
  <2>8. \A j \in 1..i : t[j] = nbs[j]
    BY <1>1, <2>3, <2>6, <2>7
  <2>9. QED
    BY <2>5, <2>6, <2>8
<1>14. ASSUME NEW m \in 1..n, m # node, k \in 1..Len(x0.ln[m])
       PROVE  /\ ListedWell(y.ln[m][k], x0, n, m, k)
              /\ (\A j \in 1..i : nbs[j] # m) => y.ln[m][k] = x0.ln[m][k]
  <2>1. CASE m = nb
    <3>1. Answers(y.ln[nb][k], x.ln[nb][k], n, node, k)
      BY <1>11 DEF LinkIs
    <3>2. ListedWell(y.ln[nb][k], x0, n, nb, k)
      BY <1>2, <1>3, <1>7, <3>1, AnswersWell
    <3>3. i \in 1..i
      BY <1>3
    <3>4. QED
      BY <1>1, <2>1, <3>2, <3>3
  <2>2. CASE m # nb
    <3>1. y.ln[m][k] = x.ln[m][k]
      BY <1>6, <1>11, <1>14, <2>2 DEF LinkIs
    <3>2. \A j \in 1..(i - 1) : j \in 1..i
      BY <1>3
    <3>3. QED
      BY <1>14, <3>1, <3>2 DEF LinkInv
  <2>3. QED
    BY <2>1, <2>2
<1>15. ASSUME NEW m \in 1..n, NEW j \in 1..Len(x0.ln[m]), j # k PROVE y.ln[m][j] = x0.ln[m][j]
  <2>1. y.ln[m][j] = x.ln[m][j]
    BY <1>6, <1>11, <1>15 DEF LinkIs
  <2>2. x.ln[m][j] = x0.ln[m][j]
    BY <1>15 DEF LinkInv
  <2>3. QED
    BY <2>1, <2>2
<1>16. QED
  BY <1>1, <1>10, <1>12, <1>13, <1>14, <1>15 DEF LinkInv

LEMMA LinkAllLinks ==
  ASSUME NEW n \in Nat, NEW x0, IsGraph(x0, n), WellLinked(x0, n),
         NEW node \in 1..n, NEW layer \in Nat, NEW k, k = layer + 1,
         k <= Len(x0.ln[node]), x0.ln[node][k] = <<>>, Unnamed(x0, n, node, k),
         NEW nbs \in Seq(Having(x0, n, node, layer)), Distinct(nbs)
  PROVE  LinkInv(LinkAll(x0, node, nbs, layer), x0, n, node, nbs, k, Len(nbs))
<1> DEFINE N == Len(nbs)
<1>1. PICK U : U = [vec : {x0.vec}, ln : Seq(Seq(Seq(1..n)))]
  OBVIOUS
<1>2. PICK W : W = [i \in 0..N |-> {x \in U : LinkInv(x, x0, n, node, nbs, k, i)}]
  OBVIOUS
<1>3. N \in Nat
  OBVIOUS
<1>4. \A x : IsGraph(x, n) /\ x.vec = x0.vec => x \in U
  BY <1>1 DEF IsGraph
<1>5. x0 \in W[0]
  <2>1. LinkInv(x0, x0, n, node, nbs, k, 0)
    BY DEF LinkInv, WellLinked
  <2>2. x0 \in U
    BY <1>4
  <2>3. QED
    BY <1>2, <1>3, <2>1, <2>2
<1>6. ASSUME NEW i \in 1..N, NEW x \in W[i - 1] PROVE Link(x, node, nbs[i], layer) \in W[i]
  <2>1. i \in 0..N /\ i - 1 \in 0..N
    BY <1>3
  <2>2. LinkInv(x, x0, n, node, nbs, k, i - 1)
    BY <1>2, <1>6, <2>1
  <2>3. PICK y : y = Link(x, node, nbs[i], layer)
    OBVIOUS
  <2>4. LinkInv(y, x0, n, node, nbs, k, i)
    BY <2>2, <2>3, LinksOneMore
  <2>5. y \in U
    BY <1>4, <2>4 DEF LinkInv
  <2>6. QED
    BY <1>2, <2>1, <2>3, <2>4, <2>5
<1>7. LinkAll(x0, node, nbs, layer) \in W[N]
  BY <1>3, <1>5, <1>6, LinkAllUnfolds
<1>8. QED
  BY <1>2, <1>3, <1>7

\* A node is linked on the layers above k, and no list below names it yet.
Building(g, g0, n, node, k) ==
    /\ IsGraph(g, n) /\ g.vec = g0.vec /\ WellLinked(g, n)
    /\ \A m \in 1..n : Len(g.ln[m]) = Len(g0.ln[m])
    /\ \A j \in 1..k : j \in 1..Len(g0.ln[node]) => g.ln[node][j] = <<>> /\ Unnamed(g, n, node, j)

LEMMA LinkedBelow ==
  ASSUME NEW n \in Nat, NEW g0, IsGraph(g0, n), NEW node \in 1..n, NEW k \in Nat, k >= 1,
         k <= Len(g0.ln[node]), NEW g, Building(g, g0, n, node, k),
         NEW nbs \in Seq(Having(g, n, node, k - 1)), Distinct(nbs), Len(nbs) <= M,
         NEW r, LinkInv(r, g, n, node, nbs, k, Len(nbs))
  PROVE  Building(r, g0, n, node, k - 1)
<1>1. /\ IsGraph(g, n) /\ g.vec = g0.vec /\ WellLinked(g, n)
      /\ \A m \in 1..n : Len(g.ln[m]) = Len(g0.ln[m])
  BY DEF Building
<1>2. /\ IsGraph(r, n) /\ r.vec = g0.vec
      /\ \A m \in 1..n : Len(r.ln[m]) = Len(g.ln[m])
      /\ \A m \in 1..n : \A j \in 1..Len(g.ln[m]) : j # k => r.ln[m][j] = g.ln[m][j]
  BY <1>1 DEF LinkInv
<1>3. \A m \in 1..n : Len(g.ln[m]) \in Nat
  BY <1>1, GraphLists
<1>4. \A s, m, j : ListedWell(s, g, n, m, j) => ListedWell(s, r, n, m, j)
  <2>1. ASSUME NEW s, NEW m, NEW j, ListedWell(s, g, n, m, j) PROVE ListedWell(s, r, n, m, j)
    <3>1. /\ s \in Seq(1..n) /\ Distinct(s) /\ Len(s) <= MaxLinks(j - 1)
          /\ \A i \in 1..Len(s) : s[i] # m /\ j <= Len(g.ln[s[i]])
      BY <2>1 DEF ListedWell
    <3>2. \A i \in 1..Len(s) : s[i] \in 1..n
      BY <3>1
    <3>3. \A i \in 1..Len(s) : s[i] # m /\ j <= Len(r.ln[s[i]])
      BY <1>2, <3>1, <3>2
    <3>4. QED
      BY <3>1, <3>3 DEF ListedWell
  <2>2. QED
    BY <2>1
<1>5. ASSUME NEW m \in 1..n, NEW j \in 1..Len(r.ln[m]) PROVE ListedWell(r.ln[m][j], g, n, m, j)
  <2>1. j \in 1..Len(g.ln[m])
    BY <1>2
  <2>2. CASE j # k
    BY <1>1, <1>2, <2>1, <2>2 DEF WellLinked
  <2>3. CASE j = k /\ m # node
    BY <2>1, <2>3 DEF LinkInv
  <2>4. CASE j = k /\ m = node
    <3>1. PICK s : s = r.ln[node][k]
      OBVIOUS
    <3>2. Len(s) = Len(nbs) /\ \A i \in 1..Len(nbs) : s[i] = nbs[i]
      BY <3>1 DEF LinkInv
    <3>3. s \in Seq(1..n)
      BY <1>2, <2>4, <3>1, GraphLists
    <3>4. Distinct(s)
      BY <3>2 DEF Distinct
    <3>5. k - 1 \in Nat
      OBVIOUS
    <3>6. Len(s) <= MaxLinks(k - 1)
      <4>1. MaxLinks(k - 1) \in Nat /\ M <= MaxLinks(k - 1)
        BY <3>5, LinksFit
      <4>2. M \in Nat /\ Len(nbs) \in Nat
        BY AnnSizes
      <4>3. QED
        BY <3>2, <4>1, <4>2
    <3>7. \A i \in 1..Len(s) : s[i] # node /\ k <= Len(g.ln[s[i]])
      <4>1. \A i \in 1..Len(nbs) : nbs[i] \in Having(g, n, node, k - 1)
        OBVIOUS
      <4>2. \A i \in 1..Len(nbs) : nbs[i] \in 1..n /\ nbs[i] # node /\ k - 1 < Len(g.ln[nbs[i]])
        BY <4>1 DEF Having
      <4>3. \A i \in 1..Len(nbs) : k <= Len(g.ln[nbs[i]])
        BY <1>3, <4>2
      <4>4. QED
        BY <3>2, <4>2, <4>3
    <3>8. QED
      BY <2>4, <3>1, <3>3, <3>4, <3>6, <3>7 DEF ListedWell
  <2>5. QED
    BY <2>2, <2>3, <2>4
<1>6. WellLinked(r, n)
  BY <1>4, <1>5 DEF WellLinked
<1>7. ASSUME NEW j \in 1..(k - 1), j \in 1..Len(g0.ln[node])
      PROVE  r.ln[node][j] = <<>> /\ Unnamed(r, n, node, j)
  <2>1. j \in 1..k /\ j # k
    OBVIOUS
  <2>2. g.ln[node][j] = <<>> /\ Unnamed(g, n, node, j)
    BY <1>7, <2>1 DEF Building
  <2>3. \A m \in 1..n : j \in 1..Len(r.ln[m]) => j \in 1..Len(g.ln[m]) /\ r.ln[m][j] = g.ln[m][j]
    BY <1>2, <2>1
  <2>4. r.ln[node][j] = <<>>
    BY <1>1, <1>2, <1>7, <2>1, <2>2
  <2>5. Unnamed(r, n, node, j)
    BY <2>2, <2>3 DEF Unnamed
  <2>6. QED
    BY <2>4, <2>5
<1>8. \A m \in 1..n : Len(r.ln[m]) = Len(g0.ln[m])
  BY <1>1, <1>2
<1>9. QED
  BY <1>2, <1>6, <1>7, <1>8 DEF Building

\* Links of a layer on which a node is not linked yet lead around it.
LEMMA LeadsAround ==
  ASSUME NEW n \in Nat, NEW g, IsGraph(g, n), WellLinked(g, n), NEW node, NEW layer \in Nat,
         Unnamed(g, n, node, layer + 1)
  PROVE  StaysIn(g, layer, Having(g, n, node, layer))
<1> DEFINE V == Having(g, n, node, layer)
<1>1. ASSUME NEW m \in V PROVE Neighbours(g, m, layer) \in Seq(V)
  <2>1. m \in 1..n /\ layer < Len(g.ln[m]) /\ Len(g.ln[m]) \in Nat
    BY GraphLists DEF Having
  <2>2. PICK k : k = layer + 1
    OBVIOUS
  <2>3. k \in 1..Len(g.ln[m])
    BY <2>1, <2>2
  <2>4. PICK s : s = g.ln[m][k]
    OBVIOUS
  <2>5. ListedWell(s, g, n, m, k)
    BY <2>1, <2>3, <2>4 DEF WellLinked
  <2>6. s \in Seq(1..n) /\ \A j \in 1..Len(s) : k <= Len(g.ln[s[j]])
    BY <2>5 DEF ListedWell
  <2>7. \A j \in 1..Len(s) : s[j] # node
    BY <2>1, <2>2, <2>3, <2>4 DEF Unnamed
  <2>8. Len(s) \in Nat /\ s = [j \in 1..Len(s) |-> s[j]] /\ \A j \in 1..Len(s) : s[j] \in 1..n
    BY <2>6
  <2>9. \A j \in 1..Len(s) : layer < Len(g.ln[s[j]])
    <3>1. \A j \in 1..Len(s) : Len(g.ln[s[j]]) \in Nat
      BY <2>8, GraphLists
    <3>2. QED
      BY <2>2, <2>6, <3>1
  <2>10. \A j \in 1..Len(s) : s[j] \in V
    BY <2>7, <2>8, <2>9 DEF Having
  <2> HIDE DEF V
  <2>11. s \in Seq(V)
    BY <2>8, <2>10
  <2>12. Neighbours(g, m, layer) = s
    BY <2>1, <2>2, <2>4 DEF Neighbours
  <2>13. QED
    BY <2>11, <2>12
<1>2. QED
  BY <1>1 DEF StaysIn

\* One layer of an insert under way.
Placed(a, g0, n, node, k) ==
    /\ a = [g |-> a.g, cur |-> a.cur] /\ Building(a.g, g0, n, node, k)
    /\ a.cur \in 1..n /\ a.cur # node /\ k <= Len(g0.ln[a.cur])

LEMMA ConnectPlaces ==
  ASSUME NEW n \in Nat, NEW g0, IsGraph(g0, n), NEW node \in 1..n, NEW v \in Points,
         NEW layer \in Nat, layer < Len(g0.ln[node]), NEW a, Placed(a, g0, n, node, layer + 1)
  PROVE  Placed(Connect(a, node, v, layer), g0, n, node, layer)
<1>1. PICK k : k = layer + 1
  OBVIOUS
<1>2. PICK g : g = a.g
  OBVIOUS
<1>3. PICK V : V = Having(g, n, node, layer)
  OBVIOUS
<1>4. /\ Building(g, g0, n, node, k) /\ IsGraph(g, n) /\ g.vec = g0.vec /\ WellLinked(g, n)
      /\ \A m \in 1..n : Len(g.ln[m]) = Len(g0.ln[m])
  BY <1>1, <1>2 DEF Placed, Building
<1>5. /\ Len(g.ln) = n /\ g.vec \in [1..n -> Points]
      /\ \A m \in 1..n : Len(g0.ln[m]) \in Nat
  BY <1>4, GraphLists
<1>6. k \in Nat /\ k >= 1 /\ k \in 1..k /\ k - 1 = layer /\ k \in 1..Len(g0.ln[node]) /\ k <= Len(g0.ln[node])
  BY <1>1, <1>5
<1>7. g.ln[node][k] = <<>> /\ Unnamed(g, n, node, k)
  BY <1>4, <1>6 DEF Building
<1>8. StaysIn(g, layer, V)
  BY <1>1, <1>3, <1>4, <1>7, LeadsAround
<1>9. V \subseteq 1..n /\ a.cur \in V
  <2>1. a.cur \in 1..n /\ a.cur # node /\ k <= Len(g0.ln[a.cur])
    BY <1>1 DEF Placed
  <2>2. layer < Len(g.ln[a.cur])
    BY <1>1, <1>4, <1>5, <2>1
  <2>3. QED
    BY <1>3, <2>1, <2>2 DEF Having
<1>10. PICK found : found = beam_admit(g, v, a.cur, layer, EfConstruction, DOMAIN g.ln)
  OBVIOUS
<1>11. found \in Seq(V) /\ Distinct(found)
  BY <1>5, <1>8, <1>9, <1>10, BeamReturns
<1>12. PICK chosen : chosen = select_diverse(g, found, v, M)
  OBVIOUS
<1>13. M \in Nat
  BY AnnSizes
<1>14. chosen \in Seq(V) /\ Distinct(chosen) /\ Len(chosen) <= M
  <2>1. Choice(chosen, V, M)
    BY <1>11, <1>12, <1>13, Selects
  <2>2. QED
    BY <2>1 DEF Choice
<1>15. PICK r : r = LinkAll(g, node, chosen, layer)
  OBVIOUS
<1>16. LinkInv(r, g, n, node, chosen, k, Len(chosen))
  <2>1. chosen \in Seq(Having(g, n, node, layer))
    BY <1>3, <1>14
  <2>2. k <= Len(g.ln[node])
    BY <1>4, <1>6
  <2>3. QED
    BY <1>1, <1>4, <1>7, <1>14, <1>15, <2>1, <2>2, LinkAllLinks
<1>17. Building(r, g0, n, node, layer)
  <2>1. chosen \in Seq(Having(g, n, node, k - 1))
    BY <1>3, <1>6, <1>14
  <2>2. Building(r, g0, n, node, k - 1)
    BY <1>4, <1>6, <1>14, <1>16, <2>1, LinkedBelow
  <2>3. QED
    BY <1>6, <2>2
<1>18. PICK cur : cur = IF chosen = <<>> THEN a.cur ELSE chosen[1]
  OBVIOUS
<1>19. cur \in V
  <2>1. CASE chosen = <<>>
    BY <1>9, <1>18, <2>1
  <2>2. CASE chosen # <<>>
    <3>1. 1 \in 1..Len(chosen)
      BY <1>14, <2>2
    <3>2. QED
      BY <1>14, <1>18, <2>2, <3>1, Elements
  <2>3. QED
    BY <2>1, <2>2
<1>20. cur \in 1..n /\ cur # node /\ layer <= Len(g0.ln[cur])
  <2>1. cur \in 1..n /\ cur # node /\ layer < Len(g.ln[cur])
    BY <1>3, <1>19 DEF Having
  <2>2. QED
    BY <1>4, <1>5, <2>1
<1>21. Connect(a, node, v, layer) = [g |-> r, cur |-> cur]
  BY <1>2, <1>10, <1>12, <1>15, <1>18 DEF Connect
<1>22. QED
  BY <1>17, <1>20, <1>21 DEF Placed

LEMMA ConnectAllPlaces ==
  ASSUME NEW n \in Nat, NEW g0, IsGraph(g0, n), NEW node \in 1..n, NEW v \in Points,
         NEW last \in Nat, last < Len(g0.ln[node]), NEW a, Placed(a, g0, n, node, last + 1)
  PROVE  Building(ConnectAll(a, node, v, last).g, g0, n, node, 0)
<1> DEFINE N == last + 1
<1>1. PICK U : U = [g : [vec : {g0.vec}, ln : Seq(Seq(Seq(1..n)))], cur : 1..n]
  OBVIOUS
<1>2. PICK W : W = [i \in 0..N |-> {x \in U : Placed(x, g0, n, node, N - i)}]
  OBVIOUS
<1>3. N \in Nat
  OBVIOUS
<1>4. \A x, k : Placed(x, g0, n, node, k) => x \in U
  <2>1. ASSUME NEW x, NEW k, Placed(x, g0, n, node, k) PROVE x \in U
    <3>1. x = [g |-> x.g, cur |-> x.cur] /\ x.cur \in 1..n /\ IsGraph(x.g, n) /\ x.g.vec = g0.vec
      BY <2>1 DEF Placed, Building
    <3>2. x.g \in [vec : {g0.vec}, ln : Seq(Seq(Seq(1..n)))]
      BY <3>1 DEF IsGraph
    <3>3. QED
      BY <1>1, <3>1, <3>2
  <2>2. QED
    BY <2>1
<1>5. a \in W[0]
  <2>1. Placed(a, g0, n, node, N - 0) /\ 0 \in 0..N
    BY <1>3
  <2>2. QED
    BY <1>2, <1>4, <2>1
<1>6. ASSUME NEW i \in 1..N, NEW x \in W[i - 1] PROVE Connect(x, node, v, last + 1 - i) \in W[i]
  <2>1. i \in 0..N /\ i - 1 \in 0..N
    BY <1>3
  <2>2. PICK layer : layer = last + 1 - i
    OBVIOUS
  <2>3. layer \in Nat /\ layer = N - i /\ layer + 1 = N - (i - 1) /\ layer <= last
    BY <1>3, <2>2
  <2>4. Placed(x, g0, n, node, layer + 1)
    BY <1>2, <1>6, <2>1, <2>3
  <2>5. layer < Len(g0.ln[node])
    <3>1. Len(g0.ln[node]) \in Nat
      BY GraphLists
    <3>2. QED
      BY <2>3, <3>1
  <2>6. PICK y : y = Connect(x, node, v, layer)
    OBVIOUS
  <2>7. Placed(y, g0, n, node, layer)
    BY <2>3, <2>4, <2>5, <2>6, ConnectPlaces
  <2>8. y \in U
    BY <1>4, <2>7
  <2>9. y \in W[i]
    BY <1>2, <2>1, <2>3, <2>7, <2>8
  <2>10. QED
    BY <2>2, <2>6, <2>9
<1>7. ConnectAll(a, node, v, last) \in W[last + 1]
  <2>1. (last + 1) \in Nat
    OBVIOUS
  <2>2. QED
    BY <1>5, <1>6, <2>1, ConnectAllUnfolds
<1>8. N \in 0..N /\ N - N = 0
  BY <1>3
<1>9. QED
  BY <1>2, <1>7, <1>8 DEF Placed

----------------------------------------------------------------------------
(* The store: what is read for a node is what was pushed for it.           *)

Kept(v, p) == v \in {p, Encode(p)}

\* The store holds the pushed vectors, each as it was or encoded.
Holds(st, ps) ==
    /\ st = [base |-> st.base, tail |-> st.tail, warmup |-> st.warmup, trained |-> st.trained]
    /\ st.base \in Seq(Points) /\ st.tail \in Seq(Points) /\ st.warmup \in Seq(Points)
    /\ ps \in Seq(Points) /\ st.trained \in BOOLEAN
    /\ st.trained =>
          /\ st.warmup = <<>> /\ Len(ps) = Len(st.base) + Len(st.tail)
          /\ \A i \in 1..Len(st.base) : Kept(st.base[i], ps[i])
          /\ \A i \in 1..Len(st.tail) : Kept(st.tail[i], ps[Len(st.base) + i])
    /\ ~st.trained => st.base = <<>> /\ st.tail = <<>> /\ st.warmup = ps

LEMMA EncodesPoint == \A v \in Points : Encode(v) \in Points
<1>1. \A i \in Int : 2 * (i \div 2) \in Int
  OBVIOUS
<1>2. SUFFICES ASSUME NEW v \in Points PROVE Encode(v) \in Points
  OBVIOUS
<1>3. v[1] \in Int /\ v[2] \in Int
  BY DEF Points
<1>4. QED
  BY <1>1, <1>3 DEF Encode, Points

LEMMA Divides ==
  ASSUME NEW a \in Nat, NEW p \in Nat \ {0}
  PROVE  /\ a \div p \in Nat /\ a % p \in 0..(p - 1)
         /\ a = ((a \div p) * p) + (a % p)
         /\ ((a \div p) + 1) * p = ((a \div p) * p) + p
  OBVIOUS

LEMMA PagesTrue ==
  ASSUME NEW rows \in Seq(Points), NEW node \in 1..Len(rows)
  PROVE  PagedWith(rows, node) = rows[node]
<1>1. PerPage \in Nat \ {0} /\ node - 1 \in Nat /\ Len(rows) \in Nat
  BY AnnSizes
<1>2. PICK d, r : d = (node - 1) \div PerPage /\ r = (node - 1) % PerPage
  OBVIOUS
<1>3. PICK e : e = d * PerPage
  OBVIOUS
<1>4. d \in Nat /\ r \in 0..(PerPage - 1) /\ e \in Nat /\ node - 1 = e + r /\ (d + 1) * PerPage = e + PerPage
  <2>1. PICK a, p : a = node - 1 /\ p = PerPage
    OBVIOUS
  <2>2. a \in Nat /\ p \in Nat \ {0}
    BY <1>1, <2>1
  <2>3. d = a \div p /\ r = a % p /\ e = d * p
    BY <1>2, <1>3, <2>1
  <2>4. /\ a \div p \in Nat /\ a % p \in 0..(p - 1)
        /\ a = ((a \div p) * p) + (a % p)
        /\ ((a \div p) + 1) * p = ((a \div p) * p) + p
    BY <2>2, Divides
  <2>5. d \in Nat /\ r \in 0..(p - 1) /\ a = e + r /\ (d + 1) * p = e + p
    BY <2>3, <2>4
  <2>6. e \in Nat
    BY <2>2, <2>3, <2>5
  <2>7. QED
    BY <2>1, <2>5, <2>6
<1>5. PICK b : b = IF e + PerPage < Len(rows) THEN e + PerPage ELSE Len(rows)
  OBVIOUS
<1>6. page(rows, d) = SubSeq(rows, e + 1, b)
  BY <1>3, <1>4, <1>5 DEF page
<1>7. b \in Nat /\ b <= Len(rows) /\ r + 1 \in 1..(b - (e + 1) + 1) /\ e + 1 \in 1..(Len(rows) + 1)
  BY <1>1, <1>4, <1>5
<1>8. SubSeq(rows, e + 1, b)[r + 1] = rows[(e + 1) + (r + 1) - 1]
  BY <1>1, <1>4, <1>7
<1>9. (e + 1) + (r + 1) - 1 = node
  BY <1>1, <1>4
<1>10. QED
  BY <1>2, <1>6, <1>8, <1>9 DEF PagedWith

LEMMA ReadsTrue ==
  ASSUME NEW st, NEW ps, Holds(st, ps), NEW node \in 1..Len(ps)
  PROVE  Kept(materialize(st, node), ps[node]) /\ materialize(st, node) \in Points
<1>1. /\ st.base \in Seq(Points) /\ st.tail \in Seq(Points) /\ st.warmup \in Seq(Points)
      /\ ps \in Seq(Points) /\ Len(ps) \in Nat /\ Len(st.base) \in Nat /\ Len(st.tail) \in Nat
  BY DEF Holds
<1>2. ps[node] \in Points
  BY <1>1
<1>3. \A v : Kept(v, ps[node]) => v \in Points
  BY <1>2, EncodesPoint DEF Kept
<1>4. CASE ~st.trained
  <2>1. materialize(st, node) = ps[node]
    BY <1>4 DEF materialize, Holds
  <2>2. QED
    BY <1>2, <2>1 DEF Kept
<1>5. CASE st.trained /\ node <= Len(st.base)
  <2>1. node \in 1..Len(st.base)
    BY <1>1, <1>5
  <2>2. materialize(st, node) = st.base[node]
    BY <1>1, <1>5, <2>1, PagesTrue DEF materialize
  <2>3. Kept(st.base[node], ps[node])
    BY <1>5, <2>1 DEF Holds
  <2>4. QED
    BY <1>3, <2>2, <2>3
<1>6. CASE st.trained /\ ~(node <= Len(st.base))
  <2>1. PICK i : i = node - Len(st.base)
    OBVIOUS
  <2>2. Len(ps) = Len(st.base) + Len(st.tail)
    BY <1>6 DEF Holds
  <2>3. i \in 1..Len(st.tail) /\ Len(st.base) + i = node
    <3>1. PICK b, t : b = Len(st.base) /\ t = Len(st.tail)
      OBVIOUS
    <3>2. b \in Nat /\ t \in Nat /\ node \in 1..(b + t) /\ ~(node <= b) /\ i = node - b
      BY <1>1, <1>6, <2>1, <2>2, <3>1
    <3>3. i \in 1..t /\ b + i = node
      BY <3>2
    <3>4. QED
      BY <3>1, <3>3
  <2>4. materialize(st, node) = st.tail[i]
    BY <1>6, <2>1 DEF materialize
  <2>5. Kept(st.tail[i], ps[Len(st.base) + i])
    BY <1>6, <2>3 DEF Holds
  <2>6. QED
    BY <1>3, <2>3, <2>4, <2>5
<1>7. QED
  BY <1>4, <1>5, <1>6

LEMMA TrainHolds ==
  ASSUME NEW st, NEW ps, Holds(st, ps), ~st.trained
  PROVE  Holds(Train(st), ps)
<1>1. /\ st = [base |-> <<>>, tail |-> <<>>, warmup |-> ps, trained |-> FALSE]
      /\ ps \in Seq(Points)
  BY DEF Holds
<1>2. PICK coded : coded = [i \in DOMAIN ps |-> Encode(ps[i])]
  OBVIOUS
<1>3. Len(ps) \in Nat /\ DOMAIN ps = 1..Len(ps) /\ \A i \in 1..Len(ps) : ps[i] \in Points
  BY <1>1
<1>4. coded \in Seq(Points) /\ Len(coded) = Len(ps) /\ \A i \in 1..Len(ps) : coded[i] = Encode(ps[i])
  <2>1. coded = [i \in 1..Len(ps) |-> Encode(ps[i])]
    BY <1>2, <1>3
  <2>2. \A i \in 1..Len(ps) : Encode(ps[i]) \in Points
    BY <1>3, EncodesPoint
  <2>3. QED
    BY <1>3, <2>1, <2>2
<1>5. <<>> \o coded = coded
  BY <1>4
<1>6. PICK r : r = [base |-> <<>>, tail |-> coded, warmup |-> <<>>, trained |-> TRUE]
  OBVIOUS
<1>7. Train(st) = r
  <2>1. Train(st) = [st EXCEPT !.tail = <<>> \o coded, !.warmup = <<>>, !.trained = TRUE]
    BY <1>1, <1>2 DEF Train
  <2>2. QED
    BY <1>1, <1>5, <1>6, <2>1
<1>8. <<>> \in Seq(Points) /\ Len(<<>>) = 0
  OBVIOUS
<1>9. \A i \in 1..Len(coded) : Kept(coded[i], ps[0 + i])
  BY <1>3, <1>4 DEF Kept
<1>10. Holds(r, ps)
  BY <1>1, <1>3, <1>4, <1>6, <1>8, <1>9 DEF Holds
<1>11. QED
  BY <1>7, <1>10

LEMMA PushWarms ==
  ASSUME NEW ps, NEW v, NEW qs, NEW st, NEW warm
  PROVE  /\ st = [base |-> <<>>, tail |-> <<>>, warmup |-> ps, trained |-> FALSE]
         /\ warm = [base |-> <<>>, tail |-> <<>>, warmup |-> qs, trained |-> FALSE]
         /\ qs = Append(ps, v)
         => push(st, v) \in {warm, Train(warm)}
<1>1. SUFFICES ASSUME /\ st = [base |-> <<>>, tail |-> <<>>, warmup |-> ps, trained |-> FALSE]
                      /\ warm = [base |-> <<>>, tail |-> <<>>, warmup |-> qs, trained |-> FALSE]
                      /\ qs = Append(ps, v)
               PROVE  push(st, v) \in {warm, Train(warm)}
  OBVIOUS
<1>2. warm = [st EXCEPT !.warmup = qs]
  <2>1. PICK e, d : e = <<>> /\ d = FALSE
    OBVIOUS
  <2>2. /\ st = [base |-> e, tail |-> e, warmup |-> ps, trained |-> d]
        /\ warm = [base |-> e, tail |-> e, warmup |-> qs, trained |-> d]
    BY <1>1, <2>1
  <2>3. QED
    BY <2>2
<1>3. st.trained = FALSE /\ Append(st.warmup, v) = qs
  BY <1>1
<1>4. QED
  BY <1>2, <1>3 DEF push

LEMMA PushHolds ==
  ASSUME NEW st, NEW ps, Holds(st, ps), NEW v \in Points
  PROVE  Holds(push(st, v), Append(ps, v))
<1>1. PICK qs : qs = Append(ps, v)
  OBVIOUS
<1>2. /\ st = [base |-> st.base, tail |-> st.tail, warmup |-> st.warmup, trained |-> st.trained]
      /\ st.base \in Seq(Points) /\ st.tail \in Seq(Points) /\ st.warmup \in Seq(Points)
      /\ ps \in Seq(Points) /\ st.trained \in BOOLEAN
  BY DEF Holds
<1>3. /\ qs \in Seq(Points) /\ Len(qs) = Len(ps) + 1 /\ qs[Len(ps) + 1] = v
      /\ Len(ps) \in Nat /\ Len(st.base) \in Nat /\ Len(st.tail) \in Nat
      /\ \A i \in 1..Len(ps) : qs[i] = ps[i]
  BY <1>1, <1>2
<1>4. CASE st.trained
  <2>1. PICK tail : tail = Append(st.tail, Encode(v))
    OBVIOUS
  <2>2. /\ tail \in Seq(Points) /\ Len(tail) = Len(st.tail) + 1 /\ tail[Len(st.tail) + 1] = Encode(v)
        /\ \A i \in 1..Len(st.tail) : tail[i] = st.tail[i]
    BY <1>2, <2>1, EncodesPoint
  <2>3. PICK r : r = [base |-> st.base, tail |-> tail, warmup |-> st.warmup, trained |-> TRUE]
    OBVIOUS
  <2>4. push(st, v) = r
    <3>1. push(st, v) = [st EXCEPT !.tail = tail]
      BY <1>4, <2>1 DEF push
    <3>2. st.trained = TRUE
      BY <1>2, <1>4
    <3>3. QED
      BY <1>2, <2>3, <3>1, <3>2
  <2>5. st.warmup = <<>> /\ Len(ps) = Len(st.base) + Len(st.tail)
    BY <1>4 DEF Holds
  <2>6. \A i \in 1..Len(st.base) : Kept(st.base[i], qs[i])
    <3>1. \A i \in 1..Len(st.base) : i \in 1..Len(ps) /\ Kept(st.base[i], ps[i])
      BY <1>3, <1>4, <2>5 DEF Holds
    <3>2. QED
      BY <1>3, <3>1
  <2>7. ASSUME NEW i \in 1..Len(tail) PROVE Kept(tail[i], qs[Len(st.base) + i])
    <3>1. CASE i = Len(st.tail) + 1
      <4>1. PICK b, t : b = Len(st.base) /\ t = Len(st.tail)
        OBVIOUS
      <4>2. b \in Nat /\ t \in Nat /\ i = t + 1 /\ Len(ps) = b + t
        BY <1>3, <2>5, <3>1, <4>1
      <4>3. b + i = Len(ps) + 1
        BY <4>2
      <4>4. tail[i] = Encode(v) /\ qs[Len(st.base) + i] = v
        BY <1>3, <2>2, <3>1, <4>1, <4>3
      <4>5. QED
        BY <4>4 DEF Kept
    <3>2. CASE i # Len(st.tail) + 1
      <4>1. i \in 1..Len(st.tail) /\ Len(st.base) + i \in 1..Len(ps)
        <5>1. PICK b, t : b = Len(st.base) /\ t = Len(st.tail)
          OBVIOUS
        <5>2. b \in Nat /\ t \in Nat /\ i \in 1..(t + 1) /\ i # t + 1 /\ Len(ps) = b + t
          BY <1>3, <2>2, <2>5, <2>7, <3>2, <5>1
        <5>3. i \in 1..t /\ b + i \in 1..(b + t)
          BY <5>2
        <5>4. QED
          BY <5>1, <5>2, <5>3
      <4>2. Kept(st.tail[i], ps[Len(st.base) + i])
        BY <1>4, <4>1 DEF Holds
      <4>3. QED
        BY <1>3, <2>2, <4>1, <4>2
    <3>3. QED
      BY <3>1, <3>2
  <2>8. Holds(r, qs)
    BY <1>2, <1>3, <2>2, <2>3, <2>5, <2>6, <2>7 DEF Holds
  <2>9. QED
    BY <1>1, <2>4, <2>8
<1>5. CASE ~st.trained
  <2>1. st.base = <<>> /\ st.tail = <<>> /\ st.warmup = ps /\ st.trained = FALSE
    BY <1>2, <1>5 DEF Holds
  <2>2. PICK warm : warm = [base |-> <<>>, tail |-> <<>>, warmup |-> qs, trained |-> FALSE]
    OBVIOUS
  <2>3. push(st, v) \in {warm, Train(warm)}
    <3>1. st = [base |-> <<>>, tail |-> <<>>, warmup |-> ps, trained |-> FALSE]
      BY <1>2, <2>1
    <3>2. QED
      BY <1>1, <2>2, <3>1, PushWarms
  <2>4. Holds(warm, qs)
    <3>1. <<>> \in Seq(Points)
      OBVIOUS
    <3>2. QED
      BY <1>3, <2>2, <3>1 DEF Holds
  <2>5. ~warm.trained
    BY <2>2
  <2>6. Holds(Train(warm), qs)
    BY <2>4, <2>5, TrainHolds
  <2>7. QED
    BY <1>1, <2>3, <2>4, <2>6
<1>6. QED
  BY <1>4, <1>5

LEMMA SealHolds ==
  ASSUME NEW st, NEW ps, Holds(st, ps), ps # <<>>
  PROVE  Holds(seal(st), ps) /\ seal(st).trained
<1>1. CASE st.trained
  BY <1>1 DEF seal
<1>2. CASE ~st.trained
  <2>1. st.warmup = ps
    BY <1>2 DEF Holds
  <2>2. seal(st) = Train(st)
    BY <1>2, <2>1 DEF seal
  <2>3. Holds(Train(st), ps)
    BY <1>2, TrainHolds
  <2>4. Train(st).trained
    <3>1. st = [base |-> st.base, tail |-> st.tail, warmup |-> st.warmup, trained |-> st.trained]
      BY DEF Holds
    <3>2. QED
      BY <3>1 DEF Train
  <2>5. QED
    BY <2>2, <2>3, <2>4
<1>3. QED
  BY <1>1, <1>2

\* What the file gives back, paged or as one blob.
LEMMA FileHolds ==
  ASSUME NEW st, NEW ps, Holds(st, ps), st.trained,
         NEW rows, NEW tail,
         \/ rows = st.base \o st.tail /\ tail = <<>>
         \/ rows = <<>> /\ tail = st.base \o st.tail
  PROVE  Holds([base |-> rows, tail |-> tail, warmup |-> <<>>, trained |-> TRUE], ps)
<1>1. /\ st.base \in Seq(Points) /\ st.tail \in Seq(Points)
      /\ ps \in Seq(Points) /\ Len(ps) = Len(st.base) + Len(st.tail)
  BY DEF Holds
<1>2. PICK b, t, all : b = Len(st.base) /\ t = Len(st.tail) /\ all = st.base \o st.tail
  OBVIOUS
<1>3. b \in Nat /\ t \in Nat /\ Len(ps) = b + t
  BY <1>1, <1>2
<1>4. /\ all \in Seq(Points) /\ Len(all) = b + t
      /\ \A i \in 1..b : all[i] = st.base[i]
      /\ \A i \in 1..t : all[b + i] = st.tail[i]
  <2>1. PICK u, w : u = st.base /\ w = st.tail
    OBVIOUS
  <2>2. u \in Seq(Points) /\ w \in Seq(Points) /\ b = Len(u) /\ t = Len(w) /\ all = u \o w
    BY <1>1, <1>2, <2>1
  <2>3. all \in Seq(Points) /\ Len(all) = b + t
    BY <1>3, <2>2
  <2>4. \A i \in 1..b : all[i] = u[i]
    BY <1>3, <2>2
  <2>5. \A i \in 1..t : all[b + i] = w[i]
    BY <1>3, <2>2
  <2>6. QED
    BY <2>1, <2>3, <2>4, <2>5
<1>5. ASSUME NEW i \in 1..Len(all) PROVE Kept(all[i], ps[i])
  <2>1. i \in 1..(b + t)
    BY <1>4
  <2>2. CASE i <= b
    <3>1. i \in 1..b
      BY <1>3, <2>1, <2>2
    <3>2. Kept(st.base[i], ps[i])
      BY <1>2, <3>1 DEF Holds
    <3>3. QED
      BY <1>4, <3>1, <3>2
  <2>3. CASE ~(i <= b)
    <3>1. PICK j : j = i - b
      OBVIOUS
    <3>2. j \in 1..t /\ b + j = i
      BY <1>3, <2>1, <2>3, <3>1
    <3>3. Kept(st.tail[j], ps[Len(st.base) + j])
      BY <1>2, <3>2 DEF Holds
    <3>4. all[i] = st.tail[j] /\ Len(st.base) + j = i
      BY <1>2, <1>4, <3>2
    <3>5. QED
      BY <3>3, <3>4
  <2>4. QED
    BY <2>2, <2>3
<1>6. <<>> \in Seq(Points) /\ Len(<<>>) = 0 /\ \A i \in 1..0 : FALSE
  OBVIOUS
<1>7. /\ rows \in Seq(Points) /\ tail \in Seq(Points) /\ Len(ps) = Len(rows) + Len(tail)
      /\ \A i \in 1..Len(rows) : Kept(rows[i], ps[i])
      /\ \A i \in 1..Len(tail) : Kept(tail[i], ps[Len(rows) + i])
  <2>1. CASE rows = all /\ tail = <<>>
    <3>1. Len(rows) = b + t /\ Len(tail) = 0
      BY <1>4, <1>6, <2>1
    <3>2. Len(ps) = Len(rows) + Len(tail)
      BY <1>3, <3>1
    <3>3. QED
      BY <1>4, <1>5, <1>6, <2>1, <3>1, <3>2
  <2>2. CASE rows = <<>> /\ tail = all
    <3>1. Len(rows) = 0 /\ Len(tail) = b + t
      BY <1>4, <1>6, <2>2
    <3>2. Len(ps) = Len(rows) + Len(tail)
      BY <1>3, <3>1
    <3>3. \A i \in 1..Len(tail) : Len(rows) + i = i
      BY <1>3, <3>1
    <3>4. QED
      BY <1>4, <1>5, <1>6, <2>2, <3>1, <3>2, <3>3
  <2>3. QED
    BY <1>2, <2>1, <2>2
<1>8. PICK r : r = [base |-> rows, tail |-> tail, warmup |-> <<>>, trained |-> TRUE]
  OBVIOUS
<1>9. r.base = rows /\ r.tail = tail /\ r.warmup = <<>> /\ r.trained = TRUE
  BY <1>8
<1>10. Holds(r, ps)
  BY <1>1, <1>6, <1>7, <1>8, <1>9 DEF Holds
<1>11. QED
  BY <1>8, <1>10

----------------------------------------------------------------------------
(* The invariant of the graph.                                             *)

\* Inserts of a setup, of vectors.
Inserts == {w \in UNION {ToSet(setup.writes) : setup \in Setups} : w[2] \in Points}

\* As many of everything as there are nodes.
ShapeInv ==
    /\ script \in Seq(Inserts) /\ ids \in Seq({w[1] : w \in Inserts}) /\ deleted \in Seq(BOOLEAN)
    /\ Len(pushed) = Len(ids) /\ Len(deleted) = Len(ids)

\* The entry is a node of the highest layer.
EntryInv ==
    /\ entry = <<>> => ids = <<>>
    /\ entry # <<>> =>
          /\ entry = <<entry[1], entry[2]>> /\ entry[1] \in 1..Len(ids) /\ entry[2] \in Nat
          /\ Len(links[entry[1]]) = entry[2] + 1
          /\ \A n \in 1..Len(ids) : Len(links[n]) <= entry[2] + 1

\* A living node is the latest of its id.
LatestInv == \A n, o \in 1..Len(ids) : ~deleted[n] /\ ids[o] = ids[n] => o <= n

AnnInv ==
    /\ ShapeInv /\ Holds(store, pushed)
    /\ IsGraph(Graph, Len(ids)) /\ WellLinked(Graph, Len(ids))
    /\ EntryInv /\ LatestInv /\ live = Cardinality(Living)

LEMMA GreatestNumber ==
  ASSUME NEW N \in Nat, NEW S, S \subseteq 1..N, S # {}
  PROVE  \E x \in S : \A y \in S : y <= x
<1>1. PICK T : T = {N - x : x \in S}
  OBVIOUS
<1>2. T \subseteq Nat /\ T # {}
  <2>1. \A x \in 1..N : N - x \in Nat
    OBVIOUS
  <2>2. PICK x \in S : TRUE
    OBVIOUS
  <2>3. N - x \in T
    BY <1>1
  <2>4. ASSUME NEW t \in T PROVE t \in Nat
    BY <1>1, <2>1
  <2>5. QED
    BY <2>3, <2>4
<1>3. PICK t \in T : \A u \in T : t <= u
  BY <1>2, LeastNumber
<1>4. PICK x \in S : t = N - x
  BY <1>1
<1>5. \A y \in S : N - x <= N - y
  BY <1>1, <1>3, <1>4
<1>6. \A y \in S : y <= x
  BY <1>5
<1>7. QED
  BY <1>6

\* The latest node of an id.
IsLatest(x, id) == x \in 1..Len(ids) /\ ids[x] = id /\ \A o \in 1..Len(ids) : ids[o] = id => o <= x

LEMMA ById ==
  ASSUME NEW T, ids \in Seq(T), NEW id
  PROVE  \/ by_id(id) = {} /\ \A n \in 1..Len(ids) : ids[n] # id
         \/ \E x : by_id(id) = {x} /\ IsLatest(x, id)
<1>1. Nodes = 1..Len(ids) /\ Len(ids) \in Nat
  BY DEF Nodes
<1>2. PICK ns : ns = {n \in Nodes : ids[n] = id}
  OBVIOUS
<1>3. CASE ns = {}
  BY <1>1, <1>2, <1>3 DEF by_id
<1>4. CASE ns # {}
  <2>1. \E x \in ns : \A o \in ns : o <= x
    BY <1>1, <1>2, <1>4, GreatestNumber
  <2>2. PICK x : x = CHOOSE n \in ns : \A o \in ns : o <= n
    OBVIOUS
  <2>3. x \in ns /\ \A o \in ns : o <= x
    BY <2>1, <2>2
  <2>4. by_id(id) = {x}
    BY <1>2, <1>4, <2>2 DEF by_id
  <2>5. IsLatest(x, id)
    BY <1>1, <1>2, <2>3 DEF IsLatest
  <2>6. QED
    BY <2>4, <2>5
<1>5. QED
  BY <1>3, <1>4

\* What is left standing when an id is tombstoned.
Spared(dead, id) ==
    /\ dead \in Seq(BOOLEAN) /\ Len(dead) = Len(ids)
    /\ \A n \in 1..Len(ids) : ~dead[n] => ~deleted[n] /\ ids[n] # id
    /\ IsFiniteSet({n \in 1..Len(ids) : ~dead[n]})
    /\ Cardinality({n \in 1..Len(ids) : ~dead[n]}) = live - Cardinality({n \in by_id(id) : ~deleted[n]})
    /\ live \in Nat /\ Cardinality({n \in by_id(id) : ~deleted[n]}) \in Nat

LEMMA TombstoneSpares ==
  ASSUME ShapeInv, LatestInv, live = Cardinality(Living), NEW id
  PROVE  Spared(Tombstone(id), id)
<1>1. /\ ids \in Seq({w[1] : w \in Inserts}) /\ deleted \in Seq(BOOLEAN)
      /\ Len(deleted) = Len(ids) /\ Len(ids) \in Nat
  BY DEF ShapeInv
<1>2. Nodes = 1..Len(ids)
  BY <1>1 DEF Nodes
<1>3. PICK dead : dead = Tombstone(id)
  OBVIOUS
<1>4. PICK B : B = by_id(id)
  OBVIOUS
<1>5. dead = [n \in 1..Len(ids) |-> deleted[n] \/ n \in B]
  BY <1>2, <1>3, <1>4 DEF Tombstone
<1>6. dead \in Seq(BOOLEAN) /\ Len(dead) = Len(ids)
  <2>1. dead \in [1..Len(ids) -> BOOLEAN]
    BY <1>5
  <2>2. QED
    BY <1>1, <2>1
<1>7. \A n \in 1..Len(ids) : dead[n] <=> deleted[n] \/ n \in B
  BY <1>5
<1>8. \/ B = {} /\ \A n \in 1..Len(ids) : ids[n] # id
      \/ \E x : B = {x} /\ IsLatest(x, id)
  BY <1>1, <1>4, ById
<1>9. ASSUME NEW n \in 1..Len(ids), ~dead[n] PROVE ~deleted[n] /\ ids[n] # id
  <2>1. ~deleted[n] /\ n \notin B
    BY <1>7, <1>9
  <2>2. ASSUME ids[n] = id PROVE FALSE
    <3>1. PICK x : B = {x} /\ IsLatest(x, id)
      BY <1>8, <2>2
    <3>2. n <= x /\ x \in 1..Len(ids) /\ ids[x] = id
      BY <2>2, <3>1 DEF IsLatest
    <3>3. x <= n
      BY <2>1, <2>2, <3>2 DEF LatestInv
    <3>4. x = n
      BY <3>2, <3>3
    <3>5. QED
      BY <2>1, <3>1, <3>4
  <2>3. QED
    BY <2>1, <2>2
<1>10. PICK L : L = {n \in 1..Len(ids) : ~dead[n]}
  OBVIOUS
<1>11. PICK K : K = {n \in B : ~deleted[n]}
  OBVIOUS
<1>12. PICK A : A = Living
  OBVIOUS
<1>13. A = {n \in 1..Len(ids) : ~deleted[n]}
  BY <1>2, <1>12 DEF Living
<1>14. IsFiniteSet(A)
  <2>1. IsFiniteSet(1..Len(ids))
    BY <1>1, FS_Interval
  <2>2. QED
    BY <1>13, <2>1, FS_Subset
<1>15. B \subseteq 1..Len(ids)
  BY <1>8 DEF IsLatest
<1>16. L = A \ K /\ K \subseteq A
  BY <1>7, <1>10, <1>11, <1>13, <1>15
<1>17. IsFiniteSet(L) /\ Cardinality(L) = live - Cardinality(K) /\ live \in Nat /\ Cardinality(K) \in Nat
  <2>1. live = Cardinality(A) /\ live \in Nat
    BY <1>12, <1>14, FS_CardinalityType
  <2>2. CASE K = {}
    <3>1. L = A /\ Cardinality(K) = 0
      BY <1>16, <2>2, FS_EmptySet
    <3>2. QED
      BY <1>14, <2>1, <3>1
  <2>3. CASE K # {}
    <3>1. PICK x : B = {x}
      BY <1>8, <1>11, <2>3
    <3>2. K = {x} /\ x \in A
      BY <1>11, <1>16, <2>3, <3>1
    <3>3. Cardinality(K) = 1
      BY <3>2, FS_Singleton
    <3>4. IsFiniteSet(A \ {x}) /\ Cardinality(A \ {x}) = Cardinality(A) - 1
      BY <1>14, <3>2, FS_RemoveElement
    <3>5. QED
      BY <1>16, <2>1, <3>2, <3>3, <3>4
  <2>4. QED
    BY <2>2, <2>3
<1>18. Spared(dead, id)
  BY <1>4, <1>6, <1>9, <1>10, <1>11, <1>17 DEF Spared
<1>19. QED
  BY <1>3, <1>18

LEMMA Widens == ASSUME NEW S, NEW T, S \subseteq T, NEW s \in Seq(S) PROVE s \in Seq(T)
<1>1. Len(s) \in Nat /\ s = [i \in 1..Len(s) |-> s[i]] /\ \A i \in 1..Len(s) : s[i] \in T
  OBVIOUS
<1>2. QED
  BY <1>1

LEMMA ReadIs ==
  ASSUME NEW st, NEW ps, Holds(st, ps)
  PROVE  Read(st, Len(ps)) \in [1..Len(ps) -> Points]
<1>1. \A node \in 1..Len(ps) : materialize(st, node) \in Points
  BY ReadsTrue
<1>2. QED
  BY <1>1 DEF Read

\* How a graph is linked has nothing to do with its vectors.
LEMMA LinkedAlike ==
  ASSUME NEW n, NEW g, NEW h, g.ln = h.ln, WellLinked(g, n)
  PROVE  WellLinked(h, n)
  BY DEF WellLinked, ListedWell

\* A node without links has been added.
Grown(h, g, N, level) ==
    /\ IsGraph(h, N + 1) /\ WellLinked(h, N + 1) /\ Len(h.ln[N + 1]) = level + 1
    /\ \A m \in 1..N : Len(h.ln[m]) = Len(g.ln[m])
    /\ \A l \in 1..(level + 1) : h.ln[N + 1][l] = <<>>
    /\ \A k : Unnamed(h, N + 1, N + 1, k)

LEMMA Grows ==
  ASSUME NEW N \in Nat, NEW g, IsGraph(g, N), WellLinked(g, N), NEW level \in Nat,
         NEW vec \in [1..(N + 1) -> Points],
         NEW h, h = [vec |-> vec, ln |-> Append(g.ln, [l \in 1..(level + 1) |-> <<>>])]
  PROVE  Grown(h, g, N, level)
<1>1. PICK new, ln : new = [l \in 1..(level + 1) |-> <<>>] /\ ln = Append(g.ln, new)
  OBVIOUS
<1>2. PICK T, TT : T = Seq(1..(N + 1)) /\ TT = Seq(T)
  OBVIOUS
<1>3. new \in TT /\ Len(new) = level + 1 /\ \A l \in 1..(level + 1) : new[l] = <<>>
  <2>1. <<>> \in T
    BY <1>2
  <2>2. new \in [1..(level + 1) -> T]
    BY <1>1, <2>1
  <2>3. new \in Seq(T) /\ Len(new) = level + 1
    BY <2>2
  <2>4. QED
    BY <1>1, <1>2, <2>3
<1>4. g.ln \in Seq(TT) /\ Len(g.ln) = N
  <2>1. PICK S, SS : S = Seq(1..N) /\ SS = Seq(S)
    OBVIOUS
  <2>2. g.ln \in Seq(SS) /\ Len(g.ln) = N
    BY <2>1 DEF IsGraph
  <2>3. \A s \in S : s \in T
    <3>1. 1..N \subseteq 1..(N + 1)
      OBVIOUS
    <3>2. QED
      BY <1>2, <2>1, <3>1, Widens
  <2>4. \A s \in SS : s \in TT
    BY <1>2, <2>1, <2>3, Widens
  <2>5. SS \subseteq TT
    BY <2>4
  <2>6. QED
    BY <2>2, <2>5, Widens
<1>5. /\ ln \in Seq(TT) /\ Len(ln) = N + 1 /\ ln[N + 1] = new
      /\ \A m \in 1..N : ln[m] = g.ln[m]
  BY <1>1, <1>3, <1>4
<1>6. h.vec = vec /\ h.ln = ln /\ h = [vec |-> h.vec, ln |-> h.ln]
  BY <1>1
<1>7. IsGraph(h, N + 1)
  BY <1>2, <1>5, <1>6 DEF IsGraph
<1>8. \A m \in 1..(N + 1) : m \in 1..N \/ m = N + 1
  OBVIOUS
<1>9. \A k : Unnamed(h, N + 1, N + 1, k)
  <2>1. SUFFICES ASSUME NEW k, NEW m \in 1..(N + 1), k \in 1..Len(h.ln[m]),
                        NEW j \in 1..Len(h.ln[m][k])
                 PROVE  h.ln[m][k][j] # N + 1
    BY DEF Unnamed
  <2>2. CASE m \in 1..N
    <3>1. k \in 1..Len(g.ln[m]) /\ h.ln[m][k] = g.ln[m][k]
      BY <1>5, <1>6, <2>1, <2>2
    <3>2. g.ln[m][k] \in Seq(1..N)
      BY <2>2, <3>1, GraphLists
    <3>3. PICK s : s = g.ln[m][k]
      OBVIOUS
    <3>4. s \in Seq(1..N) /\ h.ln[m][k] = s /\ j \in 1..Len(s)
      BY <2>1, <3>1, <3>2, <3>3
    <3>5. s[j] \in 1..N
      BY <3>4, Elements
    <3>6. \A x \in 1..N : x # N + 1
      OBVIOUS
    <3>7. QED
      BY <3>4, <3>5, <3>6
  <2>3. CASE m = N + 1
    <3>1. h.ln[m][k] = <<>>
      BY <1>3, <1>5, <1>6, <2>1, <2>3
    <3>2. j \in 1..0
      BY <3>1
    <3>3. QED
      BY <3>2
  <2>4. QED
    BY <1>8, <2>2, <2>3
<1>10. ASSUME NEW m \in 1..(N + 1), NEW k \in 1..Len(h.ln[m])
       PROVE  ListedWell(h.ln[m][k], h, N + 1, m, k)
  <2>1. CASE m \in 1..N
    <3>1. PICK s : s = g.ln[m][k]
      OBVIOUS
    <3>2. k \in 1..Len(g.ln[m]) /\ h.ln[m][k] = s
      BY <1>5, <1>6, <2>1, <3>1
    <3>3. ListedWell(s, g, N, m, k)
      BY <2>1, <3>1, <3>2 DEF WellLinked
    <3>4. /\ s \in Seq(1..N) /\ Distinct(s) /\ Len(s) <= MaxLinks(k - 1)
          /\ \A j \in 1..Len(s) : s[j] # m /\ k <= Len(g.ln[s[j]])
      BY <3>3 DEF ListedWell
    <3>5. s \in Seq(1..(N + 1)) /\ \A j \in 1..Len(s) : s[j] \in 1..N
      <4>1. 1..N \subseteq 1..(N + 1)
        OBVIOUS
      <4>2. QED
        BY <3>4, <4>1, Widens
    <3>6. \A j \in 1..Len(s) : s[j] # m /\ k <= Len(h.ln[s[j]])
      BY <1>5, <1>6, <3>4, <3>5
    <3>7. QED
      BY <3>2, <3>4, <3>5, <3>6 DEF ListedWell
  <2>2. CASE m = N + 1
    <3>1. h.ln[m][k] = <<>> /\ k \in Nat /\ k - 1 \in Nat
      BY <1>3, <1>5, <1>6, <2>2
    <3>2. <<>> \in Seq(1..(N + 1)) /\ Len(<<>>) = 0 /\ \A j \in 1..0 : FALSE
      OBVIOUS
    <3>3. Distinct(<<>>)
      BY <3>2 DEF Distinct
    <3>4. 0 <= MaxLinks(k - 1)
      BY <3>1, LinksFit
    <3>5. QED
      BY <3>1, <3>2, <3>3, <3>4 DEF ListedWell
  <2>3. QED
    BY <1>8, <2>1, <2>2
<1>11. WellLinked(h, N + 1)
  BY <1>10 DEF WellLinked
<1>12. Len(h.ln[N + 1]) = level + 1 /\ \A l \in 1..(level + 1) : h.ln[N + 1][l] = <<>>
  BY <1>3, <1>5, <1>6
<1>13. \A m \in 1..N : Len(h.ln[m]) = Len(g.ln[m])
  BY <1>5, <1>6
<1>14. QED
  BY <1>7, <1>9, <1>11, <1>12, <1>13 DEF Grown

\* What an insert leaves: a graph linked well, with the layers it had and those of the node.
Inserted(h, N, level) ==
    /\ IsGraph(h, N + 1) /\ WellLinked(h, N + 1) /\ Len(h.ln[N + 1]) = level + 1
    /\ \A m \in 1..N : Len(h.ln[m]) = Len(links[m])

LEMMA Descends ==
  ASSUME NEW N \in Nat, N = Len(ids), EntryInv, entry # <<>>, NEW level \in Nat,
         NEW h, Grown(h, Graph, N, level), NEW v \in Points,
         NEW last, last = IF level < entry[2] THEN level ELSE entry[2]
  PROVE  Descended(h, v, entry[1], entry[2], last) \in Having(h, N + 1, N + 1, last)
<1>1. PICK e, top : e = entry[1] /\ top = entry[2]
  OBVIOUS
<1>2. e \in 1..N /\ top \in Nat /\ Len(links[e]) = top + 1
  BY <1>1 DEF EntryInv
<1>3. PICK n : n = N + 1
  OBVIOUS
<1>4. n \in Nat /\ IsGraph(h, n) /\ WellLinked(h, n) /\ \A k : Unnamed(h, n, n, k)
  BY <1>3 DEF Grown
<1>5. last \in Nat /\ last <= top
  BY <1>1, <1>2
<1>6. e \in Having(h, n, n, top)
  <2>1. Graph.ln = links
    BY DEF Graph
  <2>2. Len(h.ln[e]) = top + 1
    BY <1>2, <2>1 DEF Grown
  <2>3. e \in 1..n /\ e # n /\ top < top + 1
    BY <1>2, <1>3
  <2>4. QED
    BY <2>2, <2>3 DEF Having
<1>7. \A layer \in (last + 1)..top : StaysIn(h, layer, Having(h, n, n, layer))
  <2>1. \A layer \in (last + 1)..top : layer \in Nat
    BY <1>2, <1>5
  <2>2. QED
    BY <1>4, <2>1, LeadsAround
<1>8. Descended(h, v, e, top, last) \in Having(h, n, n, last)
  BY <1>2, <1>4, <1>5, <1>6, <1>7, DescendedStays
<1>9. QED
  BY <1>1, <1>3, <1>8

\* The links after an insert of v on the layers up to level.
LinksAfter(node, level, vec, v) ==
    LET h == [vec |-> vec, ln |-> Append(links, [l \in 1..(level + 1) |-> <<>>])]
        last == IF level < entry[2] THEN level ELSE entry[2]
        cur == Descended(h, v, entry[1], entry[2], last)
    IN  IF entry = <<>> THEN h.ln ELSE ConnectAll([g |-> h, cur |-> cur], node, v, last).g.ln

LEMMA InsertLinks ==
  ASSUME NEW N \in Nat, N = Len(ids), EntryInv, IsGraph(Graph, N), WellLinked(Graph, N),
         NEW level \in Nat, NEW vec \in [1..(N + 1) -> Points], NEW v \in Points,
         NEW ln, ln = LinksAfter(N + 1, level, vec, v)
  PROVE  Inserted([vec |-> vec, ln |-> ln], N, level)
<1>1. PICK h : h = [vec |-> vec, ln |-> Append(links, [l \in 1..(level + 1) |-> <<>>])]
  OBVIOUS
<1>2. PICK last : last = IF level < entry[2] THEN level ELSE entry[2]
  OBVIOUS
<1>3. PICK cur : cur = Descended(h, v, entry[1], entry[2], last)
  OBVIOUS
<1>4. ln = IF entry = <<>> THEN h.ln ELSE ConnectAll([g |-> h, cur |-> cur], N + 1, v, last).g.ln
  BY <1>1, <1>2, <1>3 DEF LinksAfter
<1>5. Graph.ln = links
  BY DEF Graph
<1>6. Grown(h, Graph, N, level)
  BY <1>1, <1>5, Grows
<1>7. CASE entry = <<>>
  <2>1. h.ln = ln /\ [vec |-> vec, ln |-> ln] = h
    BY <1>1, <1>4, <1>7
  <2>2. QED
    BY <1>5, <1>6, <2>1 DEF Grown, Inserted
<1>8. CASE entry # <<>>
  <2>1. PICK n : n = N + 1
    OBVIOUS
  <2>2. /\ n \in Nat /\ n \in 1..n /\ IsGraph(h, n) /\ WellLinked(h, n) /\ Len(h.ln[n]) = level + 1
        /\ \A l \in 1..(level + 1) : h.ln[n][l] = <<>>
        /\ \A k : Unnamed(h, n, n, k)
    <3>1. n \in Nat /\ n \in 1..n
      BY <2>1
    <3>2. IsGraph(h, n) /\ WellLinked(h, n) /\ \A k : Unnamed(h, n, n, k)
      BY <1>6, <2>1 DEF Grown
    <3>3. Len(h.ln[n]) = level + 1 /\ \A l \in 1..(level + 1) : h.ln[n][l] = <<>>
      BY <1>6, <2>1 DEF Grown
    <3>4. QED
      BY <3>1, <3>2, <3>3
  <2>3. cur \in Having(h, n, n, last)
    BY <1>2, <1>3, <1>6, <1>8, <2>1, Descends
  <2>4. last \in Nat /\ last <= level
    <3>1. entry[2] \in Nat
      BY <1>8 DEF EntryInv
    <3>2. QED
      BY <1>2, <3>1
  <2>5. PICK a : a = [g |-> h, cur |-> cur]
    OBVIOUS
  <2>6. Building(h, h, n, n, last + 1)
    <3>1. \A j \in 1..(last + 1) : j \in 1..Len(h.ln[n]) => h.ln[n][j] = <<>> /\ Unnamed(h, n, n, j)
      BY <2>2
    <3>2. QED
      BY <2>2, <3>1 DEF Building
  <2>7. Placed(a, h, n, n, last + 1)
    <3>1. a.g = h /\ a.cur = cur /\ a = [g |-> a.g, cur |-> a.cur]
      BY <2>5
    <3>2. cur \in 1..n /\ cur # n /\ last < Len(h.ln[cur])
      BY <2>3 DEF Having
    <3>3. last + 1 <= Len(h.ln[cur])
      <4>1. Len(h.ln[cur]) \in Nat
        BY <2>2, <3>2, GraphLists
      <4>2. \A l, c \in Nat : l < c => l + 1 <= c
        OBVIOUS
      <4>3. QED
        BY <2>4, <3>2, <4>1, <4>2
    <3>4. QED
      BY <2>6, <3>1, <3>2, <3>3 DEF Placed
  <2>8. PICK r : r = ConnectAll(a, n, v, last).g
    OBVIOUS
  <2>9. Building(r, h, n, n, 0)
    <3>1. last < Len(h.ln[n])
      <4>1. \A l, k \in Nat : l <= k => l < k + 1
        OBVIOUS
      <4>2. QED
        BY <2>2, <2>4, <4>1
    <3>2. QED
      BY <2>2, <2>4, <2>7, <2>8, <3>1, ConnectAllPlaces
  <2>10. /\ IsGraph(r, n) /\ r.vec = h.vec /\ WellLinked(r, n)
         /\ \A m \in 1..n : Len(r.ln[m]) = Len(h.ln[m])
    BY <2>9 DEF Building
  <2>11. ln = r.ln
    BY <1>4, <1>8, <2>1, <2>5, <2>8
  <2>12. [vec |-> vec, ln |-> ln] = r
    <3>1. h.vec = vec
      BY <1>1
    <3>2. QED
      BY <2>10, <2>11, <3>1 DEF IsGraph
  <2>13. Len(r.ln[n]) = level + 1
    BY <2>2, <2>10
  <2>14. \A m \in 1..N : Len(r.ln[m]) = Len(links[m])
    <3>1. \A m \in 1..N : m \in 1..n
      BY <2>1
    <3>2. QED
      BY <1>5, <1>6, <2>10, <3>1 DEF Grown
  <2>15. QED
    BY <2>1, <2>10, <2>12, <2>13, <2>14 DEF Inserted
<1>9. QED
  BY <1>7, <1>8

LEMMA AnnInitInv == AnnInit => AnnInv
<1>1. SUFFICES ASSUME AnnInit PROVE AnnInv
  OBVIOUS
<1>2. PICK setup \in Setups : script = setup.writes /\ quantizer = setup.quantizer
  BY <1>1 DEF AnnInit
<1>3. /\ store = EmptyStore /\ pushed = <<>> /\ ids = <<>> /\ deleted = <<>> /\ links = <<>>
      /\ entry = <<>> /\ live = 0
  BY <1>1 DEF AnnInit, EmptyGraph
<1>4. script \in Seq(Inserts)
  <2>1. PICK T : T = ToSet(script)
    OBVIOUS
  <2>2. script \in Seq(T) /\ \A i \in DOMAIN script : script[i][2] \in Points
    BY <1>2, <2>1, SetupsFormed DEF Points
  <2>3. Len(script) \in Nat /\ DOMAIN script = 1..Len(script) /\ script = [i \in 1..Len(script) |-> script[i]]
    BY <2>2
  <2>4. \A i \in 1..Len(script) : script[i] \in T
    BY <2>2, <2>3
  <2>5. \A i \in 1..Len(script) : script[i] \in Inserts
    BY <1>2, <2>1, <2>2, <2>3, <2>4 DEF Inserts
  <2>6. QED
    BY <2>3, <2>5
<1>5. ShapeInv
  <2>1. ids \in Seq({w[1] : w \in Inserts}) /\ deleted \in Seq(BOOLEAN)
    BY <1>3
  <2>2. QED
    BY <1>3, <1>4, <2>1 DEF ShapeInv
<1>6. Holds(store, pushed)
  <2>1. PICK yes : yes = (quantizer # "pq")
    OBVIOUS
  <2>2. store = [base |-> <<>>, tail |-> <<>>, warmup |-> <<>>, trained |-> yes]
    BY <1>3, <2>1 DEF EmptyStore
  <2>3. store.base = <<>> /\ store.tail = <<>> /\ store.warmup = <<>> /\ store.trained = yes
    BY <2>2
  <2>4. yes \in BOOLEAN
    BY <2>1
  <2>5. <<>> \in Seq(Points) /\ Len(<<>>) = 0 /\ 0 + 0 = 0 /\ \A i \in 1..0 : FALSE
    OBVIOUS
  <2>6. QED
    BY <1>3, <2>2, <2>3, <2>4, <2>5 DEF Holds
<1>7. IsGraph(Graph, Len(ids)) /\ WellLinked(Graph, Len(ids))
  <2>1. Len(ids) = 0 /\ Graph.ln = <<>> /\ Graph = [vec |-> Graph.vec, ln |-> Graph.ln] /\ \A i \in 1..0 : FALSE
    BY <1>3 DEF Graph
  <2>2. Len(pushed) = Len(ids)
    BY <1>3
  <2>3. Read(store, Len(pushed)) \in [1..Len(pushed) -> Points]
    BY <1>6, ReadIs
  <2>4. Graph.vec \in [1..Len(ids) -> Points]
    BY <2>2, <2>3 DEF Graph
  <2>5. Graph.ln \in Seq(Seq(Seq(1..Len(ids)))) /\ Len(Graph.ln) = Len(ids)
    BY <2>1
  <2>6. QED
    BY <2>1, <2>4, <2>5 DEF IsGraph, WellLinked
<1>8. EntryInv
  BY <1>3 DEF EntryInv
<1>9. LatestInv
  BY <1>3 DEF LatestInv
<1>10. live = Cardinality(Living)
  <2>1. Nodes = {}
    BY <1>3 DEF Nodes
  <2>2. Living = {}
    BY <2>1 DEF Living
  <2>3. QED
    BY <1>3, <2>2, FS_EmptySet
<1>11. QED
  BY <1>5, <1>6, <1>7, <1>8, <1>9, <1>10 DEF AnnInv

LEMMA RemoveKeepsInv == ASSUME AnnInv, NEW id, RemoveId(id) PROVE AnnInv'
<1>1. /\ ShapeInv /\ Holds(store, pushed) /\ EntryInv /\ LatestInv /\ live = Cardinality(Living)
      /\ IsGraph(Graph, Len(ids)) /\ WellLinked(Graph, Len(ids))
  BY DEF AnnInv
<1>2. /\ deleted' = Tombstone(id) /\ live' = live - Cardinality({n \in by_id(id) : ~deleted[n]})
      /\ UNCHANGED <<script, pushed, quantizer, store, ids, links, entry>>
  BY DEF RemoveId
<1>3. Spared(Tombstone(id), id)
  BY <1>1, TombstoneSpares
<1>4. /\ deleted' \in Seq(BOOLEAN) /\ Len(deleted') = Len(ids)
      /\ \A n \in 1..Len(ids) : ~deleted'[n] => ~deleted[n]
      /\ Cardinality({n \in 1..Len(ids) : ~deleted'[n]}) = live'
  BY <1>2, <1>3 DEF Spared
<1>5. ShapeInv'
  BY <1>1, <1>2, <1>4 DEF ShapeInv, Inserts
<1>6. Holds(store, pushed)'
  BY <1>1, <1>2 DEF Holds, Kept, Encode
<1>7. (IsGraph(Graph, Len(ids)) /\ WellLinked(Graph, Len(ids)))'
  <2>1. Graph' = Graph
    BY <1>2 DEF Graph, Read, materialize, PagedWith, page
  <2>2. QED
    BY <1>1, <1>2, <2>1 DEF IsGraph, WellLinked, ListedWell
<1>8. EntryInv'
  BY <1>1, <1>2 DEF EntryInv
<1>9. LatestInv'
  BY <1>1, <1>2, <1>4 DEF LatestInv
<1>10. (live = Cardinality(Living))'
  <2>1. Len(ids) \in Nat /\ Nodes' = 1..Len(ids)
    BY <1>1, <1>2 DEF ShapeInv, Nodes
  <2>2. Living' = {n \in 1..Len(ids) : ~deleted'[n]}
    BY <2>1 DEF Living
  <2>3. QED
    BY <1>4, <2>2
<1>11. QED
  BY <1>5, <1>6, <1>7, <1>8, <1>9, <1>10 DEF AnnInv

LEMMA ReopenKeepsInv == ASSUME AnnInv, NEW paged \in BOOLEAN, Reopen(paged) PROVE AnnInv'
<1>1. /\ ShapeInv /\ Holds(store, pushed) /\ EntryInv /\ LatestInv /\ live = Cardinality(Living)
      /\ IsGraph(Graph, Len(ids)) /\ WellLinked(Graph, Len(ids))
  BY DEF AnnInv
<1>2. PICK st, all : st = seal(store) /\ all = st.base \o st.tail
  OBVIOUS
<1>3. /\ ids # <<>> /\ UNCHANGED <<script, pushed, quantizer, ids, deleted, links, entry, live>>
      /\ store' = [st EXCEPT !.base = IF paged THEN all ELSE <<>>, !.tail = IF paged THEN <<>> ELSE all]
  BY <1>2 DEF Reopen
<1>4. Len(ids) \in Nat /\ Len(pushed) = Len(ids) /\ pushed \in Seq(Points) /\ ids \in Seq({w[1] : w \in Inserts})
  BY <1>1 DEF ShapeInv, Holds
<1>5. pushed # <<>>
  <2>1. Len(ids) # 0
    BY <1>3, <1>4
  <2>2. QED
    BY <1>4, <2>1
<1>6. Holds(st, pushed) /\ st.trained
  BY <1>1, <1>2, <1>5, SealHolds
<1>7. PICK rows, tail : rows = (IF paged THEN all ELSE <<>>) /\ tail = (IF paged THEN <<>> ELSE all)
  OBVIOUS
<1>8. \/ rows = all /\ tail = <<>>
      \/ rows = <<>> /\ tail = all
  BY <1>7
<1>9. Holds([base |-> rows, tail |-> tail, warmup |-> <<>>, trained |-> TRUE], pushed)
  BY <1>2, <1>6, <1>8, FileHolds
<1>10. store' = [base |-> rows, tail |-> tail, warmup |-> <<>>, trained |-> TRUE]
  <2>1. /\ st = [base |-> st.base, tail |-> st.tail, warmup |-> st.warmup, trained |-> st.trained]
        /\ st.warmup = <<>> /\ st.trained = TRUE
    BY <1>6 DEF Holds
  <2>2. store' = [st EXCEPT !.base = rows, !.tail = tail]
    BY <1>3, <1>7
  <2>3. store' = [base |-> rows, tail |-> tail, warmup |-> st.warmup, trained |-> st.trained]
    BY <2>1, <2>2
  <2>4. QED
    BY <2>1, <2>3
<1>11. Holds(store', pushed)
  BY <1>9, <1>10
<1>12. Holds(store, pushed)'
  BY <1>3, <1>11 DEF Holds, Kept, Encode
<1>13. ShapeInv'
  BY <1>1, <1>3 DEF ShapeInv, Inserts
<1>14. (IsGraph(Graph, Len(ids)) /\ WellLinked(Graph, Len(ids)))'
  <2>1. PICK vec : vec = Read(store', Len(ids))
    OBVIOUS
  <2>2. vec \in [1..Len(ids) -> Points]
    BY <1>4, <1>11, <2>1, ReadIs
  <2>3. PICK h : h = [vec |-> vec, ln |-> links]
    OBVIOUS
  <2>4. Graph' = h
    BY <1>3, <2>1, <2>3 DEF Graph, Read, materialize, PagedWith, page
  <2>5. Graph.ln = links /\ h.ln = links /\ h.vec = vec
    BY <2>3 DEF Graph
  <2>6. WellLinked(h, Len(ids))
    BY <1>1, <2>5, LinkedAlike
  <2>7. IsGraph(h, Len(ids))
    BY <1>1, <2>2, <2>3, <2>5 DEF IsGraph
  <2>8. QED
    BY <1>3, <2>4, <2>6, <2>7 DEF IsGraph, WellLinked, ListedWell
<1>15. EntryInv'
  BY <1>1, <1>3 DEF EntryInv
<1>16. LatestInv'
  BY <1>1, <1>3 DEF LatestInv
<1>17. (live = Cardinality(Living))'
  BY <1>1, <1>3 DEF Living, Nodes
<1>18. QED
  BY <1>12, <1>13, <1>14, <1>15, <1>16, <1>17 DEF AnnInv

LEMMA InsertKeepsInv == ASSUME AnnInv, NEW level \in Nat, Insert(level) PROVE AnnInv'
<1>1. /\ ShapeInv /\ Holds(store, pushed) /\ EntryInv /\ LatestInv /\ live = Cardinality(Living)
      /\ IsGraph(Graph, Len(ids)) /\ WellLinked(Graph, Len(ids))
  BY DEF AnnInv
<1>2. PICK id, v, N, node, st :
         id = script[1][1] /\ v = script[1][2] /\ N = Len(ids) /\ node = Len(ids) + 1 /\ st = push(store, v)
  OBVIOUS
<1>3. PICK h : h = [vec |-> Read(st, node), ln |-> Append(links, [l \in 1..(level + 1) |-> <<>>])]
  OBVIOUS
<1>4. PICK last : last = IF level < entry[2] THEN level ELSE entry[2]
  OBVIOUS
<1>5. PICK cur : cur = Descended(h, v, entry[1], entry[2], last)
  OBVIOUS
<1>6. /\ script # <<>> /\ script' = Tail(script) /\ pushed' = Append(pushed, v) /\ store' = st
      /\ ids' = Append(ids, id) /\ deleted' = Append(Tombstone(id), FALSE)
      /\ live' = live + 1 - Cardinality({n \in by_id(id) : ~deleted[n]})
      /\ links' = IF entry = <<>> THEN h.ln ELSE ConnectAll([g |-> h, cur |-> cur], node, v, last).g.ln
      /\ entry' = IF entry = <<>> \/ level > entry[2] THEN <<node, level>> ELSE entry
      /\ quantizer' = quantizer
  BY <1>2, <1>3, <1>4, <1>5 DEF Insert
<1>7. /\ script \in Seq(Inserts) /\ ids \in Seq({w[1] : w \in Inserts}) /\ deleted \in Seq(BOOLEAN)
      /\ N \in Nat /\ node = N + 1 /\ Len(pushed) = N /\ Len(deleted) = N /\ pushed \in Seq(Points)
  <2>1. ids \in Seq({w[1] : w \in Inserts}) /\ Len(pushed) = N /\ Len(deleted) = N
    BY <1>1, <1>2 DEF ShapeInv
  <2>2. script \in Seq(Inserts) /\ deleted \in Seq(BOOLEAN) /\ pushed \in Seq(Points)
    BY <1>1 DEF ShapeInv, Holds
  <2>3. N \in Nat /\ node = N + 1
    BY <1>2, <2>1
  <2>4. QED
    BY <2>1, <2>2, <2>3
<1>8. /\ v \in Points /\ id \in {w[1] : w \in Inserts} /\ Tail(script) \in Seq(Inserts)
  <2>1. script[1] \in Inserts /\ Tail(script) \in Seq(Inserts)
    BY <1>6, <1>7
  <2>2. script[1][2] \in Points
    BY <2>1 DEF Inserts
  <2>3. QED
    BY <1>2, <2>1, <2>2
<1>9. /\ ids' \in Seq({w[1] : w \in Inserts}) /\ Len(ids') = node /\ ids'[node] = id
      /\ \A n \in 1..N : ids'[n] = ids[n]
  <2>1. PICK T : T = {w[1] : w \in Inserts}
    OBVIOUS
  <2>2. ids \in Seq(T) /\ id \in T /\ Len(ids) = N /\ N \in Nat /\ node = N + 1
    BY <1>2, <1>7, <1>8, <2>1
  <2>3. PICK r : r = Append(ids, id)
    OBVIOUS
  <2>4. r \in Seq(T) /\ Len(r) = node /\ r[node] = id
    BY <2>2, <2>3
  <2>5. \A n \in 1..N : r[n] = ids[n]
    BY <2>2, <2>3
  <2>6. QED
    BY <1>6, <2>1, <2>3, <2>4, <2>5
<1>10. Spared(Tombstone(id), id)
  BY <1>1, TombstoneSpares
<1>11. PICK dead : dead = Tombstone(id)
  OBVIOUS
<1>12. /\ dead \in Seq(BOOLEAN) /\ Len(dead) = N
       /\ \A n \in 1..N : ~dead[n] => ~deleted[n] /\ ids[n] # id
  BY <1>2, <1>10, <1>11 DEF Spared
<1>13. /\ deleted' \in Seq(BOOLEAN) /\ Len(deleted') = node /\ ~deleted'[node]
       /\ \A n \in 1..N : deleted'[n] = dead[n]
  <2>1. PICK no : no = FALSE
    OBVIOUS
  <2>2. deleted' = Append(dead, no) /\ no \in BOOLEAN
    BY <1>6, <1>11, <2>1
  <2>3. /\ deleted' \in Seq(BOOLEAN) /\ Len(deleted') = N + 1 /\ deleted'[N + 1] = no
        /\ \A n \in 1..N : deleted'[n] = dead[n]
    BY <1>7, <1>12, <2>2
  <2>4. QED
    BY <1>7, <2>1, <2>3
<1>14. Holds(store', pushed') /\ Len(pushed') = node
  <2>1. Holds(push(store, v), Append(pushed, v))
    BY <1>1, <1>8, PushHolds
  <2>2. Len(Append(pushed, v)) = node
    BY <1>7, <1>8
  <2>3. QED
    BY <1>2, <1>6, <2>1, <2>2
<1>15. Holds(store, pushed)'
  BY <1>6, <1>14 DEF Holds, Kept, Encode
<1>16. ShapeInv'
  <2>1. script' \in Seq(Inserts) /\ Inserts' = Inserts
    BY <1>6, <1>8 DEF Inserts
  <2>2. ids' \in Seq({w[1] : w \in Inserts'})
    BY <1>9, <2>1
  <2>3. Len(pushed') = Len(ids') /\ Len(deleted') = Len(ids')
    BY <1>9, <1>13, <1>14
  <2>4. QED
    BY <1>13, <2>1, <2>2, <2>3 DEF ShapeInv
<1>17. PICK vec : vec = Read(st, node)
  OBVIOUS
<1>18. vec \in [1..(N + 1) -> Points]
  BY <1>6, <1>7, <1>14, <1>17, ReadIs
<1>19. PICK r : r = [vec |-> vec, ln |-> links']
  OBVIOUS
<1>20. Inserted(r, N, level)
  <2>1. links' = LinksAfter(node, level, vec, v)
    BY <1>3, <1>4, <1>5, <1>6, <1>17 DEF LinksAfter
  <2>2. QED
    BY <1>1, <1>2, <1>7, <1>8, <1>18, <1>19, <2>1, InsertLinks
<1>21. /\ IsGraph(r, node) /\ WellLinked(r, node) /\ Len(links'[node]) = level + 1
       /\ \A m \in 1..N : Len(links'[m]) = Len(links[m])
  <2>1. r.ln = links'
    BY <1>19
  <2>2. QED
    BY <1>7, <1>20, <2>1 DEF Inserted
<1>22. (IsGraph(Graph, Len(ids)) /\ WellLinked(Graph, Len(ids)))'
  <2>1. Graph' = r
    BY <1>6, <1>9, <1>17, <1>19 DEF Graph, Read, materialize, PagedWith, page
  <2>2. QED
    BY <1>9, <1>21, <2>1 DEF IsGraph, WellLinked, ListedWell
<1>23. EntryInv'
  <2>1. \A m \in 1..node : m \in 1..N \/ m = node
    BY <1>7
  <2>2. \A m \in 1..N : Len(links[m]) \in Nat /\ Len(links'[m]) = Len(links[m])
    <3>1. Graph.ln = links
      BY DEF Graph
    <3>2. QED
      BY <1>1, <1>2, <1>7, <1>21, <3>1, GraphLists
  <2>3. CASE entry = <<>>
    <3>1. N = 0 /\ node = 1
      BY <1>1, <1>2, <1>7, <2>3 DEF EntryInv
    <3>2. entry' = <<node, level>>
      BY <1>6, <2>3
    <3>3. /\ entry' # <<>> /\ entry'[1] = node /\ entry'[2] = level
      BY <3>2
    <3>4. node \in 1..node /\ \A m \in 1..node : Len(links'[m]) <= level + 1
      BY <1>21, <3>1
    <3>5. QED
      BY <1>9, <1>21, <3>2, <3>3, <3>4 DEF EntryInv
  <2>4. CASE entry # <<>>
    <3>1. PICK e, top : e = entry[1] /\ top = entry[2]
      OBVIOUS
    <3>2. /\ entry = <<e, top>> /\ e \in 1..N /\ top \in Nat /\ Len(links[e]) = top + 1
          /\ \A n \in 1..N : Len(links[n]) <= top + 1
      BY <1>1, <1>2, <2>4, <3>1 DEF EntryInv
    <3>3. CASE level > top
      <4>1. entry' = <<node, level>>
        BY <1>6, <2>4, <3>1, <3>3
      <4>2. /\ entry' # <<>> /\ entry'[1] = node /\ entry'[2] = level
        BY <4>1
      <4>3. node \in 1..node
        BY <1>7
      <4>4. \A m \in 1..N : Len(links'[m]) <= level + 1
        BY <2>2, <3>2, <3>3
      <4>5. \A m \in 1..node : Len(links'[m]) <= level + 1
        BY <1>21, <2>1, <4>4
      <4>6. QED
        BY <1>9, <1>21, <4>1, <4>2, <4>3, <4>5 DEF EntryInv
    <3>4. CASE ~(level > top)
      <4>1. entry' = entry /\ entry' = <<e, top>> /\ entry'[1] = e /\ entry'[2] = top
        BY <1>6, <2>4, <3>1, <3>2, <3>4
      <4>2. e \in 1..node /\ Len(links'[e]) = top + 1
        BY <1>7, <2>2, <3>2
      <4>3. \A m \in 1..N : Len(links'[m]) <= top + 1
        BY <2>2, <3>2
      <4>4. Len(links'[node]) <= top + 1
        BY <1>21, <3>2, <3>4
      <4>5. \A m \in 1..node : Len(links'[m]) <= top + 1
        BY <2>1, <4>3, <4>4
      <4>6. QED
        BY <1>9, <2>4, <3>2, <4>1, <4>2, <4>5 DEF EntryInv
    <3>5. QED
      BY <3>3, <3>4
  <2>5. QED
    BY <2>3, <2>4
<1>24. LatestInv'
  <2>1. ASSUME NEW n \in 1..node, NEW o \in 1..node, ~deleted'[n], ids'[o] = ids'[n] PROVE o <= n
    <3>1. CASE n = node
      BY <1>7, <3>1
    <3>2. CASE n \in 1..N
      <4>1. ~deleted[n] /\ ids[n] # id /\ ids'[n] = ids[n]
        BY <1>9, <1>12, <1>13, <2>1, <3>2
      <4>2. o # node
        BY <1>9, <2>1, <4>1
      <4>3. o \in 1..N
        BY <1>7, <4>2
      <4>4. ids[o] = ids[n]
        BY <1>9, <2>1, <4>1, <4>3
      <4>5. QED
        BY <1>1, <1>2, <3>2, <4>1, <4>3, <4>4 DEF LatestInv
    <3>3. QED
      BY <1>7, <3>1, <3>2
  <2>2. QED
    BY <1>9, <2>1 DEF LatestInv
<1>25. (live = Cardinality(Living))'
  <2>1. Nodes' = 1..node
    <3>1. DOMAIN ids' = 1..Len(ids')
      BY <1>9
    <3>2. QED
      BY <1>9, <3>1 DEF Nodes
  <2>2. PICK L : L = {n \in 1..N : ~dead[n]}
    OBVIOUS
  <2>3. Living' = L \cup {node} /\ node \notin L
    <3>1. Living' = {n \in 1..node : ~deleted'[n]}
      BY <2>1 DEF Living
    <3>2. \A n \in 1..node : n \in 1..N \/ n = node
      BY <1>7
    <3>3. node \in 1..node /\ node \notin 1..N /\ \A n \in 1..N : n \in 1..node
      BY <1>7
    <3>4. QED
      BY <1>13, <2>2, <3>1, <3>2, <3>3
  <2>4. PICK k : k = Cardinality({n \in by_id(id) : ~deleted[n]})
    OBVIOUS
  <2>5. IsFiniteSet(L) /\ Cardinality(L) = live - k /\ live \in Nat /\ k \in Nat
    BY <1>2, <1>10, <1>11, <2>2, <2>4 DEF Spared
  <2>6. Cardinality(L \cup {node}) = Cardinality(L) + 1
    BY <2>3, <2>5, FS_AddElement
  <2>7. live' = live + 1 - k
    BY <1>6, <2>4
  <2>8. QED
    BY <2>3, <2>5, <2>6, <2>7
<1>26. QED
  BY <1>15, <1>16, <1>22, <1>23, <1>24, <1>25 DEF AnnInv

LEMMA StutterKeepsInv == ASSUME AnnInv, UNCHANGED annVars PROVE AnnInv'
<1>1. UNCHANGED <<script, pushed, quantizer, store, ids, deleted, links, entry, live>>
  BY DEF annVars
<1>2. Graph' = Graph /\ Living' = Living
  BY <1>1 DEF Graph, Read, materialize, PagedWith, page, Living, Nodes
<1>3. Holds(store, pushed) => Holds(store, pushed)'
  BY <1>1 DEF Holds, Kept, Encode
<1>4. (ShapeInv => ShapeInv') /\ (EntryInv => EntryInv') /\ (LatestInv => LatestInv')
  BY <1>1 DEF ShapeInv, Inserts, EntryInv, LatestInv
<1>5. IsGraph(Graph, Len(ids)) /\ WellLinked(Graph, Len(ids)) => (IsGraph(Graph, Len(ids)) /\ WellLinked(Graph, Len(ids)))'
  BY <1>1, <1>2 DEF IsGraph, WellLinked, ListedWell
<1>6. QED
  BY <1>1, <1>2, <1>3, <1>4, <1>5 DEF AnnInv

LEMMA AnnNextInv == ASSUME AnnInv, [AnnNext]_annVars PROVE AnnInv'
<1>1. ASSUME NEW level \in 0..MaxLevel, Insert(level) PROVE AnnInv'
  <2>1. level \in Nat
    BY AnnSizes
  <2>2. QED
    BY <1>1, <2>1, InsertKeepsInv
<1>2. ASSUME NEW id \in ToSet(ids), RemoveId(id) PROVE AnnInv'
  BY <1>2, RemoveKeepsInv
<1>3. ASSUME NEW paged \in BOOLEAN, Reopen(paged) PROVE AnnInv'
  BY <1>3, ReopenKeepsInv
<1>4. CASE UNCHANGED annVars
  BY <1>4, StutterKeepsInv
<1>5. QED
  BY <1>1, <1>2, <1>3, <1>4 DEF AnnNext

LEMMA AnnInvSuffices == AnnInv => GraphSound
<1>1. SUFFICES ASSUME AnnInv PROVE GraphSound
  OBVIOUS
<1>2. PICK N : N = Len(ids)
  OBVIOUS
<1>3. /\ ShapeInv /\ Holds(store, pushed) /\ EntryInv /\ LatestInv /\ live = Cardinality(Living)
      /\ IsGraph(Graph, N) /\ WellLinked(Graph, N) /\ Graph.ln = links
  BY <1>1, <1>2 DEF AnnInv, Graph
<1>4. N \in Nat /\ Nodes = 1..N /\ Len(pushed) = N /\ ids \in Seq({w[1] : w \in Inserts})
  BY <1>2, <1>3 DEF ShapeInv, Nodes
<1>5. \A n \in 1..N : links[n] \in Seq(Seq(1..N)) /\ Len(links[n]) \in Nat
  BY <1>3, <1>4, GraphLists
<1>6. \A n \in 1..N : DOMAIN links[n] = 1..Len(links[n])
  BY <1>5
<1>7. ASSUME NEW n \in Nodes, NEW l \in DOMAIN links[n]
      PROVE  /\ Len(links[n][l]) <= MaxLinks(l - 1) /\ IsInjective(links[n][l])
             /\ \A nb \in ToSet(links[n][l]) : nb # n /\ l \in DOMAIN links[nb]
  <2>1. n \in 1..N /\ l \in 1..Len(links[n]) /\ l \in Nat /\ l >= 1
    BY <1>4, <1>5, <1>6
  <2>2. PICK s : s = links[n][l]
    OBVIOUS
  <2>3. ListedWell(s, Graph, N, n, l)
    BY <1>3, <2>1, <2>2 DEF WellLinked
  <2>4. /\ s \in Seq(1..N) /\ Distinct(s) /\ Len(s) <= MaxLinks(l - 1)
        /\ \A j \in 1..Len(s) : s[j] # n /\ l <= Len(links[s[j]])
    BY <1>3, <2>3 DEF ListedWell
  <2>5. DOMAIN s = 1..Len(s)
    BY <2>4
  <2>6. IsInjective(s)
    BY <2>4, <2>5 DEF IsInjective, Distinct
  <2>7. ASSUME NEW nb \in ToSet(s) PROVE nb # n /\ l \in DOMAIN links[nb]
    <3>1. PICK j \in 1..Len(s) : nb = s[j]
      BY <2>4, ToSetIs
    <3>2. nb \in 1..N /\ nb # n /\ l <= Len(links[nb])
      BY <2>4, <3>1, Elements
    <3>3. l \in 1..Len(links[nb])
      BY <1>5, <2>1, <3>2
    <3>4. QED
      BY <1>6, <3>2, <3>3
  <2>8. QED
    BY <2>2, <2>4, <2>6, <2>7
<1>8. entry # <<>> =>
        /\ Len(links[entry[1]]) = entry[2] + 1
        /\ \A n \in Nodes : Len(links[n]) <= entry[2] + 1
  BY <1>2, <1>3, <1>4 DEF EntryInv
<1>9. ASSUME NEW n \in Living PROVE by_id(ids[n]) = {n}
  <2>1. n \in 1..N /\ ~deleted[n]
    BY <1>4 DEF Living
  <2>2. PICK x : by_id(ids[n]) = {x} /\ IsLatest(x, ids[n])
    <3>1. \/ by_id(ids[n]) = {} /\ \A m \in 1..Len(ids) : ids[m] # ids[n]
          \/ \E x : by_id(ids[n]) = {x} /\ IsLatest(x, ids[n])
      BY <1>4, ById
    <3>2. QED
      BY <1>2, <2>1, <3>1
  <2>3. x \in 1..N /\ ids[x] = ids[n] /\ n <= x
    BY <1>2, <2>1, <2>2 DEF IsLatest
  <2>4. x <= n
    BY <1>2, <1>3, <2>1, <2>3 DEF LatestInv
  <2>5. x = n
    BY <1>4, <2>1, <2>3, <2>4
  <2>6. QED
    BY <2>2, <2>5
<1>10. ASSUME NEW n \in Nodes PROVE materialize(store, n) \in {pushed[n], Encode(pushed[n])}
  BY <1>3, <1>4, ReadsTrue DEF Kept
<1>11. QED
  BY <1>3, <1>7, <1>8, <1>9, <1>10 DEF GraphSound

\* GraphSound: whatever is inserted, removed and reopened, in any order, every link leads to a
\* node of its layer, none twice, no list is longer than insert and prune allow, the entry is
\* on the highest layer, an id has one living node, and a vector read is the one pushed.
THEOREM GraphAlwaysSound == AnnSpec => []GraphSound
<1>1. AnnSpec => []AnnInv
  BY AnnInitInv, AnnNextInv, PTL DEF AnnSpec
<1>2. QED
  BY <1>1, AnnInvSuffices, PTL

----------------------------------------------------------------------------
(* A beam that is wide enough is exhaustive.                               *)

\* Results that settle a beam: no neighbour met later unsettles them, and others leave room.
Settles(D, g, q, ef, admit) ==
    /\ \A F \in SUBSET admit : F \notin D => Cardinality(F) < ef
    /\ \A F \in D : \A nb : /\ F \cup ({nb} \cap admit) \in D
                            /\ Cardinality(F \cup ({nb} \cap admit)) > ef =>
                                 \A x : (F \cup ({nb} \cap admit)) \ {x} \in D

\* Results that are not settled are all that was seen of admit, and P are the nodes left behind.
Sweeps(b, D, admit, P) ==
    b.found \in D \/ (b.found = b.seen \cap admit /\ b.cand \subseteq b.seen /\ b.seen \ b.cand = P)

\* What a beam r has of the beam b after one more neighbour.
Met(r, b, nb, D, admit, P) ==
    /\ Sweeps(r, D, admit, P)
    /\ b.found \in D => r.found \in D
    /\ r.found \in D \/ (b.seen \subseteq r.seen /\ nb \in r.seen)

LEMMA MeetSweeps ==
  ASSUME NEW V, IsFiniteSet(V), NEW g, NEW q, NEW ef \in Nat, NEW admit, NEW D, Settles(D, g, q, ef, admit),
         NEW P, NEW b \in Beams(V, admit), Sweeps(b, D, admit, P), NEW nb \in V,
         NEW r, r = Meet(g, q, ef, admit, b, nb)
  PROVE  Met(r, b, nb, D, admit, P)
<1> DEFINE near == \/ Cardinality(b.found) < ef
                   \/ dist_to(g, nb, q) < dist_to(g, Farthest(g, b.found, q), q)
           with == b.found \cup ({nb} \cap admit)
           kept == IF ~near THEN b.found
                   ELSE IF Cardinality(with) > ef THEN with \ {Farthest(g, with, q)} ELSE with
<1>1. /\ b.cand \subseteq V /\ b.seen \subseteq V /\ b.found \subseteq V \cap admit
      /\ b = [cand |-> b.cand, seen |-> b.seen, found |-> b.found]
  BY DEF Beams
<1>2. CASE nb \in b.seen
  <2>1. r = b
    BY <1>2 DEF Meet
  <2>2. QED
    BY <1>2, <2>1 DEF Met
<1>3. CASE nb \notin b.seen
  <2>1. /\ r.cand = (IF near THEN b.cand \cup {nb} ELSE b.cand)
        /\ r.seen = b.seen \cup {nb} /\ r.found = kept
    BY <1>3 DEF Meet
  <2>2. CASE b.found \in D
    <3>1. with \in D /\ (Cardinality(with) > ef => \A x : with \ {x} \in D)
      BY <2>2 DEF Settles
    <3> HIDE DEF with, near
    <3>2. kept \in D
      BY <2>2, <3>1
    <3>3. QED
      BY <2>1, <2>2, <3>2 DEF Sweeps, Met
  <2>3. CASE b.found \notin D
    <3>1. Cardinality(b.found) < ef
      BY <1>1, <2>3 DEF Settles
    <3>2. b.found = b.seen \cap admit /\ b.cand \subseteq b.seen /\ b.seen \ b.cand = P
      BY <2>3 DEF Sweeps
    <3>3. IsFiniteSet(b.found) /\ Cardinality(b.found) \in Nat
      BY <1>1, FS_Subset, FS_CardinalityType
    <3>4. ~(Cardinality(with) > ef)
      <4>1. CASE nb \in admit
        <5>1. with = b.found \cup {nb} /\ nb \notin b.found
          BY <1>3, <3>2, <4>1
        <5>2. Cardinality(with) = Cardinality(b.found) + 1
          BY <3>3, <5>1, FS_AddElement
        <5>3. \A c, d \in Nat : c < d => ~(c + 1 > d)
          OBVIOUS
        <5> HIDE DEF with
        <5>4. QED
          BY <3>1, <3>3, <5>2, <5>3
      <4>2. CASE nb \notin admit
        <5>1. with = b.found
          BY <4>2
        <5>2. \A c, d \in Nat : c < d => ~(c > d)
          OBVIOUS
        <5> HIDE DEF with
        <5>3. QED
          BY <3>1, <3>3, <5>1, <5>2
      <4>3. QED
        BY <4>1, <4>2
    <3>5. near
      BY <3>1
    <3>6. r.found = with /\ r.cand = b.cand \cup {nb} /\ r.seen = b.seen \cup {nb}
      BY <2>1, <3>4, <3>5
    <3>7. r.found = r.seen \cap admit /\ r.cand \subseteq r.seen /\ r.seen \ r.cand = P
      BY <1>3, <3>2, <3>6
    <3>8. QED
      BY <2>3, <3>6, <3>7 DEF Sweeps, Met
  <2>4. QED
    BY <2>2, <2>3
<1>4. QED
  BY <1>2, <1>3

\* The same after all neighbours of a node.
MetAll(r, b, nbs, D, admit, P) ==
    /\ Sweeps(r, D, admit, P)
    /\ b.found \in D => r.found \in D
    /\ r.found \in D \/ (b.seen \subseteq r.seen /\ ToSet(nbs) \subseteq r.seen)

LEMMA MeetAllSweeps ==
  ASSUME NEW V, IsFiniteSet(V), NEW g, NEW q, NEW ef \in Nat, NEW admit, NEW D, Settles(D, g, q, ef, admit),
         NEW P, NEW b \in Beams(V, admit), Sweeps(b, D, admit, P), NEW nbs \in Seq(V),
         NEW r, r = MeetAll(g, q, ef, admit, b, nbs)
  PROVE  MetAll(r, b, nbs, D, admit, P)
<1>1. PICK N : N = Len(nbs)
  OBVIOUS
<1>2. N \in Nat /\ \A i \in 1..N : nbs[i] \in V
  BY <1>1
<1>3. PICK B : B = Beams(V, admit)
  OBVIOUS
<1> DEFINE Ok(x, i) == /\ Sweeps(x, D, admit, P)
                       /\ b.found \in D => x.found \in D
                       /\ x.found \in D \/ (b.seen \subseteq x.seen /\ \A j \in 1..i : nbs[j] \in x.seen)
<1>4. PICK W : W = [i \in 0..N |-> {x \in B : Ok(x, i)}]
  OBVIOUS
<1>5. b \in W[0]
  <2>1. Ok(b, 0)
    OBVIOUS
  <2>2. QED
    BY <1>2, <1>3, <1>4, <2>1
<1>6. ASSUME NEW i \in 1..N, NEW x \in W[i - 1] PROVE Meet(g, q, ef, admit, x, nbs[i]) \in W[i]
  <2>1. i \in 0..N /\ i - 1 \in 0..N /\ \A j \in 1..i : j = i \/ j \in 1..(i - 1)
    BY <1>2
  <2>2. x \in B /\ Ok(x, i - 1)
    BY <1>4, <2>1
  <2>3. PICK nb, y : nb = nbs[i] /\ y = Meet(g, q, ef, admit, x, nb)
    OBVIOUS
  <2>4. nb \in V /\ x \in Beams(V, admit) /\ Sweeps(x, D, admit, P)
    BY <1>2, <1>3, <2>2, <2>3
  <2>5. y \in B
    BY <1>3, <2>3, <2>4, MeetStays
  <2>6. /\ Sweeps(y, D, admit, P) /\ (x.found \in D => y.found \in D)
        /\ y.found \in D \/ (x.seen \subseteq y.seen /\ nb \in y.seen)
    <3>1. Met(y, x, nb, D, admit, P)
      BY <2>3, <2>4, MeetSweeps
    <3>2. QED
      BY <3>1 DEF Met
  <2>7. ASSUME y.found \notin D PROVE b.seen \subseteq y.seen /\ \A j \in 1..i : nbs[j] \in y.seen
    <3>1. x.found \notin D /\ x.seen \subseteq y.seen /\ nb \in y.seen
      BY <2>6, <2>7
    <3>2. b.seen \subseteq x.seen /\ \A j \in 1..(i - 1) : nbs[j] \in x.seen
      BY <2>2, <3>1
    <3>3. QED
      BY <2>1, <2>3, <3>1, <3>2
  <2>8. Ok(y, i)
    <3>1. b.found \in D => y.found \in D
      BY <2>2, <2>6
    <3>2. QED
      BY <2>6, <2>7, <3>1
  <2> HIDE DEF Ok
  <2>9. QED
    BY <1>4, <2>1, <2>3, <2>5, <2>8
<1>7. r \in W[N]
  BY <1>1, <1>2, <1>5, <1>6, MeetAllUnfolds
<1>8. Ok(r, N)
  BY <1>2, <1>4, <1>7
<1>9. \A nb \in ToSet(nbs) : \E j \in 1..N : nb = nbs[j]
  BY <1>1, ToSetIs
<1>10. QED
  BY <1>8, <1>9 DEF MetAll

\* After i rounds: what was left behind has been looked around, and it grows.
Round(b, D, admit, g, start, layer, i) ==
    b.found \in D \/ /\ b.found = b.seen \cap admit /\ b.cand \subseteq b.seen /\ start \in b.seen
                     /\ \A m \in b.seen \ b.cand : ToSet(Neighbours(g, m, layer)) \subseteq b.seen
                     /\ b.cand = {} \/ Cardinality(b.seen \ b.cand) >= i

LEMMA OnwardSweeps ==
  ASSUME NEW g, NEW n \in Nat, g.vec \in [1..n -> Points], NEW q \in Points, NEW ef \in Nat, NEW admit,
         NEW V, V \subseteq 1..n, NEW layer, StaysIn(g, layer, V), NEW D, Settles(D, g, q, ef, admit),
         NEW start, NEW i \in Nat, i >= 1, NEW b \in Beams(V, admit), Round(b, D, admit, g, start, layer, i - 1),
         NEW r, r = Onward(g, q, layer, ef, admit, b)
  PROVE  Round(r, D, admit, g, start, layer, i)
<1>1. /\ b.cand \subseteq V /\ b.seen \subseteq V /\ b.found \subseteq V \cap admit
      /\ b = [cand |-> b.cand, seen |-> b.seen, found |-> b.found]
  BY DEF Beams
<1>2. IsFiniteSet(V)
  <2>1. IsFiniteSet(1..n)
    BY FS_Interval
  <2>2. QED
    BY <2>1, FS_Subset
<1>3. CASE r = b /\ (b.cand = {} \/ b.found \in D)
  BY <1>3 DEF Round
<1>4. CASE b.cand # {} /\ ~(r = b /\ b.found \in D)
  <2>1. PICK next : next = Nearest(g, b.cand, q)
    OBVIOUS
  <2>2. next \in b.cand /\ next \in V
    <3>1. b.cand \subseteq 1..n
      BY <1>1
    <3>2. QED
      BY <1>1, <1>4, <2>1, <3>1, NearestIn
  <2>3. PICK x : x = [b EXCEPT !.cand = @ \ {next}]
    OBVIOUS
  <2>4. x.cand = b.cand \ {next} /\ x.seen = b.seen /\ x.found = b.found /\ x \in Beams(V, admit)
    BY <1>1, <2>3 DEF Beams
  <2>5. PICK nbs : nbs = Neighbours(g, next, layer)
    OBVIOUS
  <2>6. nbs \in Seq(V)
    BY <2>2, <2>5 DEF StaysIn
  <2>7. r = MeetAll(g, q, ef, admit, x, nbs)
    <3>1. b.found \notin D => Cardinality(b.found) < ef
      BY <1>1 DEF Settles
    <3>2. b.found \notin D => ~(Cardinality(b.found) >= ef)
      <4>1. IsFiniteSet(b.found) /\ Cardinality(b.found) \in Nat
        BY <1>1, <1>2, FS_Subset, FS_CardinalityType
      <4>2. QED
        BY <3>1, <4>1
    <3>3. r = b \/ r = MeetAll(g, q, ef, admit, x, nbs)
      BY <2>1, <2>3, <2>5 DEF Onward
    <3>4. b.found \notin D => r = MeetAll(g, q, ef, admit, x, nbs)
      BY <1>4, <2>1, <2>3, <2>5, <3>2 DEF Onward
    <3>5. QED
      BY <1>4, <3>3, <3>4
  <2>8. PICK P : P = x.seen \ x.cand
    OBVIOUS
  <2>9. Sweeps(x, D, admit, P)
    BY <2>4, <2>8 DEF Sweeps, Round
  <2>10. MetAll(r, x, nbs, D, admit, P)
    BY <1>2, <2>4, <2>6, <2>7, <2>9, MeetAllSweeps
  <2>11. CASE r.found \in D
    BY <2>11 DEF Round
  <2>12. CASE r.found \notin D
    <3>1. /\ b.found \notin D /\ r.found = r.seen \cap admit /\ r.cand \subseteq r.seen /\ r.seen \ r.cand = P
          /\ b.seen \subseteq r.seen /\ ToSet(nbs) \subseteq r.seen
      BY <2>4, <2>10, <2>12 DEF MetAll, Sweeps
    <3>2. /\ b.cand \subseteq b.seen /\ start \in b.seen
          /\ \A m \in b.seen \ b.cand : ToSet(Neighbours(g, m, layer)) \subseteq b.seen
          /\ Cardinality(b.seen \ b.cand) >= i - 1
      BY <1>4, <3>1 DEF Round
    <3>3. P = (b.seen \ b.cand) \cup {next} /\ next \notin b.seen \ b.cand
      BY <2>2, <2>4, <2>8, <3>2
    <3>4. \A m \in P : ToSet(Neighbours(g, m, layer)) \subseteq r.seen
      BY <2>5, <3>1, <3>2, <3>3
    <3>5. Cardinality(P) >= i
      <4>1. IsFiniteSet(b.seen \ b.cand) /\ Cardinality(b.seen \ b.cand) \in Nat
        BY <1>1, <1>2, FS_Subset, FS_CardinalityType
      <4>2. Cardinality(P) = Cardinality(b.seen \ b.cand) + 1
        BY <3>3, <4>1, FS_AddElement
      <4>3. QED
        BY <3>2, <4>1, <4>2
    <3>6. QED
      BY <3>1, <3>2, <3>4, <3>5 DEF Round
  <2>13. QED
    BY <2>11, <2>12
<1>5. b.cand = {} => r = b
  BY DEF Onward
<1>6. QED
  BY <1>3, <1>4, <1>5

\* A beam ends settled, or has seen whatever can be reached.
Swept(e, D, admit, g, start, layer) ==
    e.found \in D \/ /\ e.found = e.seen \cap admit /\ start \in e.seen
                     /\ \A m \in e.seen : ToSet(Neighbours(g, m, layer)) \subseteq e.seen

LEMMA BeamSweeps ==
  ASSUME NEW g, NEW n \in Nat, g.vec \in [1..n -> Points], NEW q \in Points, NEW ef \in Nat, NEW admit,
         Len(g.ln) = n, NEW layer, StaysIn(g, layer, 1..n), NEW D, Settles(D, g, q, ef, admit),
         NEW start \in 1..n
  PROVE  Swept(BeamEnd(g, q, start, layer, ef, admit), D, admit, g, start, layer)
<1>1. PICK V, B : V = 1..n /\ B = Beams(V, admit)
  OBVIOUS
<1>2. PICK W : W = [i \in 0..n |-> {b \in B : Round(b, D, admit, g, start, layer, i)}]
  OBVIOUS
<1>3. IsFiniteSet(V) /\ Cardinality(V) = n
  BY <1>1, FS_Interval
<1>4. V \subseteq 1..n /\ StaysIn(g, layer, V) /\ start \in V
  BY <1>1
<1>5. BeamStart(start, admit) \in W[0]
  <2>1. PICK b : b = BeamStart(start, admit)
    OBVIOUS
  <2>2. b.cand = {start} /\ b.seen = {start} /\ b.found = {start} \cap admit
        /\ b = [cand |-> b.cand, seen |-> b.seen, found |-> b.found]
    BY <2>1 DEF BeamStart
  <2>3. b \in B
    BY <1>1, <1>4, <2>2 DEF Beams
  <2>4. b.seen \ b.cand = {} /\ Cardinality(b.seen \ b.cand) = 0
    BY <2>2, FS_EmptySet
  <2>5. Round(b, D, admit, g, start, layer, 0)
    BY <2>2, <2>4 DEF Round
  <2>6. 0 \in 0..n
    OBVIOUS
  <2>7. QED
    BY <1>2, <2>1, <2>3, <2>5, <2>6
<1>6. ASSUME NEW i \in 1..n, NEW b \in W[i - 1] PROVE Onward(g, q, layer, ef, admit, b) \in W[i]
  <2>1. i \in 0..n /\ i - 1 \in 0..n /\ i \in Nat /\ i >= 1
    OBVIOUS
  <2>2. b \in Beams(V, admit) /\ Round(b, D, admit, g, start, layer, i - 1)
    BY <1>1, <1>2, <2>1
  <2>3. PICK r : r = Onward(g, q, layer, ef, admit, b)
    OBVIOUS
  <2>4. r \in B
    BY <1>1, <1>4, <2>2, <2>3, OnwardStays
  <2>5. Round(r, D, admit, g, start, layer, i)
    BY <1>4, <2>1, <2>2, <2>3, OnwardSweeps
  <2>6. QED
    BY <1>2, <2>1, <2>3, <2>4, <2>5
<1>7. PICK e : e = BeamEnd(g, q, start, layer, ef, admit)
  OBVIOUS
<1>8. e \in W[n]
  BY <1>5, <1>6, <1>7, BeamUnfolds
<1>9. n \in 0..n
  OBVIOUS
<1>10. e \in Beams(V, admit) /\ Round(e, D, admit, g, start, layer, n)
  BY <1>1, <1>2, <1>8, <1>9
<1>11. CASE e.found \in D
  BY <1>7, <1>11 DEF Swept
<1>12. CASE e.found \notin D
  <2>1. /\ e.found = e.seen \cap admit /\ e.cand \subseteq e.seen /\ start \in e.seen
        /\ \A m \in e.seen \ e.cand : ToSet(Neighbours(g, m, layer)) \subseteq e.seen
        /\ e.cand = {} \/ Cardinality(e.seen \ e.cand) >= n
    BY <1>10, <1>12 DEF Round
  <2>2. e.seen \subseteq V
    BY <1>10 DEF Beams
  <2>3. e.cand = {}
    <3>1. SUFFICES ASSUME NEW c \in e.cand PROVE FALSE
      OBVIOUS
    <3>2. PICK P : P = e.seen \ e.cand
      OBVIOUS
    <3>3. P \subseteq V \ {c} /\ c \in V
      BY <2>1, <2>2, <3>2
    <3>4. IsFiniteSet(V \ {c}) /\ Cardinality(V \ {c}) = n - 1
      BY <1>3, <3>3, FS_RemoveElement
    <3>5. Cardinality(P) <= n - 1 /\ Cardinality(P) \in Nat
      BY <3>3, <3>4, FS_Subset, FS_CardinalityType
    <3>6. Cardinality(P) >= n
      BY <2>1, <3>2
    <3>7. QED
      BY <3>5, <3>6
  <2>4. QED
    BY <1>7, <2>1, <2>3 DEF Swept
<1>13. QED
  BY <1>11, <1>12

\* What a layer leads to from a node.
Reached(g, n, start, layer) ==
    {m \in 1..n : \A S \in SUBSET (1..n) :
        start \in S /\ (\A x \in S : ToSet(Neighbours(g, x, layer)) \subseteq S) => m \in S}

\* The results of a beam: reached, admitted, and all of these unless settled.
Finds(F, D, R, admit) == F \subseteq R \cap admit /\ (F \in D \/ F = R \cap admit)

LEMMA BeamFinds ==
  ASSUME NEW g, NEW n \in Nat, g.vec \in [1..n -> Points], NEW q \in Points, NEW ef \in Nat, NEW admit,
         Len(g.ln) = n, NEW layer, StaysIn(g, layer, 1..n), NEW D, Settles(D, g, q, ef, admit),
         NEW start \in 1..n
  PROVE  Finds(BeamEnd(g, q, start, layer, ef, admit).found, D, Reached(g, n, start, layer), admit)
<1>1. PICK e : e = BeamEnd(g, q, start, layer, ef, admit)
  OBVIOUS
<1>2. PICK R : R = Reached(g, n, start, layer)
  OBVIOUS
<1>3. Swept(e, D, admit, g, start, layer)
  BY <1>1, BeamSweeps
<1>4. e \in Beams(1..n, admit)
  <2>1. PICK V : V = 1..n
    OBVIOUS
  <2>2. V \subseteq 1..n /\ StaysIn(g, layer, V) /\ start \in V
    BY <2>1
  <2>3. e \in Beams(V, admit)
    BY <1>1, <2>2, BeamStays
  <2>4. QED
    BY <2>1, <2>3
<1>5. ASSUME NEW S \in SUBSET (1..n), start \in S, \A x \in S : ToSet(Neighbours(g, x, layer)) \subseteq S
      PROVE  e.found \subseteq S /\ e.seen \subseteq S
  <2>1. StaysIn(g, layer, S)
    <3>1. ASSUME NEW x \in S PROVE Neighbours(g, x, layer) \in Seq(S)
      <4>1. PICK s : s = Neighbours(g, x, layer)
        OBVIOUS
      <4>2. x \in 1..n
        OBVIOUS
      <4>3. s \in Seq(1..n)
        BY <4>1, <4>2 DEF StaysIn
      <4>4. ToSet(s) \subseteq S
        BY <1>5, <4>1
      <4>5. Len(s) \in Nat /\ s = [i \in 1..Len(s) |-> s[i]]
        BY <4>3
      <4>6. \A i \in 1..Len(s) : s[i] \in S
        BY <4>3, <4>4, ToSetIs
      <4>7. s \in Seq(S)
        BY <4>5, <4>6
      <4>8. QED
        BY <4>1, <4>7
    <3>2. QED
      BY <3>1 DEF StaysIn
  <2>2. e \in Beams(S, admit)
    BY <1>1, <1>5, <2>1, BeamStays
  <2>3. QED
    BY <2>2 DEF Beams
<1>6. /\ e.found \subseteq 1..n /\ e.found \subseteq admit /\ e.seen \subseteq 1..n
  BY <1>4 DEF Beams
<1>7. e.found \subseteq R /\ e.seen \subseteq R
  BY <1>2, <1>5, <1>6 DEF Reached
<1>8. CASE e.found \in D
  BY <1>1, <1>2, <1>6, <1>7, <1>8 DEF Finds
<1>9. CASE e.found \notin D
  <2>1. /\ e.found = e.seen \cap admit /\ start \in e.seen
        /\ \A m \in e.seen : ToSet(Neighbours(g, m, layer)) \subseteq e.seen
    BY <1>3, <1>9 DEF Swept
  <2>2. e.seen \in SUBSET (1..n)
    BY <1>6
  <2>3. R \subseteq e.seen
    BY <1>2, <2>1, <2>2 DEF Reached
  <2>4. e.found = R \cap admit
    BY <1>7, <2>1, <2>3
  <2>5. QED
    BY <1>1, <1>2, <2>4 DEF Finds
<1>10. QED
  BY <1>8, <1>9

\* Results are all of admit: nothing is evicted from a beam at least as wide.
LEMMA WideSettles ==
  ASSUME NEW admit, IsFiniteSet(admit), NEW ef \in Nat, Cardinality(admit) <= ef, NEW g, NEW q
  PROVE  Settles({admit}, g, q, ef, admit)
<1>1. Cardinality(admit) \in Nat
  BY FS_CardinalityType
<1>2. ASSUME NEW F \in SUBSET admit, F # admit PROVE Cardinality(F) < ef
  <2>1. IsFiniteSet(F) /\ Cardinality(F) <= Cardinality(admit) /\ Cardinality(F) # Cardinality(admit)
    BY <1>2, FS_Subset
  <2>2. Cardinality(F) \in Nat
    BY <2>1, FS_CardinalityType
  <2>3. QED
    BY <1>1, <2>1, <2>2
<1>3. \A nb : admit \cup ({nb} \cap admit) = admit
  OBVIOUS
<1>4. ~(Cardinality(admit) > ef)
  BY <1>1
<1>5. QED
  BY <1>2, <1>3, <1>4 DEF Settles

\* Results are not empty: a beam never evicts its last.
LEMMA NarrowSettles ==
  ASSUME NEW admit, IsFiniteSet(admit), NEW ef \in Nat, ef >= 1, NEW g, NEW q,
         NEW D, D = {F \in SUBSET admit : F # {}}
  PROVE  Settles(D, g, q, ef, admit)
<1>1. ASSUME NEW F \in SUBSET admit, F \notin D PROVE Cardinality(F) < ef
  <2>1. F = {}
    BY <1>1
  <2>2. QED
    BY <2>1, FS_EmptySet
<1>2. ASSUME NEW F \in D, NEW nb PROVE F \cup ({nb} \cap admit) \in D
  OBVIOUS
<1>3. ASSUME NEW F \in D, Cardinality(F) > ef, NEW x PROVE F \ {x} \in D
  <2>1. SUFFICES ASSUME F \ {x} = {} PROVE FALSE
    OBVIOUS
  <2>2. F = {x}
    BY <2>1
  <2>3. Cardinality(F) = 1
    BY <2>2, FS_Singleton
  <2>4. QED
    BY <1>3, <2>3
<1>4. ASSUME NEW F \in D, NEW nb
      PROVE  /\ F \cup ({nb} \cap admit) \in D
             /\ Cardinality(F \cup ({nb} \cap admit)) > ef =>
                  \A x : (F \cup ({nb} \cap admit)) \ {x} \in D
  <2>1. PICK G : G = F \cup ({nb} \cap admit)
    OBVIOUS
  <2>2. G \in D
    BY <1>2, <2>1
  <2>3. Cardinality(G) > ef => \A x : G \ {x} \in D
    BY <1>3, <2>2
  <2>4. QED
    BY <2>1, <2>2, <2>3
<1>5. QED
  BY <1>1, <1>4 DEF Settles

\* Where a search of the graph starts, and what the graph is by then.
Searchable(N, start, q) ==
    /\ N \in Nat /\ N = Len(ids) /\ Nodes = 1..N /\ Len(Graph.ln) = N
    /\ Graph.vec \in [1..N -> Points] /\ StaysIn(Graph, 0, 1..N)
    /\ start = Start(q) /\ start \in 1..N /\ q \in Points
    /\ Living \subseteq 1..N /\ IsFiniteSet(Living) /\ live = Cardinality(Living) /\ live \in Nat

LEMMA SearchStarts ==
  ASSUME AnnInv, entry # <<>>, NEW q \in Probes
  PROVE  Searchable(Len(ids), Start(q), q)
<1>1. PICK N, start : N = Len(ids) /\ start = Start(q)
  OBVIOUS
<1>2. /\ ShapeInv /\ EntryInv /\ live = Cardinality(Living)
      /\ IsGraph(Graph, N) /\ WellLinked(Graph, N) /\ Graph.ln = links
  BY <1>1 DEF AnnInv, Graph
<1>3. N \in Nat /\ Nodes = 1..N
  BY <1>1, <1>2 DEF ShapeInv, Nodes
<1>4. q \in Points
  BY ProbesFormed DEF Points
<1>5. Len(Graph.ln) = N /\ Graph.vec \in [1..N -> Points]
  BY <1>2, <1>3, GraphLists
<1>6. PICK e, top : e = entry[1] /\ top = entry[2]
  OBVIOUS
<1>7. e \in 1..N /\ top \in Nat /\ Len(links[e]) = top + 1
  BY <1>1, <1>2, <1>6 DEF EntryInv
<1>8. \A k : Unnamed(Graph, N, 0, k)
  <2>1. SUFFICES ASSUME NEW k, NEW m \in 1..N, k \in 1..Len(Graph.ln[m]), NEW j \in 1..Len(Graph.ln[m][k])
                 PROVE  Graph.ln[m][k][j] # 0
    BY DEF Unnamed
  <2>2. PICK s : s = Graph.ln[m][k]
    OBVIOUS
  <2>3. s \in Seq(1..N) /\ j \in 1..Len(s)
    BY <1>2, <1>3, <2>1, <2>2, GraphLists
  <2>4. s[j] \in 1..N
    BY <2>3, Elements
  <2>5. QED
    BY <1>3, <2>2, <2>4
<1>9. \A layer \in Nat : StaysIn(Graph, layer, Having(Graph, N, 0, layer))
  BY <1>2, <1>3, <1>8, LeadsAround
<1>10. start \in 1..N
  <2>1. e \in Having(Graph, N, 0, top)
    BY <1>2, <1>3, <1>7 DEF Having
  <2>2. \A layer \in (0 + 1)..top : StaysIn(Graph, layer, Having(Graph, N, 0, layer))
    BY <1>7, <1>9
  <2>3. Descended(Graph, q, e, top, 0) \in Having(Graph, N, 0, 0)
    BY <1>2, <1>3, <1>4, <1>7, <2>1, <2>2, DescendedStays
  <2>4. QED
    BY <1>1, <1>6, <2>3 DEF Start, Having
<1>11. StaysIn(Graph, 0, 1..N)
  <2>1. ASSUME NEW m \in 1..N PROVE Neighbours(Graph, m, 0) \in Seq(1..N)
    <3>1. Len(Graph.ln[m]) \in Nat
      BY <1>2, <1>3, GraphLists
    <3>2. CASE 0 < Len(Graph.ln[m])
      <4>1. 1 \in 1..Len(Graph.ln[m])
        BY <3>1, <3>2
      <4>2. Graph.ln[m][1] \in Seq(1..N)
        BY <1>2, <1>3, <4>1, GraphLists
      <4>3. QED
        BY <3>2, <4>2 DEF Neighbours
    <3>3. CASE ~(0 < Len(Graph.ln[m]))
      BY <3>3 DEF Neighbours
    <3>4. QED
      BY <3>2, <3>3
  <2>2. QED
    BY <2>1 DEF StaysIn
<1>12. Living \subseteq 1..N /\ IsFiniteSet(Living) /\ live \in Nat
  <2>1. Living \subseteq 1..N
    BY <1>3 DEF Living
  <2>2. IsFiniteSet(1..N)
    BY <1>3, FS_Interval
  <2>3. IsFiniteSet(Living)
    BY <2>1, <2>2, FS_Subset
  <2>4. QED
    BY <1>2, <2>1, <2>3, FS_CardinalityType
<1>13. Searchable(N, start, q)
  BY <1>1, <1>2, <1>3, <1>4, <1>5, <1>10, <1>11, <1>12 DEF Searchable
<1>14. QED
  BY <1>1, <1>13

LEMMA ReachedAlike ==
  ASSUME NEW N, NEW start, NEW q, Searchable(N, start, q)
  PROVE  ReachedFrom(start) = Reached(Graph, N, start, 0)
  BY DEF Searchable, ReachedFrom, Reached, LeadsNowhere

LEMMA WideIsExact ==
  ASSUME NEW N, NEW start, NEW q, Searchable(N, start, q), NEW admit, admit \subseteq Living,
         NEW ef \in Nat, Cardinality(admit) <= ef
  PROVE  beam_admit(Graph, q, start, 0, ef, admit) = NearestFirst(Graph, ReachedFrom(start) \cap admit, q)
<1>1. PICK F, R : F = BeamEnd(Graph, q, start, 0, ef, admit).found /\ R = Reached(Graph, N, start, 0)
  OBVIOUS
<1>2. IsFiniteSet(admit)
  BY FS_Subset DEF Searchable
<1>3. Settles({admit}, Graph, q, ef, admit)
  BY <1>2, WideSettles
<1>4. Finds(F, {admit}, R, admit)
  BY <1>1, <1>3, BeamFinds DEF Searchable
<1>5. F = R \cap admit
  BY <1>4 DEF Finds
<1>6. R = ReachedFrom(start)
  BY <1>1, ReachedAlike
<1>7. QED
  BY <1>1, <1>5, <1>6 DEF beam_admit

LEMMA LargestIs == ASSUME NEW a \in Nat, NEW b \in Nat
                   PROVE  Largest(a, b) \in Nat /\ a <= Largest(a, b) /\ b <= Largest(a, b)
  BY DEF Largest

LEMMA SearchIsExact ==
  ASSUME NEW N, NEW q, Searchable(N, Start(q), q), entry # <<>>
  PROVE  search(q, 2, live) = Foremost(NearestFirst(Graph, ReachedFrom(Start(q)) \cap Living, q), 2)
<1>1. PICK ef : ef = Largest(Largest(live, EfSearch), 2)
  OBVIOUS
<1>2. live \in Nat /\ EfSearch \in Nat /\ live = Cardinality(Living)
  BY AnnSizes DEF Searchable
<1>3. ef \in Nat /\ live <= ef
  <2>1. PICK e : e = Largest(live, EfSearch)
    OBVIOUS
  <2>2. e \in Nat /\ live <= e
    BY <1>2, <2>1, LargestIs
  <2>3. ef \in Nat /\ e <= ef
    BY <1>1, <2>1, <2>2, LargestIs
  <2>4. QED
    BY <1>2, <2>2, <2>3
<1>4. beam_admit(Graph, q, Start(q), 0, ef, Living) = NearestFirst(Graph, ReachedFrom(Start(q)) \cap Living, q)
  BY <1>2, <1>3, WideIsExact
<1>5. QED
  BY <1>1, <1>4 DEF search

\* Dividing by the share that a filter allows widens a beam to the whole graph at least.
LEMMA WidensEnough ==
  ASSUME NEW N \in Nat, N = Len(ids), live \in Nat, NEW allow,
         Cardinality(allow) \in 1..2
  PROVE  Widened(2, live, allow) = N
<1>1. PICK w, a : w = Largest(Largest(live, EfSearch), 2) /\ a = Cardinality(allow)
  OBVIOUS
<1>2. w \in Nat /\ w >= 2 /\ a \in 1..2
  <2>1. EfSearch \in Nat
    BY AnnSizes
  <2>2. Largest(live, EfSearch) \in Nat
    BY <2>1, LargestIs
  <2>3. QED
    BY <1>1, <2>2, LargestIs
<1>3. PICK want : want = (w * N + a - 1) \div a
  OBVIOUS
<1>4. want \in Nat /\ want >= N
  <2>1. PICK p : p = w * N
    OBVIOUS
  <2>2. p \in Nat /\ p >= 2 * N
    BY <1>2, <2>1
  <2>3. CASE a = 1
    <3>1. want = p
      BY <1>3, <2>1, <2>2, <2>3
    <3>2. QED
      BY <2>2, <3>1
  <2>4. CASE a = 2
    <3>1. want = (p + 1) \div 2
      BY <1>3, <2>1, <2>2, <2>4
    <3>2. QED
      BY <2>2, <3>1
  <2>5. QED
    BY <1>2, <2>3, <2>4
<1>5. Widened(2, live, allow) = IF want < N THEN want ELSE N
  BY <1>1, <1>3 DEF Widened
<1>6. QED
  BY <1>4, <1>5

LEMMA CountsTo == \A n \in Nat : IsFiniteSet(1..n) /\ Cardinality(1..n) = n
  BY FS_Interval

LEMMA FilteredIsExact ==
  ASSUME NEW N, NEW q, Searchable(N, Start(q), q), entry # <<>>,
         NEW allow, Cardinality(allow) \in 1..2, allow # {}
  PROVE  search_filtered(q, 2, live, allow) =
           Foremost(NearestFirst(Graph, {n \in ReachedFrom(Start(q)) \cap Living : ids[n] \in allow}, q), 2)
<1>1. PICK admit : admit = {n \in Living : ids[n] \in allow}
  OBVIOUS
<1>2. /\ N \in Nat /\ N = Len(ids) /\ Living \subseteq 1..N /\ live \in Nat
  BY DEF Searchable
<1>3. Widened(2, live, allow) = N
  BY <1>2, WidensEnough
<1>4. Cardinality(admit) <= N
  <2>1. admit \subseteq 1..N
    BY <1>1, <1>2
  <2>2. PICK V : V = 1..N
    OBVIOUS
  <2>3. IsFiniteSet(V) /\ Cardinality(V) = N
    BY <1>2, <2>2, CountsTo
  <2>4. QED
    BY <2>1, <2>2, <2>3, FS_Subset
<1>5. beam_admit(Graph, q, Start(q), 0, N, admit) = NearestFirst(Graph, ReachedFrom(Start(q)) \cap admit, q)
  BY <1>1, <1>2, <1>4, WideIsExact
<1>6. ReachedFrom(Start(q)) \cap admit = {n \in ReachedFrom(Start(q)) \cap Living : ids[n] \in allow}
  BY <1>1
<1>7. QED
  BY <1>1, <1>3, <1>5, <1>6 DEF search_filtered

\* A beam of any width finds something, if anything can be found.
LEMMA NarrowFinds ==
  ASSUME NEW N, NEW q, Searchable(N, Start(q), q), entry # <<>>,
         NEW R, R = ReachedFrom(Start(q)) \cap Living, NEW narrow, narrow = search(q, 1, 1)
  PROVE  ToSet(narrow) \subseteq R /\ Len(narrow) <= 1 /\ (R # {} => narrow # <<>>)
<1>1. PICK ef : ef = Largest(Largest(1, EfSearch), 1)
  OBVIOUS
<1>2. ef \in Nat /\ ef >= 1
  <2>1. EfSearch \in Nat
    BY AnnSizes
  <2>2. Largest(1, EfSearch) \in Nat
    BY <2>1, LargestIs
  <2>3. QED
    BY <1>1, <2>2, LargestIs
<1>3. PICK F, D : /\ F = BeamEnd(Graph, q, Start(q), 0, ef, Living).found
                  /\ D = {G \in SUBSET Living : G # {}}
  OBVIOUS
<1>4. Settles(D, Graph, q, ef, Living)
  BY <1>2, <1>3, NarrowSettles DEF Searchable
<1>5. Finds(F, D, Reached(Graph, N, Start(q), 0), Living)
  BY <1>2, <1>3, <1>4, BeamFinds DEF Searchable
<1>6. F \subseteq R /\ (F # {} \/ F = R)
  BY <1>3, <1>5, ReachedAlike DEF Finds
<1>7. PICK s : s = NearestFirst(Graph, F, q)
  OBVIOUS
<1>8. Lists(s, F)
  <2>1. F \subseteq 1..N
    BY <1>6 DEF Searchable
  <2>2. QED
    BY <1>7, <2>1, NearestFirstLists DEF Searchable
<1>9. s \in Seq(F) /\ Len(s) \in Nat /\ (F # {} => Len(s) >= 1)
  <2>1. s \in Seq(F) /\ \A x \in F : \E i \in 1..Len(s) : s[i] = x
    BY <1>8 DEF Lists
  <2>2. QED
    BY <2>1
<1>10. PICK k : k = IF 1 < Len(s) THEN 1 ELSE Len(s)
  OBVIOUS
<1>11. narrow = SubSeq(s, 1, k)
  BY <1>1, <1>3, <1>7, <1>10 DEF search, beam_admit, Foremost
<1>12. k \in 0..1 /\ k <= Len(s) /\ (F # {} => k = 1)
  <2>1. CASE 1 < Len(s)
    BY <1>9, <1>10, <2>1
  <2>2. CASE ~(1 < Len(s))
    <3>1. k = Len(s) /\ k \in 0..1
      BY <1>9, <1>10, <2>2
    <3>2. QED
      BY <1>9, <3>1
  <2>3. QED
    BY <2>1, <2>2
<1>13. narrow \in Seq(F) /\ Len(narrow) = k
  BY <1>9, <1>11, <1>12
<1>14. ToSet(narrow) \subseteq F
  BY <1>13, ToSetIs
<1>15. R # {} => narrow # <<>>
  <2>1. R # {} => k = 1
    BY <1>6, <1>12
  <2>2. Len(<<>>) = 0
    OBVIOUS
  <2>3. QED
    BY <1>13, <2>1, <2>2
<1>16. QED
  BY <1>6, <1>12, <1>13, <1>14, <1>15

LEMMA AnnInvSearches == AnnInv => SearchExact
<1>1. SUFFICES ASSUME AnnInv, NEW q \in Probes, entry # <<>>
               PROVE  LET reached == ReachedFrom(Start(q)) \cap Living
                          nearest(S) == Foremost(NearestFirst(Graph, S, q), 2)
                          allow == {ids[1], ids[Len(ids)]}
                          narrow == search(q, 1, 1)
                      IN  /\ search(q, 2, live) = nearest(reached)
                          /\ search_filtered(q, 2, live, allow) = nearest({n \in reached : ids[n] \in allow})
                          /\ ToSet(narrow) \subseteq reached /\ Len(narrow) <= 1
                          /\ reached # {} => narrow # <<>>
  BY DEF SearchExact
<1> DEFINE reached == ReachedFrom(Start(q)) \cap Living
           allow == {ids[1], ids[Len(ids)]}
           narrow == search(q, 1, 1)
<1>2. Searchable(Len(ids), Start(q), q)
  BY <1>1, SearchStarts
<1>3. Cardinality(allow) \in 1..2 /\ allow # {}
  <2>1. CASE ids[1] = ids[Len(ids)]
    <3>1. PICK a : a = ids[1]
      OBVIOUS
    <3>2. allow = {a}
      BY <2>1, <3>1
    <3>3. Cardinality({a}) = 1
      BY FS_Singleton
    <3>4. QED
      BY <3>2, <3>3
  <2>2. CASE ids[1] # ids[Len(ids)]
    <3>1. PICK a, b : a = ids[1] /\ b = ids[Len(ids)]
      OBVIOUS
    <3>2. IsFiniteSet({a}) /\ Cardinality({a}) = 1
      BY FS_Singleton
    <3>3. allow = {a} \cup {b} /\ b \notin {a}
      BY <1>1, <2>2, <3>1
    <3>4. PICK A : A = {a} \cup {b}
      OBVIOUS
    <3>5. Cardinality(A) = Cardinality({a}) + 1
      BY <3>2, <3>3, <3>4, FS_AddElement
    <3>6. Cardinality(A) = 2
      BY <3>2, <3>5
    <3>7. allow = A
      BY <3>3, <3>4
    <3> HIDE DEF allow
    <3>8. QED
      BY <3>3, <3>6, <3>7
  <2>3. QED
    BY <2>1, <2>2
<1>4. search(q, 2, live) = Foremost(NearestFirst(Graph, reached, q), 2)
  BY <1>1, <1>2, SearchIsExact
<1>5. search_filtered(q, 2, live, allow) =
        Foremost(NearestFirst(Graph, {n \in reached : ids[n] \in allow}, q), 2)
  BY <1>1, <1>2, <1>3, FilteredIsExact
<1>6. ToSet(narrow) \subseteq reached /\ Len(narrow) <= 1 /\ (reached # {} => narrow # <<>>)
  BY <1>1, <1>2, NarrowFinds
<1> HIDE DEF reached, allow, narrow
<1>7. QED
  BY <1>4, <1>5, <1>6 DEF reached, allow, narrow

\* SearchExact: however the graph was linked, pruned, tombstoned, trained, sealed and paged, a
\* search at least as wide as the number of living nodes, filtered or not, returns exactly the
\* nearest of those that layer 0 leads to from the end of the descent, and one of any width
\* returns at least something when there is something to return.
THEOREM SearchAlwaysExact == AnnSpec => []SearchExact
<1>1. AnnSpec => []AnnInv
  BY AnnInitInv, AnnNextInv, PTL DEF AnnSpec
<1>2. QED
  BY <1>1, AnnInvSearches, PTL

=============================================================================
