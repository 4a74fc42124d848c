----------------------------- MODULE GraphCache -----------------------------
(***************************************************************************)
(* The persisted ANN graph of connxism.  The graph is an append-only list  *)
(* of nodes (an overwrite tombstones the old node and appends a new one).  *)
(* persist_graph writes it as two artefacts: a node-ordered file of        *)
(* vectors (the sidecar), then a structure blob tagged with the changefeed *)
(* sequence it belongs to.  An open loads the pair when the tag equals the *)
(* live sequence and the file has the right length, and rebuilds the graph *)
(* from the durable vectors otherwise.  compact_graph swaps in a rebuilt,  *)
(* tombstone-free graph while the estate runs.                             *)
(*                                                                         *)
(*   crates/connxism/src/estate.rs  open_with, load_persisted_graph,       *)
(*                                  rebuild_ann_from_vecs, compact_graph,  *)
(*                                  persist_graph, snapshot_to, drop       *)
(*   crates/recall/src/ann.rs       insert, remove, from_paged,            *)
(*                                  needs_vector_flush                     *)
(*                                                                         *)
(* Abstractions.  The links between nodes are left out (searches are not   *)
(* modelled here); the pending pipeline, detailed in GraphApply, is a list *)
(* of unapplied operations with one entry per id; one persist and one      *)
(* compaction run at a time.  A crash loses the memory of the process and  *)
(* keeps everything it wrote; a clean shutdown is a persist followed by    *)
(* the same loss.                                                          *)
(***************************************************************************)
EXTENDS Naturals, Sequences, FiniteSets, KeyOrder

CONSTANTS
    Ids,               \* document ids; their numeric order is the key order
    Vals,              \* embeddings
    Absent,            \* no vector
    None,              \* no blob, no sidecar, no operation
    CompactAttempts,   \* rebuilds one compact_graph tries (4 in the code)
    WriteAtTag,        \* may a commit be unannounced when persist_graph reads its tag
    WriteAtSwap,       \* may a commit land between compact_graph's check and swap
    SkewedCrash,       \* may the process die inside persist_graph after a compaction
    MaxCommits,        \* bound: committed operations
    MaxPersists,       \* bound: calls of persist_graph
    MaxCompactions,    \* bound: calls of compact_graph
    MaxRestarts        \* bound: crashes

Slot == Vals \cup {Absent}
Ops == [id : Ids, val : Slot]
Node == [id : Ids, val : Vals, live : BOOLEAN]
BareNode == [id : Ids, live : BOOLEAN]

ASSUME BoundsNat == {CompactAttempts, MaxCommits, MaxPersists, MaxCompactions, MaxRestarts} \subseteq Nat
ASSUME TriesOnce == CompactAttempts # 0
ASSUME IdsOrdered == Ids \subseteq Nat /\ IsFiniteSet(Ids)
ASSUME FlagsBoolean == {WriteAtTag, WriteAtSwap, SkewedCrash} \subseteq BOOLEAN
ASSUME NothingDistinct ==
    /\ {Absent, None} \cap Vals = {} /\ Absent # None
    /\ None \notin Seq(Vals) \cup Ops \cup [seq : Nat, nodes : Seq(BareNode)]

VARIABLES
    vecs,       \* durable: CF_VECS
    feedSeq,    \* durable: META_FEED_SEQ
    blob,       \* durable: CF_GRAPH, [seq, nodes] or None
    sidecar,    \* durable: the graph.vectors file, a list of vectors or None
    unpushed,   \* the committed operation its writer has not announced yet, or None
    pending,    \* announced operations the applier has not applied
    nodes,      \* the graph in memory
    base,       \* how many of its nodes are paged from the sidecar it was opened with
    ppc,        \* persist_graph: "idle", "locked", "captured", "flushed"
    pcap,       \* what it captured: [seq, nodes]
    cpc,        \* compact_graph: "idle", "start", "building", "built", "swap"
    cseq,       \* the sequence it rebuilt at
    fresh,      \* the graph it rebuilt
    tries,      \* rebuilds it has tried
    used        \* how much of each bound is spent

durable == <<vecs, feedSeq, blob, sidecar>>
persistVars == <<ppc, pcap>>
compactVars == <<cpc, cseq, fresh, tries>>
vars == <<durable, unpushed, pending, nodes, base, persistVars, compactVars, used>>

Nothing == [seq |-> 0, nodes |-> <<>>]
Spend(what) == used' = [used EXCEPT ![what] = @ + 1]

-----------------------------------------------------------------------------
(* The graph.                                                              *)

\* Tombstone the node by_id knows for id, the newest one.
Tombstoned(g, id) ==
    [i \in DOMAIN g |-> IF g[i].id = id /\ \A j \in DOMAIN g : g[j].id = id => j <= i
                        THEN [g[i] EXCEPT !.live = FALSE] ELSE g[i]]

\* AnnIndex::insert and AnnIndex::remove.
ApplyOp(g, op) ==
    IF op.val = Absent THEN Tombstoned(g, op.id)
    ELSE Append(Tombstoned(g, op.id), [id |-> op.id, val |-> op.val, live |-> TRUE])

\* The vector a graph holds for an id.
VectorIn(g, id) ==
    IF \E i \in DOMAIN g : g[i].id = id /\ g[i].live
    THEN g[CHOOSE i \in DOMAIN g : g[i].id = id /\ g[i].live].val
    ELSE Absent

\* rebuild_ann_from_vecs: every durable vector, in key order.
Rebuilt ==
    LET keys == {id \in Ids : vecs[id] # Absent}
    IN  [i \in 1..Cardinality(keys) |->
            [id |-> InKeyOrder(keys, i), val |-> vecs[InKeyOrder(keys, i)], live |-> TRUE]]

\* The two artefacts: to_structure_bytes and write_vectors_to.
Structure(g) == [i \in DOMAIN g |-> [id |-> g[i].id, live |-> g[i].live]]
VectorsOf(g) == [i \in DOMAIN g |-> g[i].val]

\* Mutant: nodes appended to a paged graph do not ask for a flush.
NeedsFlushOnce == base = 0

\* needs_vector_flush: the graph is not exactly the sidecar it was opened with.
NeedsFlush == base = 0 \/ Len(nodes) > base

\* Mutant: the tag is not compared.
LoadableUntagged ==
    /\ blob # None /\ sidecar # None
    /\ blob.nodes = <<>> \/ Len(sidecar) = Len(blob.nodes)

\* load_persisted_graph and from_paged accept the pair on disk: a blob tagged
\* with the live sequence and a file of one vector per node.
Loadable ==
    /\ blob # None /\ sidecar # None
    /\ blob.seq = feedSeq
    /\ blob.nodes = <<>> \/ Len(sidecar) = Len(blob.nodes)

Loaded ==
    [i \in DOMAIN blob.nodes |->
        [id |-> blob.nodes[i].id, val |-> sidecar[i], live |-> blob.nodes[i].live]]

-----------------------------------------------------------------------------
Init ==
    /\ vecs = [id \in Ids |-> Absent]
    /\ feedSeq = 0
    /\ blob = None /\ sidecar = None
    /\ unpushed = None /\ pending = <<>>
    /\ nodes = <<>> /\ base = 0
    /\ ppc = "idle" /\ pcap = Nothing
    /\ cpc = "idle" /\ cseq = 0 /\ fresh = <<>> /\ tries = 0
    /\ used = [commits |-> 0, persists |-> 0, compactions |-> 0, restarts |-> 0]

-----------------------------------------------------------------------------
(* Writes and the applier.                                                 *)

\* Transaction::commit, first half.  Removing an absent document stages nothing.
Commit ==
    /\ used.commits < MaxCommits
    /\ unpushed = None
    /\ ppc # "locked" \/ WriteAtTag
    /\ cpc # "swap" \/ WriteAtSwap
    /\ \E op \in Ops :
          /\ op.val # Absent \/ vecs[op.id] # Absent
          /\ vecs' = [vecs EXCEPT ![op.id] = op.val]
          /\ unpushed' = op
    /\ feedSeq' = feedSeq + 1
    /\ Spend("commits")
    /\ UNCHANGED <<blob, sidecar, pending, nodes, base, persistVars, compactVars>>

\* mutate_payload: the sequence moves, no vector does, and nothing is announced.
MutatePayload ==
    /\ used.commits < MaxCommits
    /\ unpushed = None
    /\ \E id \in Ids : vecs[id] # Absent
    /\ feedSeq' = feedSeq + 1
    /\ Spend("commits")
    /\ UNCHANGED <<vecs, blob, sidecar, unpushed, pending, nodes, base, persistVars, compactVars>>

\* Transaction::commit, second half: a pending operation of the same id is
\* superseded where it stands in the queue.
Push ==
    /\ unpushed # None
    /\ pending' = IF \E i \in DOMAIN pending : pending[i].id = unpushed.id
                  THEN [i \in DOMAIN pending |->
                           IF pending[i].id = unpushed.id THEN unpushed ELSE pending[i]]
                  ELSE Append(pending, unpushed)
    /\ unpushed' = None
    /\ UNCHANGED <<durable, nodes, base, persistVars, compactVars, used>>

\* The applier folds the next operation in, under the graph write lock.
Apply ==
    /\ pending # <<>>
    /\ ppc \notin {"locked", "captured"}
    /\ nodes' = ApplyOp(nodes, Head(pending))
    /\ pending' = Tail(pending)
    /\ UNCHANGED <<durable, unpushed, base, persistVars, compactVars, used>>

-----------------------------------------------------------------------------
(* persist_graph.                                                          *)

\* quiesce, seal, take the read lock, find the backlog empty.
PersistLock ==
    /\ used.persists < MaxPersists
    /\ ppc = "idle"
    /\ unpushed = None \/ WriteAtTag
    /\ pending = <<>>
    /\ ppc' = "locked"
    /\ Spend("persists")
    /\ UNCHANGED <<durable, unpushed, pending, nodes, base, pcap, compactVars>>

\* Read the tag and serialise the structure.
PersistCapture ==
    /\ ppc = "locked"
    /\ ppc' = "captured"
    /\ pcap' = [seq |-> feedSeq, nodes |-> Structure(nodes)]
    /\ UNCHANGED <<durable, unpushed, pending, nodes, base, compactVars, used>>

\* Replace the sidecar when it has to be, then drop the read lock.
PersistVectors ==
    /\ ppc = "captured"
    /\ sidecar' = IF NeedsFlush THEN VectorsOf(nodes) ELSE sidecar
    /\ ppc' = "flushed"
    /\ UNCHANGED <<vecs, feedSeq, blob, unpushed, pending, nodes, base, pcap, compactVars, used>>

\* Commit the structure blob, unless a write has moved the sequence.
PersistBlob ==
    /\ ppc = "flushed"
    /\ blob' = IF feedSeq = pcap.seq THEN pcap ELSE blob
    /\ ppc' = "idle"
    /\ pcap' = Nothing
    /\ UNCHANGED <<vecs, feedSeq, sidecar, unpushed, pending, nodes, base, compactVars, used>>

-----------------------------------------------------------------------------
(* compact_graph.                                                          *)

CompactBegin ==
    /\ used.compactions < MaxCompactions
    /\ cpc = "idle"
    /\ cpc' = "start"
    /\ tries' = 0
    /\ Spend("compactions")
    /\ UNCHANGED <<durable, unpushed, pending, nodes, base, persistVars, cseq, fresh>>

\* quiesce, then read the sequence.
CompactRead ==
    /\ cpc = "start"
    /\ pending = <<>>
    /\ cseq' = feedSeq
    /\ cpc' = "building"
    /\ UNCHANGED <<durable, unpushed, pending, nodes, base, persistVars, fresh, tries, used>>

\* Rebuild without any lock.
CompactBuild ==
    /\ cpc = "building"
    /\ fresh' = Rebuilt
    /\ cpc' = "built"
    /\ UNCHANGED <<durable, unpushed, pending, nodes, base, persistVars, cseq, tries, used>>

\* Go on to the swap if nothing is pending and the sequence has not moved;
\* otherwise try again, and give up after the last attempt.
CompactCheck ==
    /\ cpc = "built"
    /\ IF pending = <<>> /\ feedSeq = cseq
       THEN cpc' = "swap" /\ UNCHANGED tries
       ELSE /\ tries' = tries + 1
            /\ cpc' = IF tries' < CompactAttempts THEN "start" ELSE "idle"
    /\ UNCHANGED <<durable, unpushed, pending, nodes, base, persistVars, cseq, fresh, used>>

\* The swap, under the graph write lock.
CompactSwap ==
    /\ cpc = "swap"
    /\ ppc \notin {"locked", "captured"}
    /\ nodes' = fresh
    /\ base' = 0
    /\ cpc' = "idle"
    /\ UNCHANGED <<durable, unpushed, pending, persistVars, cseq, fresh, tries, used>>

-----------------------------------------------------------------------------
\* The process dies and the estate is opened again (open_with).
Restart ==
    /\ used.restarts < MaxRestarts
    /\ ppc = "idle" \/ used.compactions = 0 \/ SkewedCrash
    /\ nodes' = IF Loadable THEN Loaded ELSE Rebuilt
    /\ base' = IF Loadable THEN Len(blob.nodes) ELSE 0
    /\ unpushed' = None /\ pending' = <<>>
    /\ ppc' = "idle" /\ pcap' = Nothing
    /\ cpc' = "idle" /\ cseq' = 0 /\ fresh' = <<>> /\ tries' = 0
    /\ Spend("restarts")
    /\ UNCHANGED durable

Next ==
    \/ Commit \/ MutatePayload \/ Push \/ Apply
    \/ PersistLock \/ PersistCapture \/ PersistVectors \/ PersistBlob
    \/ CompactBegin \/ CompactRead \/ CompactBuild \/ CompactCheck \/ CompactSwap
    \/ Restart

Spec == Init /\ [][Next]_vars

-----------------------------------------------------------------------------
TypeOK ==
    /\ vecs \in [Ids -> Slot]
    /\ feedSeq \in Nat /\ base \in 0..Len(nodes) /\ cseq \in 0..feedSeq
    /\ blob \in [seq : 0..feedSeq, nodes : Seq(BareNode)] \cup {None}
    /\ pcap \in [seq : 0..feedSeq, nodes : Seq(BareNode)]
    /\ sidecar \in Seq(Vals) \cup {None}
    /\ unpushed \in Ops \cup {None}
    /\ pending \in Seq(Ops)
    /\ nodes \in Seq(Node) /\ fresh \in Seq(Node)
    /\ ppc \in {"idle", "locked", "captured", "flushed"}
    /\ cpc \in {"idle", "start", "building", "built", "swap"}
    /\ tries \in 0..CompactAttempts
    /\ used \in [commits : Nat, persists : Nat, compactions : Nat, restarts : Nat]

\* What the graph and the unapplied operations hold for an id.
Serves(id) ==
    IF \E i \in DOMAIN pending : pending[i].id = id
    THEN pending[CHOOSE i \in DOMAIN pending : pending[i].id = id].val
    ELSE VectorIn(nodes, id)

\* The cache is never trusted over the source of truth (open_with,
\* load_persisted_graph): whatever was persisted, swapped or interrupted before,
\* the graph with its pending operations serves the durable vector of every id
\* whose write has been announced.
CacheNeverWrong ==
    \A id \in Ids : (unpushed # None /\ unpushed.id = id) \/ Serves(id) = vecs[id]

\* A completed persist pays off (graph_was_loaded): as long as the sequence has
\* not moved past the blob, the next open loads the graph instead of rebuilding.
RestartLoads == (blob # None /\ blob.seq = feedSeq /\ ppc = "idle") => Loadable
=============================================================================
