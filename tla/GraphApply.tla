----------------------------- MODULE GraphApply -----------------------------
(***************************************************************************)
(* The two-phase vector write path of connxism: a transaction commits its  *)
(* vectors to the durable `vecs` column family, then announces them to the *)
(* pending set; one applier thread drains the pending set into the ANN     *)
(* graph; a search ranks the graph and lays the pending set over it.       *)
(*                                                                         *)
(*   crates/connxism/src/pending.rs   queue, latest, inflight, the applier *)
(*   crates/connxism/src/txn.rs       begin / commit of a transaction      *)
(*   crates/connxism/src/store.rs     the writers and dense_blocking       *)
(*   crates/connxism/src/estate.rs    drop_collection, quiesce             *)
(*                                                                         *)
(* Abstractions.  An embedding is a member of Vals; the graph is the map   *)
(* from id to the embedding of its live node (ranking and recall quality   *)
(* are not modelled); a document and its vector are one row, since every   *)
(* batch writes or deletes both.  A staged operation list holds what       *)
(* upsert_into and remove_into hand to push_graph: removing an absent      *)
(* document stages nothing.                                                *)
(***************************************************************************)
EXTENDS VectorOps, FiniteSets

CONSTANTS
    NoOp,         \* no pending operation for an id (no map entry)
    Writers,      \* tasks that run transactions
    Droppers,     \* the writers that also call drop_collection
    HandleOf,     \* writer -> the ConnXRecall handle, i.e. writer mutex, it uses
    Readers,      \* tasks that search
    PendingCap,   \* pending.rs PENDING_CAP
    ApplyBatch,   \* pending.rs APPLY_BATCH
    MinCorpus,    \* store.rs ANN_MIN_CORPUS
    MaxTx         \* bound: transactions in a behaviour

ASSUME IdsFinite == IsFiniteSet(Ids)
ASSUME SlotsDistinct == Absent \notin Vals /\ NoOp \notin Vals \cup {Absent} \cup Ids
ASSUME DroppersWrite == Droppers \subseteq Writers
ASSUME SizesPositive ==
    /\ PendingCap \in Nat \ {0} /\ ApplyBatch \in Nat \ {0}
    /\ MinCorpus \in Nat /\ MaxOps \in Nat \ {0} /\ MaxTx \in Nat

VARIABLES
    vecs,       \* the durable vectors (CF_VECS)
    feedSeq,    \* META_FEED_SEQ, one row per committed operation
    queue,      \* State.queue: ids in apply order, may repeat
    latest,     \* State.latest: newest unapplied operation per id
    inflight,   \* State.inflight: the batch being applied
    stopped,    \* State.stopped
    applier,    \* where the applier thread is: "collect", "apply", "finish", "gone"
    graph,      \* the ANN graph's live vectors
    wpc,        \* per writer: "idle", "staged" (batch built), "push" (batch landed)
    wops,       \* per writer: staged, later still unpushed, graph operations
    wseq,       \* per writer: feed_seq read by Transaction::begin
    wdrop,      \* per writer: the member drop_collection is removing, or NoOp
    rpc,        \* per reader: "idle" or "locked" (holds the graph read lock)
    rhits,      \* per reader: what the graph held when it was searched
    txs         \* transactions begun so far

pendingVars == <<queue, latest, inflight, stopped>>
writerVars == <<wpc, wops, wseq, wdrop, txs>>
readerVars == <<rpc, rhits>>
vars == <<vecs, feedSeq, queue, latest, inflight, stopped, applier, graph,
          wpc, wops, wseq, wdrop, rpc, rhits, txs>>

Pends == Slot \cup {NoOp}

-----------------------------------------------------------------------------
(* What a reader sees.                                                     *)

\* Mutant: the overlay forgets the batch being applied.
OverlayNoInflight(hits) == [id \in Ids |-> IF latest[id] # NoOp THEN latest[id] ELSE hits[id]]

\* Pending::overlay laid over graph hits: the newest operation of an id wins,
\* then the in-flight one, then the hit.
Overlay(hits) ==
    [id \in Ids |-> IF latest[id] # NoOp THEN latest[id]
                    ELSE IF inflight[id] # NoOp THEN inflight[id]
                    ELSE hits[id]]

\* Live vectors of the graph (AnnIndex::len counts them).
Live(g) == {id \in Ids : g[id] # Absent}

\* What dense_blocking ranks when it reaches the overlay: graph hits under the
\* overlay, or the durable vectors themselves while the graph is tiny.
Ranked(hits) ==
    IF Cardinality(Live(hits)) >= MinCorpus THEN Overlay(hits) ELSE vecs

-----------------------------------------------------------------------------
Init ==
    /\ vecs = [id \in Ids |-> Absent]
    /\ feedSeq = 0
    /\ queue = <<>>
    /\ latest = [id \in Ids |-> NoOp]
    /\ inflight = [id \in Ids |-> NoOp]
    /\ stopped = FALSE
    /\ applier = "collect"
    /\ graph = [id \in Ids |-> Absent]
    /\ wpc = [w \in Writers |-> "idle"]
    /\ wops = [w \in Writers |-> <<>>]
    /\ wseq = [w \in Writers |-> 0]
    /\ wdrop = [w \in Writers |-> NoOp]
    /\ rpc = [r \in Readers |-> "idle"]
    /\ rhits = [r \in Readers |-> [id \in Ids |-> Absent]]
    /\ txs = 0

-----------------------------------------------------------------------------
(* Writers.                                                                *)

\* The operation lists a transaction can stage: a removal of a document the
\* store does not hold returns early and stages nothing.
Stageable == {ops \in OpLists :
                 \A i \in DOMAIN ops : ops[i].val = Absent => vecs[ops[i].id] # Absent}

\* The writer mutex of w's handle is free.  drop_collection never takes it.
HandleFree(w) ==
    \A v \in Writers : HandleOf[v] = HandleOf[w] => wpc[v] = "idle" \/ wdrop[v] # NoOp

\* transaction / upsert / remove: lock the handle, Transaction::begin, run the
\* statements into the batch.
Begin(w) ==
    /\ txs < MaxTx
    /\ wpc[w] = "idle"
    /\ HandleFree(w)
    /\ \E ops \in Stageable : wops' = [wops EXCEPT ![w] = ops]
    /\ wpc' = [wpc EXCEPT ![w] = "staged"]
    /\ wseq' = [wseq EXCEPT ![w] = feedSeq]
    /\ txs' = txs + 1
    /\ UNCHANGED <<vecs, feedSeq, pendingVars, applier, graph, wdrop, readerVars>>

\* A statement fails its checks: the transaction is dropped unwritten.
Rollback(w) ==
    /\ wpc[w] = "staged"
    /\ wdrop[w] = NoOp
    /\ wpc' = [wpc EXCEPT ![w] = "idle"]
    /\ wops' = [wops EXCEPT ![w] = <<>>]
    /\ UNCHANGED <<vecs, feedSeq, pendingVars, applier, graph, wseq, wdrop, readerVars, txs>>

\* One member of drop_collection: remove_blocking begins a transaction without
\* the writer mutex.  The member list was read earlier, so the document may be
\* gone by now, and then nothing is staged.
DropMember(w) ==
    /\ txs < MaxTx
    /\ w \in Droppers
    /\ ~stopped
    /\ wpc[w] = "idle"
    /\ \E id \in Ids :
          /\ wdrop' = [wdrop EXCEPT ![w] = id]
          /\ wops' = [wops EXCEPT ![w] = IF vecs[id] # Absent THEN <<Removal(id)>> ELSE <<>>]
    /\ wpc' = [wpc EXCEPT ![w] = "staged"]
    /\ wseq' = [wseq EXCEPT ![w] = feedSeq]
    /\ txs' = txs + 1
    /\ UNCHANGED <<vecs, feedSeq, pendingVars, applier, graph, readerVars>>

\* Mutant: the counter is put even if nothing was staged, one too low.
SeqAfterMiscounts(w) == wseq[w] + Len(wops[w]) - 1

\* The sequence a commit puts; a transaction that staged nothing leaves it alone.
SeqAfter(w) == IF wops[w] = <<>> THEN feedSeq ELSE wseq[w] + Len(wops[w])

\* Transaction::commit, first half: counters and rows in one atomic batch.
\* drop_collection pushes the member's removal once more after remove_blocking
\* returns.
Commit(w) ==
    /\ wpc[w] = "staged"
    /\ vecs' = After(vecs, wops[w])
    /\ feedSeq' = SeqAfter(w)
    /\ wpc' = [wpc EXCEPT ![w] = "push"]
    /\ wops' = IF wdrop[w] = NoOp THEN wops
               ELSE [wops EXCEPT ![w] = @ \o <<Removal(wdrop[w])>>]
    /\ UNCHANGED <<pendingVars, applier, graph, wseq, wdrop, readerVars, txs>>

\* Mutant: a full queue blocks its writers even after the applier is gone.
HasRoomIgnoresStop == Len(queue) < PendingCap

\* The condition push_upsert waits for.
HasRoom == Len(queue) < PendingCap \/ stopped

\* Mutant: an id that is being applied is not queued again.
QueuedOnce(id) == IF inflight[id] # NoOp THEN queue ELSE Append(queue, id)

\* Every pushed operation queues its id, also one that is queued already.
Queued(id) == Append(queue, id)

\* Transaction::commit, second half: push_upsert blocks at the cap unless the
\* estate has stopped; push_remove never blocks.
Push(w) ==
    /\ wpc[w] = "push"
    /\ wops[w] # <<>>
    /\ LET op == Head(wops[w]) IN
          /\ op.val # Absent => HasRoom
          /\ queue' = Queued(op.id)
          /\ latest' = [latest EXCEPT ![op.id] = op.val]
    /\ wops' = [wops EXCEPT ![w] = Tail(@)]
    /\ UNCHANGED <<vecs, feedSeq, inflight, stopped, applier, graph, wpc, wseq, wdrop,
                   readerVars, txs>>

\* The call returns: the write is acknowledged and the mutex released.
Ack(w) ==
    /\ wpc[w] = "push"
    /\ wops[w] = <<>>
    /\ wpc' = [wpc EXCEPT ![w] = "idle"]
    /\ wdrop' = [wdrop EXCEPT ![w] = NoOp]
    /\ UNCHANGED <<vecs, feedSeq, pendingVars, applier, graph, wops, wseq, readerVars, txs>>

-----------------------------------------------------------------------------
(* The applier thread.                                                     *)

\* The ids popped with the first n queue entries that still have an operation.
Popped(n) == {id \in Ids : latest[id] # NoOp /\ \E i \in 1..n : queue[i] = id}

\* Mutant: operations leave latest before they are in flight.
CollectForgets ==
    /\ applier = "collect"
    /\ ~stopped
    /\ queue # <<>>
    /\ queue' = Tail(queue)
    /\ latest' = [latest EXCEPT ![Head(queue)] = NoOp]
    /\ applier' = "apply"
    /\ UNCHANGED <<vecs, feedSeq, inflight, stopped, graph, writerVars, readerVars>>

\* collect_batch: pop until ApplyBatch operations are found or the queue ends,
\* moving each operation from latest to inflight.
Collect ==
    /\ applier = "collect"
    /\ ~stopped
    /\ queue # <<>>
    /\ \E n \in 1..Len(queue) :
          /\ Cardinality(Popped(n - 1)) < ApplyBatch
          /\ n = Len(queue) \/ Cardinality(Popped(n)) = ApplyBatch
          /\ queue' = SubSeq(queue, n + 1, Len(queue))
          /\ inflight' = [id \in Ids |-> IF id \in Popped(n) THEN latest[id] ELSE inflight[id]]
          /\ latest' = [id \in Ids |-> IF id \in Popped(n) THEN NoOp ELSE latest[id]]
    /\ applier' = "apply"
    /\ UNCHANGED <<vecs, feedSeq, stopped, graph, writerVars, readerVars>>

\* Mutant: removals are not applied.
AppliedInserts == [id \in Ids |-> IF inflight[id] \in Vals THEN inflight[id] ELSE graph[id]]

\* The graph with the batch inserted and removed.
Applied == [id \in Ids |-> IF inflight[id] # NoOp THEN inflight[id] ELSE graph[id]]

\* The batch is written under the graph write lock, which waits for readers.
\* The thread's local batch holds exactly the in-flight operations.
Apply ==
    /\ applier = "apply"
    /\ \A r \in Readers : rpc[r] # "locked"
    /\ graph' = Applied
    /\ applier' = "finish"
    /\ UNCHANGED <<vecs, feedSeq, pendingVars, writerVars, readerVars>>

\* finish_batch: only now do the operations leave the overlay.
Finish ==
    /\ applier = "finish"
    /\ inflight' = [id \in Ids |-> NoOp]
    /\ applier' = "collect"
    /\ UNCHANGED <<vecs, feedSeq, queue, latest, stopped, graph, writerVars, readerVars>>

\* collect_batch returns None: the thread ends.
Exit ==
    /\ applier = "collect"
    /\ stopped
    /\ applier' = "gone"
    /\ UNCHANGED <<vecs, feedSeq, pendingVars, graph, writerVars, readerVars>>

\* Estate::drop stops the applier.  Nothing borrows the estate any more, but
\* recall handles may outlive it and go on writing and searching.
Stop ==
    /\ ~stopped
    /\ \A w \in Writers : wdrop[w] = NoOp
    /\ stopped' = TRUE
    /\ UNCHANGED <<vecs, feedSeq, queue, latest, inflight, applier, graph, writerVars, readerVars>>

-----------------------------------------------------------------------------
(* Searches (dense_blocking).                                              *)

\* Take the graph read lock and search the graph.
SearchGraph(r) ==
    /\ rpc[r] = "idle"
    /\ rpc' = [rpc EXCEPT ![r] = "locked"]
    /\ rhits' = [rhits EXCEPT ![r] = graph]
    /\ UNCHANGED <<vecs, feedSeq, pendingVars, applier, graph, writerVars>>

\* Read the overlay (the result is Ranked(rhits[r])) and release the lock.
SearchOverlay(r) ==
    /\ rpc[r] = "locked"
    /\ rpc' = [rpc EXCEPT ![r] = "idle"]
    /\ rhits' = [rhits EXCEPT ![r] = [id \in Ids |-> Absent]]
    /\ UNCHANGED <<vecs, feedSeq, pendingVars, applier, graph, writerVars>>

-----------------------------------------------------------------------------
Write(w) == Begin(w) \/ Rollback(w) \/ DropMember(w) \/ Commit(w) \/ Push(w) \/ Ack(w)
Applier == Collect \/ Apply \/ Finish \/ Exit
Search(r) == SearchGraph(r) \/ SearchOverlay(r)

Next ==
    \/ \E w \in Writers : Write(w)
    \/ Applier
    \/ Stop
    \/ \E r \in Readers : Search(r)

Spec == Init /\ [][Next]_vars

\* A begun write, the applier thread and a begun search keep running.  Apply
\* needs strong fairness: searches take and release the read lock for ever, and
\* the RwLock lets a waiting writer in.
Fairness ==
    /\ \A w \in Writers : WF_vars(Commit(w)) /\ WF_vars(Push(w)) /\ WF_vars(Ack(w))
    /\ WF_vars(Collect) /\ SF_vars(Apply) /\ WF_vars(Finish) /\ WF_vars(Exit)
    /\ \A r \in Readers : WF_vars(SearchOverlay(r))

FairSpec == Spec /\ Fairness

-----------------------------------------------------------------------------
TypeOK ==
    /\ vecs \in [Ids -> Slot]
    /\ feedSeq \in Nat
    /\ queue \in Seq(Ids)
    /\ latest \in [Ids -> Pends]
    /\ inflight \in [Ids -> Pends]
    /\ stopped \in BOOLEAN
    /\ applier \in {"collect", "apply", "finish", "gone"}
    /\ graph \in [Ids -> Slot]
    /\ wpc \in [Writers -> {"idle", "staged", "push"}]
    /\ wops \in [Writers -> Seq(Ops)]
    /\ wseq \in [Writers -> Nat]
    /\ wdrop \in [Writers -> Ids \cup {NoOp}]
    /\ rpc \in [Readers -> {"idle", "locked"}]
    /\ rhits \in [Readers -> [Ids -> Slot]]
    /\ txs \in Nat

-----------------------------------------------------------------------------
(* Properties.                                                             *)

\* Some writer has committed a change of id that it has not pushed yet, so its
\* call has not returned.
Unrevealed(id) == \E w \in Writers : wpc[w] = "push" /\ Touches(wops[w], id)

\* At most one writer is ever between begin and the return of its call: all of
\* them share one handle, and drop_collection runs only when it is alone.
Serialised ==
    /\ \A v, w \in Writers : HandleOf[v] = HandleOf[w]
    /\ \A d \in Droppers : Writers = {d}

\* Read your writes: whatever the applier is doing, a search that reads the
\* overlay now ranks, for every id with no write still in its call, exactly the
\* durable vector of that id (dense_blocking, pending.rs overlay).
ReadYourWrites ==
    \A r \in Readers : rpc[r] = "locked" =>
        \A id \in Ids : ~Unrevealed(id) => Ranked(rhits[r])[id] = vecs[id]

\* What quiesce promises persist_graph, snapshot_to and compact_graph: once the
\* queue is empty and the applier is between batches, the graph itself holds
\* exactly the durable vectors whose writes have returned.
QuiescedIsExact ==
    (queue = <<>> /\ applier = "collect") =>
        \A id \in Ids : ~Unrevealed(id) => graph[id] = vecs[id]

\* collect_batch skips queue entries whose operation is gone; it never strands
\* an operation that no queue entry would lead it to.
NoStrandedOp == \A id \in Ids : latest[id] # NoOp => \E i \in DOMAIN queue : queue[i] = id

\* Every announced operation is applied and leaves the overlay, unless the estate
\* is stopped first: the graph alone then serves what searches see.
EventuallyDrained ==
    <>[](stopped \/ (queue = <<>> /\ \A id \in Ids : latest[id] = NoOp /\ inflight[id] = NoOp))

\* A write that has landed returns: back-pressure in push_upsert, searches and
\* the applier never block one another for good.
WritesReturn == \A w \in Writers : wpc[w] = "push" ~> wpc[w] = "idle"

\* The pending pipeline is invisible: commits and pushes are the only steps that
\* change what a search sees, in any arrangement of handles.
Unpushed == [w \in Writers |-> IF wpc[w] = "push" THEN wops[w] ELSE <<>>]
View == INSTANCE VectorView
            WITH committed <- vecs, visible <- Overlay(graph), unrevealed <- Unpushed
ImplementsView == View!VSpec
=============================================================================
