---------------------------- MODULE IngestMachine ---------------------------
(***************************************************************************)
(* The ingestion machine of rro-engine: a bounded intake, one worker that  *)
(* gathers documents into batches, and batch tasks that embed and upsert   *)
(* under a semaphore.                                                      *)
(*                                                                         *)
(*   crates/rro-engine/src/ingest.rs   submit, finish, run_machine,        *)
(*                                     harvest, index_batch                *)
(*                                                                         *)
(* Abstractions.  Durations and rates are left out: the linger timer may   *)
(* fire at any moment.  A batch task ends by landing all its documents, by *)
(* failing (embedding or upsert), or by panicking; recall upserts are      *)
(* atomic, and append one feed row per document before they wake watchers. *)
(***************************************************************************)
EXTENDS Naturals, Sequences, FiniteSets

CONSTANTS MaxDocs,      \* bound: documents submitted; the nth one is n
          QueueDepth,   \* IngestConfig.queue_depth
          BatchSize,    \* IngestConfig.batch_size
          Concurrency   \* IngestConfig.concurrency

ASSUME MaxDocsNat == MaxDocs \in Nat
ASSUME SizesPositive == {QueueDepth, BatchSize, Concurrency} \subseteq Nat \ {0}

VARIABLES
    feed,       \* the changefeed of the recall store
    intake,     \* the bounded channel
    closed,     \* has the producer dropped its sender
    sent,       \* how many documents were submitted so far
    mpc,        \* the worker: "top", "harvest", "fill", "dispatch", "done"
    open,       \* intake_open
    batch,      \* the batch being gathered
    tasks,      \* every batch dispatched: its documents, where it is, is it joined
    phase,      \* the published IngestPhase
    stats       \* received, indexed, errors

ingestVars == <<intake, closed, sent, mpc, open, batch, tasks, phase, stats>>

\* A task holds its permit until it ends, and stays in the JoinSet until joined.
Holding == {t \in DOMAIN tasks : tasks[t].st \in {"running", "landed"}}
Ended == {t \in DOMAIN tasks : tasks[t].st \in {"ok", "failed", "panicked"} /\ ~tasks[t].joined}
DocsIn(ts) == Cardinality(UNION {{t} \X DOMAIN tasks[t].docs : t \in ts})

IngestInit ==
    /\ feed = <<>>
    /\ intake = <<>> /\ closed = FALSE /\ sent = 0
    /\ mpc = "top" /\ open = TRUE /\ batch = <<>> /\ tasks = <<>>
    /\ phase = "idle"
    /\ stats = [received |-> 0, indexed |-> 0, errors |-> 0]

-----------------------------------------------------------------------------
(* The producer.                                                           *)

Room == Len(intake) < QueueDepth

\* submit: waits for room in the intake.
Submit ==
    /\ ~closed
    /\ Room
    /\ sent < MaxDocs
    /\ sent' = sent + 1
    /\ intake' = Append(intake, sent')
    /\ UNCHANGED <<feed, closed, mpc, open, batch, tasks, phase, stats>>

\* finish (or dropping the handle): close the intake.
Finish ==
    /\ ~closed
    /\ closed' = TRUE
    /\ UNCHANGED <<feed, intake, sent, mpc, open, batch, tasks, phase, stats>>

-----------------------------------------------------------------------------
(* The worker.                                                             *)

\* Mutant: the counters forget a batch that failed.
HarvestedDropsErrors(t) ==
    IF tasks[t].st = "ok" THEN [stats EXCEPT !.indexed = @ + Len(tasks[t].docs)] ELSE stats

\* harvest: the counters after one ended batch; a panicked one counts nowhere.
Harvested(t) ==
    CASE tasks[t].st = "ok" -> [stats EXCEPT !.indexed = @ + Len(tasks[t].docs)]
      [] tasks[t].st = "failed" -> [stats EXCEPT !.errors = @ + Len(tasks[t].docs)]
      [] OTHER -> stats

\* One ended task leaves the JoinSet.
JoinTask(t) ==
    /\ stats' = Harvested(t)
    /\ tasks' = [tasks EXCEPT ![t].joined = TRUE]

\* Mutant: batches that are joined still count as in flight.
MoreToDoForever == open \/ batch # <<>> \/ tasks # <<>>

\* The condition of the worker's loop.
MoreToDo == open \/ batch # <<>> \/ Holding \cup Ended # {}

\* The loop is entered, or everything is drained.
Loop ==
    /\ mpc = "top"
    /\ mpc' = IF MoreToDo THEN "harvest" ELSE "done"
    /\ phase' = IF MoreToDo THEN phase ELSE "indexed"
    /\ UNCHANGED <<feed, intake, closed, sent, open, batch, tasks, stats>>

\* try_join_next, as long as a batch has ended.
HarvestReady ==
    /\ mpc = "harvest"
    /\ \E t \in Ended : JoinTask(t)
    /\ UNCHANGED <<feed, intake, closed, sent, mpc, open, batch, phase>>

\* None has: go on to fill the batch, or straight to dispatch.
HarvestDone ==
    /\ mpc = "harvest"
    /\ Ended = {}
    /\ mpc' = IF open THEN "fill" ELSE "dispatch"
    /\ UNCHANGED <<feed, intake, closed, sent, open, batch, tasks, phase, stats>>

\* Take a queued document.
Receive ==
    /\ mpc = "fill"
    /\ Len(batch) < BatchSize
    /\ intake # <<>>
    /\ batch' = Append(batch, Head(intake))
    /\ intake' = Tail(intake)
    /\ stats' = [stats EXCEPT !.received = @ + 1]
    /\ phase' = IF phase = "idle" THEN "ingesting" ELSE phase
    /\ UNCHANGED <<feed, closed, sent, mpc, open, tasks>>

\* The intake is closed and empty: start to drain.
Drained ==
    /\ mpc = "fill"
    /\ Len(batch) < BatchSize
    /\ intake = <<>> /\ closed
    /\ open' = FALSE
    /\ phase' = "draining"
    /\ mpc' = "dispatch"
    /\ UNCHANGED <<feed, intake, closed, sent, batch, tasks, stats>>

\* The batch is full, or the linger timer fires.
Linger ==
    /\ mpc = "fill"
    /\ mpc' = "dispatch"
    /\ UNCHANGED <<feed, intake, closed, sent, open, batch, tasks, phase, stats>>

\* Mutant: no permit is needed.
PermitAlways == TRUE

Permit == Cardinality(Holding) < Concurrency

\* Spawn the batch once there is a permit.
Dispatch ==
    /\ mpc = "dispatch"
    /\ batch # <<>>
    /\ Permit
    /\ tasks' = Append(tasks, [docs |-> batch, st |-> "running", joined |-> FALSE])
    /\ batch' = <<>>
    /\ mpc' = "top"
    /\ UNCHANGED <<feed, intake, closed, sent, open, phase, stats>>

\* Nothing to dispatch: wait for a straggler if the intake is closed.
Straggler ==
    /\ mpc = "dispatch"
    /\ batch = <<>>
    /\ \/ (open \/ Holding \cup Ended = {}) /\ UNCHANGED <<tasks, stats>>
       \/ ~open /\ \E t \in Ended : JoinTask(t)
    /\ mpc' = "top"
    /\ UNCHANGED <<feed, intake, closed, sent, open, batch, phase>>

Worker == Loop \/ HarvestReady \/ HarvestDone \/ Receive \/ Drained \/ Linger \/ Dispatch \/ Straggler

-----------------------------------------------------------------------------
(* A batch task.                                                           *)

\* index_batch: embed, then upsert; the rows are in the feed at once.
Land(t) ==
    /\ tasks[t].st = "running"
    /\ feed' = feed \o [i \in DOMAIN tasks[t].docs |-> [op |-> "upsert", id |-> tasks[t].docs[i]]]
    /\ tasks' = [tasks EXCEPT ![t].st = "landed"]
    /\ UNCHANGED <<intake, closed, sent, mpc, open, batch, phase, stats>>

\* The upsert returns, after it has woken the watchers.
Return(t) ==
    /\ tasks[t].st = "landed"
    /\ tasks' = [tasks EXCEPT ![t].st = "ok"]
    /\ UNCHANGED <<feed, intake, closed, sent, mpc, open, batch, phase, stats>>

\* Embedding or upserting fails, or the task panics: nothing has landed.
Fail(t) ==
    /\ tasks[t].st = "running"
    /\ \E st \in {"failed", "panicked"} : tasks' = [tasks EXCEPT ![t].st = st]
    /\ UNCHANGED <<feed, intake, closed, sent, mpc, open, batch, phase, stats>>

-----------------------------------------------------------------------------
\* A document, a row of the changefeed, and a batch task.
Docs == 1..MaxDocs
Rows == [op : {"upsert", "remove"}, id : Docs]
TaskStates ==
    [docs : Seq(Docs), joined : BOOLEAN,
     st : {"running", "landed", "ok", "failed", "panicked"}]

IngestTypeOK ==
    /\ feed \in Seq(Rows) /\ tasks \in Seq(TaskStates)
    /\ intake \in Seq(Docs) /\ batch \in Seq(Docs)
    /\ Len(intake) <= QueueDepth /\ Len(batch) <= BatchSize
    /\ closed \in BOOLEAN /\ open \in BOOLEAN /\ sent \in 0..MaxDocs
    /\ mpc \in {"top", "harvest", "fill", "dispatch", "done"}
    /\ phase \in {"idle", "ingesting", "draining", "indexed"}
    /\ stats \in [received : Nat, indexed : Nat, errors : Nat]

Upserts == Cardinality({i \in DOMAIN feed : feed[i].op = "upsert"})
Panicked == {t \in DOMAIN tasks : tasks[t].st = "panicked" /\ tasks[t].joined}

\* Every document accepted is accounted for, whichever place observes the end of
\* its batch: it is gathered, in flight, indexed, an error, or was in a batch that
\* panicked.  Once the machine says it is done nothing is left behind, and the
\* indexed count is what the store holds (run_machine, harvest).
Accounted ==
    /\ sent = Len(intake) + stats.received
    /\ stats.received = Len(batch) + DocsIn(Holding \cup Ended) + stats.indexed + stats.errors
                            + DocsIn(Panicked)
    /\ phase = "indexed" => /\ intake = <<>> /\ batch = <<>> /\ Holding \cup Ended = {}
                            /\ stats.indexed = Upserts

\* Backpressure is the contract: however fast documents are submitted, the machine
\* holds no more than the intake, one batch and the batches in flight.
MemoryFlat ==
    /\ Len(intake) + Len(batch) <= QueueDepth + BatchSize
    /\ DocsIn(Holding) <= BatchSize * Concurrency

\* Shutdown is graceful: once the intake is closed the machine drains and says so.
Drains == closed ~> phase = "indexed"
=============================================================================
