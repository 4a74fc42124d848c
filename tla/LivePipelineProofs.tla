------------------------- MODULE LivePipelineProofs -------------------------
(***************************************************************************)
(* Proofs about LivePipeline, for every queue depth, batch size, number of *)
(* permits, page limit and set of subscriptions.                           *)
(*                                                                         *)
(*   TypeCorrect       the type invariant of the composition               *)
(*   StreamsInOrder    StreamInOrder                                       *)
(*   EveryDocCounted   Accounted                                           *)
(*   MemoryBounded     MemoryFlat                                          *)
(*                                                                         *)
(* The invariant has two halves that meet in the feed.  IngestInv follows  *)
(* a document from the intake to the counter that ends up with it, and     *)
(* counts the rows that landed before harvest has seen their task.         *)
(* StreamInv says that a subscription holds a page that is still what      *)
(* follows its cursor.                                                     *)
(***************************************************************************)
EXTENDS LivePipeline, FiniteSetTheorems, SequenceTheorems, TLAPS

\* The documents of some tasks, counted by task and position.
CountIn(f, ts) == Cardinality(UNION {{t} \X DOMAIN f[t].docs : t \in ts})

\* The type of the subscriptions, rows included.
StreamType ==
    /\ told \in Nat
    /\ spc \in [Watchers -> {"arm", "drain", "send", "empty", "sleep", "gone"}]
    /\ woken \in [Watchers -> BOOLEAN]
    /\ since \in [Watchers -> Nat]
    /\ page \in [Watchers -> Seq(Rows)]
    /\ got \in [Watchers -> Seq(Rows)]

\* A subscription has received the feed up to its cursor, and the page in hand is
\* what follows there, although rows were appended since it was read.
CursorInv(w) ==
    /\ since[w] + Len(page[w]) <= Len(feed)
    /\ Len(got[w]) = since[w]
    /\ \A i \in 1..since[w] : got[w][i] = feed[i]
    /\ \A i \in 1..Len(page[w]) : page[w][i] = feed[since[w] + i]
    /\ spc[w] = "send" => page[w] # <<>>
    /\ spc[w] # "send" => page[w] = <<>>

StreamInv == StreamType /\ told <= Len(feed) /\ \A w \in Watchers : CursorInv(w)

\* A batch is no larger than batch_size, and is joined only once it has ended.
TaskInv == \A t \in DOMAIN tasks :
    /\ Len(tasks[t].docs) <= BatchSize
    /\ t \in Holding => ~tasks[t].joined

\* What the worker's position says: it drains only behind a closed, empty intake, and
\* says that it is done only when nothing is in hand or in flight.
WorkerInv ==
    /\ mpc = "fill" => open
    /\ ~open => closed /\ intake = <<>>
    /\ mpc = "done" <=> phase = "indexed"
    /\ mpc = "done" => ~open /\ batch = <<>> /\ Holding \cup Ended = {}

\* The rows of the feed that harvest has not counted yet are those of the tasks that
\* have landed and are not joined.
Uncounted == {t \in DOMAIN tasks : tasks[t].st \in {"landed", "ok"} /\ ~tasks[t].joined}
LandedInv == Upserts = stats.indexed + DocsIn(Uncounted)

PermitInv == Cardinality(Holding) <= Concurrency

CountInv ==
    /\ sent = Len(intake) + stats.received
    /\ stats.received = Len(batch) + DocsIn(Holding \cup Ended) + stats.indexed + stats.errors
                            + DocsIn(Panicked)

IngestInv == IngestTypeOK /\ TaskInv /\ WorkerInv /\ LandedInv /\ PermitInv /\ CountInv

-----------------------------------------------------------------------------
(* Counting the documents of tasks.                                        *)

\* The sizes are positive numbers.
LEMMA Sizes ==
  /\ QueueDepth \in Nat /\ BatchSize \in Nat /\ Concurrency \in Nat
  /\ QueueDepth > 0 /\ BatchSize > 0 /\ Concurrency > 0
  BY SizesPositive

\* A list of tasks whose batches are no larger than batch_size.
Bounded(f) == f \in Seq(TaskStates) /\ \A t \in DOMAIN f : Len(f[t].docs) <= BatchSize

\* What such a list says of one task.
LEMMA TaskAt ==
  ASSUME NEW f, Bounded(f), NEW t \in DOMAIN f
  PROVE  /\ f[t] \in TaskStates /\ f[t].docs \in Seq(Docs)
         /\ DOMAIN f[t].docs = 1..Len(f[t].docs)
         /\ Len(f[t].docs) \in Nat /\ Len(f[t].docs) <= BatchSize
<1>1. f \in Seq(TaskStates) /\ t \in 1..Len(f)
  BY DEF Bounded
<1>2. f[t] \in TaskStates
  BY <1>1
<1>3. f[t].docs \in Seq(Docs)
  BY <1>2 DEF TaskStates
<1>4. QED
  BY <1>2, <1>3 DEF Bounded

\* The positions counted are finitely many, and at most batch_size for each task.
LEMMA CountFinite ==
  ASSUME NEW f, Bounded(f), NEW ts, ts \subseteq DOMAIN f
  PROVE  /\ IsFiniteSet(ts) /\ IsFiniteSet(UNION {{t} \X DOMAIN f[t].docs : t \in ts})
         /\ CountIn(f, ts) \in Nat /\ CountIn(f, ts) <= Cardinality(ts) * BatchSize
<1> DEFINE P == UNION {{t} \X DOMAIN f[t].docs : t \in ts}
<1>1. BatchSize \in Nat
  BY Sizes
<1>2. DOMAIN f = 1..Len(f) /\ Len(f) \in Nat
  BY DEF Bounded
<1>3. IsFiniteSet(DOMAIN f)
  BY <1>2, FS_Interval
<1>4. IsFiniteSet(ts)
  BY <1>3, FS_Subset
<1>5. IsFiniteSet(1..BatchSize) /\ Cardinality(1..BatchSize) = BatchSize
  BY <1>1, FS_Interval
<1>6. IsFiniteSet(ts \X (1..BatchSize))
      /\ Cardinality(ts \X (1..BatchSize)) = Cardinality(ts) * BatchSize
  BY <1>4, <1>5, FS_Product
<1>7. ASSUME NEW t \in ts PROVE DOMAIN f[t].docs \subseteq 1..BatchSize
  BY <1>1, TaskAt
<1>8. P \subseteq ts \X (1..BatchSize)
  BY <1>7
<1>9. IsFiniteSet(P) /\ Cardinality(P) <= Cardinality(ts \X (1..BatchSize))
  BY <1>6, <1>8, FS_Subset
<1>10. Cardinality(P) \in Nat
  BY <1>9, FS_CardinalityType
<1>11. QED
  BY <1>4, <1>6, <1>9, <1>10 DEF CountIn

\* One more task adds the length of its batch.
LEMMA CountAdd ==
  ASSUME NEW f, Bounded(f), NEW ts, ts \subseteq DOMAIN f, NEW t \in DOMAIN f, t \notin ts
  PROVE  CountIn(f, ts \cup {t}) = CountIn(f, ts) + Len(f[t].docs)
<1> DEFINE P == UNION {{u} \X DOMAIN f[u].docs : u \in ts}
           Q == {t} \X DOMAIN f[t].docs
<1>1. IsFiniteSet(P)
  BY CountFinite
<1>2. DOMAIN f[t].docs = 1..Len(f[t].docs) /\ Len(f[t].docs) \in Nat
  BY TaskAt
<1>3. IsFiniteSet(DOMAIN f[t].docs) /\ Cardinality(DOMAIN f[t].docs) = Len(f[t].docs)
  BY <1>2, FS_Interval
<1>4. IsFiniteSet(Q) /\ Cardinality(Q) = Len(f[t].docs)
  <2>1. IsFiniteSet({t}) /\ Cardinality({t}) = 1
    BY FS_Singleton
  <2>2. IsFiniteSet(Q) /\ Cardinality(Q) = Cardinality({t}) * Cardinality(DOMAIN f[t].docs)
    BY <1>3, <2>1, FS_Product
  <2>3. Len(f[t].docs) \in Nat
    BY <1>2
  <2>4. QED
    BY <1>3, <2>1, <2>2, <2>3
<1>5. P \cap Q = {}
  OBVIOUS
<1>6. UNION {{u} \X DOMAIN f[u].docs : u \in ts \cup {t}} = P \cup Q
  OBVIOUS
<1>7. Cardinality(P) \in Nat /\ Len(f[t].docs) \in Nat
  BY <1>1, <1>2, FS_CardinalityType
<1> HIDE DEF P, Q
<1>8. Cardinality(P \cup Q) = Cardinality(P) + Cardinality(Q)
  <2>1. Cardinality(P \cap Q) = 0
    BY <1>5, FS_EmptySet
  <2>2. Cardinality(P \cup Q) = Cardinality(P) + Cardinality(Q) - Cardinality(P \cap Q)
    BY <1>1, <1>4, FS_Union
  <2>3. QED
    BY <1>4, <1>7, <2>1, <2>2
<1>9. QED
  BY <1>4, <1>6, <1>8 DEF CountIn, P

\* A change of a task that leaves its batch alone changes no count.
LEMMA CountSame ==
  ASSUME NEW f, NEW g, NEW ts, \A t \in ts : f[t].docs = g[t].docs
  PROVE  CountIn(f, ts) = CountIn(g, ts)
<1>1. {{t} \X DOMAIN f[t].docs : t \in ts} = {{t} \X DOMAIN g[t].docs : t \in ts}
  OBVIOUS
<1>2. QED
  BY <1>1 DEF CountIn

\* No task, no document.
LEMMA CountNone == ASSUME NEW f PROVE CountIn(f, {}) = 0
<1>1. UNION {{t} \X DOMAIN f[t].docs : t \in {}} = {}
  OBVIOUS
<1>2. QED
  BY <1>1, FS_EmptySet DEF CountIn

-----------------------------------------------------------------------------
(* The machine.                                                            *)

\* What the invariant says of the list of tasks, in the terms of the counts.
LEMMA TasksBounded ==
  ASSUME IngestInv
  PROVE  /\ Bounded(tasks) /\ tasks \in Seq(TaskStates) /\ DOMAIN tasks = 1..Len(tasks)
         /\ Holding \subseteq DOMAIN tasks /\ Ended \subseteq DOMAIN tasks
         /\ Panicked \subseteq DOMAIN tasks /\ Uncounted \subseteq DOMAIN tasks
  BY DEF IngestInv, IngestTypeOK, TaskInv, Bounded, Holding, Ended, Panicked, Uncounted

\* Every count is a number.
LEMMA CountsAreNat ==
  ASSUME IngestInv
  PROVE  /\ DocsIn(Holding \cup Ended) \in Nat /\ DocsIn(Panicked) \in Nat
         /\ DocsIn(Uncounted) \in Nat
<1>1. /\ CountIn(tasks, Holding \cup Ended) \in Nat /\ CountIn(tasks, Panicked) \in Nat
      /\ CountIn(tasks, Uncounted) \in Nat
  BY TasksBounded, CountFinite
<1>2. QED
  BY <1>1 DEF CountIn, DocsIn

\* The machine before the first document.
LEMMA InitIngest == IngestInit => IngestInv
<1> SUFFICES ASSUME IngestInit PROVE IngestInv
  OBVIOUS
<1>1. tasks = <<>> /\ feed = <<>> /\ DOMAIN tasks = {} /\ DOMAIN feed = {}
  BY DEF IngestInit
<1>2. Holding = {} /\ Ended = {} /\ Panicked = {} /\ Uncounted = {}
  BY <1>1 DEF Holding, Ended, Panicked, Uncounted
<1>3. DocsIn({}) = 0
  BY CountNone DEF CountIn, DocsIn
<1>4. Upserts = 0
  <2>1. {i \in DOMAIN feed : feed[i].op = "upsert"} = {}
    BY <1>1
  <2>2. QED
    BY <2>1, FS_EmptySet DEF Upserts
<1>5. IngestTypeOK
  <2>1. /\ feed \in Seq(Rows) /\ tasks \in Seq(TaskStates)
        /\ intake \in Seq(Docs) /\ batch \in Seq(Docs)
        /\ Len(intake) = 0 /\ Len(batch) = 0
    BY EmptySeq DEF IngestInit
  <2>2. Len(intake) <= QueueDepth /\ Len(batch) <= BatchSize /\ sent \in 0..MaxDocs
    BY <2>1, Sizes, MaxDocsNat DEF IngestInit
  <2>3. closed \in BOOLEAN /\ open \in BOOLEAN
    BY DEF IngestInit
  <2>4. stats \in [received : Nat, indexed : Nat, errors : Nat]
    BY DEF IngestInit
  <2>5. QED
    BY <2>1, <2>2, <2>3, <2>4 DEF IngestInit, IngestTypeOK
<1>6. TaskInv /\ WorkerInv
  BY <1>1 DEF IngestInit, TaskInv, WorkerInv
<1>7. LandedInv /\ CountInv
  BY <1>2, <1>3, <1>4 DEF IngestInit, LandedInv, CountInv
<1>8. PermitInv
  BY <1>2, FS_EmptySet, Sizes DEF PermitInv
<1>9. QED
  BY <1>5, <1>6, <1>7, <1>8 DEF IngestInv

\* Steps that move documents towards a batch, or the worker, and touch no task.
LEMMA QuietInv ==
  ASSUME IngestInv,
         \/ Submit \/ Finish \/ Loop \/ HarvestDone \/ Receive \/ Drained \/ Linger
         \/ Straggler /\ UNCHANGED <<tasks, stats>>
  PROVE  IngestInv'
<1>1. UNCHANGED <<feed, tasks>>
  BY DEF Submit, Finish, Loop, HarvestDone, Receive, Drained, Linger, Straggler
<1>2. /\ UNCHANGED <<Holding, Ended, Panicked, Uncounted, Upserts>>
      /\ UNCHANGED <<DocsIn(Holding \cup Ended), DocsIn(Panicked), DocsIn(Uncounted)>>
  BY <1>1 DEF Holding, Ended, Panicked, Uncounted, Upserts, DocsIn
<1>3. TaskInv' /\ PermitInv'
  BY <1>1, <1>2 DEF IngestInv, TaskInv, PermitInv
<1> DEFINE a == DocsIn(Holding \cup Ended)
           b == DocsIn(Panicked)
<1>4. a \in Nat /\ b \in Nat /\ a' = a /\ b' = b
  BY <1>2, CountsAreNat
<1>5. stats.received = Len(batch) + a + stats.indexed + stats.errors + b
  BY DEF IngestInv, CountInv
<1> HIDE DEF a, b
<1>6. /\ intake \in Seq(Docs) /\ Len(intake) \in Nat /\ Len(intake) <= QueueDepth
      /\ batch \in Seq(Docs) /\ Len(batch) \in Nat /\ Len(batch) <= BatchSize
      /\ stats \in [received : Nat, indexed : Nat, errors : Nat]
      /\ sent \in 0..MaxDocs /\ sent = Len(intake) + stats.received
  BY LenProperties DEF IngestInv, IngestTypeOK, CountInv
<1>7. CASE Submit
  <2>1. sent + 1 \in Docs /\ sent' \in 0..MaxDocs /\ sent' = sent + 1
    BY <1>6, <1>7, MaxDocsNat DEF Submit, Docs
  <2>2. intake' \in Seq(Docs) /\ Len(intake') = Len(intake) + 1 /\ intake' # <<>>
    BY <1>6, <1>7, <2>1, AppendProperties DEF Submit
  <2>3. Len(intake') <= QueueDepth
    BY <1>6, <1>7, <2>2, Sizes DEF Submit, Room
  <2>4. UNCHANGED <<closed, mpc, open, batch, phase, stats>>
    BY <1>7 DEF Submit
  <2>5. IngestTypeOK' /\ WorkerInv' /\ LandedInv'
    BY <1>1, <1>2, <1>7, <2>1, <2>2, <2>3, <2>4
       DEF IngestInv, IngestTypeOK, WorkerInv, LandedInv, Submit
  <2>6. sent' = Len(intake') + stats'.received
    BY <1>6, <2>1, <2>2, <2>4
  <2>7. CountInv'
    BY <1>2, <2>4, <2>6 DEF IngestInv, CountInv
  <2>8. QED
    BY <1>3, <2>5, <2>7 DEF IngestInv
<1>8. CASE Receive
  <2>1. Head(intake) \in Docs /\ intake' \in Seq(Docs) /\ Len(intake') = Len(intake) - 1
    BY <1>6, <1>8, HeadTailProperties DEF Receive
  <2>2. batch' \in Seq(Docs) /\ Len(batch') = Len(batch) + 1
    BY <1>6, <1>8, <2>1, AppendProperties DEF Receive
  <2>3. Len(intake') <= QueueDepth /\ Len(batch') <= BatchSize
    BY <1>6, <1>8, <2>1, <2>2, Sizes DEF Receive
  <2>4. /\ stats' = [stats EXCEPT !.received = @ + 1] /\ UNCHANGED <<closed, sent, mpc, open>>
        /\ mpc = "fill" /\ phase' = IF phase = "idle" THEN "ingesting" ELSE phase
    BY <1>8 DEF Receive
  <2>5. /\ stats' \in [received : Nat, indexed : Nat, errors : Nat]
        /\ stats'.received = stats.received + 1 /\ stats'.indexed = stats.indexed
        /\ stats'.errors = stats.errors
    BY <1>6, <2>4
  <2>6. IngestTypeOK' /\ WorkerInv' /\ LandedInv'
    BY <1>1, <1>2, <2>1, <2>2, <2>3, <2>4, <2>5
       DEF IngestInv, IngestTypeOK, WorkerInv, LandedInv
  <2>7. sent' = Len(intake') + stats'.received
    BY <1>6, <2>1, <2>4, <2>5
  <2>8. stats'.received = Len(batch') + a' + stats'.indexed + stats'.errors + b'
    <3>1. ASSUME NEW r \in Nat, NEW m \in Nat, NEW x \in Nat, NEW i \in Nat, NEW e \in Nat,
                 NEW y \in Nat, r = m + x + i + e + y
          PROVE  r + 1 = (m + 1) + x + i + e + y
      BY <3>1
    <3>2. /\ stats.received \in Nat /\ stats.indexed \in Nat /\ stats.errors \in Nat
          /\ Len(batch) \in Nat /\ a \in Nat /\ b \in Nat
      BY <1>4, <1>6
    <3>3. stats.received + 1 = (Len(batch) + 1) + a + stats.indexed + stats.errors + b
      BY <1>5, <3>1, <3>2
    <3>4. QED
      BY <1>4, <2>2, <2>5, <3>3
  <2>9. QED
    BY <1>3, <2>6, <2>7, <2>8 DEF IngestInv, CountInv, a, b
<1>9. CASE \/ Finish \/ Loop \/ HarvestDone \/ Drained \/ Linger
           \/ Straggler /\ UNCHANGED <<tasks, stats>>
  <2>1. UNCHANGED <<intake, sent, batch, stats>>
    BY <1>9 DEF Finish, Loop, HarvestDone, Drained, Linger, Straggler
  <2>2. LandedInv' /\ CountInv'
    BY <1>2, <2>1 DEF IngestInv, LandedInv, CountInv
  <2>3. IngestTypeOK'
    BY <1>1, <1>9, <2>1 DEF IngestInv, IngestTypeOK, Finish, Loop, HarvestDone, Drained, Linger,
                            Straggler
  <2>4. WorkerInv'
    BY <1>2, <1>9, <2>1 DEF IngestInv, WorkerInv, MoreToDo, Finish, Loop, HarvestDone, Drained,
                            Linger, Straggler
  <2>5. QED
    BY <1>3, <2>2, <2>3, <2>4 DEF IngestInv
<1>10. QED
  BY <1>7, <1>8, <1>9

\* A change of one task that keeps its batch.
LEMMA TaskUpdate ==
  ASSUME IngestInv, NEW t \in DOMAIN tasks, NEW r \in TaskStates, r.docs = tasks[t].docs,
         tasks' = [tasks EXCEPT ![t] = r]
  PROVE  /\ Bounded(tasks)' /\ DOMAIN tasks' = DOMAIN tasks
         /\ tasks'[t] = r /\ \A u \in DOMAIN tasks : u # t => tasks'[u] = tasks[u]
         /\ \A u \in DOMAIN tasks : tasks'[u].docs = tasks[u].docs
<1>1. tasks \in Seq(TaskStates) /\ t \in 1..Len(tasks) /\ DOMAIN tasks = 1..Len(tasks)
  BY TasksBounded
<1>2. /\ tasks' \in Seq(TaskStates) /\ Len(tasks') = Len(tasks)
      /\ \A u \in 1..Len(tasks) : tasks'[u] = IF u = t THEN r ELSE tasks[u]
  BY <1>1, ExceptSeq
<1>3. DOMAIN tasks' = 1..Len(tasks')
  BY <1>2, LenProperties
<1>4. \A u \in DOMAIN tasks : tasks'[u].docs = tasks[u].docs
  BY <1>1, <1>2
<1>5. Bounded(tasks)'
  BY <1>1, <1>2, <1>3, <1>4 DEF IngestInv, TaskInv, Bounded
<1>6. QED
  BY <1>1, <1>2, <1>3, <1>4, <1>5

\* Joining an ended task moves its documents to the counter of its outcome.
LEMMA JoinInv ==
  ASSUME IngestInv, NEW t \in Ended, JoinTask(t),
         UNCHANGED <<feed, intake, closed, sent, open, batch, phase>>,
         mpc' = mpc \/ mpc' = "top", mpc # "done", mpc' # "fill"
  PROVE  IngestInv'
<1> DEFINE r == [tasks[t] EXCEPT !.joined = TRUE]
           k == Len(tasks[t].docs)
           live == Holding \cup Ended
<1>1. t \in DOMAIN tasks /\ tasks[t].st \in {"ok", "failed", "panicked"} /\ ~tasks[t].joined
  BY DEF Ended
<1>2. tasks[t] \in TaskStates /\ k \in Nat
  BY <1>1, TasksBounded, TaskAt
<1>3. r \in TaskStates /\ r.docs = tasks[t].docs /\ r.st = tasks[t].st /\ r.joined
  BY <1>2 DEF TaskStates
<1>4. tasks' = [tasks EXCEPT ![t] = r]
  BY DEF JoinTask
<1>5. /\ Bounded(tasks)' /\ DOMAIN tasks' = DOMAIN tasks
      /\ tasks'[t] = r /\ \A u \in DOMAIN tasks : u # t => tasks'[u] = tasks[u]
      /\ \A u \in DOMAIN tasks : tasks'[u].docs = tasks[u].docs
  BY <1>1, <1>3, <1>4, TaskUpdate
<1> HIDE DEF r, k
<1>6. /\ Holding' = Holding /\ Ended' = Ended \ {t} /\ t \notin Holding
      /\ Panicked' = IF tasks[t].st = "panicked" THEN Panicked \cup {t} ELSE Panicked
      /\ Uncounted' = IF tasks[t].st = "ok" THEN Uncounted \ {t} ELSE Uncounted
      /\ t \notin Panicked /\ (tasks[t].st = "ok" => t \in Uncounted)
  BY <1>1, <1>3, <1>5 DEF Holding, Ended, Panicked, Uncounted
<1>7. live' = live \ {t} /\ live = (live \ {t}) \cup {t} /\ live \subseteq DOMAIN tasks
  BY <1>6, TasksBounded
<1>8. ASSUME NEW ts, ts \subseteq DOMAIN tasks
      PROVE  CountIn(tasks', ts) = CountIn(tasks, ts)
  BY <1>5, <1>8, CountSame
<1>9. ASSUME NEW ts, ts \subseteq DOMAIN tasks, t \in ts
      PROVE  CountIn(tasks, ts) = CountIn(tasks, ts \ {t}) + k /\ CountIn(tasks, ts \ {t}) \in Nat
  <2>1. (ts \ {t}) \cup {t} = ts /\ ts \ {t} \subseteq DOMAIN tasks
    BY <1>9
  <2>2. CountIn(tasks, (ts \ {t}) \cup {t}) = CountIn(tasks, ts \ {t}) + k
    BY <1>1, <2>1, TasksBounded, CountAdd DEF k
  <2>3. QED
    BY <2>1, <2>2, TasksBounded, CountFinite
<1>10. DocsIn(live) = DocsIn(live)' + k /\ DocsIn(live)' \in Nat
  <2>1. DocsIn(live)' = CountIn(tasks', live \ {t})
    BY <1>7 DEF DocsIn, CountIn
  <2>2. CountIn(tasks', live \ {t}) = CountIn(tasks, live \ {t})
    BY <1>7, <1>8
  <2>3. t \in live
    BY <1>7
  <2>4. CountIn(tasks, live) = CountIn(tasks, live \ {t}) + k /\ CountIn(tasks, live \ {t}) \in Nat
    BY <1>7, <1>9, <2>3
  <2>5. QED
    BY <2>1, <2>2, <2>4 DEF DocsIn, CountIn
<1>11. /\ DocsIn(Panicked) \in Nat
       /\ DocsIn(Panicked)' = DocsIn(Panicked) + (IF tasks[t].st = "panicked" THEN k ELSE 0)
  <2>1. DocsIn(Panicked)' = CountIn(tasks, Panicked')
    <3>1. Panicked' \subseteq DOMAIN tasks
      BY <1>1, <1>6, TasksBounded
    <3>2. CountIn(tasks', Panicked') = CountIn(tasks, Panicked')
      BY <1>8, <3>1
    <3>3. QED
      BY <3>2 DEF DocsIn, CountIn
  <2>2. DocsIn(Panicked) \in Nat /\ DocsIn(Panicked) = CountIn(tasks, Panicked)
    BY CountsAreNat DEF DocsIn, CountIn
  <2>3. CountIn(tasks, Panicked \cup {t}) = CountIn(tasks, Panicked) + k
    BY <1>1, <1>6, TasksBounded, CountAdd DEF k
  <2>4. QED
    BY <1>2, <1>6, <2>1, <2>2, <2>3
<1>12. /\ DocsIn(Uncounted)' \in Nat
       /\ DocsIn(Uncounted) = DocsIn(Uncounted)' + (IF tasks[t].st = "ok" THEN k ELSE 0)
  <2>1. DocsIn(Uncounted)' = CountIn(tasks, Uncounted')
    <3>1. Uncounted' \subseteq DOMAIN tasks
      BY <1>6, TasksBounded
    <3>2. CountIn(tasks', Uncounted') = CountIn(tasks, Uncounted')
      BY <1>8, <3>1
    <3>3. QED
      BY <3>2 DEF DocsIn, CountIn
  <2>2. DocsIn(Uncounted) \in Nat /\ DocsIn(Uncounted) = CountIn(tasks, Uncounted)
    BY CountsAreNat DEF DocsIn, CountIn
  <2>3. tasks[t].st = "ok" => /\ CountIn(tasks, Uncounted) = CountIn(tasks, Uncounted \ {t}) + k
                              /\ CountIn(tasks, Uncounted \ {t}) \in Nat
    BY <1>6, <1>9, TasksBounded
  <2>4. QED
    BY <1>2, <1>6, <2>1, <2>2, <2>3
<1> HIDE DEF live
<1>13. stats \in [received : Nat, indexed : Nat, errors : Nat]
  BY DEF IngestInv, IngestTypeOK
<1>14. /\ stats' \in [received : Nat, indexed : Nat, errors : Nat]
       /\ stats'.received = stats.received
       /\ stats'.indexed = stats.indexed + (IF tasks[t].st = "ok" THEN k ELSE 0)
       /\ stats'.errors = stats.errors + (IF tasks[t].st = "failed" THEN k ELSE 0)
  BY <1>1, <1>2, <1>13 DEF JoinTask, Harvested, k
<1>15. CountInv'
  <2>1. stats.received = Len(batch) + DocsIn(live) + stats.indexed + stats.errors + DocsIn(Panicked)
    BY DEF IngestInv, CountInv, live
  <2>2. Len(batch) \in Nat
    BY LenProperties DEF IngestInv, IngestTypeOK
  <2>3. stats'.received = Len(batch) + DocsIn(live)' + stats'.indexed + stats'.errors
                            + DocsIn(Panicked)'
    <3>1. CASE tasks[t].st = "ok"
      BY <1>2, <1>10, <1>11, <1>13, <1>14, <2>1, <2>2, <3>1
    <3>2. CASE tasks[t].st = "failed"
      BY <1>2, <1>10, <1>11, <1>13, <1>14, <2>1, <2>2, <3>2
    <3>3. CASE tasks[t].st = "panicked"
      BY <1>2, <1>10, <1>11, <1>13, <1>14, <2>1, <2>2, <3>3
    <3>4. QED
      BY <1>1, <3>1, <3>2, <3>3
  <2>4. QED
    BY <1>14, <2>3 DEF IngestInv, CountInv, live
<1>16. LandedInv'
  <2>1. Upserts' = Upserts
    BY DEF Upserts
  <2>2. Upserts = stats.indexed + DocsIn(Uncounted)
    BY DEF IngestInv, LandedInv
  <2>3. QED
    BY <1>2, <1>12, <1>13, <1>14, <2>1, <2>2 DEF LandedInv
<1>17. IngestTypeOK'
  <2>1. tasks' \in Seq(TaskStates)
    BY <1>5 DEF Bounded
  <2>2. QED
    BY <1>14, <2>1 DEF IngestInv, IngestTypeOK
<1>18. TaskInv' /\ WorkerInv' /\ PermitInv'
  <2>1. TaskInv'
    BY <1>5, <1>6 DEF IngestInv, TaskInv, Bounded
  <2>2. WorkerInv'
    BY DEF IngestInv, WorkerInv
  <2>3. PermitInv'
    BY <1>6 DEF IngestInv, PermitInv
  <2>4. QED
    BY <2>1, <2>2, <2>3
<1>19. QED
  BY <1>15, <1>16, <1>17, <1>18 DEF IngestInv

\* A task comes to a state of its life.
SetState(t, st) == tasks' = [tasks EXCEPT ![t].st = st]

\* A step of a task that is not joined moves no document in or out of the machine,
\* and takes no permit.
LEMMA TaskMoves ==
  ASSUME IngestInv, NEW t \in Holding, NEW st \in {"landed", "ok", "failed", "panicked"},
         SetState(t, st),
         UNCHANGED <<intake, closed, sent, mpc, open, batch, phase, stats>>
  PROVE  /\ Bounded(tasks)' /\ TaskInv' /\ WorkerInv' /\ PermitInv' /\ CountInv'
         /\ Uncounted' = IF st \in {"landed", "ok"} THEN Uncounted \cup {t} ELSE Uncounted \ {t}
         /\ \A ts \in SUBSET DOMAIN tasks : CountIn(tasks', ts) = CountIn(tasks, ts)
<1> DEFINE r == [tasks[t] EXCEPT !.st = st]
           live == Holding \cup Ended
<1>1. t \in DOMAIN tasks /\ tasks[t].st \in {"running", "landed"} /\ ~tasks[t].joined
  BY DEF Holding, IngestInv, TaskInv
<1>2. tasks[t] \in TaskStates
  BY <1>1, TasksBounded, TaskAt
<1>3. r \in TaskStates /\ r.docs = tasks[t].docs /\ r.st = st /\ ~r.joined
  BY <1>1, <1>2 DEF TaskStates
<1>4. tasks' = [tasks EXCEPT ![t] = r]
  BY DEF SetState
<1>5. /\ Bounded(tasks)' /\ DOMAIN tasks' = DOMAIN tasks
      /\ tasks'[t] = r /\ \A u \in DOMAIN tasks : u # t => tasks'[u] = tasks[u]
      /\ \A u \in DOMAIN tasks : tasks'[u].docs = tasks[u].docs
  BY <1>1, <1>3, <1>4, TaskUpdate
<1> HIDE DEF r
<1>6. Holding' \subseteq Holding
  BY <1>1, <1>3, <1>5 DEF Holding
<1>7. live' = live
  BY <1>1, <1>3, <1>5 DEF Holding, Ended
<1>8. Panicked' = Panicked
  BY <1>1, <1>3, <1>5 DEF Panicked
<1>9. Uncounted' = IF st \in {"landed", "ok"} THEN Uncounted \cup {t} ELSE Uncounted \ {t}
  BY <1>1, <1>3, <1>5 DEF Uncounted
<1>10. ASSUME NEW ts, ts \subseteq DOMAIN tasks
       PROVE  CountIn(tasks', ts) = CountIn(tasks, ts)
  BY <1>5, <1>10, CountSame
<1>11. DocsIn(live)' = DocsIn(live) /\ DocsIn(Panicked)' = DocsIn(Panicked)
  <2>1. live \in SUBSET DOMAIN tasks /\ Panicked \in SUBSET DOMAIN tasks
    BY TasksBounded
  <2>2. /\ CountIn(tasks', live) = CountIn(tasks, live)
        /\ CountIn(tasks', Panicked) = CountIn(tasks, Panicked)
    BY <1>10, <2>1
  <2>3. QED
    BY <1>7, <1>8, <2>2 DEF DocsIn, CountIn
<1>12. CountInv'
  BY <1>11 DEF IngestInv, CountInv
<1>13. PermitInv'
  <2>1. IsFiniteSet(Holding)
    BY TasksBounded, CountFinite
  <2>2. Cardinality(Holding') <= Cardinality(Holding)
    BY <1>6, <2>1, FS_Subset
  <2>3. Cardinality(Holding) \in Nat /\ Cardinality(Holding') \in Nat
    BY <1>6, <2>1, FS_Subset, FS_CardinalityType
  <2>4. QED
    BY <2>2, <2>3, Sizes DEF IngestInv, PermitInv
<1>14. TaskInv'
  BY <1>1, <1>3, <1>5, <1>6 DEF IngestInv, TaskInv, Bounded
<1>15. WorkerInv'
  BY <1>7 DEF IngestInv, WorkerInv
<1>16. QED
  BY <1>5, <1>9, <1>10, <1>12, <1>13, <1>14, <1>15

\* The rows of a batch: one upsert for each document.
LEMMA BatchRows ==
  ASSUME NEW ds \in Seq(Docs)
  PROVE  LET rows == [i \in DOMAIN ds |-> [op |-> "upsert", id |-> ds[i]]]
         IN  /\ rows \in Seq(Rows) /\ Len(rows) = Len(ds)
             /\ \A i \in 1..Len(ds) : rows[i].op = "upsert"
<1> DEFINE rows == [i \in DOMAIN ds |-> [op |-> "upsert", id |-> ds[i]]]
<1>1. DOMAIN ds = 1..Len(ds) /\ Len(ds) \in Nat /\ \A i \in 1..Len(ds) : ds[i] \in Docs
  BY LenProperties, ElementOfSeq
<1>2. rows \in [1..Len(ds) -> Rows]
  BY <1>1 DEF Rows
<1>3. rows \in Seq(Rows) /\ Len(rows) = Len(ds)
  BY <1>1, <1>2
<1>4. QED
  BY <1>1, <1>3

\* An upsert that lands appends its rows, which are then counted nowhere yet.
LEMMA LandInv == ASSUME IngestInv, NEW t \in DOMAIN tasks, Land(t) PROVE IngestInv'
<1> DEFINE ds == tasks[t].docs
           rows == [i \in DOMAIN ds |-> [op |-> "upsert", id |-> ds[i]]]
           U == {i \in DOMAIN feed : feed[i].op = "upsert"}
<1>1. ds \in Seq(Docs) /\ Len(ds) \in Nat
  BY TasksBounded, TaskAt
<1>2. rows \in Seq(Rows) /\ Len(rows) = Len(ds) /\ \A i \in 1..Len(ds) : rows[i].op = "upsert"
  BY <1>1, BatchRows
<1>3. feed \in Seq(Rows) /\ Len(feed) \in Nat /\ DOMAIN feed = 1..Len(feed)
  BY LenProperties DEF IngestInv, IngestTypeOK
<1>4. feed' = feed \o rows
  BY DEF Land
<1> HIDE DEF rows, ds
<1>5. /\ feed' \in Seq(Rows) /\ Len(feed') = Len(feed) + Len(ds)
      /\ \A i \in 1..(Len(feed) + Len(ds)) :
            feed'[i] = IF i <= Len(feed) THEN feed[i] ELSE rows[i - Len(feed)]
  <2>1. /\ feed \o rows \in Seq(Rows) /\ Len(feed \o rows) = Len(feed) + Len(rows)
        /\ \A i \in 1..(Len(feed) + Len(rows)) :
              (feed \o rows)[i] = IF i <= Len(feed) THEN feed[i] ELSE rows[i - Len(feed)]
    <3>1. feed \in Seq(Rows) /\ rows \in Seq(Rows)
      BY <1>2, <1>3
    <3>2. QED
      BY <3>1, ConcatProperties
  <2>2. QED
    BY <1>2, <1>4, <2>1
<1>6. DOMAIN feed' = 1..(Len(feed) + Len(ds))
  BY <1>5, LenProperties
<1>7. U' = U \cup ((Len(feed) + 1)..(Len(feed) + Len(ds)))
  <2>1. ASSUME NEW i \in 1..(Len(feed) + Len(ds))
        PROVE  feed'[i].op = "upsert" <=> i \in U \/ i > Len(feed)
    <3>1. CASE i <= Len(feed)
      BY <1>1, <1>3, <1>5, <3>1
    <3>2. CASE i > Len(feed)
      <4>1. i - Len(feed) \in 1..Len(ds)
        BY <1>1, <1>3, <3>2
      <4>2. QED
        BY <1>2, <1>3, <1>5, <3>2, <4>1
    <3>3. QED
      BY <1>3, <3>1, <3>2
  <2>2. QED
    BY <1>1, <1>3, <1>6, <2>1
<1>8. Upserts' = Upserts + Len(ds) /\ Upserts \in Nat
  <2> DEFINE N == (Len(feed) + 1)..(Len(feed) + Len(ds))
  <2>1. IsFiniteSet(U)
    <3>1. IsFiniteSet(1..Len(feed))
      BY <1>3, FS_Interval
    <3>2. QED
      BY <1>3, <3>1, FS_Subset
  <2>2. IsFiniteSet(N) /\ Cardinality(N) = Len(ds)
    <3>1. Len(feed) + 1 \in Int /\ Len(feed) + Len(ds) \in Int
      BY <1>1, <1>3
    <3>2. IsFiniteSet(N) /\ Cardinality(N) = IF Len(feed) + 1 > Len(feed) + Len(ds) THEN 0
                                  ELSE Len(feed) + Len(ds) - (Len(feed) + 1) + 1
      BY <3>1, FS_Interval
    <3>3. QED
      BY <1>1, <1>3, <3>2
  <2>3. U \cap N = {}
    BY <1>1, <1>3
  <2>4. Cardinality(U) \in Nat
    BY <2>1, FS_CardinalityType
  <2> HIDE DEF U, N
  <2>5. Cardinality(U \cap N) = 0
    BY <2>3, FS_EmptySet
  <2>6. Cardinality(U \cup N) = Cardinality(U) + Cardinality(N) - Cardinality(U \cap N)
    BY <2>1, <2>2, FS_Union
  <2>7. Cardinality(U') = Cardinality(U) + Len(ds)
    BY <1>1, <1>7, <2>2, <2>4, <2>5, <2>6 DEF N
  <2>8. QED
    BY <2>4, <2>7 DEF Upserts, U
<1>9. /\ t \in Holding /\ t \notin Uncounted /\ SetState(t, "landed")
      /\ UNCHANGED <<intake, closed, sent, mpc, open, batch, phase, stats>>
  BY DEF Land, Holding, Uncounted, SetState
<1>10. /\ Bounded(tasks)' /\ TaskInv' /\ WorkerInv' /\ PermitInv' /\ CountInv'
       /\ Uncounted' = Uncounted \cup {t}
       /\ \A ts \in SUBSET DOMAIN tasks : CountIn(tasks', ts) = CountIn(tasks, ts)
  BY <1>9, TaskMoves
<1>11. DocsIn(Uncounted)' = DocsIn(Uncounted) + Len(ds) /\ DocsIn(Uncounted) \in Nat
  <2>1. Uncounted \cup {t} \in SUBSET DOMAIN tasks /\ Uncounted \subseteq DOMAIN tasks
    BY TasksBounded
  <2>2. CountIn(tasks', Uncounted \cup {t}) = CountIn(tasks, Uncounted \cup {t})
    BY <1>10, <2>1
  <2>3. CountIn(tasks, Uncounted \cup {t}) = CountIn(tasks, Uncounted) + Len(ds)
    BY <1>9, <2>1, TasksBounded, CountAdd DEF ds
  <2>4. CountIn(tasks, Uncounted) \in Nat
    BY <2>1, TasksBounded, CountFinite
  <2>5. QED
    BY <1>10, <2>2, <2>3, <2>4 DEF DocsIn, CountIn
<1>12. LandedInv'
  <2>1. Upserts = stats.indexed + DocsIn(Uncounted) /\ stats.indexed \in Nat
    BY DEF IngestInv, LandedInv, IngestTypeOK
  <2>2. QED
    BY <1>1, <1>8, <1>9, <1>11, <2>1 DEF LandedInv
<1>13. IngestTypeOK'
  BY <1>5, <1>9, <1>10 DEF IngestInv, IngestTypeOK, Bounded
<1>14. QED
  BY <1>10, <1>12, <1>13 DEF IngestInv

\* A landed upsert that returns, and a task that fails or panics before it lands.
LEMMA EndInv ==
  ASSUME IngestInv, NEW t \in DOMAIN tasks, Return(t) \/ Fail(t) PROVE IngestInv'
<1>1. PICK st \in {"ok", "failed", "panicked"} :
        /\ SetState(t, st)
        /\ tasks[t].st = IF st = "ok" THEN "landed" ELSE "running"
  BY DEF Return, Fail, SetState
<1>2. t \in Holding /\ UNCHANGED <<feed, intake, closed, sent, mpc, open, batch, phase, stats>>
  BY DEF Return, Fail, Holding
<1>3. /\ Bounded(tasks)' /\ TaskInv' /\ WorkerInv' /\ PermitInv' /\ CountInv'
      /\ Uncounted' = IF st \in {"landed", "ok"} THEN Uncounted \cup {t} ELSE Uncounted \ {t}
      /\ \A ts \in SUBSET DOMAIN tasks : CountIn(tasks', ts) = CountIn(tasks, ts)
  BY <1>1, <1>2, TaskMoves
<1>4. Uncounted' = Uncounted
  BY <1>1, <1>2, <1>3 DEF Uncounted, IngestInv, TaskInv
<1>5. DocsIn(Uncounted)' = DocsIn(Uncounted)
  <2>1. CountIn(tasks', Uncounted) = CountIn(tasks, Uncounted)
    BY <1>3, TasksBounded
  <2>2. QED
    BY <1>4, <2>1 DEF DocsIn, CountIn
<1>6. LandedInv'
  BY <1>2, <1>5 DEF IngestInv, LandedInv, Upserts
<1>7. IngestTypeOK'
  BY <1>2, <1>3 DEF IngestInv, IngestTypeOK, Bounded
<1>8. QED
  BY <1>3, <1>6, <1>7 DEF IngestInv

\* A batch that is spawned takes a permit, and its documents are in flight.
LEMMA DispatchInv == ASSUME IngestInv, Dispatch PROVE IngestInv'
<1> DEFINE r == [docs |-> batch, st |-> "running", joined |-> FALSE]
           n == Len(tasks) + 1
           live == Holding \cup Ended
<1>1. /\ batch \in Seq(Docs) /\ Len(batch) \in Nat /\ Len(batch) <= BatchSize
      /\ stats \in [received : Nat, indexed : Nat, errors : Nat]
  BY LenProperties DEF IngestInv, IngestTypeOK
<1>2. r \in TaskStates
  BY <1>1 DEF TaskStates
<1>3. tasks \in Seq(TaskStates) /\ DOMAIN tasks = 1..Len(tasks) /\ Len(tasks) \in Nat
  BY TasksBounded, LenProperties
<1>4. tasks' = Append(tasks, r) /\ batch' = <<>> /\ mpc' = "top" /\ mpc = "dispatch"
      /\ UNCHANGED <<feed, intake, closed, sent, open, phase, stats>>
  BY DEF Dispatch
<1> HIDE DEF r
<1>5. /\ tasks' \in Seq(TaskStates) /\ Len(tasks') = n
      /\ \A u \in DOMAIN tasks : tasks'[u] = tasks[u]
      /\ tasks'[n] = r
  BY <1>2, <1>3, <1>4, AppendProperties
<1>6. DOMAIN tasks' = 1..n
  BY <1>5, LenProperties
<1>7. DOMAIN tasks' = DOMAIN tasks \cup {n} /\ n \notin DOMAIN tasks /\ n \in Nat
  BY <1>3, <1>6
<1> HIDE DEF n
<1>8. r.docs = batch /\ r.st = "running" /\ ~r.joined
  BY DEF r
<1>9. Bounded(tasks)'
  BY <1>1, <1>5, <1>7, <1>8, TasksBounded DEF Bounded
<1>10. /\ Holding' = Holding \cup {n} /\ Ended' = Ended
       /\ Panicked' = Panicked /\ Uncounted' = Uncounted
       /\ n \notin Holding /\ n \notin Ended
  BY <1>5, <1>7, <1>8 DEF Holding, Ended, Panicked, Uncounted
<1>11. ASSUME NEW ts, ts \subseteq DOMAIN tasks
       PROVE  CountIn(tasks', ts) = CountIn(tasks, ts)
  <2>1. \A u \in ts : tasks'[u].docs = tasks[u].docs
    BY <1>5, <1>11
  <2> HIDE <1>4
  <2>2. QED
    BY <2>1, CountSame
<1>12. DocsIn(Panicked)' = DocsIn(Panicked) /\ DocsIn(Uncounted)' = DocsIn(Uncounted)
  <2>1. /\ CountIn(tasks', Panicked) = CountIn(tasks, Panicked)
        /\ CountIn(tasks', Uncounted) = CountIn(tasks, Uncounted)
    BY <1>11, TasksBounded
  <2>2. QED
    BY <1>10, <2>1 DEF DocsIn, CountIn
<1>13. DocsIn(live)' = DocsIn(live) + Len(batch) /\ DocsIn(live) \in Nat
  <2>1. live \subseteq DOMAIN tasks /\ live \subseteq DOMAIN tasks' /\ n \notin live
        /\ n \in DOMAIN tasks'
    BY <1>7, <1>10, TasksBounded
  <2>2. live' = live \cup {n}
    BY <1>10
  <2>3. CountIn(tasks', live \cup {n}) = CountIn(tasks', live) + Len(tasks'[n].docs)
    BY <1>9, <2>1, CountAdd
  <2>4. CountIn(tasks', live) = CountIn(tasks, live)
    BY <1>11, <2>1
  <2>5. CountIn(tasks, live) \in Nat
    BY <2>1, TasksBounded, CountFinite
  <2>6. DocsIn(live)' = CountIn(tasks', live \cup {n})
    BY <2>2 DEF DocsIn, CountIn
  <2>7. QED
    BY <1>5, <1>8, <2>3, <2>4, <2>5, <2>6 DEF DocsIn, CountIn
<1>14. CountInv'
  <2>1. stats.received = Len(batch) + DocsIn(live) + stats.indexed + stats.errors + DocsIn(Panicked)
    BY DEF IngestInv, CountInv
  <2>2. DocsIn(Panicked) \in Nat
    BY CountsAreNat
  <2> HIDE DEF live
  <2>3. Len(batch') = 0
    BY <1>4, EmptySeq
  <2>4. stats'.received = Len(batch') + DocsIn(live)' + stats'.indexed + stats'.errors
                            + DocsIn(Panicked)'
    BY <1>1, <1>4, <1>12, <1>13, <2>1, <2>2, <2>3
  <2>5. QED
    BY <1>4, <2>4 DEF IngestInv, CountInv, live
<1>15. LandedInv' /\ TaskInv'
  <2>1. Upserts' = Upserts
    BY <1>4 DEF Upserts
  <2>2. LandedInv'
    BY <1>4, <1>12, <2>1 DEF IngestInv, LandedInv
  <2>3. TaskInv'
    BY <1>5, <1>7, <1>8, <1>9, <1>10 DEF IngestInv, TaskInv, Bounded
  <2>4. QED
    BY <2>2, <2>3
<1>16. PermitInv'
  <2>1. IsFiniteSet(Holding)
    BY TasksBounded, CountFinite
  <2>2. Cardinality(Holding) \in Nat /\ Cardinality(Holding') = Cardinality(Holding) + 1
    BY <1>10, <2>1, FS_AddElement, FS_CardinalityType
  <2>3. Cardinality(Holding) < Concurrency
    BY DEF Dispatch, Permit
  <2>4. QED
    BY <2>2, <2>3, Sizes DEF PermitInv
<1>17. IngestTypeOK' /\ WorkerInv'
  <2>1. batch' \in Seq(Docs) /\ Len(batch') <= BatchSize
    BY <1>4, EmptySeq, Sizes
  <2>2. IngestTypeOK'
    BY <1>4, <1>5, <2>1 DEF IngestInv, IngestTypeOK
  <2>3. WorkerInv'
    BY <1>4 DEF IngestInv, WorkerInv
  <2>4. QED
    BY <2>2, <2>3
<1>18. QED
  BY <1>14, <1>15, <1>16, <1>17 DEF IngestInv

\* A removal row is no upsert.
LEMMA DropInv == ASSUME IngestInv, DropMember PROVE IngestInv'
<1>1. PICK i \in DOMAIN feed : feed' = Append(feed, [op |-> "remove", id |-> feed[i].id])
  BY DEF DropMember
<1> DEFINE row == [op |-> "remove", id |-> feed[i].id]
           U == {j \in DOMAIN feed : feed[j].op = "upsert"}
<1>2. feed \in Seq(Rows) /\ Len(feed) \in Nat /\ DOMAIN feed = 1..Len(feed)
  BY LenProperties DEF IngestInv, IngestTypeOK
<1>3. row \in Rows /\ row.op = "remove"
  BY <1>2, ElementOfSeq DEF Rows
<1>4. feed' = Append(feed, row)
  BY <1>1
<1> HIDE DEF row
<1>5. /\ feed' \in Seq(Rows) /\ Len(feed') = Len(feed) + 1
      /\ \A j \in 1..Len(feed) : feed'[j] = feed[j]
      /\ feed'[Len(feed) + 1] = row
  BY <1>2, <1>3, <1>4, AppendProperties
<1>6. DOMAIN feed' = 1..(Len(feed) + 1)
  BY <1>5, LenProperties
<1>7. U' = U
  <2>1. ASSUME NEW j PROVE j \in U' <=> j \in U
    BY <1>2, <1>3, <1>5, <1>6
  <2>2. QED
    BY <2>1
<1>8. Upserts' = Upserts
  BY <1>7 DEF Upserts
<1>9. UNCHANGED <<intake, closed, sent, mpc, open, batch, tasks, phase, stats>>
  BY DEF DropMember, ingestVars
<1>10. /\ UNCHANGED <<Holding, Ended, Panicked, Uncounted>>
       /\ UNCHANGED <<DocsIn(Holding \cup Ended), DocsIn(Panicked), DocsIn(Uncounted)>>
  BY <1>9 DEF Holding, Ended, Panicked, Uncounted, DocsIn
<1>11. QED
  BY <1>5, <1>8, <1>9, <1>10 DEF IngestInv, IngestTypeOK, TaskInv, WorkerInv, LandedInv, PermitInv,
                                 CountInv

\* Every step of the producer, the worker, a task or drop_collection.
LEMMA IngestStep ==
  ASSUME IngestInv,
         \/ Submit \/ Finish \/ Worker \/ DropMember
         \/ \E t \in DOMAIN tasks : Land(t) \/ Return(t) \/ Fail(t)
  PROVE  IngestInv'
<1>1. ASSUME HarvestReady PROVE IngestInv'
  <2>1. PICK t \in Ended : JoinTask(t)
    BY <1>1 DEF HarvestReady
  <2>2. QED
    BY <1>1, <2>1, JoinInv DEF HarvestReady
<1>2. ASSUME Straggler PROVE IngestInv'
  <2>1. CASE UNCHANGED <<tasks, stats>>
    BY <1>2, <2>1, QuietInv
  <2>2. CASE \E t \in Ended : JoinTask(t)
    <3>1. PICK t \in Ended : JoinTask(t)
      BY <2>2
    <3>2. QED
      BY <1>2, <3>1, JoinInv DEF Straggler
  <2>3. QED
    BY <1>2, <2>1, <2>2 DEF Straggler
<1>3. QED
  BY <1>1, <1>2, QuietInv, DispatchInv, DropInv, LandInv, EndInv DEF Worker

-----------------------------------------------------------------------------
(* The subscriptions.                                                      *)

\* A subscription starts at the beginning of an empty feed.
LEMMA InitStream == Init => StreamInv
<1> SUFFICES ASSUME Init PROVE StreamInv
  OBVIOUS
<1>1. feed = <<>> /\ Len(feed) = 0
  BY EmptySeq DEF Init, IngestInit
<1>2. <<>> \in Seq(Rows) /\ Len(<<>>) = 0
  BY EmptySeq
<1>3. StreamType
  BY <1>2 DEF Init, Stream!StreamInit, StreamType
<1>4. ASSUME NEW w \in Watchers PROVE CursorInv(w)
  BY <1>1, <1>2 DEF Init, Stream!StreamInit, CursorInv
<1>5. told <= Len(feed)
  BY <1>1 DEF Init, Stream!StreamInit
<1>6. QED
  BY <1>3, <1>4, <1>5 DEF StreamInv

\* Rows appended to the feed take nothing from a page or from what was received.
LEMMA FeedGrows ==
  ASSUME StreamInv, feed \in Seq(Rows), feed' \in Seq(Rows), Len(feed) <= Len(feed'),
         \A i \in 1..Len(feed) : feed'[i] = feed[i],
         UNCHANGED streamVars
  PROVE  StreamInv'
<1>1. UNCHANGED <<told, spc, woken, since, page, got>>
  BY DEF streamVars
<1>2. Len(feed) \in Nat /\ Len(feed') \in Nat
  BY LenProperties
<1>3. StreamType'
  BY <1>1 DEF StreamInv, StreamType
<1>4. told' <= Len(feed')
  BY <1>1, <1>2 DEF StreamInv, StreamType
<1>5. ASSUME NEW w \in Watchers PROVE CursorInv(w)'
  <2>1. since[w] \in Nat /\ Len(page[w]) \in Nat
    BY LenProperties DEF StreamInv, StreamType
  <2>2. CursorInv(w)
    BY DEF StreamInv
  <2>3. ASSUME NEW i \in 1..since[w] PROVE got[w][i] = feed'[i]
    <3>1. i \in 1..Len(feed) /\ got[w][i] = feed[i]
      BY <1>2, <2>1, <2>2 DEF CursorInv
    <3>2. QED
      BY <3>1
  <2>4. ASSUME NEW i \in 1..Len(page[w]) PROVE page[w][i] = feed'[since[w] + i]
    <3>1. since[w] + i \in 1..Len(feed) /\ page[w][i] = feed[since[w] + i]
      BY <1>2, <2>1, <2>2 DEF CursorInv
    <3>2. QED
      BY <3>1
  <2>5. since[w] + Len(page[w]) <= Len(feed')
    BY <1>2, <2>1, <2>2 DEF CursorInv
  <2>6. QED
    BY <1>1, <2>2, <2>3, <2>4, <2>5 DEF CursorInv
<1>6. QED
  BY <1>3, <1>4, <1>5 DEF StreamInv

\* A page is read from the cursor on, and no row of it is past the end of the feed.
LEMMA DrainPage ==
  ASSUME NEW f \in Seq(Rows), NEW c \in Nat, c <= Len(f)
  PROVE  LET m == IF c + PageLimit < Len(f) THEN c + PageLimit ELSE Len(f)
             p == SubSeq(f, c + 1, m)
         IN  /\ p \in Seq(Rows) /\ c + Len(p) <= Len(f)
             /\ \A i \in 1..Len(p) : p[i] = f[c + i]
<1> DEFINE m == IF c + PageLimit < Len(f) THEN c + PageLimit ELSE Len(f)
           p == SubSeq(f, c + 1, m)
<1>1. Len(f) \in Nat /\ PageLimit \in Nat /\ m \in Nat /\ c <= m /\ m <= Len(f)
  BY LenProperties, PageLimitPositive
<1>2. c + 1 \in Int /\ m \in Int /\ \A i \in (c + 1)..m : f[i] \in Rows
  <2>1. ASSUME NEW i \in (c + 1)..m PROVE f[i] \in Rows
    <3>1. i \in 1..Len(f)
      BY <1>1
    <3>2. QED
      BY <3>1, ElementOfSeq
  <2>2. QED
    BY <1>1, <2>1
<1> HIDE DEF m
<1>3. /\ p \in Seq(Rows) /\ Len(p) = IF c + 1 <= m THEN m - (c + 1) + 1 ELSE 0
      /\ \A i \in 1..(m - (c + 1) + 1) : p[i] = f[c + 1 + i - 1]
  BY <1>2, SubSeqProperties
<1>4. Len(p) = m - c
  BY <1>1, <1>3
<1>5. \A i \in 1..Len(p) : p[i] = f[c + i]
  <2>1. ASSUME NEW i \in 1..Len(p) PROVE p[i] = f[c + i]
    <3>1. i \in 1..(m - (c + 1) + 1) /\ c + 1 + i - 1 = c + i
      BY <1>1, <1>4
    <3>2. QED
      BY <1>3, <3>1
  <2>2. QED
    BY <2>1
<1>6. QED
  BY <1>1, <1>3, <1>4, <1>5 DEF m

\* A subscription that took no step is where it was.
LEMMA CursorStays ==
  ASSUME NEW v \in Watchers, CursorInv(v), feed' = feed, since'[v] = since[v],
         page'[v] = page[v], got'[v] = got[v], spc'[v] = spc[v]
  PROVE  CursorInv(v)'
<1>1. QED
  BY DEF CursorInv

\* Every step of a subscription, and the wake-up of all of them.
LEMMA StreamStep ==
  ASSUME StreamInv, feed \in Seq(Rows), feed' = feed,
         \/ Stream!NotifyWaiters
         \/ \E w \in Watchers : Stream!Watch(w) \/ Stream!HangUp(w)
  PROVE  StreamInv'
<1>1. Len(feed) \in Nat
  BY LenProperties
<1>2. CASE Stream!NotifyWaiters
  <2>1. StreamType' /\ told' <= Len(feed')
    BY <1>1, <1>2 DEF Stream!NotifyWaiters, StreamInv, StreamType
  <2>2. \A w \in Watchers : CursorInv(w)'
    BY <1>2 DEF Stream!NotifyWaiters, StreamInv, CursorInv
  <2>3. QED
    BY <2>1, <2>2 DEF StreamInv
<1>3. ASSUME NEW w \in Watchers,
             Stream!Arm(w) \/ Stream!Sleep(w) \/ Stream!Wake(w) \/ Stream!HangUp(w)
      PROVE  StreamInv'
  <2>1. /\ UNCHANGED <<told, since, got>>
        /\ page' = page \/ page' = [page EXCEPT ![w] = <<>>]
        /\ spc' \in [Watchers -> {"arm", "drain", "send", "empty", "sleep", "gone"}]
        /\ spc'[w] # "send" /\ \A v \in Watchers : v # w => spc'[v] = spc[v]
    BY <1>3 DEF StreamInv, StreamType, Stream!Arm, Stream!Sleep, Stream!Wake, Stream!HangUp
  <2>2. woken' \in [Watchers -> BOOLEAN]
    BY <1>3 DEF StreamInv, StreamType, Stream!Arm, Stream!Sleep, Stream!Wake, Stream!HangUp
  <2>3. page'[w] = <<>>
    BY <1>3, <2>1 DEF StreamInv, StreamType, CursorInv, Stream!Arm, Stream!Sleep, Stream!Wake,
                      Stream!HangUp
  <2>4. page' \in [Watchers -> Seq(Rows)] /\ \A v \in Watchers : v # w => page'[v] = page[v]
    <3>1. <<>> \in Seq(Rows)
      BY EmptySeq
    <3>2. QED
      BY <2>1, <3>1 DEF StreamInv, StreamType
  <2>5. StreamType' /\ told' <= Len(feed')
    BY <2>1, <2>2, <2>4 DEF StreamInv, StreamType
  <2>6. ASSUME NEW v \in Watchers PROVE CursorInv(v)'
    <3>1. CASE v # w
      <4>1. since'[v] = since[v] /\ page'[v] = page[v] /\ got'[v] = got[v] /\ spc'[v] = spc[v]
        BY <2>1, <2>4, <3>1
      <4>2. QED
        BY <4>1, CursorStays DEF StreamInv
    <3>2. CASE v = w
      <4>1. Len(page'[w]) = 0 /\ since[w] \in Nat /\ Len(page[w]) \in Nat
        BY <2>3, EmptySeq, LenProperties DEF StreamInv, StreamType
      <4>2. since[w] + Len(page[w]) <= Len(feed)
        BY DEF StreamInv, CursorInv
      <4>3. since'[w] + Len(page'[w]) <= Len(feed')
        BY <1>1, <2>1, <4>1, <4>2
      <4>4. QED
        BY <2>1, <2>3, <3>2, <4>1, <4>3 DEF StreamInv, CursorInv
    <3>3. QED
      BY <3>1, <3>2
  <2>7. QED
    BY <2>5, <2>6 DEF StreamInv
<1>4. ASSUME NEW w \in Watchers, Stream!Drain(w) PROVE StreamInv'
  <2> DEFINE p == SubSeq(feed, since[w] + 1, IF since[w] + PageLimit < Len(feed)
                                             THEN since[w] + PageLimit ELSE Len(feed))
  <2>1. /\ since[w] \in Nat /\ page[w] = <<>> /\ since[w] <= Len(feed)
    <3>1. since[w] \in Nat /\ page[w] = <<>> /\ since[w] + Len(page[w]) <= Len(feed)
      BY <1>4 DEF Stream!Drain, StreamInv, StreamType, CursorInv
    <3>2. QED
      BY <3>1, EmptySeq
  <2>2. /\ p \in Seq(Rows) /\ since[w] + Len(p) <= Len(feed)
        /\ \A i \in 1..Len(p) : p[i] = feed[since[w] + i]
    BY <2>1, DrainPage
  <2>3. /\ UNCHANGED <<told, woken, since, got>> /\ page' = [page EXCEPT ![w] = p]
        /\ spc' = [spc EXCEPT ![w] = IF page'[w] = <<>> THEN "empty" ELSE "send"]
    BY <1>4 DEF Stream!Drain
  <2> HIDE DEF p
  <2>4. StreamType' /\ page'[w] = p
    BY <2>2, <2>3 DEF StreamInv, StreamType
  <2>5. ASSUME NEW v \in Watchers PROVE CursorInv(v)'
    BY <2>2, <2>3, <2>4 DEF StreamInv, StreamType, CursorInv
  <2>6. QED
    BY <2>3, <2>4, <2>5 DEF StreamInv
<1>5. ASSUME NEW w \in Watchers, Stream!Send(w) PROVE StreamInv'
  <2> DEFINE h == Head(page[w])
             c == since[w]
  <2>1. /\ page[w] \in Seq(Rows) /\ page[w] # <<>> /\ Len(page[w]) \in Nat /\ Len(page[w]) > 0
        /\ got[w] \in Seq(Rows) /\ c \in Nat /\ Len(got[w]) = c /\ c + Len(page[w]) <= Len(feed)
    BY <1>5, LenProperties, EmptySeq DEF Stream!Send, StreamInv, StreamType, CursorInv
  <2>2. /\ h \in Rows /\ Tail(page[w]) \in Seq(Rows) /\ Len(Tail(page[w])) = Len(page[w]) - 1
        /\ \A i \in 1..Len(Tail(page[w])) : Tail(page[w])[i] = page[w][i + 1]
    BY <2>1, HeadTailProperties
  <2>3. h = feed[c + 1]
    <3>1. 1 \in 1..Len(page[w]) /\ h = page[w][1]
      BY <2>1
    <3>2. QED
      BY <3>1 DEF StreamInv, CursorInv
  <2>4. /\ Append(got[w], h) \in Seq(Rows) /\ Len(Append(got[w], h)) = c + 1
        /\ \A i \in 1..c : Append(got[w], h)[i] = got[w][i]
        /\ Append(got[w], h)[c + 1] = h
    BY <2>1, <2>2, AppendProperties
  <2>5. /\ UNCHANGED <<told, woken>> /\ got' = [got EXCEPT ![w] = Append(got[w], h)]
        /\ since' = [since EXCEPT ![w] = c + 1]
        /\ page' = [page EXCEPT ![w] = Tail(page[w])]
        /\ spc' = [spc EXCEPT ![w] = IF Len(page[w]) = 1 THEN "arm" ELSE "send"]
    BY <1>5 DEF Stream!Send, Stream!NextCursor
  <2> HIDE DEF h, c
  <2>6. c + 1 \in Nat
    BY <2>1
  <2>7. StreamType'
    BY <2>2, <2>4, <2>5, <2>6 DEF StreamInv, StreamType
  <2>8. /\ got'[w] = Append(got[w], h) /\ since'[w] = c + 1 /\ page'[w] = Tail(page[w])
        /\ spc'[w] = IF Len(page[w]) = 1 THEN "arm" ELSE "send"
        /\ \A v \in Watchers : v # w => /\ got'[v] = got[v] /\ since'[v] = since[v]
                                        /\ page'[v] = page[v] /\ spc'[v] = spc[v]
    BY <2>5 DEF StreamInv, StreamType
  <2>9. ASSUME NEW v \in Watchers PROVE CursorInv(v)'
    <3>1. CASE v # w
      BY <2>8, <3>1, CursorStays DEF StreamInv
    <3>2. CASE v = w
      <4> DEFINE k == Len(page[w])
                 q == page'[w]
      <4>0. q \in Seq(Rows) /\ Len(q) = k - 1 /\ k \in Nat /\ k > 0 /\ q = Tail(page[w])
        BY <2>1, <2>2, <2>8
      <4> HIDE DEF k, q
      <4>1. \A i \in 1..c : got[w][i] = feed[i]
        BY DEF StreamInv, CursorInv, c
      <4>2. \A i \in 1..(c + 1) : got'[w][i] = feed[i]
        <5>1. ASSUME NEW i \in 1..(c + 1) PROVE got'[w][i] = feed[i]
          <6>1. CASE i = c + 1
            BY <2>3, <2>4, <2>8, <6>1
          <6>2. CASE i # c + 1
            <7>1. i \in 1..c
              BY <2>1, <6>2
            <7>2. QED
              BY <2>4, <2>8, <4>1, <7>1
          <6>3. QED
            BY <6>1, <6>2
        <5>2. QED
          BY <5>1
      <4>3. ASSUME NEW i \in 1..Len(page'[w]) PROVE page'[w][i] = feed[c + 1 + i]
        <5>0. i \in 1..Len(q)
          BY DEF q
        <5>1. i \in 1..Len(q) /\ i + 1 \in 1..k /\ c + (i + 1) = c + 1 + i
          BY <2>1, <4>0, <5>0
        <5>2. page[w][i + 1] = feed[c + (i + 1)]
          BY <5>1 DEF StreamInv, CursorInv, c, k
        <5>3. QED
          BY <2>2, <4>0, <5>1, <5>2 DEF q
      <4>4. c + 1 + Len(page'[w]) <= Len(feed)
        <5>1. c + 1 + (k - 1) <= Len(feed)
          <6>1. c + k <= Len(feed) /\ c \in Nat
            BY <2>1 DEF k
          <6>2. QED
            BY <1>1, <4>0, <6>1
        <5>2. QED
          BY <4>0, <5>1 DEF q
      <4>5. (spc'[w] = "send" => page'[w] # <<>>) /\ (spc'[w] # "send" => page'[w] = <<>>)
        <5>1. page'[w] = <<>> <=> Len(page[w]) = 1
          <6>1. q = <<>> <=> Len(q) = 0
            BY <4>0, EmptySeq
          <6>2. QED
            BY <4>0, <6>1 DEF q, k
        <5>2. QED
          BY <2>8, <5>1
      <4>6. QED
        BY <2>4, <2>8, <3>2, <4>2, <4>3, <4>4, <4>5 DEF CursorInv
    <3>3. QED
      BY <3>1, <3>2
  <2>10. QED
    BY <2>5, <2>7, <2>9 DEF StreamInv
<1>6. QED
  BY <1>2, <1>3, <1>4, <1>5 DEF Stream!Watch

-----------------------------------------------------------------------------
(* The theorems.                                                           *)

LiveInv == IngestInv /\ StreamInv

\* A batch that lands appends to the feed and overwrites none of it.
LEMMA LandAppends ==
  ASSUME IngestInv, \/ \E t \in DOMAIN tasks : Land(t)
                    \/ DropMember
  PROVE  /\ feed \in Seq(Rows) /\ feed' \in Seq(Rows) /\ Len(feed) <= Len(feed')
         /\ \A i \in 1..Len(feed) : feed'[i] = feed[i]
<1>1. feed \in Seq(Rows) /\ Len(feed) \in Nat /\ DOMAIN feed = 1..Len(feed)
  BY LenProperties DEF IngestInv, IngestTypeOK
<1>2. \E rows \in Seq(Rows) : feed' = feed \o rows
  <2>1. ASSUME NEW t \in DOMAIN tasks, Land(t) PROVE \E rows \in Seq(Rows) : feed' = feed \o rows
    <3> DEFINE rows == [i \in DOMAIN tasks[t].docs |-> [op |-> "upsert", id |-> tasks[t].docs[i]]]
    <3>1. tasks[t].docs \in Seq(Docs)
      BY TasksBounded, TaskAt
    <3>2. rows \in Seq(Rows)
      BY <3>1, BatchRows
    <3>3. QED
      BY <2>1, <3>2 DEF Land
  <2>2. ASSUME DropMember PROVE \E rows \in Seq(Rows) : feed' = feed \o rows
    <3>1. PICK i \in DOMAIN feed : feed' = Append(feed, [op |-> "remove", id |-> feed[i].id])
      BY <2>2 DEF DropMember
    <3> DEFINE row == [op |-> "remove", id |-> feed[i].id]
    <3>2. row \in Rows
      BY <1>1, ElementOfSeq DEF Rows
    <3>3. feed' = Append(feed, row)
      BY <3>1
    <3> HIDE DEF row
    <3>4. feed' = feed \o <<row>> /\ <<row>> \in Seq(Rows)
      BY <1>1, <3>2, <3>3, AppendIsConcat
    <3>5. QED
      BY <3>4
  <2>3. QED
    BY <2>1, <2>2
<1>3. PICK rows \in Seq(Rows) : feed' = feed \o rows
  BY <1>2
<1>4. Len(rows) \in Nat
  BY LenProperties
<1>5. /\ feed' \in Seq(Rows) /\ Len(feed') = Len(feed) + Len(rows)
      /\ \A i \in 1..(Len(feed) + Len(rows)) :
            feed'[i] = IF i <= Len(feed) THEN feed[i] ELSE rows[i - Len(feed)]
  BY <1>1, <1>3, ConcatProperties
<1>6. ASSUME NEW i \in 1..Len(feed) PROVE feed'[i] = feed[i]
  BY <1>1, <1>4, <1>5
<1>7. Len(feed) <= Len(feed')
  BY <1>1, <1>4, <1>5
<1>8. QED
  BY <1>1, <1>5, <1>6, <1>7

\* Every step of the pipeline keeps the invariant.
LEMMA StepInv == LiveInv /\ [Next]_vars => LiveInv'
<1> SUFFICES ASSUME LiveInv, [Next]_vars PROVE LiveInv'
  OBVIOUS
<1>1. IngestInv /\ StreamInv /\ feed \in Seq(Rows)
  BY DEF LiveInv, IngestInv, IngestTypeOK
<1>2. ASSUME UNCHANGED streamVars, feed' = feed PROVE StreamInv'
  BY <1>1, <1>2, FeedGrows, LenProperties
<1>3. ASSUME UNCHANGED <<feed, ingestVars>> PROVE IngestInv'
  <2>1. UNCHANGED <<feed, intake, closed, sent, mpc, open, batch, tasks, phase, stats>>
    BY <1>3 DEF ingestVars
  <2>2. /\ UNCHANGED <<Holding, Ended, Panicked, Uncounted, Upserts>>
        /\ UNCHANGED <<DocsIn(Holding \cup Ended), DocsIn(Panicked), DocsIn(Uncounted)>>
    BY <2>1 DEF Holding, Ended, Panicked, Uncounted, Upserts, DocsIn
  <2>3. QED
    BY <1>1, <2>1, <2>2 DEF IngestInv, IngestTypeOK, TaskInv, WorkerInv, LandedInv, PermitInv,
                            CountInv
<1>4. CASE (Submit \/ Finish \/ Worker) /\ UNCHANGED streamVars
  <2>1. feed' = feed
    BY <1>4 DEF Submit, Finish, Worker, Loop, HarvestReady, HarvestDone, Receive, Drained, Linger,
                Dispatch, Straggler
  <2>2. QED
    BY <1>1, <1>2, <1>4, <2>1, IngestStep DEF LiveInv
<1>5. ASSUME NEW t \in DOMAIN tasks, Land(t), UNCHANGED streamVars PROVE LiveInv'
  <2>1. StreamInv'
    BY <1>1, <1>5, LandAppends, FeedGrows
  <2>2. QED
    BY <1>1, <1>5, <2>1, IngestStep DEF LiveInv
<1>6. ASSUME NEW t \in DOMAIN tasks, Fail(t), UNCHANGED streamVars PROVE LiveInv'
  <2>1. feed' = feed
    BY <1>6 DEF Fail
  <2>2. QED
    BY <1>1, <1>2, <1>6, <2>1, IngestStep DEF LiveInv
<1>7. ASSUME NEW t \in DOMAIN tasks, Return(t), Stream!NotifyWaiters PROVE LiveInv'
  <2>1. feed' = feed
    BY <1>7 DEF Return
  <2>2. StreamInv'
    BY <1>1, <1>7, <2>1, StreamStep
  <2>3. QED
    BY <1>1, <1>7, <2>2, IngestStep DEF LiveInv
<1>8. ASSUME NEW w \in Watchers, Stream!Watch(w) \/ Stream!HangUp(w), UNCHANGED <<feed, ingestVars>>
      PROVE  LiveInv'
  <2>1. StreamInv'
    BY <1>1, <1>8, StreamStep
  <2>2. QED
    BY <1>3, <1>8, <2>1 DEF LiveInv
<1>9. CASE DropMember
  <2>1. UNCHANGED streamVars
    BY <1>9 DEF DropMember
  <2>2. StreamInv'
    BY <1>1, <1>9, <2>1, LandAppends, FeedGrows
  <2>3. QED
    BY <1>1, <1>9, <2>2, IngestStep DEF LiveInv
<1>10. CASE UNCHANGED vars
  BY <1>2, <1>3, <1>10 DEF vars, LiveInv
<1>11. QED
  BY <1>4, <1>5, <1>6, <1>7, <1>8, <1>9, <1>10 DEF Next

\* The invariant holds in every reachable state of the machine and its subscriptions.
THEOREM LiveInvariant == Spec => []LiveInv
<1>1. Init => LiveInv
  BY InitIngest, InitStream DEF Init, LiveInv
<1>2. QED
  BY <1>1, StepInv, PTL DEF Spec

\* The composition keeps its types: queue and batch within their configured sizes, no
\* cursor and no announcement past the end of the feed.
THEOREM TypeCorrect == Spec => []TypeOK
<1>1. LiveInv => TypeOK
  <2> SUFFICES ASSUME LiveInv PROVE TypeOK
    OBVIOUS
  <2>1. Len(feed) \in Nat
    BY LenProperties DEF LiveInv, IngestInv, IngestTypeOK
  <2>2. told \in 0..Len(feed)
    BY <2>1 DEF LiveInv, StreamInv, StreamType
  <2>3. ASSUME NEW w \in Watchers PROVE since[w] \in 0..Len(feed)
    <3>1. since[w] \in Nat /\ Len(page[w]) \in Nat /\ since[w] + Len(page[w]) <= Len(feed)
      BY LenProperties DEF LiveInv, StreamInv, StreamType, CursorInv
    <3>2. QED
      BY <2>1, <3>1
  <2>4. Stream!StreamTypeOK
    BY <2>2, <2>3 DEF LiveInv, StreamInv, StreamType, Stream!StreamTypeOK
  <2>5. QED
    BY <2>4 DEF TypeOK, LiveInv, IngestInv
<1>2. QED
  BY <1>1, LiveInvariant, PTL

\* Every subscriber of handle_stream has received exactly the rows up to its cursor,
\* each once and in order, whatever lands or is dropped while it drains and sends.
THEOREM StreamsInOrder == Spec => []StreamInOrder
<1>1. LiveInv => StreamInOrder
  <2> SUFFICES ASSUME LiveInv, NEW w \in Watchers
               PROVE  got[w] = SubSeq(feed, 1, since[w]) /\ Len(got[w]) = since[w]
    BY DEF StreamInOrder, Stream!StreamInOrder
  <2> DEFINE c == since[w]
             p == SubSeq(feed, 1, c)
  <2>1. /\ feed \in Seq(Rows) /\ Len(feed) \in Nat /\ c \in Nat /\ Len(page[w]) \in Nat
        /\ got[w] \in Seq(Rows) /\ Len(got[w]) = c /\ c + Len(page[w]) <= Len(feed)
        /\ \A i \in 1..c : got[w][i] = feed[i]
    BY LenProperties DEF LiveInv, IngestInv, IngestTypeOK, StreamInv, StreamType, CursorInv
  <2> HIDE DEF c
  <2>2. \A i \in 1..c : feed[i] \in Rows
    <3>1. ASSUME NEW i \in 1..c PROVE feed[i] \in Rows
      <4>1. i \in 1..Len(feed)
        BY <2>1
      <4>2. QED
        BY <2>1, <4>1, ElementOfSeq
    <3>2. QED
      BY <3>1
  <2>3. /\ p \in Seq(Rows) /\ Len(p) = IF 1 <= c THEN c - 1 + 1 ELSE 0
        /\ \A i \in 1..(c - 1 + 1) : p[i] = feed[1 + i - 1]
    <3>1. 1 \in Int /\ c \in Int
      BY <2>1
    <3>2. QED
      BY <2>2, <3>1, SubSeqProperties
  <2>4. Len(p) = c /\ \A i \in 1..c : p[i] = feed[i]
    BY <2>1, <2>3
  <2>5. got[w] = p
    <3> HIDE DEF p
    <3>1. /\ got[w] \in Seq(Rows) /\ p \in Seq(Rows) /\ Len(got[w]) = Len(p)
          /\ \A i \in 1..Len(got[w]) : got[w][i] = p[i]
      BY <2>1, <2>3, <2>4
    <3>2. QED
      BY <3>1, SeqEqual
  <2>6. QED
    BY <2>1, <2>5 DEF c
<1>2. QED
  BY <1>1, LiveInvariant, PTL

\* Every document that submit accepted is in the intake, in the batch, in flight or
\* counted by harvest, and the indexed count of a finished machine is what landed.
THEOREM EveryDocCounted == Spec => []Accounted
<1>1. LiveInv => Accounted
  <2> SUFFICES ASSUME LiveInv PROVE Accounted
    OBVIOUS
  <2>1. CountInv /\ WorkerInv /\ LandedInv /\ stats.indexed \in Nat
    BY DEF LiveInv, IngestInv, IngestTypeOK
  <2>2. ASSUME phase = "indexed"
        PROVE  /\ intake = <<>> /\ batch = <<>> /\ Holding \cup Ended = {}
               /\ stats.indexed = Upserts
    <3>1. intake = <<>> /\ batch = <<>> /\ Holding \cup Ended = {}
      BY <2>1, <2>2 DEF WorkerInv
    <3>2. Uncounted = {}
      BY <3>1 DEF Uncounted, Holding, Ended
    <3>3. DocsIn(Uncounted) = 0
      BY <3>2, CountNone DEF DocsIn, CountIn
    <3>4. QED
      BY <2>1, <3>1, <3>3 DEF LandedInv
  <2>3. QED
    BY <2>1, <2>2 DEF Accounted, CountInv
<1>2. QED
  BY <1>1, LiveInvariant, PTL

\* The machine holds at most a full intake, one batch and concurrency batches in
\* flight, however fast documents are submitted.
THEOREM MemoryBounded == Spec => []MemoryFlat
<1>1. LiveInv => MemoryFlat
  <2> SUFFICES ASSUME LiveInv PROVE MemoryFlat
    OBVIOUS
  <2>1. /\ Len(intake) \in Nat /\ Len(batch) \in Nat
        /\ Len(intake) <= QueueDepth /\ Len(batch) <= BatchSize
    BY LenProperties DEF LiveInv, IngestInv, IngestTypeOK
  <2>2. Len(intake) + Len(batch) <= QueueDepth + BatchSize
    BY <2>1, Sizes
  <2>3. /\ IsFiniteSet(Holding) /\ CountIn(tasks, Holding) \in Nat
        /\ CountIn(tasks, Holding) <= Cardinality(Holding) * BatchSize
    BY TasksBounded, CountFinite DEF LiveInv
  <2>4. Cardinality(Holding) \in Nat /\ Cardinality(Holding) <= Concurrency
    BY <2>3, FS_CardinalityType DEF LiveInv, IngestInv, PermitInv
  <2>5. \A a, b, c \in Nat : a <= b => a * c <= c * b
    OBVIOUS
  <2>6. Cardinality(Holding) * BatchSize <= BatchSize * Concurrency
    BY <2>4, <2>5, Sizes
  <2>7. CountIn(tasks, Holding) <= BatchSize * Concurrency
    BY <2>3, <2>4, <2>6, Sizes
  <2>8. QED
    BY <2>2, <2>7 DEF MemoryFlat, DocsIn, CountIn
<1>2. QED
  BY <1>1, LiveInvariant, PTL
=============================================================================
