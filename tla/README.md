# A TLA+ model of RRO

RRO is a Rust retrieval engine: a durable *estate* of documents, vectors and
indexes (`connxism`), an in-memory ANN graph derived from it (`recall`), and a
node around it (`rro-engine`) that ingests, serves, streams changes and
replicates; connectors pull documents from outside sources. This directory holds
TLA+ modules that model the stateful core of it and the path of a request through
it, TLC configurations that check them on small instances, and TLAPS proofs of
what matters most for instances of every size.

To check: `tlc -config <cfg> <MC module>` for a run of the table below, and
`tlapm <module>` for each of `OrderLemmas`, `GraphApplyProofs`,
`GraphProofs`, `EstateTxProofs`, `ReplicationProofs`, `LivePipelineProofs`,
`ConnectorSyncProofs` and `RequestPathProofs` for the proofs.
`PROJECT.json` maps every definition to the lines it models.

## The system

| component | state it keeps | operations | what is hard |
|---|---|---|---|
| pending graph writes (`connxism/pending.rs`, `txn.rs`) | queue, `latest`, `inflight`, the stop flag | push, overlay, collect, apply, finish, quiesce, stop | a write is visible in exactly one of three places while a thread moves it; two locks and two condition variables; back-pressure |
| recall store (`connxism/store.rs`) | documents, vectors, index rows, counters, census, document frequencies, changefeed | upsert, remove, transaction, payload changes, search | one mutex per *handle*; counters threaded through a batch; old versions read from the store |
| estate (`connxism/estate.rs`) | the database, collections, indexes, the persisted graph and its vector file | open, persist, compact, drop a collection, build an index, read the feed | maintenance that takes no mutex; two artefacts that must match after a crash |
| key-value backend (`connxism/kv`) | keyspaces | atomic batch write | df deltas are read-modify-write at commit |
| ANN graph (`recall/ann.rs`) | nodes, tombstones, paged vectors | insert, remove, search, (de)serialise | a node list that only grows, paged from a file written earlier |
| cluster, replica (`rro-engine/cluster.rs`, `replica.rs`) | cursors reported by followers, quorum waiters; a follower's cursor | observe, await_quorum, elect; poll and apply | the poll is the acknowledgement; entries are resolved late; crashes and elections |
| ingestion machine (`rro-engine/ingest.rs`) | intake, batch, tasks, counters, phase | submit, finish, the worker's loop | back-pressure, panics, drain at shutdown |
| change stream (`rro-engine/handler.rs`) | per subscription: cursor and wake-up | watch, live | lost wake-ups between drain and sleep |
| connectors | the saved cursor and status | sync, pull | interruption at any step, overlapping passes |
| query plane (`connxism/query.rs`, `filter.rs`, `strategies.rs`; `rro-core/query.rs`) | one query's candidates; a scroll's cursor | query, grouped, recommend, discover, facet, count, scroll | every stage reads the estate at another moment; the index and the post-filter compare values differently; how deep to rank |
| request handler, doors, authorisation (`rro-engine/handler.rs`, `auth.rs`, `sql.rs`, `graphql.rs`, `http.rs`; `rro-net`, `rro-client`) | per connection: the request in hand, its plan | every verb, over TCP, HTTP and in process | the write surface is spread over verbs and two languages; partial writes; what an error means |
| flow (`rro-engine/flow.rs`, `rro-core/turn.rs`) | the turn counter, the event stream | ask | turns interleave and break off at any stage |
| rrd | registry, plan cache, baseline with decay, the saved snapshot | distill, snapshot, restore | several locks taken one after the other; weights on a moving scale; restarts |
| models (`embedder`, `reranker`, `classifier`, `model-registry`) | the built backend | build, embed, rerank, classify | answers out of order, short, of another dimension, in chunks, padded |
| lexical ranking, `rro-ql` parser, quantizers, connectome, ops | none | pure functions, text, floating point, I/O | see "Not modelled" |

Writers call the store, which commits a batch and then announces its vector
operations to the pending set; the applier drains it into the graph; a search
reads the graph and lays the pending set over it. Each commit also appends
changefeed rows: subscribers stream them, followers pull them, and the sequence
number tags the persisted graph. The ingestion machine and the connectors are
writers. A request comes through a door, is authorised and dispatched by the
handler, and ends in a transaction, in the query plane, or in a turn of the flow,
which asks rrd, the models and the recall store in that order. The query plane
fuses the rankings that the graph and the indexes give it.

## The modules

* **VectorOps** - operation lists and what a batch does to a map of vectors.
* **VectorView** - the abstract specification of the vector store: a commit
  changes the durable map, and its operations become visible to searches later,
  one by one.
* **GraphApply** - transactions, `drop_collection`, the pending set, the applier
  thread, searches and shutdown. `queue`, `latest`, `inflight`, `stopped` are the
  fields of `pending.rs` `State`; the applier is a program counter (`collect`,
  `apply`, `finish`, `gone`); a writer stages (`Begin`), writes (`Commit`) and
  announces one operation at a time (`Push`, which waits at the cap); a reader
  holds the graph lock between `SearchGraph` and `SearchOverlay`. Implements
  VectorView.
* **KeyOrder** - the order in which a scan of the backend returns its keys, what is
  left of a list when places are passed over, a set listed in an order of its own,
  and the stable sort of a list by a key.
* **GraphCache** - the graph as a node list, `persist_graph`, `compact_graph`,
  the sidecar, the tagged blob, crash, clean shutdown, load or rebuild.
* **EstateTx** - a transaction as a list of *edits* (old version, new version)
  and what its commit does to documents, index rows, counters, census, document
  frequencies and feed; collection drops and payload-index builds.
* **Replication** - a leader, its followers, quorum acknowledgement, follower
  restarts, the leader's death, `elect`, and the survivors following the winner.
* **IngestMachine**, **ChangeStream**, and **LivePipeline**, which composes them:
  the machine's upserts append to the feed that subscriptions stream, while
  `drop_collection` appends rows and wakes nobody.
* **ConnectorSync** - one connector, its source, and passes of `sync`.
* **Filters** - the filter language on metadata, and its other evaluation on the
  sorted rows of the payload index: a value is its canonical key and its
  *spelling*, which only JSON equality sees.
* **QueryPlane** - a query as the sequence of its stages (`Submit`, `Prefetch`,
  `ResolveScope`, `ResolveFilter`, `Search`, `FuseSparse`, `Rescore`,
  `PostFilter`, `Page`, then `Group`, `Recommend` or `Discover`), with writes
  between any two; fusion with integer votes in 1/`FusionScale`.
* **Scroll** - `scroll_page`, a client that pages with it, and the documents that
  are created and removed between two pages.
* **AnnGraph** - the graph itself, the part GraphCache abstracts to a node list:
  levels, greedy descent, beam, `select_diverse`, `prune`, tombstones, the vector
  store from warm-up over training to pages, `Reopen`. A vector is a point of a
  grid, the random level a choice, and a quantizer a coarser point. The loops of the
  code are functions of their round: a descent, a beam, a selection and the linking of
  an insert are what the last round holds.
* **Doorway** - connections, authorisation, and a *plan* per verb: the fallible
  calls and commits the handler makes, in their order. A connection's task goes
  through its plan a step at a time while others run; each step may fail where
  the code has a `?`. `log` holds, per connection and request, what of the request
  reached the estate, in order. A streaming verb occupies its connection.
* **Rrd**, **AskFlow** - `distill_stamped` as gate, registry, baseline and plan
  cache, each under its own lock; one turn of `ask_with` around it, extended with
  the stages up to the answer, and the restart of the process.
* **ModelEdge** - building a backend from its configuration, and a call of it:
  chunks, the server's reply (rows in any order, one missing, one twice, or none
  at all), parsing, the local batch with its padding and mask.
* **GraphApplyProofs** (with the lemmas on VectorOps), **EstateTxProofs**,
  **ReplicationProofs**, **LivePipelineProofs**, **ConnectorSyncProofs** - theorems and
  proofs, each about the module it is named after. **GraphProofs** - the same for
  GraphCache and AnnGraph, **RequestPathProofs** for Doorway, AskFlow, Scroll, ModelEdge and
  QueryPlane with Filters. **OrderLemmas** - what several of them need of numbers and of sorting.
* **MC\*** - instances for TLC. **MCRequestPath** has the last eight
  modules as *stages* of a request's path, one per behaviour. Inside one request
  the stages share values, not state; each is checked against everything its
  neighbours could hand it (any ranking of the instance, any reply, any verdict).
  It extends them all; the distil stage has an instance of Rrd of its own.

Data is abstracted to what the properties tell apart. An embedding or a record
is a model value; a document of EstateTx is one indexed field, one term and a
collection. Lexical statistics are taken as switched on; `total_tokens` follows
`doc_count` and is left out. Sparse, named and multi-vector rows are written and
retracted exactly like the rows that are modelled. A refusal for dimension,
schema or key length is an `Abort`: the collections the call names are registered
(they are not part of the batch), nothing else lands. Promotion after an election
is not wired up in the repository; `Promote` composes it, as the failover test
does, from `elect`, `Replica::new` and the `replicate` verb. A subscription
starts with the estate, at cursor 0.

## The runs

| run | states | shows |
|---|---|---|
| `graph_apply` | 2.6 M | two writers on one handle, one reader, cap 1, batch 1: `ReadYourWrites`, `QuiescedIsExact`, `NoStrandedOp` |
| `graph_apply_live` | 0.18 M | two handles, one writer drops collections: `EventuallyDrained`, `WritesReturn`, and the refinement `ImplementsView` |
| `graph_cache` | 1.8 M | `CacheNeverWrong`, `RestartLoads` over commits, persists, compactions, restarts |
| `graph_cache_tag` | violation | `CacheNeverWrong` when a commit is between its batch and its announcement |
| `estate_tx` | 0.15 M | `CountersExact`, `IndexExact`, `FeedTellsAll`, `MembersListed`, `OpsApplyInOrder`, `OutsidersUntouched` |
| `estate_handles` | violation | `CountersExact` with two handles |
| `replication` | 2.0 M | `CursorMeansHeld`, `AckedIsHeld`, `ElectedHoldsAcked`, `Convergent`; two followers, three writes, a restart |
| `replication_live` | one follower, restarts from 0 | `CatchesUp`, `WaitsEnd` |
| `replication_skip` | violation | `NoAckedWriteLost` |
| `live_pipeline` | 0.24 M | `Accounted`, `MemoryFlat`, `Drains`, `StreamInOrder`, `Delivered` |
| `connector_sync` | 0.15 M | `NoGaps`, `PassIsComplete`, `PassEnds` |
| `request_path` | 0.6 M | `WritesAuthorized`, `RepliesAreTrue` (door); `TurnReadableInProcess` (ask); `MassAlwaysConserved` (distil); `AnswersBelong` (models); `IndexAgrees`, `PageWasTrue`, `PageFull` (query); `ScrollComplete` (scroll); `GraphSound`, `SearchExact` (graph) |

What the properties of `request_path` say:

* `WritesAuthorized`: a write in the estate was asked for with a token that may
  write there, at the time the request was accepted, by whichever verb, SQL
  statement, GraphQL document or door.
* `RepliesAreTrue`: replies come in order, one each; success, and
  `committed_local`, mean the whole write is there in the order asked; a refusal
  means nothing is; a `tx` is whole or absent even when its reply is lost. GraphQL
  mutations are not held to it: they are applied field by field.
* `TurnReadableInProcess`: the signals that carry a turn id are a prefix of one
  pass. `MassAlwaysConserved`: the global distribution is the sum of the contexts'
  (`MassConserved` of Rrd).
* `AnswersBelong`: each text gets its own vector or score, or the call fails.
* `IndexAgrees`: the index scans and the metadata select the same documents, up
  to spelling, and so do facets. `PageWasTrue`: what is on a page matched at some
  moment of the query. `PageFull`: an undisturbed indexed filter fills its page.
  `ScrollComplete`: no document twice, none missed that stayed.
* `GraphSound`: layers, lists, entry, tombstones and stored vectors agree.
  `SearchExact`: a beam as wide as the living nodes finds the nearest of those
  that layer 0 leads to; a narrower one returns distinct living ids in order. That
  every living node can be reached is *not* claimed: pruning removes one
  direction of a link, and an outlier may lose all that lead to it.

Every property of a passing run has a mutant in `PROJECT.json`: a definition
changed the way a bug would change it, under which TLC finds the property
violated.

**Bounds.** Two ids and two values let an operation be overtaken by one on the
same id and by one on another. Cap 1 and batch 1 make back-pressure and repeated
queue entries happen at once; the live run uses 2 and 2, so that a batch holds
two operations. Three transactions are enough for one in the graph, one in flight
and one in `latest`. Replication needs three writes (set, overwrite, remove) for
an entry to be superseded, and two followers for a majority that excludes one.
The ingestion run has three documents for a batch of two, so a batch fills, one
lingers and the drain finds a rest. The connector run has a batch that is blocked
as a whole, a batch that is let through, and one that is cut in half. In
`request_path` the door has two connections, one TCP and one HTTP, 17 requests of
which two are sent, and four kinds of node (roles with a namespace as a leader,
roles of another namespace, a shared secret, open without an estate); one tick of
the clock makes a token expire between two steps. The query stage has three
documents, eleven requests that between them take every branch, and one write at
any moment; an over-fetch of 2 and an exact limit of 2 put the boundaries inside
the corpus. The scroll stage has four keys, limits 0 and 2 and three commits, so that
a document can go, come back before the cursor and another appear behind it. The graph stage uses M = 2, so that lists overflow at the fifth node,
two levels, a codebook trained at the third vector and pages of two, so that
warm-up, base and tail all occur, one removal and one reopening. Three texts in
chunks of two give a full and a short chunk. Four observations with growth 2 and
a rescale at 2 make rescaling and a restore happen. Every
`Max...` constant is such a bound and stands in a guard. `CHECK_DEADLOCK FALSE` is
set where the bounded calls run out or everyone rightly sleeps: `estate_tx`,
`graph_cache`, `live_pipeline`, `connector_sync`, `request_path`, and
`replication_live`, where the only follower may become the leader.

**Fairness.** GraphApply: the applier thread, the writers' pushes and the readers
are scheduled; taking the graph lock is strongly fair, because the lock does not
admit readers for ever past a waiting writer. IngestMachine: the worker, its
timer and the batch tasks run; `Receive` and `Drained` are strongly fair, because
`tokio::select!` picks at random among ready branches. ChangeStream: a
subscription task runs. Replication: followers poll and apply, a waiter that sees
its quorum returns; no timer is assumed. ConnectorSync: a running pass goes on.
Failures, crashes, new writes and new passes are never fair.

## Where the code and its comments disagree

Three runs check what a comment promises and find it broken.

1. `estate_handles`: `Estate::recall()` creates the writer mutex anew for each
   handle, and the `tx` verb makes a handle per request. Two transactions
   interleave and one commit's counters and feed rows overwrite the other's.
2. `graph_cache_tag`: `persist_graph` checks backlog and `feed_seq`, but a commit
   moves `feed_seq` before it queues anything.
3. `replication_skip`: a superseded upsert is skipped, the cursor moves past it,
   and the next poll counts as an acknowledgement of it.

Further races sit behind constants that the passing runs set to the safe value;
setting one shows the failure it names.

| constant | what it allows | property that then fails |
|---|---|---|
| GraphApply `HandleOf <- OwnHandles` | two handles: operations are queued in another order than committed | `ReadYourWrites`, `QuiescedIsExact` |
| GraphApply `Droppers` with a second writer | the second `push_remove` of `drop_collection` after a newer upsert | `QuiescedIsExact` |
| GraphCache `WriteAtSwap` | a write between compaction's check and swap | `CacheNeverWrong` |
| GraphCache `SkewedCrash` | a crash inside `persist_graph` after a compaction: new vectors, old blob, equal length | `CacheNeverWrong` |
| EstateTx `RepeatIds` | one id twice in a transaction | `OpsApplyInOrder`, `CountersExact` |
| EstateTx `DropRaces` | writers during `drop_collection` | `OutsidersUntouched` |
| EstateTx `BuildRaces` | writers during an index build | `IndexExact` |
| Replication `FromZero` with two followers | a follower restarted at 0 takes part in an election | `ElectedHoldsAcked` |
| ConnectorSync `OutOfOrder` | a new file that sorts before the saved cursor | `NoGaps`, `PassIsComplete` |

`MCRequestPath` also has four formulas, its own, AskFlow's or QueryPlane's, that
comments promise and no run lists; adding one as an INVARIANT to its configuration shows the
counterexample.

| formula | promised at | what the code does |
|---|---|---|
| `RecencyAlwaysWeighted` | `rrd/src/baseline.rs:22` | a snapshot does not carry the increment unit and `restore` starts it at 1, so after a restart the old weights outweigh new observations until the unit has grown back |
| `TurnReadable` | `rro-core/src/turn.rs` | ids start again at 1 with the process, while the stream's file is appended to |
| `HonestScorecard` | `rro-engine/src/flow.rs:156` | the speculation of a turn is read after the turn's own observation was folded in |
| `ScopedPageFull` | `connxism/src/query.rs:9` | inside a scope or a collection an indexed filter becomes a post-filter over a fixed over-fetch, and the page may be short |

More, seen while modelling. The store: `transaction` does not consult `max_docs`;
after a failover a survivor keeps records that the new leader's feed never
removes, which is why `Convergent` asks less after an election. The door:
`create_alias`, `delete_alias` and `define_field` read, change and write a whole
map without a lock, so one of two acknowledged changes is lost; an error of a
handler drops a TCP connection without a reply while HTTP answers with an error
body; `index` and a quorum `tx` read the estate after their commit and may answer
an error for a write that is there; `Client::graphql` returns `Ok` for a document
whose mutations failed half-way; requests sent behind `watch` wait for its end. The
query plane: `using` is ignored when a filter, a scope or a collection is given; a
scoped search ignores the fusion mode; `scroll` with limit 0 returns one document;
a filter of `must_not` alone lets a document through that is removed in the
middle of the query.

## What is proved

For all sets of ids, values, writers, followers, connections and so on, and for
all bounds, from the named `ASSUME`s of the modules only: finite sets of ids,
special values that are no ordinary ones, positive sizes, flags that are Booleans.
TLC evaluates each of them in the runs. Where a theorem needs one of the
conditions that the tables above show to be needed, it says so as a hypothesis.

An invariant of the runs is seldom inductive. Each module first proves an
invariant that is, one lemma per action, and derives the runs' properties from it.

**GraphApplyProofs.**

* `TypeCorrect`: `Spec => []TypeOK`.
* `PipelineSound`: `Spec => [](NoStrandedOp /\ PhaseInv /\ LockInv)`. `PipeInv`
  is inductive: `NoStrandedOp` alone is not, since `Finish` clears `inflight` and
  needs to know that what it clears is in the graph (`PhaseInv`); `LockInv` says
  that a reader with the lock sees the graph it has searched.
* `RefinesView`: GraphApply implements VectorView. The mapping reveals an
  operation when it is pushed, so every step of the applier must be a stutter:
  moving an operation from `latest` through `inflight` into the graph changes
  nothing a search can see.
* `ReadsOwnWrites`, `QuiesceExact`: under `Serialised` (one handle, and a
  dropper only if it is the only writer), the overlay equals the durable vectors
  except for a writer's own unpushed rest. `ExactInv` is the strengthening: what
  the overlay shows, plus the operations still to be pushed, is the durable map.
  `AloneInv` and `DropInv` carry the mutex and the second removal through it.

**GraphProofs**, about GraphCache under `Shut`: `WriteAtTag`, `WriteAtSwap` and `SkewedCrash`
are off.

* `CacheIsTrue` (`CacheNeverWrong`), `PersistPaysOff` (`RestartLoads`) and
  `TypeCorrect`, all from `CacheInvariant`. What is served depends on what a
  restart would load, so the heart of `CacheInv` is `PairInv`: a blob whose tag is
  the live sequence and the sidecar next to it make up a graph of exactly the
  durable vectors. The two are written in two steps, so `PersistInv` says the same
  of what a persist has captured and what it has flushed. `SideInv` covers a
  graph opened from a sidecar that a persist does not rewrite, `CompactInv` the
  fresh graph before its swap, and `QueueInv` that one operation per id is pending.

**GraphProofs**, about AnnGraph. The assumptions are the types of its constants:
natural sizes (`AnnSizes`, a page of at least one), vectors that are points
(`SetupsFormed`, `ProbesFormed`).

* `GraphAlwaysSound` (`GraphSound`), from `AnnInv`. The links are the hard part: an
  insert links node and neighbours layer by layer, prunes some of the lists on the way
  and reads the graph in between. `WellLinked` says what holds between inserts;
  `Building` and `LinkInv` say what holds inside one: the node under way has links in
  the layers above only, is named by no list below, and so no beam returns it before
  it is linked. That a beam returns distinct nodes of its layer, that
  `select_diverse` chooses at most M of them and each once, and that a list is never
  more than one too long before it is pruned are lemmas. `Holds` says of the store
  that every node reads as its own vector or its code, whichever of warm-up, base
  and tail it is in; training, sealing and paging each carry it over.
* `SearchAlwaysExact` (`SearchExact`), from the same invariant. All that a beam may
  return, or for a narrow one anything at all, *settles* it (`Settles`): nothing it
  meets later takes that away, and it neither evicts nor ends before it is settled.
  Until then it has found all that it has seen of `admit`, and each of its rounds leaves
  one more node behind (`Round`), all of whose neighbours it has seen; there are as many
  rounds as nodes. So at the end it has seen what its layer leads to (`BeamFinds`). A
  search as wide as the living nodes is settled only by all of them, and so is a
  filtered one, which a filter of one or two ids widens to the whole graph
  (`WidensEnough`).

**EstateTxProofs**, under `Calm`: one handle, no id twice in a call, and drops
and builds that keep out of the writers' way.

* `CountsAreExact`, `RowsAreExact`, `FeedIsTrue`, `NamesAreListed` (the four
  invariants of `estate_tx`) and the action properties `CallsInOrder`,
  `DropsSpare`, all from `EstateInvariant`. A call reads the store, stages its
  edits and its counters, and writes them later, so `EstateInv` must say that
  what was read is still there: `StoreInv` is what the store promises between two
  batches, `SoloInv` who may be at work with whom, `TxInv` that every staged batch
  is one of the store as it is, `DropInv` that what a drop has still to remove is
  what is left of the collection, `BuildInv` that a build replaces every field row.
* The counters are threaded through a batch edit by edit. That the last value is
  the count of the documents after the whole batch is shown by following the
  store through the same edits: after the first `n` of them the counter counts the
  documents of a store to which `n` of them were applied. This is where `~RepeatIds`
  is needed: an edit's old version is read from the store, not from the batch, and
  is right only for the first edit of an id.

**ReplicationProofs.**

* `CursorsMeanHeld`, `ReplayConverges`, `TypeCorrect`, from `ReplInvariant`,
  without conditions. `AckedStaysHeld`, `ElectedIsComplete` for `~FromZero`.
  `HistoryInv` ties every prefix of the feed to the records it was the feed of;
  its last part makes it safe to skip a superseded upsert: the removal is further
  down. `PolledInv` and `ResolvedInv` say that a batch in hand is still what
  follows the cursor, `AckInv` that an acknowledged write has a quorum of
  reported cursors behind it, and `OwnFeedInv` what a follower's own feed, written
  while it skipped and repeated entries of another, must say for it to lead later.
  `ElectedIsComplete` is the usual quorum argument: a quorum has a member whose
  cursor the winner's is not below.

**LivePipelineProofs.**

* `EveryDocCounted` (`Accounted`), `MemoryBounded` (`MemoryFlat`),
  `StreamsInOrder` (`StreamInOrder`) and `TypeCorrect`, from `LiveInvariant`, the
  conjunction of `IngestInv` and `StreamInv`, which meet in the feed. `LandedInv`
  counts the rows that are in the feed before harvest has seen their task,
  `PermitInv` and `TaskInv` bound what is in flight, and `WorkerInv` says that the
  worker drains only behind a closed, empty intake. Numbers of documents are
  cardinalities of sets of (task, position) pairs, so that no sum over tasks is
  needed.

**ConnectorSyncProofs**, under `~OutOfOrder`.

* `CursorLeavesNoGap` (`NoGaps`), `PassesComplete` (`PassIsComplete`), from
  `SyncInvariant`: the source is a prefix of the positions, every cursor, saved or
  held by a pass, is one to resume from without missing anything (`Safe`), the
  batch in hand reaches from there to the next cursor, and what of it has left the
  work list is durable, related and tagged.

**RequestPathProofs**, about Doorway. What is assumed of nodes is that a gate is of
one of the three kinds there are; of requests (`RequestsFormed`), that a role is one
of three, that only a verb with operations among its arguments carries any, and that
a transaction cannot name a whole collection to drop.

* `EveryWriteAuthorized` (`WritesAuthorized`), from `DoorInvariant`. The handler
  authorises a verb before it looks into it, and the verbs `sql` and `graphql`,
  open to readers, carry languages that write. So `DoorInv` is about the plan in
  hand (`PlanHeld`): none of its steps writes, or the token of the request it was
  made for let its bearer write when it was accepted. `AcceptedPlan` establishes
  it verb by verb from `min_role`, `sql_plan` and `graphql_plan`; `InHand` and
  `LogRefers` keep the number of a request pointing at the same request while
  more are sent.
* `EveryReplyTrue` (`RepliesAreTrue`). A reply speaks of writes done steps earlier,
  so `RepliesAreTrue` says nothing of the moments that decide it. The invariant,
  with `DoorInv`, is `TruthInv`, of each connection: of the request in hand
  (`WorkTrue`), the log is a beginning of what was asked, and the plan left leads on
  from there: its commits append the next operations, a success stands only where
  all are in, a refusal only where none is, and in a write of one commit nothing
  that can refuse comes after it; of the requests not taken up (`RestTrue`), nothing
  is in the log; of those replied to (`PastTrue`), the reply and the log agree. The
  plans are shown to have this property verb by verb, for operation lists of any
  length (a drop and a GraphQL document have as many commits as they need, a `tx`
  has one).

**RequestPathProofs**, about AskFlow.

* `EveryTurnReadable` (`TurnReadableInProcess`), assuming that `MaxTurns` is a
  number. A turn's signals are appended stage by stage, between those of other
  callers, so `FlowInv` says of each pass under way that its turn was minted and has
  heard exactly the signals its stage has sent (`TurnOfPass`); that no two passes
  share a turn (`OwnTurns`), which is what the atomic counter gives and a restart
  takes away; and that a turn not yet minted is silent (`TurnsBegin`).

**RequestPathProofs**, about Scroll, from `DocKeysAssumption` (a finite set of
numbers) and `PageLimitsAssumption`.

* `EveryScrollComplete` (`ScrollComplete`). Which documents a page reads depends on
  what other clients did since the page before, so `ScrollInv` relates three moments:
  what is listed so far ascends to the cursor; every document that has stayed since
  the scroll began and is not after the cursor is listed; and one that stayed is
  stored now. `PageReads` says of a single page that it is the beginning of what is
  ahead, without a gap, and empty only if nothing is; a commit may remove the
  cursor's own document and disturbs none of it.

**RequestPathProofs**, about ModelEdge, from `SizesAssumption`: a request takes at
least one text, a model has a window and every text a token, scores are numbers.

* `EveryAnswerBelongs` (`AnswersBelong`), from `EdgeInv`: a call under way holds the
  vectors of its first texts, one for one (`Sending`), and every row of the reply in
  hand says by its index which text of the next chunk it is of; if there are as many
  rows as texts, no index is missing (`Sent`). `AnswerSent` shows this of whatever a
  server sends, `LocalSent` of the two in-process embedders; for the candle batch
  that is an argument about padding, mask and pooling (`PooledOwn`): the last column
  is the text's EOS, sees no padding and no other text, whatever the lengths.
  `EmbeddingsParsed` and `RerankParsed` put the rows back, `RankedBelongs` shows that
  ranking keeps each candidate once.

**RequestPathProofs**, about QueryPlane with Filters, from `ValuesAssumption` and
`QueriesAssumption`: a stored value is of one of the types of `keys.rs` (strings and
booleans have one spelling, a place lies on the grid), and the filters asked are made
of the conditions of `query.rs`. Any number of documents, values, queries, conditions
and bounds; the grid stays 4 by 4. For the two theorems about pages also
`IdsAssumption` (ids are finitely many and ordered), `ScoresAssumption` (every ranking
scores every id, overfetch factors are positive) and the rest of `IsQuery`: sizes are
numbers, a scope is a set of ids, and the strategies that start from examples carry
neither filter nor scope, as in the code.

* `IndexAlwaysAgrees` (`IndexAgrees`). The metadata evaluation compares values; the
  index compares encoded keys and stops a scan at the first key past its bound.
  `DocsFormed`, that every stored field is well formed, is kept by every write. From it
  `EncodesOnce`: two values have one key exactly if they are equal up to spelling, for
  which a place needs `MortonOrders` (interleaving is injective and monotone in both
  coordinates). `ScanValue`, `ScanRange` and `ScanGeo` give the rows of one scan,
  half-open bounds and clamped boxes included; a radius is searched through its box,
  which contains the circle (`CircleInBox`), and checked exactly afterwards.
  `ConditionAgrees` goes through the conditions, `FilterAgrees` through `must`, `should`
  and `must_not` (an empty `should` demands nothing), and `FacetAgrees`
  counts groups of rows against groups of documents.
* `EveryPageTrue` (`PageWasTrue`), from `QueryInv`. A query awaits between its stages, and
  documents are written, replaced and removed at each await, so the page cannot be
  compared with one estate: `seen` collects the versions each document had since the
  query began. `QueryInv` is a statement per stage (`StageInv`): the scope found stays
  inside the one asked for while it is resolved; from then on everything allowed is
  inside the request's bounds and, if it came from the index, matched when the index
  was read (`Narrowed`); the candidates stay inside what is allowed up to the filter,
  and after it each of them belongs on the page (`Belonging`). Throughout, a list
  names an id once (`Listing`) and a payload it carries is one its document has had
  (`Backed`). What ranking, fusing, rescoring, cutting, grouping and refilling do to
  these two is a lemma each; leaving out and reordering are one relation (`From`).
  An unresolvable filter is decided on the payload the hit carries, or on
  empty metadata of a document that has gone; both are in `seen`.
* `EveryPageFull` (`PageFull`), from `QueryFull`, which adds `FullInv` to `QueryInv`.
  Undisturbed, for a resolvable filter with an allowed set of exact size: the allowed
  set *is* the set the request is about (from `FilterAgrees`), and every list has at
  least `Want` candidates or all that are allowed (`Enough`). Searching the set
  exactly gives that; fusing with the sparse list only adds ids if the first list has
  a say, MaxSim keeps every id, and the filter, already resolved, drops none. The page
  is then cut from enough. For `recommend` it is a count: the nearest
  `top_k` and as many as there are examples, less the examples.

**OrderLemmas** stands in for the induction theorems of the library, whose
operator parameters the provers cannot instantiate: the least-element principle
from well-foundedness, induction on a *set* of numbers, the existence of a value
threaded through any number of steps (which gives the recursive functions of
EstateTx and `FlattenSeq` their values), that in an order of a finite set every rank
is taken once (`RanksOnce`), and from it that a scan in key order reads each key
once, ascending, that a stable sort moves every place once, that arranging a set lists
each member once (`ArrangesEachOnce`), and that a list thinned out keeps the order of
its places (`KeepsPlaces`).

**Only model-checked.** All liveness: `EventuallyDrained`, `WritesReturn`,
`CatchesUp`, `WaitsEnd`, `Drains`, `Delivered`, `PassEnds` (the prover handles
neither fairness nor `ENABLED`), and one invariant, `MassAlwaysConserved`: the weights of
the model are integers where the code has floats, and `rescale` divides. The sums agree
only where the division leaves no rest, which the run's `Scale` and `Growth` see to; for
other values the formula is false of the model and says nothing of the code.

## Not modelled, and why

Scores and search quality (floating point): BM25, the pruned lexical scorer,
cosine routing of tags and the quantizers' arithmetic. A ranking is a constant of
QueryPlane, a code a coarser point in AnnGraph. The analyzer, the SQL and GraphQL
parsers and the JSON envelope (text): Doorway starts from the operations a
document holds. Inference and downloads (numeric, I/O): ModelEdge starts from what
comes back. Sockets and framing. The evaluation and benchmark binaries, which
measure the system and are not part of it. `Lease` is called by no write path and
`SessionTrigger` by no path at all. Cancelling a caller's future, which releases
the writer mutex while the transaction still runs, has the effect of a second
handle, which `estate_handles` shows. Torn reads in `replication_batch`, the loss
of a follower's disk and the pruning of the feed are left out.

## Plan

1. Done: GraphApply with its view and proofs, GraphCache, EstateTx, Replication,
   LivePipeline, ConnectorSync; the request path: Doorway, AskFlow with Rrd,
   ModelEdge, QueryPlane with Filters, Scroll, AnnGraph.
2. Done: theorems for every safety property of the runs about the store, the
   graph's queue and cache, replication, ingestion, streams and connectors, for both
   of the door, for the turns of the flow, for scrolls, for the payload index, for the
   pages of a query, for the calls of the models, and for the graph and its search.
3. Later models: the pruned lexical scorer with integer impacts against the full
   one, retention and pruning of the feed, torn records in Replication.
