------------------------------ MODULE EstateTx ------------------------------
(***************************************************************************)
(* The durable side of a connxism estate: documents, their index rows, the *)
(* counters and the changefeed, and the transactions, payload mutations    *)
(* and maintenance operations that keep them in step.                      *)
(*                                                                         *)
(*   crates/connxism/src/txn.rs     Transaction::begin, commit             *)
(*   crates/connxism/src/store.rs   upsert, remove, transaction,           *)
(*                                  upsert_into, remove_into,              *)
(*                                  mutate_payload                         *)
(*   crates/connxism/src/estate.rs  drop_collection, create_payload_index, *)
(*                                  rebuild_payload_index, Quotas          *)
(*   crates/connxism/src/kv/fjall.rs  Db::write                            *)
(*                                                                         *)
(* Abstractions.  A document carries one term, at most one collection and  *)
(* at most one metadata field, the one payload indexes are about; its      *)
(* sparse, named and multi-vector rows follow the term row and are not     *)
(* repeated.  One row set stands for the column families terms, coll and   *)
(* pidx.  A record refused for its schema, dimension or key length is an   *)
(* Abort.  The statements of a call read the store and write the call's    *)
(* own batch, so a call is two steps: read and stage, then commit.  The    *)
(* graph operations a commit pushes are in GraphApply.                     *)
(***************************************************************************)
EXTENDS Integers, Sequences, FiniteSets, KeyOrder

CONSTANTS
    Ids,          \* document ids
    Colls,        \* collection names
    Nums, Texts,  \* field values, of two JSON types
    Terms,        \* terms
    None,         \* no collection, no field value
    Absent,       \* no document
    Docs,         \* the documents upserts write, a subset of AllDocs
    Writers,      \* tasks that write
    HandleOf,     \* writer -> the recall handle, i.e. writer mutex, it uses
    MaxDocs,      \* Quotas.max_docs
    MaxOps,       \* bound: operations in one transaction
    MaxTx,        \* bound: calls that write
    MaxAdmin,     \* bound: maintenance calls
    RepeatIds,    \* may one call name a document twice
    DropRaces,    \* may drop_collection run while writers do
    BuildRaces    \* may a payload index be built while writers do

AllDocs == [coll : Colls \cup {None}, val : Nums \cup Texts \cup {None}, term : Terms]
Shapes == {"bare", "num", "text"}

ASSUME IdsFinite == IsFiniteSet(Ids)
ASSUME DocsValid == Docs \subseteq AllDocs
ASSUME NoneDistinct == None \notin Colls \cup Nums \cup Texts /\ Absent \notin AllDocs
ASSUME BoundsNat == {MaxDocs, MaxOps, MaxTx, MaxAdmin} \subseteq Nat
ASSUME FlagsBoolean == {RepeatIds, DropRaces, BuildRaces} \subseteq BOOLEAN

VARIABLES
    docs,       \* CF_DOCS (and CF_VECS)
    rows,       \* CF_TERMS, CF_COLL, CF_PIDX: tuples <<family, key, id>>
    indexed,    \* META_PIDX lists the field
    docCount,   \* META_DOC_COUNT
    shapes,     \* META_SHAPES, the shape census
    df,         \* CF_TDF, documents per term
    feedSeq,    \* META_FEED_SEQ
    feed,       \* CF_FEED: sequence number -> [op, id]
    registry,   \* META_COLLECTIONS
    tx,         \* per writer: the staged call, or Idle
    dropping,   \* drop_collection: [coll, todo, tx], or Idle
    building,   \* a payload index build: the rows to delete and to put, or Idle
    calls, admin   \* how much of the bounds is spent

durable == <<docs, rows, indexed, docCount, shapes, df, feedSeq, feed>>
vars == <<durable, registry, tx, dropping, building, calls, admin>>

Idle == [state |-> "idle"]

-----------------------------------------------------------------------------
(* Rows and edits.                                                         *)

\* Shape::of the metadata.
ShapeOf(doc) == IF doc.val = None THEN "bare" ELSE IF doc.val \in Nums THEN "num" ELSE "text"

PidxRows(id, doc) == IF doc.val = None THEN {} ELSE {<<"pidx", doc.val, id>>}
CollRows(id, doc) == IF doc.coll = None THEN {} ELSE {<<"coll", doc.coll, id>>}
TermRows(id, doc) == {<<"term", doc.term, id>>}

\* One document's part of a batch: the stored version it retracts, the version
\* it writes, and whether the field was indexed when it was staged.  A payload
\* mutation touches the payload rows only.
EditRows(e, doc) ==
    IF doc = Absent THEN {}
    ELSE (IF e.idx THEN PidxRows(e.id, doc) ELSE {})
         \cup (IF e.kind = "mutate" THEN {} ELSE CollRows(e.id, doc) \cup TermRows(e.id, doc))

\* An upsert or a removal retracts the version the store holds, not one staged
\* earlier in the same transaction.
UpsertEdit(id, doc) == [kind |-> "upsert", id |-> id, old |-> docs[id], new |-> doc, idx |-> indexed]
RemoveEdit(id) == [kind |-> "remove", id |-> id, old |-> docs[id], new |-> Absent, idx |-> indexed]
MutateEdit(id, val) ==
    [kind |-> "mutate", id |-> id, old |-> docs[id], new |-> [docs[id] EXCEPT !.val = val], idx |-> indexed]

\* Mutant: the removals of a mixed call are lost.
EditsOfUpserts(ops) ==
    LET staged == SelectSeq(ops, LAMBDA op : op.doc # Absent)
    IN  [i \in DOMAIN staged |-> UpsertEdit(staged[i].id, staged[i].doc)]

\* remove_into stages nothing for a document the store does not hold.
EditsOf(ops) ==
    LET Edit(op) == IF op.doc = Absent THEN RemoveEdit(op.id) ELSE UpsertEdit(op.id, op.doc)
        kept == {i \in DOMAIN ops : ops[i].doc # Absent \/ docs[ops[i].id] # Absent}
    IN  [n \in 1..Cardinality(kept) |-> Edit(ops[InKeyOrder(kept, n)])]

\* Mutant: the rows of the retracted version stay.
RowsAfterPuts(edits) == rows \cup UNION {EditRows(edits[i], edits[i].new) : i \in DOMAIN edits}

\* The batch applied row by row: within an edit deletes precede puts.
RowsAfter(edits) ==
    LET puts == UNION {EditRows(edits[i], edits[i].new) : i \in DOMAIN edits}
        DeletedAfter(row, i) == \E j \in DOMAIN edits : j > i /\ row \in EditRows(edits[j], edits[j].old)
    IN  {row \in rows : ~DeletedAfter(row, 0)}
        \cup {row \in puts : \E i \in DOMAIN edits :
                                row \in EditRows(edits[i], edits[i].new) /\ ~DeletedAfter(row, i)}

DocsAfter(edits) ==
    [id \in Ids |->
        IF \E i \in DOMAIN edits : edits[i].id = id
        THEN edits[CHOOSE i \in DOMAIN edits :
                      edits[i].id = id /\ \A j \in DOMAIN edits : edits[j].id = id => j <= i].new
        ELSE docs[id]]

\* The counters threaded through the statements, with saturating subtraction.
Less(n) == IF n > 0 THEN n - 1 ELSE 0

\* Mutant: an overwrite counts as a new document.
CountAfterNoRetract(edits) == docCount + Cardinality({i \in DOMAIN edits : edits[i].kind = "upsert"})

\* One statement's effect on the document count, and on the shape census.
CountStep(e, n) ==
    LET kept == IF e.kind # "mutate" /\ e.old # Absent THEN Less(n) ELSE n
    IN  IF e.kind = "upsert" THEN kept + 1 ELSE kept

CensusStep(e, census) ==
    LET out == IF e.old = Absent THEN census ELSE [census EXCEPT ![ShapeOf(e.old)] = Less(@)]
    IN  IF e.new = Absent THEN out ELSE [out EXCEPT ![ShapeOf(e.new)] = @ + 1]

CountAfter(edits) ==
    LET count[n \in 0..Len(edits)] == IF n = 0 THEN docCount ELSE CountStep(edits[n], count[n - 1])
    IN  count[Len(edits)]

ShapesAfter(edits) ==
    LET census[n \in 0..Len(edits)] == IF n = 0 THEN shapes ELSE CensusStep(edits[n], census[n - 1])
    IN  census[Len(edits)]

\* The document-frequency deltas of a batch, summed per term.
DfDelta(edits, t) ==
    Cardinality({i \in DOMAIN edits : edits[i].kind = "upsert" /\ edits[i].new.term = t})
    - Cardinality({i \in DOMAIN edits :
                     edits[i].kind # "mutate" /\ edits[i].old # Absent /\ edits[i].old.term = t})

\* A call's staged state: the edits and the counters it will put.
Staged(ops, edits) ==
    [state |-> "staged", ops |-> ops, edits |-> edits, count |-> CountAfter(edits),
     shapes |-> ShapesAfter(edits), seq |-> feedSeq]

\* Mutant: whatever is not an upsert is fed as a removal.
FeedOpOfOther(e) == IF e.kind = "upsert" THEN "upsert" ELSE "remove"

\* The changefeed row of an edit; a payload mutation is an upsert.
FeedOpOf(e) == IF e.kind = "remove" THEN "remove" ELSE "upsert"

\* Db::write of a staged batch: rows, counters and feed rows, all at once.  A
\* batch with no edit leaves the counters alone; a payload mutation puts only
\* the sequence and the census.
Write(t) ==
    LET n == Len(t.edits)
        new == t.seq..(t.seq + n - 1)
    IN  /\ docs' = DocsAfter(t.edits)
        /\ rows' = RowsAfter(t.edits)
        /\ docCount' = IF n = 0 \/ t.edits[1].kind = "mutate" THEN docCount ELSE t.count
        /\ shapes' = IF n = 0 THEN shapes ELSE t.shapes
        /\ df' = [u \in Terms |-> df[u] + DfDelta(t.edits, u)]
        /\ feedSeq' = IF n = 0 THEN feedSeq ELSE t.seq + n
        /\ feed' = [s \in DOMAIN feed \cup new |->
                      IF s \in new
                      THEN [op |-> FeedOpOf(t.edits[s - t.seq + 1]), id |-> t.edits[s - t.seq + 1].id]
                      ELSE feed[s]]

-----------------------------------------------------------------------------
Init ==
    /\ docs = [id \in Ids |-> Absent]
    /\ rows = {}
    /\ indexed = FALSE
    /\ docCount = 0
    /\ shapes = [s \in Shapes |-> 0]
    /\ df = [t \in Terms |-> 0]
    /\ feedSeq = 0
    /\ feed = [s \in {} |-> Absent]
    /\ registry = {}
    /\ tx = [w \in Writers |-> Idle]
    /\ dropping = Idle
    /\ building = Idle
    /\ calls = 0 /\ admin = 0

-----------------------------------------------------------------------------
(* Writers.                                                                *)

Upsert(id, doc) == [id |-> id, doc |-> doc]
Remove(id) == [id |-> id, doc |-> Absent]

\* The handle's mutex is free and no maintenance is in the way of this model.
MayStart(w) ==
    /\ calls < MaxTx
    /\ \A v \in Writers : HandleOf[v] = HandleOf[w] => tx[v] = Idle
    /\ tx[w] = Idle
    /\ dropping = Idle \/ DropRaces
    /\ building = Idle \/ BuildRaces

\* The collections a call's upserts name.
NamedIn(ops) == {ops[i].doc.coll : i \in {j \in DOMAIN ops : ops[j].doc # Absent}} \ {None}

\* Mutant: a new collection is not registered.
RegistryAfterForgets(ops) == registry

\* The registry once upsert_into has seen the records.
RegistryAfter(ops) == registry \cup NamedIn(ops)

\* Begin, run the statements, and register new collections at once: the
\* registry is not part of the batch.
Stage(w, ops) ==
    /\ \A i, j \in DOMAIN ops : ops[i].id = ops[j].id => i = j \/ RepeatIds
    /\ tx' = [tx EXCEPT ![w] = Staged(ops, EditsOf(ops))]
    /\ registry' = RegistryAfter(ops)
    /\ calls' = calls + 1
    /\ UNCHANGED <<durable, dropping, building, admin>>

\* upsert: a batch of records, refused when the net new documents exceed the
\* cap.  Each record without a stored document counts.
UpsertCall(w) ==
    /\ MayStart(w)
    /\ \E n \in 1..MaxOps : \E ops \in [1..n -> [id : Ids, doc : Docs]] :
          /\ docCount + Cardinality({i \in 1..n : docs[ops[i].id] = Absent}) <= MaxDocs
          /\ Stage(w, ops)

\* remove: one document.
RemoveCall(w) == MayStart(w) /\ \E id \in Ids : Stage(w, <<Remove(id)>>)

\* transaction: any mix of upserts and removals; no quota is consulted.
TransactionCall(w) ==
    /\ MayStart(w)
    /\ \E n \in 1..MaxOps : \E ops \in [1..n -> [id : Ids, doc : Docs \cup {Absent}]] : Stage(w, ops)

\* set / overwrite / delete / clear payload: the document must exist; neither
\* schema nor quota is consulted.
PayloadCall(w) ==
    /\ MayStart(w)
    /\ \E id \in Ids, val \in Nums \cup Texts \cup {None} :
          /\ docs[id] # Absent
          /\ tx' = [tx EXCEPT ![w] = Staged(<<Upsert(id, [docs[id] EXCEPT !.val = val])>>,
                                             <<MutateEdit(id, val)>>)]
    /\ calls' = calls + 1
    /\ UNCHANGED <<durable, registry, dropping, building, admin>>

\* The batch lands and the call returns.
Commit(w) ==
    /\ tx[w] # Idle
    /\ Write(tx[w])
    /\ tx' = [tx EXCEPT ![w] = Idle]
    /\ UNCHANGED <<indexed, registry, dropping, building, calls, admin>>

\* A later statement fails (or the write does): the batch is dropped.
Abort(w) ==
    /\ tx[w] # Idle
    /\ tx' = [tx EXCEPT ![w] = Idle]
    /\ UNCHANGED <<durable, registry, dropping, building, calls, admin>>

-----------------------------------------------------------------------------
(* Maintenance.                                                            *)

NoWriter == \A w \in Writers : tx[w] = Idle
MayAdmin == admin < MaxAdmin /\ admin' = admin + 1

\* Mutant: the listing is not limited to the collection's rows.
MembersOfAny(c) == {id \in Ids : \E row \in rows : row[3] = id}

\* collection_members.
MembersOf(c) == {id \in Ids : <<"coll", c, id>> \in rows}

\* drop_collection: list the members, take no mutex.
DropStart(c) ==
    /\ MayAdmin
    /\ dropping = Idle
    /\ NoWriter \/ DropRaces
    /\ building = Idle \/ BuildRaces
    /\ dropping' = [state |-> "open", coll |-> c,
                    todo |-> MembersOf(c), tx |-> Idle]
    /\ UNCHANGED <<durable, registry, tx, building, calls>>

\* remove_blocking of the next member: begin and stage.
DropStage ==
    /\ dropping # Idle
    /\ dropping.tx = Idle
    /\ \E id \in dropping.todo :
          dropping' = [dropping EXCEPT !.todo = @ \ {id},
                                       !.tx = Staged(<<Remove(id)>>, EditsOf(<<Remove(id)>>))]
    /\ UNCHANGED <<durable, registry, tx, building, calls, admin>>

\* Its commit.
DropCommit ==
    /\ dropping # Idle
    /\ dropping.tx # Idle
    /\ Write(dropping.tx)
    /\ dropping' = [dropping EXCEPT !.tx = Idle]
    /\ UNCHANGED <<indexed, registry, tx, building, calls, admin>>

\* All members done: deregister the name.
DropFinish ==
    /\ dropping # Idle
    /\ dropping.tx = Idle /\ dropping.todo = {}
    /\ registry' = registry \ {dropping.coll}
    /\ dropping' = Idle
    /\ UNCHANGED <<durable, tx, building, calls, admin>>

\* The payload rows of the documents as they are now.
Backfill == UNION {IF docs[id] = Absent THEN {} ELSE PidxRows(id, docs[id]) : id \in Ids}

\* A build keeps out of the way of writers and drops, unless they may race.
MayBuild == MayAdmin /\ building = Idle /\ ((NoWriter /\ dropping = Idle) \/ BuildRaces)

\* create_payload_index: register the field, then scan the documents.  A field
\* that is indexed already is left alone.
CreateIndex ==
    /\ MayBuild
    /\ ~indexed
    /\ indexed' = TRUE
    /\ building' = [state |-> "scanned", put |-> Backfill, del |-> {}]
    /\ UNCHANGED <<docs, rows, docCount, shapes, df, feedSeq, feed, registry, tx, dropping, calls>>

\* rebuild_payload_index: collect the rows of an indexed field, then scan.
RebuildIndex ==
    /\ MayBuild
    /\ indexed
    /\ building' = [state |-> "scanned", put |-> Backfill, del |-> {row \in rows : row[1] = "pidx"}]
    /\ UNCHANGED <<durable, registry, tx, dropping, calls>>

\* The scanned rows are written.
BuildWrite ==
    /\ building # Idle
    /\ rows' = (rows \ building.del) \cup building.put
    /\ building' = Idle
    /\ UNCHANGED <<docs, indexed, docCount, shapes, df, feedSeq, feed, registry, tx, dropping,
                   calls, admin>>

-----------------------------------------------------------------------------
Call(w) == UpsertCall(w) \/ RemoveCall(w) \/ TransactionCall(w) \/ PayloadCall(w)

Next ==
    \/ \E w \in Writers : Call(w) \/ Commit(w) \/ Abort(w)
    \/ \E c \in Colls : DropStart(c)
    \/ DropStage \/ DropCommit \/ DropFinish
    \/ CreateIndex \/ RebuildIndex \/ BuildWrite

Spec == Init /\ [][Next]_vars

-----------------------------------------------------------------------------
Held == {id \in Ids : docs[id] # Absent}

TypeOK ==
    /\ docs \in [Ids -> AllDocs \cup {Absent}]
    /\ rows \subseteq {"term", "coll", "pidx"} \X (Terms \cup Colls \cup Nums \cup Texts) \X Ids
    /\ docCount \in Nat /\ feedSeq \in Nat
    /\ shapes \in [Shapes -> Nat] /\ df \in [Terms -> Int]
    /\ DOMAIN feed \subseteq Nat
    /\ \A s \in DOMAIN feed : feed[s] \in [op : {"upsert", "remove"}, id : Ids]
    /\ registry \subseteq Colls

\* The counters every transaction threads are exact: documents, the shape
\* census, and the document frequency of every term.
CountersExact ==
    /\ docCount = Cardinality(Held)
    /\ \A s \in Shapes : shapes[s] = Cardinality({id \in Held : ShapeOf(docs[id]) = s})
    /\ \A t \in Terms : df[t] = Cardinality({id \in Held : docs[id].term = t})

\* The term and collection rows are those of the documents, and so are the
\* payload rows when the field is indexed and no build is under way.
IndexExact ==
    /\ {row \in rows : row[1] # "pidx"} =
          UNION {CollRows(id, docs[id]) \cup TermRows(id, docs[id]) : id \in Held}
    /\ (indexed /\ building = Idle) => {row \in rows : row[1] = "pidx"} = Backfill

\* The changefeed is gapless, and its newest row for a document says whether the
\* document exists: a subscriber that replays it learns what the estate holds.
FeedTellsAll ==
    /\ DOMAIN feed = 0..(feedSeq - 1)
    /\ \A id \in Ids :
          (docs[id] # Absent) <=>
             \E s \in DOMAIN feed :
                /\ feed[s] = [op |-> "upsert", id |-> id]
                /\ \A u \in DOMAIN feed : feed[u].id = id => u <= s

\* Every collection with a member is registered, so collections() lists it.
MembersListed == \A row \in rows : row[1] = "coll" => row[2] \in registry

\* What a list of operations asks for, one after the other.
InOrder(ops) ==
    [id \in Ids |->
        IF \E i \in DOMAIN ops : ops[i].id = id
        THEN ops[CHOOSE i \in DOMAIN ops :
                    ops[i].id = id /\ \A j \in DOMAIN ops : ops[j].id = id => j <= i].doc
        ELSE docs[id]]

\* Whenever documents change, they change by all operations of one call, in the
\* order the call gave them ("order is load-bearing", handler.rs tx).
OpsApplyInOrder ==
    [][docs' # docs => \/ \E w \in Writers : tx[w] # Idle /\ docs' = InOrder(tx[w].ops)
                       \/ dropping # Idle /\ dropping.tx # Idle /\ docs' = InOrder(dropping.tx.ops)]_vars

\* drop_collection removes no document that is outside the collection.
OutsidersUntouched ==
    [][\A id \in Ids : (dropping # Idle /\ dropping' # dropping /\ docs[id] # docs'[id])
                          => docs[id].coll = dropping.coll]_vars

=============================================================================
