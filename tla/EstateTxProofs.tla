--------------------------- MODULE EstateTxProofs ---------------------------
(***************************************************************************)
(* Proofs about EstateTx, for every set of ids, collections, values, terms *)
(* and writers and every number and size of calls, on one recall handle,   *)
(* for calls that name a document once and for maintenance that keeps out  *)
(* of the writers' way (Calm).                                             *)
(*                                                                         *)
(*   CountsAreExact  CountersExact: documents, shape census, frequencies   *)
(*   RowsAreExact    IndexExact                                            *)
(*   FeedIsTrue      FeedTellsAll                                          *)
(*   NamesAreListed  MembersListed                                         *)
(*   CallsInOrder    OpsApplyInOrder                                       *)
(*   DropsSpare      OutsidersUntouched                                    *)
(*                                                                         *)
(* A call reads the store, stages its edits and counters, and writes them  *)
(* later: the invariant has to say that what was read is still there.  So  *)
(* its parts are what the store promises between two batches (StoreInv),   *)
(* who may be at work with whom (SoloInv), and that a staged batch is one  *)
(* of the store as it is (GoodTx).                                         *)
(***************************************************************************)
EXTENDS EstateTx, OrderLemmas, SequenceTheorems

Slot == AllDocs \cup {Absent}
Edit == [kind : {"upsert", "remove", "mutate"}, id : Ids, old : Slot, new : Slot, idx : BOOLEAN]

\* The rows of a version of a document, by family.
BaseRows(id, doc) == IF doc = Absent THEN {} ELSE CollRows(id, doc) \cup TermRows(id, doc)
FieldRows(id, doc) == IF doc = Absent THEN {} ELSE PidxRows(id, doc)

\* An edit of the store as it is.
GoodEdit(e) ==
    /\ e.old = docs[e.id] /\ e.idx = indexed
    /\ e.kind = "upsert" => e.new # Absent
    /\ e.kind = "remove" => e.new = Absent /\ e.old # Absent
    /\ e.kind = "mutate" => /\ e.old # Absent /\ e.new # Absent
                            /\ e.new.coll = e.old.coll /\ e.new.term = e.old.term

OncePerId(edits) == \A i, j \in DOMAIN edits : edits[i].id = edits[j].id => i = j

GoodEdits(edits) ==
    /\ edits \in Seq(Edit) /\ OncePerId(edits)
    /\ \A i \in DOMAIN edits : GoodEdit(edits[i])
    /\ \A i \in DOMAIN edits : edits[i].kind = "mutate" => Len(edits) = 1

Registered(edits) ==
    \A i \in DOMAIN edits : edits[i].new # Absent => edits[i].new.coll \in registry \cup {None}

\* A staged call whose commit would do what its operations ask for.
GoodTx(t) ==
    /\ GoodEdits(t.edits) /\ Registered(t.edits)
    /\ t.seq = feedSeq /\ t.count = CountAfter(t.edits) /\ t.shapes = ShapesAfter(t.edits)
    /\ InOrder(t.ops) = DocsAfter(t.edits)

\* Rows, pointwise.
RowInv ==
    /\ \A row \in rows : row[1] # "pidx" => row \in BaseRows(row[3], docs[row[3]])
    /\ \A id \in Ids : BaseRows(id, docs[id]) \subseteq rows
    /\ \A row \in rows : row[1] = "pidx" => indexed
    /\ indexed /\ building = Idle => /\ \A row \in rows : row[1] = "pidx" => row \in FieldRows(row[3], docs[row[3]])
                                     /\ \A id \in Ids : FieldRows(id, docs[id]) \subseteq rows

\* Every collection a document is in is registered.
ListInv == \A id \in Ids : docs[id] # Absent => docs[id].coll \in registry \cup {None}

StoreInv == TypeOK /\ indexed \in BOOLEAN /\ RowInv /\ ListInv /\ CountersExact /\ FeedTellsAll

\* Writers, a drop and a build keep out of each other's way.
SoloInv ==
    /\ \A v, w \in Writers : tx[v] # Idle /\ tx[w] # Idle => v = w
    /\ dropping # Idle \/ building # Idle => NoWriter
    /\ dropping = Idle \/ building = Idle

\* The staged calls, the one of a drop included.
Underway == ({tx[w] : w \in Writers} \cup (IF dropping = Idle THEN {} ELSE {dropping.tx})) \ {Idle}

TxInv == DOMAIN tx = Writers /\ \A t \in Underway : GoodTx(t)

\* A drop on its way: what it still has to remove is what is left of the collection.
InDrop(id) == dropping.tx # Idle /\ \E i \in DOMAIN dropping.tx.edits : dropping.tx.edits[i].id = id
DropInv ==
    dropping # Idle =>
        /\ dropping = [state |-> "open", coll |-> dropping.coll, todo |-> dropping.todo, tx |-> dropping.tx]
        /\ dropping.coll \in Colls /\ dropping.todo \subseteq Ids
        /\ dropping.tx # Idle => \A i \in DOMAIN dropping.tx.edits : dropping.tx.edits[i].new = Absent
        /\ \A id \in Ids : InDrop(id) => id \notin dropping.todo
        /\ \A id \in Ids : (docs[id] # Absent /\ docs[id].coll = dropping.coll) <=> (id \in dropping.todo \/ InDrop(id))

\* A build on its way: no field row outlives it but those it scanned.
BuildInv ==
    building # Idle =>
        /\ indexed /\ building.put = Backfill
        /\ \A row \in building.del : row[1] = "pidx"
        /\ \A row \in rows : row[1] = "pidx" => row \in building.del

EstateInv == StoreInv /\ SoloInv /\ TxInv /\ DropInv /\ BuildInv

-----------------------------------------------------------------------------
(* Batches.                                                                *)

\* The entries of a batch and their parts.
LEMMA EditTypes ==
  ASSUME NEW edits \in Seq(Edit)
  PROVE  /\ Len(edits) \in Nat /\ DOMAIN edits = 1..Len(edits)
         /\ \A i \in DOMAIN edits : /\ edits[i] \in Edit /\ edits[i].id \in Ids
                                    /\ edits[i].old \in Slot /\ edits[i].new \in Slot
                                    /\ edits[i].kind \in {"upsert", "remove", "mutate"}
                                    /\ edits[i].idx \in BOOLEAN
<1>1. Len(edits) \in Nat /\ DOMAIN edits = 1..Len(edits)
  BY LenProperties
<1>2. \A i \in DOMAIN edits : edits[i] \in Edit
  BY <1>1, ElementOfSeq
<1>3. QED
  BY <1>1, <1>2 DEF Edit

\* Where every id is edited once, a document becomes what its edit says and the
\* others stay.
LEMMA DocsAfterIs ==
  ASSUME NEW edits \in Seq(Edit), OncePerId(edits), docs \in [Ids -> Slot]
  PROVE  /\ DocsAfter(edits) \in [Ids -> Slot]
         /\ \A i \in DOMAIN edits : DocsAfter(edits)[edits[i].id] = edits[i].new
         /\ \A id \in Ids : (~ \E i \in DOMAIN edits : edits[i].id = id) => DocsAfter(edits)[id] = docs[id]
<1>1. /\ Len(edits) \in Nat /\ DOMAIN edits = 1..Len(edits)
      /\ \A i \in DOMAIN edits : edits[i].id \in Ids /\ edits[i].new \in Slot
  BY EditTypes
<1> DEFINE last(id) == CHOOSE i \in DOMAIN edits :
                          edits[i].id = id /\ \A j \in DOMAIN edits : edits[j].id = id => j <= i
<1>2. ASSUME NEW i \in DOMAIN edits PROVE last(edits[i].id) = i
  <2>1. \A j \in DOMAIN edits : edits[j].id = edits[i].id => j = i
    BY DEF OncePerId
  <2>2. i <= i
    BY <1>1
  <2>3. edits[i].id = edits[i].id /\ \A j \in DOMAIN edits : edits[j].id = edits[i].id => j <= i
    BY <2>1, <2>2
  <2>4. last(edits[i].id) \in DOMAIN edits /\ edits[last(edits[i].id)].id = edits[i].id
    BY <2>3
  <2>5. QED
    BY <2>1, <2>4
<1>3. DocsAfter(edits) = [id \in Ids |-> IF \E i \in DOMAIN edits : edits[i].id = id
                                         THEN edits[last(id)].new ELSE docs[id]]
  BY DEF DocsAfter
<1> HIDE DEF last
<1>4. \A i \in DOMAIN edits : DocsAfter(edits)[edits[i].id] = edits[i].new
  BY <1>1, <1>2, <1>3
<1>5. \A id \in Ids : (~ \E i \in DOMAIN edits : edits[i].id = id) => DocsAfter(edits)[id] = docs[id]
  BY <1>3
<1>6. \A id \in Ids : DocsAfter(edits)[id] \in Slot
  BY <1>1, <1>4, <1>5
<1>7. QED
  BY <1>3, <1>4, <1>5, <1>6

\* The rows of a version of a document carry its id, and the version can be read
\* off them.
LEMMA RowShapes ==
  ASSUME NEW id \in Ids, NEW doc \in Slot
  PROVE  /\ \A row \in BaseRows(id, doc) : row[3] = id /\ row[1] # "pidx"
         /\ \A row \in FieldRows(id, doc) : row[3] = id /\ row[1] = "pidx"
         /\ BaseRows(id, doc) \cup FieldRows(id, doc) \subseteq
               {"term", "coll", "pidx"} \X (Terms \cup Colls \cup Nums \cup Texts) \X Ids
<1>1. CASE doc = Absent
  BY <1>1 DEF BaseRows, FieldRows
<1>2. CASE doc # Absent
  <2>1. doc \in AllDocs /\ doc.coll \in Colls \cup {None} /\ doc.val \in Nums \cup Texts \cup {None} /\ doc.term \in Terms
    BY <1>2 DEF Slot, AllDocs
  <2>2. \A row \in CollRows(id, doc) : /\ row[3] = id /\ row[1] # "pidx"
                                       /\ row \in {"term", "coll", "pidx"} \X (Terms \cup Colls \cup Nums \cup Texts) \X Ids
    BY <2>1 DEF CollRows
  <2>3. \A row \in TermRows(id, doc) : /\ row[3] = id /\ row[1] # "pidx"
                                       /\ row \in {"term", "coll", "pidx"} \X (Terms \cup Colls \cup Nums \cup Texts) \X Ids
    BY <2>1 DEF TermRows
  <2>4. \A row \in PidxRows(id, doc) : /\ row[3] = id /\ row[1] = "pidx"
                                       /\ row \in {"term", "coll", "pidx"} \X (Terms \cup Colls \cup Nums \cup Texts) \X Ids
    BY <2>1 DEF PidxRows
  <2>5. BaseRows(id, doc) = CollRows(id, doc) \cup TermRows(id, doc) /\ FieldRows(id, doc) = PidxRows(id, doc)
    BY <1>2 DEF BaseRows, FieldRows
  <2>6. QED
    BY <2>2, <2>3, <2>4, <2>5
<1>3. QED
  BY <1>1, <1>2

\* The rows an edit deletes or puts.
LEMMA EditRowsAre ==
  ASSUME NEW e \in Edit, NEW doc \in Slot
  PROVE  /\ EditRows(e, doc) = (IF e.idx THEN FieldRows(e.id, doc) ELSE {})
                               \cup (IF e.kind = "mutate" THEN {} ELSE BaseRows(e.id, doc))
         /\ \A row \in EditRows(e, doc) : row[3] = e.id
<1>1. EditRows(e, doc) = (IF e.idx THEN FieldRows(e.id, doc) ELSE {})
                         \cup (IF e.kind = "mutate" THEN {} ELSE BaseRows(e.id, doc))
  BY DEF EditRows, FieldRows, BaseRows
<1>2. e.id \in Ids
  BY DEF Edit
<1>3. QED
  BY <1>1, <1>2, RowShapes

\* Where every id is edited once, the rows of an edited id are those of its edit
\* and the rows of the others stay.
LEMMA RowsAfterAre ==
  ASSUME NEW edits \in Seq(Edit), OncePerId(edits)
  PROVE  /\ \A i \in DOMAIN edits : \A row :
              row[3] = edits[i].id =>
                 (row \in RowsAfter(edits) <=> \/ row \in EditRows(edits[i], edits[i].new)
                                               \/ row \in rows /\ row \notin EditRows(edits[i], edits[i].old))
         /\ \A row : (~ \E i \in DOMAIN edits : edits[i].id = row[3]) => (row \in RowsAfter(edits) <=> row \in rows)
<1> DEFINE Old(i) == EditRows(edits[i], edits[i].old)
           New(i) == EditRows(edits[i], edits[i].new)
           DeletedAfter(row, i) == \E j \in DOMAIN edits : j > i /\ row \in Old(j)
<1>1. Len(edits) \in Nat /\ DOMAIN edits = 1..Len(edits)
  BY EditTypes
<1>2. \A i \in DOMAIN edits : \A row : row \in Old(i) \/ row \in New(i) => row[3] = edits[i].id
  BY EditTypes, EditRowsAre
<1>3. RowsAfter(edits) = {row \in rows : ~DeletedAfter(row, 0)}
                         \cup {row \in UNION {New(i) : i \in DOMAIN edits} :
                                 \E i \in DOMAIN edits : row \in New(i) /\ ~DeletedAfter(row, i)}
  BY DEF RowsAfter
<1> HIDE DEF Old, New
<1>4. \A row : row \in RowsAfter(edits) <=> \/ row \in rows /\ ~DeletedAfter(row, 0)
                                            \/ \E i \in DOMAIN edits : row \in New(i) /\ ~DeletedAfter(row, i)
  BY <1>3
<1>5. \A row : DeletedAfter(row, 0) <=> \E j \in DOMAIN edits : row \in Old(j)
  BY <1>1
<1>6. \A i \in DOMAIN edits : \A row : row \in New(i) => ~DeletedAfter(row, i)
  <2>1. \A i \in DOMAIN edits : ~(i > i)
    BY <1>1
  <2>2. QED
    BY <1>2, <2>1 DEF OncePerId
<1> HIDE DEF DeletedAfter
<1>7. \A row : row \in RowsAfter(edits) <=> \/ row \in rows /\ ~ \E j \in DOMAIN edits : row \in Old(j)
                                            \/ \E i \in DOMAIN edits : row \in New(i)
  BY <1>4, <1>5, <1>6
<1>8. ASSUME NEW i \in DOMAIN edits, NEW row, row[3] = edits[i].id
      PROVE  row \in RowsAfter(edits) <=> row \in New(i) \/ (row \in rows /\ row \notin Old(i))
  <2>1. \A j \in DOMAIN edits : row \in Old(j) \/ row \in New(j) => j = i
    BY <1>2, <1>8 DEF OncePerId
  <2>2. QED
    BY <1>7, <2>1
<1>9. ASSUME NEW row, ~ \E i \in DOMAIN edits : edits[i].id = row[3]
      PROVE  row \in RowsAfter(edits) <=> row \in rows
  BY <1>2, <1>7, <1>9
<1>10. QED
  BY <1>8, <1>9 DEF Old, New

-----------------------------------------------------------------------------
(* What a batch does to the rows, the registry's promise and the feed.     *)

\* One edit takes the rows of its document from the old version to the new.
LEMMA EditMovesRows ==
  ASSUME NEW e \in Edit, GoodEdit(e), RowInv, building = Idle, NEW row, row[3] = e.id
  PROVE  LET after == row \in EditRows(e, e.new) \/ (row \in rows /\ row \notin EditRows(e, e.old))
         IN  /\ row[1] # "pidx" => (after <=> row \in BaseRows(e.id, e.new))
             /\ row[1] = "pidx" /\ indexed => (after <=> row \in FieldRows(e.id, e.new))
             /\ row[1] = "pidx" /\ ~indexed => ~after
<1> DEFINE id == e.id
           after == row \in EditRows(e, e.new) \/ (row \in rows /\ row \notin EditRows(e, e.old))
<1>1. id \in Ids /\ e.old \in Slot /\ e.new \in Slot /\ e.old = docs[id] /\ e.idx = indexed
  BY DEF Edit, GoodEdit
<1>2. /\ EditRows(e, e.new) = (IF e.idx THEN FieldRows(id, e.new) ELSE {})
                              \cup (IF e.kind = "mutate" THEN {} ELSE BaseRows(id, e.new))
      /\ EditRows(e, e.old) = (IF e.idx THEN FieldRows(id, e.old) ELSE {})
                              \cup (IF e.kind = "mutate" THEN {} ELSE BaseRows(id, e.old))
  BY <1>1, EditRowsAre
<1>3. \A doc \in Slot : /\ \A r \in BaseRows(id, doc) : r[1] # "pidx"
                        /\ \A r \in FieldRows(id, doc) : r[1] = "pidx"
  BY <1>1, RowShapes
<1>4. ASSUME row[1] # "pidx" PROVE after <=> row \in BaseRows(id, e.new)
  <2>1. row \in rows <=> row \in BaseRows(id, e.old)
    BY <1>1, <1>4 DEF RowInv
  <2>2. row \notin FieldRows(id, e.old) /\ row \notin FieldRows(id, e.new)
    BY <1>1, <1>3, <1>4
  <2>3. CASE e.kind = "mutate"
    <3>1. BaseRows(id, e.new) = BaseRows(id, e.old)
      BY <2>3 DEF GoodEdit, BaseRows, CollRows, TermRows
    <3>2. QED
      BY <1>2, <2>1, <2>2, <2>3, <3>1
  <2>4. CASE e.kind # "mutate"
    BY <1>2, <2>1, <2>2, <2>4
  <2>5. QED
    BY <2>3, <2>4
<1>5. ASSUME row[1] = "pidx", indexed PROVE after <=> row \in FieldRows(id, e.new)
  <2>1. row \in rows <=> row \in FieldRows(id, e.old)
    BY <1>1, <1>5 DEF RowInv
  <2>2. row \notin BaseRows(id, e.old) /\ row \notin BaseRows(id, e.new)
    BY <1>1, <1>3, <1>5
  <2>3. QED
    BY <1>1, <1>2, <1>5, <2>1, <2>2
<1>6. ASSUME row[1] = "pidx", ~indexed PROVE ~after
  <2>1. row \notin rows
    BY <1>6 DEF RowInv
  <2>2. row \notin BaseRows(id, e.new)
    BY <1>1, <1>3, <1>6
  <2>3. QED
    BY <1>1, <1>2, <1>6, <2>1, <2>2
<1>7. QED
  BY <1>4, <1>5, <1>6

\* A batch leaves the rows those of the documents.
LEMMA RowsKept ==
  ASSUME docs \in [Ids -> Slot],
         rows \subseteq {"term", "coll", "pidx"} \X (Terms \cup Colls \cup Nums \cup Texts) \X Ids,
         RowInv, building = Idle, NEW edits, GoodEdits(edits),
         docs' = DocsAfter(edits), rows' = RowsAfter(edits), UNCHANGED <<indexed, building>>
  PROVE  /\ rows' \subseteq {"term", "coll", "pidx"} \X (Terms \cup Colls \cup Nums \cup Texts) \X Ids
         /\ RowInv'
<1> DEFINE T == {"term", "coll", "pidx"} \X (Terms \cup Colls \cup Nums \cup Texts) \X Ids
<1>1. /\ edits \in Seq(Edit) /\ OncePerId(edits)
      /\ \A i \in DOMAIN edits : edits[i] \in Edit /\ GoodEdit(edits[i]) /\ edits[i].id \in Ids /\ edits[i].new \in Slot
  BY EditTypes DEF GoodEdits
<1>2. /\ docs' \in [Ids -> Slot]
      /\ \A i \in DOMAIN edits : docs'[edits[i].id] = edits[i].new
      /\ \A id \in Ids : (~ \E i \in DOMAIN edits : edits[i].id = id) => docs'[id] = docs[id]
  BY <1>1, DocsAfterIs
<1>3. \A row \in T : row[3] \in Ids
  OBVIOUS
<1> HIDE DEF T
<1>4. \A id \in Ids : \A doc \in Slot :
         /\ \A row \in BaseRows(id, doc) : row \in T /\ row[3] = id /\ row[1] # "pidx"
         /\ \A row \in FieldRows(id, doc) : row \in T /\ row[3] = id /\ row[1] = "pidx"
  BY RowShapes DEF T
<1>5. ASSUME NEW row, NEW i \in DOMAIN edits, edits[i].id = row[3]
      PROVE  /\ row[1] # "pidx" => (row \in rows' <=> row \in BaseRows(row[3], docs'[row[3]]))
             /\ row[1] = "pidx" /\ indexed => (row \in rows' <=> row \in FieldRows(row[3], docs'[row[3]]))
             /\ row[1] = "pidx" /\ ~indexed => row \notin rows'
  <2>1. row \in rows' <=> row \in EditRows(edits[i], edits[i].new) \/ (row \in rows /\ row \notin EditRows(edits[i], edits[i].old))
    BY <1>1, <1>5, RowsAfterAre
  <2>2. docs'[row[3]] = edits[i].new
    BY <1>2, <1>5
  <2>3. /\ row[1] # "pidx" => (row \in rows' <=> row \in BaseRows(edits[i].id, edits[i].new))
        /\ row[1] = "pidx" /\ indexed => (row \in rows' <=> row \in FieldRows(edits[i].id, edits[i].new))
        /\ row[1] = "pidx" /\ ~indexed => row \notin rows'
    BY <1>1, <1>5, <2>1, EditMovesRows
  <2>4. QED
    BY <1>5, <2>2, <2>3
<1>6. ASSUME NEW row, ~ \E i \in DOMAIN edits : edits[i].id = row[3]
      PROVE  (row \in rows' <=> row \in rows) /\ (row[3] \in Ids => docs'[row[3]] = docs[row[3]])
  BY <1>1, <1>2, <1>6, RowsAfterAre
<1>7. ASSUME NEW row \in rows' PROVE row \in T
  <2>1. CASE \E i \in DOMAIN edits : edits[i].id = row[3]
    <3>1. PICK i \in DOMAIN edits : edits[i].id = row[3]
      BY <2>1
    <3>2. row[3] \in Ids /\ docs'[row[3]] \in Slot
      BY <1>1, <1>2, <3>1
    <3>3. row \in BaseRows(row[3], docs'[row[3]]) \/ row \in FieldRows(row[3], docs'[row[3]])
      BY <1>5, <1>7, <3>1
    <3>4. QED
      BY <1>4, <3>2, <3>3
  <2>2. CASE ~ \E i \in DOMAIN edits : edits[i].id = row[3]
    BY <1>6, <1>7, <2>2 DEF T
  <2>3. QED
    BY <2>1, <2>2
<1>8. ASSUME NEW row \in rows', row[1] # "pidx" PROVE row \in BaseRows(row[3], docs'[row[3]])
  <2>1. row[3] \in Ids
    BY <1>3, <1>7
  <2>2. CASE \E i \in DOMAIN edits : edits[i].id = row[3]
    BY <1>5, <1>8, <2>2
  <2>3. CASE ~ \E i \in DOMAIN edits : edits[i].id = row[3]
    BY <1>6, <1>8, <2>1, <2>3 DEF RowInv
  <2>4. QED
    BY <2>2, <2>3
<1>9. ASSUME NEW id \in Ids, NEW row \in BaseRows(id, docs'[id]) PROVE row \in rows'
  <2>1. docs'[id] \in Slot /\ row[3] = id /\ row[1] # "pidx"
    BY <1>2, <1>4
  <2>2. CASE \E i \in DOMAIN edits : edits[i].id = row[3]
    BY <1>5, <1>9, <2>1, <2>2
  <2>3. CASE ~ \E i \in DOMAIN edits : edits[i].id = row[3]
    BY <1>6, <1>9, <2>1, <2>3 DEF RowInv
  <2>4. QED
    BY <2>2, <2>3
<1>10. ASSUME NEW row \in rows', row[1] = "pidx" PROVE indexed /\ row \in FieldRows(row[3], docs'[row[3]])
  <2>1. row[3] \in Ids
    BY <1>3, <1>7
  <2>2. CASE \E i \in DOMAIN edits : edits[i].id = row[3]
    BY <1>5, <1>10, <2>2
  <2>3. CASE ~ \E i \in DOMAIN edits : edits[i].id = row[3]
    BY <1>6, <1>10, <2>1, <2>3 DEF RowInv
  <2>4. QED
    BY <2>2, <2>3
<1>11. ASSUME indexed, NEW id \in Ids, NEW row \in FieldRows(id, docs'[id]) PROVE row \in rows'
  <2>1. docs'[id] \in Slot /\ row[3] = id /\ row[1] = "pidx"
    BY <1>2, <1>4
  <2>2. CASE \E i \in DOMAIN edits : edits[i].id = row[3]
    BY <1>5, <1>11, <2>1, <2>2
  <2>3. CASE ~ \E i \in DOMAIN edits : edits[i].id = row[3]
    BY <1>6, <1>11, <2>1, <2>3 DEF RowInv
  <2>4. QED
    BY <2>2, <2>3
<1>12. RowInv'
  BY <1>8, <1>9, <1>10, <1>11 DEF RowInv
<1>13. QED
  BY <1>7, <1>12 DEF T

\* A batch leaves every document in a registered collection.
LEMMA ListKept ==
  ASSUME docs \in [Ids -> Slot], ListInv, NEW edits, GoodEdits(edits), Registered(edits),
         docs' = DocsAfter(edits), UNCHANGED registry
  PROVE  ListInv'
<1>1. edits \in Seq(Edit) /\ OncePerId(edits)
  BY DEF GoodEdits
<1>2. /\ \A i \in DOMAIN edits : docs'[edits[i].id] = edits[i].new
      /\ \A id \in Ids : (~ \E i \in DOMAIN edits : edits[i].id = id) => docs'[id] = docs[id]
  BY <1>1, DocsAfterIs
<1>3. QED
  BY <1>2 DEF ListInv, Registered

\* The feed rows of a batch follow the old ones, and the last row of a document
\* says what became of it.
LEMMA FeedKept ==
  ASSUME docs \in [Ids -> Slot], feedSeq \in Nat, FeedTellsAll,
         \A s \in DOMAIN feed : feed[s] \in [op : {"upsert", "remove"}, id : Ids],
         NEW edits, GoodEdits(edits), docs' = DocsAfter(edits),
         feedSeq' = feedSeq + Len(edits),
         feed' = [s \in DOMAIN feed \cup (feedSeq..(feedSeq + Len(edits) - 1)) |->
                    IF s \in feedSeq..(feedSeq + Len(edits) - 1)
                    THEN [op |-> FeedOpOf(edits[s - feedSeq + 1]), id |-> edits[s - feedSeq + 1].id]
                    ELSE feed[s]]
  PROVE  /\ feedSeq' \in Nat /\ DOMAIN feed' \subseteq Nat
         /\ \A s \in DOMAIN feed' : feed'[s] \in [op : {"upsert", "remove"}, id : Ids]
         /\ FeedTellsAll'
<1> DEFINE n == Len(edits)
           new == feedSeq..(feedSeq + n - 1)
<1>1. /\ edits \in Seq(Edit) /\ OncePerId(edits) /\ n \in Nat /\ DOMAIN edits = 1..n
      /\ \A i \in DOMAIN edits : edits[i] \in Edit /\ GoodEdit(edits[i]) /\ edits[i].id \in Ids
      /\ \A i \in DOMAIN edits : edits[i].kind \in {"upsert", "remove", "mutate"}
  BY EditTypes DEF GoodEdits
<1>2. /\ \A i \in DOMAIN edits : docs'[edits[i].id] = edits[i].new
      /\ \A id \in Ids : (~ \E i \in DOMAIN edits : edits[i].id = id) => docs'[id] = docs[id]
  BY <1>1, DocsAfterIs
<1>3. DOMAIN feed = 0..(feedSeq - 1)
  BY DEF FeedTellsAll
<1>4. DOMAIN feed' = 0..(feedSeq' - 1) /\ feedSeq' \in Nat
  <2>1. DOMAIN feed' = DOMAIN feed \cup new
    OBVIOUS
  <2>2. (0..(feedSeq - 1)) \cup new = 0..(feedSeq + n - 1)
    BY <1>1
  <2>3. QED
    BY <1>1, <1>3, <2>1, <2>2
<1>5. ASSUME NEW i \in DOMAIN edits
      PROVE  /\ feedSeq + i - 1 \in DOMAIN feed' /\ feedSeq + i - 1 \notin DOMAIN feed
             /\ feed'[feedSeq + i - 1] = [op |-> FeedOpOf(edits[i]), id |-> edits[i].id]
  <2>1. feedSeq + i - 1 \in new /\ (feedSeq + i - 1) - feedSeq + 1 = i /\ feedSeq + i - 1 \notin 0..(feedSeq - 1)
    BY <1>1
  <2>2. QED
    BY <1>3, <2>1
<1>6. \A s \in DOMAIN feed : s \in DOMAIN feed' /\ feed'[s] = feed[s]
  <2>1. \A s \in DOMAIN feed : s \notin new
    BY <1>1, <1>3
  <2>2. QED
    BY <2>1
<1>7. \A s \in DOMAIN feed' : s \in DOMAIN feed \/ \E i \in DOMAIN edits : s = feedSeq + i - 1
  <2>1. ASSUME NEW s \in new PROVE s - feedSeq + 1 \in 1..n /\ s = feedSeq + (s - feedSeq + 1) - 1
    BY <1>1
  <2>2. QED
    BY <1>1, <2>1
<1> HIDE DEF new, n
<1>8. \A s \in DOMAIN feed' : feed'[s] \in [op : {"upsert", "remove"}, id : Ids]
  <2>1. \A i \in DOMAIN edits : [op |-> FeedOpOf(edits[i]), id |-> edits[i].id] \in [op : {"upsert", "remove"}, id : Ids]
    BY <1>1 DEF FeedOpOf
  <2>2. ASSUME NEW s \in DOMAIN feed' PROVE feed'[s] \in [op : {"upsert", "remove"}, id : Ids]
    <3>1. CASE s \in DOMAIN feed
      BY <1>6, <3>1
    <3>2. CASE \E i \in DOMAIN edits : s = feedSeq + i - 1
      <4>1. PICK i \in DOMAIN edits : s = feedSeq + i - 1
        BY <3>2
      <4>2. feed'[s] = [op |-> FeedOpOf(edits[i]), id |-> edits[i].id]
        BY <1>5, <4>1
      <4>3. QED
        BY <2>1, <4>2
    <3>3. QED
      BY <1>7, <3>1, <3>2
  <2>3. QED
    BY <2>2
<1>9. ASSUME NEW id \in Ids
      PROVE  (docs'[id] # Absent) <=>
                \E s \in DOMAIN feed' : /\ feed'[s] = [op |-> "upsert", id |-> id]
                                        /\ \A u \in DOMAIN feed' : feed'[u].id = id => u <= s
  <2>1. CASE \E i \in DOMAIN edits : edits[i].id = id
    <3>1. PICK i \in DOMAIN edits : edits[i].id = id
      BY <2>1
    <3>2. i \in Nat
      BY <1>1
    <3> DEFINE at == feedSeq + i - 1
    <3>3. at \in DOMAIN feed' /\ feed'[at] = [op |-> FeedOpOf(edits[i]), id |-> id] /\ at \in Nat
      BY <1>1, <1>5, <3>1
    <3>4. ASSUME NEW u \in DOMAIN feed', feed'[u].id = id PROVE u <= at
      <4>1. CASE u \in DOMAIN feed
        BY <1>1, <1>3, <3>2, <4>1
      <4>2. CASE \E j \in DOMAIN edits : u = feedSeq + j - 1
        <5>1. PICK j \in DOMAIN edits : u = feedSeq + j - 1
          BY <4>2
        <5>2. edits[j].id = id
          BY <1>5, <3>4, <5>1
        <5>3. j = i
          BY <1>1, <3>1, <5>2 DEF OncePerId
        <5>4. QED
          BY <3>3, <5>1, <5>3
      <4>3. QED
        BY <1>7, <4>1, <4>2
    <3>5. (docs'[id] # Absent) <=> FeedOpOf(edits[i]) = "upsert"
      <4>1. docs'[id] = edits[i].new
        BY <1>2, <3>1
      <4>2. edits[i].new # Absent <=> edits[i].kind # "remove"
        BY <1>1 DEF GoodEdit
      <4>3. QED
        BY <4>1, <4>2 DEF FeedOpOf
    <3>6. ASSUME docs'[id] # Absent
          PROVE \E s \in DOMAIN feed' : /\ feed'[s] = [op |-> "upsert", id |-> id]
                                        /\ \A u \in DOMAIN feed' : feed'[u].id = id => u <= s
      BY <3>3, <3>4, <3>5, <3>6
    <3>7. ASSUME NEW s \in DOMAIN feed', feed'[s] = [op |-> "upsert", id |-> id],
                 \A u \in DOMAIN feed' : feed'[u].id = id => u <= s
          PROVE  docs'[id] # Absent
      <4>1. feed'[s].id = id /\ feed'[at].id = id
        BY <3>3, <3>7
      <4>2. s <= at /\ at <= s
        BY <3>3, <3>4, <3>7, <4>1
      <4>3. s \in Nat
        BY <1>4
      <4>4. s = at
        BY <3>3, <4>2, <4>3
      <4>5. [op |-> FeedOpOf(edits[i]), id |-> id] = [op |-> "upsert", id |-> id]
        BY <3>3, <3>7, <4>4
      <4>6. FeedOpOf(edits[i]) = "upsert"
        BY <4>5
      <4>7. QED
        BY <3>5, <4>6
    <3>8. QED
      BY <3>6, <3>7
  <2>2. CASE ~ \E i \in DOMAIN edits : edits[i].id = id
    <3>1. docs'[id] = docs[id]
      BY <1>2, <2>2
    <3>2. \A s \in DOMAIN feed' : feed'[s].id = id => s \in DOMAIN feed /\ feed'[s] = feed[s]
      <4>1. ASSUME NEW s \in DOMAIN feed', feed'[s].id = id, NEW i \in DOMAIN edits, s = feedSeq + i - 1
            PROVE  FALSE
        <5>1. feed'[s] = [op |-> FeedOpOf(edits[i]), id |-> edits[i].id]
          BY <1>5, <4>1
        <5>2. edits[i].id = id
          BY <4>1, <5>1
        <5>3. QED
          BY <2>2, <5>2
      <4>2. QED
        BY <1>6, <1>7, <4>1
    <3>3. (docs[id] # Absent) <=>
             \E s \in DOMAIN feed : /\ feed[s] = [op |-> "upsert", id |-> id]
                                    /\ \A u \in DOMAIN feed : feed[u].id = id => u <= s
      BY DEF FeedTellsAll
    <3>4. \A s : s \in DOMAIN feed' /\ feed'[s] = [op |-> "upsert", id |-> id]
                 <=> s \in DOMAIN feed /\ feed[s] = [op |-> "upsert", id |-> id]
      BY <1>6, <3>2
    <3>5. \A u : u \in DOMAIN feed' /\ feed'[u].id = id <=> u \in DOMAIN feed /\ feed[u].id = id
      BY <1>6, <3>2
    <3>6. QED
      BY <3>1, <3>3, <3>4, <3>5
  <2>3. QED
    BY <2>1, <2>2
<1>10. FeedTellsAll'
  BY <1>4, <1>9 DEF FeedTellsAll
<1>11. DOMAIN feed' \subseteq Nat
  BY <1>4
<1>12. QED
  BY <1>4, <1>8, <1>10, <1>11

-----------------------------------------------------------------------------
(* What a batch does to the counters.                                      *)

\* How many documents are of a kind.
Tally(D, K) == Cardinality({id \in Ids : D[id] \in K})

ShapeDocs(s) == {doc \in AllDocs : ShapeOf(doc) = s}
TermDocs(t) == {doc \in AllDocs : doc.term = t}

\* A tally is a number.
LEMMA TallyIsNat ==
  ASSUME NEW D, NEW K
  PROVE  Tally(D, K) \in Nat
<1>1. IsFiniteSet({id \in Ids : D[id] \in K})
  BY IdsFinite, FS_Subset
<1>2. Cardinality({id \in Ids : D[id] \in K}) \in Nat
  BY <1>1, FS_CardinalityType
<1>3. QED
  BY <1>2 DEF Tally

\* The documents once the first n edits of a batch are in.
Through(edits, n) ==
    [id \in Ids |-> IF \E i \in 1..n : edits[i].id = id
                    THEN edits[CHOOSE i \in 1..n : edits[i].id = id].new ELSE docs[id]]

\* A tally before and after one document leaves its kind or joins it.
Moves(k, m, leaves, joins) ==
    /\ k \in Nat /\ m \in Nat
    /\ leaves => k # 0
    /\ (leaves <=> joins) => m = k
    /\ leaves /\ ~joins => m = k - 1
    /\ ~leaves /\ joins => m = k + 1

\* Changing one document changes a tally by what leaves and what comes.
LEMMA TallyStep ==
  ASSUME NEW D, DOMAIN D = Ids, NEW id \in Ids, NEW new, NEW E, E = [D EXCEPT ![id] = new], NEW K
  PROVE  Moves(Tally(D, K), Tally(E, K), D[id] \in K, new \in K)
<1> DEFINE A == {x \in Ids : D[x] \in K}
           B == {x \in Ids : E[x] \in K}
<1>1. E[id] = new /\ \A x \in Ids : x # id => E[x] = D[x]
  OBVIOUS
<1>2. IsFiniteSet(A) /\ IsFiniteSet(B) /\ Cardinality(A) \in Nat /\ Cardinality(B) \in Nat
  BY IdsFinite, FS_Subset, FS_CardinalityType
<1>3. Tally(D, K) = Cardinality(A) /\ Tally(E, K) = Cardinality(B)
  BY DEF Tally
<1>4. (D[id] \in K <=> id \in A) /\ (new \in K <=> id \in B) /\ \A x : x # id => (x \in A <=> x \in B)
  BY <1>1
<1> HIDE DEF A, B
<1>5. ASSUME D[id] \in K PROVE Cardinality(A) # 0
  BY <1>2, <1>4, <1>5, FS_EmptySet
<1>6. ASSUME D[id] \in K <=> new \in K PROVE A = B
  BY <1>4, <1>6
<1>7. ASSUME D[id] \in K, new \notin K PROVE Cardinality(B) = Cardinality(A) - 1
  <2>1. B = A \ {id} /\ id \in A
    BY <1>4, <1>7
  <2>2. QED
    BY <1>2, <2>1, FS_RemoveElement
<1>8. ASSUME D[id] \notin K, new \in K PROVE Cardinality(B) = Cardinality(A) + 1
  <2>1. B = A \cup {id} /\ id \notin A
    BY <1>4, <1>8
  <2>2. QED
    BY <1>2, <2>1, FS_AddElement
<1>9. QED
  BY <1>2, <1>3, <1>5, <1>6, <1>7, <1>8 DEF Moves

\* A batch goes in edit by edit, and an edit finds the version it retracts.
LEMMA ThroughSteps ==
  ASSUME NEW edits \in Seq(Edit), OncePerId(edits), \A i \in DOMAIN edits : edits[i].old = docs[edits[i].id],
         docs \in [Ids -> Slot]
  PROVE  /\ Through(edits, 0) = docs /\ Through(edits, Len(edits)) = DocsAfter(edits)
         /\ \A n \in 1..Len(edits) :
               /\ Through(edits, n - 1)[edits[n].id] = edits[n].old
               /\ Through(edits, n) = [Through(edits, n - 1) EXCEPT ![edits[n].id] = edits[n].new]
<1> DEFINE N == Len(edits)
           T(n) == Through(edits, n)
<1>1. N \in Nat /\ DOMAIN edits = 1..N /\ \A i \in 1..N : edits[i].id \in Ids
  BY EditTypes
<1>2. \A i, j \in 1..N : edits[i].id = edits[j].id => i = j
  BY <1>1 DEF OncePerId
<1>3. ASSUME NEW n \in 0..N
      PROVE  /\ DOMAIN T(n) = Ids /\ T(n) = [id \in Ids |-> T(n)[id]]
             /\ \A i \in 1..n : T(n)[edits[i].id] = edits[i].new
             /\ \A id \in Ids : (~ \E i \in 1..n : edits[i].id = id) => T(n)[id] = docs[id]
  <2>1. T(n) = [id \in Ids |-> IF \E i \in 1..n : edits[i].id = id
                               THEN edits[CHOOSE i \in 1..n : edits[i].id = id].new ELSE docs[id]]
    BY DEF Through
  <2>2. \A i \in 1..n : i \in 1..N
    BY <1>1
  <2>3. ASSUME NEW i \in 1..n PROVE (CHOOSE j \in 1..n : edits[j].id = edits[i].id) = i
    <3> DEFINE c == CHOOSE j \in 1..n : edits[j].id = edits[i].id
    <3>1. c \in 1..n /\ edits[c].id = edits[i].id
      OBVIOUS
    <3>2. QED
      BY <1>2, <2>2, <3>1
  <2>4. ASSUME NEW i \in 1..n PROVE T(n)[edits[i].id] = edits[i].new
    <3>1. edits[i].id \in Ids
      BY <1>1, <2>2
    <3>2. T(n)[edits[i].id] = edits[CHOOSE j \in 1..n : edits[j].id = edits[i].id].new
      BY <2>1, <3>1
    <3>3. QED
      BY <2>3, <3>2
  <2>5. QED
    BY <2>1, <2>4
<1> HIDE DEF T
<1>4. T(0) = docs
  <2>1. 0 \in 0..N /\ 1..0 = {}
    BY <1>1
  <2>2. T(0) = [id \in Ids |-> T(0)[id]] /\ \A id \in Ids : T(0)[id] = docs[id]
    BY <1>3, <2>1
  <2>3. QED
    BY <2>2
<1>5. T(N) = DocsAfter(edits)
  <2>1. N \in 0..N
    BY <1>1
  <2>2. /\ T(N) = [id \in Ids |-> T(N)[id]]
        /\ \A i \in 1..N : T(N)[edits[i].id] = edits[i].new
        /\ \A id \in Ids : (~ \E i \in 1..N : edits[i].id = id) => T(N)[id] = docs[id]
    BY <1>3, <2>1
  <2>3. /\ DocsAfter(edits) \in [Ids -> Slot]
        /\ \A i \in 1..N : DocsAfter(edits)[edits[i].id] = edits[i].new
        /\ \A id \in Ids : (~ \E i \in 1..N : edits[i].id = id) => DocsAfter(edits)[id] = docs[id]
    BY <1>1, DocsAfterIs
  <2>4. \A id \in Ids : T(N)[id] = DocsAfter(edits)[id]
    BY <2>2, <2>3
  <2>5. QED
    BY <2>2, <2>3, <2>4
<1>6. ASSUME NEW n \in 1..N
      PROVE  /\ T(n - 1)[edits[n].id] = edits[n].old
             /\ T(n) = [T(n - 1) EXCEPT ![edits[n].id] = edits[n].new]
  <2>1. /\ n \in Nat /\ n - 1 \in 0..N /\ n \in 0..N /\ n \in 1..n /\ n \notin 1..(n - 1)
        /\ \A i \in 1..n : i = n \/ i \in 1..(n - 1)
        /\ \A i \in 1..(n - 1) : i \in 1..n
        /\ \A i \in 1..n : i \in 1..N
    BY <1>1
  <2>2. ~ \E i \in 1..(n - 1) : edits[i].id = edits[n].id
    BY <1>2, <2>1
  <2>3. T(n - 1)[edits[n].id] = edits[n].old
    BY <1>1, <1>3, <2>1, <2>2
  <2>4. T(n)[edits[n].id] = edits[n].new
    BY <1>3, <2>1
  <2>5. ASSUME NEW id \in Ids, id # edits[n].id PROVE T(n)[id] = T(n - 1)[id]
    <3>1. CASE \E i \in 1..n : edits[i].id = id
      <4>1. PICK i \in 1..n : edits[i].id = id
        BY <3>1
      <4>2. i \in 1..(n - 1)
        BY <2>1, <2>5, <4>1
      <4>3. T(n)[edits[i].id] = edits[i].new /\ T(n - 1)[edits[i].id] = edits[i].new
        BY <1>3, <2>1, <4>2
      <4>4. QED
        BY <4>1, <4>3
    <3>2. CASE ~ \E i \in 1..n : edits[i].id = id
      BY <1>3, <2>1, <3>2
    <3>3. QED
      BY <3>1, <3>2
  <2>6. DOMAIN T(n - 1) = Ids /\ DOMAIN T(n) = Ids /\ T(n) = [id \in Ids |-> T(n)[id]]
    BY <1>3, <2>1
  <2>7. T(n) = [T(n - 1) EXCEPT ![edits[n].id] = edits[n].new]
    BY <1>1, <2>4, <2>5, <2>6
  <2>8. QED
    BY <2>3, <2>7
<1>7. QED
  BY <1>4, <1>5, <1>6 DEF T

\* The document count is threaded through the batch.
LEMMA CountThreaded ==
  ASSUME NEW edits \in Seq(Edit), docCount \in Nat
  PROVE  \E f \in [0..Len(edits) -> Nat] :
            /\ f[0] = docCount /\ \A n \in 1..Len(edits) : f[n] = CountStep(edits[n], f[n - 1])
            /\ CountAfter(edits) = f[Len(edits)]
<1> DEFINE N == Len(edits)
           G == [p \in (1..N) \X Nat |-> CountStep(edits[p[1]], p[2])]
           Body(f) == [n \in 0..N |-> IF n = 0 THEN docCount ELSE CountStep(edits[n], f[n - 1])]
           c == CHOOSE f : f = Body(f)
<1>1. N \in Nat
  BY EditTypes
<1>2. \A n \in 1..N, k \in Nat : CountStep(edits[n], k) \in Nat
  BY DEF CountStep, Less
<1>3. G \in [(1..N) \X Nat -> Nat] /\ \A n \in 1..N, k \in Nat : G[<<n, k>>] = CountStep(edits[n], k)
  BY <1>2
<1> HIDE DEF G
<1>4. PICK f \in [0..N -> Nat] : f[0] = docCount /\ \A n \in 1..N : f[n] = G[<<n, f[n - 1]>>]
  <2>1. G \in StepFns(N, Nat)
    BY <1>3 DEF StepFns
  <2> HIDE DEF N
  <2>2. PICK f : IsThread(f, N, Nat, docCount, G)
    BY <1>1, <2>1, Threaded
  <2>3. QED
    BY <2>2 DEF IsThread
<1>5. f = Body(f)
  <2>1. ASSUME NEW n \in 0..N PROVE f[n] = IF n = 0 THEN docCount ELSE CountStep(edits[n], f[n - 1])
    <3>1. CASE n = 0
      BY <1>4, <3>1
    <3>2. CASE n # 0
      <4>1. n \in 1..N /\ n - 1 \in 0..N
        BY <1>1, <3>2
      <4>2. f[n - 1] \in Nat
        BY <1>4, <4>1
      <4>3. QED
        BY <1>3, <1>4, <3>2, <4>1, <4>2
    <3>3. QED
      BY <3>1, <3>2
  <2>2. f = [n \in 0..N |-> f[n]]
    BY <1>4
  <2>3. QED
    BY <2>1, <2>2
<1>6. c = Body(c)
  BY <1>5
<1>7. CountAfter(edits) = c[N]
  BY DEF CountAfter
<1> HIDE DEF c
<1>8. c = [n \in 0..N |-> IF n = 0 THEN docCount ELSE CountStep(edits[n], c[n - 1])]
  BY <1>6
<1>9. c[0] = docCount /\ \A n \in 1..N : c[n] = CountStep(edits[n], c[n - 1])
  BY <1>1, <1>8
<1>10. \A n \in 0..N : c[n] \in Nat
  <2> DEFINE P == {n \in 0..N : c[n] \in Nat}
  <2>1. 0 \in P
    BY <1>1, <1>9
  <2>2. ASSUME NEW n \in 1..N, n - 1 \in P PROVE n \in P
    <3>1. n \in 0..N
      BY <1>1
    <3>2. CountStep(edits[n], c[n - 1]) \in Nat
      BY <1>2, <2>2
    <3>3. QED
      BY <1>9, <3>1, <3>2
  <2> HIDE DEF P
  <2>3. \A n \in 0..N : n \in P
    BY <1>1, <2>1, <2>2, Inductive
  <2>4. QED
    BY <2>3 DEF P
<1>11. c \in [0..N -> Nat]
  BY <1>8, <1>10
<1>12. QED
  BY <1>7, <1>9, <1>11

\* So is the shape census.
LEMMA CensusThreaded ==
  ASSUME NEW edits \in Seq(Edit), shapes \in [Shapes -> Nat]
  PROVE  \E f \in [0..Len(edits) -> [Shapes -> Nat]] :
            /\ f[0] = shapes /\ \A n \in 1..Len(edits) : f[n] = CensusStep(edits[n], f[n - 1])
            /\ ShapesAfter(edits) = f[Len(edits)]
<1> DEFINE N == Len(edits)
           V == [Shapes -> Nat]
           G == [p \in (1..N) \X V |-> CensusStep(edits[p[1]], p[2])]
           Body(f) == [n \in 0..N |-> IF n = 0 THEN shapes ELSE CensusStep(edits[n], f[n - 1])]
           c == CHOOSE f : f = Body(f)
<1>1. N \in Nat
  BY EditTypes
<1>2. \A n \in 1..N, k \in V : CensusStep(edits[n], k) \in V
  <2>1. \A doc : ShapeOf(doc) \in Shapes
    BY DEF ShapeOf, Shapes
  <2>2. \A k \in V, s \in Shapes : [k EXCEPT ![s] = Less(@)] \in V /\ [k EXCEPT ![s] = @ + 1] \in V
    BY DEF Less
  <2> HIDE DEF V
  <2>3. QED
    BY <2>1, <2>2 DEF CensusStep
<1> HIDE DEF V
<1>3. G \in [(1..N) \X V -> V] /\ \A n \in 1..N, k \in V : G[<<n, k>>] = CensusStep(edits[n], k)
  BY <1>2
<1> HIDE DEF G
<1>4. PICK f \in [0..N -> V] : f[0] = shapes /\ \A n \in 1..N : f[n] = G[<<n, f[n - 1]>>]
  <2>1. shapes \in V
    BY DEF V
  <2>2. G \in StepFns(N, V)
    BY <1>3 DEF StepFns
  <2> HIDE DEF N
  <2>3. PICK f : IsThread(f, N, V, shapes, G)
    BY <1>1, <2>1, <2>2, Threaded
  <2>4. QED
    BY <2>3 DEF IsThread
<1>5. f = Body(f)
  <2>1. ASSUME NEW n \in 0..N PROVE f[n] = IF n = 0 THEN shapes ELSE CensusStep(edits[n], f[n - 1])
    <3>1. CASE n = 0
      BY <1>4, <3>1
    <3>2. CASE n # 0
      <4>1. n \in 1..N /\ n - 1 \in 0..N
        BY <1>1, <3>2
      <4>2. f[n - 1] \in V
        BY <1>4, <4>1
      <4>3. QED
        BY <1>3, <1>4, <3>2, <4>1, <4>2
    <3>3. QED
      BY <3>1, <3>2
  <2>2. f = [n \in 0..N |-> f[n]]
    BY <1>4
  <2>3. QED
    BY <2>1, <2>2
<1>6. c = Body(c)
  BY <1>5
<1>7. ShapesAfter(edits) = c[N]
  BY DEF ShapesAfter
<1> HIDE DEF c
<1>8. c = [n \in 0..N |-> IF n = 0 THEN shapes ELSE CensusStep(edits[n], c[n - 1])]
  BY <1>6
<1>9. c[0] = shapes /\ \A n \in 1..N : c[n] = CensusStep(edits[n], c[n - 1])
  BY <1>1, <1>8
<1>10. \A n \in 0..N : c[n] \in V
  <2> DEFINE P == {n \in 0..N : c[n] \in V}
  <2>1. 0 \in P
    BY <1>1, <1>9 DEF V
  <2>2. \A n \in 1..N : n - 1 \in P => n \in P
    BY <1>1, <1>2, <1>9
  <2> HIDE DEF P
  <2>3. \A n \in 0..N : n \in P
    BY <1>1, <2>1, <2>2, Inductive
  <2>4. QED
    BY <2>3 DEF P
<1>11. c \in [0..N -> V]
  BY <1>8, <1>10
<1>12. QED
  BY <1>7, <1>9, <1>11 DEF V

\* A good edit's parts, as the counters see them.
LEMMA EditParts ==
  ASSUME NEW e \in Edit, GoodEdit(e)
  PROVE  /\ e.id \in Ids
         /\ (e.old \in AllDocs <=> e.old # Absent) /\ (e.new \in AllDocs <=> e.new # Absent)
         /\ \/ e.kind = "upsert" /\ e.new # Absent
            \/ e.kind = "remove" /\ e.new = Absent /\ e.old # Absent
            \/ e.kind = "mutate" /\ e.new # Absent /\ e.old # Absent /\ e.new.term = e.old.term
<1>1. e.id \in Ids /\ e.old \in Slot /\ e.new \in Slot /\ e.kind \in {"upsert", "remove", "mutate"}
  BY DEF Edit
<1>2. (e.old \in AllDocs <=> e.old # Absent) /\ (e.new \in AllDocs <=> e.new # Absent)
  BY <1>1, NoneDistinct DEF Slot
<1>3. QED
  BY <1>1, <1>2 DEF GoodEdit

\* A statement moves the document count by what it does to the documents.
LEMMA CountStepIs ==
  ASSUME NEW e \in Edit, GoodEdit(e), NEW D, DOMAIN D = Ids, D[e.id] = e.old
  PROVE  CountStep(e, Tally(D, AllDocs)) = Tally([D EXCEPT ![e.id] = e.new], AllDocs)
<1> DEFINE E == [D EXCEPT ![e.id] = e.new]
           k == Tally(D, AllDocs)
           m == Tally(E, AllDocs)
<1>1. e.id \in Ids
  BY EditParts
<1>2. /\ k \in Nat /\ m \in Nat
      /\ e.old \in AllDocs => k # 0
      /\ (e.old \in AllDocs <=> e.new \in AllDocs) => m = k
      /\ e.old \in AllDocs /\ e.new \notin AllDocs => m = k - 1
      /\ e.old \notin AllDocs /\ e.new \in AllDocs => m = k + 1
  <2>1. Moves(k, m, e.old \in AllDocs, e.new \in AllDocs)
    BY <1>1, TallyStep
  <2>2. QED
    BY <2>1 DEF Moves
<1> HIDE DEF E, k, m
<1>3. CASE e.kind = "upsert"
  <2>1. e.new \in AllDocs /\ (e.old \in AllDocs <=> e.old # Absent)
    BY <1>3, EditParts
  <2>2. CountStep(e, k) = (IF e.old # Absent THEN Less(k) ELSE k) + 1
    BY <1>3 DEF CountStep
  <2>3. QED
    BY <1>2, <2>1, <2>2 DEF Less, k, m, E
<1>4. CASE e.kind = "remove"
  <2>1. e.new \notin AllDocs /\ e.old \in AllDocs /\ e.old # Absent
    BY <1>4, EditParts
  <2>2. CountStep(e, k) = Less(k)
    BY <1>4, <2>1 DEF CountStep
  <2>3. QED
    BY <1>2, <2>1, <2>2 DEF Less, k, m, E
<1>5. CASE e.kind = "mutate"
  <2>1. e.new \in AllDocs /\ e.old \in AllDocs
    BY <1>5, EditParts
  <2>2. CountStep(e, k) = k
    BY <1>5 DEF CountStep
  <2>3. QED
    BY <1>2, <2>1, <2>2 DEF k, m, E
<1>6. QED
  BY <1>3, <1>4, <1>5, EditParts

\* The census counts the documents of every shape.
CensusOf(census, D) == \A s \in Shapes : census[s] = Tally(D, ShapeDocs(s))

\* And the census of each shape.
LEMMA CensusStepIs ==
  ASSUME NEW e \in Edit, GoodEdit(e), NEW D, DOMAIN D = Ids, D[e.id] = e.old,
         NEW E, E = [D EXCEPT ![e.id] = e.new],
         NEW census \in [Shapes -> Nat], CensusOf(census, D)
  PROVE  CensusOf(CensusStep(e, census), E)
<1>0. SUFFICES ASSUME NEW s \in Shapes PROVE CensusStep(e, census)[s] = Tally(E, ShapeDocs(s))
  BY DEF CensusOf
<1> DEFINE k == Tally(D, ShapeDocs(s))
           m == Tally(E, ShapeDocs(s))
           out == IF e.old = Absent THEN census ELSE [census EXCEPT ![ShapeOf(e.old)] = Less(@)]
           mid == IF e.old # Absent /\ ShapeOf(e.old) = s THEN Less(k) ELSE k
<1>1. e.id \in Ids
  BY EditParts
<1>2. /\ e.old \in ShapeDocs(s) <=> e.old # Absent /\ ShapeOf(e.old) = s
      /\ e.new \in ShapeDocs(s) <=> e.new # Absent /\ ShapeOf(e.new) = s
  BY EditParts DEF ShapeDocs
<1>3. /\ k \in Nat /\ m \in Nat
      /\ e.old \in ShapeDocs(s) => k # 0
      /\ (e.old \in ShapeDocs(s) <=> e.new \in ShapeDocs(s)) => m = k
      /\ e.old \in ShapeDocs(s) /\ e.new \notin ShapeDocs(s) => m = k - 1
      /\ e.old \notin ShapeDocs(s) /\ e.new \in ShapeDocs(s) => m = k + 1
  <2>1. Moves(k, m, e.old \in ShapeDocs(s), e.new \in ShapeDocs(s))
    BY <1>1, TallyStep
  <2>2. QED
    BY <2>1 DEF Moves
<1>4. census[s] = k
  BY DEF CensusOf
<1> HIDE DEF k, m
<1>5. ShapeOf(e.old) \in Shapes /\ ShapeOf(e.new) \in Shapes
  BY DEF ShapeOf, Shapes
<1>6. DOMAIN out = Shapes /\ out[s] = mid
  <2>1. CASE e.old = Absent
    BY <1>4, <2>1
  <2>2. CASE e.old # Absent
    <3>1. DOMAIN census = Shapes /\ out = [census EXCEPT ![ShapeOf(e.old)] = Less(census[ShapeOf(e.old)])]
      BY <2>2
    <3>2. out[s] = IF ShapeOf(e.old) = s THEN Less(census[s]) ELSE census[s]
      BY <1>5, <3>1
    <3>3. QED
      BY <1>4, <2>2, <3>1, <3>2
  <2>3. QED
    BY <2>1, <2>2
<1>7. CensusStep(e, census) = IF e.new = Absent THEN out ELSE [out EXCEPT ![ShapeOf(e.new)] = @ + 1]
  BY DEF CensusStep
<1> HIDE DEF out
<1>8. CensusStep(e, census)[s] = IF e.new # Absent /\ ShapeOf(e.new) = s THEN mid + 1 ELSE mid
  <2>1. CASE e.new = Absent
    BY <1>6, <1>7, <2>1
  <2>2. CASE e.new # Absent
    <3>1. CensusStep(e, census) = [out EXCEPT ![ShapeOf(e.new)] = out[ShapeOf(e.new)] + 1]
      BY <1>7, <2>2
    <3>2. CensusStep(e, census)[s] = IF ShapeOf(e.new) = s THEN out[s] + 1 ELSE out[s]
      BY <1>5, <1>6, <3>1
    <3>3. QED
      BY <1>6, <2>2, <3>2
  <2>3. QED
    BY <2>1, <2>2
<1>9. mid = IF e.old \in ShapeDocs(s) THEN k - 1 ELSE k
  BY <1>2, <1>3 DEF Less
<1> HIDE DEF mid
<1>10. CensusStep(e, census)[s] = IF e.new \in ShapeDocs(s) THEN mid + 1 ELSE mid
  BY <1>2, <1>8
<1>11. CensusStep(e, census)[s] = m
  BY <1>3, <1>9, <1>10
<1>12. QED
  BY <1>11 DEF m

\* The steps a good batch takes through the documents.
LEMMA BatchSteps ==
  ASSUME NEW edits, GoodEdits(edits), docs \in [Ids -> Slot], NEW n \in 1..Len(edits)
  PROVE  /\ edits[n] \in Edit /\ GoodEdit(edits[n])
         /\ DOMAIN Through(edits, n - 1) = Ids
         /\ Through(edits, n - 1)[edits[n].id] = edits[n].old
         /\ Through(edits, n) = [Through(edits, n - 1) EXCEPT ![edits[n].id] = edits[n].new]
<1>1. edits \in Seq(Edit) /\ OncePerId(edits) /\ \A i \in DOMAIN edits : GoodEdit(edits[i])
  BY DEF GoodEdits
<1>2. DOMAIN edits = 1..Len(edits) /\ \A i \in DOMAIN edits : edits[i] \in Edit
  BY <1>1, EditTypes
<1>3. \A i \in DOMAIN edits : edits[i].old = docs[edits[i].id]
  BY <1>1 DEF GoodEdit
<1>4. /\ Through(edits, n - 1)[edits[n].id] = edits[n].old
      /\ Through(edits, n) = [Through(edits, n - 1) EXCEPT ![edits[n].id] = edits[n].new]
  BY <1>1, <1>3, ThroughSteps
<1>5. DOMAIN Through(edits, n - 1) = Ids
  BY DEF Through
<1>6. QED
  BY <1>1, <1>2, <1>4, <1>5

\* Where they begin and where they end.
LEMMA BatchEnds ==
  ASSUME NEW edits, GoodEdits(edits), docs \in [Ids -> Slot]
  PROVE  /\ Len(edits) \in Nat /\ DOMAIN edits = 1..Len(edits) /\ edits \in Seq(Edit)
         /\ Through(edits, 0) = docs /\ Through(edits, Len(edits)) = DocsAfter(edits)
<1>1. edits \in Seq(Edit) /\ OncePerId(edits) /\ \A i \in DOMAIN edits : edits[i].old = docs[edits[i].id]
  BY DEF GoodEdits, GoodEdit
<1>2. QED
  BY <1>1, EditTypes, ThroughSteps

\* The count a batch stages is that of the documents it leaves.
LEMMA CountKept ==
  ASSUME NEW edits, GoodEdits(edits), docs \in [Ids -> Slot], docCount \in Nat, docCount = Tally(docs, AllDocs)
  PROVE  CountAfter(edits) = Tally(DocsAfter(edits), AllDocs)
<1> DEFINE N == Len(edits)
           T(n) == Through(edits, n)
<1>1. N \in Nat /\ edits \in Seq(Edit) /\ T(0) = docs /\ T(N) = DocsAfter(edits)
  BY BatchEnds
<1>2. PICK f \in [0..N -> Nat] : /\ f[0] = docCount /\ \A n \in 1..N : f[n] = CountStep(edits[n], f[n - 1])
                                 /\ CountAfter(edits) = f[N]
  BY <1>1, CountThreaded
<1> DEFINE P == {n \in 0..N : f[n] = Tally(T(n), AllDocs)}
<1>3. 0 \in P
  BY <1>1, <1>2
<1>4. ASSUME NEW n \in 1..N, n - 1 \in P PROVE n \in P
  <2>1. n \in 0..N /\ f[n - 1] = Tally(T(n - 1), AllDocs)
    BY <1>1, <1>4
  <2>2. CountStep(edits[n], Tally(T(n - 1), AllDocs)) = Tally(T(n), AllDocs)
    <3> DEFINE e == edits[n]
               D == T(n - 1)
    <3>1. /\ e \in Edit /\ GoodEdit(e) /\ DOMAIN D = Ids /\ D[e.id] = e.old
          /\ T(n) = [D EXCEPT ![e.id] = e.new]
      BY BatchSteps
    <3> HIDE DEF e, D, T
    <3>2. CountStep(e, Tally(D, AllDocs)) = Tally([D EXCEPT ![e.id] = e.new], AllDocs)
      BY <3>1, CountStepIs
    <3>3. QED
      BY <3>1, <3>2 DEF e, D
  <2>3. QED
    BY <1>2, <2>1, <2>2
<1> HIDE DEF P
<1>5. \A n \in 0..N : n \in P
  BY <1>1, <1>3, <1>4, Inductive
<1>6. N \in P
  BY <1>1, <1>5
<1>7. QED
  BY <1>1, <1>2, <1>6 DEF P

\* So is the census.
LEMMA CensusKept ==
  ASSUME NEW edits, GoodEdits(edits), docs \in [Ids -> Slot], shapes \in [Shapes -> Nat],
         CensusOf(shapes, docs)
  PROVE  ShapesAfter(edits) \in [Shapes -> Nat] /\ CensusOf(ShapesAfter(edits), DocsAfter(edits))
<1> DEFINE N == Len(edits)
           T(n) == Through(edits, n)
<1>1. N \in Nat /\ edits \in Seq(Edit) /\ T(0) = docs /\ T(N) = DocsAfter(edits)
  BY BatchEnds
<1>2. PICK f \in [0..N -> [Shapes -> Nat]] :
              /\ f[0] = shapes /\ \A n \in 1..N : f[n] = CensusStep(edits[n], f[n - 1])
              /\ ShapesAfter(edits) = f[N]
  BY <1>1, CensusThreaded
<1> DEFINE P == {n \in 0..N : CensusOf(f[n], T(n))}
<1>3. 0 \in P
  BY <1>1, <1>2
<1>4. ASSUME NEW n \in 1..N, n - 1 \in P PROVE n \in P
  <2>1. n \in 0..N /\ n - 1 \in 0..N /\ CensusOf(f[n - 1], T(n - 1))
    BY <1>1, <1>4
  <2>2. f[n - 1] \in [Shapes -> Nat]
    BY <1>2, <2>1
  <2>3. /\ edits[n] \in Edit /\ GoodEdit(edits[n])
        /\ DOMAIN T(n - 1) = Ids /\ T(n - 1)[edits[n].id] = edits[n].old
        /\ T(n) = [T(n - 1) EXCEPT ![edits[n].id] = edits[n].new]
    BY BatchSteps
  <2>4. CensusOf(CensusStep(edits[n], f[n - 1]), T(n))
    <3> DEFINE e == edits[n]
               D == T(n - 1)
               E == T(n)
               k == f[n - 1]
    <3>1. /\ e \in Edit /\ GoodEdit(e) /\ DOMAIN D = Ids /\ D[e.id] = e.old
          /\ E = [D EXCEPT ![e.id] = e.new] /\ k \in [Shapes -> Nat] /\ CensusOf(k, D)
      BY <2>1, <2>2, <2>3
    <3> HIDE DEF e, D, E, k
    <3>2. CensusOf(CensusStep(e, k), E)
      BY <3>1, CensusStepIs
    <3>3. QED
      BY <3>2 DEF e, E, k
  <2>5. QED
    BY <1>2, <2>1, <2>4
<1> HIDE DEF P
<1>5. \A n \in 0..N : n \in P
  BY <1>1, <1>3, <1>4, Inductive
<1>6. N \in P /\ N \in 0..N
  BY <1>1, <1>5
<1>7. QED
  BY <1>1, <1>2, <1>6 DEF P

\* How many of the first n numbers are in a set.
LEMMA CountUpTo ==
  ASSUME NEW S, NEW n \in Nat \ {0}
  PROVE  /\ Cardinality({i \in 1..(n - 1) : i \in S}) \in Nat
         /\ Cardinality({i \in 1..n : i \in S}) =
               Cardinality({i \in 1..(n - 1) : i \in S}) + (IF n \in S THEN 1 ELSE 0)
<1> DEFINE A == {i \in 1..(n - 1) : i \in S}
           B == {i \in 1..n : i \in S}
<1>1. IsFiniteSet(1..(n - 1))
  BY FS_Interval
<1>2. IsFiniteSet(A) /\ Cardinality(A) \in Nat
  BY <1>1, FS_Subset, FS_CardinalityType
<1>3. n \notin A /\ B = IF n \in S THEN A \cup {n} ELSE A
  OBVIOUS
<1> HIDE DEF A, B
<1>4. CASE n \in S
  <2>1. B = A \cup {n}
    BY <1>3, <1>4
  <2>2. Cardinality(B) = Cardinality(A) + 1
    BY <1>2, <1>3, <2>1, FS_AddElement
  <2>3. QED
    BY <1>2, <1>4, <2>2 DEF A, B
<1>5. CASE n \notin S
  BY <1>2, <1>3, <1>5 DEF A, B
<1>6. QED
  BY <1>4, <1>5

\* The frequency deltas of a batch are the difference between the documents with
\* the term it leaves and those it found.
LEMMA FrequencyKept ==
  ASSUME NEW edits, GoodEdits(edits), docs \in [Ids -> Slot], NEW t \in Terms
  PROVE  Tally(docs, TermDocs(t)) + DfDelta(edits, t) = Tally(DocsAfter(edits), TermDocs(t))
<1> DEFINE N == Len(edits)
           T(n) == Through(edits, n)
           K == TermDocs(t)
           U == {i \in DOMAIN edits : edits[i].kind = "upsert" /\ edits[i].new.term = t}
           V == {i \in DOMAIN edits : edits[i].kind # "mutate" /\ edits[i].old # Absent /\ edits[i].old.term = t}
           u(n) == Cardinality({i \in 1..n : i \in U})
           v(n) == Cardinality({i \in 1..n : i \in V})
           P == {n \in 0..N : /\ u(n) \in Nat /\ v(n) \in Nat /\ Tally(docs, K) \in Nat
                              /\ Tally(docs, K) + u(n) - v(n) = Tally(T(n), K)}
<1>1. N \in Nat /\ DOMAIN edits = 1..N /\ T(0) = docs /\ T(N) = DocsAfter(edits)
  BY BatchEnds
<1>2. DfDelta(edits, t) = u(N) - v(N)
  <2>1. {i \in 1..N : i \in U} = U /\ {i \in 1..N : i \in V} = V
    BY <1>1
  <2>2. DfDelta(edits, t) = Cardinality(U) - Cardinality(V)
    BY DEF DfDelta
  <2>3. QED
    BY <2>1, <2>2
<1>3. Tally(docs, K) \in Nat
  BY TallyIsNat
<1>4. 0 \in P
  <2>1. {i \in 1..0 : i \in U} = {} /\ {i \in 1..0 : i \in V} = {}
    OBVIOUS
  <2>2. u(0) = 0 /\ v(0) = 0
    BY <2>1, FS_EmptySet
  <2> HIDE DEF u, v
  <2>3. QED
    BY <1>1, <1>3, <2>2
<1>5. ASSUME NEW n \in 1..N, n - 1 \in P PROVE n \in P
  <2> DEFINE e == edits[n]
             D == T(n - 1)
  <2>1. /\ e \in Edit /\ GoodEdit(e) /\ DOMAIN D = Ids /\ D[e.id] = e.old
        /\ T(n) = [D EXCEPT ![e.id] = e.new]
    BY BatchSteps
  <2>2. n \in Nat \ {0} /\ n \in DOMAIN edits /\ n \in 0..N
    BY <1>1
  <2>3. /\ n \in U <=> e.kind = "upsert" /\ e.new.term = t
        /\ n \in V <=> e.kind # "mutate" /\ e.old # Absent /\ e.old.term = t
    BY <2>2
  <2> HIDE DEF U, V
  <2>4. /\ u(n) = u(n - 1) + (IF n \in U THEN 1 ELSE 0)
        /\ v(n) = v(n - 1) + (IF n \in V THEN 1 ELSE 0)
    BY <2>2, CountUpTo
  <2>5. u(n - 1) \in Nat /\ v(n - 1) \in Nat /\ Tally(docs, K) + u(n - 1) - v(n - 1) = Tally(D, K)
    BY <1>5
  <2> HIDE DEF e, D, u, v, T, N, K
  <2>6. Moves(Tally(D, K), Tally(T(n), K), e.old \in K, e.new \in K)
    <3>1. e.id \in Ids
      BY <2>1, EditParts
    <3>2. QED
      BY <2>1, <3>1, TallyStep
  <2>7. /\ e.old \in K <=> e.old # Absent /\ e.old.term = t
        /\ e.new \in K <=> e.new # Absent /\ e.new.term = t
    BY <2>1, EditParts DEF K, TermDocs
  <2>8. \/ (n \in U <=> e.new \in K) /\ (n \in V <=> e.old \in K)
        \/ n \notin U /\ n \notin V /\ (e.new \in K <=> e.old \in K)
    BY <2>1, <2>3, <2>7, EditParts
  <2>9. /\ u(n) \in Nat /\ v(n) \in Nat
        /\ Tally(docs, K) + u(n) - v(n) = Tally(T(n), K)
    BY <1>3, <2>4, <2>5, <2>6, <2>8 DEF Moves
  <2>10. QED
    BY <1>3, <2>2, <2>9
<1> HIDE DEF P
<1>6. \A n \in 0..N : n \in P
  BY <1>1, <1>4, <1>5, Inductive
<1>7. N \in P
  BY <1>1, <1>6
<1> HIDE DEF u, v, K, T, N
<1>8. u(N) \in Nat /\ v(N) \in Nat /\ Tally(docs, K) + u(N) - v(N) = Tally(T(N), K)
  BY <1>7 DEF P
<1>9. Tally(docs, K) + DfDelta(edits, t) = Tally(T(N), K)
  BY <1>2, <1>3, <1>8
<1>10. QED
  BY <1>1, <1>9 DEF K

\* The tallies are what CountersExact counts.
LEMMA TalliesAre ==
  ASSUME NEW D \in [Ids -> Slot]
  PROVE  LET held == {id \in Ids : D[id] # Absent}
         IN  /\ Cardinality(held) = Tally(D, AllDocs)
             /\ \A s \in Shapes : Cardinality({id \in held : ShapeOf(D[id]) = s}) = Tally(D, ShapeDocs(s))
             /\ \A t \in Terms : Cardinality({id \in held : D[id].term = t}) = Tally(D, TermDocs(t))
<1> DEFINE held == {id \in Ids : D[id] # Absent}
<1>1. \A id \in Ids : D[id] # Absent <=> D[id] \in AllDocs
  BY NoneDistinct DEF Slot
<1>2. held = {id \in Ids : D[id] \in AllDocs}
  BY <1>1
<1>3. \A s \in Shapes : {id \in held : ShapeOf(D[id]) = s} = {id \in Ids : D[id] \in ShapeDocs(s)}
  BY <1>1 DEF ShapeDocs
<1>4. \A t \in Terms : {id \in held : D[id].term = t} = {id \in Ids : D[id] \in TermDocs(t)}
  BY <1>1 DEF TermDocs
<1> HIDE DEF held
<1>5. QED
  BY <1>2, <1>3, <1>4 DEF Tally, held

\* A batch leaves the counters exact.
LEMMA CountersKept ==
  ASSUME docs \in [Ids -> Slot], docCount \in Nat, shapes \in [Shapes -> Nat], df \in [Terms -> Int], CountersExact,
         NEW edits, GoodEdits(edits), docs' = DocsAfter(edits),
         docCount' = IF Len(edits) = 0 \/ edits[1].kind = "mutate" THEN docCount ELSE CountAfter(edits),
         shapes' = IF Len(edits) = 0 THEN shapes ELSE ShapesAfter(edits),
         df' = [u \in Terms |-> df[u] + DfDelta(edits, u)]
  PROVE  docCount' \in Nat /\ shapes' \in [Shapes -> Nat] /\ df' \in [Terms -> Int] /\ CountersExact'
<1> DEFINE N == Len(edits)
<1>1. /\ docCount = Tally(docs, AllDocs) /\ CensusOf(shapes, docs)
      /\ \A t \in Terms : df[t] = Tally(docs, TermDocs(t))
  BY TalliesAre DEF CountersExact, Held, CensusOf
<1>2. docs' \in [Ids -> Slot]
  <2>1. edits \in Seq(Edit) /\ OncePerId(edits)
    BY DEF GoodEdits
  <2>2. QED
    BY <2>1, DocsAfterIs
<1>3. N \in Nat /\ DOMAIN edits = 1..N /\ edits \in Seq(Edit) /\ (N = 0 => docs' = docs)
  BY BatchEnds
<1>4. CountAfter(edits) = Tally(docs', AllDocs)
  BY <1>1, CountKept
<1>5. ShapesAfter(edits) \in [Shapes -> Nat] /\ CensusOf(ShapesAfter(edits), docs')
  BY <1>1, CensusKept
<1>6. \A K : Tally(docs', K) \in Nat
  BY TallyIsNat
<1>7. docCount' = Tally(docs', AllDocs)
  <2>1. CASE N = 0
    BY <1>1, <1>3, <2>1
  <2>2. CASE N # 0 /\ edits[1].kind = "mutate"
    <3>1. N = 1
      <4>1. 1 \in DOMAIN edits
        BY <1>3, <2>2
      <4>2. QED
        BY <2>2, <4>1 DEF GoodEdits
    <3>2. PICK f \in [0..N -> Nat] : /\ f[0] = docCount /\ \A n \in 1..N : f[n] = CountStep(edits[n], f[n - 1])
                                     /\ CountAfter(edits) = f[N]
      BY <1>3, CountThreaded
    <3>3. 1 \in 1..N /\ 1 - 1 = 0
      BY <3>1
    <3>4. f[1] = CountStep(edits[1], f[0])
      BY <3>2, <3>3
    <3>5. CountStep(edits[1], f[0]) = f[0]
      BY <2>2 DEF CountStep
    <3>6. CountAfter(edits) = docCount
      BY <3>1, <3>2, <3>4, <3>5
    <3>7. QED
      BY <1>4, <2>2, <3>6
  <2>3. CASE N # 0 /\ edits[1].kind # "mutate"
    BY <1>4, <2>3
  <2>4. QED
    BY <2>1, <2>2, <2>3
<1>8. shapes' \in [Shapes -> Nat] /\ CensusOf(shapes', docs')
  BY <1>1, <1>3, <1>5
<1>9. ASSUME NEW t \in Terms PROVE df'[t] = Tally(docs', TermDocs(t)) /\ df'[t] \in Int
  <2>1. df'[t] = Tally(docs, TermDocs(t)) + DfDelta(edits, t)
    BY <1>1
  <2>2. df'[t] = Tally(docs', TermDocs(t))
    BY <2>1, FrequencyKept
  <2>3. QED
    BY <1>6, <2>2
<1>10. CountersExact'
  <2> DEFINE held == {id \in Ids : docs'[id] # Absent}
  <2>1. /\ Cardinality(held) = Tally(docs', AllDocs)
        /\ \A s \in Shapes : Cardinality({id \in held : ShapeOf(docs'[id]) = s}) = Tally(docs', ShapeDocs(s))
        /\ \A t \in Terms : Cardinality({id \in held : docs'[id].term = t}) = Tally(docs', TermDocs(t))
    BY <1>2, TalliesAre
  <2>2. Held' = held
    BY DEF Held
  <2> HIDE DEF held
  <2>3. QED
    BY <1>7, <1>8, <1>9, <2>1, <2>2 DEF CountersExact, CensusOf, ShapeOf
<1>11. df' \in [Terms -> Int]
  BY <1>9
<1>12. QED
  BY <1>6, <1>7, <1>8, <1>10, <1>11

-----------------------------------------------------------------------------
(* A batch of the store as it is keeps the store's promises.               *)

\* A commit of a good batch leaves everything in step.
LEMMA WriteInv ==
  ASSUME StoreInv, building = Idle, NEW t, GoodTx(t), Write(t), UNCHANGED <<indexed, registry, building>>
  PROVE  StoreInv'
<1> DEFINE edits == t.edits
           n == Len(edits)
<1>1. GoodEdits(edits) /\ Registered(edits) /\ t.seq = feedSeq /\ t.count = CountAfter(edits) /\ t.shapes = ShapesAfter(edits)
  BY DEF GoodTx
<1>2. /\ docs \in [Ids -> Slot] /\ docCount \in Nat /\ feedSeq \in Nat /\ shapes \in [Shapes -> Nat] /\ df \in [Terms -> Int]
      /\ rows \subseteq {"term", "coll", "pidx"} \X (Terms \cup Colls \cup Nums \cup Texts) \X Ids
      /\ \A s \in DOMAIN feed : feed[s] \in [op : {"upsert", "remove"}, id : Ids]
      /\ registry \subseteq Colls /\ indexed \in BOOLEAN
      /\ RowInv /\ ListInv /\ CountersExact /\ FeedTellsAll
  BY DEF StoreInv, TypeOK, Slot
<1>3. /\ docs' = DocsAfter(edits) /\ rows' = RowsAfter(edits)
      /\ docCount' = IF n = 0 \/ edits[1].kind = "mutate" THEN docCount ELSE CountAfter(edits)
      /\ shapes' = IF n = 0 THEN shapes ELSE ShapesAfter(edits)
      /\ df' = [u \in Terms |-> df[u] + DfDelta(edits, u)]
      /\ feedSeq' = IF n = 0 THEN feedSeq ELSE feedSeq + n
      /\ feed' = [s \in DOMAIN feed \cup (feedSeq..(feedSeq + n - 1)) |->
                    IF s \in feedSeq..(feedSeq + n - 1)
                    THEN [op |-> FeedOpOf(edits[s - feedSeq + 1]), id |-> edits[s - feedSeq + 1].id]
                    ELSE feed[s]]
  BY <1>1 DEF Write
<1> HIDE DEF edits
<1>4. feedSeq' = feedSeq + n
  <2>1. feedSeq \in Nat /\ feedSeq' = IF n = 0 THEN feedSeq ELSE feedSeq + n
    BY <1>2, <1>3
  <2> HIDE DEF n
  <2>2. QED
    BY <2>1
<1>5. docs' \in [Ids -> Slot]
  <2>1. edits \in Seq(Edit) /\ OncePerId(edits)
    BY <1>1 DEF GoodEdits
  <2>2. QED
    BY <1>2, <1>3, <2>1, DocsAfterIs
<1>6. /\ rows' \subseteq {"term", "coll", "pidx"} \X (Terms \cup Colls \cup Nums \cup Texts) \X Ids
      /\ RowInv'
  BY <1>1, <1>2, <1>3, RowsKept
<1>7. ListInv'
  BY <1>1, <1>2, <1>3, ListKept
<1>8. docCount' \in Nat /\ shapes' \in [Shapes -> Nat] /\ df' \in [Terms -> Int] /\ CountersExact'
  BY <1>1, <1>2, <1>3, CountersKept
<1>9. /\ feedSeq' \in Nat /\ DOMAIN feed' \subseteq Nat
      /\ \A s \in DOMAIN feed' : feed'[s] \in [op : {"upsert", "remove"}, id : Ids]
      /\ FeedTellsAll'
  BY <1>1, <1>2, <1>3, <1>4, FeedKept
<1>10. TypeOK'
  BY <1>2, <1>5, <1>6, <1>8, <1>9 DEF TypeOK, Slot
<1>11. QED
  BY <1>2, <1>6, <1>7, <1>8, <1>9, <1>10 DEF StoreInv

-----------------------------------------------------------------------------
(* What a call stages.                                                     *)

Op == [id : Ids, doc : Slot]
OnceInOps(ops) == \A i, j \in DOMAIN ops : ops[i].id = ops[j].id => i = j

\* Where a call names every id once, a document becomes what its operation asks for
\* and the others stay.
LEMMA InOrderIs ==
  ASSUME NEW m \in Nat, NEW ops \in [1..m -> Op], OnceInOps(ops), docs \in [Ids -> Slot]
  PROVE  /\ InOrder(ops) \in [Ids -> Slot]
         /\ \A i \in 1..m : InOrder(ops)[ops[i].id] = ops[i].doc
         /\ \A id \in Ids : (~ \E i \in 1..m : ops[i].id = id) => InOrder(ops)[id] = docs[id]
<1> DEFINE last(id) == CHOOSE i \in DOMAIN ops :
                          ops[i].id = id /\ \A j \in DOMAIN ops : ops[j].id = id => j <= i
<1>1. DOMAIN ops = 1..m /\ \A i \in 1..m : ops[i].id \in Ids /\ ops[i].doc \in Slot
  BY DEF Op
<1>2. ASSUME NEW i \in 1..m PROVE last(ops[i].id) = i
  <2>1. \A j \in DOMAIN ops : ops[j].id = ops[i].id => j = i
    BY <1>1 DEF OnceInOps
  <2>2. i \in DOMAIN ops /\ i <= i
    BY <1>1
  <2>3. ops[i].id = ops[i].id /\ \A j \in DOMAIN ops : ops[j].id = ops[i].id => j <= i
    BY <2>1, <2>2
  <2>4. last(ops[i].id) \in DOMAIN ops /\ ops[last(ops[i].id)].id = ops[i].id
    BY <2>2, <2>3
  <2>5. QED
    BY <2>1, <2>4
<1>3. InOrder(ops) = [id \in Ids |-> IF \E i \in DOMAIN ops : ops[i].id = id
                                     THEN ops[last(id)].doc ELSE docs[id]]
  BY DEF InOrder
<1> HIDE DEF last
<1>4. \A i \in 1..m : InOrder(ops)[ops[i].id] = ops[i].doc
  BY <1>1, <1>2, <1>3
<1>5. \A id \in Ids : (~ \E i \in 1..m : ops[i].id = id) => InOrder(ops)[id] = docs[id]
  BY <1>1, <1>3
<1>6. \A id \in Ids : InOrder(ops)[id] \in Slot
  BY <1>1, <1>4, <1>5
<1>7. QED
  BY <1>3, <1>4, <1>5, <1>6

\* What upserts and removals stage is a good batch that does what they ask for.
LEMMA EditsOfGood ==
  ASSUME NEW m \in Nat, NEW ops \in [1..m -> Op], OnceInOps(ops), docs \in [Ids -> Slot], indexed \in BOOLEAN
  PROVE  /\ GoodEdits(EditsOf(ops)) /\ InOrder(ops) = DocsAfter(EditsOf(ops))
         /\ \A i \in DOMAIN EditsOf(ops) : \E k \in 1..m : /\ EditsOf(ops)[i].new = ops[k].doc
                                                           /\ EditsOf(ops)[i].id = ops[k].id
         /\ \A k \in 1..m : ops[k].doc # Absent \/ docs[ops[k].id] # Absent
                               => \E i \in DOMAIN EditsOf(ops) : EditsOf(ops)[i].id = ops[k].id
<1> DEFINE Entry(op) == IF op.doc = Absent THEN RemoveEdit(op.id) ELSE UpsertEdit(op.id, op.doc)
           kept == {i \in DOMAIN ops : ops[i].doc # Absent \/ docs[ops[i].id] # Absent}
           c == Cardinality(kept)
           at(i) == InKeyOrder(kept, i)
           E == EditsOf(ops)
<1>1. DOMAIN ops = 1..m /\ \A k \in 1..m : ops[k].id \in Ids /\ ops[k].doc \in Slot
  BY DEF Op
<1>2. kept \in SUBSET Nat /\ IsFiniteSet(kept)
  <2>1. IsFiniteSet(1..m)
    BY FS_Interval
  <2>2. kept \subseteq 1..m
    BY <1>1
  <2>3. QED
    BY <2>1, <2>2, FS_Subset
<1>3. \A k \in kept : k \in 1..m /\ (ops[k].doc = Absent => docs[ops[k].id] # Absent)
  BY <1>1
<1>4. \A k \in 1..m : ops[k].doc # Absent \/ docs[ops[k].id] # Absent => k \in kept
  BY <1>1
<1>5. E = [n \in 1..c |-> Entry(ops[at(n)])]
  BY DEF EditsOf
<1> HIDE DEF kept
<1>6. /\ c \in Nat /\ \A i \in 1..c : at(i) \in kept
      /\ \A i, j \in 1..c : at(i) = at(j) => i = j
      /\ \A k \in kept : \E i \in 1..c : at(i) = k
  BY <1>2, ReadsEachOnce
<1> HIDE DEF c, at, E
<1>7. ASSUME NEW k \in kept
      PROVE  /\ Entry(ops[k]) \in Edit /\ GoodEdit(Entry(ops[k])) /\ Entry(ops[k]).kind # "mutate"
             /\ Entry(ops[k]).id = ops[k].id /\ Entry(ops[k]).new = ops[k].doc
  <2>1. k \in 1..m /\ ops[k].id \in Ids /\ ops[k].doc \in Slot /\ docs[ops[k].id] \in Slot
    BY <1>1, <1>3
  <2>2. CASE ops[k].doc = Absent
    <3>1. Entry(ops[k]) = [kind |-> "remove", id |-> ops[k].id, old |-> docs[ops[k].id], new |-> Absent, idx |-> indexed]
      BY <2>2 DEF RemoveEdit
    <3>2. docs[ops[k].id] # Absent
      BY <1>3, <2>2
    <3> HIDE DEF Entry
    <3>3. QED
      BY <2>1, <2>2, <3>1, <3>2 DEF Edit, GoodEdit, Slot
  <2>3. CASE ops[k].doc # Absent
    <3>1. Entry(ops[k]) = [kind |-> "upsert", id |-> ops[k].id, old |-> docs[ops[k].id], new |-> ops[k].doc, idx |-> indexed]
      BY <2>3 DEF UpsertEdit
    <3> HIDE DEF Entry
    <3>2. QED
      BY <2>1, <2>3, <3>1 DEF Edit, GoodEdit
  <2>4. QED
    BY <2>2, <2>3
<1> HIDE DEF Entry
<1>8. /\ DOMAIN E = 1..c
      /\ \A i \in 1..c : /\ at(i) \in kept /\ E[i] = Entry(ops[at(i)])
                         /\ E[i] \in Edit /\ GoodEdit(E[i]) /\ E[i].kind # "mutate"
                         /\ E[i].id = ops[at(i)].id /\ E[i].new = ops[at(i)].doc
  BY <1>5, <1>6, <1>7
<1>9. OncePerId(E)
  <2>1. ASSUME NEW i \in 1..c, NEW j \in 1..c, E[i].id = E[j].id PROVE i = j
    <3>1. at(i) \in DOMAIN ops /\ at(j) \in DOMAIN ops /\ ops[at(i)].id = ops[at(j)].id
      BY <1>1, <1>3, <1>8, <2>1
    <3>2. at(i) = at(j)
      BY <3>1 DEF OnceInOps
    <3>3. QED
      BY <1>6, <3>2
  <2>2. QED
    BY <1>8, <2>1 DEF OncePerId
<1>10. E \in Seq(Edit)
  <2>1. E \in [1..c -> Edit]
    BY <1>5, <1>8
  <2>2. QED
    BY <1>6, <2>1, SeqDef
<1>11. GoodEdits(E)
  BY <1>8, <1>9, <1>10 DEF GoodEdits
<1>12. \A i \in DOMAIN E : \E k \in 1..m : E[i].new = ops[k].doc /\ E[i].id = ops[k].id
  BY <1>3, <1>8
<1>13. ASSUME NEW k \in 1..m, ops[k].doc # Absent \/ docs[ops[k].id] # Absent
       PROVE  \E i \in DOMAIN E : E[i].id = ops[k].id /\ E[i].new = ops[k].doc
  <2>1. PICK i \in 1..c : at(i) = k
    BY <1>4, <1>6, <1>13
  <2>2. QED
    BY <1>8, <2>1
<1>14. InOrder(ops) = DocsAfter(E)
  <2>1. /\ InOrder(ops) \in [Ids -> Slot]
        /\ \A i \in 1..m : InOrder(ops)[ops[i].id] = ops[i].doc
        /\ \A id \in Ids : (~ \E i \in 1..m : ops[i].id = id) => InOrder(ops)[id] = docs[id]
    BY InOrderIs
  <2>2. /\ DocsAfter(E) \in [Ids -> Slot]
        /\ \A i \in DOMAIN E : DocsAfter(E)[E[i].id] = E[i].new
        /\ \A id \in Ids : (~ \E i \in DOMAIN E : E[i].id = id) => DocsAfter(E)[id] = docs[id]
    BY <1>9, <1>10, DocsAfterIs
  <2>3. ASSUME NEW id \in Ids PROVE InOrder(ops)[id] = DocsAfter(E)[id]
    <3>1. CASE ~ \E k \in 1..m : ops[k].id = id
      <4>1. ~ \E i \in DOMAIN E : E[i].id = id
        BY <1>12, <3>1
      <4>2. QED
        BY <2>1, <2>2, <3>1, <4>1
    <3>2. ASSUME NEW k \in 1..m, ops[k].id = id PROVE InOrder(ops)[id] = DocsAfter(E)[id]
      <4>1. InOrder(ops)[id] = ops[k].doc
        BY <2>1, <3>2
      <4>2. CASE ops[k].doc # Absent \/ docs[id] # Absent
        BY <1>13, <2>2, <3>2, <4>1, <4>2
      <4>3. CASE ops[k].doc = Absent /\ docs[id] = Absent
        <5>1. ASSUME NEW i \in DOMAIN E, E[i].id = id PROVE FALSE
          <6>1. i \in 1..c /\ at(i) \in kept /\ ops[at(i)].id = id
            BY <1>8, <5>1
          <6>2. at(i) \in DOMAIN ops /\ k \in DOMAIN ops
            BY <1>1, <1>3, <6>1
          <6>3. at(i) = k
            BY <3>2, <6>1, <6>2 DEF OnceInOps
          <6>4. QED
            BY <1>3, <3>2, <4>3, <6>1, <6>3
        <5>2. DocsAfter(E)[id] = docs[id]
          BY <2>2, <5>1
        <5>3. QED
          BY <4>1, <4>3, <5>2
      <4>4. QED
        BY <4>2, <4>3
    <3>3. QED
      BY <3>1, <3>2
  <2>4. QED
    BY <2>1, <2>2, <2>3
<1>15. \A k \in 1..m : ops[k].doc # Absent \/ docs[ops[k].id] # Absent => \E i \in DOMAIN E : E[i].id = ops[k].id
  BY <1>13
<1>16. QED
  BY <1>11, <1>12, <1>14, <1>15 DEF E

\* So is a payload mutation.
LEMMA MutateGood ==
  ASSUME NEW id \in Ids, NEW val \in Nums \cup Texts \cup {None}, docs \in [Ids -> Slot], indexed \in BOOLEAN,
         docs[id] # Absent, ListInv
  PROVE  LET ops == <<Upsert(id, [docs[id] EXCEPT !.val = val])>>
             edits == <<MutateEdit(id, val)>>
         IN  GoodEdits(edits) /\ Registered(edits) /\ InOrder(ops) = DocsAfter(edits)
<1> DEFINE new == [docs[id] EXCEPT !.val = val]
           ops == <<Upsert(id, new)>>
           e == MutateEdit(id, val)
           edits == <<e>>
<1>1. docs[id] \in AllDocs
  BY DEF Slot
<1>2. new \in AllDocs /\ new.coll = docs[id].coll /\ new.term = docs[id].term /\ new # Absent
  BY <1>1, NoneDistinct DEF AllDocs
<1>3. e = [kind |-> "mutate", id |-> id, old |-> docs[id], new |-> new, idx |-> indexed]
  BY DEF MutateEdit
<1>4. Upsert(id, new) = [id |-> id, doc |-> new]
  BY DEF Upsert
<1> HIDE DEF new, e
<1>5. e \in Edit /\ GoodEdit(e) /\ e.kind = "mutate" /\ e.id = id /\ e.new = new
  BY <1>1, <1>2, <1>3 DEF Edit, GoodEdit, Slot
<1>6. edits \in Seq(Edit) /\ Len(edits) = 1 /\ DOMAIN edits = {1} /\ edits[1] = e
  BY <1>5
<1>7. ops \in [1..1 -> Op] /\ DOMAIN ops = {1} /\ ops[1].id = id /\ ops[1].doc = new
  <2>1. [id |-> id, doc |-> new] \in Op
    BY <1>2 DEF Op, Slot
  <2>2. QED
    BY <1>4, <2>1
<1> HIDE DEF ops, edits
<1>8. OncePerId(edits) /\ GoodEdits(edits)
  BY <1>5, <1>6 DEF OncePerId, GoodEdits
<1>9. Registered(edits)
  BY <1>2, <1>5, <1>6 DEF Registered, ListInv
<1>10. InOrder(ops) = DocsAfter(edits)
  <2>1. OnceInOps(ops)
    BY <1>7 DEF OnceInOps
  <2>2. /\ InOrder(ops) \in [Ids -> Slot]
        /\ \A i \in 1..1 : InOrder(ops)[ops[i].id] = ops[i].doc
        /\ \A x \in Ids : (~ \E i \in 1..1 : ops[i].id = x) => InOrder(ops)[x] = docs[x]
    BY <1>7, <2>1, InOrderIs
  <2>3. /\ DocsAfter(edits) \in [Ids -> Slot]
        /\ \A i \in DOMAIN edits : DocsAfter(edits)[edits[i].id] = edits[i].new
        /\ \A x \in Ids : (~ \E i \in DOMAIN edits : edits[i].id = x) => DocsAfter(edits)[x] = docs[x]
    BY <1>6, <1>8, DocsAfterIs
  <2>4. \A i \in 1..1 : i = 1
    OBVIOUS
  <2>5. \A x \in Ids : InOrder(ops)[x] = DocsAfter(edits)[x]
    BY <1>5, <1>6, <1>7, <2>2, <2>3, <2>4
  <2>6. QED
    BY <2>2, <2>3, <2>5
<1>11. QED
  BY <1>8, <1>9, <1>10 DEF ops, edits, e, new

-----------------------------------------------------------------------------
(* The steps.                                                              *)

\* Calls name a document once, maintenance keeps out of the writers' way, and all
\* writers share a handle.
Calm ==
    /\ ~RepeatIds /\ ~DropRaces /\ ~BuildRaces
    /\ \A v, w \in Writers : HandleOf[v] = HandleOf[w]

\* What a batch means to the store stays while the store stays.
LEMMA BatchKept ==
  ASSUME UNCHANGED durable, NEW edits, NEW ops
  PROVE  /\ CountAfter(edits)' = CountAfter(edits) /\ ShapesAfter(edits)' = ShapesAfter(edits)
         /\ DocsAfter(edits)' = DocsAfter(edits) /\ InOrder(ops)' = InOrder(ops)
         /\ feedSeq' = feedSeq /\ (GoodEdits(edits) => GoodEdits(edits)')
<1>1. UNCHANGED docs /\ UNCHANGED indexed /\ UNCHANGED docCount /\ UNCHANGED shapes /\ UNCHANGED feedSeq
  BY DEF durable
<1>2. CountAfter(edits)' = CountAfter(edits)
  BY <1>1 DEF CountAfter, CountStep, Less
<1>3. ShapesAfter(edits)' = ShapesAfter(edits)
  BY <1>1 DEF ShapesAfter, CensusStep, Less, ShapeOf
<1>4. DocsAfter(edits)' = DocsAfter(edits) /\ InOrder(ops)' = InOrder(ops)
  BY <1>1 DEF DocsAfter, InOrder
<1>5. GoodEdits(edits) => GoodEdits(edits)'
  BY <1>1 DEF GoodEdits, GoodEdit, OncePerId
<1>6. QED
  BY <1>1, <1>2, <1>3, <1>4, <1>5

\* A call staged from the store as it is.
LEMMA StagedIsGood ==
  ASSUME NEW ops, NEW edits, NEW t, t = Staged(ops, edits), GoodEdits(edits), InOrder(ops) = DocsAfter(edits),
         UNCHANGED durable, Registered(edits)'
  PROVE  GoodTx(t)'
<1>1. /\ t.edits = edits /\ t.ops = ops /\ t.seq = feedSeq
      /\ t.count = CountAfter(edits) /\ t.shapes = ShapesAfter(edits)
  BY DEF Staged
<1>2. /\ CountAfter(edits)' = CountAfter(edits) /\ ShapesAfter(edits)' = ShapesAfter(edits)
      /\ DocsAfter(edits)' = DocsAfter(edits) /\ InOrder(ops)' = InOrder(ops)
      /\ feedSeq' = feedSeq /\ GoodEdits(edits)'
  BY BatchKept
<1>3. QED
  BY <1>1, <1>2 DEF GoodTx

\* A staged call stays one of the store while the store stays.
LEMMA GoodTxKept ==
  ASSUME UNCHANGED durable, registry \subseteq registry', NEW t, GoodTx(t)
  PROVE  GoodTx(t)'
<1>1. PICK edits, ops : edits = t.edits /\ ops = t.ops
  OBVIOUS
<1>2. /\ CountAfter(edits)' = CountAfter(edits) /\ ShapesAfter(edits)' = ShapesAfter(edits)
      /\ DocsAfter(edits)' = DocsAfter(edits) /\ InOrder(ops)' = InOrder(ops)
      /\ feedSeq' = feedSeq /\ (GoodEdits(edits) => GoodEdits(edits)')
  BY BatchKept
<1>3. Registered(edits)'
  BY <1>1 DEF GoodTx, Registered
<1>4. QED
  BY <1>1, <1>2, <1>3 DEF GoodTx

\* The store's promises survive while the store stays and its names are listed.
LEMMA StoreKept ==
  ASSUME StoreInv, UNCHANGED durable, UNCHANGED building, registry' \subseteq Colls, ListInv'
  PROVE  StoreInv'
<1>1. /\ UNCHANGED docs /\ UNCHANGED rows /\ UNCHANGED indexed /\ UNCHANGED docCount /\ UNCHANGED shapes
      /\ UNCHANGED df /\ UNCHANGED feedSeq /\ UNCHANGED feed
  BY DEF durable
<1>2. TypeOK'
  BY <1>1 DEF StoreInv, TypeOK
<1>3. RowInv'
  BY <1>1 DEF StoreInv, RowInv
<1>4. CountersExact'
  BY <1>1 DEF StoreInv, CountersExact, Held
<1>5. FeedTellsAll'
  BY <1>1 DEF StoreInv, FeedTellsAll
<1>6. QED
  BY <1>1, <1>2, <1>3, <1>4, <1>5 DEF StoreInv

\* A call that may start finds nobody at work.
LEMMA StartsAlone ==
  ASSUME Calm, NEW w \in Writers, MayStart(w)
  PROVE  NoWriter /\ dropping = Idle /\ building = Idle
BY DEF Calm, MayStart, NoWriter

\* A good staged call can be anyone's who starts alone.
LEMMA StageKept ==
  ASSUME EstateInv, NEW w \in Writers, NoWriter, dropping = Idle, building = Idle,
         NEW t, tx' = [tx EXCEPT ![w] = t], GoodTx(t)', registry' \subseteq Colls, ListInv',
         UNCHANGED <<durable, dropping, building>>
  PROVE  EstateInv'
<1>1. UNCHANGED durable /\ UNCHANGED dropping /\ UNCHANGED building
  OBVIOUS
<1>2. StoreInv'
  BY <1>1, StoreKept DEF EstateInv
<1>3. DOMAIN tx = Writers /\ \A v \in Writers : tx'[v] = IF v = w THEN t ELSE Idle
  BY DEF EstateInv, TxInv, NoWriter
<1>4. SoloInv'
  BY <1>1, <1>3 DEF SoloInv
<1>5. TxInv'
  <2>1. DOMAIN tx' = Writers
    BY <1>3
  <2>2. \A u \in Underway' : u = t
    BY <1>1, <1>3 DEF Underway
  <2>3. QED
    BY <2>1, <2>2 DEF TxInv
<1>6. DropInv' /\ BuildInv'
  BY <1>1 DEF DropInv, BuildInv
<1>7. QED
  BY <1>2, <1>4, <1>5, <1>6 DEF EstateInv

\* Upserts, removals and transactions.
LEMMA StageInv ==
  ASSUME Calm, EstateInv, NEW w \in Writers, MayStart(w), NEW m \in Nat, NEW ops \in [1..m -> Op], Stage(w, ops)
  PROVE  EstateInv'
<1>1. NoWriter /\ dropping = Idle /\ building = Idle
  BY StartsAlone
<1>2. /\ docs \in [Ids -> Slot] /\ indexed \in BOOLEAN /\ registry \subseteq Colls /\ ListInv
  BY DEF EstateInv, StoreInv, TypeOK, Slot
<1>3. OnceInOps(ops)
  BY DEF Stage, Calm, OnceInOps
<1>4. PICK edits : edits = EditsOf(ops)
  OBVIOUS
<1>5. PICK t : t = Staged(ops, edits)
  OBVIOUS
<1>6. /\ GoodEdits(edits) /\ InOrder(ops) = DocsAfter(edits)
      /\ \A i \in DOMAIN edits : \E k \in 1..m : edits[i].new = ops[k].doc /\ edits[i].id = ops[k].id
  BY <1>2, <1>3, <1>4, EditsOfGood
<1>7. /\ tx' = [tx EXCEPT ![w] = t] /\ registry' = registry \cup NamedIn(ops)
      /\ UNCHANGED <<durable, dropping, building>>
  BY <1>4, <1>5 DEF Stage, RegistryAfter
<1>8. DOMAIN ops = 1..m /\ \A k \in 1..m : ops[k].doc \in Slot
  BY DEF Op
<1>9. \A k \in 1..m : ops[k].doc # Absent => ops[k].doc.coll \in NamedIn(ops) \cup {None}
  BY <1>8 DEF NamedIn
<1>10. NamedIn(ops) \subseteq Colls
  BY <1>8 DEF NamedIn, Slot, AllDocs
<1>11. registry' \subseteq Colls /\ registry \subseteq registry'
  BY <1>2, <1>7, <1>10
<1>12. ListInv'
  BY <1>2, <1>7, <1>11 DEF ListInv, durable
<1>13. Registered(edits)'
  BY <1>6, <1>7, <1>9 DEF Registered
<1>14. GoodTx(t)'
  BY <1>5, <1>6, <1>7, <1>13, StagedIsGood
<1>15. QED
  BY <1>1, <1>7, <1>11, <1>12, <1>14, StageKept
\* A payload mutation.
LEMMA PayloadInv ==
  ASSUME Calm, EstateInv, NEW w \in Writers, PayloadCall(w)
  PROVE  EstateInv'
<1>1. NoWriter /\ dropping = Idle /\ building = Idle
  BY StartsAlone DEF PayloadCall
<1>2. /\ docs \in [Ids -> Slot] /\ indexed \in BOOLEAN /\ registry \subseteq Colls /\ ListInv
  BY DEF EstateInv, StoreInv, TypeOK, Slot
<1>3. PICK id \in Ids, val \in Nums \cup Texts \cup {None} :
         /\ docs[id] # Absent
         /\ tx' = [tx EXCEPT ![w] = Staged(<<Upsert(id, [docs[id] EXCEPT !.val = val])>>, <<MutateEdit(id, val)>>)]
  BY DEF PayloadCall
<1>4. UNCHANGED <<durable, registry, dropping, building>>
  BY DEF PayloadCall
<1>5. PICK ops, edits : ops = <<Upsert(id, [docs[id] EXCEPT !.val = val])>> /\ edits = <<MutateEdit(id, val)>>
  OBVIOUS
<1>6. PICK t : t = Staged(ops, edits)
  OBVIOUS
<1>7. GoodEdits(edits) /\ Registered(edits) /\ InOrder(ops) = DocsAfter(edits)
  BY <1>2, <1>3, <1>5, MutateGood
<1>8. Registered(edits)'
  BY <1>4, <1>7 DEF Registered
<1>9. GoodTx(t)'
  BY <1>4, <1>6, <1>7, <1>8, StagedIsGood
<1>10. registry' \subseteq Colls /\ ListInv'
  BY <1>2, <1>4 DEF ListInv, durable
<1>11. tx' = [tx EXCEPT ![w] = t]
  BY <1>3, <1>5, <1>6
<1>12. QED
  BY <1>1, <1>4, <1>9, <1>10, <1>11, StageKept

\* The calls.
LEMMA CallInv ==
  ASSUME Calm, EstateInv, NEW w \in Writers, Call(w)
  PROVE  EstateInv'
<1>1. Docs \subseteq Slot /\ Absent \in Slot
  BY DocsValid DEF Slot
<1>2. CASE UpsertCall(w)
  <2>1. PICK n \in 1..MaxOps : \E ops \in [1..n -> [id : Ids, doc : Docs]] : Stage(w, ops)
    BY <1>2 DEF UpsertCall
  <2>2. PICK ops \in [1..n -> [id : Ids, doc : Docs]] : Stage(w, ops)
    BY <2>1
  <2>3. n \in Nat /\ MayStart(w)
    BY <1>2, BoundsNat DEF UpsertCall
  <2>4. ops \in [1..n -> Op]
    <3>1. [id : Ids, doc : Docs] \subseteq Op
      BY <1>1 DEF Op
    <3>2. QED
      BY <3>1
  <2>5. QED
    BY <2>2, <2>3, <2>4, StageInv
<1>3. CASE RemoveCall(w)
  <2>1. PICK id \in Ids : Stage(w, <<Remove(id)>>)
    BY <1>3 DEF RemoveCall
  <2>2. PICK ops : ops = <<Remove(id)>>
    OBVIOUS
  <2>3. ops \in [1..1 -> Op]
    <3>1. Remove(id) \in Op
      BY <1>1 DEF Remove, Op
    <3>2. QED
      BY <2>2, <3>1
  <2>4. QED
    BY <1>3, <2>1, <2>2, <2>3, StageInv DEF RemoveCall
<1>4. CASE TransactionCall(w)
  <2>1. PICK n \in 1..MaxOps : \E ops \in [1..n -> [id : Ids, doc : Docs \cup {Absent}]] : Stage(w, ops)
    BY <1>4 DEF TransactionCall
  <2>2. PICK ops \in [1..n -> [id : Ids, doc : Docs \cup {Absent}]] : Stage(w, ops)
    BY <2>1
  <2>3. n \in Nat /\ MayStart(w)
    BY <1>4, BoundsNat DEF TransactionCall
  <2>4. ops \in [1..n -> Op]
    <3>1. [id : Ids, doc : Docs \cup {Absent}] \subseteq Op
      BY <1>1 DEF Op
    <3>2. QED
      BY <3>1
  <2>5. QED
    BY <2>2, <2>3, <2>4, StageInv
<1>5. CASE PayloadCall(w)
  BY <1>5, PayloadInv
<1>6. QED
  BY <1>2, <1>3, <1>4, <1>5 DEF Call

\* A writer at work is alone.
LEMMA WorksAlone ==
  ASSUME EstateInv, NEW w \in Writers, tx[w] # Idle
  PROVE  /\ dropping = Idle /\ building = Idle /\ GoodTx(tx[w])
         /\ DOMAIN tx = Writers /\ \A v \in Writers : v # w => tx[v] = Idle
<1>1. dropping = Idle /\ building = Idle /\ \A v \in Writers : v # w => tx[v] = Idle
  BY DEF EstateInv, SoloInv, NoWriter
<1>2. tx[w] \in Underway
  BY DEF Underway
<1>3. QED
  BY <1>1, <1>2 DEF EstateInv, TxInv

\* When the one writer at work is done, nobody is.
LEMMA RestKept ==
  ASSUME EstateInv, NEW w \in Writers, tx[w] # Idle, tx' = [tx EXCEPT ![w] = Idle],
         UNCHANGED dropping, UNCHANGED building
  PROVE  SoloInv' /\ TxInv' /\ DropInv' /\ BuildInv'
<1>1. dropping = Idle /\ building = Idle /\ DOMAIN tx = Writers /\ \A v \in Writers : v # w => tx[v] = Idle
  BY WorksAlone
<1>2. DOMAIN tx' = Writers /\ \A v \in Writers : tx'[v] = Idle
  BY <1>1
<1>3. dropping' = Idle /\ building' = Idle
  BY <1>1
<1>4. Underway' = {}
  BY <1>2, <1>3 DEF Underway
<1>5. QED
  BY <1>2, <1>3, <1>4 DEF SoloInv, TxInv, DropInv, BuildInv

LEMMA CommitInv ==
  ASSUME EstateInv, NEW w \in Writers, Commit(w)
  PROVE  EstateInv'
<1>1. tx[w] # Idle /\ Write(tx[w]) /\ tx' = [tx EXCEPT ![w] = Idle] /\ UNCHANGED <<indexed, registry, dropping, building>>
  BY DEF Commit
<1>2. building = Idle /\ GoodTx(tx[w])
  BY <1>1, WorksAlone
<1>3. PICK t : t = tx[w]
  OBVIOUS
<1>4. GoodTx(t) /\ Write(t)
  BY <1>1, <1>2, <1>3
<1>5. StoreInv'
  BY <1>1, <1>2, <1>4, WriteInv DEF EstateInv
<1>6. QED
  BY <1>1, <1>5, RestKept DEF EstateInv

LEMMA AbortInv ==
  ASSUME EstateInv, NEW w \in Writers, Abort(w)
  PROVE  EstateInv'
<1>1. tx[w] # Idle /\ tx' = [tx EXCEPT ![w] = Idle] /\ UNCHANGED <<durable, registry, dropping, building>>
  BY DEF Abort
<1>2. registry' \subseteq Colls /\ ListInv'
  BY <1>1 DEF EstateInv, StoreInv, TypeOK, ListInv, durable
<1>3. StoreInv'
  BY <1>1, <1>2, StoreKept DEF EstateInv
<1>4. QED
  BY <1>1, <1>3, RestKept DEF EstateInv

\* A drop lists the members of its collection.
LEMMA DropStartInv ==
  ASSUME Calm, EstateInv, NEW c \in Colls, DropStart(c)
  PROVE  EstateInv'
<1>1. /\ NoWriter /\ building = Idle /\ dropping = Idle
      /\ dropping' = [state |-> "open", coll |-> c, todo |-> MembersOf(c), tx |-> Idle]
      /\ UNCHANGED <<durable, registry, tx, building>>
  BY DEF DropStart, Calm
<1>2. /\ dropping' # Idle /\ dropping'.coll = c /\ dropping'.todo = MembersOf(c) /\ dropping'.tx = Idle
      /\ dropping'.state = "open"
  BY <1>1 DEF Idle
<1>3. /\ docs \in [Ids -> Slot] /\ registry \subseteq Colls /\ RowInv /\ ListInv
  BY DEF EstateInv, StoreInv, TypeOK, Slot
<1>4. registry' \subseteq Colls /\ ListInv'
  BY <1>1, <1>3 DEF ListInv, durable
<1>5. StoreInv'
  BY <1>1, <1>4, StoreKept DEF EstateInv
<1>6. tx' = tx /\ NoWriter' /\ building' = Idle
  BY <1>1 DEF NoWriter
<1>7. SoloInv'
  BY <1>6 DEF SoloInv, NoWriter
<1>8. Underway' = {}
  BY <1>2, <1>6 DEF Underway, NoWriter
<1>9. TxInv'
  BY <1>6, <1>8 DEF TxInv, EstateInv
<1>10. ASSUME NEW id \in Ids PROVE (docs[id] # Absent /\ docs[id].coll = c) <=> id \in MembersOf(c)
  <2> DEFINE row == <<"coll", c, id>>
  <2>1. row[1] = "coll" /\ row[1] # "pidx" /\ row[3] = id
    OBVIOUS
  <2>2. row \in rows <=> row \in BaseRows(id, docs[id])
    BY <1>3, <2>1 DEF RowInv
  <2>3. row \in BaseRows(id, docs[id]) <=> docs[id] # Absent /\ docs[id].coll = c
    <3>1. c # None
      BY NoneDistinct
    <3>2. \A x, y : row = <<"coll", x, y>> <=> x = c /\ y = id
      OBVIOUS
    <3>3. \A x, y : row # <<"term", x, y>>
      OBVIOUS
    <3> HIDE DEF row
    <3>4. QED
      BY <3>1, <3>2, <3>3 DEF BaseRows, CollRows, TermRows
  <2>4. QED
    BY <2>2, <2>3 DEF MembersOf
<1>11. DropInv'
  <2>1. \A id \in Ids : ~InDrop(id)'
    BY <1>2 DEF InDrop
  <2>2. docs' = docs
    BY <1>1 DEF durable
  <2>3. MembersOf(c) \subseteq Ids
    BY DEF MembersOf
  <2>4. dropping' = [state |-> "open", coll |-> dropping'.coll, todo |-> dropping'.todo, tx |-> dropping'.tx]
    BY <1>1, <1>2
  <2>5. \A id \in Ids : (docs'[id] # Absent /\ docs'[id].coll = dropping'.coll) <=> id \in dropping'.todo
    BY <1>2, <1>10, <2>2
  <2>6. QED
    BY <1>2, <2>1, <2>3, <2>4, <2>5 DEF DropInv
<1>12. BuildInv'
  BY <1>6 DEF BuildInv
<1>13. QED
  BY <1>5, <1>7, <1>9, <1>11, <1>12 DEF EstateInv

\* A drop at work is alone.
LEMMA DropsAlone ==
  ASSUME EstateInv, dropping # Idle
  PROVE  NoWriter /\ building = Idle /\ DOMAIN tx = Writers /\ (dropping.tx # Idle => GoodTx(dropping.tx))
<1>1. NoWriter /\ building = Idle /\ DOMAIN tx = Writers
  BY DEF EstateInv, SoloInv, TxInv
<1>2. dropping.tx # Idle => dropping.tx \in Underway
  BY DEF Underway
<1>3. QED
  BY <1>1, <1>2 DEF EstateInv, TxInv

\* It stages the removal of a member.
LEMMA DropStageInv ==
  ASSUME EstateInv, DropStage
  PROVE  EstateInv'
<1>1. dropping # Idle /\ dropping.tx = Idle /\ UNCHANGED <<durable, registry, tx, building>>
  BY DEF DropStage
<1>2. PICK id \in dropping.todo :
         dropping' = [dropping EXCEPT !.todo = dropping.todo \ {id},
                                      !.tx = Staged(<<Remove(id)>>, EditsOf(<<Remove(id)>>))]
  BY DEF DropStage
<1>3. NoWriter /\ building = Idle /\ DOMAIN tx = Writers
  BY <1>1, DropsAlone
<1>4. /\ dropping = [state |-> "open", coll |-> dropping.coll, todo |-> dropping.todo, tx |-> dropping.tx]
      /\ dropping.coll \in Colls /\ dropping.todo \subseteq Ids
      /\ \A x \in Ids : (docs[x] # Absent /\ docs[x].coll = dropping.coll) <=> x \in dropping.todo
  BY <1>1 DEF EstateInv, DropInv, InDrop
<1>5. /\ docs \in [Ids -> Slot] /\ indexed \in BOOLEAN /\ registry \subseteq Colls /\ ListInv
  BY DEF EstateInv, StoreInv, TypeOK, Slot
<1>6. PICK ops : ops = <<Remove(id)>>
  OBVIOUS
<1>7. PICK edits : edits = EditsOf(ops)
  OBVIOUS
<1>8. PICK t : t = Staged(ops, edits)
  OBVIOUS
<1>9. id \in Ids /\ docs[id] # Absent
  BY <1>2, <1>4
<1>10. ops \in [1..1 -> Op] /\ OnceInOps(ops) /\ 1 \in 1..1 /\ ops[1].id = id /\ ops[1].doc = Absent
       /\ \A k \in 1..1 : k = 1
  <2>1. Remove(id) = [id |-> id, doc |-> Absent] /\ Remove(id) \in Op
    BY <1>9 DEF Remove, Op, Slot
  <2>2. ops \in [1..1 -> Op] /\ ops[1] = Remove(id) /\ DOMAIN ops = {1}
    BY <1>6, <2>1
  <2>3. QED
    BY <2>1, <2>2 DEF OnceInOps
<1>11. /\ GoodEdits(edits) /\ InOrder(ops) = DocsAfter(edits)
       /\ \A i \in DOMAIN edits : \E k \in 1..1 : edits[i].new = ops[k].doc /\ edits[i].id = ops[k].id
       /\ \A k \in 1..1 : ops[k].doc # Absent \/ docs[ops[k].id] # Absent
                             => \E i \in DOMAIN edits : edits[i].id = ops[k].id
  <2>1. PICK m \in Nat : m = 1
    OBVIOUS
  <2>2. ops \in [1..m -> Op]
    BY <1>10, <2>1
  <2>3. /\ GoodEdits(edits) /\ InOrder(ops) = DocsAfter(edits)
        /\ \A i \in DOMAIN edits : \E k \in 1..m : edits[i].new = ops[k].doc /\ edits[i].id = ops[k].id
        /\ \A k \in 1..m : ops[k].doc # Absent \/ docs[ops[k].id] # Absent
                              => \E i \in DOMAIN edits : edits[i].id = ops[k].id
    <3>1. OnceInOps(ops) /\ docs \in [Ids -> Slot] /\ indexed \in BOOLEAN
      BY <1>5, <1>10
    <3>2. QED
      BY <1>7, <2>2, <3>1, EditsOfGood
  <2>4. QED
    BY <2>1, <2>3
<1>12. /\ \A i \in DOMAIN edits : edits[i].new = Absent /\ edits[i].id = id
       /\ \E i \in DOMAIN edits : edits[i].id = id
  BY <1>9, <1>10, <1>11
<1>13. Registered(edits)'
  BY <1>12 DEF Registered
<1>14. GoodTx(t)'
  BY <1>1, <1>8, <1>11, <1>13, StagedIsGood
<1>15. t # Idle /\ t.edits = edits
  BY <1>8 DEF Staged, Idle
<1>16. dropping' = [state |-> "open", coll |-> dropping.coll, todo |-> dropping.todo \ {id}, tx |-> t]
  <2>1. dropping' = [dropping EXCEPT !.todo = dropping.todo \ {id}, !.tx = t]
    BY <1>2, <1>6, <1>7, <1>8
  <2>2. PICK c, todo : c = dropping.coll /\ todo = dropping.todo
    OBVIOUS
  <2>3. PICK d, left : d = dropping /\ left = todo \ {id}
    OBVIOUS
  <2>4. d = [state |-> "open", coll |-> c, todo |-> todo, tx |-> Idle]
    BY <1>1, <1>4, <2>2, <2>3
  <2>5. [d EXCEPT !.todo = left, !.tx = t] = [state |-> "open", coll |-> c, todo |-> left, tx |-> t]
    <3>1. PICK e : e = [d EXCEPT !.todo = left]
      OBVIOUS
    <3>2. [d EXCEPT !.todo = left, !.tx = t] = [e EXCEPT !.tx = t]
      BY <3>1
    <3>3. e = [state |-> "open", coll |-> c, todo |-> left, tx |-> Idle]
      BY <2>4, <3>1
    <3>4. QED
      BY <3>2, <3>3
  <2>6. QED
    BY <2>1, <2>2, <2>3, <2>5
<1>17. /\ dropping' # Idle /\ dropping'.coll = dropping.coll /\ dropping'.todo = dropping.todo \ {id}
       /\ dropping'.tx = t /\ dropping'.state = "open"
  BY <1>16 DEF Idle
<1>18. registry' \subseteq Colls /\ ListInv'
  BY <1>1, <1>5 DEF ListInv, durable
<1>19. StoreInv'
  BY <1>1, <1>18, StoreKept DEF EstateInv
<1>20. tx' = tx /\ NoWriter' /\ building' = Idle
  BY <1>1, <1>3 DEF NoWriter
<1>21. SoloInv'
  BY <1>20 DEF SoloInv, NoWriter
<1>22. \A u \in Underway' : u = t
  BY <1>17, <1>20 DEF Underway, NoWriter
<1>23. TxInv'
  BY <1>3, <1>14, <1>20, <1>22 DEF TxInv
<1>24. DropInv'
  <2>1. \A x \in Ids : InDrop(x)' <=> x = id
    BY <1>12, <1>15, <1>17 DEF InDrop
  <2>2. docs' = docs
    BY <1>1 DEF durable
  <2>3. dropping' = [state |-> "open", coll |-> dropping'.coll, todo |-> dropping'.todo, tx |-> dropping'.tx]
    BY <1>16, <1>17
  <2>4. \A x \in Ids : (docs'[x] # Absent /\ docs'[x].coll = dropping'.coll)
                          <=> (x \in dropping'.todo \/ InDrop(x)')
    BY <1>2, <1>4, <1>17, <2>1, <2>2
  <2>5. \A i \in DOMAIN dropping'.tx.edits : dropping'.tx.edits[i].new = Absent
    BY <1>12, <1>15, <1>17
  <2>6. QED
    BY <1>4, <1>17, <2>1, <2>3, <2>4, <2>5 DEF DropInv
<1>25. BuildInv'
  BY <1>20 DEF BuildInv
<1>26. QED
  BY <1>19, <1>21, <1>23, <1>24, <1>25 DEF EstateInv

\* What a drop's batch does to the documents: its members go, the others stay.
LEMMA DropWrites ==
  ASSUME EstateInv, DropCommit, NEW id \in Ids
  PROVE  docs'[id] = IF InDrop(id) THEN Absent ELSE docs[id]
<1>1. dropping # Idle /\ dropping.tx # Idle /\ Write(dropping.tx)
  BY DEF DropCommit
<1>2. PICK edits : edits = dropping.tx.edits
  OBVIOUS
<1>3. GoodEdits(edits) /\ docs' = DocsAfter(edits)
  <2>1. GoodTx(dropping.tx)
    BY <1>1, DropsAlone
  <2>2. QED
    BY <1>1, <1>2, <2>1 DEF GoodTx, Write
<1>4. docs \in [Ids -> Slot]
  BY DEF EstateInv, StoreInv, TypeOK, Slot
<1>5. edits \in Seq(Edit) /\ OncePerId(edits)
  BY <1>3 DEF GoodEdits
<1>6. /\ \A i \in DOMAIN edits : docs'[edits[i].id] = edits[i].new
      /\ \A x \in Ids : (~ \E i \in DOMAIN edits : edits[i].id = x) => docs'[x] = docs[x]
  BY <1>3, <1>4, <1>5, DocsAfterIs
<1>7. \A i \in DOMAIN edits : edits[i].new = Absent
  BY <1>1, <1>2 DEF EstateInv, DropInv
<1>8. InDrop(id) <=> \E i \in DOMAIN edits : edits[i].id = id
  BY <1>1, <1>2 DEF InDrop
<1>9. QED
  BY <1>6, <1>7, <1>8

\* The removal lands.
LEMMA DropCommitInv ==
  ASSUME EstateInv, DropCommit
  PROVE  EstateInv'
<1>1. /\ dropping # Idle /\ dropping.tx # Idle /\ Write(dropping.tx)
      /\ dropping' = [dropping EXCEPT !.tx = Idle] /\ UNCHANGED <<indexed, registry, tx, building>>
  BY DEF DropCommit
<1>2. NoWriter /\ building = Idle /\ DOMAIN tx = Writers /\ GoodTx(dropping.tx)
  BY <1>1, DropsAlone
<1>3. PICK t : t = dropping.tx
  OBVIOUS
<1>4. GoodTx(t) /\ Write(t)
  BY <1>1, <1>2, <1>3
<1>5. StoreInv'
  BY <1>1, <1>2, <1>4, WriteInv DEF EstateInv
<1>6. /\ dropping = [state |-> "open", coll |-> dropping.coll, todo |-> dropping.todo, tx |-> dropping.tx]
      /\ dropping.coll \in Colls /\ dropping.todo \subseteq Ids
      /\ \A x \in Ids : InDrop(x) => x \notin dropping.todo
      /\ \A x \in Ids : (docs[x] # Absent /\ docs[x].coll = dropping.coll) <=> (x \in dropping.todo \/ InDrop(x))
  BY <1>1 DEF EstateInv, DropInv
<1>7. dropping' = [state |-> "open", coll |-> dropping.coll, todo |-> dropping.todo, tx |-> Idle]
  BY <1>1, <1>6
<1>8. /\ dropping' # Idle /\ dropping'.coll = dropping.coll /\ dropping'.todo = dropping.todo
      /\ dropping'.tx = Idle /\ dropping'.state = "open"
  BY <1>7 DEF Idle
<1>9. tx' = tx /\ NoWriter' /\ building' = Idle
  BY <1>1, <1>2 DEF NoWriter
<1>10. SoloInv'
  BY <1>9 DEF SoloInv, NoWriter
<1>11. Underway' = {}
  BY <1>8, <1>9 DEF Underway, NoWriter
<1>12. TxInv'
  BY <1>2, <1>9, <1>11 DEF TxInv
<1>13. DropInv'
  <2>1. \A x \in Ids : ~InDrop(x)'
    BY <1>8 DEF InDrop
  <2>2. \A x \in Ids : docs'[x] = IF InDrop(x) THEN Absent ELSE docs[x]
    BY DropWrites
  <2>3. \A x \in Ids : (docs'[x] # Absent /\ docs'[x].coll = dropping'.coll) <=> x \in dropping'.todo
    BY <1>6, <1>8, <2>2
  <2>4. dropping' = [state |-> "open", coll |-> dropping'.coll, todo |-> dropping'.todo, tx |-> dropping'.tx]
    BY <1>7, <1>8
  <2>5. QED
    BY <1>6, <1>8, <2>1, <2>3, <2>4 DEF DropInv
<1>14. BuildInv'
  BY <1>9 DEF BuildInv
<1>15. QED
  BY <1>5, <1>10, <1>12, <1>13, <1>14 DEF EstateInv

\* The name goes when no document is left in the collection.
LEMMA DropFinishInv ==
  ASSUME EstateInv, DropFinish
  PROVE  EstateInv'
<1>1. /\ dropping # Idle /\ dropping.tx = Idle /\ dropping.todo = {} /\ registry' = registry \ {dropping.coll}
      /\ dropping' = Idle /\ UNCHANGED <<durable, tx, building>>
  BY DEF DropFinish
<1>2. NoWriter /\ building = Idle /\ DOMAIN tx = Writers
  BY <1>1, DropsAlone
<1>3. \A x \in Ids : docs[x] # Absent => docs[x].coll # dropping.coll
  BY <1>1 DEF EstateInv, DropInv, InDrop
<1>4. ListInv /\ registry \subseteq Colls
  BY DEF EstateInv, StoreInv, TypeOK
<1>5. registry' \subseteq Colls /\ ListInv'
  BY <1>1, <1>3, <1>4 DEF ListInv, durable
<1>6. StoreInv'
  BY <1>1, <1>5, StoreKept DEF EstateInv
<1>7. tx' = tx /\ building' = Idle /\ Underway' = {}
  BY <1>1, <1>2 DEF Underway, NoWriter
<1>8. SoloInv' /\ TxInv' /\ DropInv' /\ BuildInv'
  BY <1>1, <1>2, <1>7 DEF SoloInv, TxInv, DropInv, BuildInv, NoWriter
<1>9. QED
  BY <1>6, <1>8 DEF EstateInv

\* The rows a build scans are those of the documents.
LEMMA BackfillIs ==
  ASSUME docs \in [Ids -> Slot]
  PROVE  /\ \A row : row \in Backfill <=> \E id \in Ids : row \in FieldRows(id, docs[id])
         /\ \A row \in Backfill : /\ row[1] = "pidx" /\ row[3] \in Ids /\ row \in FieldRows(row[3], docs[row[3]])
                                  /\ row \in {"term", "coll", "pidx"} \X (Terms \cup Colls \cup Nums \cup Texts) \X Ids
<1>1. Backfill = UNION {FieldRows(id, docs[id]) : id \in Ids}
  BY DEF Backfill, FieldRows
<1>2. \A row : row \in Backfill <=> \E id \in Ids : row \in FieldRows(id, docs[id])
  BY <1>1
<1>3. \A id \in Ids : /\ \A row \in FieldRows(id, docs[id]) : row[3] = id /\ row[1] = "pidx"
                      /\ FieldRows(id, docs[id]) \subseteq
                            {"term", "coll", "pidx"} \X (Terms \cup Colls \cup Nums \cup Texts) \X Ids
  BY RowShapes
<1>4. QED
  BY <1>2, <1>3

\* An index build starts alone, and registers the field before it scans.
LEMMA BuildStartInv ==
  ASSUME Calm, EstateInv, CreateIndex \/ RebuildIndex
  PROVE  EstateInv'
<1>1. /\ NoWriter /\ dropping = Idle /\ building = Idle /\ indexed' = TRUE
      /\ UNCHANGED <<docs, rows, docCount, shapes, df, feedSeq, feed, registry, tx, dropping>>
  BY DEF CreateIndex, RebuildIndex, MayBuild, Calm, durable, EstateInv, StoreInv
<1>2. PICK del : /\ building' = [state |-> "scanned", put |-> Backfill, del |-> del]
                 /\ \A row \in del : row[1] = "pidx"
                 /\ \A row \in rows : row[1] = "pidx" => row \in del
  <2>1. CASE CreateIndex
    <3>1. \A row \in rows : row[1] # "pidx"
      BY <2>1 DEF CreateIndex, EstateInv, StoreInv, RowInv
    <3>2. QED
      BY <2>1, <3>1 DEF CreateIndex
  <2>2. CASE RebuildIndex
    <3>1. PICK d : d = {row \in rows : row[1] = "pidx"}
      OBVIOUS
    <3>2. building' = [state |-> "scanned", put |-> Backfill, del |-> d]
      BY <2>2, <3>1 DEF RebuildIndex
    <3>3. QED
      BY <3>1, <3>2
  <2>3. QED
    BY <2>1, <2>2
<1>3. building' # Idle /\ building'.put = Backfill /\ building'.del = del
  BY <1>2 DEF Idle
<1>4. Backfill' = Backfill
  BY <1>1 DEF Backfill, PidxRows
<1>5. BuildInv'
  BY <1>1, <1>2, <1>3, <1>4 DEF BuildInv
<1>6. SoloInv' /\ DropInv'
  BY <1>1 DEF SoloInv, NoWriter, DropInv
<1>7. Underway' = {} /\ DOMAIN tx' = Writers
  BY <1>1 DEF Underway, NoWriter, EstateInv, TxInv
<1>8. TxInv'
  BY <1>7 DEF TxInv
<1>9. StoreInv'
  <2>1. TypeOK'
    BY <1>1 DEF EstateInv, StoreInv, TypeOK
  <2>2. RowInv'
    BY <1>1, <1>3 DEF EstateInv, StoreInv, RowInv
  <2>3. ListInv' /\ CountersExact' /\ FeedTellsAll'
    <3>1. ListInv'
      BY <1>1 DEF EstateInv, StoreInv, ListInv
    <3>2. CountersExact'
      BY <1>1 DEF EstateInv, StoreInv, CountersExact, Held
    <3>3. FeedTellsAll'
      BY <1>1 DEF EstateInv, StoreInv, FeedTellsAll
    <3>4. QED
      BY <3>1, <3>2, <3>3
  <2>4. QED
    BY <1>1, <2>1, <2>2, <2>3 DEF StoreInv
<1>10. QED
  BY <1>5, <1>6, <1>8, <1>9 DEF EstateInv

\* What was scanned is written, and the payload rows are those of the documents.
LEMMA BuildWriteInv ==
  ASSUME EstateInv, BuildWrite
  PROVE  EstateInv'
<1>1. /\ building # Idle /\ building' = Idle /\ rows' = (rows \ building.del) \cup building.put
      /\ UNCHANGED <<docs, indexed, docCount, shapes, df, feedSeq, feed, registry, tx, dropping>>
  BY DEF BuildWrite
<1>2. NoWriter /\ dropping = Idle /\ DOMAIN tx = Writers
  BY <1>1 DEF EstateInv, SoloInv, TxInv
<1>3. /\ indexed /\ building.put = Backfill
      /\ \A row \in building.del : row[1] = "pidx"
      /\ \A row \in rows : row[1] = "pidx" => row \in building.del
  BY <1>1 DEF EstateInv, BuildInv
<1>4. /\ docs \in [Ids -> Slot] /\ RowInv
      /\ rows \subseteq {"term", "coll", "pidx"} \X (Terms \cup Colls \cup Nums \cup Texts) \X Ids
  BY DEF EstateInv, StoreInv, TypeOK, Slot
<1>5. \A row : row \in rows' <=> (row \in rows /\ row[1] # "pidx") \/ row \in Backfill
  BY <1>1, <1>3
<1>6. /\ \A row : row \in Backfill <=> \E id \in Ids : row \in FieldRows(id, docs[id])
      /\ \A row \in Backfill : /\ row[1] = "pidx" /\ row[3] \in Ids /\ row \in FieldRows(row[3], docs[row[3]])
                               /\ row \in {"term", "coll", "pidx"} \X (Terms \cup Colls \cup Nums \cup Texts) \X Ids
  BY <1>4, BackfillIs
<1>7. rows' \subseteq {"term", "coll", "pidx"} \X (Terms \cup Colls \cup Nums \cup Texts) \X Ids
  BY <1>4, <1>5, <1>6
<1>8. RowInv'
  <2>1. \A row \in rows' : row[1] # "pidx" => row \in BaseRows(row[3], docs[row[3]])
    BY <1>4, <1>5, <1>6 DEF RowInv
  <2>2. \A id \in Ids : BaseRows(id, docs[id]) \subseteq rows'
    <3>1. \A id \in Ids : \A row \in BaseRows(id, docs[id]) : row[1] # "pidx" /\ row \in rows
      BY <1>4, RowShapes DEF RowInv
    <3>2. QED
      BY <1>5, <3>1
  <2>3. \A row \in rows' : row[1] = "pidx" => row \in FieldRows(row[3], docs[row[3]])
    BY <1>5, <1>6
  <2>4. \A id \in Ids : FieldRows(id, docs[id]) \subseteq rows'
    BY <1>5, <1>6
  <2>5. docs' = docs /\ indexed'
    BY <1>1, <1>3
  <2>6. QED
    BY <2>1, <2>2, <2>3, <2>4, <2>5 DEF RowInv
<1>9. StoreInv'
  <2>1. TypeOK'
    BY <1>1, <1>7 DEF EstateInv, StoreInv, TypeOK
  <2>2. ListInv' /\ CountersExact' /\ FeedTellsAll'
    <3>1. ListInv'
      BY <1>1 DEF EstateInv, StoreInv, ListInv
    <3>2. CountersExact'
      BY <1>1 DEF EstateInv, StoreInv, CountersExact, Held
    <3>3. FeedTellsAll'
      BY <1>1 DEF EstateInv, StoreInv, FeedTellsAll
    <3>4. QED
      BY <3>1, <3>2, <3>3
  <2>3. indexed' \in BOOLEAN
    BY <1>1 DEF EstateInv, StoreInv
  <2>4. QED
    BY <1>8, <2>1, <2>2, <2>3 DEF StoreInv
<1>10. Underway' = {} /\ tx' = tx /\ dropping' = Idle
  BY <1>1, <1>2 DEF Underway, NoWriter
<1>11. SoloInv' /\ TxInv' /\ DropInv' /\ BuildInv'
  BY <1>1, <1>2, <1>10 DEF SoloInv, TxInv, DropInv, BuildInv, NoWriter
<1>12. QED
  BY <1>9, <1>11 DEF EstateInv

-----------------------------------------------------------------------------
(* The theorems.                                                           *)

\* The empty estate.
LEMMA EstateInit ==
  ASSUME Init
  PROVE  EstateInv
<1>1. docs \in [Ids -> Slot] /\ \A id \in Ids : docs[id] = Absent
  BY DEF Init, Slot
<1>2. TypeOK
  BY <1>1 DEF Init, TypeOK, Slot
<1>3. RowInv /\ ListInv
  BY <1>1 DEF Init, RowInv, ListInv, BaseRows
<1>4. CountersExact
  <2>1. Held = {} /\ Cardinality({}) = 0
    BY <1>1, FS_EmptySet DEF Held
  <2>2. \A s \in Shapes : {id \in Held : ShapeOf(docs[id]) = s} = {}
    BY <2>1
  <2>3. \A t \in Terms : {id \in Held : docs[id].term = t} = {}
    BY <2>1
  <2>4. QED
    BY <2>1, <2>2, <2>3 DEF CountersExact, Init
<1>5. FeedTellsAll
  <2>1. feedSeq = 0 /\ DOMAIN feed = {} /\ 0..(0 - 1) = {}
    BY DEF Init
  <2>2. QED
    BY <1>1, <2>1 DEF FeedTellsAll
<1>6. tx = [w \in Writers |-> Idle] /\ dropping = Idle /\ building = Idle /\ indexed = FALSE
  BY DEF Init
<1>7. SoloInv /\ DropInv /\ BuildInv
  BY <1>6 DEF SoloInv, NoWriter, DropInv, BuildInv
<1>8. TxInv
  BY <1>6 DEF TxInv, Underway
<1>9. QED
  BY <1>2, <1>3, <1>4, <1>5, <1>6, <1>7, <1>8 DEF EstateInv, StoreInv

\* Nothing changes.
LEMMA EstateStutter ==
  ASSUME EstateInv, UNCHANGED vars
  PROVE  EstateInv'
<1>1. UNCHANGED durable /\ UNCHANGED registry /\ UNCHANGED tx /\ UNCHANGED dropping /\ UNCHANGED building
  BY DEF vars
<1>2. docs' = docs /\ rows' = rows /\ indexed' = indexed
  BY <1>1 DEF durable
<1>3. registry' \subseteq Colls /\ ListInv'
  BY <1>1, <1>2 DEF EstateInv, StoreInv, TypeOK, ListInv
<1>4. StoreInv'
  BY <1>1, <1>3, StoreKept DEF EstateInv
<1>5. SoloInv' /\ DropInv'
  BY <1>1, <1>2 DEF EstateInv, SoloInv, NoWriter, DropInv, InDrop
<1>6. BuildInv'
  BY <1>1, <1>2 DEF EstateInv, BuildInv, Backfill, PidxRows
<1>7. TxInv'
  <2>1. Underway' = Underway /\ DOMAIN tx' = Writers
    BY <1>1 DEF Underway, EstateInv, TxInv
  <2>2. \A t \in Underway : GoodTx(t)'
    BY <1>1, GoodTxKept DEF EstateInv, TxInv
  <2>3. QED
    BY <2>1, <2>2 DEF TxInv
<1>8. QED
  BY <1>4, <1>5, <1>6, <1>7 DEF EstateInv

\* One case per action.
LEMMA EstateStep ==
  ASSUME Calm, EstateInv, [Next]_vars
  PROVE  EstateInv'
<1>1. ASSUME NEW w \in Writers, Call(w) PROVE EstateInv'
  BY <1>1, CallInv
<1>2. ASSUME NEW w \in Writers, Commit(w) PROVE EstateInv'
  BY <1>2, CommitInv
<1>3. ASSUME NEW w \in Writers, Abort(w) PROVE EstateInv'
  BY <1>3, AbortInv
<1>4. ASSUME NEW c \in Colls, DropStart(c) PROVE EstateInv'
  BY <1>4, DropStartInv
<1>5. CASE DropStage
  BY <1>5, DropStageInv
<1>6. CASE DropCommit
  BY <1>6, DropCommitInv
<1>7. CASE DropFinish
  BY <1>7, DropFinishInv
<1>8. CASE CreateIndex \/ RebuildIndex
  BY <1>8, BuildStartInv
<1>9. CASE BuildWrite
  BY <1>9, BuildWriteInv
<1>10. CASE UNCHANGED vars
  BY <1>10, EstateStutter
<1>11. QED
  BY <1>1, <1>2, <1>3, <1>4, <1>5, <1>6, <1>7, <1>8, <1>9, <1>10 DEF Next

\* The invariant: what the store promises, who works with whom, and that every staged
\* call, drop and build is one of the store as it is.
THEOREM EstateInvariant ==
  ASSUME Calm
  PROVE  Spec => []EstateInv
<1>1. Init => EstateInv
  BY EstateInit
<1>2. EstateInv /\ [Next]_vars => EstateInv'
  BY EstateStep
<1>3. QED
  BY <1>1, <1>2, PTL DEF Spec

\* Whatever calls and maintenance run, META_DOC_COUNT, the shape census and every
\* term's document frequency are those of the stored documents: the saturating
\* subtractions of upsert_into and remove_into never saturate.
THEOREM CountsAreExact ==
  ASSUME Calm
  PROVE  Spec => []CountersExact
<1>1. EstateInv => CountersExact
  BY DEF EstateInv, StoreInv
<1>2. QED
  BY <1>1, EstateInvariant, PTL

\* The term and collection rows are those of the stored documents, and so are the
\* payload rows of an indexed field outside a build.
THEOREM RowsAreExact ==
  ASSUME Calm
  PROVE  Spec => []IndexExact
<1>1. ASSUME EstateInv PROVE IndexExact
  <2>1. /\ docs \in [Ids -> Slot] /\ RowInv
        /\ rows \subseteq {"term", "coll", "pidx"} \X (Terms \cup Colls \cup Nums \cup Texts) \X Ids
    BY <1>1 DEF EstateInv, StoreInv, TypeOK, Slot
  <2>2. \A row \in rows : row[3] \in Ids
    BY <2>1
  <2>3. \A id \in Held : BaseRows(id, docs[id]) = CollRows(id, docs[id]) \cup TermRows(id, docs[id])
    BY DEF Held, BaseRows
  <2>4. \A id \in Ids : id \notin Held => BaseRows(id, docs[id]) = {}
    BY DEF Held, BaseRows
  <2>5. \A id \in Ids : \A row \in BaseRows(id, docs[id]) : row[1] # "pidx"
    BY <2>1, RowShapes
  <2>6. Held \subseteq Ids
    BY DEF Held
  <2>7. ASSUME NEW row PROVE (row \in rows /\ row[1] # "pidx") <=> \E id \in Held : row \in BaseRows(id, docs[id])
    BY <2>1, <2>2, <2>4, <2>5, <2>6 DEF RowInv
  <2>8. {row \in rows : row[1] # "pidx"} = UNION {BaseRows(id, docs[id]) : id \in Held}
    BY <2>7
  <2>9. UNION {BaseRows(id, docs[id]) : id \in Held} = UNION {CollRows(id, docs[id]) \cup TermRows(id, docs[id]) : id \in Held}
    BY <2>3
  <2>10. ASSUME indexed, building = Idle PROVE {row \in rows : row[1] = "pidx"} = Backfill
    <3>1. \A row : row \in rows /\ row[1] = "pidx" => row \in FieldRows(row[3], docs[row[3]])
      BY <2>1, <2>10 DEF RowInv
    <3>2. \A id \in Ids : FieldRows(id, docs[id]) \subseteq rows
      BY <2>1, <2>10 DEF RowInv
    <3>3. /\ \A row : row \in Backfill <=> \E id \in Ids : row \in FieldRows(id, docs[id])
          /\ \A row \in Backfill : row[1] = "pidx"
      BY <2>1, BackfillIs
    <3>4. \A row : (row \in rows /\ row[1] = "pidx") <=> row \in Backfill
      BY <2>2, <3>1, <3>2, <3>3
    <3>5. QED
      BY <3>4
  <2>11. QED
    BY <2>8, <2>9, <2>10 DEF IndexExact
<1>2. QED
  BY <1>1, EstateInvariant, PTL

\* The changefeed has no gap, and a subscriber that replays it holds the documents
\* the estate holds.
THEOREM FeedIsTrue ==
  ASSUME Calm
  PROVE  Spec => []FeedTellsAll
<1>1. EstateInv => FeedTellsAll
  BY DEF EstateInv, StoreInv
<1>2. QED
  BY <1>1, EstateInvariant, PTL

\* collections() lists every collection with a member, though the registry is written
\* outside the batch and a drop deregisters the name last.
THEOREM NamesAreListed ==
  ASSUME Calm
  PROVE  Spec => []MembersListed
<1>1. ASSUME EstateInv PROVE MembersListed
  <2>1. /\ docs \in [Ids -> Slot] /\ RowInv /\ ListInv
        /\ rows \subseteq {"term", "coll", "pidx"} \X (Terms \cup Colls \cup Nums \cup Texts) \X Ids
    BY <1>1 DEF EstateInv, StoreInv, TypeOK, Slot
  <2>2. ASSUME NEW row \in rows, row[1] = "coll" PROVE row[2] \in registry
    <3>1. row[3] \in Ids
      BY <2>1
    <3>2. row \in BaseRows(row[3], docs[row[3]])
      BY <2>1, <2>2 DEF RowInv
    <3>3. docs[row[3]] # Absent /\ docs[row[3]].coll # None /\ row = <<"coll", docs[row[3]].coll, row[3]>>
      BY <2>2, <3>2 DEF BaseRows, CollRows, TermRows
    <3>4. row[2] = docs[row[3]].coll
      BY <3>3
    <3>5. QED
      BY <2>1, <3>1, <3>3, <3>4 DEF ListInv
  <2>3. QED
    BY <2>2 DEF MembersListed
<1>2. QED
  BY <1>1, EstateInvariant, PTL

\* Documents change by all operations of one call, in the order the call gave them.
THEOREM CallsInOrder ==
  ASSUME Calm
  PROVE  Spec => OpsApplyInOrder
<1> DEFINE A == docs' # docs => \/ \E w \in Writers : tx[w] # Idle /\ docs' = InOrder(tx[w].ops)
                                \/ dropping # Idle /\ dropping.tx # Idle /\ docs' = InOrder(dropping.tx.ops)
<1>1. ASSUME EstateInv, [Next]_vars PROVE [A]_vars
  <2>1. ASSUME NEW w \in Writers, Commit(w) PROVE A
    <3>1. tx[w] # Idle /\ docs' = DocsAfter(tx[w].edits)
      BY <2>1 DEF Commit, Write
    <3>2. GoodTx(tx[w])
      BY <1>1, <3>1, WorksAlone
    <3>3. QED
      BY <3>1, <3>2 DEF GoodTx
  <2>2. CASE DropCommit
    <3>1. dropping # Idle /\ dropping.tx # Idle /\ docs' = DocsAfter(dropping.tx.edits)
      BY <2>2 DEF DropCommit, Write
    <3>2. GoodTx(dropping.tx)
      BY <1>1, <3>1, DropsAlone
    <3>3. QED
      BY <3>1, <3>2 DEF GoodTx
  <2>3. ASSUME NEW w \in Writers, Call(w) \/ Abort(w) PROVE docs' = docs
    BY <2>3 DEF Call, UpsertCall, RemoveCall, TransactionCall, PayloadCall, Stage, Abort, durable
  <2>4. ASSUME NEW c \in Colls, DropStart(c) PROVE docs' = docs
    BY <2>4 DEF DropStart, durable
  <2>5. ASSUME DropStage \/ DropFinish \/ CreateIndex \/ RebuildIndex \/ BuildWrite PROVE docs' = docs
    BY <2>5 DEF DropStage, DropFinish, CreateIndex, RebuildIndex, BuildWrite, durable
  <2>6. QED
    BY <1>1, <2>1, <2>2, <2>3, <2>4, <2>5 DEF Next
<1>2. QED
  BY <1>1, EstateInvariant, PTL DEF Spec, OpsApplyInOrder

\* drop_collection removes only documents of its collection, whatever was written
\* before it and between its steps.
THEOREM DropsSpare ==
  ASSUME Calm
  PROVE  Spec => OutsidersUntouched
<1> DEFINE A == \A id \in Ids : (dropping # Idle /\ dropping' # dropping /\ docs[id] # docs'[id])
                                   => docs[id].coll = dropping.coll
<1>1. ASSUME EstateInv, [Next]_vars PROVE [A]_vars
  <2>1. SUFFICES ASSUME NEW id \in Ids, Next, dropping # Idle, dropping' # dropping, docs[id] # docs'[id]
                 PROVE  docs[id].coll = dropping.coll
    BY <1>1
  <2>2. ~ \E w \in Writers : Call(w) \/ Commit(w) \/ Abort(w)
    BY <2>1 DEF Call, UpsertCall, RemoveCall, TransactionCall, PayloadCall, Stage, Commit, Abort
  <2>3. ~ \E c \in Colls : DropStart(c)
    BY <2>1 DEF DropStart
  <2>4. ~(DropStage \/ DropFinish \/ CreateIndex \/ RebuildIndex \/ BuildWrite)
    BY <2>1 DEF DropStage, DropFinish, CreateIndex, RebuildIndex, BuildWrite, durable
  <2>5. DropCommit
    BY <2>1, <2>2, <2>3, <2>4 DEF Next
  <2>6. InDrop(id)
    BY <1>1, <2>1, <2>5, DropWrites
  <2>7. QED
    BY <1>1, <2>1, <2>6 DEF EstateInv, DropInv
<1>2. QED
  BY <1>1, EstateInvariant, PTL DEF Spec, OutsidersUntouched
=============================================================================
