-------------------------- MODULE GraphApplyProofs --------------------------
(***************************************************************************)
(* Proofs about GraphApply, for every set of ids, embeddings, writers and  *)
(* readers and every batch size and cap.                                   *)
(*                                                                         *)
(*   TypeCorrect       the type invariant                                  *)
(*   PipelineSound     the pipeline invariant PipeInv                      *)
(*   RefinesView       GraphApply implements VectorView                    *)
(*   ReadsOwnWrites    ReadYourWrites when writers share one handle        *)
(*   QuiesceExact      QuiescedIsExact under the same hypothesis           *)
(***************************************************************************)
EXTENDS GraphApply, OrderLemmas

-----------------------------------------------------------------------------
(* Lists of operations: applying a list is applying its head and then its  *)
(* tail, and applying a longer list is applying the shorter one and then   *)
(* the last operation.                                                     *)

\* A list touches an id when one of its entries is for it.
LEMMA TouchesEntry ==
  ASSUME NEW ops \in Seq(Ops), NEW id
  PROVE  Touches(ops, id) <=> \E i \in 1..Len(ops) : ops[i].id = id
  BY DEF Touches

\* A list that touches an id has a last entry for it, and LastFor is that entry.
LEMMA LastForExists ==
  ASSUME NEW ops \in Seq(Ops), NEW id, Touches(ops, id)
  PROVE  /\ LastFor(ops, id) \in 1..Len(ops)
         /\ ops[LastFor(ops, id)].id = id
         /\ \A j \in 1..Len(ops) : ops[j].id = id => j <= LastFor(ops, id)
<1> DEFINE T == {n \in 0..Len(ops) : \E i \in 1..Len(ops) : n = Len(ops) - i /\ ops[i].id = id}
<1>1. T \in SUBSET Nat /\ T # {}
  <2>1. PICK i \in 1..Len(ops) : ops[i].id = id
    BY TouchesEntry
  <2>2. Len(ops) - i \in T
    BY <2>1
  <2>3. \A n \in T : n \in Nat
    OBVIOUS
  <2> HIDE DEF T
  <2>4. QED
    BY <2>2, <2>3
<1>2. PICK n \in T : \A y \in T : n <= y
  BY <1>1, LeastNumber
<1>3. PICK i \in 1..Len(ops) : n = Len(ops) - i /\ ops[i].id = id
  BY <1>2
<1>4. ASSUME NEW j \in 1..Len(ops), ops[j].id = id PROVE j <= i
  <2>1. Len(ops) - j \in T
    BY <1>4
  <2>2. n <= Len(ops) - j
    BY <2>1, <1>2
  <2>3. QED
    BY <2>2, <1>3
<1>5. DOMAIN ops = 1..Len(ops)
  OBVIOUS
<1>6. \E k \in DOMAIN ops : /\ ops[k].id = id
                           /\ \A j \in DOMAIN ops : ops[j].id = id => j <= k
  BY <1>3, <1>4, <1>5
<1>7. QED
  BY <1>6, <1>5 DEF LastFor

\* LastFor is the only entry with that property.
LEMMA LastForUnique ==
  ASSUME NEW ops \in Seq(Ops), NEW id, NEW i \in 1..Len(ops), ops[i].id = id,
         \A j \in 1..Len(ops) : ops[j].id = id => j <= i
  PROVE  Touches(ops, id) /\ LastFor(ops, id) = i
<1>1. Touches(ops, id)
  BY DEF Touches
<1>2. QED
  BY <1>1, LastForExists

\* Applying operations keeps a map of vectors a map of vectors.
LEMMA AfterType ==
  ASSUME NEW m \in [Ids -> Slot], NEW ops \in Seq(Ops)
  PROVE  After(m, ops) \in [Ids -> Slot]
<1> SUFFICES ASSUME NEW id \in Ids PROVE After(m, ops)[id] \in Slot
  BY DEF After
<1>1. CASE Touches(ops, id)
  <2>1. ops[LastFor(ops, id)] \in Ops
    BY <1>1, LastForExists
  <2>2. QED
    BY <1>1, <2>1 DEF After, Ops
<1>2. CASE ~Touches(ops, id)
  BY <1>2 DEF After
<1>3. QED
  BY <1>1, <1>2

\* The empty list changes nothing.
LEMMA AfterEmpty ==
  ASSUME NEW m \in [Ids -> Slot]
  PROVE  After(m, <<>>) = m
  BY DEF After, Touches

\* The tail of a list touches an id one place earlier than the list does.
LEMMA TailTouches ==
  ASSUME NEW ops \in Seq(Ops), ops # <<>>, NEW id, Touches(Tail(ops), id)
  PROVE  Touches(ops, id) /\ LastFor(ops, id) = LastFor(Tail(ops), id) + 1
<1> DEFINE t == Tail(ops)
           k == LastFor(t, id)
<1>1. t \in Seq(Ops) /\ Len(t) = Len(ops) - 1 /\ \A i \in 1..Len(t) : t[i] = ops[i + 1]
  OBVIOUS
<1>2. /\ k \in 1..Len(t) /\ t[k].id = id
      /\ \A j \in 1..Len(t) : t[j].id = id => j <= k
  BY <1>1, LastForExists
<1> HIDE DEF t, k
<1>3. k + 1 \in 1..Len(ops) /\ ops[k + 1].id = id
  BY <1>1, <1>2
<1>4. ASSUME NEW j \in 1..Len(ops), ops[j].id = id PROVE j <= k + 1
  <2>1. CASE j = 1
    BY <2>1, <1>2
  <2>2. CASE j # 1
    <3>1. j - 1 \in 1..Len(t) /\ t[j - 1] = ops[j]
      BY <2>2, <1>1
    <3>2. j - 1 <= k
      BY <3>1, <1>2, <1>4
    <3>3. QED
      BY <3>2, <1>2
  <2>3. QED
    BY <2>1, <2>2
<1>5. Touches(ops, id) /\ LastFor(ops, id) = k + 1
  BY <1>3, <1>4, LastForUnique
<1>6. QED
  BY <1>5 DEF t, k

\* Applying a list is applying its head, then its tail.
LEMMA AfterHeadTail ==
  ASSUME NEW m \in [Ids -> Slot], NEW ops \in Seq(Ops), ops # <<>>
  PROVE  After([m EXCEPT ![Head(ops).id] = Head(ops).val], Tail(ops)) = After(m, ops)
<1> DEFINE h == Head(ops)
           t == Tail(ops)
           n == [m EXCEPT ![h.id] = h.val]
<1>1. h = ops[1] /\ h \in Ops /\ t \in Seq(Ops) /\ Len(t) = Len(ops) - 1 /\ Len(ops) >= 1
  OBVIOUS
<1>2. \A i \in 1..Len(t) : t[i] = ops[i + 1]
  OBVIOUS
<1>7. ASSUME NEW id \in Ids, Touches(t, id)
      PROVE  Touches(ops, id) /\ LastFor(ops, id) = LastFor(t, id) + 1
  BY <1>7, TailTouches
<1>8. n \in [Ids -> Slot] /\ \A id \in Ids : n[id] = IF id = h.id THEN h.val ELSE m[id]
  BY <1>1 DEF Ops
<1> HIDE DEF h, t, n
<1> SUFFICES ASSUME NEW id \in Ids PROVE After(n, t)[id] = After(m, ops)[id]
  BY DEF After, h, t, n
<1>3. CASE Touches(t, id)
  <2>1. Touches(ops, id) /\ LastFor(ops, id) = LastFor(t, id) + 1
    BY <1>3, <1>7
  <2>2. LastFor(t, id) \in 1..Len(t)
    BY <1>1, <1>3, LastForExists
  <2>3. QED
    BY <1>2, <1>3, <2>1, <2>2 DEF After
<1>4. CASE ~Touches(t, id) /\ h.id = id
  <2>1. \A j \in 1..Len(ops) : ops[j].id = id => j <= 1
    <3> SUFFICES ASSUME NEW j \in 1..Len(ops), ops[j].id = id, j # 1 PROVE FALSE
      OBVIOUS
    <3>1. j - 1 \in 1..Len(t) /\ t[j - 1] = ops[j]
      BY <1>1, <1>2
    <3>2. t[j - 1].id # id
      BY <1>1, <1>4, <3>1, TouchesEntry
    <3>3. QED
      BY <3>1, <3>2
  <2>2. Touches(ops, id) /\ LastFor(ops, id) = 1
    BY <1>1, <1>4, <2>1, LastForUnique
  <2>3. QED
    BY <1>1, <1>4, <1>8, <2>2 DEF After
<1>5. CASE ~Touches(t, id) /\ h.id # id
  <2>1. ~Touches(ops, id)
    <3> SUFFICES ASSUME NEW j \in 1..Len(ops), ops[j].id = id PROVE FALSE
      BY TouchesEntry
    <3>1. j - 1 \in 1..Len(t) /\ t[j - 1] = ops[j]
      BY <1>1, <1>2, <1>5
    <3>2. t[j - 1].id # id
      BY <1>1, <1>5, <3>1, TouchesEntry
    <3>3. QED
      BY <3>1, <3>2
  <2>2. QED
    BY <1>5, <1>8, <2>1 DEF After
<1>6. QED
  BY <1>3, <1>4, <1>5

\* Removing one id, however often, removes it.
LEMMA AfterRemovals ==
  ASSUME NEW m \in [Ids -> Slot], NEW id \in Ids,
         NEW s \in Seq(Ops), s # <<>>, \A i \in 1..Len(s) : s[i] = Removal(id)
  PROVE  After(m, s) = [m EXCEPT ![id] = Absent]
<1>1. Removal(id).id = id /\ Removal(id).val = Absent
  BY DEF Removal
<1>2. Len(s) \in 1..Len(s) /\ s[Len(s)] = Removal(id)
  OBVIOUS
<1>3. Touches(s, id) /\ LastFor(s, id) = Len(s)
  BY <1>1, <1>2, LastForUnique
<1>4. \A x \in Ids : x # id => ~Touches(s, x)
  BY <1>1 DEF Touches
<1>5. QED
  BY <1>1, <1>2, <1>3, <1>4 DEF After

-----------------------------------------------------------------------------
(* The parts of the invariant.                                             *)

\* What the applier's position says about the in-flight batch, and what a
\* search holds while it has the read lock.
PhaseInv ==
    /\ applier \in {"collect", "gone"} => \A id \in Ids : inflight[id] = NoOp
    /\ applier = "finish" =>
          \A id \in Ids : inflight[id] # NoOp => graph[id] = inflight[id]
LockInv == \A r \in Readers : rpc[r] = "locked" => rhits[r] = graph

\* A transaction that is about to commit holds a bounded operation list.
StagedInv == \A w \in Writers : wpc[w] = "staged" => wops[w] \in OpLists

\* The pipeline invariant: it needs no assumption on how writers serialise.
PipeInv == TypeOK /\ PhaseInv /\ LockInv /\ NoStrandedOp /\ StagedInv

-----------------------------------------------------------------------------
(* Type correctness.                                                       *)

\* A bounded operation list is a sequence of operations.
LEMMA OpListsAreSeqs == \A ops \in OpLists : ops \in Seq(Ops)
  BY SizesPositive DEF OpLists

\* A removal is an operation.
LEMMA RemovalIsOp == \A id \in Ids : Removal(id) \in Ops
  BY DEF Removal, Ops, Slot

\* No operation, and one removal, are bounded operation lists.
LEMMA ShortOpLists == <<>> \in OpLists /\ \A id \in Ids : <<Removal(id)>> \in OpLists
<1>1. 0 \in 0..MaxOps /\ 1 \in 0..MaxOps
  BY SizesPositive
<1>2. <<>> \in [1..0 -> Ops]
  OBVIOUS
<1>3. ASSUME NEW id \in Ids PROVE <<Removal(id)>> \in [1..1 -> Ops]
  <2>1. Removal(id) \in Ops
    BY RemovalIsOp
  <2>2. <<Removal(id)>> = [i \in 1..1 |-> Removal(id)]
    OBVIOUS
  <2>3. QED
    BY <2>1, <2>2
<1>4. QED
  BY <1>1, <1>2, <1>3 DEF OpLists

\* The initial state is well typed.
LEMMA InitType == Init => TypeOK
<1> SUFFICES ASSUME Init PROVE TypeOK
  OBVIOUS
<1>1. vecs \in [Ids -> Slot] /\ graph \in [Ids -> Slot]
  BY DEF Init, Slot
<1>2. latest \in [Ids -> Pends] /\ inflight \in [Ids -> Pends]
  BY DEF Init, Pends
<1>3. queue \in Seq(Ids) /\ wops \in [Writers -> Seq(Ops)]
  BY DEF Init
<1>4. rpc \in [Readers -> {"idle", "locked"}] /\ rhits \in [Readers -> [Ids -> Slot]]
  BY DEF Init, Slot
<1>5. /\ wpc \in [Writers -> {"idle", "staged", "push"}] /\ wseq \in [Writers -> Nat]
      /\ wdrop \in [Writers -> Ids \cup {NoOp}]
  BY DEF Init
<1>6. QED
  BY <1>1, <1>2, <1>3, <1>4, <1>5 DEF Init, TypeOK

\* Every step of a writer keeps the state well typed.
LEMMA WriteType == ASSUME TypeOK, NEW w \in Writers, Write(w) PROVE TypeOK'
<1>1. CASE Begin(w)
  <2>1. PICK ops \in Stageable : wops' = [wops EXCEPT ![w] = ops]
    BY <1>1 DEF Begin
  <2>2. ops \in Seq(Ops)
    BY <2>1, OpListsAreSeqs DEF Stageable
  <2>3. wops' \in [Writers -> Seq(Ops)]
    BY <2>1, <2>2 DEF TypeOK
  <2>4. QED
    BY <1>1, <2>3 DEF Begin, TypeOK, pendingVars, readerVars
<1>2. CASE Rollback(w)
  BY <1>2 DEF Rollback, TypeOK, pendingVars, readerVars
<1>3. CASE DropMember(w)
  <2>1. PICK id \in Ids :
          /\ wdrop' = [wdrop EXCEPT ![w] = id]
          /\ wops' = [wops EXCEPT ![w] = IF vecs[id] # Absent THEN <<Removal(id)>> ELSE <<>>]
    BY <1>3 DEF DropMember
  <2>2. <<Removal(id)>> \in Seq(Ops) /\ <<>> \in Seq(Ops)
    BY RemovalIsOp
  <2>3. wops' \in [Writers -> Seq(Ops)] /\ wdrop' \in [Writers -> Ids \cup {NoOp}]
    BY <2>1, <2>2 DEF TypeOK
  <2>4. QED
    BY <1>3, <2>3 DEF DropMember, TypeOK, pendingVars, readerVars
<1>4. CASE Commit(w)
  <2>1. vecs' \in [Ids -> Slot]
    BY <1>4, AfterType DEF Commit, TypeOK
  <2>2. wops' \in [Writers -> Seq(Ops)]
    <3>1. wops[w] \in Seq(Ops)
      BY DEF TypeOK
    <3>2. wdrop[w] # NoOp => wops[w] \o <<Removal(wdrop[w])>> \in Seq(Ops)
      BY <3>1, RemovalIsOp DEF TypeOK
    <3>3. QED
      BY <1>4, <3>2 DEF Commit, TypeOK
  <2>3. feedSeq' \in Nat
    BY <1>4 DEF Commit, SeqAfter, TypeOK
  <2>4. QED
    BY <1>4, <2>1, <2>2, <2>3 DEF Commit, TypeOK, pendingVars, readerVars
<1>5. CASE Push(w)
  <2>1. wops[w] \in Seq(Ops) /\ wops[w] # <<>>
    BY <1>5 DEF Push, TypeOK
  <2>2. Head(wops[w]) \in Ops /\ Tail(wops[w]) \in Seq(Ops)
    BY <2>1
  <2>3. Head(wops[w]).id \in Ids /\ Head(wops[w]).val \in Slot
    BY <2>2 DEF Ops
  <2>4. queue' \in Seq(Ids) /\ latest' \in [Ids -> Pends]
    BY <1>5, <2>3 DEF Push, Queued, TypeOK, Pends
  <2>5. wops' \in [Writers -> Seq(Ops)]
    BY <1>5, <2>2 DEF Push, TypeOK
  <2>6. QED
    BY <1>5, <2>4, <2>5 DEF Push, TypeOK, readerVars
<1>6. CASE Ack(w)
  BY <1>6 DEF Ack, TypeOK, pendingVars, readerVars
<1>7. QED
  BY <1>1, <1>2, <1>3, <1>4, <1>5, <1>6 DEF Write

\* Every step of the applier, a search or a shutdown keeps the state well typed.
LEMMA OtherType ==
  ASSUME TypeOK, Applier \/ Stop \/ \E r \in Readers : Search(r) PROVE TypeOK'
<1>1. CASE Collect
  BY <1>1 DEF Collect, TypeOK, Pends, writerVars, readerVars
<1>2. CASE Apply
  BY <1>2 DEF Apply, Applied, TypeOK, Pends, pendingVars, writerVars, readerVars
<1>3. CASE Finish
  BY <1>3 DEF Finish, TypeOK, Pends, writerVars, readerVars
<1>4. CASE Exit
  BY <1>4 DEF Exit, TypeOK, pendingVars, writerVars, readerVars
<1>5. CASE Stop
  BY <1>5 DEF Stop, TypeOK, writerVars, readerVars
<1>6. ASSUME NEW r \in Readers, SearchGraph(r) PROVE TypeOK'
  BY <1>6 DEF SearchGraph, TypeOK, pendingVars, writerVars
<1>7. ASSUME NEW r \in Readers, SearchOverlay(r) PROVE TypeOK'
  BY <1>7 DEF SearchOverlay, TypeOK, Slot, pendingVars, writerVars
<1>8. QED
  BY <1>1, <1>2, <1>3, <1>4, <1>5, <1>6, <1>7 DEF Applier, Search

\* Every step keeps the state well typed.
LEMMA StepType == TypeOK /\ [Next]_vars => TypeOK'
<1> SUFFICES ASSUME TypeOK, [Next]_vars PROVE TypeOK'
  OBVIOUS
<1>1. CASE UNCHANGED vars
  BY <1>1 DEF vars, TypeOK
<1>2. QED
  BY <1>1, WriteType, OtherType DEF Next

\* The variables of the write path always hold values of their types.
THEOREM TypeCorrect == Spec => []TypeOK
  BY InitType, StepType, PTL DEF Spec

-----------------------------------------------------------------------------
(* The pipeline invariant.                                                 *)

\* A step of a writer keeps the pipeline invariant: it only adds to latest and
\* to the queue.
LEMMA WritePipe == ASSUME PipeInv, NEW w \in Writers, Write(w) PROVE PipeInv'
<1> USE DEF PipeInv
<1>1. TypeOK'
  BY WriteType
<1>2. UNCHANGED <<inflight, applier, graph, rpc, rhits>>
  BY DEF Write, Begin, Rollback, DropMember, Commit, Push, Ack, pendingVars, readerVars
<1>3. PhaseInv' /\ LockInv'
  BY <1>2 DEF PhaseInv, LockInv
<1>4. NoStrandedOp'
  <2>1. CASE Push(w)
    <3> DEFINE op == Head(wops[w])
    <3>1. op \in Ops
      BY <2>1 DEF Push, TypeOK
    <3>2. queue' = Append(queue, op.id) /\ latest' = [latest EXCEPT ![op.id] = op.val]
      BY <2>1 DEF Push, Queued
    <3> HIDE DEF op
    <3> SUFFICES ASSUME NEW id \in Ids, latest'[id] # NoOp
                 PROVE  \E i \in DOMAIN queue' : queue'[i] = id
      BY DEF NoStrandedOp
    <3>3. /\ DOMAIN queue' = 1..(Len(queue) + 1) /\ queue'[Len(queue) + 1] = op.id
          /\ \A i \in 1..Len(queue) : queue'[i] = queue[i]
      BY <3>1, <3>2 DEF TypeOK, Ops
    <3>4. CASE id = op.id
      <4>1. Len(queue) + 1 \in DOMAIN queue'
        BY <3>3 DEF TypeOK
      <4>2. QED
        BY <3>3, <3>4, <4>1
    <3>5. CASE id # op.id
      <4>1. latest[id] # NoOp
        BY <3>2, <3>5 DEF TypeOK
      <4>2. PICK i \in 1..Len(queue) : queue[i] = id
        BY <4>1 DEF NoStrandedOp, TypeOK
      <4>3. i \in DOMAIN queue' /\ queue'[i] = id
        BY <3>3, <4>2 DEF TypeOK
      <4>4. QED
        BY <4>3
    <3>6. QED
      BY <3>4, <3>5
  <2>2. CASE ~Push(w)
    <3>1. UNCHANGED <<queue, latest>>
      BY <2>2 DEF Write, Begin, Rollback, DropMember, Commit, Ack, pendingVars
    <3>2. QED
      BY <3>1 DEF NoStrandedOp
  <2>3. QED
    BY <2>1, <2>2
<1>5. StagedInv'
  <2>1. CASE Begin(w)
    BY <2>1 DEF Begin, Stageable, StagedInv, TypeOK
  <2>2. CASE DropMember(w)
    BY <2>2, ShortOpLists DEF DropMember, StagedInv, TypeOK
  <2>3. CASE Rollback(w) \/ Commit(w) \/ Push(w) \/ Ack(w)
    BY <2>3 DEF Rollback, Commit, Push, Ack, StagedInv, TypeOK
  <2>4. QED
    BY <2>1, <2>2, <2>3 DEF Write
<1>6. QED
  BY <1>1, <1>3, <1>4, <1>5

\* collect_batch leaves a queue entry for every operation it leaves behind.
LEMMA CollectPipe == ASSUME PipeInv, Collect PROVE PipeInv'
<1> USE DEF PipeInv
<1>1. TypeOK'
  BY OtherType DEF Applier
<1>2. PhaseInv' /\ LockInv'
  BY DEF Collect, PhaseInv, LockInv, readerVars
<1>3. NoStrandedOp'
  <2>1. PICK n \in 1..Len(queue) :
          /\ queue' = SubSeq(queue, n + 1, Len(queue))
          /\ latest' = [id \in Ids |-> IF id \in Popped(n) THEN NoOp ELSE latest[id]]
    BY DEF Collect
  <2> SUFFICES ASSUME NEW id \in Ids, latest'[id] # NoOp
               PROVE  \E i \in DOMAIN queue' : queue'[i] = id
    BY DEF NoStrandedOp
  <2>2. latest[id] # NoOp /\ id \notin Popped(n)
    BY <2>1
  <2>3. PICK i \in 1..Len(queue) : queue[i] = id
    BY <2>2 DEF NoStrandedOp, TypeOK
  <2>4. i > n
    BY <2>2, <2>3 DEF Popped, TypeOK
  <2>5. i - n \in DOMAIN queue' /\ queue'[i - n] = queue[i]
    BY <2>1, <2>4 DEF TypeOK
  <2>6. QED
    BY <2>3, <2>5
<1>4. StagedInv'
  BY DEF Collect, StagedInv, writerVars
<1>5. QED
  BY <1>1, <1>2, <1>3, <1>4

\* The other steps of the applier, searches and shutdown keep it too.
LEMMA OtherPipe ==
  ASSUME PipeInv, Applier \/ Stop \/ \E r \in Readers : Search(r) PROVE PipeInv'
<1> USE DEF PipeInv
<1>1. TypeOK' /\ StagedInv'
  BY OtherType DEF Applier, Collect, Apply, Finish, Exit, Stop, Search, SearchGraph,
                   SearchOverlay, StagedInv, writerVars
<1>2. CASE Collect
  BY <1>2, CollectPipe
<1>3. CASE Apply
  <2>1. PhaseInv'
    BY <1>3 DEF Apply, Applied, PhaseInv, pendingVars, TypeOK
  <2>2. LockInv' /\ NoStrandedOp'
    BY <1>3 DEF Apply, LockInv, NoStrandedOp, pendingVars, readerVars
  <2>3. QED
    BY <1>1, <2>1, <2>2
<1>4. CASE Finish
  BY <1>1, <1>4 DEF Finish, PhaseInv, LockInv, NoStrandedOp, readerVars
<1>5. CASE Exit
  BY <1>1, <1>5 DEF Exit, PhaseInv, LockInv, NoStrandedOp, pendingVars, readerVars
<1>6. CASE Stop
  BY <1>1, <1>6 DEF Stop, PhaseInv, LockInv, NoStrandedOp, readerVars
<1>7. ASSUME NEW r \in Readers, Search(r) PROVE PipeInv'
  <2>1. PhaseInv' /\ NoStrandedOp'
    BY <1>7 DEF Search, SearchGraph, SearchOverlay, PhaseInv, NoStrandedOp, pendingVars
  <2>2. LockInv'
    <3>1. CASE SearchGraph(r)
      BY <3>1 DEF SearchGraph, LockInv, TypeOK
    <3>2. CASE SearchOverlay(r)
      BY <3>2 DEF SearchOverlay, LockInv, TypeOK
    <3>3. QED
      BY <1>7, <3>1, <3>2 DEF Search
  <2>3. QED
    BY <1>1, <2>1, <2>2
<1>8. QED
  BY <1>2, <1>3, <1>4, <1>5, <1>6, <1>7 DEF Applier

\* Every step keeps the pipeline invariant.
LEMMA StepPipe == PipeInv /\ [Next]_vars => PipeInv'
<1> SUFFICES ASSUME PipeInv, [Next]_vars PROVE PipeInv'
  OBVIOUS
<1>1. CASE UNCHANGED vars
  BY <1>1 DEF vars, PipeInv, TypeOK, PhaseInv, LockInv, NoStrandedOp, StagedInv
<1>2. QED
  BY <1>1, WritePipe, OtherPipe DEF Next

\* The initial state satisfies it.
LEMMA InitPipe == Init => PipeInv
<1> SUFFICES ASSUME Init PROVE PipeInv
  OBVIOUS
<1>1. PhaseInv /\ LockInv /\ NoStrandedOp /\ StagedInv
  BY DEF Init, PhaseInv, LockInv, NoStrandedOp, StagedInv
<1>2. QED
  BY <1>1, InitType DEF PipeInv

\* Whatever handles the writers use, no pending operation is ever stranded
\* (NoStrandedOp, about collect_batch), the in-flight batch is empty or in the
\* graph whenever the applier is not applying it, and a search holds the graph
\* as it is for as long as it holds the read lock.
THEOREM PipelineSound == Spec => [](NoStrandedOp /\ PhaseInv /\ LockInv)
<1>1. PipeInv => NoStrandedOp /\ PhaseInv /\ LockInv
  BY DEF PipeInv
<1>2. QED
  BY <1>1, InitPipe, StepPipe, PTL DEF Spec

-----------------------------------------------------------------------------
(* What searches see, and the refinement of VectorView.                    *)

\* Under the type invariant the overlay is a map of vectors.
LEMMA OverlayType == ASSUME TypeOK PROVE Overlay(graph) \in [Ids -> Slot]
  BY DEF TypeOK, Overlay, Pends

\* The applier, searches and shutdown never change what a search sees, nor the
\* durable vectors or the writers.
LEMMA OverlayQuiet ==
  ASSUME PipeInv, Applier \/ Stop \/ \E r \in Readers : Search(r)
  PROVE  UNCHANGED <<Overlay(graph), vecs, wpc, wops, wdrop>>
<1> USE DEF PipeInv
<1>1. UNCHANGED <<vecs, wpc, wops, wdrop>>
  BY DEF Applier, Collect, Apply, Finish, Exit, Stop, Search, SearchGraph, SearchOverlay,
         writerVars
<1>2. UNCHANGED Overlay(graph)
  <2>1. CASE Collect
    <3>1. PICK n \in 1..Len(queue) :
            /\ inflight' = [id \in Ids |-> IF id \in Popped(n) THEN latest[id] ELSE inflight[id]]
            /\ latest' = [id \in Ids |-> IF id \in Popped(n) THEN NoOp ELSE latest[id]]
      BY <2>1 DEF Collect
    <3>2. \A id \in Ids : inflight[id] = NoOp
      BY <2>1 DEF Collect, PhaseInv
    <3>3. \A id \in Ids : id \in Popped(n) => latest[id] # NoOp
      BY DEF Popped
    <3>4. graph' = graph
      BY <2>1 DEF Collect
    <3>5. QED
      BY <3>1, <3>2, <3>3, <3>4 DEF Overlay
  <2>2. CASE Apply
    BY <2>2 DEF Apply, Applied, Overlay, pendingVars
  <2>3. CASE Finish
    BY <2>3 DEF Finish, Overlay, PhaseInv
  <2>4. CASE Exit \/ Stop \/ \E r \in Readers : Search(r)
    BY <2>4 DEF Exit, Stop, Search, SearchGraph, SearchOverlay, Overlay, pendingVars
  <2>5. QED
    BY <2>1, <2>2, <2>3, <2>4 DEF Applier
<1>3. QED
  BY <1>1, <1>2

\* Of a writer's steps only Push changes what a search sees, by one operation.
LEMMA OverlayWrite ==
  ASSUME PipeInv, NEW w \in Writers, Write(w)
  PROVE  \/ ~Push(w) /\ UNCHANGED Overlay(graph)
         \/ /\ Push(w)
            /\ Overlay(graph)' = [Overlay(graph) EXCEPT ![Head(wops[w]).id] = Head(wops[w]).val]
<1> USE DEF PipeInv
<1>1. CASE Push(w)
  <2> DEFINE op == Head(wops[w])
  <2>1. op \in Ops
    BY <1>1 DEF Push, TypeOK
  <2>2. op.val # NoOp /\ op.id \in Ids
    BY <2>1, SlotsDistinct DEF Ops, Slot
  <2>3. latest' = [latest EXCEPT ![op.id] = op.val] /\ UNCHANGED <<inflight, graph>>
    BY <1>1 DEF Push
  <2> HIDE DEF op
  <2>4. Overlay(graph)' = [Overlay(graph) EXCEPT ![op.id] = op.val]
    BY <2>2, <2>3 DEF Overlay, TypeOK
  <2>5. QED
    BY <1>1, <2>4 DEF op
<1>2. CASE ~Push(w)
  BY <1>2 DEF Write, Begin, Rollback, DropMember, Commit, Ack, pendingVars, Overlay
<1>3. QED
  BY <1>1, <1>2

\* Every step of GraphApply is a step of VectorView or leaves its state alone.
LEMMA StepRefines == PipeInv /\ [Next]_vars => [View!VNext]_(View!viewVars)
<1> SUFFICES ASSUME PipeInv, [Next]_vars PROVE [View!VNext]_(View!viewVars)
  OBVIOUS
<1> USE DEF PipeInv
<1>1. CASE UNCHANGED vars
  BY <1>1 DEF vars, View!viewVars, Overlay, Unpushed
<1>2. CASE Applier \/ Stop \/ \E r \in Readers : Search(r)
  BY <1>2, OverlayQuiet DEF View!viewVars, Unpushed
<1>3. ASSUME NEW w \in Writers, Write(w) PROVE [View!VNext]_(View!viewVars)
  <2>1. CASE Commit(w)
    <3> DEFINE extra == IF wdrop[w] = NoOp THEN <<>> ELSE <<Removal(wdrop[w])>>
    <3>1. Overlay(graph)' = Overlay(graph)
      BY <2>1 DEF Commit, Overlay, pendingVars
    <3>2. wops[w] \in OpLists /\ wops[w] \in Seq(Ops) /\ Unpushed[w] = <<>>
      BY <2>1 DEF Commit, StagedInv, Unpushed, TypeOK
    <3>3. extra \in {<<>>} \cup {<<Removal(id)>> : id \in Ids}
      BY DEF TypeOK
    <3>4. wops'[w] = wops[w] \o extra
      BY <2>1, <3>2 DEF Commit, TypeOK
    <3>5. Unpushed' = [Unpushed EXCEPT ![w] = wops[w] \o extra]
      BY <2>1, <3>4 DEF Commit, Unpushed, TypeOK
    <3>6. vecs' = After(vecs, wops[w])
      BY <2>1 DEF Commit
    <3> HIDE DEF extra
    <3>7. View!VCommit(w)
      BY <3>1, <3>2, <3>3, <3>5, <3>6
         DEF View!VCommit, View!After, View!Touches, View!LastFor, View!OpLists, View!Ops,
             View!Slot, After, Touches, LastFor, OpLists, Ops, Slot, Removal
    <3>8. QED
      BY <3>7 DEF View!VNext
  <2>2. CASE Push(w)
    <3>1. Overlay(graph)' = [Overlay(graph) EXCEPT ![Head(wops[w]).id] = Head(wops[w]).val]
      BY <1>3, <2>2, OverlayWrite
    <3>2. Unpushed[w] = wops[w] /\ wops[w] # <<>> /\ UNCHANGED vecs
      BY <2>2 DEF Push, Unpushed
    <3>3. Unpushed' = [Unpushed EXCEPT ![w] = Tail(@)]
      BY <2>2 DEF Push, Unpushed, TypeOK
    <3>4. View!VReveal(w)
      BY <3>1, <3>2, <3>3 DEF View!VReveal
    <3>5. QED
      BY <3>4 DEF View!VNext
  <2>3. CASE Begin(w) \/ Rollback(w) \/ DropMember(w) \/ Ack(w)
    <3>1. Overlay(graph)' = Overlay(graph) /\ vecs' = vecs
      BY <2>3 DEF Begin, Rollback, DropMember, Ack, pendingVars, Overlay
    <3>2. Unpushed' = Unpushed
      BY <2>3 DEF Begin, Rollback, DropMember, Ack, Unpushed, TypeOK
    <3>3. QED
      BY <3>1, <3>2 DEF View!viewVars
  <2>4. QED
    BY <1>3, <2>1, <2>2, <2>3 DEF Write
<1>4. QED
  BY <1>1, <1>2, <1>3 DEF Next

\* GraphApply implements VectorView (ImplementsView) in every arrangement of
\* handles: the queue, the in-flight batch, the applier and the graph lock are
\* invisible to a search.
THEOREM RefinesView == Spec => ImplementsView
<1>1. Init => View!VInit
  BY DEF Init, View!VInit, Overlay, Unpushed
<1>2. QED
  BY <1>1, InitPipe, StepPipe, StepRefines, PTL DEF Spec, ImplementsView, View!VSpec

-----------------------------------------------------------------------------
(* Read your writes, when writers serialise.                               *)

\* One call at a time is between begin and return; a drop_collection member's
\* batch removes exactly the document whose removal it announces again; what a
\* search sees is the durable map, or becomes it with the changes still unpushed.
AloneInv == \A v, w \in Writers : wpc[v] # "idle" /\ wpc[w] # "idle" => v = w
DropInv ==
    \A w \in Writers : wdrop[w] # NoOp =>
        /\ w \in Droppers /\ wpc[w] # "idle"
        /\ wpc[w] = "staged" =>
              \/ wops[w] = <<Removal(wdrop[w])>>
              \/ wops[w] = <<>> /\ vecs[wdrop[w]] = Absent
ExactInv ==
    /\ (\A w \in Writers : wpc[w] # "push") => Overlay(graph) = vecs
    /\ \A w \in Writers : wpc[w] = "push" => After(Overlay(graph), wops[w]) = vecs
SerialInv == AloneInv /\ DropInv /\ ExactInv

\* While a writer takes a step every other writer is idle, before and after it.
LEMMA OthersIdle ==
  ASSUME Serialised, TypeOK, SerialInv, NEW w \in Writers, Write(w)
  PROVE  \A v \in Writers \ {w} : wpc[v] = "idle" /\ wpc'[v] = "idle"
<1> TAKE v \in Writers \ {w}
<1>1. Droppers = {}
  BY DroppersWrite DEF Serialised
<1>2. wpc[v] = "idle"
  <2>1. CASE Begin(w)
    BY <1>1, <2>1 DEF Begin, HandleFree, Serialised, SerialInv, DropInv
  <2>2. CASE DropMember(w)
    BY <1>1, <2>2 DEF DropMember
  <2>3. CASE Rollback(w) \/ Commit(w) \/ Push(w) \/ Ack(w)
    BY <2>3 DEF Rollback, Commit, Push, Ack, SerialInv, AloneInv
  <2>4. QED
    BY <2>1, <2>2, <2>3 DEF Write
<1>3. wpc'[v] = wpc[v]
  BY DEF Write, Begin, Rollback, DropMember, Commit, Push, Ack, TypeOK
<1>4. QED
  BY <1>2, <1>3

\* A commit leaves the durable map ahead of the visible one by exactly the
\* changes it will push.
LEMMA CommitExact ==
  ASSUME Serialised, PipeInv, SerialInv, NEW w \in Writers, Commit(w)
  PROVE  After(Overlay(graph), wops'[w]) = vecs'
<1> USE DEF PipeInv
<1>1. \A v \in Writers : wpc[v] # "push"
  BY DEF Commit, SerialInv, AloneInv
<1>2. Overlay(graph) = vecs /\ vecs \in [Ids -> Slot] /\ wops[w] \in Seq(Ops)
  BY <1>1 DEF SerialInv, ExactInv, TypeOK
<1>3. vecs' = After(vecs, wops[w])
  BY DEF Commit
<1>4. CASE wdrop[w] = NoOp
  BY <1>2, <1>3, <1>4 DEF Commit
<1>5. CASE wdrop[w] # NoOp
  <2> DEFINE id == wdrop[w]
             R == Removal(id)
  <2>1. id \in Ids
    BY <1>5 DEF TypeOK
  <2>2. R \in Ops /\ R.id = id /\ R.val = Absent
    BY <2>1, RemovalIsOp DEF Removal
  <2>3. wops'[w] = wops[w] \o <<R>>
    BY <1>5 DEF Commit, TypeOK
  <2>4. wops[w] = <<R>> \/ (wops[w] = <<>> /\ vecs[id] = Absent)
    BY <1>5 DEF Commit, SerialInv, DropInv
  <2>5. /\ wops'[w] \in Seq(Ops) /\ wops'[w] # <<>>
        /\ \A i \in 1..Len(wops'[w]) : wops'[w][i] = R
    <3> HIDE DEF R, id
    <3>1. QED
      BY <1>2, <2>2, <2>3, <2>4
  <2>6. After(vecs, wops'[w]) = [vecs EXCEPT ![id] = Absent]
    BY <1>2, <2>1, <2>5, AfterRemovals
  <2>7. CASE wops[w] = <<R>>
    <3>1. wops[w] # <<>> /\ \A i \in 1..Len(wops[w]) : wops[w][i] = R
      BY <2>7
    <3>2. After(vecs, wops[w]) = [vecs EXCEPT ![id] = Absent]
      BY <1>2, <2>1, <3>1, AfterRemovals
    <3>3. QED
      BY <1>2, <1>3, <2>6, <3>2
  <2>8. CASE wops[w] = <<>> /\ vecs[id] = Absent
    <3>1. vecs' = vecs
      BY <1>2, <1>3, <2>8, AfterEmpty
    <3>2. [vecs EXCEPT ![id] = Absent] = vecs
      BY <1>2, <2>8
    <3>3. QED
      BY <1>2, <2>6, <3>1, <3>2
  <2>9. QED
    BY <2>4, <2>7, <2>8
<1>6. QED
  BY <1>4, <1>5

\* A step of a writer keeps the serial invariant.
LEMMA WriteSerial ==
  ASSUME Serialised, PipeInv, SerialInv, NEW w \in Writers, Write(w) PROVE SerialInv'
<1> USE DEF PipeInv
<1>1. \A v \in Writers \ {w} : wpc[v] = "idle" /\ wpc'[v] = "idle"
  BY OthersIdle
<1>2. AloneInv'
  BY <1>1 DEF AloneInv
<1>3. DropInv'
  <2>1. CASE DropMember(w)
    BY <1>1, <2>1 DEF DropMember, DropInv, SerialInv, TypeOK, Serialised
  <2>2. CASE Begin(w) \/ Rollback(w) \/ Commit(w) \/ Push(w) \/ Ack(w)
    <3>1. \A v \in Writers : wdrop'[v] # NoOp => wdrop'[v] = wdrop[v]
      BY <2>2 DEF Begin, Rollback, Commit, Push, Ack, TypeOK
    <3>2. \A v \in Writers : wdrop'[v] # NoOp => wpc'[v] = "push"
      <4>1. \A v \in Writers : wdrop[v] # NoOp => wpc[v] # "idle"
        BY DEF SerialInv, DropInv
      <4>2. CASE Begin(w) \/ Rollback(w)
        BY <1>1, <4>1, <4>2 DEF Begin, Rollback, TypeOK
      <4>3. CASE Commit(w)
        BY <1>1, <4>1, <4>3 DEF Commit, TypeOK
      <4>4. CASE Push(w) \/ Ack(w)
        BY <1>1, <4>1, <4>4 DEF Push, Ack, TypeOK
      <4>5. QED
        BY <2>2, <4>2, <4>3, <4>4
    <3>3. QED
      BY <3>1, <3>2 DEF SerialInv, DropInv
  <2>3. QED
    BY <2>1, <2>2 DEF Write
<1>4. ExactInv'
  <2>1. CASE Commit(w)
    <3>1. Overlay(graph)' = Overlay(graph)
      BY <2>1 DEF Commit, Overlay, pendingVars
    <3>2. wpc'[w] = "push"
      BY <2>1 DEF Commit, TypeOK
    <3>3. After(Overlay(graph), wops'[w]) = vecs'
      BY <2>1, CommitExact
    <3>4. \A v \in Writers : wpc'[v] = "push" => v = w
      BY <1>1
    <3>5. After(Overlay(graph), wops[w])' = vecs'
      BY <3>1, <3>3 DEF After, Touches, LastFor
    <3>6. QED
      BY <3>2, <3>4, <3>5 DEF ExactInv
  <2>2. CASE Push(w)
    <3> DEFINE m == Overlay(graph)
    <3>1. m' = [m EXCEPT ![Head(wops[w]).id] = Head(wops[w]).val]
      BY <2>2, OverlayWrite
    <3>2. m \in [Ids -> Slot] /\ wops[w] \in Seq(Ops) /\ wops[w] # <<>>
      BY <2>2, OverlayType DEF Push, TypeOK
    <3>3. wops'[w] = Tail(wops[w]) /\ vecs' = vecs /\ wpc[w] = "push" /\ wpc' = wpc
      BY <2>2 DEF Push, TypeOK
    <3>4. After(m, wops[w]) = vecs
      BY <3>3 DEF SerialInv, ExactInv
    <3>5. After(m', wops'[w]) = vecs'
      <4>1. After([m EXCEPT ![Head(wops[w]).id] = Head(wops[w]).val], Tail(wops[w])) = vecs
        <5> HIDE DEF m
        <5>1. QED
          BY <3>2, <3>4, AfterHeadTail
      <4>2. QED
        BY <3>1, <3>3, <4>1
    <3>6. \A v \in Writers : wpc'[v] = "push" => v = w
      BY <1>1
    <3>7. QED
      BY <3>3, <3>5, <3>6 DEF ExactInv
  <2>3. CASE Begin(w) \/ Rollback(w) \/ DropMember(w) \/ Ack(w)
    <3>1. Overlay(graph)' = Overlay(graph) /\ vecs' = vecs
      BY <2>3 DEF Begin, Rollback, DropMember, Ack, pendingVars, Overlay
    <3>2. \A v \in Writers : wpc'[v] # "push"
      BY <1>1, <2>3 DEF Begin, Rollback, DropMember, Ack, TypeOK
    <3>3. Overlay(graph) = vecs
      <4>1. CASE wpc[w] = "push"
        <5>1. wops[w] = <<>> /\ After(Overlay(graph), wops[w]) = vecs
          BY <2>3, <4>1 DEF Begin, Rollback, DropMember, Ack, SerialInv, ExactInv
        <5>2. QED
          BY <5>1, OverlayType, AfterEmpty
      <4>2. CASE wpc[w] # "push"
        BY <1>1, <4>2 DEF SerialInv, ExactInv
      <4>3. QED
        BY <4>1, <4>2
    <3>4. QED
      BY <3>1, <3>2, <3>3 DEF ExactInv
  <2>4. QED
    BY <2>1, <2>2, <2>3 DEF Write
<1>5. QED
  BY <1>2, <1>3, <1>4 DEF SerialInv

\* Every step keeps the serial invariant.
LEMMA StepSerial ==
  ASSUME Serialised PROVE PipeInv /\ SerialInv /\ [Next]_vars => SerialInv'
<1> SUFFICES ASSUME PipeInv, SerialInv, [Next]_vars PROVE SerialInv'
  OBVIOUS
<1>1. CASE UNCHANGED <<Overlay(graph), vecs, wpc, wops, wdrop>>
  BY <1>1 DEF SerialInv, AloneInv, DropInv, ExactInv
<1>2. CASE UNCHANGED vars
  BY <1>1, <1>2 DEF vars, Overlay
<1>3. CASE Applier \/ Stop \/ \E r \in Readers : Search(r)
  BY <1>1, <1>3, OverlayQuiet
<1>4. QED
  BY <1>2, <1>3, WriteSerial DEF Next

\* The initial state satisfies it.
LEMMA InitSerial == Init => SerialInv
<1> SUFFICES ASSUME Init PROVE SerialInv
  OBVIOUS
<1>1. AloneInv /\ DropInv
  BY DEF Init, AloneInv, DropInv
<1>2. ExactInv
  BY DEF Init, ExactInv, Overlay
<1>3. QED
  BY <1>1, <1>2 DEF SerialInv

\* An id that no unpushed change touches is seen as it is durable.
LEMMA VisibleIsDurable ==
  ASSUME SerialInv, NEW id \in Ids, ~Unrevealed(id), TypeOK
  PROVE  Overlay(graph)[id] = vecs[id]
<1>1. CASE \E w \in Writers : wpc[w] = "push"
  <2>1. PICK w \in Writers : wpc[w] = "push"
    BY <1>1
  <2>2. ~Touches(wops[w], id) /\ After(Overlay(graph), wops[w]) = vecs
    BY <2>1 DEF Unrevealed, SerialInv, ExactInv
  <2>3. After(Overlay(graph), wops[w])[id] = Overlay(graph)[id]
    BY <2>2 DEF After
  <2>4. QED
    BY <2>2, <2>3
<1>2. CASE \A w \in Writers : wpc[w] # "push"
  BY <1>2 DEF SerialInv, ExactInv
<1>3. QED
  BY <1>1, <1>2

\* Writers that serialise read their writes: a search sees the durable vector of
\* every id whose writes have returned, whatever the applier is doing.
THEOREM ReadsOwnWrites == ASSUME Serialised PROVE Spec => []ReadYourWrites
<1>1. PipeInv /\ SerialInv => ReadYourWrites
  <2> SUFFICES ASSUME PipeInv, SerialInv, NEW r \in Readers, rpc[r] = "locked",
                      NEW id \in Ids, ~Unrevealed(id)
               PROVE  Ranked(rhits[r])[id] = vecs[id]
    BY DEF ReadYourWrites
  <2>1. rhits[r] = graph
    BY DEF PipeInv, LockInv
  <2>2. Overlay(graph)[id] = vecs[id]
    BY VisibleIsDurable DEF PipeInv
  <2>3. QED
    BY <2>1, <2>2 DEF Ranked
<1>2. QED
  BY <1>1, InitPipe, StepPipe, InitSerial, StepSerial, PTL DEF Spec

\* Under the same hypothesis, once the queue is drained and the applier is
\* between batches the graph alone is exact: what quiesce hands to persist_graph.
THEOREM QuiesceExact == ASSUME Serialised PROVE Spec => []QuiescedIsExact
<1>1. PipeInv /\ SerialInv => QuiescedIsExact
  <2> SUFFICES ASSUME PipeInv, SerialInv, queue = <<>>, applier = "collect",
                      NEW id \in Ids, ~Unrevealed(id)
               PROVE  graph[id] = vecs[id]
    BY DEF QuiescedIsExact
  <2>1. latest[id] = NoOp /\ inflight[id] = NoOp
    BY DEF PipeInv, NoStrandedOp, PhaseInv
  <2>2. Overlay(graph)[id] = vecs[id]
    BY VisibleIsDurable DEF PipeInv
  <2>3. QED
    BY <2>1, <2>2 DEF Overlay
<1>2. QED
  BY <1>1, InitPipe, StepPipe, InitSerial, StepSerial, PTL DEF Spec
=============================================================================
