------------------------- MODULE ReplicationProofs --------------------------
(***************************************************************************)
(* Proofs about Replication, for every set of followers, ids and records,  *)
(* every poll limit and every bound on writes and restarts.                *)
(*                                                                         *)
(*   TypeCorrect       the type invariant                                  *)
(*   CursorsMeanHeld   CursorMeansHeld                                     *)
(*   AckedStaysHeld    AckedIsHeld, for followers that keep their cursor   *)
(*   ElectedIsComplete ElectedHoldsAcked, for the same followers           *)
(*   ReplayConverges   Convergent                                          *)
(*                                                                         *)
(* Two parts of the invariant need a word.  HistoryInv ties the feed to    *)
(* the records it was the feed of; its last conjunct is what makes it safe *)
(* to skip an upsert whose record is gone: the removal is further down.    *)
(* OwnFeedInv says of every follower what its own feed, written while it   *)
(* skipped and repeated entries of another feed, must say for the follower *)
(* to serve as a leader later.                                             *)
(***************************************************************************)
EXTENDS Replication, FiniteSetTheorems, SequenceTheorems, TLAPS

\* The old leader's term lasts until an elected survivor serves.
OldTerm == leader = Nobody \/ ~up

\* A record is removed by a row of the feed after the kth.
RemovedAfter(id, k) == \E j \in (k + 1)..Len(feed) : feed[j] = [op |-> "remove", id |-> id]

\* The history is that of the feed: each write changes its own record only, and a
\* record that was there and is not any more has a removal in between.
HistoryInv ==
    /\ Len(history) = Len(feed) + 1
    /\ history[Len(feed) + 1] = docs
    /\ \A k \in 1..Len(feed) :
          /\ \A id \in Ids : id # feed[k].id => history[k + 1][id] = history[k][id]
          /\ feed[k].op = "remove" => history[k + 1][feed[k].id] = Absent
          /\ feed[k].op = "upsert" /\ docs[feed[k].id] = Absent => RemovedAfter(feed[k].id, k)

\* What a follower's poll has in hand are the rows of the feed from its cursor on.
PolledInv(f) ==
    /\ rows[f] # <<>> => inbox[f] = <<>>
    /\ \A i \in 1..Len(rows[f]) :
          /\ rows[f][i].seq = cursor[f] + i - 1 /\ cursor[f] + i <= Len(feed)
          /\ feed[cursor[f] + i] = [op |-> rows[f][i].op, id |-> rows[f][i].id]
    /\ \A i \in 1..Len(inbox[f]) :
          /\ inbox[f][i].seq = cursor[f] + i - 1 /\ cursor[f] + i <= Len(feed)
          /\ feed[cursor[f] + i] = [op |-> inbox[f][i].op, id |-> inbox[f][i].id]
          /\ inbox[f][i].op = "remove" => inbox[f][i].rec = Absent

\* In the old term an upsert carries its record as it was at that row or later, or
\* none because its removal is still ahead.
ResolvedInv(f) ==
    \A i \in 1..Len(inbox[f]) : inbox[f][i].op = "upsert" =>
        IF inbox[f][i].rec = Absent
        THEN RemovedAfter(inbox[f][i].id, cursor[f] + i)
        ELSE \E k \in (cursor[f] + i)..Len(feed) : inbox[f][i].rec = history[k + 1][inbox[f][i].id]

\* The followers the leader knows to be at a cursor or past it.
Reached(end) == {f \in Followers : seen[f] >= end}

\* What the leader has been told is true, and it acknowledges on it alone.
AckInv ==
    /\ ~FromZero => \A f \in Followers : seen[f] <= cursor[f]
    /\ committed \subseteq 0..Len(feed)
    /\ \A w \in waiting : w.end <= w.target
    /\ \A end \in acked : 1 + Cardinality(Reached(end)) >= Quorum

\* Once a survivor is elected nothing is in flight.
ElectedInv ==
    /\ ~up => \A f \in Followers : rows[f] = <<>>
    /\ leader # Nobody => Wins(leader) /\ \A f \in Followers : inbox[f] = <<>>

OldInv ==
    /\ HistoryInv /\ AckInv /\ ElectedInv
    /\ \A f \in Followers : ResolvedInv(f) /\ HoldsThrough(f, cursor[f])

\* A row of a feed is an upsert of the record and the last that names it.
LastUpsert(s, k, id) ==
    s[k] = [op |-> "upsert", id |-> id] /\ \A j \in (k + 1)..Len(s) : s[j].id # id

\* A follower's own feed ends in an upsert for each record it has.
OwnFeedInv == \A f \in Followers, id \in Ids :
    fdocs[f][id] # Absent => \E k \in 1..Len(ffeed[f]) : LastUpsert(ffeed[f], k, id)

\* In the new term a follower that is past the last upsert of a record has it.
NewInv ==
    /\ feed = ffeed[leader] /\ docs = fdocs[leader]
    /\ \A f \in Followers \ {leader} :
          /\ \A i \in 1..Len(inbox[f]) : inbox[f][i].op = "upsert" => inbox[f][i].rec = docs[inbox[f][i].id]
          /\ \A id \in Ids, k \in 1..Len(feed) :
                docs[id] # Absent /\ LastUpsert(feed, k, id) /\ k <= cursor[f] => fdocs[f][id] = docs[id]

ReplInv ==
    /\ TypeOK
    /\ OwnFeedInv
    /\ \A f \in Followers : PolledInv(f)
    /\ OldTerm => OldInv
    /\ ~OldTerm => NewInv

-----------------------------------------------------------------------------
(* Facts about the types.                                                  *)

\* What the type invariant says of the leader's feed.
LEMMA FeedTypes ==
  ASSUME TypeOK
  PROVE  /\ feed \in Seq(Row) /\ Len(feed) \in Nat /\ DOMAIN feed = 1..Len(feed)
         /\ \A k \in 1..Len(feed) : feed[k] \in Row /\ feed[k].id \in Ids
                                    /\ feed[k].op \in {"upsert", "remove"}
<1>1. feed \in Seq(Row)
  BY DEF TypeOK
<1>2. \A k \in 1..Len(feed) : feed[k] \in Row
  BY <1>1, ElementOfSeq
<1>3. QED
  BY <1>1, <1>2, LenProperties DEF Row

\* What it says of a follower.
LEMMA FollowerTypes ==
  ASSUME TypeOK, NEW f \in Followers
  PROVE  /\ cursor[f] \in Nat /\ cursor[f] <= Len(feed) /\ seen[f] \in Nat /\ seen[f] <= Len(feed)
         /\ rows[f] \in Seq(PolledRow) /\ Len(rows[f]) \in Nat /\ DOMAIN rows[f] = 1..Len(rows[f])
         /\ inbox[f] \in Seq(Entry) /\ Len(inbox[f]) \in Nat
         /\ \A i \in 1..Len(rows[f]) : rows[f][i] \in PolledRow
         /\ \A i \in 1..Len(inbox[f]) : inbox[f][i] \in Entry
         /\ fdocs[f] \in [Ids -> Slot] /\ ffeed[f] \in Seq(Row) /\ Len(ffeed[f]) \in Nat
<1>1. cursor[f] \in 0..Len(feed) /\ seen[f] \in 0..Len(feed) /\ Len(feed) \in Nat
  BY FeedTypes DEF TypeOK
<1>2. /\ rows[f] \in Seq(PolledRow) /\ inbox[f] \in Seq(Entry)
      /\ fdocs[f] \in [Ids -> Slot] /\ ffeed[f] \in Seq(Row)
  BY DEF TypeOK
<1>3. /\ Len(rows[f]) \in Nat /\ DOMAIN rows[f] = 1..Len(rows[f]) /\ Len(inbox[f]) \in Nat
      /\ Len(ffeed[f]) \in Nat
  BY <1>2, LenProperties
<1>4. \A i \in 1..Len(rows[f]) : rows[f][i] \in PolledRow
  BY <1>2, ElementOfSeq
<1>5. \A i \in 1..Len(inbox[f]) : inbox[f][i] \in Entry
  BY <1>2, ElementOfSeq
<1>6. cursor[f] \in Nat /\ cursor[f] <= Len(feed) /\ seen[f] \in Nat /\ seen[f] <= Len(feed)
  BY <1>1
<1>7. QED
  BY <1>2, <1>3, <1>4, <1>5, <1>6

-----------------------------------------------------------------------------
(* A feed that grows.                                                      *)

\* The feed and the history have only been appended to.
Extends ==
    /\ Len(feed) \in Nat /\ Len(feed') \in Nat /\ Len(feed) <= Len(feed')
    /\ \A k \in 1..Len(feed) : feed'[k] = feed[k]
    /\ \A k \in 1..(Len(feed) + 1) : history'[k] = history[k]

\* What is ahead stays ahead.
LEMMA RemovedStays ==
  ASSUME Extends, NEW id, NEW k \in Nat, RemovedAfter(id, k)
  PROVE  \E j \in (k + 1)..Len(feed') : feed'[j] = [op |-> "remove", id |-> id]
<1>1. PICK j \in (k + 1)..Len(feed) : feed[j] = [op |-> "remove", id |-> id]
  BY DEF RemovedAfter
<1>2. j \in (k + 1)..Len(feed') /\ j \in 1..Len(feed)
  BY DEF Extends
<1>3. QED
  BY <1>1, <1>2 DEF Extends

\* What a follower has in hand, and what it holds, keeps its meaning.
LEMMA FollowerStays ==
  ASSUME ReplInv, Extends, NEW f \in Followers,
         cursor'[f] = cursor[f], rows'[f] = rows[f], inbox'[f] = inbox[f], fdocs'[f] = fdocs[f]
  PROVE  /\ PolledInv(f)'
         /\ ResolvedInv(f) => ResolvedInv(f)'
         /\ HoldsThrough(f, cursor[f]) => HoldsThrough(f, cursor[f])'
<1>1. TypeOK /\ PolledInv(f)
  BY DEF ReplInv
<1>2. /\ cursor[f] \in Nat /\ cursor[f] <= Len(feed)
      /\ Len(rows[f]) \in Nat /\ Len(inbox[f]) \in Nat
  BY <1>1, FollowerTypes
<1>3. PolledInv(f)'
  <2>1. ASSUME NEW i \in 1..Len(rows[f])
        PROVE  /\ rows[f][i].seq = cursor[f] + i - 1 /\ cursor[f] + i <= Len(feed')
               /\ feed'[cursor[f] + i] = [op |-> rows[f][i].op, id |-> rows[f][i].id]
    <3>1. /\ rows[f][i].seq = cursor[f] + i - 1 /\ cursor[f] + i <= Len(feed)
          /\ feed[cursor[f] + i] = [op |-> rows[f][i].op, id |-> rows[f][i].id]
      BY <1>1 DEF PolledInv
    <3>2. cursor[f] + i \in 1..Len(feed) /\ cursor[f] + i <= Len(feed')
      <4>1. Len(feed) \in Nat /\ Len(feed') \in Nat /\ Len(feed) <= Len(feed')
        BY DEF Extends
      <4>2. cursor[f] + i <= Len(feed)
        BY <3>1
      <4>3. QED
        BY <1>2, <4>1, <4>2
    <3>3. QED
      BY <3>1, <3>2 DEF Extends
  <2>2. ASSUME NEW i \in 1..Len(inbox[f])
        PROVE  /\ inbox[f][i].seq = cursor[f] + i - 1 /\ cursor[f] + i <= Len(feed')
               /\ feed'[cursor[f] + i] = [op |-> inbox[f][i].op, id |-> inbox[f][i].id]
               /\ inbox[f][i].op = "remove" => inbox[f][i].rec = Absent
    <3>1. /\ inbox[f][i].seq = cursor[f] + i - 1 /\ cursor[f] + i <= Len(feed)
          /\ feed[cursor[f] + i] = [op |-> inbox[f][i].op, id |-> inbox[f][i].id]
          /\ inbox[f][i].op = "remove" => inbox[f][i].rec = Absent
      BY <1>1 DEF PolledInv
    <3>2. cursor[f] + i \in 1..Len(feed) /\ cursor[f] + i <= Len(feed')
      <4>1. Len(feed) \in Nat /\ Len(feed') \in Nat /\ Len(feed) <= Len(feed')
        BY DEF Extends
      <4>2. cursor[f] + i <= Len(feed)
        BY <3>1
      <4>3. QED
        BY <1>2, <4>1, <4>2
    <3>3. QED
      BY <3>1, <3>2 DEF Extends
  <2>3. QED
    BY <1>1, <2>1, <2>2 DEF PolledInv
<1>4. ASSUME ResolvedInv(f) PROVE ResolvedInv(f)'
  <2>1. ASSUME NEW i \in 1..Len(inbox[f]), inbox[f][i].op = "upsert"
        PROVE  IF inbox[f][i].rec = Absent
               THEN \E j \in (cursor[f] + i + 1)..Len(feed') :
                       feed'[j] = [op |-> "remove", id |-> inbox[f][i].id]
               ELSE \E k \in (cursor[f] + i)..Len(feed') :
                       inbox[f][i].rec = history'[k + 1][inbox[f][i].id]
    <3>1. CASE inbox[f][i].rec = Absent
      <4>1. RemovedAfter(inbox[f][i].id, cursor[f] + i) /\ cursor[f] + i \in Nat
        BY <1>2, <1>4, <2>1, <3>1 DEF ResolvedInv
      <4>2. QED
        BY <3>1, <4>1, RemovedStays
    <3>2. CASE inbox[f][i].rec # Absent
      <4>1. PICK k \in (cursor[f] + i)..Len(feed) :
              inbox[f][i].rec = history[k + 1][inbox[f][i].id]
        BY <1>4, <2>1, <3>2 DEF ResolvedInv
      <4>2. k \in (cursor[f] + i)..Len(feed') /\ k + 1 \in 1..(Len(feed) + 1)
        BY <1>2 DEF Extends
      <4>3. QED
        BY <3>2, <4>1, <4>2 DEF Extends
    <3>3. QED
      BY <3>1, <3>2
  <2>2. QED
    BY <2>1 DEF ResolvedInv, RemovedAfter
<1>5. ASSUME HoldsThrough(f, cursor[f]) PROVE HoldsThrough(f, cursor[f])'
  <2>1. ASSUME NEW id \in Ids
        PROVE  \/ \E k \in cursor[f]..Len(feed') : fdocs[f][id] = history'[k + 1][id]
               \/ \E j \in (cursor[f] + 1)..Len(feed') : feed'[j] = [op |-> "remove", id |-> id]
    <3>1. CASE Holds(f, id, cursor[f])
      <4>1. PICK k \in cursor[f]..Len(feed) : fdocs[f][id] = history[k + 1][id]
        BY <3>1 DEF Holds
      <4>2. k \in cursor[f]..Len(feed') /\ k + 1 \in 1..(Len(feed) + 1)
        BY <1>2 DEF Extends
      <4>3. QED
        BY <4>1, <4>2 DEF Extends
    <3>2. CASE RemovalAhead(f, id)
      BY <1>2, <3>2, RemovedStays DEF RemovalAhead, RemovedAfter
    <3>3. QED
      BY <1>5, <3>1, <3>2 DEF HoldsThrough
  <2>2. QED
    BY <2>1 DEF HoldsThrough, Holds, RemovalAhead
<1>6. QED
  BY <1>3, <1>4, <1>5

\* What a follower has resolved depends on its inbox, its cursor and the feed only.
LEMMA ResolvedStays ==
  ASSUME NEW g \in Followers, ResolvedInv(g), inbox'[g] = inbox[g], cursor'[g] = cursor[g],
         feed' = feed, history' = history
  PROVE  ResolvedInv(g)'
<1>1. ASSUME NEW i \in 1..Len(inbox'[g]), inbox'[g][i].op = "upsert"
      PROVE  IF inbox'[g][i].rec = Absent
             THEN \E j \in (cursor'[g] + i + 1)..Len(feed') :
                     feed'[j] = [op |-> "remove", id |-> inbox'[g][i].id]
             ELSE \E k \in (cursor'[g] + i)..Len(feed') :
                     inbox'[g][i].rec = history'[k + 1][inbox'[g][i].id]
  <2>1. IF inbox[g][i].rec = Absent
        THEN RemovedAfter(inbox[g][i].id, cursor[g] + i)
        ELSE \E k \in (cursor[g] + i)..Len(feed) : inbox[g][i].rec = history[k + 1][inbox[g][i].id]
    BY <1>1 DEF ResolvedInv
  <2>2. QED
    BY <2>1 DEF RemovedAfter
<1>2. QED
  BY <1>1 DEF ResolvedInv, RemovedAfter

-----------------------------------------------------------------------------
(* The leader.                                                             *)

\* Nothing is written, polled or promised yet.
LEMMA InitInv == Init => ReplInv
<1> SUFFICES ASSUME Init PROVE ReplInv
  OBVIOUS
<1>1. /\ feed = <<>> /\ Len(feed) = 0 /\ feed \in Seq(Row)
      /\ Len(<<>>) = 0 /\ <<>> \in Seq(Row) /\ <<>> \in Seq(PolledRow) /\ <<>> \in Seq(Entry)
  BY EmptySeq DEF Init
<1>2. Empty \in [Ids -> Slot]
  BY DEF Empty, Slot
<1>3. history = <<Empty>> /\ history \in Seq([Ids -> Slot]) /\ Len(history) = 1 /\ history[1] = Empty
  BY <1>2 DEF Init
<1>4. TypeOK
  BY <1>1, <1>2, <1>3 DEF Init, TypeOK
<1>5. OwnFeedInv
  BY DEF Init, OwnFeedInv, Empty
<1>6. \A f \in Followers : PolledInv(f) /\ ResolvedInv(f)
  BY <1>1 DEF Init, PolledInv, ResolvedInv
<1>7. \A f \in Followers : HoldsThrough(f, cursor[f])
  BY <1>1, <1>3 DEF Init, HoldsThrough, Holds, Empty
<1>8. HistoryInv
  BY <1>1, <1>3 DEF Init, HistoryInv
<1>9. AckInv /\ ElectedInv /\ OldTerm
  BY DEF Init, AckInv, ElectedInv, OldTerm
<1>10. QED
  BY <1>4, <1>5, <1>6, <1>7, <1>8, <1>9 DEF ReplInv, OldInv

\* A write extends the feed and the history by one and the same step.
LEMMA WriteInv == ASSUME ReplInv, FirstTerm, LeaderWrite PROVE ReplInv'
<1> DEFINE n == Len(feed)
<1>1. TypeOK /\ OldInv /\ OldTerm /\ n \in Nat
  BY FeedTypes DEF ReplInv, OldTerm, FirstTerm
<1>2. PICK id \in Ids, val \in Slot :
        /\ val # Absent \/ docs[id] # Absent
        /\ docs' = [docs EXCEPT ![id] = val]
        /\ feed' = Append(feed, [op |-> OpOf(val), id |-> id])
        /\ history' = Append(history, docs')
  BY DEF LeaderWrite
<1> DEFINE row == [op |-> OpOf(val), id |-> id]
<1>3. row \in Row /\ row.id = id /\ row.op = OpOf(val)
  BY DEF Row, OpOf
<1>4. feed' = Append(feed, row)
  BY <1>2
<1>5. docs' \in [Ids -> Slot] /\ docs'[id] = val /\ \A i \in Ids : i # id => docs'[i] = docs[i]
  BY <1>1, <1>2 DEF TypeOK
<1> HIDE DEF row
<1>6. /\ feed' \in Seq(Row) /\ Len(feed') = n + 1
      /\ \A k \in 1..n : feed'[k] = feed[k]
      /\ feed'[n + 1] = row
  BY <1>1, <1>3, <1>4, AppendProperties DEF TypeOK
<1>7. history \in Seq([Ids -> Slot]) /\ Len(history) = n + 1 /\ history[n + 1] = docs
  BY <1>1 DEF TypeOK, OldInv, HistoryInv
<1>8. /\ history' \in Seq([Ids -> Slot]) /\ Len(history') = n + 2
      /\ \A k \in 1..(n + 1) : history'[k] = history[k]
      /\ history'[n + 2] = docs'
  <2>1. /\ history' \in Seq([Ids -> Slot]) /\ Len(history') = Len(history) + 1
        /\ \A k \in 1..Len(history) : history'[k] = history[k]
        /\ history'[Len(history) + 1] = docs'
    BY <1>2, <1>5, <1>7, AppendProperties
  <2>2. n + 1 + 1 = n + 2
    BY <1>1
  <2>3. QED
    BY <1>7, <2>1, <2>2
<1>9. UNCHANGED <<up, seen, waiting, acked, fdocs, ffeed, cursor, rows, inbox, leader, restarts>>
      /\ committed' = committed \cup {n + 1}
  BY DEF LeaderWrite, followerVars
<1>10. Extends
  BY <1>1, <1>6, <1>8 DEF Extends
<1>11. TypeOK'
  <2>1. \A m \in 0..n : m \in 0..(n + 1)
    BY <1>1
  <2>2. seen' \in [Followers -> 0..Len(feed')] /\ cursor' \in [Followers -> 0..Len(feed')]
    BY <1>1, <1>6, <1>9, <2>1 DEF TypeOK
  <2>3. committed' \subseteq Nat
    <3>1. n + 1 \in Nat /\ committed \subseteq Nat
      BY <1>1 DEF TypeOK
    <3>2. QED
      BY <1>9, <3>1
  <2>4. QED
    BY <1>1, <1>5, <1>6, <1>8, <1>9, <2>2, <2>3 DEF TypeOK
<1>12. HistoryInv'
  <2>1. ASSUME NEW k \in 1..(n + 1)
        PROVE  /\ \A i \in Ids : i # feed'[k].id => history'[k + 1][i] = history'[k][i]
               /\ feed'[k].op = "remove" => history'[k + 1][feed'[k].id] = Absent
               /\ feed'[k].op = "upsert" /\ docs'[feed'[k].id] = Absent =>
                     \E j \in (k + 1)..Len(feed') : feed'[j] = [op |-> "remove", id |-> feed'[k].id]
    <3>1. CASE k \in 1..n
      <4>1. k \in 1..(n + 1) /\ k + 1 \in 1..(n + 1)
        BY <1>1, <3>1
      <4>2. feed'[k] = feed[k] /\ history'[k] = history[k] /\ history'[k + 1] = history[k + 1]
        BY <1>6, <1>8, <3>1, <4>1
      <4>3. /\ \A i \in Ids : i # feed[k].id => history[k + 1][i] = history[k][i]
            /\ feed[k].op = "remove" => history[k + 1][feed[k].id] = Absent
            /\ feed[k].op = "upsert" /\ docs[feed[k].id] = Absent => RemovedAfter(feed[k].id, k)
        BY <1>1, <3>1 DEF OldInv, HistoryInv
      <4>4. ASSUME feed[k].op = "upsert", docs'[feed[k].id] = Absent
            PROVE  \E j \in (k + 1)..Len(feed') : feed'[j] = [op |-> "remove", id |-> feed[k].id]
        <5>1. CASE feed[k].id = id
          <6>1. row = [op |-> "remove", id |-> id]
            BY <1>5, <4>4, <5>1 DEF row, OpOf
          <6>2. n + 1 \in (k + 1)..Len(feed')
            BY <1>1, <1>6, <3>1
          <6>3. QED
            BY <1>6, <5>1, <6>1, <6>2
        <5>2. CASE feed[k].id # id
          <6>1. feed[k].id \in Ids /\ k \in Nat
            BY <1>1, <3>1, FeedTypes
          <6>2. RemovedAfter(feed[k].id, k)
            BY <1>5, <4>3, <4>4, <5>2, <6>1
          <6>3. QED
            BY <1>10, <6>1, <6>2, RemovedStays
        <5>3. QED
          BY <5>1, <5>2
      <4>5. QED
        BY <4>2, <4>3, <4>4
    <3>2. CASE k = n + 1
      <4>1. k \in 1..(n + 1) /\ k + 1 = n + 2
        BY <1>1, <3>2
      <4>2. /\ feed'[k] = row /\ history'[k] = docs /\ history'[k + 1] = docs'
        BY <1>6, <1>7, <1>8, <3>2, <4>1
      <4>3. row.op = "remove" <=> val = Absent
        BY <1>3 DEF OpOf
      <4>4. QED
        BY <1>3, <1>5, <4>2, <4>3
    <3>3. QED
      BY <1>1, <3>1, <3>2
  <2>2. Len(history') = Len(feed') + 1 /\ history'[Len(feed') + 1] = docs'
    <3>1. n + 1 + 1 = n + 2
      BY <1>1
    <3>2. QED
      BY <1>6, <1>8, <3>1
  <2>3. QED
    BY <1>6, <2>1, <2>2 DEF HistoryInv, RemovedAfter
<1>13. AckInv'
  <2>1. committed' \subseteq 0..Len(feed')
    <3>1. committed \subseteq 0..n
      BY <1>1 DEF OldInv, AckInv
    <3>2. n + 1 \in 0..(n + 1) /\ \A m \in 0..n : m \in 0..(n + 1)
      BY <1>1
    <3>3. QED
      BY <1>6, <1>9, <3>1, <3>2
  <2>2. \A end : Reached(end)' = Reached(end)
    BY <1>9 DEF Reached
  <2>3. QED
    BY <1>1, <1>9, <2>1, <2>2 DEF OldInv, AckInv, Quorum, Reached
<1>14. ElectedInv' /\ OldTerm'
  BY <1>1, <1>9 DEF OldInv, ElectedInv, Wins, OldTerm, FirstTerm
<1>15. OwnFeedInv'
  BY <1>9 DEF ReplInv, OwnFeedInv
<1>16. \A f \in Followers : PolledInv(f)' /\ ResolvedInv(f)' /\ HoldsThrough(f, cursor[f])'
  BY <1>1, <1>9, <1>10, FollowerStays DEF OldInv
<1>17. QED
  BY <1>11, <1>12, <1>13, <1>14, <1>15, <1>16 DEF ReplInv, OldInv

\* A step of the quorum waits touches neither the feed nor a follower.
LEMMA WaitingInv ==
  ASSUME ReplInv, FirstTerm, UNCHANGED <<leaderVars, seen, followerVars, leader>>,
         committed' \subseteq Nat, acked' \subseteq Nat,
         waiting' \subseteq [end : Nat, target : Nat],
         committed' \subseteq committed,
         \A w \in waiting' : w.end <= w.target,
         \A end \in acked' : 1 + Cardinality(Reached(end)) >= Quorum
  PROVE  ReplInv'
<1>1. TypeOK /\ OldInv /\ OldTerm
  BY DEF ReplInv, OldTerm, FirstTerm
<1>2. /\ UNCHANGED <<docs, feed, history, up, seen, leader>>
      /\ UNCHANGED <<fdocs, ffeed, cursor, rows, inbox>>
  BY DEF leaderVars, followerVars
<1>3. TypeOK'
  BY <1>1, <1>2 DEF TypeOK
<1>4. AckInv'
  <2>1. \A end : Reached(end)' = Reached(end)
    BY <1>2 DEF Reached
  <2>2. QED
    BY <1>1, <1>2, <2>1 DEF OldInv, AckInv, Quorum
<1>5. OwnFeedInv' /\ (\A f \in Followers : PolledInv(f)') /\ OldTerm'
  BY <1>1, <1>2 DEF ReplInv, OwnFeedInv, PolledInv, OldTerm
<1>6. HistoryInv' /\ ElectedInv'
  BY <1>1, <1>2 DEF OldInv, HistoryInv, RemovedAfter, ElectedInv, Wins
<1>7. \A f \in Followers : ResolvedInv(f)' /\ HoldsThrough(f, cursor[f])'
  <2>1. \A f \in Followers : ResolvedInv(f)'
    BY <1>1, <1>2, ResolvedStays DEF OldInv
  <2>2. \A f \in Followers : HoldsThrough(f, cursor[f])'
    BY <1>1, <1>2 DEF OldInv, HoldsThrough, Holds, RemovalAhead
  <2>3. QED
    BY <2>1, <2>2
<1>8. QED
  BY <1>3, <1>4, <1>5, <1>6, <1>7 DEF ReplInv, OldInv

\* The target is read after the write has landed: it is the write's end or later.
LEMMA AwaitInv == ASSUME ReplInv, FirstTerm, AwaitQuorum PROVE ReplInv'
<1>1. TypeOK /\ OldInv /\ Len(feed) \in Nat
  BY FeedTypes DEF ReplInv, OldTerm, FirstTerm
<1>2. PICK end \in committed :
        committed' = committed \ {end} /\ waiting' = waiting \cup {[end |-> end, target |-> Len(feed)]}
  BY DEF AwaitQuorum
<1>3. end \in Nat /\ end <= Len(feed)
  BY <1>1 DEF OldInv, AckInv
<1>4. /\ committed' \subseteq Nat /\ committed' \subseteq committed
      /\ waiting' \subseteq [end : Nat, target : Nat]
  <2>1. committed \subseteq Nat /\ waiting \subseteq [end : Nat, target : Nat]
    BY <1>1 DEF TypeOK
  <2>2. [end |-> end, target |-> Len(feed)] \in [end : Nat, target : Nat]
    BY <1>1, <1>3
  <2>3. QED
    BY <1>2, <2>1, <2>2
<1>5. \A w \in waiting' : w.end <= w.target
  BY <1>1, <1>2, <1>3 DEF OldInv, AckInv
<1>6. UNCHANGED <<leaderVars, seen, acked, followerVars, leader>>
  BY DEF AwaitQuorum
<1>7. acked' \subseteq Nat /\ \A e \in acked' : 1 + Cardinality(Reached(e)) >= Quorum
  BY <1>1, <1>6 DEF TypeOK, OldInv, AckInv
<1>8. QED
  BY <1>4, <1>5, <1>6, <1>7, WaitingInv

\* Followers past the target are past the write's end.
LEMMA AcknowledgeInv == ASSUME ReplInv, FirstTerm, Acknowledge PROVE ReplInv'
<1>1. TypeOK /\ OldInv
  BY DEF ReplInv, OldTerm, FirstTerm
<1>2. PICK w \in waiting :
        IsCommitted(w.target) /\ waiting' = waiting \ {w} /\ acked' = acked \cup {w.end}
  BY DEF Acknowledge
<1>3. w.end \in Nat /\ w.target \in Nat /\ w.end <= w.target
  BY <1>1 DEF TypeOK, OldInv, AckInv
<1>4. 1 + Cardinality(Reached(w.end)) >= Quorum
  <2>1. Reached(w.target) \subseteq Reached(w.end)
    <3>1. \A f \in Followers : seen[f] \in Nat
      BY <1>1, FollowerTypes
    <3>2. QED
      BY <1>3, <3>1 DEF Reached
  <2>2. IsFiniteSet(Reached(w.end))
    BY FollowersRanked, FS_Subset DEF Reached
  <2>3. /\ Cardinality(Reached(w.target)) \in Nat /\ Cardinality(Reached(w.end)) \in Nat
        /\ Cardinality(Reached(w.target)) <= Cardinality(Reached(w.end))
    BY <2>1, <2>2, FS_Subset, FS_CardinalityType
  <2>4. 1 + Cardinality(Reached(w.target)) >= Quorum
    BY <1>2 DEF IsCommitted, Reached
  <2>5. Quorum \in Nat
    BY FollowersRanked, FS_CardinalityType DEF Quorum
  <2>6. QED
    BY <2>3, <2>4, <2>5
<1>5. UNCHANGED <<leaderVars, seen, committed, followerVars, leader>>
  BY DEF Acknowledge
<1>6. /\ committed' \subseteq Nat /\ committed' \subseteq committed /\ acked' \subseteq Nat
      /\ waiting' \subseteq [end : Nat, target : Nat]
  BY <1>1, <1>2, <1>3, <1>5 DEF TypeOK
<1>7. /\ \A v \in waiting' : v.end <= v.target
      /\ \A e \in acked' : 1 + Cardinality(Reached(e)) >= Quorum
  BY <1>1, <1>2, <1>4 DEF OldInv, AckInv
<1>8. QED
  BY <1>5, <1>6, <1>7, WaitingInv

\* A wait that ends without its quorum promises nothing.
LEMMA TimeoutInv == ASSUME ReplInv, FirstTerm, Timeout PROVE ReplInv'
<1>1. TypeOK /\ OldInv
  BY DEF ReplInv, OldTerm, FirstTerm
<1>2. waiting' \subseteq waiting
  BY DEF Timeout
<1>3. UNCHANGED <<leaderVars, seen, committed, acked, followerVars, leader>>
  BY DEF Timeout
<1>4. /\ committed' \subseteq Nat /\ committed' \subseteq committed /\ acked' \subseteq Nat
      /\ waiting' \subseteq [end : Nat, target : Nat]
  BY <1>1, <1>2, <1>3 DEF TypeOK
<1>5. /\ \A v \in waiting' : v.end <= v.target
      /\ \A e \in acked' : 1 + Cardinality(Reached(e)) >= Quorum
  BY <1>1, <1>2, <1>3 DEF OldInv, AckInv
<1>6. QED
  BY <1>3, <1>4, <1>5, WaitingInv

\* A dead leader leaves no wait and no poll behind.
LEMMA CrashInv == ASSUME ReplInv, FirstTerm, LeaderCrash PROVE ReplInv'
<1>1. TypeOK /\ OldInv /\ OldTerm
  BY DEF ReplInv, OldTerm, FirstTerm
<1>2. /\ UNCHANGED <<docs, feed, history, seen, acked, fdocs, ffeed, cursor, inbox, leader>>
      /\ committed' = {} /\ waiting' = {} /\ up' = FALSE
      /\ rows' = [f \in Followers |-> <<>>]
  BY DEF LeaderCrash
<1>3. <<>> \in Seq(PolledRow) /\ Len(<<>>) = 0
  BY EmptySeq
<1>4. TypeOK'
  BY <1>1, <1>2, <1>3 DEF TypeOK
<1>5. AckInv'
  <2>1. \A end : Reached(end)' = Reached(end)
    BY <1>2 DEF Reached
  <2>2. QED
    BY <1>1, <1>2, <2>1 DEF OldInv, AckInv, Quorum
<1>6. ASSUME NEW f \in Followers PROVE PolledInv(f)'
  <2>1. rows'[f] = <<>> /\ PolledInv(f) /\ Len(rows'[f]) = 0
    BY <1>2, <1>3 DEF ReplInv
  <2>2. QED
    BY <1>2, <2>1 DEF PolledInv
<1>7. OwnFeedInv' /\ OldTerm'
  BY <1>2 DEF ReplInv, OwnFeedInv, OldTerm
<1>8. HistoryInv' /\ ElectedInv'
  BY <1>1, <1>2 DEF OldInv, HistoryInv, RemovedAfter, ElectedInv, FirstTerm
<1>9. \A f \in Followers : ResolvedInv(f)' /\ HoldsThrough(f, cursor[f])'
  <2>1. \A f \in Followers : ResolvedInv(f)'
    BY <1>1, <1>2, ResolvedStays DEF OldInv
  <2>2. \A f \in Followers : HoldsThrough(f, cursor[f])'
    BY <1>1, <1>2 DEF OldInv, HoldsThrough, Holds, RemovalAhead
  <2>3. QED
    BY <2>1, <2>2
<1>10. QED
  BY <1>4, <1>5, <1>6, <1>7, <1>8, <1>9 DEF ReplInv, OldInv

-----------------------------------------------------------------------------
(* A poll.                                                                 *)

\* What a poll that only looked leaves as it was.
LEMMA NotApplied ==
  ASSUME ReplInv, NEW f \in Followers, UNCHANGED <<leaderVars, fdocs, ffeed, cursor, leader>>
  PROVE  /\ OwnFeedInv' /\ (OldTerm' <=> OldTerm)
         /\ OldTerm => HistoryInv' /\ \A g \in Followers : HoldsThrough(g, cursor[g])'
<1>1. UNCHANGED <<docs, feed, history, up, fdocs, ffeed, cursor, leader>>
  BY DEF leaderVars
<1>2. OwnFeedInv' /\ (OldTerm' <=> OldTerm)
  BY <1>1 DEF ReplInv, OwnFeedInv, OldTerm
<1>3. ASSUME OldTerm PROVE HistoryInv' /\ \A g \in Followers : HoldsThrough(g, cursor[g])'
  <2>1. OldInv
    BY <1>3 DEF ReplInv
  <2>2. HistoryInv'
    BY <1>1, <2>1 DEF OldInv, HistoryInv, RemovedAfter
  <2>3. QED
    BY <1>1, <2>1, <2>2 DEF OldInv, HoldsThrough, Holds, RemovalAhead
<1>4. QED
  BY <1>2, <1>3

\* The rows of a poll are those of the feed from the cursor on, and asking for them
\* is what moves the cursor the leader knows.
LEMMA PollInv == ASSUME ReplInv, NEW f \in Followers \ {leader}, Poll(f) PROVE ReplInv'
<1> DEFINE c == cursor[f]
           last == IF c + Limit < Len(feed) THEN c + Limit ELSE Len(feed)
           read == [i \in 1..(last - c) |->
                      [seq |-> c + i - 1, op |-> feed[c + i].op, id |-> feed[c + i].id]]
<1>1. TypeOK /\ PolledInv(f) /\ up
  BY DEF ReplInv, Poll
<1>2. c \in Nat /\ c <= Len(feed) /\ seen[f] \in Nat /\ seen[f] <= Len(feed) /\ Len(feed) \in Nat
  BY <1>1, FollowerTypes, FeedTypes
<1>3. last \in Nat /\ c <= last /\ last <= Len(feed) /\ last - c \in Nat
  BY <1>2, LimitsNat
<1>4. /\ UNCHANGED <<leaderVars, committed, waiting, acked, fdocs, ffeed, cursor, inbox, leader>>
      /\ rows' = [rows EXCEPT ![f] = read]
      /\ seen' = [seen EXCEPT ![f] = IF c > seen[f] THEN c ELSE seen[f]]
      /\ inbox[f] = <<>>
  BY DEF Poll
<1> HIDE DEF last
<1>5. ASSUME NEW i \in 1..(last - c)
      PROVE  /\ c + i \in 1..Len(feed) /\ c + i <= Len(feed) /\ read[i] \in PolledRow
             /\ read[i].seq = c + i - 1
             /\ feed[c + i] = [op |-> read[i].op, id |-> read[i].id]
  <2>1. c + i \in 1..Len(feed) /\ c + i <= Len(feed) /\ c + i - 1 \in Nat
    <3>1. ASSUME NEW a \in Nat, NEW b \in Nat, NEW n \in Nat, a <= b, b <= n, NEW j \in 1..(b - a)
          PROVE  a + j \in 1..n /\ a + j <= n /\ a + j - 1 \in Nat
      BY <3>1
    <3>2. QED
      BY <1>2, <1>3, <3>1
  <2>2. feed[c + i] \in Row
    BY <1>1, <2>1, FeedTypes
  <2>3. QED
    BY <2>1, <2>2 DEF Row, PolledRow
<1>6. read \in Seq(PolledRow) /\ Len(read) = last - c
  <2>1. \A i \in 1..(last - c) : read[i] \in PolledRow
    BY <1>5
  <2>2. PICK m \in Nat : m = last - c
    BY <1>3
  <2>3. read \in [1..m -> PolledRow]
    BY <2>1, <2>2
  <2> HIDE DEF read
  <2>4. read \in Seq(PolledRow) /\ Len(read) = m
    BY <2>2, <2>3
  <2>5. QED
    BY <2>2, <2>4
<1> HIDE DEF read
<1>7. rows \in [Followers -> Seq(PolledRow)] /\ seen \in [Followers -> 0..Len(feed)]
  BY <1>1 DEF TypeOK
<1>8. rows'[f] = read /\ \A g \in Followers : g # f => rows'[g] = rows[g]
  BY <1>4, <1>7
<1>9. UNCHANGED <<docs, feed, history, up, fdocs, ffeed, cursor, leader>>
  BY <1>4 DEF leaderVars
<1>10. TypeOK'
  <2>1. rows' \in [Followers -> Seq(PolledRow)]
    BY <1>4, <1>6, <1>7
  <2>2. seen' \in [Followers -> 0..Len(feed)]
    BY <1>2, <1>4, <1>7
  <2>3. QED
    BY <1>1, <1>4, <1>9, <2>1, <2>2 DEF TypeOK
<1>11. ASSUME NEW g \in Followers PROVE PolledInv(g)'
  <2>1. CASE g # f
    <3>1. PolledInv(g) /\ rows'[g] = rows[g]
      BY <1>8, <2>1 DEF ReplInv
    <3>2. QED
      BY <1>4, <1>9, <3>1 DEF PolledInv
  <2>2. CASE g = f
    <3>1. /\ rows'[f] = read /\ inbox'[f] = <<>> /\ Len(inbox'[f]) = 0
          /\ cursor'[f] = c /\ feed' = feed
      BY <1>4, <1>8, <1>9
    <3>2. QED
      BY <1>5, <1>6, <2>2, <3>1 DEF PolledInv
  <2>3. QED
    BY <2>1, <2>2
<1>12. /\ OwnFeedInv' /\ (OldTerm' <=> OldTerm)
       /\ OldTerm => HistoryInv' /\ \A g \in Followers : HoldsThrough(g, cursor[g])'
  BY <1>4, NotApplied
<1>13. ASSUME OldTerm PROVE OldInv'
  <2>1. OldInv /\ leader = Nobody
    BY <1>1, <1>13 DEF ReplInv, OldTerm
  <2>2. AckInv'
    <3>1. ~FromZero => \A g \in Followers : seen'[g] <= cursor'[g]
      BY <1>2, <1>4, <1>7, <1>9, <2>1 DEF OldInv, AckInv
    <3>2. ASSUME NEW end \in acked PROVE 1 + Cardinality(Reached(end)') >= Quorum
      <4>1. end \in Nat /\ 1 + Cardinality(Reached(end)) >= Quorum
        BY <1>1, <2>1 DEF OldInv, AckInv, TypeOK
      <4>2. Reached(end) \subseteq Reached(end)'
        <5>1. ASSUME NEW g \in Followers PROVE seen[g] \in Nat /\ seen'[g] \in Nat /\ seen'[g] >= seen[g]
          <6>1. seen[g] \in Nat
            BY <1>1, FollowerTypes
          <6>2. QED
            BY <1>2, <1>4, <1>7, <6>1
        <5>2. QED
          BY <4>1, <5>1 DEF Reached
      <4>3. IsFiniteSet(Reached(end)')
        BY FollowersRanked, FS_Subset DEF Reached
      <4>4. /\ Cardinality(Reached(end)) \in Nat /\ Cardinality(Reached(end)') \in Nat
            /\ Cardinality(Reached(end)) <= Cardinality(Reached(end)')
        BY <4>2, <4>3, FS_Subset, FS_CardinalityType
      <4>5. Quorum \in Nat
        BY FollowersRanked, FS_CardinalityType DEF Quorum
      <4>6. QED
        BY <4>1, <4>4, <4>5
    <3>3. Quorum' = Quorum
      BY DEF Quorum
    <3>4. QED
      BY <1>4, <1>9, <2>1, <3>1, <3>2, <3>3 DEF OldInv, AckInv
  <2>3. ElectedInv'
    BY <1>1, <1>9, <2>1 DEF ElectedInv
  <2>4. \A g \in Followers : ResolvedInv(g)'
    BY <1>4, <1>9, <2>1, ResolvedStays DEF OldInv
  <2>5. QED
    BY <1>12, <1>13, <2>2, <2>3, <2>4 DEF OldInv
<1>14. ASSUME ~OldTerm PROVE NewInv'
  BY <1>4, <1>9, <1>14 DEF ReplInv, NewInv, LastUpsert
<1>15. QED
  BY <1>10, <1>11, <1>12, <1>13, <1>14 DEF ReplInv

\* An upsert is resolved to the record as it is now, in the old term one of its
\* versions from that row on, and to nothing only if its removal is ahead.
LEMMA ResolveInv == ASSUME ReplInv, NEW f \in Followers \ {leader}, Resolve(f) PROVE ReplInv'
<1> DEFINE c == cursor[f]
           got == [i \in DOMAIN rows[f] |->
                      [seq |-> rows[f][i].seq, op |-> rows[f][i].op, id |-> rows[f][i].id,
                       rec |-> IF rows[f][i].op = "upsert" THEN docs[rows[f][i].id] ELSE Absent]]
<1>1. TypeOK /\ PolledInv(f) /\ up /\ docs \in [Ids -> Slot]
  BY DEF ReplInv, Resolve, TypeOK
<1>2. /\ UNCHANGED <<leaderVars, quorumVars, fdocs, ffeed, cursor, leader>>
      /\ rows' = [rows EXCEPT ![f] = <<>>]
      /\ inbox' = [inbox EXCEPT ![f] = got]
      /\ rows[f] # <<>>
  BY DEF Resolve
<1>3. /\ c \in Nat /\ Len(rows[f]) \in Nat /\ DOMAIN rows[f] = 1..Len(rows[f]) /\ Len(feed) \in Nat
      /\ \A i \in 1..Len(rows[f]) : rows[f][i] \in PolledRow
  BY <1>1, FollowerTypes, FeedTypes
<1>4. ASSUME NEW i \in 1..Len(rows[f])
      PROVE  /\ got[i] \in Entry /\ got[i].id \in Ids
             /\ got[i].seq = c + i - 1 /\ c + i <= Len(feed) /\ c + i \in 1..Len(feed)
             /\ feed[c + i] = [op |-> got[i].op, id |-> got[i].id]
             /\ got[i].op = "remove" => got[i].rec = Absent
             /\ got[i].op = "upsert" => got[i].rec = docs[got[i].id]
  <2>1. rows[f][i] \in PolledRow
    BY <1>3
  <2>2. /\ rows[f][i].seq = c + i - 1 /\ c + i <= Len(feed)
        /\ feed[c + i] = [op |-> rows[f][i].op, id |-> rows[f][i].id]
    BY <1>1 DEF PolledInv
  <2>3. /\ got[i].seq = rows[f][i].seq /\ got[i].op = rows[f][i].op /\ got[i].id = rows[f][i].id
        /\ got[i].rec = IF rows[f][i].op = "upsert" THEN docs[rows[f][i].id] ELSE Absent
    BY <1>3
  <2>4. got[i] \in Entry
    BY <1>1, <1>3, <2>1 DEF Entry, PolledRow, Slot
  <2>5. c + i \in 1..Len(feed) /\ rows[f][i].id \in Ids
    BY <1>3, <2>1, <2>2 DEF PolledRow
  <2>6. QED
    BY <2>2, <2>3, <2>4, <2>5
<1>5. got \in Seq(Entry) /\ Len(got) = Len(rows[f])
  <2>1. \A i \in 1..Len(rows[f]) : got[i] \in Entry
    BY <1>4
  <2>2. DOMAIN got = 1..Len(rows[f])
    BY <1>3
  <2>3. got \in [1..Len(rows[f]) -> Entry]
    BY <1>3, <2>1
  <2>4. QED
    BY <1>3, <2>3
<1> HIDE DEF got
<1>6. /\ rows \in [Followers -> Seq(PolledRow)] /\ inbox \in [Followers -> Seq(Entry)]
      /\ <<>> \in Seq(PolledRow) /\ Len(<<>>) = 0
  BY <1>1, EmptySeq DEF TypeOK
<1>7. /\ rows'[f] = <<>> /\ inbox'[f] = got
      /\ \A g \in Followers : g # f => rows'[g] = rows[g] /\ inbox'[g] = inbox[g]
  BY <1>2, <1>6
<1>8. /\ UNCHANGED <<docs, feed, history, up, fdocs, ffeed, cursor, leader>>
      /\ UNCHANGED <<seen, committed, waiting, acked>>
  BY <1>2 DEF leaderVars, quorumVars
<1>9. TypeOK'
  <2>1. rows' \in [Followers -> Seq(PolledRow)] /\ inbox' \in [Followers -> Seq(Entry)]
    BY <1>2, <1>5, <1>6
  <2>2. QED
    BY <1>1, <1>8, <2>1 DEF TypeOK
<1>10. ASSUME NEW g \in Followers PROVE PolledInv(g)'
  <2>1. CASE g # f
    <3>1. PolledInv(g) /\ rows'[g] = rows[g] /\ inbox'[g] = inbox[g]
      BY <1>7, <2>1 DEF ReplInv
    <3>2. QED
      BY <1>8, <3>1 DEF PolledInv
  <2>2. CASE g = f
    <3>1. rows'[f] = <<>> /\ Len(rows'[f]) = 0 /\ inbox'[f] = got /\ cursor'[f] = c /\ feed' = feed
      BY <1>6, <1>7, <1>8
    <3>2. QED
      BY <1>4, <1>5, <2>2, <3>1 DEF PolledInv
  <2>3. QED
    BY <2>1, <2>2
<1>11. /\ OwnFeedInv' /\ (OldTerm' <=> OldTerm)
       /\ OldTerm => HistoryInv' /\ \A g \in Followers : HoldsThrough(g, cursor[g])'
  BY <1>2, NotApplied
<1>12. ASSUME OldTerm PROVE OldInv'
  <2>1. OldInv /\ HistoryInv /\ leader = Nobody
    BY <1>1, <1>12 DEF ReplInv, OldTerm, OldInv
  <2>2. AckInv'
    <3>1. \A end : Reached(end)' = Reached(end)
      BY <1>8 DEF Reached
    <3>2. QED
      BY <1>8, <2>1, <3>1 DEF OldInv, AckInv, Quorum
  <2>3. ElectedInv'
    BY <1>1, <1>8, <2>1 DEF ElectedInv
  <2>4. ASSUME NEW i \in 1..Len(got), got[i].op = "upsert"
        PROVE  IF got[i].rec = Absent THEN RemovedAfter(got[i].id, c + i)
               ELSE \E k \in (c + i)..Len(feed) : got[i].rec = history[k + 1][got[i].id]
    <3>1. /\ got[i].rec = docs[got[i].id] /\ got[i].id \in Ids /\ c + i \in 1..Len(feed)
          /\ feed[c + i] = [op |-> "upsert", id |-> got[i].id]
      BY <1>4, <1>5, <2>4
    <3>2. CASE got[i].rec = Absent
      <4>1. feed[c + i].op = "upsert" /\ feed[c + i].id = got[i].id
        BY <3>1
      <4>2. RemovedAfter(got[i].id, c + i)
        BY <2>1, <3>1, <3>2, <4>1 DEF HistoryInv
      <4>3. QED
        BY <3>2, <4>2
    <3>3. CASE got[i].rec # Absent
      <4>1. Len(feed) \in (c + i)..Len(feed) /\ history[Len(feed) + 1] = docs
        BY <1>3, <2>1, <3>1 DEF HistoryInv
      <4>2. QED
        BY <3>1, <3>3, <4>1
    <3>4. QED
      BY <3>2, <3>3
  <2>5. ASSUME NEW g \in Followers PROVE ResolvedInv(g)'
    <3>1. CASE g # f
      <4>1. ResolvedInv(g) /\ inbox'[g] = inbox[g]
        BY <1>7, <2>1, <3>1 DEF OldInv
      <4>2. QED
        BY <1>8, <4>1, ResolvedStays
    <3>2. CASE g = f
      <4>1. inbox'[f] = got /\ cursor'[f] = c /\ feed' = feed /\ history' = history
        BY <1>7, <1>8
      <4>2. QED
        BY <2>4, <3>2, <4>1 DEF ResolvedInv, RemovedAfter
    <3>3. QED
      BY <3>1, <3>2
  <2>6. QED
    BY <1>11, <1>12, <2>2, <2>3, <2>5 DEF OldInv
<1>13. ASSUME ~OldTerm PROVE NewInv'
  <2>1. NewInv
    BY <1>13 DEF ReplInv
  <2>2. ASSUME NEW g \in Followers \ {leader}, NEW i \in 1..Len(inbox'[g]), inbox'[g][i].op = "upsert"
        PROVE  inbox'[g][i].rec = docs[inbox'[g][i].id]
    <3>1. CASE g # f
      BY <1>7, <2>1, <2>2, <3>1 DEF NewInv
    <3>2. CASE g = f
      BY <1>4, <1>5, <1>7, <2>2, <3>2
    <3>3. QED
      BY <3>1, <3>2
  <2>3. QED
    BY <1>8, <2>1, <2>2 DEF NewInv, LastUpsert
<1>14. QED
  BY <1>9, <1>10, <1>11, <1>12, <1>13 DEF ReplInv

-----------------------------------------------------------------------------
(* An entry is applied.                                                    *)

\* The entry a follower applies next.
First(f) == inbox[f][1]

\* What applying it does: the row is the feed's next, the cursor passes it, and the
\* follower's record becomes the entry's, unless an upsert has none.
LEMMA Applied ==
  ASSUME ReplInv, NEW f \in Followers, ApplyEntry(f)
  PROVE  /\ First(f) \in Entry /\ rows[f] = <<>>
         /\ cursor[f] + 1 \in 1..Len(feed) /\ cursor[f] \in Nat
         /\ feed[cursor[f] + 1] = [op |-> First(f).op, id |-> First(f).id]
         /\ First(f).op = "remove" => First(f).rec = Absent
         /\ cursor' = [cursor EXCEPT ![f] = cursor[f] + 1] /\ cursor'[f] = cursor[f] + 1
         /\ Len(inbox[f]) \in Nat /\ Len(inbox'[f]) = Len(inbox[f]) - 1
         /\ \A i \in 1..Len(inbox'[f]) : i + 1 \in 1..Len(inbox[f]) /\ inbox'[f][i] = inbox[f][i + 1]
         /\ inbox' \in [Followers -> Seq(Entry)]
         /\ \A g \in Followers : g # f => /\ inbox'[g] = inbox[g] /\ cursor'[g] = cursor[g]
                                          /\ fdocs'[g] = fdocs[g] /\ ffeed'[g] = ffeed[g]
         /\ fdocs' \in [Followers -> [Ids -> Slot]] /\ ffeed' \in [Followers -> Seq(Row)]
         /\ \A id \in Ids : id # First(f).id => fdocs'[f][id] = fdocs[f][id]
         /\ fdocs'[f][First(f).id] = IF First(f).op = "upsert" /\ First(f).rec = Absent
                                     THEN fdocs[f][First(f).id] ELSE First(f).rec
         /\ \/ fdocs'[f] = fdocs[f] /\ ffeed'[f] = ffeed[f]
            \/ /\ ffeed'[f] = Append(ffeed[f], [op |-> First(f).op, id |-> First(f).id])
               /\ First(f).op = "upsert" => First(f).rec # Absent
<1> DEFINE e == First(f)
<1>1. TypeOK /\ PolledInv(f) /\ inbox[f] # <<>>
  BY DEF ReplInv, ApplyEntry
<1>2. /\ cursor[f] \in Nat /\ Len(feed) \in Nat /\ inbox[f] \in Seq(Entry) /\ Len(inbox[f]) \in Nat
      /\ fdocs[f] \in [Ids -> Slot] /\ ffeed[f] \in Seq(Row)
      /\ \A i \in 1..Len(inbox[f]) : inbox[f][i] \in Entry
  BY <1>1, FollowerTypes, FeedTypes
<1>3. /\ Head(inbox[f]) = e /\ Tail(inbox[f]) \in Seq(Entry)
      /\ Len(Tail(inbox[f])) = Len(inbox[f]) - 1
      /\ \A i \in 1..Len(Tail(inbox[f])) : Tail(inbox[f])[i] = inbox[f][i + 1]
  BY <1>1, <1>2, HeadTailProperties DEF First
<1>4. 1 \in 1..Len(inbox[f])
  BY <1>1, <1>2, EmptySeq
<1>5. e \in Entry /\ e.seq \in Nat /\ e.id \in Ids /\ e.rec \in Slot /\ e.op \in {"upsert", "remove"}
  BY <1>2, <1>4 DEF Entry, First
<1>6. /\ e.seq = cursor[f] /\ cursor[f] + 1 \in 1..Len(feed)
      /\ feed[cursor[f] + 1] = [op |-> e.op, id |-> e.id]
      /\ e.op = "remove" => e.rec = Absent
  <2>1. /\ e.seq = cursor[f] + 1 - 1 /\ cursor[f] + 1 <= Len(feed)
        /\ feed[cursor[f] + 1] = [op |-> e.op, id |-> e.id]
        /\ e.op = "remove" => e.rec = Absent
    BY <1>1, <1>4 DEF PolledInv, First
  <2>2. QED
    BY <1>2, <2>1
<1>7. /\ fdocs' = IF Skips(f, e) THEN fdocs ELSE [fdocs EXCEPT ![f][e.id] = e.rec]
      /\ ffeed' = IF Skips(f, e) THEN ffeed
                  ELSE [ffeed EXCEPT ![f] = Append(ffeed[f], [op |-> e.op, id |-> e.id])]
      /\ cursor' = [cursor EXCEPT ![f] = e.seq + 1]
      /\ inbox' = [inbox EXCEPT ![f] = Tail(inbox[f])]
  BY <1>3 DEF ApplyEntry, CursorAfter
<1>8. /\ cursor \in [Followers -> 0..Len(feed)] /\ inbox \in [Followers -> Seq(Entry)]
      /\ fdocs \in [Followers -> [Ids -> Slot]] /\ ffeed \in [Followers -> Seq(Row)]
  BY <1>1 DEF TypeOK
<1>9. rows[f] = <<>>
  BY <1>1 DEF PolledInv
<1> HIDE DEF e
<1>10. /\ cursor' = [cursor EXCEPT ![f] = cursor[f] + 1] /\ cursor'[f] = cursor[f] + 1
       /\ \A g \in Followers : g # f => cursor'[g] = cursor[g]
  BY <1>6, <1>7, <1>8
<1>11. /\ inbox'[f] = Tail(inbox[f]) /\ inbox' \in [Followers -> Seq(Entry)]
       /\ \A g \in Followers : g # f => inbox'[g] = inbox[g]
  BY <1>3, <1>7, <1>8
<1>12. /\ Len(inbox'[f]) = Len(inbox[f]) - 1
       /\ \A i \in 1..Len(inbox'[f]) : i + 1 \in 1..Len(inbox[f]) /\ inbox'[f][i] = inbox[f][i + 1]
  BY <1>2, <1>3, <1>11
<1>13. [op |-> e.op, id |-> e.id] \in Row
  BY <1>5 DEF Row
<1>14. Append(ffeed[f], [op |-> e.op, id |-> e.id]) \in Seq(Row)
  BY <1>2, <1>13, AppendProperties
<1>15. CASE Skips(f, e)
  <2>1. fdocs' = fdocs /\ ffeed' = ffeed
    BY <1>7, <1>15
  <2>2. fdocs[f][e.id] = IF e.op = "upsert" /\ e.rec = Absent THEN fdocs[f][e.id] ELSE e.rec
    BY <1>5, <1>6, <1>15 DEF Skips
  <2>3. QED
    BY <1>2, <1>5, <1>6, <1>8, <1>9, <1>10, <1>11, <1>12, <2>1, <2>2 DEF e
<1>16. CASE ~Skips(f, e)
  <2>1. /\ fdocs' = [fdocs EXCEPT ![f][e.id] = e.rec]
        /\ ffeed' = [ffeed EXCEPT ![f] = Append(ffeed[f], [op |-> e.op, id |-> e.id])]
    BY <1>7, <1>16
  <2>2. e.op = "upsert" => e.rec # Absent
    BY <1>16 DEF Skips
  <2>3. /\ fdocs' \in [Followers -> [Ids -> Slot]] /\ fdocs'[f][e.id] = e.rec
        /\ \A id \in Ids : id # e.id => fdocs'[f][id] = fdocs[f][id]
        /\ \A g \in Followers : g # f => fdocs'[g] = fdocs[g]
    BY <1>2, <1>5, <1>8, <2>1
  <2>4. /\ ffeed' \in [Followers -> Seq(Row)]
        /\ ffeed'[f] = Append(ffeed[f], [op |-> e.op, id |-> e.id])
        /\ \A g \in Followers : g # f => ffeed'[g] = ffeed[g]
    BY <1>8, <1>14, <2>1
  <2>5. QED
    BY <1>2, <1>5, <1>6, <1>9, <1>10, <1>11, <1>12, <2>2, <2>3, <2>4 DEF e
<1>17. QED
  BY <1>15, <1>16

\* The follower's own feed records what it applied: an upsert is the last row of its
\* record, and the other records' rows keep their place.
LEMMA ApplyOwnFeed == ASSUME ReplInv, NEW f \in Followers, ApplyEntry(f) PROVE OwnFeedInv'
<1> DEFINE e == First(f)
           s == ffeed[f]
<1>1. TypeOK /\ OwnFeedInv
  BY DEF ReplInv
<1>2. s \in Seq(Row) /\ Len(s) \in Nat
  BY <1>1, FollowerTypes
<1>3. ASSUME NEW g \in Followers, NEW id \in Ids, fdocs'[g][id] # Absent
      PROVE  \E k \in 1..Len(ffeed'[g]) : LastUpsert(ffeed'[g], k, id)
  <2>1. CASE g # f
    <3>1. fdocs'[g] = fdocs[g] /\ ffeed'[g] = ffeed[g]
      BY <2>1, Applied
    <3>2. QED
      BY <1>1, <1>3, <3>1 DEF OwnFeedInv
  <2>2. CASE g = f /\ fdocs'[f] = fdocs[f] /\ ffeed'[f] = ffeed[f]
    BY <1>1, <1>3, <2>2 DEF OwnFeedInv
  <2>3. CASE /\ g = f /\ ffeed'[f] = Append(s, [op |-> e.op, id |-> e.id])
             /\ e.op = "upsert" => e.rec # Absent
    <3>1. e \in Entry /\ [op |-> e.op, id |-> e.id] \in Row
      BY Applied DEF Entry, Row
    <3>2. PICK row \in Row : row = [op |-> e.op, id |-> e.id]
      BY <3>1
    <3>3. row.op = e.op /\ row.id = e.id /\ ffeed'[f] = Append(s, row)
      BY <2>3, <3>2
    <3>4. /\ Len(ffeed'[f]) = Len(s) + 1 /\ ffeed'[f][Len(s) + 1] = row
          /\ \A k \in 1..Len(s) : ffeed'[f][k] = s[k]
      BY <1>2, <3>3, AppendProperties
    <3>5. CASE id = e.id
      <4>1. e.op = "upsert"
        BY <1>3, <2>3, <3>1, <3>5, Applied DEF Entry
      <4>2. row = [op |-> "upsert", id |-> id]
        BY <3>2, <3>5, <4>1
      <4>3. Len(s) + 1 \in 1..Len(ffeed'[f]) /\ ~ \E j \in (Len(s) + 1 + 1)..Len(ffeed'[f]) : TRUE
        BY <1>2, <3>4
      <4>4. QED
        BY <2>3, <3>4, <4>2, <4>3 DEF LastUpsert
    <3>6. CASE id # e.id
      <4>1. fdocs[f][id] # Absent
        BY <1>3, <2>3, <3>6, Applied
      <4>2. PICK k \in 1..Len(s) : LastUpsert(s, k, id)
        BY <1>1, <4>1 DEF OwnFeedInv
      <4>3. k \in 1..Len(ffeed'[f]) /\ ffeed'[f][k] = [op |-> "upsert", id |-> id]
        BY <1>2, <3>4, <4>2 DEF LastUpsert
      <4>4. ASSUME NEW j \in (k + 1)..Len(ffeed'[f]) PROVE ffeed'[f][j].id # id
        <5>1. CASE j = Len(s) + 1
          BY <3>3, <3>4, <3>6, <5>1
        <5>2. CASE j # Len(s) + 1
          <6>1. j \in (k + 1)..Len(s) /\ j \in 1..Len(s)
            BY <1>2, <3>4, <5>2
          <6>2. QED
            BY <3>4, <4>2, <6>1 DEF LastUpsert
        <5>3. QED
          BY <5>1, <5>2
      <4>5. QED
        BY <2>3, <4>3, <4>4 DEF LastUpsert
    <3>7. QED
      BY <3>5, <3>6
  <2>4. QED
    BY <2>1, <2>2, <2>3, Applied
<1>4. QED
  BY <1>3 DEF OwnFeedInv

\* In the old term the follower holds one row more.
LEMMA ApplyHolds ==
  ASSUME ReplInv, OldInv, NEW f \in Followers, ApplyEntry(f)
  PROVE  HoldsThrough(f, cursor[f])'
<1> DEFINE e == First(f)
           c == cursor[f]
<1>1. UNCHANGED <<docs, feed, history>> /\ Len(feed) \in Nat
  BY FeedTypes DEF ReplInv, ApplyEntry, leaderVars
<1>2. /\ c \in Nat /\ c + 1 \in 1..Len(feed) /\ cursor'[f] = c + 1 /\ c + 1 <= Len(feed)
      /\ feed[c + 1] = [op |-> e.op, id |-> e.id]
      /\ e.op \in {"upsert", "remove"} /\ e.id \in Ids
  BY <1>1, Applied DEF Entry
<1>3. feed[c + 1].op = e.op /\ feed[c + 1].id = e.id
  BY <1>2
<1>4. /\ \A id \in Ids : id # e.id => history[c + 2][id] = history[c + 1][id]
      /\ e.op = "remove" => history[c + 2][e.id] = Absent
  <2>1. /\ \A id \in Ids : id # feed[c + 1].id => history[c + 1 + 1][id] = history[c + 1][id]
        /\ feed[c + 1].op = "remove" => history[c + 1 + 1][feed[c + 1].id] = Absent
    BY <1>2 DEF OldInv, HistoryInv
  <2>2. c + 1 + 1 = c + 2
    BY <1>2
  <2>3. QED
    BY <1>3, <2>1, <2>2
<1>5. ASSUME NEW id \in Ids
      PROVE  \/ \E k \in (c + 1)..Len(feed) : fdocs'[f][id] = history[k + 1][id]
             \/ \E j \in (c + 2)..Len(feed) : feed[j] = [op |-> "remove", id |-> id]
  <2>1. CASE id = e.id /\ e.op = "remove"
    <3>1. fdocs'[f][id] = Absent
      BY <2>1, Applied
    <3>2. c + 1 \in (c + 1)..Len(feed) /\ c + 1 + 1 = c + 2
      BY <1>1, <1>2
    <3>3. QED
      BY <1>4, <2>1, <3>1, <3>2
  <2>2. CASE id = e.id /\ e.op = "upsert"
    <3>1. 1 \in 1..Len(inbox[f])
      <4>1. inbox[f] # <<>> /\ inbox[f] \in Seq(Entry)
        BY FollowerTypes DEF ReplInv, ApplyEntry
      <4>2. Len(inbox[f]) \in Nat /\ Len(inbox[f]) # 0
        BY <4>1, EmptySeq
      <4>3. QED
        BY <4>2
    <3>2. IF e.rec = Absent THEN RemovedAfter(e.id, c + 1)
          ELSE \E k \in (c + 1)..Len(feed) : e.rec = history[k + 1][e.id]
      BY <2>2, <3>1 DEF OldInv, ResolvedInv, First
    <3>3. CASE e.rec = Absent
      <4>1. \E j \in (c + 1 + 1)..Len(feed) : feed[j] = [op |-> "remove", id |-> id]
        BY <2>2, <3>2, <3>3 DEF RemovedAfter
      <4>2. c + 1 + 1 = c + 2
        BY <1>2
      <4>3. QED
        BY <4>1, <4>2
    <3>4. CASE e.rec # Absent
      <4>1. fdocs'[f][id] = e.rec
        BY <2>2, <3>4, Applied
      <4>2. QED
        BY <2>2, <3>2, <3>4, <4>1
    <3>5. QED
      BY <3>3, <3>4
  <2>3. CASE id # e.id
    <3>1. fdocs'[f][id] = fdocs[f][id]
      BY <2>3, Applied
    <3>2. CASE Holds(f, id, c)
      <4>1. PICK k \in c..Len(feed) : fdocs[f][id] = history[k + 1][id]
        BY <3>2 DEF Holds
      <4>2. CASE k = c
        <5>1. c + 1 \in (c + 1)..Len(feed) /\ c + 1 + 1 = c + 2
          BY <1>1, <1>2
        <5>2. fdocs[f][id] = history[c + 2][id]
          BY <1>4, <2>3, <4>1, <4>2
        <5>3. QED
          BY <3>1, <5>1, <5>2
      <4>3. CASE k # c
        <5>1. k \in (c + 1)..Len(feed)
          BY <1>1, <1>2, <4>3
        <5>2. QED
          BY <3>1, <4>1, <5>1
      <4>4. QED
        BY <4>2, <4>3
    <3>3. CASE RemovalAhead(f, id)
      <4>1. PICK j \in (c + 1)..Len(feed) : feed[j] = [op |-> "remove", id |-> id]
        BY <3>3 DEF RemovalAhead
      <4>2. j # c + 1
        BY <1>3, <2>3, <4>1
      <4>3. j \in (c + 2)..Len(feed)
        BY <1>1, <1>2, <4>2
      <4>4. QED
        BY <4>1, <4>3
    <3>4. QED
      BY <3>2, <3>3 DEF OldInv, HoldsThrough
  <2>4. QED
    BY <1>2, <2>1, <2>2, <2>3
<1>6. cursor'[f] + 1 = c + 2
  BY <1>2
<1>7. QED
  BY <1>1, <1>2, <1>5, <1>6 DEF HoldsThrough, Holds, RemovalAhead

\* What is left in the follower's inbox moves up by one.
LEMMA ApplyPolled ==
  ASSUME ReplInv, NEW f \in Followers, ApplyEntry(f), NEW g \in Followers
  PROVE  PolledInv(g)' /\ (ResolvedInv(g) => ResolvedInv(g)')
<1>1. /\ UNCHANGED <<docs, feed, history, rows>> /\ PolledInv(g)
  BY DEF ReplInv, ApplyEntry, leaderVars
<1>2. CASE g # f
  <2>1. inbox'[g] = inbox[g] /\ cursor'[g] = cursor[g]
    BY <1>2, Applied
  <2>2. PolledInv(g)'
    BY <1>1, <2>1 DEF PolledInv
  <2>3. QED
    BY <1>1, <2>1, <2>2, ResolvedStays
<1>3. CASE g = f
  <2>1. /\ cursor[f] \in Nat /\ cursor'[f] = cursor[f] + 1 /\ rows'[f] = <<>> /\ Len(rows'[f]) = 0
        /\ \A i \in 1..Len(inbox'[f]) : i + 1 \in 1..Len(inbox[f]) /\ inbox'[f][i] = inbox[f][i + 1]
    <3>1. /\ cursor[f] \in Nat /\ cursor'[f] = cursor[f] + 1 /\ rows[f] = <<>>
          /\ \A i \in 1..Len(inbox'[f]) : i + 1 \in 1..Len(inbox[f]) /\ inbox'[f][i] = inbox[f][i + 1]
      BY Applied
    <3>2. rows'[f] = <<>> /\ Len(<<>>) = 0
      BY <1>1, <3>1
    <3>3. QED
      BY <3>1, <3>2
  <2>2. ASSUME NEW i \in 1..Len(inbox'[f])
        PROVE  /\ i + 1 \in 1..Len(inbox[f]) /\ inbox'[f][i] = inbox[f][i + 1]
               /\ cursor[f] + (i + 1) = cursor'[f] + i /\ cursor[f] + (i + 1) - 1 = cursor'[f] + i - 1
    <3>1. i + 1 \in 1..Len(inbox[f]) /\ inbox'[f][i] = inbox[f][i + 1]
      BY <2>1
    <3>2. ASSUME NEW c \in Nat, NEW d, d = c + 1
          PROVE  c + (i + 1) = d + i /\ c + (i + 1) - 1 = d + i - 1
      BY <3>2
    <3>3. QED
      BY <2>1, <3>1, <3>2
  <2>3. ASSUME NEW i \in 1..Len(inbox'[f])
        PROVE  /\ inbox'[f][i].seq = cursor'[f] + i - 1 /\ cursor'[f] + i <= Len(feed)
               /\ feed[cursor'[f] + i] = [op |-> inbox'[f][i].op, id |-> inbox'[f][i].id]
               /\ inbox'[f][i].op = "remove" => inbox'[f][i].rec = Absent
    <3>1. /\ inbox[f][i + 1].seq = cursor[f] + (i + 1) - 1 /\ cursor[f] + (i + 1) <= Len(feed)
          /\ feed[cursor[f] + (i + 1)] = [op |-> inbox[f][i + 1].op, id |-> inbox[f][i + 1].id]
          /\ inbox[f][i + 1].op = "remove" => inbox[f][i + 1].rec = Absent
      BY <1>1, <1>3, <2>2 DEF PolledInv
    <3>2. QED
      BY <2>2, <3>1
  <2>4. PolledInv(f)'
    BY <1>1, <2>1, <2>3 DEF PolledInv
  <2>5. ASSUME ResolvedInv(f), NEW i \in 1..Len(inbox'[f]), inbox'[f][i].op = "upsert"
        PROVE  IF inbox'[f][i].rec = Absent
               THEN RemovedAfter(inbox'[f][i].id, cursor'[f] + i)
               ELSE \E k \in (cursor'[f] + i)..Len(feed) :
                       inbox'[f][i].rec = history[k + 1][inbox'[f][i].id]
    <3>1. IF inbox[f][i + 1].rec = Absent
          THEN RemovedAfter(inbox[f][i + 1].id, cursor[f] + (i + 1))
          ELSE \E k \in (cursor[f] + (i + 1))..Len(feed) :
                  inbox[f][i + 1].rec = history[k + 1][inbox[f][i + 1].id]
      BY <2>2, <2>5 DEF ResolvedInv
    <3>2. QED
      BY <2>2, <3>1
  <2>6. ResolvedInv(f) => ResolvedInv(f)'
    BY <1>1, <2>5 DEF ResolvedInv, RemovedAfter
  <2>7. QED
    BY <1>3, <2>4, <2>6
<1>4. QED
  BY <1>2, <1>3

\* In the new term the last upsert of a record brings the record the leader has,
\* and no later row disturbs it.
LEMMA ApplyNew ==
  ASSUME ReplInv, ~OldTerm, NEW f \in Followers \ {leader}, ApplyEntry(f)
  PROVE  NewInv'
<1> DEFINE e == First(f)
           c == cursor[f]
<1>1. UNCHANGED <<docs, feed, leader>> /\ Len(feed) \in Nat /\ NewInv /\ leader \in Followers
  BY FeedTypes DEF ReplInv, OldTerm, TypeOK, ApplyEntry, leaderVars
<1>2. /\ c \in Nat /\ c + 1 \in 1..Len(feed) /\ cursor'[f] = c + 1
      /\ feed[c + 1] = [op |-> e.op, id |-> e.id]
  BY Applied
<1>3. feed[c + 1].op = e.op /\ feed[c + 1].id = e.id
  BY <1>2
<1>4. feed = ffeed'[leader] /\ docs = fdocs'[leader]
  BY <1>1, Applied DEF NewInv
<1>5. ASSUME NEW g \in Followers \ {leader}, NEW i \in 1..Len(inbox'[g]), inbox'[g][i].op = "upsert"
      PROVE  inbox'[g][i].rec = docs[inbox'[g][i].id]
  <2>1. CASE g # f
    <3>1. inbox'[g] = inbox[g]
      BY <2>1, Applied
    <3>2. QED
      BY <1>1, <1>5, <3>1 DEF NewInv
  <2>2. CASE g = f
    <3>1. i + 1 \in 1..Len(inbox[f]) /\ inbox'[f][i] = inbox[f][i + 1]
      BY <1>5, <2>2, Applied
    <3>2. QED
      BY <1>1, <1>5, <2>2, <3>1 DEF NewInv
  <2>3. QED
    BY <2>1, <2>2
<1>6. ASSUME NEW g \in Followers \ {leader}, NEW id \in Ids, NEW k \in 1..Len(feed),
             docs[id] # Absent, LastUpsert(feed, k, id), k <= cursor'[g]
      PROVE  fdocs'[g][id] = docs[id]
  <2>1. CASE g # f
    <3>1. fdocs'[g] = fdocs[g] /\ cursor'[g] = cursor[g]
      BY <2>1, Applied
    <3>2. QED
      BY <1>1, <1>6, <3>1 DEF NewInv
  <2>2. CASE g = f /\ k = c + 1
    <3>1. feed[c + 1] = [op |-> "upsert", id |-> id]
      BY <1>6, <2>2 DEF LastUpsert
    <3>2. e.op = "upsert" /\ e.id = id
      BY <1>3, <3>1
    <3>3. 1 \in 1..Len(inbox[f])
      <4>1. inbox[f] # <<>> /\ inbox[f] \in Seq(Entry)
        BY FollowerTypes DEF ReplInv, ApplyEntry
      <4>2. Len(inbox[f]) \in Nat /\ Len(inbox[f]) # 0
        BY <4>1, EmptySeq
      <4>3. QED
        BY <4>2
    <3>4. e.rec = docs[id]
      BY <1>1, <3>2, <3>3 DEF NewInv, First
    <3>5. QED
      BY <1>6, <2>2, <3>2, <3>4, Applied
  <2>3. CASE g = f /\ k # c + 1
    <3>1. k <= c /\ c + 1 \in (k + 1)..Len(feed)
      BY <1>1, <1>2, <1>6, <2>3
    <3>2. fdocs[f][id] = docs[id] /\ id # e.id
      BY <1>1, <1>3, <1>6, <3>1 DEF NewInv, LastUpsert
    <3>3. QED
      BY <2>3, <3>2, Applied
  <2>4. QED
    BY <2>1, <2>2, <2>3
<1>7. QED
  BY <1>1, <1>4, <1>5, <1>6 DEF NewInv

\* Applying an entry.
LEMMA ApplyInv == ASSUME ReplInv, NEW f \in Followers \ {leader}, ApplyEntry(f) PROVE ReplInv'
<1>1. /\ UNCHANGED <<docs, feed, history, up, rows, leader>>
      /\ UNCHANGED <<seen, committed, waiting, acked>>
  BY DEF ApplyEntry, leaderVars, quorumVars
<1>2. TypeOK /\ Len(feed) \in Nat
  BY FeedTypes DEF ReplInv
<1>3. cursor' \in [Followers -> 0..Len(feed)]
  <2>1. cursor[f] + 1 \in 1..Len(feed) /\ cursor' = [cursor EXCEPT ![f] = cursor[f] + 1]
    BY Applied
  <2>2. cursor[f] + 1 \in 0..Len(feed)
    BY <1>2, <2>1
  <2>3. QED
    BY <1>2, <2>1, <2>2 DEF TypeOK
<1>4. TypeOK'
  <2>1. /\ inbox' \in [Followers -> Seq(Entry)] /\ fdocs' \in [Followers -> [Ids -> Slot]]
        /\ ffeed' \in [Followers -> Seq(Row)]
    BY Applied
  <2>2. QED
    BY <1>1, <1>2, <1>3, <2>1 DEF TypeOK
<1>5. OwnFeedInv' /\ (\A g \in Followers : PolledInv(g)') /\ (OldTerm' <=> OldTerm)
  BY <1>1, ApplyOwnFeed, ApplyPolled DEF OldTerm
<1>6. ASSUME OldTerm PROVE OldInv'
  <2>1. OldInv
    BY <1>6 DEF ReplInv
  <2>2. HistoryInv'
    BY <1>1, <2>1 DEF OldInv, HistoryInv, RemovedAfter
  <2>3. leader = Nobody
    <3>1. inbox[f] # <<>>
      BY DEF ApplyEntry
    <3>2. QED
      BY <2>1, <3>1 DEF OldInv, ElectedInv
  <2>4. ElectedInv'
    BY <1>1, <2>1, <2>3 DEF OldInv, ElectedInv
  <2>5. AckInv'
    <3>1. ~FromZero => \A g \in Followers : seen'[g] <= cursor'[g]
      <4>1. ASSUME ~FromZero, NEW g \in Followers PROVE seen[g] <= cursor'[g]
        <5>1. seen[g] <= cursor[g] /\ seen[g] \in Nat /\ cursor[g] \in Nat
          BY <1>2, <2>1, <4>1, FollowerTypes DEF OldInv, AckInv
        <5>2. cursor'[g] = cursor[g] \/ cursor'[g] = cursor[g] + 1
          BY Applied
        <5>3. QED
          BY <5>1, <5>2
      <4>2. QED
        BY <1>1, <4>1
    <3>2. \A end : Reached(end)' = Reached(end)
      BY <1>1 DEF Reached
    <3>3. QED
      BY <1>1, <2>1, <3>1, <3>2 DEF OldInv, AckInv, Quorum
  <2>6. ASSUME NEW g \in Followers PROVE HoldsThrough(g, cursor[g])'
    <3>1. CASE g = f
      BY <2>1, <3>1, ApplyHolds
    <3>2. CASE g # f
      <4>1. fdocs'[g] = fdocs[g] /\ cursor'[g] = cursor[g] /\ HoldsThrough(g, cursor[g])
        BY <2>1, <3>2, Applied DEF OldInv
      <4>2. QED
        BY <1>1, <4>1 DEF HoldsThrough, Holds, RemovalAhead
    <3>3. QED
      BY <3>1, <3>2
  <2>7. QED
    BY <2>1, <2>2, <2>4, <2>5, <2>6, ApplyPolled DEF OldInv
<1>7. ASSUME ~OldTerm PROVE NewInv'
  BY <1>7, ApplyNew
<1>8. QED
  BY <1>4, <1>5, <1>6, <1>7 DEF ReplInv

-----------------------------------------------------------------------------
(* Restart and failover.                                                   *)

\* A restarted follower keeps its estate.  A cursor that goes back to 0 claims less
\* of it; the leader may then remember more than the follower asks for.
LEMMA RestartInv ==
  ASSUME ReplInv, FirstTerm, NEW f \in Followers, Restart(f)
  PROVE  ReplInv'
<1>1. TypeOK /\ OldInv /\ OldTerm /\ Len(feed) \in Nat
  BY FeedTypes DEF ReplInv, OldTerm, FirstTerm
<1>2. /\ UNCHANGED <<docs, feed, history, up, fdocs, ffeed, leader>>
      /\ UNCHANGED <<seen, committed, waiting, acked>>
      /\ rows' = [rows EXCEPT ![f] = <<>>] /\ inbox' = [inbox EXCEPT ![f] = <<>>]
      /\ cursor' = IF FromZero THEN [cursor EXCEPT ![f] = 0] ELSE cursor
  BY DEF Restart, leaderVars, quorumVars
<1>3. /\ rows \in [Followers -> Seq(PolledRow)] /\ inbox \in [Followers -> Seq(Entry)]
      /\ cursor \in [Followers -> 0..Len(feed)] /\ 0 \in 0..Len(feed)
      /\ <<>> \in Seq(PolledRow) /\ <<>> \in Seq(Entry) /\ Len(<<>>) = 0
  BY <1>1, EmptySeq DEF TypeOK
<1>4. TypeOK'
  <2>1. /\ rows' \in [Followers -> Seq(PolledRow)] /\ inbox' \in [Followers -> Seq(Entry)]
        /\ cursor' \in [Followers -> 0..Len(feed)]
    BY <1>2, <1>3
  <2>2. QED
    BY <1>1, <1>2, <2>1 DEF TypeOK
<1>5. /\ rows'[f] = <<>> /\ inbox'[f] = <<>> /\ (cursor'[f] = 0 \/ cursor'[f] = cursor[f])
      /\ \A g \in Followers : g # f =>
            rows'[g] = rows[g] /\ inbox'[g] = inbox[g] /\ cursor'[g] = cursor[g]
  BY <1>2, <1>3
<1>6. ASSUME NEW g \in Followers PROVE PolledInv(g)' /\ ResolvedInv(g)' /\ HoldsThrough(g, cursor[g])'
  <2>1. PolledInv(g) /\ ResolvedInv(g) /\ HoldsThrough(g, cursor[g])
    BY <1>1 DEF ReplInv, OldInv
  <2>2. CASE g # f
    <3>1. rows'[g] = rows[g] /\ inbox'[g] = inbox[g] /\ cursor'[g] = cursor[g]
      BY <1>5, <2>2
    <3>2. PolledInv(g)'
      BY <1>2, <2>1, <3>1 DEF PolledInv
    <3>3. ResolvedInv(g)'
      BY <1>2, <2>1, <3>1, ResolvedStays
    <3>4. HoldsThrough(g, cursor[g])'
      BY <1>2, <2>1, <3>1 DEF HoldsThrough, Holds, RemovalAhead
    <3>5. QED
      BY <3>2, <3>3, <3>4
  <2>3. CASE g = f
    <3>1. PolledInv(f)' /\ ResolvedInv(f)'
      BY <1>3, <1>5 DEF PolledInv, ResolvedInv
    <3>2. CASE cursor'[f] = cursor[f]
      BY <1>2, <2>1, <2>3, <3>1, <3>2 DEF HoldsThrough, Holds, RemovalAhead
    <3>3. CASE cursor'[f] = 0
      <4>1. cursor[f] \in Nat
        BY <1>1, FollowerTypes
      <4>2. \A k : /\ k \in cursor[f]..Len(feed) => k \in 0..Len(feed)
                   /\ k \in (cursor[f] + 1)..Len(feed) => k \in (0 + 1)..Len(feed)
        BY <1>1, <4>1
      <4>3. QED
        BY <1>2, <2>1, <2>3, <3>1, <3>3, <4>2 DEF HoldsThrough, Holds, RemovalAhead
    <3>4. QED
      BY <1>5, <3>2, <3>3
  <2>4. QED
    BY <2>2, <2>3
<1>7. OwnFeedInv' /\ OldTerm' /\ HistoryInv'
  BY <1>1, <1>2 DEF ReplInv, OwnFeedInv, OldTerm, OldInv, HistoryInv, RemovedAfter
<1>8. ElectedInv'
  BY <1>1, <1>2, <1>5 DEF OldInv, ElectedInv, FirstTerm
<1>9. AckInv'
  <2>1. \A end : Reached(end)' = Reached(end)
    BY <1>2 DEF Reached
  <2>2. QED
    BY <1>1, <1>2, <2>1 DEF OldInv, AckInv, Quorum
<1>10. QED
  BY <1>4, <1>6, <1>7, <1>8, <1>9 DEF ReplInv, OldInv

\* The election changes nobody's estate.
LEMMA ElectInv == ASSUME ReplInv, Elect PROVE ReplInv'
<1>1. /\ UNCHANGED <<docs, feed, history, up, fdocs, ffeed, cursor, rows, inbox>>
      /\ UNCHANGED <<seen, committed, waiting, acked>>
      /\ leader' \in Followers /\ Wins(leader') /\ ~up /\ \A f \in Followers : inbox[f] = <<>>
  BY DEF Elect, leaderVars, quorumVars, followerVars
<1>2. TypeOK /\ OldInv /\ OldTerm
  BY <1>1 DEF ReplInv, OldTerm
<1>3. TypeOK'
  BY <1>1, <1>2 DEF TypeOK
<1>4. OwnFeedInv' /\ OldTerm' /\ (\A f \in Followers : PolledInv(f)')
  BY <1>1 DEF ReplInv, OwnFeedInv, OldTerm, PolledInv
<1>5. HistoryInv' /\ AckInv'
  <2>1. \A end : Reached(end)' = Reached(end)
    BY <1>1 DEF Reached
  <2>2. AckInv'
    BY <1>1, <1>2, <2>1 DEF OldInv, AckInv, Quorum
  <2>3. QED
    BY <1>1, <1>2, <2>2 DEF OldInv, HistoryInv, RemovedAfter
<1>6. ElectedInv'
  <2>1. Wins(leader)'
    BY <1>1 DEF Wins
  <2>2. QED
    BY <1>1, <1>2, <2>1 DEF OldInv, ElectedInv
<1>7. \A f \in Followers : ResolvedInv(f)' /\ HoldsThrough(f, cursor[f])'
  <2>1. \A f \in Followers : ResolvedInv(f)'
    BY <1>1, <1>2, ResolvedStays DEF OldInv
  <2>2. \A f \in Followers : HoldsThrough(f, cursor[f])'
    BY <1>1, <1>2 DEF OldInv, HoldsThrough, Holds, RemovalAhead
  <2>3. QED
    BY <2>1, <2>2
<1>8. QED
  BY <1>3, <1>4, <1>5, <1>6, <1>7 DEF ReplInv, OldInv

\* The new leader's feed is its own, and its followers have read none of it.
LEMMA PromoteInv == ASSUME ReplInv, Promote PROVE ReplInv'
<1>1. TypeOK /\ leader \in Followers /\ leader # Nobody
  BY DEF ReplInv, Promote, TypeOK
<1>2. /\ up' = TRUE /\ docs' = fdocs[leader] /\ feed' = ffeed[leader] /\ history' = <<fdocs[leader]>>
      /\ seen' = [f \in Followers |-> 0] /\ acked' = {}
      /\ cursor' = [f \in Followers |-> IF f = leader THEN Len(ffeed[f]) ELSE 0]
      /\ rows' = [f \in Followers |-> <<>>] /\ inbox' = [f \in Followers |-> <<>>]
      /\ UNCHANGED <<committed, waiting, fdocs, ffeed, leader>>
  BY DEF Promote
<1>3. /\ fdocs[leader] \in [Ids -> Slot] /\ ffeed[leader] \in Seq(Row) /\ Len(feed') \in Nat
      /\ <<>> \in Seq(PolledRow) /\ <<>> \in Seq(Entry) /\ Len(<<>>) = 0
  BY <1>1, <1>2, FollowerTypes, EmptySeq
<1>4. TypeOK'
  <2>1. seen' \in [Followers -> 0..Len(feed')] /\ cursor' \in [Followers -> 0..Len(feed')]
    <3>1. 0 \in 0..Len(feed') /\ Len(feed') \in 0..Len(feed')
      BY <1>3
    <3>2. QED
      BY <1>2, <3>1
  <2>2. rows' \in [Followers -> Seq(PolledRow)] /\ inbox' \in [Followers -> Seq(Entry)]
    BY <1>2, <1>3
  <2>3. history' \in Seq([Ids -> Slot])
    BY <1>2, <1>3
  <2>4. QED
    BY <1>1, <1>2, <1>3, <2>1, <2>2, <2>3 DEF TypeOK
<1>5. OwnFeedInv' /\ ~OldTerm'
  BY <1>1, <1>2 DEF ReplInv, OwnFeedInv, OldTerm
<1>6. \A f \in Followers : PolledInv(f)'
  BY <1>2, <1>3 DEF PolledInv
<1>7. NewInv'
  <2>1. \A f \in Followers \ {leader} : cursor'[f] = 0 /\ inbox'[f] = <<>>
    BY <1>2
  <2>2. ASSUME NEW f \in Followers \ {leader}, NEW k \in 1..Len(feed') PROVE ~(k <= cursor'[f])
    BY <1>3, <2>1
  <2>3. QED
    BY <1>2, <1>3, <2>1, <2>2 DEF NewInv
<1>8. QED
  BY <1>4, <1>5, <1>6, <1>7 DEF ReplInv

-----------------------------------------------------------------------------
(* The theorems.                                                           *)

\* Every step keeps the invariant.
LEMMA StepInv == ReplInv /\ [Next]_vars => ReplInv'
<1> SUFFICES ASSUME ReplInv, [Next]_vars PROVE ReplInv'
  OBVIOUS
<1>1. CASE FirstTerm /\ (LeaderWrite \/ AwaitQuorum \/ Acknowledge \/ Timeout \/ LeaderCrash)
  BY <1>1, WriteInv, AwaitInv, AcknowledgeInv, TimeoutInv, CrashInv
<1>2. CASE \E f \in Followers \ {leader} : Follow(f) \/ (FirstTerm /\ Restart(f))
  BY <1>2, PollInv, ResolveInv, ApplyInv, RestartInv DEF Follow
<1>3. CASE Elect
  BY <1>3, ElectInv
<1>4. CASE Promote
  BY <1>4, PromoteInv
<1>5. CASE UNCHANGED vars
  <2>1. /\ UNCHANGED <<docs, feed, history, up, fdocs, ffeed, cursor, rows, inbox, leader>>
        /\ UNCHANGED <<seen, committed, waiting, acked>>
    BY <1>5 DEF vars, leaderVars, quorumVars, followerVars
  <2>2. /\ TypeOK' <=> TypeOK
        /\ OwnFeedInv' <=> OwnFeedInv
        /\ OldTerm' <=> OldTerm
    BY <2>1 DEF TypeOK, OwnFeedInv, OldTerm
  <2>3. \A f \in Followers : /\ PolledInv(f)' <=> PolledInv(f)
                             /\ ResolvedInv(f)' <=> ResolvedInv(f)
    BY <2>1 DEF PolledInv, ResolvedInv, RemovedAfter
  <2>4. \A f \in Followers : HoldsThrough(f, cursor[f])' <=> HoldsThrough(f, cursor[f])
    BY <2>1 DEF HoldsThrough, Holds, RemovalAhead
  <2>5. HistoryInv' <=> HistoryInv
    BY <2>1 DEF HistoryInv, RemovedAfter
  <2>6. AckInv' <=> AckInv
    BY <2>1 DEF AckInv, Reached, Quorum
  <2>7. ElectedInv' <=> ElectedInv
    BY <2>1 DEF ElectedInv, Wins
  <2>8. NewInv' <=> NewInv
    BY <2>1 DEF NewInv, LastUpsert
  <2>9. QED
    BY <2>2, <2>3, <2>4, <2>5, <2>6, <2>7, <2>8 DEF ReplInv, OldInv
<1>6. QED
  BY <1>1, <1>2, <1>3, <1>4, <1>5 DEF Next

\* The invariant of every reachable state.
THEOREM ReplInvariant == Spec => []ReplInv
<1>1. QED
  BY InitInv, StepInv, PTL DEF Spec

\* The type invariant: no cursor a follower polls from or reports is past the feed
\* it is a cursor of, failover included.
THEOREM TypeCorrect == Spec => []TypeOK
<1>1. ReplInv => TypeOK
  BY DEF ReplInv
<1>2. QED
  BY <1>1, ReplInvariant, PTL

\* The poll cursor is the acknowledgement (replica.rs sync_once): whatever was
\* skipped, superseded or repeated, a follower has the leader's writes below its
\* cursor, but for records whose removal is still to come.
THEOREM CursorsMeanHeld == Spec => []CursorMeansHeld
<1>1. ReplInv => CursorMeansHeld
  BY DEF ReplInv, OldTerm, OldInv, CursorMeansHeld, FirstTerm
<1>2. QED
  BY <1>1, ReplInvariant, PTL

\* A follower that holds through a later cursor holds through an earlier one.
LEMMA HoldsEarlier ==
  ASSUME NEW f \in Followers, NEW m \in Nat, NEW n \in Nat, n <= m, HoldsThrough(f, m)
  PROVE  HoldsThrough(f, n)
<1>1. \A k : k \in m..Len(feed) => k \in n..Len(feed)
  OBVIOUS
<1>2. QED
  BY <1>1 DEF HoldsThrough, Holds

\* Followers the leader knows to be past an end hold everything below it.
LEMMA ReachedHolds ==
  ASSUME ~FromZero, ReplInv, OldTerm, NEW end \in acked, NEW f \in Reached(end)
  PROVE  f \in Followers /\ end \in Nat /\ end <= cursor[f] /\ HoldsThrough(f, end)
<1>1. TypeOK /\ OldInv /\ f \in Followers /\ seen[f] >= end
  BY DEF ReplInv, Reached
<1>2. seen[f] \in Nat /\ cursor[f] \in Nat /\ seen[f] <= cursor[f] /\ end \in Nat
  BY <1>1, FollowerTypes DEF TypeOK, OldInv, AckInv
<1>3. end <= cursor[f] /\ HoldsThrough(f, cursor[f])
  BY <1>1, <1>2 DEF OldInv
<1>4. QED
  BY <1>1, <1>2, <1>3, HoldsEarlier

\* The leader acknowledges a quorum write on cursors it was told before (cluster.rs
\* await_quorum); for followers that restart from a persisted cursor a majority
\* holds the write from then on, as long as the leader's term lasts.
THEOREM AckedStaysHeld == ASSUME ~FromZero PROVE Spec => []AckedIsHeld
<1>1. ASSUME ReplInv, FirstTerm, NEW end \in acked
      PROVE  1 + Cardinality({f \in Followers : HoldsThrough(f, end)}) >= Quorum
  <2>1. OldTerm /\ 1 + Cardinality(Reached(end)) >= Quorum
    BY <1>1 DEF ReplInv, OldTerm, OldInv, AckInv, FirstTerm
  <2> DEFINE H == {f \in Followers : HoldsThrough(f, end)}
  <2>2. Reached(end) \subseteq H
    BY <1>1, <2>1, ReachedHolds
  <2>3. IsFiniteSet(H)
    BY FollowersRanked, FS_Subset
  <2>4. /\ Cardinality(Reached(end)) \in Nat /\ Cardinality(H) \in Nat
        /\ Cardinality(Reached(end)) <= Cardinality(H)
    BY <2>2, <2>3, FS_Subset, FS_CardinalityType
  <2>5. Quorum \in Nat
    BY FollowersRanked, FS_CardinalityType DEF Quorum
  <2> HIDE DEF H
  <2>6. 1 + Cardinality(H) >= Quorum
    BY <2>1, <2>4, <2>5
  <2>7. QED
    BY <2>6 DEF H
<1>2. ReplInv => AckedIsHeld
  BY <1>1 DEF AckedIsHeld
<1>3. QED
  BY <1>2, ReplInvariant, PTL

\* Killing the leader loses nothing it acknowledged but records about to be removed:
\* a quorum has a follower in it, and the winner's cursor is no lower than that
\* follower's (cluster.rs elect).
THEOREM ElectedIsComplete == ASSUME ~FromZero PROVE Spec => []ElectedHoldsAcked
<1>1. ASSUME ReplInv, leader # Nobody, ~up, NEW end \in acked PROVE HoldsThrough(leader, end)
  <2>1. OldTerm /\ OldInv /\ TypeOK /\ leader \in Followers /\ Wins(leader)
    BY <1>1 DEF ReplInv, OldTerm, OldInv, ElectedInv, TypeOK
  <2>2. PICK f \in Followers : f \in Reached(end)
    <3>1. 1 + Cardinality(Reached(end)) >= Quorum
      BY <2>1 DEF OldInv, AckInv
    <3>2. Cardinality(Followers) \in Nat /\ Cardinality(Followers) # 0
      BY <2>1, FollowersRanked, FS_CardinalityType, FS_EmptySet
    <3>3. Quorum \in Nat /\ Quorum >= 2
      BY <3>2 DEF Quorum
    <3>4. IsFiniteSet(Reached(end)) /\ Reached(end) \subseteq Followers
      BY FollowersRanked, FS_Subset DEF Reached
    <3>5. Cardinality(Reached(end)) \in Nat /\ Cardinality(Reached(end)) # 0
      BY <3>1, <3>3, <3>4, FS_CardinalityType
    <3>6. Reached(end) # {}
      BY <3>4, <3>5, FS_EmptySet
    <3>7. QED
      BY <3>4, <3>6
  <2>3. end \in Nat /\ end <= cursor[f]
    BY <1>1, <2>1, <2>2, ReachedHolds
  <2>4. cursor[f] \in Nat /\ cursor[leader] \in Nat /\ cursor[f] <= cursor[leader]
    BY <2>1, FollowerTypes DEF Wins
  <2>5. HoldsThrough(leader, cursor[leader])
    BY <2>1 DEF OldInv
  <2>6. QED
    BY <2>1, <2>3, <2>4, <2>5, HoldsEarlier
<1>2. ReplInv => ElectedHoldsAcked
  BY <1>1 DEF ElectedHoldsAcked
<1>3. QED
  BY <1>2, ReplInvariant, PTL

\* Replay converges (replica.rs sync_to_head): a follower with nothing left to read
\* mirrors the leader it first followed, and after a failover it has every record
\* the new leader has, although it started over on an estate of its own.
THEOREM ReplayConverges == Spec => []Convergent
<1>1. ASSUME ReplInv, NEW f \in Followers, CaughtUp(f), NEW id \in Ids,
             FirstTerm \/ docs[id] # Absent
      PROVE  fdocs[f][id] = docs[id]
  <2>1. TypeOK /\ up /\ cursor[f] = Len(feed) /\ Len(feed) \in Nat
    BY <1>1, FeedTypes DEF ReplInv, CaughtUp
  <2>2. CASE FirstTerm
    <3>1. OldInv /\ HistoryInv
      BY <1>1, <2>2 DEF ReplInv, OldTerm, FirstTerm, OldInv
    <3>2. ~RemovalAhead(f, id)
      BY <2>1 DEF RemovalAhead
    <3>3. Holds(f, id, Len(feed))
      BY <2>1, <3>1, <3>2 DEF OldInv, HoldsThrough
    <3>4. fdocs[f][id] = history[Len(feed) + 1][id]
      BY <2>1, <3>3 DEF Holds
    <3>5. QED
      BY <3>1, <3>4 DEF HistoryInv
  <2>3. CASE ~FirstTerm
    <3>1. NewInv /\ OwnFeedInv /\ leader \in Followers /\ docs[id] # Absent
      BY <1>1, <2>1, <2>3 DEF ReplInv, OldTerm, FirstTerm, TypeOK
    <3>2. CASE f = leader
      BY <3>1, <3>2 DEF NewInv
    <3>3. CASE f # leader
      <4>1. PICK k \in 1..Len(feed) : LastUpsert(feed, k, id)
        BY <3>1 DEF NewInv, OwnFeedInv
      <4>2. k <= cursor[f]
        BY <2>1
      <4>3. QED
        BY <3>1, <3>3, <4>1, <4>2 DEF NewInv
    <3>4. QED
      BY <3>2, <3>3
  <2>4. QED
    BY <2>2, <2>3
<1>2. ReplInv => Convergent
  BY <1>1 DEF Convergent
<1>3. QED
  BY <1>2, ReplInvariant, PTL
=============================================================================
