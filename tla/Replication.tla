---------------------------- MODULE Replication -----------------------------
(***************************************************************************)
(* Leader and followers of an RRO cluster.  A follower polls the leader's  *)
(* changefeed from its cursor and applies each entry to its own estate;    *)
(* the poll is also the acknowledgement the leader counts.  A write asked  *)
(* for with quorum durability is acknowledged once a majority is known to  *)
(* hold it.  When the leader dies the survivor with the highest cursor is  *)
(* elected, and the others start again from the new leader's feed.         *)
(*                                                                         *)
(*   crates/rro-engine/src/cluster.rs   majority, observe, holders,        *)
(*                                      await_quorum, elect                *)
(*   crates/rro-engine/src/replica.rs   sync_once, sync_to_head            *)
(*   crates/rro-engine/src/handler.rs   the replicate and tx verbs         *)
(*   crates/connxism/src/estate.rs      changes, replication_batch         *)
(*                                                                         *)
(* Abstractions.  A write is one upsert or one removal of a record, a      *)
(* record a member of Vals; a removal of an absent record leaves no feed   *)
(* row.  The polls of one follower are strictly sequential; a lost request *)
(* or reply is a poll that never returns entries and is simply repeated.   *)
(***************************************************************************)
EXTENDS Naturals, Sequences, FiniteSets, SequencesExt

CONSTANTS
    Followers,     \* follower ids, ordered by Rank for ties in an election
    Rank,
    Ids, Vals,     \* record ids and records
    Absent,        \* no record
    Nobody,        \* no leader elected yet
    Limit,         \* entries in one poll
    MaxWrites,     \* bound: leader writes
    MaxRestarts,   \* bound: follower restarts
    FromZero       \* does a restarted follower poll from 0 (Replica::new) rather
                   \* than from a persisted cursor (from_cursor)

ASSUME LimitsNat == Limit \in Nat \ {0} /\ MaxWrites \in Nat /\ MaxRestarts \in Nat
ASSUME FollowersRanked ==
    /\ IsFiniteSet(Followers)
    /\ \A f, g \in Followers : Rank[f] \in Nat /\ (Rank[f] = Rank[g] => f = g)
ASSUME FromZeroBoolean == FromZero \in BOOLEAN
ASSUME NothingElse == Nobody \notin Followers /\ Absent \notin Vals

VARIABLES
    docs,      \* the leader's records
    feed,      \* the leader's changefeed: [op, id] by sequence number
    history,   \* the leader's records after each prefix of the feed
    up,        \* is the leader serving
    seen,      \* Cluster.followers: the highest cursor each follower has reported
    committed, \* writes landed at the leader whose target is not read yet (end cursor)
    waiting,   \* writes in await_quorum: [end, target]
    acked,     \* end cursors of the writes acknowledged as quorum durable
    fdocs,     \* each follower's records
    ffeed,     \* each follower's own changefeed
    cursor,    \* each follower's next wanted sequence number
    rows,      \* feed rows its poll has read, not resolved to records yet
    inbox,     \* entries received and not applied: [seq, op, id, rec]
    leader,    \* the elected follower, or Nobody
    restarts   \* follower restarts so far

leaderVars == <<docs, feed, history, up>>
quorumVars == <<seen, committed, waiting, acked>>
followerVars == <<fdocs, ffeed, cursor, rows, inbox>>
vars == <<leaderVars, quorumVars, followerVars, leader, restarts>>

Slot == Vals \cup {Absent}
OpOf(val) == IF val = Absent THEN "remove" ELSE "upsert"
Row == [op : {"upsert", "remove"}, id : Ids]
Empty == [id \in Ids |-> Absent]

\* Cluster::majority of the leader and its followers.
Quorum == ((Cardinality(Followers) + 1) \div 2) + 1

\* Mutant: a follower that asks for the write counts as holding it.
IsCommittedEarly(target) == 1 + Cardinality({f \in Followers : seen[f] + 1 >= target}) >= Quorum

\* Mutant: a follower that asks for the next write does not count.
IsCommittedLate(target) == 1 + Cardinality({f \in Followers : seen[f] > target}) >= Quorum

\* Cluster::holders and is_committed: the leader holds every write.
IsCommitted(target) == 1 + Cardinality({f \in Followers : seen[f] >= target}) >= Quorum

-----------------------------------------------------------------------------
Init ==
    /\ docs = Empty /\ feed = <<>> /\ history = <<Empty>> /\ up = TRUE
    /\ seen = [f \in Followers |-> 0]
    /\ committed = {} /\ waiting = {} /\ acked = {}
    /\ fdocs = [f \in Followers |-> Empty]
    /\ ffeed = [f \in Followers |-> <<>>]
    /\ cursor = [f \in Followers |-> 0]
    /\ rows = [f \in Followers |-> <<>>]
    /\ inbox = [f \in Followers |-> <<>>]
    /\ leader = Nobody
    /\ restarts = 0

-----------------------------------------------------------------------------
(* The leader: the tx verb.                                                *)

\* The transaction lands.
LeaderWrite ==
    /\ up
    /\ Len(feed) < MaxWrites
    /\ \E id \in Ids, val \in Slot :
          /\ val # Absent \/ docs[id] # Absent
          /\ docs' = [docs EXCEPT ![id] = val]
          /\ feed' = Append(feed, [op |-> OpOf(val), id |-> id])
          /\ history' = Append(history, docs')
    /\ committed' = committed \cup {Len(feed) + 1}
    /\ UNCHANGED <<up, seen, waiting, acked, followerVars, leader, restarts>>

\* Read the target (the feed may have moved on) and start to wait.
AwaitQuorum ==
    /\ up
    /\ \E end \in committed :
          /\ committed' = committed \ {end}
          /\ waiting' = waiting \cup {[end |-> end, target |-> Len(feed)]}
    /\ UNCHANGED <<leaderVars, seen, acked, followerVars, leader, restarts>>

\* The quorum is there: acknowledge.
Acknowledge ==
    /\ up
    /\ \E w \in waiting :
          /\ IsCommitted(w.target)
          /\ waiting' = waiting \ {w}
          /\ acked' = acked \cup {w.end}
    /\ UNCHANGED <<leaderVars, seen, committed, followerVars, leader, restarts>>

\* The wait times out: the client is told the write is only local.
Timeout ==
    /\ up
    /\ \E w \in waiting : ~IsCommitted(w.target) /\ waiting' = waiting \ {w}
    /\ UNCHANGED <<leaderVars, seen, committed, acked, followerVars, leader, restarts>>

\* The leader dies, with every wait and every poll it was serving.
LeaderCrash ==
    /\ up
    /\ up' = FALSE
    /\ committed' = {} /\ waiting' = {}
    /\ rows' = [f \in Followers |-> <<>>]
    /\ UNCHANGED <<docs, feed, history, seen, acked, fdocs, ffeed, cursor, inbox, leader, restarts>>

-----------------------------------------------------------------------------
(* The followers.                                                          *)

\* The replicate verb: observe the cursor, then read the feed rows from it.
Poll(f) ==
    /\ up
    /\ rows[f] = <<>> /\ inbox[f] = <<>>
    /\ seen' = [seen EXCEPT ![f] = IF cursor[f] > @ THEN cursor[f] ELSE @]
    /\ rows' = [rows EXCEPT ![f] =
                  LET last == IF cursor[f] + Limit < Len(feed) THEN cursor[f] + Limit ELSE Len(feed)
                  IN  [i \in 1..(last - cursor[f]) |->
                         [seq |-> cursor[f] + i - 1, op |-> feed[cursor[f] + i].op, id |-> feed[cursor[f] + i].id]]]
    /\ UNCHANGED <<leaderVars, committed, waiting, acked, fdocs, ffeed, cursor, inbox, leader, restarts>>

\* replication_batch: each upsert row is resolved to the record as it is now,
\* which may be gone.
Resolve(f) ==
    /\ up
    /\ rows[f] # <<>>
    /\ inbox' = [inbox EXCEPT ![f] =
                   [i \in DOMAIN rows[f] |->
                      [seq |-> rows[f][i].seq, op |-> rows[f][i].op, id |-> rows[f][i].id,
                       rec |-> IF rows[f][i].op = "upsert" THEN docs[rows[f][i].id] ELSE Absent]]]
    /\ rows' = [rows EXCEPT ![f] = <<>>]
    /\ UNCHANGED <<leaderVars, quorumVars, fdocs, ffeed, cursor, leader, restarts>>

\* Mutant: the cursor moves past the batch with its first entry.
CursorAfterBatch(f, e) == e.seq + Len(inbox[f])

\* Mutant: the cursor stays at the entry just applied.
CursorAfterStays(f, e) == e.seq

\* The next wanted sequence number.
CursorAfter(f, e) == e.seq + 1

\* Mutant: removals are not applied.
SkipsRemovals(f, e) == e.rec = Absent

\* An upsert without a record, or the removal of an absent one.
Skips(f, e) == IF e.op = "upsert" THEN e.rec = Absent ELSE fdocs[f][e.id] = Absent

\* sync_once applies the next entry to the follower's estate.  An upsert without
\* a record is skipped, the removal of an absent record does nothing, and either
\* way the cursor moves past the entry.
ApplyEntry(f) ==
    /\ inbox[f] # <<>>
    /\ LET e == Head(inbox[f])
       IN  /\ fdocs' = IF Skips(f, e) THEN fdocs ELSE [fdocs EXCEPT ![f][e.id] = e.rec]
           /\ ffeed' = IF Skips(f, e) THEN ffeed ELSE [ffeed EXCEPT ![f] = Append(@, [op |-> e.op, id |-> e.id])]
           /\ cursor' = [cursor EXCEPT ![f] = CursorAfter(f, e)]
    /\ inbox' = [inbox EXCEPT ![f] = Tail(@)]
    /\ UNCHANGED <<leaderVars, quorumVars, rows, leader, restarts>>

\* A follower process restarts: its estate is durable, what it had received is
\* not, and its cursor is 0 or what it had persisted.
Restart(f) ==
    /\ restarts < MaxRestarts
    /\ restarts' = restarts + 1
    /\ rows' = [rows EXCEPT ![f] = <<>>]
    /\ inbox' = [inbox EXCEPT ![f] = <<>>]
    /\ cursor' = IF FromZero THEN [cursor EXCEPT ![f] = 0] ELSE cursor
    /\ UNCHANGED <<leaderVars, quorumVars, fdocs, ffeed, leader>>

-----------------------------------------------------------------------------
(* Failover.                                                               *)

\* Mutant: the lowest cursor wins.
WinsLowest(f) ==
    \A g \in Followers : cursor[g] > cursor[f] \/ (cursor[g] = cursor[f] /\ Rank[g] <= Rank[f])

\* elect: the highest cursor wins, then the highest id.
Wins(f) ==
    \A g \in Followers : cursor[g] < cursor[f] \/ (cursor[g] = cursor[f] /\ Rank[g] <= Rank[f])

\* The survivors' cursors are read between syncs: what had arrived is applied.
Elect ==
    /\ ~up
    /\ leader = Nobody
    /\ \A f \in Followers : inbox[f] = <<>>
    /\ leader' \in {f \in Followers : Wins(f)}
    /\ UNCHANGED <<leaderVars, quorumVars, followerVars, restarts>>

\* The elected survivor serves its own estate and feed; the other survivors
\* follow it from the beginning of that feed, on the records they already hold.
Promote ==
    /\ ~up
    /\ leader # Nobody
    /\ up' = TRUE
    /\ docs' = fdocs[leader]
    /\ feed' = ffeed[leader]
    /\ history' = <<fdocs[leader]>>
    /\ seen' = [f \in Followers |-> 0]
    /\ acked' = {}
    /\ cursor' = [f \in Followers |-> IF f = leader THEN Len(ffeed[f]) ELSE 0]
    /\ rows' = [f \in Followers |-> <<>>]
    /\ inbox' = [f \in Followers |-> <<>>]
    /\ UNCHANGED <<committed, waiting, fdocs, ffeed, leader, restarts>>

-----------------------------------------------------------------------------
FirstTerm == leader = Nobody

Follow(f) == Poll(f) \/ Resolve(f) \/ ApplyEntry(f)

Next ==
    \/ (FirstTerm /\ (LeaderWrite \/ AwaitQuorum \/ Acknowledge \/ Timeout \/ LeaderCrash))
    \/ \E f \in Followers \ {leader} : Follow(f) \/ (FirstTerm /\ Restart(f))
    \/ Elect
    \/ Promote

Spec == Init /\ [][Next]_vars

\* A serving leader answers polls, followers keep polling and applying, and a
\* waiter that sees its quorum returns.  No timer is assumed to fire.
Fairness ==
    /\ WF_vars(AwaitQuorum) /\ WF_vars(Acknowledge)
    /\ \A f \in Followers : WF_vars(f # leader /\ Follow(f))

FairSpec == Spec /\ Fairness

-----------------------------------------------------------------------------
PolledRow == [seq : Nat, op : {"upsert", "remove"}, id : Ids]
Entry == [seq : Nat, op : {"upsert", "remove"}, id : Ids, rec : Slot]

TypeOK ==
    /\ docs \in [Ids -> Slot] /\ feed \in Seq(Row) /\ history \in Seq([Ids -> Slot])
    /\ up \in BOOLEAN
    /\ seen \in [Followers -> 0..Len(feed)] /\ cursor \in [Followers -> 0..Len(feed)]
    /\ committed \subseteq Nat /\ acked \subseteq Nat
    /\ waiting \subseteq [end : Nat, target : Nat]
    /\ fdocs \in [Followers -> [Ids -> Slot]] /\ ffeed \in [Followers -> Seq(Row)]
    /\ rows \in [Followers -> Seq(PolledRow)]
    /\ inbox \in [Followers -> Seq(Entry)]
    /\ leader \in Followers \cup {Nobody}

\* A record is what the leader had after n writes or later.
Holds(f, id, n) == \E k \in n..Len(feed) : fdocs[f][id] = history[k + 1][id]

\* The leader's feed removes the record past the follower's cursor.
RemovalAhead(f, id) == \E k \in (cursor[f] + 1)..Len(feed) : feed[k] = [op |-> "remove", id |-> id]

\* The leader's writes below n have reached the follower, but for records whose
\* removal is still to come: their superseded upserts are skipped.
HoldsThrough(f, n) == \A id \in Ids : Holds(f, id, n) \/ RemovalAhead(f, id)

\* The poll cursor is the acknowledgement: a follower that asks for entries from
\* its cursor has everything below it, although it skips superseded upserts and
\* may hold records newer than its cursor (replica.rs sync_once).
CursorMeansHeld == FirstTerm => \A f \in Followers : HoldsThrough(f, cursor[f])

\* The leader never acknowledges a write a quorum does not hold (cluster.rs):
\* whatever is polled, applied or restarted later, a majority keeps it.
AckedIsHeld ==
    FirstTerm => \A end \in acked :
                    1 + Cardinality({f \in Followers : HoldsThrough(f, end)}) >= Quorum

\* Killing the leader loses no acknowledged write of a record that was not about
\* to be removed: the elected survivor has every one of them (elect).
ElectedHoldsAcked == (leader # Nobody /\ ~up) => \A end \in acked : HoldsThrough(leader, end)

\* The same without the exception: no acknowledged write is lost.
NoAckedWriteLost ==
    (leader # Nobody /\ ~up) => \A end \in acked, id \in Ids : Holds(leader, id, end)

\* A follower that has applied everything the serving leader has to offer.
CaughtUp(f) == up /\ cursor[f] = Len(feed) /\ rows[f] = <<>> /\ inbox[f] = <<>>

\* Replaying the feed is convergent, whatever was skipped, repeated or superseded
\* on the way: a caught-up follower mirrors the leader it first followed, and
\* after a failover it has every record the new leader has.
Convergent ==
    \A f \in Followers : CaughtUp(f) =>
        \A id \in Ids : FirstTerm \/ docs[id] # Absent => fdocs[f][id] = docs[id]

\* Unless the leader dies, every follower catches up with it.
CatchesUp == \A f \in Followers : <>[](~up \/ leader # Nobody \/ CaughtUp(f))

\* Every quorum write gets its answer, by its followers' progress alone, unless
\* the leader dies.
WaitsEnd == (committed # {} \/ waiting # {}) ~> (committed = {} /\ waiting = {})
=============================================================================
