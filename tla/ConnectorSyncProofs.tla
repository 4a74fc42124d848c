------------------------ MODULE ConnectorSyncProofs -------------------------
(***************************************************************************)
(* Proofs about ConnectorSync, for every set of passes, batch size, bound  *)
(* and choice of blocked documents, for a source that is only appended to. *)
(*                                                                         *)
(*   SyncInvariant     the inductive invariant SyncInv                     *)
(*   CursorLeavesNoGap NoGaps                                              *)
(*   PassesComplete    PassIsComplete                                      *)
(*                                                                         *)
(* The invariant follows one batch through a pass: the cursor of every     *)
(* running pass is safe to resume from, the batch in hand reaches from     *)
(* there to the next cursor, and what of it has left the work list is      *)
(* durable, related and tagged.                                            *)
(***************************************************************************)
EXTENDS ConnectorSync, OrderLemmas

\* An append-only source is a prefix of the positions.
Prefix == source = 1..Cardinality(source)

\* A cursor that a pass may resume from without missing anything, now or later:
\* no document can still appear below it.
Safe(c) == 1..c \subseteq source /\ Complete(1..c)
CursorInv(p) == Running(p) => Safe(pass[p].cursor)

\* The batch in hand covers what lies between the cursor and the next one, or, when
\* there is no next one, everything the pull saw.
Reach(p) == IF pass[p].next = None THEN pass[p].seen ELSE 1..pass[p].next
BatchInv(p) ==
    pass[p].at \in {"upsert", "relate", "tag", "save"} =>
        /\ 1..pass[p].next \subseteq source
        /\ Reach(p) \ Blocked \subseteq (1..pass[p].cursor) \cup pass[p].kept

\* The batch is on the work list from the upsert to the save, and what has left the
\* list is mapped.
MapInv(p) ==
    /\ pass[p].at \in {"relate", "tag", "save"} =>
          pass[p].kept \subseteq docs /\ pass[p].kept \ pass[p].todo \subseteq related \cap tagged
    /\ pass[p].at = "upsert" => pass[p].kept # {}
    /\ pass[p].at = "tag" => Min(pass[p].todo) \in related
    /\ pass[p].at \in {"pull", "save"} => pass[p].todo = {}

\* A pass that came to the end of its loop left nothing behind.
DoneInv(p) == pass[p].at \in {"finish", "done"} => Complete(pass[p].seen)

PassInv(p) == CursorInv(p) /\ BatchInv(p) /\ MapInv(p) /\ DoneInv(p)

SyncInv ==
    /\ TypeOK
    /\ Prefix
    /\ Safe(saved.cursor)
    /\ \A p \in Passes : PassInv(p)

-----------------------------------------------------------------------------
(* The batch a driver returns.                                             *)

\* The least element of a set of documents that is not empty is one of them.
LEMMA MinIsMember ==
  ASSUME NEW S, S \subseteq 1..MaxDocs, S # {}
  PROVE  Min(S) \in S
<1>1. S \subseteq Nat
  BY SizesNat
<1>2. PICK n \in S : \A y \in S : n <= y
  BY <1>1, LeastNumber
<1>3. QED
  BY <1>2 DEF Min

\* The greatest element of an interval is its upper end.
LEMMA MaxOfInterval ==
  ASSUME NEW a \in Nat, NEW b \in Nat, a <= b
  PROVE  Max(a..b) = b
<1>1. b \in a..b /\ \A y \in a..b : b >= y
  OBVIOUS
<1>2. \A x \in a..b : (\A y \in a..b : x >= y) => x = b
  OBVIOUS
<1>3. QED
  BY <1>1, <1>2 DEF Max

\* Of a source that is a prefix the driver returns the batch_size documents after
\* the cursor, or all of them when there are fewer.
LEMMA BatchIsInterval ==
  ASSUME NEW n \in Nat, source = 1..n, NEW c \in 0..n
  PROVE  BatchAfter(c) = (c+1)..(IF n < c + BatchSize THEN n ELSE c + BatchSize)
<1> DEFINE ds == {d \in source : d > c}
<1>1. ds = (c+1)..n
  OBVIOUS
<1>2. ASSUME NEW d \in ds PROVE Cardinality({e \in ds : e < d}) = d - 1 - c
  <2>1. d \in (c+1)..n
    BY <1>1
  <2>2. {e \in ds : e < d} = (c+1)..(d-1)
    BY <1>1, <2>1
  <2>3. QED
    <3>1. c + 1 \in Int /\ d - 1 \in Int
      BY <2>1
    <3>2. Cardinality((c+1)..(d-1)) = IF c + 1 > d - 1 THEN 0 ELSE d - 1 - (c + 1) + 1
      BY <3>1, FS_Interval
    <3>3. Cardinality((c+1)..(d-1)) = d - 1 - c
      BY <2>1, <3>2
    <3>4. QED
      BY <2>2, <3>3, Zenon
<1>3. BatchAfter(c) = {d \in ds : d - 1 - c < BatchSize}
  BY <1>2 DEF BatchAfter, FirstOf
<1>4. BatchSize \in Nat
  BY SizesNat
<1>5. QED
  BY <1>1, <1>3, <1>4

\* The next cursor is the last document of a full batch; there is none after a
\* batch that took what was left.
LEMMA NextIsLast ==
  ASSUME NEW n \in Nat, source = 1..n, NEW c \in 0..n
  PROVE  NextCursor(BatchAfter(c)) = IF n < c + BatchSize THEN None ELSE c + BatchSize
<1> DEFINE m == IF n < c + BatchSize THEN n ELSE c + BatchSize
<1>1. BatchSize \in Nat /\ BatchSize > 0 /\ m \in Nat /\ c <= m
  BY SizesNat
<1>2. BatchAfter(c) = (c+1)..m
  BY BatchIsInterval
<1>3. Cardinality((c+1)..m) = m - c
  <2>1. c + 1 \in Int /\ m \in Int
    BY <1>1
  <2>2. Cardinality((c+1)..m) = IF c + 1 > m THEN 0 ELSE m - (c + 1) + 1
    BY <2>1, FS_Interval
  <2>3. QED
    BY <1>1, <2>2
<1>4. CASE n < c + BatchSize
  BY <1>1, <1>2, <1>3, <1>4 DEF NextCursor
<1>5. CASE ~(n < c + BatchSize)
  <2>1. Max((c+1)..m) = m
    BY <1>1, <1>5, MaxOfInterval
  <2>2. QED
    BY <1>1, <1>2, <1>3, <1>5, <2>1 DEF NextCursor
<1>6. QED
  BY <1>4, <1>5

-----------------------------------------------------------------------------
(* The invariant.                                                          *)

\* What a pass that takes no part in a step knows stays true when the source and
\* the store only grow.
LEMMA Frame ==
  ASSUME NEW p \in Passes, PassInv(p), pass'[p] = pass[p],
         source \subseteq source', docs \subseteq docs',
         related \subseteq related', tagged \subseteq tagged'
  PROVE  PassInv(p)'
<1>1. CursorInv(p)'
  BY DEF PassInv, CursorInv, Running, Safe, Complete
<1>2. BatchInv(p)'
  BY DEF PassInv, BatchInv, Reach
<1>3. MapInv(p)'
  BY DEF PassInv, MapInv
<1>4. DoneInv(p)'
  BY DEF PassInv, DoneInv, Complete
<1>5. QED
  BY <1>1, <1>2, <1>3, <1>4 DEF PassInv

\* The source is finite.
LEMMA PrefixIsFinite ==
  ASSUME TypeOK PROVE IsFiniteSet(source) /\ Cardinality(source) \in Nat
<1>1. IsFiniteSet(1..MaxDocs)
  BY SizesNat, FS_Interval
<1>2. IsFiniteSet(source)
  BY <1>1, FS_Subset DEF TypeOK
<1>3. QED
  BY <1>2, FS_CardinalityType

\* Before the first pass there is nothing to miss.
LEMMA InitInv == Init => SyncInv
<1> SUFFICES ASSUME Init PROVE SyncInv
  OBVIOUS
<1>1. TypeOK
  BY SizesNat DEF Init, TypeOK, PassStates, Cursors, None, Statuses, Steps
<1>2. Prefix
  BY FS_EmptySet DEF Init, Prefix
<1>3. Safe(saved.cursor)
  BY DEF Init, None, Safe, Complete
<1>4. ASSUME NEW p \in Passes PROVE PassInv(p)
  BY DEF Init, PassInv, CursorInv, BatchInv, MapInv, DoneInv, Running
<1>5. QED
  BY <1>1, <1>2, <1>3, <1>4 DEF SyncInv

\* An appended document leaves the source a prefix, and lies above every cursor.
LEMMA GrowInv == ASSUME SyncInv, ~OutOfOrder, Grow PROVE SyncInv'
<1>1. PICK d \in (1..MaxDocs) \ source :
        d = Cardinality(source) + 1 /\ source' = source \cup {d}
  BY DEF Grow
<1>2. TypeOK'
  BY <1>1 DEF SyncInv, TypeOK, Grow, store
<1>3. Prefix'
  <2> DEFINE n == Cardinality(source)
  <2> HIDE DEF n
  <2>1. IsFiniteSet(source)
    BY PrefixIsFinite DEF SyncInv
  <2>2. n \in Nat
    BY PrefixIsFinite DEF SyncInv, n
  <2>3. source = 1..n
    BY DEF SyncInv, Prefix, n
  <2>4. source' = 1..(n+1)
    BY <1>1, <2>2, <2>3 DEF n
  <2>5. Cardinality(source') = n + 1
    BY <1>1, <2>1, FS_AddElement DEF n
  <2>6. QED
    BY <2>4, <2>5 DEF Prefix
<1>4. source \subseteq source' /\ UNCHANGED <<docs, related, tagged, saved, pass>>
  BY <1>1 DEF Grow, store
<1>5. Safe(saved.cursor)'
  BY <1>4 DEF SyncInv, Safe, Complete
<1>6. \A p \in Passes : PassInv(p)'
  BY <1>4, Frame DEF SyncInv
<1>7. QED
  BY <1>2, <1>3, <1>5, <1>6 DEF SyncInv

\* A step of a pass: what is left to show is that its new local state keeps the
\* invariant, that the store only grew and that the saved cursor is safe.
LEMMA PassStep ==
  ASSUME SyncInv, NEW p \in Passes, NEW r \in PassStates,
         pass' = [pass EXCEPT ![p] = r],
         source' = source, runs' \in 0..MaxRuns,
         docs \subseteq docs', related \subseteq related', tagged \subseteq tagged',
         docs' \subseteq source, related' \subseteq docs', tagged' \subseteq related',
         saved' \in [cursor : Cursors, status : Statuses], Safe(saved.cursor)',
         r.kept \subseteq source \ Blocked, r.todo \subseteq r.kept,
         r.at \in {"relate", "tag"} => r.todo # {},
         pass'[p] = r => PassInv(p)'
  PROVE  SyncInv'
<1>1. pass'[p] = r /\ \A q \in Passes : q # p => pass'[q] = pass[q]
  BY DEF SyncInv, TypeOK
<1>2. pass' \in [Passes -> PassStates]
  BY DEF SyncInv, TypeOK
<1>3. TypeOK'
  BY <1>1, <1>2 DEF SyncInv, TypeOK
<1>4. Prefix'
  BY DEF SyncInv, Prefix
<1>5. ASSUME NEW q \in Passes PROVE PassInv(q)'
  <2>1. CASE q = p
    BY <1>1, <2>1
  <2>2. CASE q # p
    BY <1>1, <2>2, Frame DEF SyncInv
  <2>3. QED
    BY <2>1, <2>2
<1>6. QED
  BY <1>3, <1>4, <1>5 DEF SyncInv

\* A pass starts from the saved cursor, which is safe.
LEMMA StartInv == ASSUME SyncInv, NEW p \in Passes, Start(p) PROVE SyncInv'
<1> DEFINE r == [at |-> "pull", cursor |-> saved.cursor, next |-> None,
                 kept |-> {}, todo |-> {}, seen |-> {}]
<1>1. r \in PassStates
  BY SizesNat DEF SyncInv, TypeOK, PassStates, Steps, Cursors, None
<1>2. /\ UNCHANGED <<source, docs, related, tagged>>
      /\ pass' = [pass EXCEPT ![p] = r]
      /\ saved' \in [cursor : Cursors, status : Statuses] /\ saved'.cursor = saved.cursor
      /\ runs' \in 0..MaxRuns
  BY SizesNat DEF Start, store, SyncInv, TypeOK, Statuses
<1>3. Safe(saved.cursor)'
  BY <1>2 DEF SyncInv, Safe, Complete
<1>4. pass'[p] = r => PassInv(p)'
  BY <1>2 DEF SyncInv, PassInv, CursorInv, BatchInv, MapInv, DoneInv, Safe, Complete, Running
<1>5. QED
  BY <1>1, <1>2, <1>3, <1>4, PassStep DEF SyncInv, TypeOK

\* A pull takes the documents after the cursor; what it finds blocked, and what lies
\* beyond a drained source, needs no further step.
LEMMA PullInv == ASSUME SyncInv, NEW p \in Passes, Pull(p) PROVE SyncInv'
<1> DEFINE n == Cardinality(source)
           c == pass[p].cursor
           batch == BatchAfter(c)
           next == NextCursor(batch)
           m == IF n < c + BatchSize THEN n ELSE c + BatchSize
<1>1. n \in Nat /\ source = 1..n /\ BatchSize \in Nat \ {0}
  BY PrefixIsFinite, SizesNat DEF SyncInv, Prefix
<1>2. Safe(c) /\ pass[p] \in PassStates /\ pass[p].at = "pull" /\ pass[p].todo = {}
  BY DEF SyncInv, PassInv, CursorInv, MapInv, Running, Pull, TypeOK
<1>3. c \in 0..n
  <2>1. c \in Nat
    BY <1>2, SizesNat DEF PassStates, Cursors
  <2>2. c = 0 \/ c \in 1..n
    BY <1>1, <1>2, <2>1 DEF Safe
  <2>3. QED
    BY <1>1, <2>1, <2>2
<1>4. batch = (c+1)..m
  BY <1>1, <1>3, BatchIsInterval
<1>5. next = IF n < c + BatchSize THEN None ELSE c + BatchSize
  BY <1>1, <1>3, NextIsLast
<1> HIDE DEF n, c, batch, next
<1>6. batch \subseteq source /\ m \in 0..n
  BY <1>1, <1>3, <1>4
<1>7. /\ next \in 0..n /\ 1..next \subseteq source
      /\ next = None => batch = source \ (1..c)
      /\ next # None => batch = (1..next) \ (1..c)
  BY <1>1, <1>3, <1>4, <1>5 DEF None
<1>8. n <= MaxDocs
  BY <1>1, SizesNat DEF SyncInv, TypeOK
<1>9. next \in Cursors /\ source \subseteq 1..MaxDocs
  BY <1>7, <1>8, <1>1, SizesNat DEF Cursors, SyncInv, TypeOK
<1>10. UNCHANGED <<source, docs, related, tagged, saved, runs>>
  BY DEF Pull, store
<1>11. Safe(saved.cursor)'
  BY <1>10 DEF SyncInv, Safe, Complete
<1>12. CASE batch = {}
  <2> DEFINE r == [pass[p] EXCEPT !.seen = source, !.at = "finish"]
  <2>1. r \in PassStates
    BY <1>2, <1>9 DEF PassStates, Steps
  <2>2. pass' = [pass EXCEPT ![p] = r]
    BY <1>12 DEF Pull, batch, c, SyncInv, TypeOK
  <2>3. Complete(source)
    BY <1>2, <1>4, <1>12, <1>1, <1>3, <1>7 DEF Safe, Complete
  <2>4. pass'[p] = r => PassInv(p)'
    BY <1>2, <1>10, <2>3 DEF PassStates, PassInv, CursorInv, BatchInv, MapInv, DoneInv,
                             Safe, Complete, Running, c
  <2>5. QED
    BY <1>2, <1>10, <1>11, <2>1, <2>2, <2>4, PassStep DEF SyncInv, TypeOK, PassStates
<1>13. CASE batch # {} /\ Kept(batch) = {}
  <2> DEFINE r == AllBlocked(p, next)
  <2>1. r \in PassStates
    BY <1>2, <1>9 DEF PassStates, Steps, AllBlocked
  <2>2. pass' = [pass EXCEPT ![p] = r]
    BY <1>13 DEF Pull, batch, c, next, SyncInv, TypeOK
  <2>3. Safe(next) /\ (next = None => Complete(source))
    BY <1>2, <1>13, <1>1, <1>3, <1>7 DEF Safe, Complete, Kept, None
  <2>4. pass'[p] = r => PassInv(p)'
    BY <1>2, <1>10, <2>3 DEF PassStates, PassInv, CursorInv, BatchInv, MapInv, DoneInv,
                             Safe, Complete, Running, AllBlocked
  <2>5. QED
    BY <1>2, <1>10, <1>11, <2>1, <2>2, <2>4, PassStep DEF SyncInv, TypeOK, PassStates, AllBlocked
<1>14. CASE batch # {} /\ Kept(batch) # {}
  <2> DEFINE r == [pass[p] EXCEPT !.seen = source, !.next = next, !.kept = Kept(batch),
                                  !.at = "upsert"]
  <2>1. r \in PassStates
    BY <1>2, <1>6, <1>9 DEF PassStates, Steps, Kept
  <2>2. pass' = [pass EXCEPT ![p] = r]
    BY <1>14 DEF Pull, batch, c, next, SyncInv, TypeOK
  <2>3. pass'[p] = r => PassInv(p)'
    BY <1>2, <1>7, <1>10, <1>14 DEF PassStates, PassInv, CursorInv, BatchInv, MapInv, DoneInv, Reach,
                             Safe, Complete, Running, Kept, c
  <2>4. QED
    BY <1>2, <1>6, <1>10, <1>11, <2>1, <2>2, <2>3, PassStep DEF SyncInv, TypeOK, PassStates, Kept
<1>15. QED
  BY <1>12, <1>13, <1>14

\* The upsert makes the whole batch durable and puts it on the work list.
LEMMA UpsertInv == ASSUME SyncInv, NEW p \in Passes, Upsert(p) PROVE SyncInv'
<1> DEFINE r == [pass[p] EXCEPT !.at = "relate", !.todo = pass[p].kept]
<1>1. pass[p] \in PassStates /\ pass[p].at = "upsert"
  BY DEF SyncInv, TypeOK, Upsert
<1>2. r \in PassStates
  BY <1>1 DEF PassStates, Steps
<1>3. pass' = [pass EXCEPT ![p] = r]
  BY DEF Upsert, SyncInv, TypeOK
<1>4. /\ UNCHANGED <<source, related, tagged, saved, runs>>
      /\ docs' = docs \cup pass[p].kept /\ pass[p].kept \subseteq source \ Blocked
  BY DEF Upsert, SyncInv, TypeOK
<1>5. Safe(saved.cursor)'
  BY <1>4 DEF SyncInv, Safe, Complete
<1>6. pass[p].kept # {}
  BY <1>1 DEF SyncInv, PassInv, MapInv
<1>7. pass'[p] = r => PassInv(p)'
  BY <1>1, <1>4 DEF SyncInv, PassStates, PassInv, CursorInv, BatchInv, MapInv, DoneInv, Reach,
                    Safe, Complete, Running
<1>8. QED
  BY <1>1, <1>2, <1>3, <1>4, <1>5, <1>6, <1>7, PassStep DEF SyncInv, TypeOK, PassStates

\* The edge of the least document on the work list.
LEMMA RelateInv == ASSUME SyncInv, NEW p \in Passes, Relate(p) PROVE SyncInv'
<1> DEFINE r == [pass[p] EXCEPT !.at = "tag"]
           d == Min(pass[p].todo)
<1>1. pass[p] \in PassStates /\ pass[p].at = "relate" /\ pass[p].todo # {}
  BY DEF SyncInv, TypeOK, Relate
<1>2. r \in PassStates
  BY <1>1 DEF PassStates, Steps
<1>3. pass' = [pass EXCEPT ![p] = r]
  BY DEF Relate, SyncInv, TypeOK
<1>4. d \in pass[p].todo
  BY <1>1, MinIsMember DEF PassStates
<1>5. d \in docs
  BY <1>1, <1>4 DEF SyncInv, TypeOK, PassInv, MapInv
<1>6. UNCHANGED <<source, docs, tagged, saved, runs>> /\ related' = related \cup {d}
  BY DEF Relate
<1> HIDE DEF d
<1>7. Safe(saved.cursor)'
  BY <1>6 DEF SyncInv, Safe, Complete
<1>8. pass'[p] = r => PassInv(p)'
  BY <1>1, <1>6 DEF SyncInv, PassStates, PassInv, CursorInv, BatchInv, MapInv, DoneInv, Reach,
                    Safe, Complete, Running, d
<1>9. QED
  BY <1>1, <1>2, <1>3, <1>5, <1>6, <1>7, <1>8, PassStep DEF SyncInv, TypeOK, PassStates

\* Its tags; the document leaves the work list with its edge and its tags in place.
LEMMA TagInv == ASSUME SyncInv, NEW p \in Passes, Tag(p) PROVE SyncInv'
<1> DEFINE d == Min(pass[p].todo)
           r == [pass[p] EXCEPT !.todo = LeftToMap(p),
                                !.at = IF LeftToMap(p) = {} THEN "save" ELSE "relate"]
<1>1. pass[p] \in PassStates /\ pass[p].at = "tag" /\ pass[p].todo # {}
  BY DEF SyncInv, TypeOK, Tag
<1>2. LeftToMap(p) = pass[p].todo \ {d}
  BY DEF LeftToMap
<1>3. r \in PassStates
  BY <1>1, <1>2 DEF PassStates, Steps
<1>4. pass' = [pass EXCEPT ![p] = r]
  BY DEF Tag, SyncInv, TypeOK
<1>5. d \in related
  BY <1>1 DEF SyncInv, PassInv, MapInv
<1>6. UNCHANGED <<source, docs, related, saved, runs>> /\ tagged' = tagged \cup {d}
  BY DEF Tag
<1> HIDE DEF d
<1>7. Safe(saved.cursor)'
  BY <1>6 DEF SyncInv, Safe, Complete
<1>8. pass'[p] = r => PassInv(p)'
  BY <1>1, <1>2, <1>5, <1>6 DEF SyncInv, PassStates, PassInv, CursorInv, BatchInv, MapInv, DoneInv,
                    Reach, Safe, Complete, Running
<1>9. QED
  BY <1>1, <1>2, <1>3, <1>4, <1>5, <1>6, <1>7, <1>8, PassStep DEF SyncInv, TypeOK, PassStates

\* The cursor is saved when all of the batch is mapped, so it is safe.
LEMMA SaveInv == ASSUME SyncInv, NEW p \in Passes, SaveCursor(p) PROVE SyncInv'
<1> DEFINE next == pass[p].next
           r == [pass[p] EXCEPT !.cursor = next, !.at = IF next = None THEN "finish" ELSE "pull"]
<1>1. pass[p] \in PassStates /\ pass[p].at = "save"
  BY DEF SyncInv, TypeOK, SaveCursor
<1>2. r \in PassStates
  BY <1>1 DEF PassStates, Steps
<1>3. pass' = [pass EXCEPT ![p] = r]
  BY DEF SaveCursor, SyncInv, TypeOK
<1>4. UNCHANGED <<source, docs, related, tagged, runs>>
      /\ saved' = [cursor |-> next, status |-> "syncing"]
  BY DEF SaveCursor, store
<1>5. Complete(Reach(p))
  <2>1. pass[p].kept \subseteq docs \cap related \cap tagged
    BY <1>1 DEF SyncInv, PassInv, MapInv
  <2>2. /\ Complete(1..pass[p].cursor)
        /\ Reach(p) \ Blocked \subseteq (1..pass[p].cursor) \cup pass[p].kept
    BY <1>1 DEF SyncInv, PassInv, CursorInv, BatchInv, Running, Safe
  <2>3. QED
    BY <2>1, <2>2 DEF Complete
<1>6. Safe(next) /\ (next = None => Complete(pass[p].seen))
  <2>1. 1..next \subseteq source
    BY <1>1 DEF SyncInv, PassInv, BatchInv
  <2>2. next = None => 1..next = {}
    BY DEF None
  <2>3. QED
    BY <1>5, <2>1, <2>2 DEF Reach, Safe, Complete
<1>7. Safe(saved.cursor)'
  BY <1>4, <1>6 DEF Safe, Complete
<1>8. saved' \in [cursor : Cursors, status : Statuses]
  BY <1>1, <1>4 DEF PassStates, Statuses
<1>9. pass'[p] = r => PassInv(p)'
  BY <1>1, <1>4, <1>6 DEF SyncInv, PassStates, PassInv, CursorInv, BatchInv, MapInv, DoneInv,
                    Reach, Safe, Complete, Running
<1>10. QED
  BY <1>1, <1>2, <1>3, <1>4, <1>7, <1>8, <1>9, PassStep DEF SyncInv, TypeOK, PassStates

\* A pass ends with the cursor it had.
LEMMA FinishInv == ASSUME SyncInv, NEW p \in Passes, Finish(p) PROVE SyncInv'
<1> DEFINE r == [pass[p] EXCEPT !.at = "done"]
<1>1. pass[p] \in PassStates /\ pass[p].at = "finish" /\ Safe(pass[p].cursor)
  BY DEF SyncInv, TypeOK, Finish, PassInv, CursorInv, Running
<1>2. r \in PassStates
  BY <1>1 DEF PassStates, Steps
<1>3. pass' = [pass EXCEPT ![p] = r]
  BY DEF Finish, SyncInv, TypeOK
<1>4. UNCHANGED <<source, docs, related, tagged, runs>>
      /\ saved' = [cursor |-> pass[p].cursor, status |-> "idle"]
  BY DEF Finish, store
<1>5. Safe(saved.cursor)'
  BY <1>1, <1>4 DEF Safe, Complete
<1>6. saved' \in [cursor : Cursors, status : Statuses]
  BY <1>1, <1>4 DEF PassStates, Statuses
<1>7. pass'[p] = r => PassInv(p)'
  BY <1>1, <1>4 DEF SyncInv, PassStates, PassInv, CursorInv, BatchInv, MapInv, DoneInv,
                    Reach, Safe, Complete, Running
<1>8. QED
  BY <1>1, <1>2, <1>3, <1>4, <1>5, <1>6, <1>7, PassStep DEF SyncInv, TypeOK, PassStates

\* A pass that fails leaves the saved state and the store as they are.
LEMMA FailInv == ASSUME SyncInv, NEW p \in Passes, Fail(p) PROVE SyncInv'
<1> DEFINE r == [pass[p] EXCEPT !.at = "error"]
<1>1. pass[p] \in PassStates
  BY DEF SyncInv, TypeOK
<1>2. r \in PassStates
  BY <1>1 DEF PassStates, Steps
<1>3. pass' = [pass EXCEPT ![p] = r] /\ UNCHANGED <<source, docs, related, tagged, saved, runs>>
  BY DEF Fail, store, SyncInv, TypeOK
<1>4. Safe(saved.cursor)'
  BY <1>3 DEF SyncInv, Safe, Complete
<1>5. pass'[p] = r => PassInv(p)'
  BY <1>1 DEF PassStates, PassInv, CursorInv, BatchInv, MapInv, DoneInv, Running
<1>6. QED
  BY <1>1, <1>2, <1>3, <1>4, <1>5, PassStep DEF SyncInv, TypeOK, PassStates

\* Every step keeps the invariant.
LEMMA StepInv == ASSUME SyncInv, ~OutOfOrder, [Next]_vars PROVE SyncInv'
<1>1. CASE Grow
  BY <1>1, GrowInv
<1>2. ASSUME NEW p \in Passes, Start(p) \/ Step(p) \/ Fail(p) PROVE SyncInv'
  BY <1>2, StartInv, PullInv, UpsertInv, RelateInv, TagInv, SaveInv, FinishInv, FailInv DEF Step
<1>3. CASE UNCHANGED vars
  BY <1>3 DEF vars, SyncInv, TypeOK, Prefix, PassInv, CursorInv, BatchInv, MapInv, DoneInv,
              Reach, Safe, Complete, Running
<1>4. QED
  BY <1>1, <1>2, <1>3 DEF Next

-----------------------------------------------------------------------------
(* The theorems.                                                           *)

\* With a source that is only appended to (the JSONL driver), every reachable state
\* of any number of concurrent, failing and resumed passes satisfies the invariant.
THEOREM SyncInvariant == ASSUME ~OutOfOrder PROVE Spec => []SyncInv
<1>1. SyncInv /\ [Next]_vars => SyncInv'
  BY StepInv
<1>2. QED
  BY <1>1, InitInv, PTL DEF Spec

\* The saved cursor of sync never stands past a document that is not durable,
\* related and tagged, whichever pass wrote it and wherever passes failed.
THEOREM CursorLeavesNoGap == ASSUME ~OutOfOrder PROVE Spec => []NoGaps
<1>1. SyncInv => NoGaps
  <2> SUFFICES ASSUME SyncInv PROVE NoGaps
    OBVIOUS
  <2>1. source \subseteq Nat \ {0} /\ saved.cursor \in Nat
    BY SizesNat DEF SyncInv, TypeOK, Cursors
  <2>2. ASSUME NEW d \in source, d <= saved.cursor PROVE d \in 1..saved.cursor
    <3>1. d \in Nat /\ d >= 1
      BY <2>1
    <3>2. QED
      BY <2>1, <2>2, <3>1
  <2>3. Complete(1..saved.cursor)
    BY DEF SyncInv, Safe
  <2>4. QED
    BY <2>2, <2>3 DEF NoGaps, Complete
<1>2. QED
  BY <1>1, SyncInvariant, PTL

\* A pass of sync that ends without an error left nothing of what its last pull saw.
THEOREM PassesComplete == ASSUME ~OutOfOrder PROVE Spec => []PassIsComplete
<1>1. SyncInv => PassIsComplete
  BY DEF SyncInv, PassInv, DoneInv, PassIsComplete
<1>2. QED
  BY <1>1, SyncInvariant, PTL
=============================================================================
