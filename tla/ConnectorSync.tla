---------------------------- MODULE ConnectorSync ---------------------------
(***************************************************************************)
(* One connector and the sync passes run for it.  A pass pulls batches     *)
(* behind a cursor, upserts what the gates let through, relates and tags   *)
(* each document, and only then saves the cursor.  Nothing keeps two       *)
(* passes apart, and a pass may end with an error, or with the process, at *)
(* any step.                                                               *)
(*                                                                         *)
(*   crates/connectors/src/lib.rs          sync                            *)
(*   crates/connectors/src/jsonl.rs, fs.rs pull                            *)
(*   crates/connxism/src/estate.rs         update_sync, tag                *)
(*                                                                         *)
(* Abstractions.  A document is its position in the source: the line of a  *)
(* JSONL feed, the rank of a path.  Its tags are one mark.  The gates read *)
(* only the text, so what they block is a constant.  docs_synced, the      *)
(* baseline of RRD and the trends are left out.                            *)
(***************************************************************************)
EXTENDS Naturals, FiniteSets, FiniteSetsExt

CONSTANTS Passes,        \* callers of sync
          MaxDocs,       \* bound: documents the source may come to hold
          BatchSize,     \* batch_size of the driver
          Blocked,       \* the documents whose gate verdict is Block
          MaxRuns,       \* bound: passes started
          OutOfOrder     \* may a new document sort before an old one (a file can,
                         \* a line of a feed that is only appended to cannot)

ASSUME SizesNat == MaxDocs \in Nat /\ BatchSize \in Nat \ {0} /\ MaxRuns \in Nat
ASSUME BlockedDocs == Blocked \subseteq 1..MaxDocs
ASSUME OutOfOrderFlag == OutOfOrder \in BOOLEAN

VARIABLES
    source,    \* the documents in the source
    docs,      \* the documents in recall
    related,   \* the documents with a "contains" edge from the connector
    tagged,    \* the documents with their tags
    saved,     \* the persisted SyncState: cursor and status
    runs,      \* how many passes were started
    pass       \* the local state of each pass

vars == <<source, docs, related, tagged, saved, runs, pass>>
store == <<docs, related, tagged>>

None == 0    \* no cursor: from the beginning
Cursors == 0..MaxDocs
Statuses == {"registered", "syncing", "idle"}
Steps == {"off", "pull", "upsert", "relate", "tag", "save", "finish", "done", "error"}

Init ==
    /\ source = {}
    /\ docs = {} /\ related = {} /\ tagged = {}
    /\ saved = [cursor |-> None, status |-> "registered"]
    /\ runs = 0
    /\ pass = [p \in Passes |->
                 [at |-> "off", cursor |-> None, next |-> None, kept |-> {}, todo |-> {}, seen |-> {}]]

\* The source gains a document.
Grow ==
    /\ \E d \in (1..MaxDocs) \ source :
          /\ OutOfOrder \/ d = Cardinality(source) + 1
          /\ source' = source \cup {d}
    /\ UNCHANGED <<store, saved, runs, pass>>

-----------------------------------------------------------------------------
(* A pass.                                                                 *)

\* sync reads the stored cursor and marks the connector as syncing.
Start(p) ==
    /\ pass[p].at \in {"off", "done", "error"}
    /\ runs < MaxRuns
    /\ runs' = runs + 1
    /\ pass' = [pass EXCEPT ![p] = [at |-> "pull", cursor |-> saved.cursor, next |-> None,
                                    kept |-> {}, todo |-> {}, seen |-> {}]]
    /\ saved' = [saved EXCEPT !.status = "syncing"]
    /\ UNCHANGED <<source, store>>

\* The first k of a set of documents, in source order.
FirstOf(k, ds) == {d \in ds : Cardinality({e \in ds : e < d}) < k}

\* The driver's batch after a cursor: at most batch_size documents.
BatchAfter(cursor) == FirstOf(BatchSize, {d \in source : d > cursor})

\* Mutant: off by one, the cursor is the document after the batch.
NextCursorSkips(batch) ==
    IF Cardinality(batch) = BatchSize /\ Max(batch) < MaxDocs THEN Max(batch) + 1 ELSE None

\* The cursor the driver returns with it: none once the source is drained.
NextCursor(batch) ==
    IF Cardinality(batch) = BatchSize THEN Max(batch) ELSE None

\* What the gates let through of a batch.
Kept(batch) == batch \ Blocked

\* Mutant: a batch of which everything is blocked is pulled again.
AllBlockedAgain(p, next) ==
    [pass[p] EXCEPT !.seen = source, !.at = IF next = None THEN "finish" ELSE "pull"]

\* Every document of the batch was blocked: the cursor moves on, but is not saved.
AllBlocked(p, next) ==
    [pass[p] EXCEPT !.seen = source, !.cursor = next,
                    !.at = IF next = None THEN "finish" ELSE "pull"]

\* Pull a batch and pass it through the gates.
Pull(p) ==
    /\ pass[p].at = "pull"
    /\ LET batch == BatchAfter(pass[p].cursor)
           next == NextCursor(batch)
           kept == Kept(batch)
       IN pass' = [pass EXCEPT ![p] =
             IF batch = {} THEN [@ EXCEPT !.seen = source, !.at = "finish"]
             ELSE IF kept = {} THEN AllBlocked(p, next)
             ELSE [@ EXCEPT !.seen = source, !.next = next, !.kept = kept, !.at = "upsert"]]
    /\ UNCHANGED <<source, store, saved, runs>>

\* Embed and upsert the batch, in one transaction.
Upsert(p) ==
    /\ pass[p].at = "upsert"
    /\ docs' = docs \cup pass[p].kept
    /\ pass' = [pass EXCEPT ![p].at = "relate", ![p].todo = pass[p].kept]
    /\ UNCHANGED <<source, related, tagged, saved, runs>>

\* The edge of the next document, and then its tags.
Relate(p) ==
    /\ pass[p].at = "relate"
    /\ related' = related \cup {Min(pass[p].todo)}
    /\ pass' = [pass EXCEPT ![p].at = "tag"]
    /\ UNCHANGED <<source, docs, tagged, saved, runs>>

\* Mutant: the cursor is saved after the first document of the batch.
LeftToMapNone(p) == {}

LeftToMap(p) == pass[p].todo \ {Min(pass[p].todo)}

Tag(p) ==
    /\ pass[p].at = "tag"
    /\ tagged' = tagged \cup {Min(pass[p].todo)}
    /\ pass' = [pass EXCEPT ![p].todo = LeftToMap(p),
                            ![p].at = IF LeftToMap(p) = {} THEN "save" ELSE "relate"]
    /\ UNCHANGED <<source, docs, related, saved, runs>>

\* Save the cursor; the source is drained when there is none.
SaveCursor(p) ==
    /\ pass[p].at = "save"
    /\ saved' = [cursor |-> pass[p].next, status |-> "syncing"]
    /\ pass' = [pass EXCEPT ![p].cursor = pass[p].next,
                            ![p].at = IF pass[p].next = None THEN "finish" ELSE "pull"]
    /\ UNCHANGED <<source, store, runs>>

\* The pass is over: save its cursor once more, as idle.
Finish(p) ==
    /\ pass[p].at = "finish"
    /\ saved' = [cursor |-> pass[p].cursor, status |-> "idle"]
    /\ pass' = [pass EXCEPT ![p].at = "done"]
    /\ UNCHANGED <<source, store, runs>>

Running(p) == pass[p].at \notin {"off", "done", "error"}

\* A pull, an embedding, an upsert or a write fails, or the process dies: the pass
\* returns its error and the saved state stays as it is.
Fail(p) ==
    /\ Running(p)
    /\ pass' = [pass EXCEPT ![p].at = "error"]
    /\ UNCHANGED <<source, store, saved, runs>>

Step(p) ==
    \/ Pull(p) \/ Upsert(p) \/ Relate(p) \/ Tag(p) \/ SaveCursor(p) \/ Finish(p)

Next ==
    \/ Grow
    \/ \E p \in Passes : Start(p) \/ Step(p) \/ Fail(p)

Spec == Init /\ [][Next]_vars

\* A pass that is running keeps going: every await in it returns.
FairSpec == Spec /\ \A p \in Passes : WF_vars(Step(p))

-----------------------------------------------------------------------------
\* The local state of a pass.
PassStates ==
    [at : Steps, cursor : Cursors, next : Cursors,
     kept : SUBSET (1..MaxDocs), todo : SUBSET (1..MaxDocs), seen : SUBSET (1..MaxDocs)]

TypeOK ==
    /\ source \subseteq 1..MaxDocs
    /\ docs \subseteq source /\ related \subseteq docs /\ tagged \subseteq related
    /\ saved \in [cursor : Cursors, status : Statuses]
    /\ runs \in 0..MaxRuns
    /\ pass \in [Passes -> PassStates]
    /\ \A p \in Passes :
          /\ pass[p].kept \subseteq source \ Blocked
          /\ pass[p].at \in {"relate", "tag"} => pass[p].todo # {}
          /\ pass[p].todo \subseteq pass[p].kept

\* Everything the gates let through of a set of documents is durable and mapped.
Complete(ds) == ds \ Blocked \subseteq docs \cap related \cap tagged

\* No gaps: wherever a pass was interrupted, and whichever of two passes wrote
\* last, the saved cursor never stands past a document that is not durable,
\* related and tagged, so the pass that resumes from it misses nothing (sync:
\* "a crash before this line replays the batch, never skips it").
NoGaps == Complete({d \in source : d <= saved.cursor})

\* A pass that ends without an error leaves nothing of the source behind, as its
\* last pull saw it: not what an interrupted pass before it was to ingest, and not
\* what another pass had in hand (sync).
PassIsComplete == \A p \in Passes : pass[p].at = "done" => Complete(pass[p].seen)

\* A pass that is started ends: each turn of its loop gets further into the source,
\* also over batches of which every document is blocked (sync).
PassEnds == \A p \in Passes : Running(p) ~> ~Running(p)
=============================================================================
