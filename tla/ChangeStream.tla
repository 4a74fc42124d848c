---------------------------- MODULE ChangeStream ----------------------------
(***************************************************************************)
(* The push stream of the changefeed: the watch and live verbs.  Each      *)
(* subscription is a task that drains the feed from its cursor, sends each *)
(* row to its peer, and sleeps on the feed signal when there is nothing to *)
(* send.  Writers append rows and then wake every sleeper.                 *)
(*                                                                         *)
(*   crates/rro-engine/src/handler.rs   handle_stream                      *)
(*   crates/connxism/src/estate.rs      changes, feed_signal               *)
(*   crates/connxism/src/store.rs       notify_waiters after each commit   *)
(*                                                                         *)
(* Abstractions.  A feed row is an operation and an id.  notify_waiters of *)
(* tokio wakes every Notified that exists, polled or not, and leaves       *)
(* nothing behind for the ones created later.                              *)
(***************************************************************************)
EXTENDS Naturals, Sequences

CONSTANTS Watchers,   \* subscriptions
          PageLimit   \* rows one drain reads (256 in the code)

VARIABLES
    feed,    \* the changefeed, by sequence number
    told,    \* how long the feed was when sleepers were last woken
    spc,     \* per watcher: "arm", "drain", "send", "empty", "sleep", "gone"
    woken,   \* has its Notified fired
    since,   \* its cursor
    page,    \* rows read and not sent yet
    got      \* rows its peer has received

streamVars == <<spc, woken, since, page, got>>

StreamInit ==
    /\ told = 0
    /\ spc = [w \in Watchers |-> "arm"]
    /\ woken = [w \in Watchers |-> FALSE]
    /\ since = [w \in Watchers |-> 0]
    /\ page = [w \in Watchers |-> <<>>]
    /\ got = [w \in Watchers |-> <<>>]

\* Mutant: only the tasks that already sleep are woken.
ArmedOnlyAsleep(w) == spc[w] = "sleep"

\* The tasks that hold a Notified.
Armed(w) == spc[w] # "gone"

\* notify_waiters, the last thing a successful write does.
NotifyWaiters ==
    /\ told' = Len(feed)
    /\ woken' = [w \in Watchers |-> woken[w] \/ Armed(w)]
    /\ UNCHANGED <<spc, since, page, got>>

-----------------------------------------------------------------------------
(* A subscription.                                                         *)

\* Create a fresh Notified, before the drain.
Arm(w) ==
    /\ spc[w] = "arm"
    /\ woken' = [woken EXCEPT ![w] = FALSE]
    /\ spc' = [spc EXCEPT ![w] = "drain"]
    /\ UNCHANGED <<told, since, page, got>>

\* changes(since, limit): a page of rows, or nothing to do but sleep.
Drain(w) ==
    /\ spc[w] = "drain"
    /\ page' = [page EXCEPT ![w] =
                  SubSeq(feed, since[w] + 1, IF since[w] + PageLimit < Len(feed)
                                             THEN since[w] + PageLimit ELSE Len(feed))]
    /\ spc' = [spc EXCEPT ![w] = IF page'[w] = <<>> THEN "empty" ELSE "send"]
    /\ UNCHANGED <<told, woken, since, got>>

\* Nothing to send: await the Notified created before the drain.
Sleep(w) ==
    /\ spc[w] = "empty"
    /\ spc' = [spc EXCEPT ![w] = "sleep"]
    /\ UNCHANGED <<told, woken, since, page, got>>

\* It has fired, perhaps before the task slept.
Wake(w) ==
    /\ spc[w] = "sleep"
    /\ woken[w]
    /\ spc' = [spc EXCEPT ![w] = "arm"]
    /\ UNCHANGED <<told, woken, since, page, got>>

\* Mutant: the cursor is the row just sent, which the next drain reads again.
NextCursorStays(w) == IF Len(page[w]) = 1 THEN since[w] ELSE since[w] + 1

\* The cursor moves past the row that is sent.
NextCursor(w) == since[w] + 1

\* Send the next row; after the last one of the page start over.
Send(w) ==
    /\ spc[w] = "send"
    /\ got' = [got EXCEPT ![w] = Append(@, Head(page[w]))]
    /\ since' = [since EXCEPT ![w] = NextCursor(w)]
    /\ page' = [page EXCEPT ![w] = Tail(@)]
    /\ spc' = [spc EXCEPT ![w] = IF Len(page[w]) = 1 THEN "arm" ELSE "send"]
    /\ UNCHANGED <<told, woken>>

\* The peer has hung up: the task notices when it sends.
HangUp(w) ==
    /\ spc[w] = "send"
    /\ spc' = [spc EXCEPT ![w] = "gone"]
    /\ page' = [page EXCEPT ![w] = <<>>]
    /\ UNCHANGED <<told, woken, since, got>>

Watch(w) == Arm(w) \/ Drain(w) \/ Sleep(w) \/ Wake(w) \/ Send(w)

-----------------------------------------------------------------------------
StreamTypeOK ==
    /\ told \in 0..Len(feed)
    /\ spc \in [Watchers -> {"arm", "drain", "send", "empty", "sleep", "gone"}]
    /\ woken \in [Watchers -> BOOLEAN]
    /\ since \in [Watchers -> 0..Len(feed)]

\* A subscriber receives exactly the rows of the feed, each once and in order,
\* whatever is committed while it drains, sends or sleeps (handle_stream).
StreamInOrder == \A w \in Watchers : got[w] = SubSeq(feed, 1, since[w]) /\ Len(got[w]) = since[w]

\* No lost update: every row committed before the last wake-up reaches every
\* subscriber that stays connected, although each of them drains and falls asleep
\* without a lock.
Delivered == \A w \in Watchers : <>[](spc[w] = "gone" \/ Len(got[w]) >= told)
=============================================================================
