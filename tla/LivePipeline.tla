---------------------------- MODULE LivePipeline ----------------------------
(***************************************************************************)
(* The ingestion machine writing into an estate whose changefeed is being  *)
(* watched: each landed batch appends its rows and then wakes the          *)
(* watchers.  drop_collection appends removal rows and wakes nobody.       *)
(***************************************************************************)
EXTENDS IngestMachine

CONSTANTS Watchers, PageLimit,
          MaxDrops   \* bound: documents removed by drop_collection

ASSUME PageLimitPositive == PageLimit \in Nat \ {0}
ASSUME MaxDropsNat == MaxDrops \in Nat

VARIABLES told, spc, woken, since, page, got   \* see ChangeStream

Stream == INSTANCE ChangeStream

streamVars == <<told, spc, woken, since, page, got>>
vars == <<feed, ingestVars, streamVars>>

Init == IngestInit /\ Stream!StreamInit

\* One member of drop_collection.
DropMember ==
    /\ \E i \in DOMAIN feed :
          /\ feed[i].op = "upsert"
          /\ \A j \in DOMAIN feed : feed[j].id = feed[i].id => j = i
          /\ feed' = Append(feed, [op |-> "remove", id |-> feed[i].id])
    /\ Len(feed) - Upserts < MaxDrops
    /\ UNCHANGED <<ingestVars, streamVars>>

Next ==
    \/ (Submit \/ Finish \/ Worker) /\ UNCHANGED streamVars
    \/ \E t \in DOMAIN tasks :
          \/ (Land(t) \/ Fail(t)) /\ UNCHANGED streamVars
          \/ Return(t) /\ Stream!NotifyWaiters
    \/ \E w \in Watchers : (Stream!Watch(w) \/ Stream!HangUp(w)) /\ UNCHANGED <<feed, ingestVars>>
    \/ DropMember

Spec == Init /\ [][Next]_vars

\* The worker and its timer run, a batch ends, an upsert that has landed returns,
\* and a subscription keeps draining and sending.  The worker's select picks among
\* its ready branches at random, so the timer does not win over a ready intake for
\* ever.
Fairness ==
    /\ WF_vars(Worker /\ UNCHANGED streamVars)
    /\ SF_vars((Receive \/ Drained) /\ UNCHANGED streamVars)
    /\ \A t \in 1..MaxDocs :
          /\ WF_vars(t \in DOMAIN tasks /\ (Land(t) \/ Fail(t)) /\ UNCHANGED streamVars)
          /\ WF_vars(t \in DOMAIN tasks /\ Return(t) /\ Stream!NotifyWaiters)
    /\ \A w \in Watchers : WF_vars(Stream!Watch(w) /\ UNCHANGED <<feed, ingestVars>>)

FairSpec == Spec /\ Fairness

TypeOK == IngestTypeOK /\ Stream!StreamTypeOK

\* A subscriber of the estate being filled receives every row once, in order, and
\* misses none that was announced.
StreamInOrder == Stream!StreamInOrder
Delivered == Stream!Delivered
=============================================================================
