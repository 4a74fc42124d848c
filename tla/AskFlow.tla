------------------------------ MODULE AskFlow ------------------------------
(***************************************************************************)
(* rro-engine/flow.rs: one pass of ask_with per thread.  A turn is opened, *)
(* RRD distils the query, the shape stage reports what the baseline        *)
(* speculated, and unless the gate blocked it the query is embedded,       *)
(* routed, recalled, reranked and judged, every stage an await that can    *)
(* fail and end the pass.  Each signal carries the turn it belongs to and  *)
(* goes to one append-only stream shared by all passes and all processes.  *)
(***************************************************************************)
EXTENDS Rrd

CONSTANTS
    Terms,      \* per query and document: its content terms
    Docs,       \* what recall can return
    Query,      \* payload -> its content terms
    RecallK, RerankK,           \* ObjectConfig
    TopContext, ReadyAt, PartialAt,   \* HeuristicClassifier, thresholds in percent
    MaxTurns, MaxRestarts       \* bounds

ASSUME TurnsAssumption == MaxTurns \in Nat

VARIABLES
    nextTurn,   \* turn.rs NEXT
    stream,     \* the event stream, as a reader regroups it: turn id -> its signals in order
    result,     \* per thread: the RecallResult of the pass it is in
    restarts

flowVars == <<nextTurn, stream, result, restarts>>
askVars == <<rrdVars, flowVars>>

Channel == CHOOSE c \in Contexts : TRUE     \* the stamp's channel is always "query"

NoResult == [turn |-> 0, candidates |-> <<>>, label |-> None]

FlowInit ==
    /\ RrdInit
    /\ nextTurn = 1
    /\ stream = [n \in 1..MaxTurns |-> <<>>]
    /\ result = [t \in Threads |-> NoResult]
    /\ restarts = 0

Emit(turn, kinds) == stream' = [stream EXCEPT ![turn] = @ \o kinds]

----------------------------------------------------------------------------
(* Reranking and judging.                                                  *)

Matches(p, d) == Query[p] \cap Terms[d] # {}

\* BM25 over the candidate set: the score is positive exactly for a candidate that shares a
\* term with the query, and the sort is stable, so only the matching ones change places.
rerank(p, cands) ==
    LET hitsOf == SelectSeq(cands, LAMBDA d : Matches(p, d))
        rest == SelectSeq(cands, LAMBDA d : ~Matches(p, d))
        orders == IF Query[p] = {} THEN {cands}
                  ELSE {h \o rest : h \in {s \in [DOMAIN hitsOf -> ToSet(hitsOf)] :
                                              ToSet(s) = ToSet(hitsOf)}}
    IN  {SubSeq(o, 1, IF Len(o) < RerankK THEN Len(o) ELSE RerankK) : o \in orders}

classify(p, cands) ==
    LET k == IF Len(cands) < TopContext THEN Len(cands) ELSE TopContext
        covered == Query[p] \cap UNION {Terms[cands[i]] : i \in 1..k}
        percent == (100 * Cardinality(covered)) \div Cardinality(Query[p])
    IN  IF cands = <<>> THEN "no_context"
        ELSE IF Query[p] = {} THEN "empty_query"
        ELSE IF percent >= ReadyAt THEN "ready"
        ELSE IF percent >= PartialAt THEN "partial" ELSE "insufficient"

\* The constrained-decode classifier: whatever the server writes, only a label of the grammar
\* is a verdict; anything else is an error.
ReadyLabels == {"ready", "insufficient", "ambiguous", "conflicting"}
parse_reply(word) == IF word \in ReadyLabels THEN word ELSE "error"

Verdicts(p, cands) == {classify(p, cands)} \cup {parse_reply(w) : w \in {"ready", "conflicting", "maybe"}}

----------------------------------------------------------------------------
\* Mutant: the turn id is read but not advanced.
AskReusesTurn(t, p) ==
    /\ nextTurn + restarts <= MaxTurns
    /\ Gate(t, p, Channel)
    /\ Emit(nextTurn, <<"flow.open">>)
    /\ result' = [result EXCEPT ![t] = [NoResult EXCEPT !.turn = nextTurn]]
    /\ UNCHANGED <<nextTurn, restarts>>

\* ask_with: mint the turn, open it, hand the query to RRD.
Ask(t, p) ==
    /\ nextTurn + restarts <= MaxTurns
    /\ Gate(t, p, Channel)
    /\ nextTurn' = nextTurn + 1
    /\ Emit(nextTurn, <<"flow.open">>)
    /\ result' = [result EXCEPT ![t] = [NoResult EXCEPT !.turn = nextTurn]]
    /\ UNCHANGED restarts

Distil(t) ==
    /\ Identify(t) \/ Settle(t) \/ FetchPlan(t)
    /\ UNCHANGED flowVars

\* The shape stage: speculation() is read here, after the observation was folded in.  A
\* blocked query closes its turn and is answered without a model call.
Shape(t) ==
    /\ pass[t].at = "distilled"
    /\ \E told \in predict(baseline, Channel) :
          IF pass[t].result = "block"
          THEN /\ Emit(result[t].turn, <<"shape", "flow.turn">>)
               /\ pass' = [pass EXCEPT ![t].at = "answer"]
               /\ result' = [result EXCEPT ![t].label = "gated"]
          ELSE /\ Emit(result[t].turn, <<"shape">>)
               /\ pass' = [pass EXCEPT ![t] = [@ EXCEPT !.at = "embed", !.told = told]]
               /\ UNCHANGED result
    /\ UNCHANGED <<slivers, plans, hits, compiles, baseline, saved, nextTurn, restarts>>

\* One awaited stage: it answers, or its error is returned and the turn is never closed.
Stage(t, from, to, kinds, cands, label) ==
    /\ pass[t].at = from
    /\ \/ /\ pass' = [pass EXCEPT ![t].at = to]
          /\ Emit(result[t].turn, kinds)
          /\ result' = [result EXCEPT ![t].candidates = cands, ![t].label = label]
       \/ /\ pass' = [pass EXCEPT ![t] = NoPass]
          /\ result' = [result EXCEPT ![t] = NoResult]
          /\ UNCHANGED stream
    /\ UNCHANGED <<slivers, plans, hits, compiles, baseline, saved, nextTurn, restarts>>

EmbedQuery(t) == Stage(t, "embed", "recall", <<"embed", "intent">>, <<>>, None)

Recall(t) ==
    \E n \in 0..RecallK : \E found \in {s \in [1..n -> Docs] : Cardinality(ToSet(s)) = n} :
        Stage(t, "recall", "rerank", <<"recall">>, found, None)

Rerank(t) ==
    /\ pass[t].at = "rerank"
    /\ \E ranked \in rerank(pass[t].payload, result[t].candidates) :
          Stage(t, "rerank", "reason", <<"rerank">>, ranked, None)

Reason(t) ==
    /\ pass[t].at = "reason"
    /\ \E label \in Verdicts(pass[t].payload, result[t].candidates) \ {"error"} :
          Stage(t, "reason", "answer", <<"reason", "flow.turn">>, result[t].candidates, label)

\* The RecallResult goes back to the caller with its turn.
ReturnResult(t) ==
    /\ pass[t].at = "answer"
    /\ pass' = [pass EXCEPT ![t] = NoPass]
    /\ result' = [result EXCEPT ![t] = NoResult]
    /\ UNCHANGED <<slivers, plans, hits, compiles, baseline, saved, nextTurn, stream, restarts>>

\* A restart: the turn counter begins again at 1, the stream's file is appended to.
Reboot ==
    /\ restarts < MaxRestarts
    /\ Restart
    /\ restarts' = restarts + 1
    /\ nextTurn' = 1
    /\ result' = [t \in Threads |-> NoResult]
    /\ UNCHANGED stream

FlowNext ==
    \/ \E t \in Threads :
          \/ \E p \in Payloads : Ask(t, p)
          \/ Distil(t) \/ Shape(t) \/ EmbedQuery(t) \/ Recall(t) \/ Rerank(t) \/ Reason(t) \/ ReturnResult(t)
    \/ Reboot

FlowSpec == FlowInit /\ [][FlowNext]_askVars

----------------------------------------------------------------------------
FullTurn == <<"flow.open", "shape", "embed", "intent", "recall", "rerank", "reason", "flow.turn">>
GatedTurn == <<"flow.open", "shape", "flow.turn">>

\* turn.rs: the signals that carry one turn id replay into one pass, however the passes of
\* other threads interleave with it and wherever it failed.
TurnReadable ==
    \A n \in 1..MaxTurns : IsPrefix(stream[n], FullTurn) \/ IsPrefix(stream[n], GatedTurn)

\* The same within one life of the process.
TurnReadableInProcess == restarts = 0 => TurnReadable

\* flow.rs:156: the speculation a turn reports is what the baseline believed before the
\* observation was folded in; in an unseen context that is nothing.
HonestScorecard ==
    \A t \in Threads :
        pass[t].at = "embed" /\ pass[t].before = {} => pass[t].told = {}

=============================================================================
