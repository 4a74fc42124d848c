-------------------------------- MODULE Rrd --------------------------------
(***************************************************************************)
(* crates/rrd: the reason-ready object JIT.  A payload is gated, its shape *)
(* (the set of its typed fields) is registered, the speculation made for   *)
(* its context is settled against what it turned out to be, and the plan   *)
(* of its shape is compiled or taken from the cache.  Each of the four     *)
(* pieces of state has a lock of its own, so a step below is what one      *)
(* thread does under one lock.  The baseline survives a restart through a  *)
(* snapshot; the registry, the plans and the counters do not.              *)
(***************************************************************************)
EXTENDS Integers, Sequences, FiniteSets, SequencesExt, FiniteSetsExt

CONSTANTS
    Threads,        \* callers of distill_stamped
    Payloads,       \* [bytes, fields, signals]; a field is [name, type], a name its words
    Contexts,       \* channels the payloads come from
    MaxTextBytes, MaxFields,            \* L0Config
    Growth,         \* 1 / LAMBDA
    RescaleAt,      \* RESCALE_AT, in units of Scale
    Scale,          \* weights are integers in 1/Scale
    Window,         \* WINDOW
    MaxObservations, MaxVersions    \* bounds: observations, snapshots of one behaviour

VARIABLES
    slivers,    \* the registry: shape -> times seen, 0 when not registered
    plans,      \* shapes that have a compiled plan
    hits, compiles,
    baseline,   \* the living ShapeBaseline
    saved,      \* the rrd:baseline component of the estate, or NoSnapshot
    pass        \* per thread, the distillation it is in

rrdVars == <<slivers, plans, hits, compiles, baseline, saved, pass>>

NoSnapshot == [version |-> 0]
None == "none"
Sum(f, S) == FoldSet(LAMBDA x, acc : f[x] + acc, 0, S)

----------------------------------------------------------------------------
(* Shapes, modes and roles: what field names say.                          *)

ShapeFingerprint(p) == p.fields
Shapes == {ShapeFingerprint(p) : p \in Payloads}

MODE_VOTES == <<
    <<"mail", {<<"from">>, <<"to">>, <<"cc">>, <<"bcc">>, <<"subject">>, <<"sender">>,
               <<"recipient">>, <<"mailbox">>}>>,
    <<"record", {<<"amount">>, <<"price">>, <<"status">>, <<"quantity">>, <<"sku">>,
                 <<"total">>, <<"currency">>, <<"row">>}>>,
    <<"document", {<<"title">>, <<"body">>, <<"content">>, <<"text">>, <<"author">>,
                   <<"abstract">>, <<"section">>}>>,
    <<"event", {<<"event">>, <<"kind">>, <<"action">>, <<"occurred">>, <<"started">>,
                <<"ended">>, <<"duration">>, <<"severity">>}>>,
    <<"location", {<<"lat">>, <<"lon">>, <<"latitude">>, <<"longitude">>, <<"address">>,
                   <<"city">>, <<"country">>, <<"geo">>, <<"path">>}>>,
    <<"media", {<<"mime">>, <<"bytes">>, <<"width">>, <<"height">>, <<"codec">>,
                <<"duration", "ms">>, <<"url">>, <<"blob">>}>> >>

Timeish(name) ==
    \/ Len(name) > 1 /\ Last(name) = "at"
    \/ name \in {<<"date">>, <<"time">>, <<"timestamp">>}

Votes(fields, names) ==
    Cardinality({f \in fields : \E n \in names : IsPrefix(n, f.name)})

\* The first mode with the most votes; with no vote, a time field makes an event.
identify(fields) ==
    LET count(i) == Votes(fields, MODE_VOTES[i][2])
        best == CHOOSE i \in DOMAIN MODE_VOTES :
                   \A j \in DOMAIN MODE_VOTES :
                      count(j) < count(i) \/ (count(j) = count(i) /\ i <= j)
    IN  IF count(best) > 0 THEN MODE_VOTES[best][1]
        ELSE IF \E f \in fields : Timeish(f.name) THEN "event" ELSE "unshaped"

infer_role(f) ==
    CASE f.name \in {<<"id">>, <<"uuid">>, <<"sku">>, <<"email">>, <<"from">>, <<"to">>,
                     <<"sender">>, <<"recipient">>}
         \/ (Len(f.name) > 1 /\ Last(f.name) \in {"id", "key"})         -> "identity"
      [] Timeish(f.name) \/ f.name \in {<<"occurred">>, <<"created">>, <<"updated">>} -> "time"
      [] f.name \in {<<"title">>, <<"subject">>, <<"name">>, <<"heading">>} -> "title"
      [] f.name \in {<<"body">>, <<"content">>, <<"text">>, <<"description">>,
                     <<"message">>}                                     -> "content"
      [] f.type = "number" /\ Range(f.name) \cap {"amount", "price", "score", "priority",
                                                  "total", "severity"} # {} -> "salience"
      [] OTHER -> "other"

\* plan::compile and its execution: the roles a payload's non-null fields fill.
HintsOf(p) ==
    {infer_role(f) : f \in {g \in p.fields : g.type # "null"}}
        \cup (IF p.bytes > 0 THEN {"content"} ELSE {})

----------------------------------------------------------------------------
(* The gate ladder.                                                        *)

l0_deterministic(p) ==
    IF p.bytes > MaxTextBytes \/ Cardinality(p.fields) > MaxFields THEN "block" ELSE "pass"

\* Signals flag and never block; an operation signal alone does not even flag.
verdict(signals) ==
    IF signals \cap {"unicode", "secret", "injection"} # {} THEN "flag" ELSE "pass"

GateOf(p) == IF l0_deterministic(p) = "block" THEN "block" ELSE verdict(p.signals)

----------------------------------------------------------------------------
(* The baseline.                                                           *)

EmptyDist == [s \in Shapes |-> 0]
Total(dist) == Sum(dist, Shapes)

FreshContext(dist) == [dist |-> dist, observations |-> 0, window |-> <<>>,
                       predictions |-> 0, hits |-> 0]

\* newest is a history variable: the weight, in today's scale, of the last observation.
FreshBaseline ==
    [unit |-> Scale, global |-> EmptyDist, contexts |-> [c \in Contexts |-> FreshContext(EmptyDist)],
     observations |-> 0, reference |-> NoSnapshot, newest |-> 0]

\* argmax over a hash map: any one of the heaviest slivers, none ({}) in an unseen context.
argmax(dist) ==
    IF Total(dist) = 0 THEN {{}}
    ELSE {{s} : s \in {r \in Shapes : \A q \in Shapes : dist[q] <= dist[r]}}

predict(b, c) == argmax(b.contexts[c].dist)

rescale(dist, by) == [s \in Shapes |-> (dist[s] * Scale) \div by]

\* Mutant: a rescale that leaves the contexts behind.
RescaledForgetsContexts(b) ==
    [b EXCEPT !.unit = Scale, !.global = rescale(@, b.unit),
              !.newest = (@ * Scale) \div b.unit]

\* Everything a rescale divides: all weights come down together.
Rescaled(b) ==
    LET by == b.unit IN
    [b EXCEPT !.unit = Scale, !.global = rescale(@, by), !.newest = (@ * Scale) \div by,
              !.contexts = [c \in Contexts |-> [@[c] EXCEPT !.dist = rescale(@, by)]]]

Folded(b, c, s, predicted) ==
    [b EXCEPT
        !.observations = @ + 1,
        !.global[s] = @ + b.unit,
        !.newest = b.unit,
        !.unit = @ * Growth,
        !.contexts[c] =
            [dist |-> [@.dist EXCEPT ![s] = @ + b.unit],
             observations |-> @.observations + 1,
             window |-> LET w == Append(@.window, s)
                        IN  IF Len(w) > Window THEN Tail(w) ELSE w,
             predictions |-> @.predictions + Cardinality(predicted),
             hits |-> @.hits + (IF s \in predicted THEN 1 ELSE 0)]]

observe(b, c, s, predicted) ==
    LET folded == Folded(b, c, s, predicted)
    IN  IF folded.unit > RescaleAt * Scale THEN Rescaled(folded) ELSE folded

snapshot(b) ==
    [version |-> b.reference.version + 1, global |-> b.global,
     contexts |-> [c \in Contexts |-> b.contexts[c].dist],
     observations |-> b.observations, newest |-> b.newest]

\* The snapshot carries no unit: the restored baseline starts again at 1.
restore(snap) ==
    [unit |-> Scale, global |-> snap.global,
     contexts |-> [c \in Contexts |-> FreshContext(snap.contexts[c])],
     observations |-> snap.observations, reference |-> snap, newest |-> snap.newest]

----------------------------------------------------------------------------
NoPass == [at |-> "idle", result |-> None]

RrdInit ==
    /\ slivers = [s \in Shapes |-> 0]
    /\ plans = {}
    /\ hits = 0 /\ compiles = 0
    /\ baseline = FreshBaseline
    /\ saved = NoSnapshot
    /\ pass = [t \in Threads |-> NoPass]

\* L0, L1 and the speculation read before the shape is known.  A block returns at once.
Gate(t, p, c) ==
    /\ pass[t].at = "idle"
    /\ baseline.observations + Cardinality({u \in Threads : pass[u].at \in {"identify", "settle"}})
           < MaxObservations
    /\ \/ /\ GateOf(p) = "block"
          /\ pass' = [pass EXCEPT ![t] = [at |-> "distilled", result |-> "block",
                                          payload |-> p, context |-> c, before |-> {},
                                          isNew |-> FALSE, told |-> {}]]
       \/ /\ GateOf(p) # "block"
          /\ \E predicted \in predict(baseline, c) :
                pass' = [pass EXCEPT ![t] = [at |-> "identify", result |-> GateOf(p),
                                             payload |-> p, context |-> c, before |-> predicted,
                                             isNew |-> FALSE, told |-> {}]]
    /\ UNCHANGED <<slivers, plans, hits, compiles, baseline, saved>>

ShapeOf(t) == ShapeFingerprint(pass[t].payload)

\* ShapeRegistry::observe under the registry's write lock.
Identify(t) ==
    /\ pass[t].at = "identify"
    /\ slivers' = [slivers EXCEPT ![ShapeOf(t)] = @ + 1]
    /\ pass' = [pass EXCEPT ![t] = [@ EXCEPT !.at = "settle", !.isNew = slivers[ShapeOf(t)] = 0]]
    /\ UNCHANGED <<plans, hits, compiles, baseline, saved>>

\* ShapeBaseline::observe under the baseline's write lock.
Settle(t) ==
    /\ pass[t].at = "settle"
    /\ baseline' = observe(baseline, pass[t].context, ShapeOf(t), pass[t].before)
    /\ pass' = [pass EXCEPT ![t].at = "plan"]
    /\ UNCHANGED <<slivers, plans, hits, compiles, saved>>

\* The inline cache: the thread that registered the shape compiles and counts it; a hit
\* that finds no plan yet (that thread is still on its way) compiles without counting.
FetchPlan(t) ==
    /\ pass[t].at = "plan"
    /\ plans' = plans \cup {ShapeOf(t)}
    /\ IF pass[t].isNew THEN compiles' = compiles + 1 /\ UNCHANGED hits
                        ELSE hits' = hits + 1 /\ UNCHANGED compiles
    /\ pass' = [pass EXCEPT ![t].at = "distilled"]
    /\ UNCHANGED <<slivers, baseline, saved>>

\* The process ends and the next one starts.  serve() returns on the signal without
\* waiting for the passes in flight, main commits a snapshot; a crash commits nothing.
Restart ==
    /\ baseline.reference.version < MaxVersions
    /\ \E clean \in BOOLEAN :
          saved' = IF clean THEN snapshot(baseline) ELSE saved
    /\ baseline' = IF saved' = NoSnapshot THEN FreshBaseline ELSE restore(saved')
    /\ slivers' = [s \in Shapes |-> 0]
    /\ plans' = {} /\ hits' = 0 /\ compiles' = 0
    /\ pass' = [t \in Threads |-> NoPass]

\* distill_stamped hands the object back to its caller.
Return(t) ==
    /\ pass[t].at = "distilled"
    /\ pass' = [pass EXCEPT ![t] = NoPass]
    /\ UNCHANGED <<slivers, plans, hits, compiles, baseline, saved>>

RrdNext ==
    \/ \E t \in Threads :
          \/ \E p \in Payloads, c \in Contexts : Gate(t, p, c)
          \/ Identify(t) \/ Settle(t) \/ FetchPlan(t) \/ Return(t)
    \/ Restart

----------------------------------------------------------------------------
\* The global distribution is the sum of the contexts': decay, rescaling, snapshots and
\* restores never let the two weigh the same observation differently.
MassConserved ==
    \A s \in Shapes :
        baseline.global[s] = Sum([c \in Contexts |-> baseline.contexts[c].dist[s]], Contexts)

\* baseline.rs:22: "the increment unit grows by 1/lambda, so newer observations simply weigh
\* more": the next observation always outweighs the last one.
RecencyWeighted == baseline.observations > 0 => baseline.unit > baseline.newest

=============================================================================
