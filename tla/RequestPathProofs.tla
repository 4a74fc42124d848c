------------------------- MODULE RequestPathProofs -------------------------
(***************************************************************************)
(* Every write in the estate was asked for with a token that may write     *)
(* here (Doorway!WritesAuthorized), and what a caller is told of its       *)
(* request is what happened (Doorway!RepliesAreTrue), for any number of    *)
(* connections, any set of well-formed requests and any set-up of the      *)
(* node.                                                                   *)
(*                                                                         *)
(* The handler authorises a verb before it looks into it, and verbs of     *)
(* readers carry languages that can write.  So the first invariant is      *)
(* about the plan in hand: either none of its steps writes, or the token   *)
(* of the request it was made for let its bearer write when it was         *)
(* accepted.                                                               *)
(*                                                                         *)
(* A reply speaks of writes done steps earlier, and a handler can fail     *)
(* between any two.  So the second invariant is about how far the request  *)
(* in hand has come: its log is a beginning of what it asked, and the      *)
(* plan left leads from there on, with a success only where everything     *)
(* asked is in the estate, a refusal only where nothing is, and, in a      *)
(* write of one commit, nothing that can fail after it.                    *)
(*                                                                         *)
(* Third, of the flow behind ask (AskFlow!TurnReadableInProcess): the      *)
(* signals of one turn id are those of one pass.  That needs the turns of  *)
(* the passes under way to be different ones, and of each how far its      *)
(* stage says its signals have come.                                       *)
(*                                                                         *)
(* Fourth, of the pages of a scroll (Scroll!ScrollComplete): what is       *)
(* listed ascends to the cursor, and nothing that stayed is left out up    *)
(* to it.                                                                  *)
(*                                                                         *)
(* Fifth, of the calls to the models (ModelEdge!AnswersBelong): a call     *)
(* under way has the vectors of its first texts, one for one, and every    *)
(* row of the reply in hand says by its index which text of the next       *)
(* chunk it is of.                                                         *)
(*                                                                         *)
(* Sixth, of the payload index (QueryPlane!IndexAgrees): the encoding of   *)
(* values tells them apart up to spelling, so the rows of each scan are    *)
(* those of the documents that meet its condition.                         *)
(*                                                                         *)
(* Seventh, of the page of a query (QueryPlane!PageWasTrue): a list names  *)
(* an id once, the payloads it carries are ones their documents had while  *)
(* the query ran, and from the resolution of the scope on its candidates   *)
(* stay inside what is allowed; if that came from the index, all of it     *)
(* matched.                                                                *)
(*                                                                         *)
(* Eighth, of a page undisturbed (QueryPlane!PageFull): through every      *)
(* stage the list has as many candidates as the page asks for, or all      *)
(* that are allowed, and these are the documents the request is about.     *)
(***************************************************************************)
EXTENDS Doorway, AskFlow, Scroll, ModelEdge, QueryPlane, OrderLemmas, SequenceTheorems

Dos == {"embed", "call", "commit", "reply", "tear", "read", "write", "quorum"}
Fails == {"tear", "error", "skip", "ok", "errors", "unauthorized"}
Bodies == Fails \cup {"refused", "ended", "committed_local"}

Steps == [do : Dos, ops : Seq(AllOps), fails : Fails]
\* The steps that leave the estate alone.
Quiet == {s \in Steps : s.do \notin {"commit", "write"}}

Entries == [since : Nat, op : AllOps]

IsTask(t) == t = [x \in {"at", "plan", "since", "read", "erred"} |-> t[x]]

TaskOK(t) ==
    /\ IsTask(t)
    /\ t.at \in {"idle", "work", "stream", "closed"} /\ t.plan \in Seq(Steps) /\ t.since \in Nat
    /\ t.erred \in BOOLEAN

TypeOK ==
    /\ node \in NodeSetups /\ now \in Nat
    /\ conn = [c \in Conns |-> conn[c]] /\ \A c \in Conns : TaskOK(conn[c])
    /\ sent \in [Conns -> Seq(Requests)]
    /\ replies \in [Conns -> Seq([n : Nat, body : Bodies])]
    /\ log \in [Conns -> Seq(Seq(Entries))]

\* A connection takes requests in their order and holds at most one.
InHand == \A c \in Conns : conn[c].at \in {"work", "stream"} => Len(replies[c]) < Len(sent[c])

\* A plan that can write was made for a request that may.
PlanHeld == \A c \in Conns : conn[c].at = "work" =>
                \/ conn[c].plan \in Seq(Quiet)
                \/ MayWrite(sent[c][Current(c)].tok, conn[c].since)

\* Every request sent has a log.
LogRefers == \A c \in Conns : Len(log[c]) = Len(sent[c])

DoorInv == TypeOK /\ InHand /\ PlanHeld /\ LogRefers /\ WritesAuthorized

----------------------------------------------------------------------------
(* Sequences.                                                              *)

\* t[i] is the first i of the sequences q of S, laid end to end.
LaidOut(t, n, S, q) ==
    /\ t \in [0..n -> Seq(S)] /\ t[0] = <<>> /\ FlattenSeq(q) = t[n]
    /\ \A i \in 1..n : t[i] = t[i - 1] \o q[i]

\* Sequences of S are laid end to end one after the other.
LEMMA FlattenThread ==
  ASSUME NEW S, NEW n \in Nat, NEW q, q \in [1..n -> Seq(S)]
  PROVE  \E t : LaidOut(t, n, S, q)
<1>1. q \in Seq(Seq(S)) /\ Len(q) = n
  OBVIOUS
<1>2. CASE n = 0
  <2>1. FlattenSeq(q) = q
    BY <1>1, <1>2 DEF FlattenSeq
  <2>2. q = <<>>
    BY <1>1, <1>2
  <2> DEFINE t == [i \in 0..n |-> <<>>]
  <2>3. /\ t \in [0..n -> Seq(S)] /\ t[0] = <<>> /\ FlattenSeq(q) = t[n]
        /\ \A i \in 1..n : t[i] = t[i - 1] \o q[i]
    BY <1>2, <2>1, <2>2
  <2> HIDE DEF t
  <2>4. QED
    BY <2>3 DEF LaidOut
<1>3. CASE n # 0
  <2> DEFINE G == [x \in (1..n) \X Seq(S) |-> x[2] \o q[x[1]]]
             flatten == CHOOSE f : f = [i \in 1..n |-> IF i = 1 THEN q[i] ELSE f[i - 1] \o q[i]]
  <2>1. G \in StepFns(n, Seq(S))
    BY DEF StepFns
  <2>2. <<>> \in Seq(S)
    OBVIOUS
  <2>3. PICK t : IsThread(t, n, Seq(S), <<>>, G)
    BY <2>1, <2>2, Threaded
  <2>4. t \in [0..n -> Seq(S)] /\ t[0] = <<>>
    BY <2>3 DEF IsThread
  <2>5. \A i \in 1..n : t[i] = t[i - 1] \o q[i]
    <3>1. SUFFICES ASSUME NEW i \in 1..n PROVE t[i] = t[i - 1] \o q[i]
      OBVIOUS
    <3>2. i - 1 \in 0..n
      OBVIOUS
    <3>3. <<i, t[i - 1]>> \in (1..n) \X Seq(S)
      BY <2>4, <3>2
    <3>4. QED
      BY <2>3, <3>3 DEF IsThread
  <2> DEFINE g == [i \in 1..n |-> t[i]]
  <2>6. g = [i \in 1..n |-> IF i = 1 THEN q[i] ELSE g[i - 1] \o q[i]]
    <3>1. SUFFICES ASSUME NEW i \in 1..n PROVE t[i] = IF i = 1 THEN q[i] ELSE g[i - 1] \o q[i]
      OBVIOUS
    <3>2. CASE i = 1
      <4>1. t[i] = <<>> \o q[i]
        <5>1. i - 1 = 0
          BY <3>2
        <5>2. QED
          BY <2>4, <2>5, <5>1
      <4>2. q[i] \in Seq(S)
        OBVIOUS
      <4>3. QED
        BY <3>2, <4>1, <4>2
    <3>3. CASE i # 1
      <4>1. i - 1 \in 1..n
        BY <3>3
      <4>2. g[i - 1] = t[i - 1]
        BY <4>1
      <4>3. QED
        BY <2>5, <3>3, <4>2
    <3>4. QED
      BY <3>2, <3>3
  <2> HIDE DEF g
  <2>7. flatten = [i \in 1..n |-> IF i = 1 THEN q[i] ELSE flatten[i - 1] \o q[i]]
    BY <2>6
  <2> HIDE DEF flatten
  <2>8. \A i \in 0..n : i \in {k \in 0..n : k = 0 \/ flatten[k] \in Seq(S)}
    <3> DEFINE P == {k \in 0..n : k = 0 \/ flatten[k] \in Seq(S)}
    <3>1. 0 \in P
      OBVIOUS
    <3>2. ASSUME NEW k \in 1..n, k - 1 \in P PROVE k \in P
      <4>1. q[k] \in Seq(S) /\ k \in 0..n
        OBVIOUS
      <4>2. CASE k = 1
        <5>1. flatten[k] = q[k]
          BY <2>7, <4>2
        <5>2. QED
          BY <4>1, <5>1
      <4>3. CASE k # 1
        <5>1. flatten[k] = flatten[k - 1] \o q[k]
          BY <2>7, <4>3
        <5>2. flatten[k - 1] \in Seq(S)
          BY <3>2, <4>3
        <5>3. flatten[k - 1] \o q[k] \in Seq(S)
          BY <4>1, <5>2
        <5>4. flatten[k] \in Seq(S)
          BY <5>1, <5>3
        <5>5. QED
          BY <4>1, <5>4
      <4>4. QED
        BY <4>2, <4>3
    <3> HIDE DEF P
    <3>3. \A k \in 0..n : k \in P
      BY <3>1, <3>2, Inductive
    <3>4. QED
      BY <3>3 DEF P
  <2> DEFINE u == [i \in 0..n |-> IF i = 0 THEN <<>> ELSE flatten[i]]
  <2>9. u \in [0..n -> Seq(S)] /\ u[0] = <<>>
    BY <2>2, <2>8
  <2>10. FlattenSeq(q) = flatten[n]
    BY <1>1, <1>3 DEF FlattenSeq, flatten
  <2>11. u[n] = flatten[n]
    BY <1>3
  <2>12. ASSUME NEW i \in 1..n PROVE u[i] = u[i - 1] \o q[i]
    <3>1. i \in 0..n /\ i # 0 /\ i - 1 \in 0..n /\ q[i] \in Seq(S)
      OBVIOUS
    <3>2. u[i] = flatten[i]
      BY <3>1
    <3>3. CASE i = 1
      <4>1. u[i - 1] = <<>>
        BY <3>1, <3>3
      <4>2. flatten[i] = q[i]
        BY <2>7, <3>3
      <4>3. <<>> \o q[i] = q[i]
        BY <3>1
      <4>4. QED
        BY <3>2, <4>1, <4>2, <4>3
    <3>4. CASE i # 1
      <4>1. i - 1 # 0
        BY <3>4
      <4>2. u[i - 1] = flatten[i - 1]
        BY <3>1, <4>1
      <4>3. flatten[i] = flatten[i - 1] \o q[i]
        BY <2>7, <3>4
      <4>4. QED
        BY <3>2, <4>2, <4>3
    <3>5. QED
      BY <3>3, <3>4
  <2> HIDE DEF u
  <2>13. QED
    BY <2>9, <2>10, <2>11, <2>12 DEF LaidOut
<1>4. QED
  BY <1>2, <1>3

\* Laying sequences of S end to end gives a sequence of S.
LEMMA FlattenType ==
  ASSUME NEW S, NEW n \in Nat, NEW q, q \in [1..n -> Seq(S)]
  PROVE  FlattenSeq(q) \in Seq(S)
<1>1. PICK t : LaidOut(t, n, S, q)
  BY FlattenThread
<1>2. n \in 0..n
  OBVIOUS
<1>3. QED
  BY <1>1, <1>2 DEF LaidOut

\* What is left of a sequence after its head, or after two elements, consists of its elements.
LEMMA TailType ==
  ASSUME NEW S, NEW s \in Seq(S), s # <<>>
  PROVE  Tail(s) \in Seq(S) /\ SubSeq(s, 3, Len(s)) \in Seq(S) /\ Head(s) \in S
<1>1. Len(s) \in Nat /\ Len(s) # 0
  OBVIOUS
<1>2. \A i \in 3..Len(s) : i \in 1..Len(s)
  BY <1>1
<1>3. SubSeq(s, 3, Len(s)) \in Seq(S)
  BY <1>1, <1>2
<1>4. QED
  BY <1>1, <1>3

\* Short sequences laid end to end.
LEMMA Cat ==
  ASSUME NEW x, NEW y, NEW z
  PROVE  /\ <<x>> \o <<y>> = <<x, y>> /\ <<x>> \o <<y, z>> = <<x, y, z>> /\ <<>> \o <<x, y>> = <<x, y>>
<1>0. PICK S : S = {x, y, z}
  OBVIOUS
<1>1. <<x>> \o <<y>> = <<x, y>>
  <2>1. <<x>> \in Seq(S) /\ <<y>> \in Seq(S) /\ <<x, y>> \in Seq(S)
    BY <1>0
  <2>2. Len(<<x>> \o <<y>>) = 2 /\ (<<x>> \o <<y>>)[1] = x /\ (<<x>> \o <<y>>)[2] = y
    BY <2>1
  <2>3. <<x>> \o <<y>> \in Seq(S)
    BY <2>1
  <2>4. \A i \in 1..2 : (<<x>> \o <<y>>)[i] = <<x, y>>[i]
    <3>1. 1..2 = {1, 2}
      OBVIOUS
    <3>2. QED
      BY <2>2, <3>1
  <2>5. QED
    BY <2>1, <2>2, <2>3, <2>4, SeqEqual
<1>2. <<x>> \o <<y, z>> = <<x, y, z>>
  <2>1. <<x>> \in Seq(S) /\ <<y, z>> \in Seq(S) /\ <<x, y, z>> \in Seq(S)
    BY <1>0
  <2>2. /\ Len(<<x>> \o <<y, z>>) = 3 /\ (<<x>> \o <<y, z>>)[1] = x
        /\ (<<x>> \o <<y, z>>)[2] = y /\ (<<x>> \o <<y, z>>)[3] = z
    BY <2>1
  <2>3. <<x>> \o <<y, z>> \in Seq(S)
    BY <2>1
  <2>4. \A i \in 1..3 : (<<x>> \o <<y, z>>)[i] = <<x, y, z>>[i]
    <3>1. 1..3 = {1, 2, 3}
      OBVIOUS
    <3>2. QED
      BY <2>2, <3>1
  <2>5. QED
    BY <2>1, <2>2, <2>3, <2>4, SeqEqual
<1>3. <<>> \o <<x, y>> = <<x, y>>
  OBVIOUS
<1>4. QED
  BY <1>1, <1>2, <1>3

\* Sequences of S laid end to end.
LEMMA CatType ==
  ASSUME NEW S, NEW s \in Seq(S), NEW t \in Seq(S)
  PROVE  s \o t \in Seq(S)
OBVIOUS

\* An index of a concatenation is one of its first part or stands for one of the second.
LEMMA ConcatIndex ==
  ASSUME NEW S, NEW s \in Seq(S), NEW t \in Seq(S), NEW i \in DOMAIN (s \o t), i \notin DOMAIN s
  PROVE  \E j \in DOMAIN t : (s \o t)[i] = t[j]
<1>1. Len(s) \in Nat /\ Len(t) \in Nat /\ i \in 1..(Len(s) + Len(t)) /\ ~(i \in 1..Len(s))
  OBVIOUS
<1>2. i - Len(s) \in DOMAIN t
  BY <1>1
<1>3. (s \o t)[i] = t[i - Len(s)]
  BY <1>1
<1>4. QED
  BY <1>2, <1>3

----------------------------------------------------------------------------
(* Plans.                                                                  *)

\* The steps a plan is made of.
LEMMA StepTypes ==
  ASSUME NEW ops \in Seq(AllOps), NEW fails \in Fails
  PROVE  /\ Embed(fails) \in Quiet /\ Call(fails) \in Quiet /\ Reply(fails) \in Quiet /\ Tear \in Quiet
         /\ Await("tear", <<>>, fails) \in Quiet
         /\ Await("read", <<>>, fails) \in Quiet /\ Await("quorum", <<>>, fails) \in Quiet
         /\ Commit(ops, fails) \in Steps /\ Await("write", ops, fails) \in Steps
         /\ Quiet \subseteq Steps
BY DEF Quiet, Steps, Dos, Fails, Embed, Call, Reply, Tear, Commit, Await

\* A write of the estate is a plan.
LEMMA EstateWriteType ==
  ASSUME NEW r \in Requests, NEW fails \in Fails
  PROVE  estate_write(r, fails) \in Seq(Steps)
<1>1. r.ops \in Seq(AllOps)
  BY RequestsFormed
<1>2. \A i \in DOMAIN r.ops : <<r.ops[i]>> \in Seq(AllOps)
  BY <1>1
<1>3. \A i \in DOMAIN r.ops : Commit(<<r.ops[i]>>, fails) \in Steps
  BY <1>2, StepTypes
<1>4. [i \in DOMAIN r.ops |-> Commit(<<r.ops[i]>>, fails)] \in Seq(Steps)
  <2>1. DOMAIN r.ops = 1..Len(r.ops) /\ Len(r.ops) \in Nat
    BY <1>1
  <2>2. QED
    BY <1>3, <2>1
<1>5. <<Await("read", <<>>, fails), Await("write", r.ops, fails)>> \in Seq(Steps)
  BY <1>1, StepTypes
<1>6. <<Commit(r.ops, fails)>> \in Seq(Steps)
  BY <1>1, StepTypes
<1>7. QED
  BY <1>4, <1>5, <1>6 DEF estate_write

\* Operations laid end to end, each as a list of steps of S.
LEMMA PerOpType ==
  ASSUME NEW S, NEW ops \in Seq(AllOps), NEW q, DOMAIN q = DOMAIN ops,
         q = [i \in DOMAIN ops |-> q[i]], \A i \in DOMAIN ops : q[i] \in Seq(S)
  PROVE  FlattenSeq(q) \in Seq(S)
<1>1. Len(ops) \in Nat /\ DOMAIN ops = 1..Len(ops)
  OBVIOUS
<1>2. q \in [1..Len(ops) -> Seq(S)]
  BY <1>1
<1>3. QED
  BY <1>1, <1>2, FlattenType

\* A plan of quiet steps is a plan.
LEMMA QuietIsPlan ==
  ASSUME NEW p \in Seq(Quiet) PROVE p \in Seq(Steps)
BY StepTypes DEF Quiet

\* Verbs that only read have plans without a write.
LEMMA ReadVerbsQuiet ==
  ASSUME NEW r
  PROVE  /\ ask_plan(r) \in Seq(Quiet) /\ feed_plan(r) \in Seq(Quiet)
         /\ query_plan(r) \in Seq(Quiet) /\ discover_plan(r) \in Seq(Quiet)
         /\ BadArguments(r.verb) \in Seq(Quiet)
         /\ <<Reply("error")>> \in Seq(Quiet) /\ <<Reply("ok")>> \in Seq(Quiet)
         /\ <<Reply("unauthorized")>> \in Seq(Quiet) /\ <<Reply("errors")>> \in Seq(Quiet)
<1>1. {"tear", "error", "ok", "unauthorized", "errors", "skip"} \subseteq Fails /\ <<>> \in Seq(AllOps)
  BY DEF Fails
<1>2. \A f \in Fails : /\ Embed(f) \in Quiet /\ Call(f) \in Quiet /\ Reply(f) \in Quiet /\ Tear \in Quiet
  BY <1>1, StepTypes
<1>3. ask_plan(r) \in Seq(Quiet)
  BY <1>1, <1>2 DEF ask_plan
<1>4. feed_plan(r) \in Seq(Quiet)
  BY <1>1, <1>2 DEF feed_plan
<1>5. query_plan(r) \in Seq(Quiet)
  <2>1. <<Embed("tear")>> \in Seq(Quiet) /\ <<Call("error"), Reply("ok")>> \in Seq(Quiet) /\ <<>> \in Seq(Quiet)
    BY <1>1, <1>2
  <2>2. QED
    BY <2>1 DEF query_plan
<1>6. discover_plan(r) \in Seq(Quiet)
  BY <1>1, <1>2 DEF discover_plan
<1>7. BadArguments(r.verb) \in Seq(Quiet)
  BY <1>1, <1>2 DEF BadArguments
<1>8. QED
  BY <1>1, <1>2, <1>3, <1>4, <1>5, <1>6, <1>7

\* A statement that does not write has a quiet plan, and every statement has one of steps.
LEMMA SqlPlans ==
  ASSUME NEW r \in Requests, NEW role
  PROVE  /\ sql_plan(r, role) \in Seq(Steps)
         /\ role = "reader" => sql_plan(r, role) \in Seq(Quiet)
<1>1. {"tear", "error", "ok", "unauthorized", "errors", "skip"} \subseteq Fails /\ <<>> \in Seq(AllOps)
  BY DEF Fails
<1>2. \A f \in Fails : Embed(f) \in Quiet /\ Call(f) \in Quiet /\ Reply(f) \in Quiet
  BY <1>1, StepTypes
<1>3. /\ <<Call("error"), Reply("ok")>> \in Seq(Quiet)
      /\ <<Embed("error"), Call("error"), Reply("ok")>> \in Seq(Quiet)
  BY <1>1, <1>2
<1>4. /\ <<Reply("error")>> \in Seq(Quiet) /\ <<Reply("unauthorized")>> \in Seq(Quiet)
      /\ <<Reply("ok")>> \in Seq(Quiet)
  BY <1>1, <1>2
<1>5. estate_write(r, "error") \o <<Reply("ok")>> \in Seq(Steps)
  <2>1. estate_write(r, "error") \in Seq(Steps)
    BY <1>1, EstateWriteType
  <2>2. <<Reply("ok")>> \in Seq(Steps)
    BY <1>4, QuietIsPlan
  <2>3. QED
    BY <2>1, <2>2
<1>6. r.stmt # "write" => apply(r) \in Seq(Quiet)
  BY <1>3, <1>4 DEF apply
<1>7. apply(r) \in Seq(Steps)
  <2>1. r.stmt = "write" => apply(r) \in Seq(Steps)
    BY <1>5 DEF apply
  <2>2. QED
    BY <1>6, <2>1, QuietIsPlan
<1>8. role = "reader" => sql_plan(r, role) \in Seq(Quiet)
  BY <1>3, <1>4, <1>6 DEF sql_plan, is_write
<1>9. \/ sql_plan(r, role) \in Seq(Quiet)
      \/ sql_plan(r, role) = apply(r)
  BY <1>3, <1>4 DEF sql_plan
<1>10. QED
  BY <1>7, <1>8, <1>9, QuietIsPlan

\* So with GraphQL documents, whose fields are resolved one after the other.
LEMMA GraphqlPlans ==
  ASSUME NEW r \in Requests, NEW role
  PROVE  /\ graphql_plan(r, role) \in Seq(Steps)
         /\ role = "reader" => graphql_plan(r, role) \in Seq(Quiet)
<1> DEFINE q == [i \in DOMAIN r.ops |-> IF is_mutation(r) THEN resolve_mutation(r.ops[i])
                                        ELSE resolve_root(r.ops[i])]
<1>1. {"tear", "error", "ok", "unauthorized", "errors", "skip"} \subseteq Fails /\ <<>> \in Seq(AllOps)
  BY DEF Fails
<1>2. \A f \in Fails : /\ Embed(f) \in Quiet /\ Call(f) \in Quiet /\ Reply(f) \in Quiet
                       /\ Await("tear", <<>>, f) \in Quiet
  BY <1>1, StepTypes
<1>3. r.ops \in Seq(AllOps)
  BY RequestsFormed
<1>4. /\ <<Reply("errors")>> \in Seq(Quiet) /\ <<Reply("unauthorized")>> \in Seq(Quiet)
      /\ <<Reply("ok")>> \in Seq(Quiet)
  BY <1>1, <1>2
<1>5. \A i \in DOMAIN r.ops : resolve_root(r.ops[i]) \in Seq(Quiet)
  BY <1>1, <1>2 DEF resolve_root
<1>6. ASSUME NEW i \in DOMAIN r.ops PROVE resolve_mutation(r.ops[i]) \in Seq(Steps)
  <2>1. <<r.ops[i]>> \in Seq(AllOps)
    BY <1>3
  <2>2. Commit(<<r.ops[i]>>, "skip") \in Steps /\ Embed("skip") \in Steps /\ Await("tear", <<>>, "skip") \in Steps
    BY <1>1, <2>1, StepTypes
  <2>3. /\ <<Embed("skip"), Commit(<<r.ops[i]>>, "skip")>> \in Seq(Steps)
        /\ <<Commit(<<r.ops[i]>>, "skip")>> \in Seq(Steps)
        /\ <<Await("tear", <<>>, "skip")>> \in Seq(Steps)
    BY <2>2
  <2>4. QED
    BY <2>3 DEF resolve_mutation
<1>7. ~is_mutation(r) => FlattenSeq(q) \in Seq(Quiet)
  <2>1. SUFFICES ASSUME ~is_mutation(r) PROVE FlattenSeq(q) \in Seq(Quiet)
    OBVIOUS
  <2>2. \A i \in DOMAIN r.ops : q[i] \in Seq(Quiet)
    BY <1>5, <2>1
  <2>3. QED
    BY <1>3, <2>2, PerOpType
<1>8. is_mutation(r) => FlattenSeq(q) \in Seq(Steps)
  <2>1. SUFFICES ASSUME is_mutation(r) PROVE FlattenSeq(q) \in Seq(Steps)
    OBVIOUS
  <2>2. \A i \in DOMAIN r.ops : q[i] \in Seq(Steps)
    BY <1>6, <2>1
  <2>3. QED
    BY <1>3, <2>2, PerOpType
<1>9. execute(r) = IF r.stmt = "malformed" THEN <<Reply("errors")>> ELSE FlattenSeq(q) \o <<Reply("ok")>>
  BY DEF execute
<1> HIDE DEF q
<1>10. ~is_mutation(r) => execute(r) \in Seq(Quiet)
  BY <1>4, <1>7, <1>9
<1>11. execute(r) \in Seq(Steps)
  <2>1. <<Reply("ok")>> \in Seq(Steps) /\ <<Reply("errors")>> \in Seq(Steps)
    BY <1>4, QuietIsPlan
  <2>2. FlattenSeq(q) \in Seq(Steps)
    BY <1>7, <1>8, QuietIsPlan
  <2>3. QED
    BY <1>9, <2>1, <2>2
<1>12. \/ graphql_plan(r, role) \in Seq(Quiet)
       \/ graphql_plan(r, role) = execute(r)
  BY <1>4 DEF graphql_plan
<1>13. role = "reader" => graphql_plan(r, role) \in Seq(Quiet)
  BY <1>4, <1>10 DEF graphql_plan
<1>14. QED
  BY <1>11, <1>12, <1>13, QuietIsPlan

\* The verbs that write.
LEMMA WriteVerbPlans ==
  ASSUME NEW r \in Requests
  PROVE  /\ tx_plan(r) \in Seq(Steps) /\ index_plan(r) \in Seq(Steps)
         /\ graph_plan(r) \in Seq(Steps) /\ admin_plan(r) \in Seq(Steps)
         /\ r.verb # "relate" => graph_plan(r) \in Seq(Quiet)
         /\ r.verb \notin PayloadVerbs \cup {"drop_collection", "create_alias", "delete_alias"} =>
                admin_plan(r) \in Seq(Quiet)
<1> DEFINE q == [i \in DOMAIN r.ops |-> IF r.ops[i].op = "upsert" THEN <<Embed("tear")>>
                                        ELSE IF r.ops[i].op = "bad" THEN <<Tear>> ELSE <<>>]
<1>1. {"tear", "error", "ok", "unauthorized", "errors", "skip"} \subseteq Fails /\ <<>> \in Seq(AllOps)
  BY DEF Fails
<1>2. \A f \in Fails : /\ Embed(f) \in Quiet /\ Call(f) \in Quiet /\ Reply(f) \in Quiet /\ Tear \in Quiet
                       /\ Await("quorum", <<>>, f) \in Quiet
  BY <1>1, StepTypes
<1>3. r.ops \in Seq(AllOps)
  BY RequestsFormed
<1>4. \A f \in Fails : Commit(r.ops, f) \in Steps
  BY <1>3, StepTypes
<1>5. Quiet \subseteq Steps
  BY DEF Quiet
<1>6. <<Reply("ok")>> \in Seq(Quiet) /\ <<Reply("ok")>> \in Seq(Steps)
  BY <1>1, <1>2, <1>5
<1>7. tx_plan(r) \in Seq(Steps)
  <2>1. \A i \in DOMAIN r.ops : q[i] \in Seq(Steps)
    BY <1>1, <1>2, <1>5
  <2>2. FlattenSeq(q) \in Seq(Steps)
    BY <1>3, <2>1, PerOpType
  <2>3. <<Commit(r.ops, "tear")>> \in Seq(Steps)
    BY <1>1, <1>4
  <2>4. <<Call("tear"), Await("quorum", <<>>, "error")>> \in Seq(Steps) /\ <<>> \in Seq(Steps)
    BY <1>1, <1>2, <1>5
  <2>5. tx_plan(r) = FlattenSeq(q) \o <<Commit(r.ops, "tear")>>
                       \o (IF r.quorum THEN <<Call("tear"), Await("quorum", <<>>, "error")>> ELSE <<>>)
                       \o <<Reply("ok")>>
    BY DEF tx_plan
  <2> HIDE DEF q
  <2>6. QED
    BY <1>6, <2>2, <2>3, <2>4, <2>5
<1>8. index_plan(r) \in Seq(Steps)
  <2>1. /\ Embed("tear") \in Steps /\ Commit(r.ops, "tear") \in Steps
        /\ Call("tear") \in Steps /\ Reply("ok") \in Steps
    BY <1>1, <1>2, <1>4, <1>5
  <2>2. QED
    BY <2>1 DEF index_plan
<1>9. estate_write(r, "error") \in Seq(Steps) /\ estate_write(r, "tear") \in Seq(Steps)
  BY <1>1, EstateWriteType
<1>10. /\ <<Call("error")>> \in Seq(Quiet) /\ <<Call("tear")>> \in Seq(Quiet)
       /\ <<Call("error")>> \in Seq(Steps) /\ <<Call("tear")>> \in Seq(Steps)
  BY <1>1, <1>2, <1>5
<1>11. graph_plan(r) \in Seq(Steps)
  BY <1>6, <1>9, <1>10 DEF graph_plan
<1>12. r.verb # "relate" => graph_plan(r) \in Seq(Quiet)
  BY <1>6, <1>10 DEF graph_plan
<1>13. admin_plan(r) \in Seq(Steps)
  BY <1>6, <1>9, <1>10 DEF admin_plan
<1>14. r.verb \notin PayloadVerbs \cup {"drop_collection", "create_alias", "delete_alias"} =>
           admin_plan(r) \in Seq(Quiet)
  BY <1>6, <1>10 DEF admin_plan, PayloadVerbs
<1>15. QED
  BY <1>7, <1>8, <1>11, <1>12, <1>13, <1>14

\* Whatever the verb and the role, the plan consists of steps.
LEMMA PlanSteps ==
  ASSUME NEW r \in Requests, NEW role
  PROVE  plan(r, role) \in Seq(Steps)
<1>1. /\ ask_plan(r) \in Seq(Steps) /\ feed_plan(r) \in Seq(Steps)
      /\ query_plan(r) \in Seq(Steps) /\ discover_plan(r) \in Seq(Steps)
      /\ BadArguments(r.verb) \in Seq(Steps) /\ <<Reply("error")>> \in Seq(Steps)
  BY ReadVerbsQuiet, QuietIsPlan
<1>2. /\ sql_plan(r, role) \in Seq(Steps) /\ graphql_plan(r, role) \in Seq(Steps)
      /\ tx_plan(r) \in Seq(Steps) /\ index_plan(r) \in Seq(Steps)
      /\ graph_plan(r) \in Seq(Steps) /\ admin_plan(r) \in Seq(Steps)
  BY SqlPlans, GraphqlPlans, WriteVerbPlans
<1>3. QED
  BY <1>1, <1>2 DEF plan

\* A verb that is open to readers has a quiet plan when a reader calls it.
LEMMA ReaderPlan ==
  ASSUME NEW r \in Requests, min_role(r.verb) = "reader"
  PROVE  plan(r, "reader") \in Seq(Quiet)
<1>1. /\ ask_plan(r) \in Seq(Quiet) /\ feed_plan(r) \in Seq(Quiet)
      /\ query_plan(r) \in Seq(Quiet) /\ discover_plan(r) \in Seq(Quiet)
      /\ BadArguments(r.verb) \in Seq(Quiet) /\ <<Reply("error")>> \in Seq(Quiet)
  BY ReadVerbsQuiet
<1>2. sql_plan(r, "reader") \in Seq(Quiet) /\ graphql_plan(r, "reader") \in Seq(Quiet)
  BY SqlPlans, GraphqlPlans
<1>3. r.verb \notin {"index", "tx", "relate", "drop_collection", "create_alias", "delete_alias"} \cup PayloadVerbs
  BY DEF min_role, PayloadVerbs
<1>4. graph_plan(r) \in Seq(Quiet) /\ admin_plan(r) \in Seq(Quiet)
  BY <1>3, WriteVerbPlans
<1>5. QED
  BY <1>1, <1>2, <1>3, <1>4 DEF plan

\* authorize: who passes it with a plan that writes may write.
LEMMA AcceptedPlan ==
  ASSUME node \in NodeSetups, NEW r \in Requests, authorize(r) # "refused"
  PROVE  plan(r, authorize(r)) \in Seq(Quiet) \/ MayWrite(r.tok, now)
<1>1. node.gate \in {"open", "secret", "rbac"} /\ r.tok.role \in {"reader", "writer", "admin"}
  BY RequestsFormed, NodesFormed
<1>2. CASE r.verb = "ping"
  <2>1. plan(r, authorize(r)) = IF r.stmt = "malformed" THEN BadArguments(r.verb) ELSE ask_plan(r)
    BY <1>2 DEF plan, NeedsEstate
  <2>2. QED
    BY <2>1, ReadVerbsQuiet
<1>3. CASE r.verb # "ping" /\ node.gate = "open"
  BY <1>3 DEF MayWrite
<1>4. CASE r.verb # "ping" /\ node.gate = "secret"
  BY <1>4 DEF MayWrite, authorize
<1>5. CASE r.verb # "ping" /\ node.gate = "rbac"
  <2>1. authorize(r) = policy_authorize(r.tok, r.verb)
    BY <1>5 DEF authorize
  <2>2. /\ r.tok.key = "local" /\ r.tok.exp > now /\ ("any" \in {node.ns, r.tok.ns} \/ node.ns = r.tok.ns)
        /\ allows(r.tok.role, r.verb) /\ authorize(r) = r.tok.role
    BY <2>1 DEF policy_authorize
  <2>3. CASE r.tok.role \in {"writer", "admin"}
    BY <1>5, <2>2, <2>3 DEF MayWrite
  <2>4. CASE r.tok.role = "reader"
    <3>1. min_role(r.verb) \in {"reader", "writer", "admin"}
      BY DEF min_role
    <3>2. Rank("reader") >= Rank(min_role(r.verb))
      BY <2>2, <2>4 DEF allows
    <3>3. Rank("reader") = 1 /\ Rank("writer") = 2 /\ Rank("admin") = 3
      BY DEF Rank
    <3>4. min_role(r.verb) = "reader"
      BY <3>1, <3>2, <3>3
    <3>5. QED
      BY <2>2, <2>4, <3>4, ReaderPlan
  <2>5. QED
    BY <1>1, <2>3, <2>4
<1>6. QED
  BY <1>1, <1>2, <1>3, <1>4, <1>5

----------------------------------------------------------------------------
(* What a reply says: the plan in hand and the writes done so far together *)
(* make up what was asked.                                                 *)

\* What a request asks of the estate: the fields of a GraphQL query are no writes.
Asked(r) == IF r.verb = "graphql" /\ r.stmt # "write" THEN <<>> ELSE r.ops
Marks(r) == 0..Len(Asked(r))

\* Where a step of a kind may occur: only a GraphQL document goes on after a failure, or is
\* answered with errors, and only tx waits for a quorum.
Fits(s, r) ==
    /\ s.fails = "skip" => r.verb = "graphql"
    /\ s.do = "quorum" => r.verb = "tx"
    /\ s.do = "reply" /\ s.fails = "errors" => r.verb = "graphql"

\* With the first a operations in the estate, step s may be next, and leaves the first b
\* there.  A step that ends the handler ("tear") leaves any number.
Carries(s, r, a, b) ==
    /\ Fits(s, r)
    /\ s.do \in {"commit", "write"} => a <= b /\ s.ops = SubSeq(Asked(r), a + 1, b)
    /\ s.do \in {"embed", "call", "read"} => b = a
    /\ s.do = "quorum" \/ (s.do = "reply" /\ s.fails = "ok") => a = Len(Asked(r))
    /\ s.do = "quorum" => b = a
    /\ s.do = "reply" /\ s.fails # "ok" => a = 0
    /\ OneCommit(r) /\ s.do \notin {"quorum", "reply"} => a = 0
    /\ r.verb = "tx" => b \in {0, Len(Asked(r))}

\* The steps of p, one after the other, take the estate from the first a operations to the
\* first b.
Feeds(p, r, a, b) ==
    \E m \in [0..Len(p) -> Marks(r)] :
        /\ m[0] = a /\ m[Len(p)] = b
        /\ \A i \in 1..Len(p) : Carries(p[i], r, m[i - 1], m[i])

\* The operations of a log.
OpsOf(l) == [i \in DOMAIN l |-> l[i].op]

\* What is in the estate of request r is the beginning of what it asked, and p the rest.
Underway(r, done, p) ==
    \E a, b \in Marks(r) : /\ done = SubSeq(Asked(r), 1, a)
                           /\ r.verb = "tx" => a \in {0, Len(Asked(r))}
                           /\ Feeds(p, r, a, b)

\* A reply and what it says of its request.
Told(r, body, done) ==
    /\ (Client_call(body) = "ok" /\ r.verb # "graphql") \/ body = "committed_local" => done = r.ops
    /\ body \in {"unauthorized", "refused"} => done = <<>>
    /\ body = "error" /\ OneCommit(r) => done = <<>>
    /\ body = "ok" /\ r.verb = "graphql" /\ r.stmt = "write" => done = r.ops

\* A handler at work on the request after those answered: its plan leads from what it did to
\* what was asked, until a field of a document failed.
WorkTrue(t, s, e, l) ==
    t.at = "work" =>
        LET r == s[Len(e) + 1]
        IN  /\ Len(e) < Len(s)
            /\ \A i \in DOMAIN t.plan : Fits(t.plan[i], r)
            /\ t.erred => r.verb = "graphql"
            /\ ~t.erred => Underway(r, OpsOf(l[Len(e) + 1]), t.plan)

\* Between requests no error is remembered; only a subscription streams; a request that no
\* handler took up wrote nothing.
RestTrue(t, s, e, l) ==
    /\ t.at \in {"idle", "stream"} => ~t.erred
    /\ t.at = "stream" => Len(e) < Len(s) /\ s[Len(e) + 1].verb \in {"watch", "live"}
    /\ t.at # "closed" =>
          \A n \in DOMAIN s : n > Len(e) + (IF t.at = "work" THEN 1 ELSE 0) => l[n] = <<>>

\* The replies are those of the first requests, in order, and true; a tx is whole or nothing.
PastTrue(s, e, l) ==
    /\ Len(e) <= Len(s) /\ Len(l) = Len(s)
    /\ \A i \in DOMAIN e : e[i].n = i /\ Told(s[i], e[i].body, OpsOf(l[i]))
    /\ \A n \in DOMAIN s : s[n].verb = "tx" => OpsOf(l[n]) \in {<<>>, s[n].ops}

\* A connection whose task is t, with requests s, replies e and logs l.
TrueConn(t, s, e, l) == WorkTrue(t, s, e, l) /\ RestTrue(t, s, e, l) /\ PastTrue(s, e, l)

TruthInv == \A c \in Conns : TrueConn(conn[c], sent[c], replies[c], log[c])

\* No step, nothing written.
LEMMA FeedsNothing ==
  ASSUME NEW r, Len(Asked(r)) \in Nat, NEW a \in Marks(r)
  PROVE  Feeds(<<>>, r, a, a)
<1> DEFINE m == [i \in 0..0 |-> a]
<1>1. Len(<<>>) = 0 /\ m \in [0..0 -> Marks(r)] /\ m[0] = a /\ 1..0 = {}
  OBVIOUS
<1> HIDE DEF m
<1>2. QED
  BY <1>1 DEF Feeds

\* One step.
LEMMA FeedsOne ==
  ASSUME NEW r, NEW s, NEW a \in Marks(r), NEW b \in Marks(r), Carries(s, r, a, b)
  PROVE  Feeds(<<s>>, r, a, b)
<1> DEFINE m == [i \in 0..1 |-> IF i = 0 THEN a ELSE b]
<1>1. Len(<<s>>) = 1 /\ <<s>>[1] = s
  OBVIOUS
<1>2. m \in [0..1 -> Marks(r)] /\ m[0] = a /\ m[1] = b
  OBVIOUS
<1> HIDE DEF m
<1>3. \A i \in 1..1 : Carries(<<s>>[i], r, m[i - 1], m[i])
  <2>1. SUFFICES ASSUME NEW i \in 1..1 PROVE Carries(<<s>>[i], r, m[i - 1], m[i])
    OBVIOUS
  <2>2. i = 1 /\ i - 1 = 0
    OBVIOUS
  <2>3. QED
    BY <1>1, <1>2, <2>2
<1>4. QED
  BY <1>1, <1>2, <1>3 DEF Feeds

\* One plan after another.
LEMMA FeedsConcat ==
  ASSUME NEW r, NEW a, NEW k, NEW b, NEW p \in Seq(Steps), NEW q \in Seq(Steps),
         Feeds(p, r, a, k), Feeds(q, r, k, b)
  PROVE  Feeds(p \o q, r, a, b)
<1>1. PICK m \in [0..Len(p) -> Marks(r)] :
          /\ m[0] = a /\ m[Len(p)] = k
          /\ \A i \in 1..Len(p) : Carries(p[i], r, m[i - 1], m[i])
  BY DEF Feeds
<1>2. PICK l \in [0..Len(q) -> Marks(r)] :
          /\ l[0] = k /\ l[Len(q)] = b
          /\ \A i \in 1..Len(q) : Carries(q[i], r, l[i - 1], l[i])
  BY DEF Feeds
<1>3. Len(p) \in Nat /\ Len(q) \in Nat /\ Len(p \o q) = Len(p) + Len(q)
  OBVIOUS
<1> DEFINE x == [i \in 0..(Len(p) + Len(q)) |-> IF i <= Len(p) THEN m[i] ELSE l[i - Len(p)]]
<1>4. x \in [0..(Len(p) + Len(q)) -> Marks(r)]
  BY <1>3
<1>5. \A i \in 0..Len(p) : x[i] = m[i]
  BY <1>3
<1>6. \A i \in 0..Len(q) : x[Len(p) + i] = l[i]
  <2>1. SUFFICES ASSUME NEW i \in 0..Len(q) PROVE x[Len(p) + i] = l[i]
    OBVIOUS
  <2>2. Len(p) + i \in 0..(Len(p) + Len(q)) /\ Len(p) + i - Len(p) = i
    BY <1>3
  <2>3. CASE i = 0
    <3>1. x[Len(p) + i] = m[Len(p)]
      BY <1>3, <2>2, <2>3
    <3>2. QED
      BY <1>1, <1>2, <2>3, <3>1
  <2>4. CASE i # 0
    BY <1>3, <2>2, <2>4
  <2>5. QED
    BY <2>3, <2>4
<1> HIDE DEF x
<1>7. x[0] = a /\ x[Len(p) + Len(q)] = b
  BY <1>1, <1>2, <1>3, <1>5, <1>6
<1>8. ASSUME NEW i \in 1..(Len(p) + Len(q)) PROVE Carries((p \o q)[i], r, x[i - 1], x[i])
  <2>1. CASE i <= Len(p)
    <3>1. i \in 1..Len(p) /\ i \in 0..Len(p) /\ i - 1 \in 0..Len(p)
      BY <1>3, <2>1
    <3>2. (p \o q)[i] = p[i]
      BY <1>3, <3>1
    <3>3. QED
      BY <1>1, <1>5, <3>1, <3>2
  <2>2. CASE ~(i <= Len(p))
    <3>1. PICK j \in 1..Len(q) : i = Len(p) + j
      <4>1. i - Len(p) \in 1..Len(q) /\ i = Len(p) + (i - Len(p))
        BY <1>3, <2>2
      <4>2. QED
        BY <4>1
    <3>2. j \in 0..Len(q) /\ j - 1 \in 0..Len(q) /\ i - 1 = Len(p) + (j - 1)
      BY <1>3, <3>1
    <3>3. (p \o q)[i] = q[j]
      BY <1>3, <3>1
    <3>4. x[i] = l[j] /\ x[i - 1] = l[j - 1]
      BY <1>6, <3>1, <3>2
    <3>5. QED
      BY <1>2, <3>3, <3>4
  <2>3. QED
    BY <2>1, <2>2
<1>9. QED
  BY <1>3, <1>4, <1>7, <1>8 DEF Feeds

\* A plan is its first step and the rest.
LEMMA FeedsOn ==
  ASSUME NEW r, NEW a, NEW b, NEW p \in Seq(Steps), p # <<>>, Feeds(p, r, a, b)
  PROVE  \E k \in Marks(r) : Carries(Head(p), r, a, k) /\ Feeds(Tail(p), r, k, b)
<1>1. PICK m \in [0..Len(p) -> Marks(r)] :
          /\ m[0] = a /\ m[Len(p)] = b
          /\ \A i \in 1..Len(p) : Carries(p[i], r, m[i - 1], m[i])
  BY DEF Feeds
<1>2. Len(p) \in Nat /\ Len(p) # 0 /\ Len(Tail(p)) = Len(p) - 1 /\ Head(p) = p[1]
  OBVIOUS
<1>3. 1 \in 0..Len(p) /\ 1 \in 1..Len(p)
  BY <1>2
<1>4. Carries(Head(p), r, a, m[1]) /\ m[1] \in Marks(r)
  <2>1. Carries(p[1], r, m[1 - 1], m[1])
    BY <1>1, <1>3
  <2>2. 1 - 1 = 0
    OBVIOUS
  <2>3. QED
    BY <1>1, <1>2, <1>3, <2>1, <2>2
<1> DEFINE x == [i \in 0..(Len(p) - 1) |-> m[i + 1]]
<1>5. x \in [0..(Len(p) - 1) -> Marks(r)]
  BY <1>2
<1>6. x[0] = m[1] /\ x[Len(p) - 1] = b
  BY <1>1, <1>2
<1>7. ASSUME NEW i \in 1..(Len(p) - 1) PROVE Carries(Tail(p)[i], r, x[i - 1], x[i])
  <2>1. i + 1 \in 1..Len(p) /\ i \in 0..(Len(p) - 1) /\ i - 1 \in 0..(Len(p) - 1)
    BY <1>2
  <2>2. Tail(p)[i] = p[i + 1]
    BY <1>2
  <2>3. x[i] = m[i + 1] /\ x[i - 1] = m[i]
    BY <1>2, <2>1
  <2>4. i + 1 - 1 = i
    OBVIOUS
  <2>5. QED
    BY <1>1, <2>1, <2>2, <2>3, <2>4
<1> HIDE DEF x
<1>8. Feeds(Tail(p), r, m[1], b)
  BY <1>2, <1>5, <1>6, <1>7 DEF Feeds
<1>9. QED
  BY <1>4, <1>8

\* Every step of a plan is one its request may have.
LEMMA FeedsFits ==
  ASSUME NEW r, NEW a, NEW b, NEW p \in Seq(Steps), Feeds(p, r, a, b)
  PROVE  \A i \in DOMAIN p : Fits(p[i], r)
<1>1. DOMAIN p = 1..Len(p)
  OBVIOUS
<1>2. QED
  BY <1>1 DEF Feeds, Carries

\* Plans laid end to end.
LEMMA FeedsFlatten ==
  ASSUME NEW r, Len(Asked(r)) \in Nat, NEW n \in Nat, NEW q, q \in [1..n -> Seq(Steps)],
         NEW k \in [0..n -> Marks(r)], \A i \in 1..n : Feeds(q[i], r, k[i - 1], k[i])
  PROVE  Feeds(FlattenSeq(q), r, k[0], k[n])
<1>0. PICK t : LaidOut(t, n, Steps, q)
  BY FlattenThread
<1>1. /\ t \in [0..n -> Seq(Steps)] /\ t[0] = <<>> /\ FlattenSeq(q) = t[n]
      /\ \A i \in 1..n : t[i] = t[i - 1] \o q[i]
  BY <1>0 DEF LaidOut
<1> DEFINE P == {i \in 0..n : Feeds(t[i], r, k[0], k[i])}
<1>2. 0 \in P
  <2>1. 0 \in 0..n /\ k[0] \in Marks(r)
    OBVIOUS
  <2>2. QED
    BY <1>1, <2>1, FeedsNothing
<1>3. ASSUME NEW i \in 1..n, i - 1 \in P PROVE i \in P
  <2>0. i \in 0..n /\ i - 1 \in 0..n
    OBVIOUS
  <2>1. t[i - 1] \in Seq(Steps) /\ q[i] \in Seq(Steps)
    BY <1>1, <2>0
  <2>2. Feeds(t[i - 1], r, k[0], k[i - 1]) /\ Feeds(q[i], r, k[i - 1], k[i])
    BY <1>3
  <2>3. Feeds(t[i - 1] \o q[i], r, k[0], k[i])
    BY <2>1, <2>2, FeedsConcat
  <2>4. QED
    BY <1>1, <2>0, <2>3
<1> HIDE DEF P
<1>4. \A i \in 0..n : i \in P
  BY <1>2, <1>3, Inductive
<1>5. n \in P
  BY <1>4
<1>6. QED
  BY <1>1, <1>5 DEF P

\* Plans of two and of three steps.
LEMMA FeedsTwo ==
  ASSUME NEW r, NEW a \in Marks(r), NEW k \in Marks(r), NEW b \in Marks(r),
         NEW s \in Steps, NEW t \in Steps, Carries(s, r, a, k), Carries(t, r, k, b)
  PROVE  Feeds(<<s, t>>, r, a, b)
<1>1. Feeds(<<s>>, r, a, k) /\ Feeds(<<t>>, r, k, b)
  BY FeedsOne
<1>2. <<s>> \in Seq(Steps) /\ <<t>> \in Seq(Steps)
  OBVIOUS
<1>3. <<s, t>> = <<s>> \o <<t>>
  BY Cat, Zenon
<1>4. QED
  BY <1>1, <1>2, <1>3, FeedsConcat

\* What a request asks is a sequence of operations.
LEMMA AskedType ==
  ASSUME NEW r \in Requests
  PROVE  /\ Asked(r) \in Seq(AllOps) /\ Len(Asked(r)) \in Nat
         /\ 0 \in Marks(r) /\ Len(Asked(r)) \in Marks(r) /\ Marks(r) \subseteq Nat
<1>1. r.ops \in Seq(AllOps)
  BY RequestsFormed
<1>2. Asked(r) \in Seq(AllOps)
  BY <1>1 DEF Asked
<1>3. QED
  BY <1>2 DEF Marks

\* The steps plans are made of, where they may stand: those that write nothing before
\* anything is written, or after all of it; the write of everything; the answers.
LEMMA StepsCarry ==
  ASSUME NEW r \in Requests, NEW fails \in {"tear", "error", "skip"}, fails = "skip" => r.verb = "graphql"
  PROVE  /\ Carries(Embed(fails), r, 0, 0) /\ Carries(Call(fails), r, 0, 0)
         /\ Carries(Await("read", <<>>, fails), r, 0, 0) /\ Carries(Tear, r, 0, 0)
         /\ Carries(Reply("error"), r, 0, 0) /\ Carries(Reply("unauthorized"), r, 0, 0)
         /\ r.verb = "graphql" => Carries(Reply("errors"), r, 0, 0)
         /\ Carries(Commit(Asked(r), fails), r, 0, Len(Asked(r)))
         /\ Carries(Await("write", Asked(r), fails), r, 0, Len(Asked(r)))
         /\ Carries(Reply("ok"), r, Len(Asked(r)), Len(Asked(r)))
         /\ ~OneCommit(r) => Carries(Call(fails), r, Len(Asked(r)), Len(Asked(r)))
         /\ r.verb = "tx" => Carries(Await("quorum", <<>>, fails), r, Len(Asked(r)), Len(Asked(r)))
<1>1. Asked(r) \in Seq(AllOps) /\ Len(Asked(r)) \in Nat
  BY AskedType
<1>2. Asked(r) = SubSeq(Asked(r), 0 + 1, Len(Asked(r))) /\ 0 <= Len(Asked(r))
  BY <1>1
<1>3. QED
  BY <1>1, <1>2 DEF Carries, Fits, Embed, Call, Tear, Reply, Commit, Await

\* And the write of one operation, where a request may leave some of them.
LEMMA OneCarries ==
  ASSUME NEW r \in Requests, NEW fails \in {"tear", "error", "skip"}, NEW i \in 1..Len(Asked(r)),
         ~OneCommit(r), r.verb # "tx", fails = "skip" => r.verb = "graphql"
  PROVE  /\ i \in Marks(r) /\ i - 1 \in Marks(r)
         /\ Carries(Commit(<<Asked(r)[i]>>, fails), r, i - 1, i)
         /\ Carries(Embed(fails), r, i - 1, i - 1)
         /\ Carries(Await("tear", <<>>, fails), r, i - 1, i)
<1>1. Asked(r) \in Seq(AllOps) /\ Len(Asked(r)) \in Nat
  BY AskedType
<1>2. i \in Marks(r) /\ i - 1 \in Marks(r) /\ i - 1 <= i
  BY <1>1 DEF Marks
<1>3. <<Asked(r)[i]>> = SubSeq(Asked(r), i - 1 + 1, i)
  BY <1>1
<1>4. QED
  BY <1>2, <1>3 DEF Carries, Fits, Embed, Commit, Await

\* p is a plan for r from the start.
Leads(p, r) == \E b \in Marks(r) : Feeds(p, r, 0, b)

\* A plan that leads to everything asked, and the reply.
LEMMA LeadsOk ==
  ASSUME NEW r \in Requests, NEW p \in Seq(Steps), Feeds(p, r, 0, Len(Asked(r)))
  PROVE  Leads(p \o <<Reply("ok")>>, r)
<1>1. Carries(Reply("ok"), r, Len(Asked(r)), Len(Asked(r))) /\ Len(Asked(r)) \in Marks(r)
  BY StepsCarry, AskedType
<1>2. Feeds(<<Reply("ok")>>, r, Len(Asked(r)), Len(Asked(r)))
  BY <1>1, FeedsOne
<1>3. <<Reply("ok")>> \in Seq(Steps)
  BY ReadVerbsQuiet, QuietIsPlan
<1>4. QED
  BY <1>1, <1>2, <1>3, FeedsConcat DEF Leads

\* The answers to what is not done, and the end without one.
LEMMA RefusalsLead ==
  ASSUME NEW r \in Requests
  PROVE  /\ Leads(<<Reply("error")>>, r) /\ Leads(<<Reply("unauthorized")>>, r)
         /\ Leads(<<Tear>>, r) /\ Leads(BadArguments(r.verb), r)
         /\ r.verb = "graphql" => Leads(<<Reply("errors")>>, r)
<1>1. 0 \in Marks(r)
  BY AskedType
<1>2. /\ Carries(Reply("error"), r, 0, 0) /\ Carries(Reply("unauthorized"), r, 0, 0) /\ Carries(Tear, r, 0, 0)
      /\ r.verb = "graphql" => Carries(Reply("errors"), r, 0, 0)
  BY StepsCarry
<1>3. /\ Leads(<<Reply("error")>>, r) /\ Leads(<<Reply("unauthorized")>>, r) /\ Leads(<<Tear>>, r)
      /\ r.verb = "graphql" => Leads(<<Reply("errors")>>, r)
  BY <1>1, <1>2, FeedsOne DEF Leads
<1>4. QED
  BY <1>3 DEF BadArguments

\* A request that asks nothing of the estate.
LEMMA ReadsLead ==
  ASSUME NEW r \in Requests, Asked(r) = <<>>, NEW f \in {"tear", "error"}, NEW g \in {"tear", "error"}
  PROVE  /\ Leads(<<Reply("ok")>>, r) /\ Leads(<<Call(f), Reply("ok")>>, r)
         /\ Leads(<<Embed(f), Call(g), Reply("ok")>>, r)
<1>1. 0 \in Marks(r) /\ Len(Asked(r)) = 0
  BY AskedType
<1>2. Carries(Embed(f), r, 0, 0) /\ Carries(Call(f), r, 0, 0) /\ Carries(Call(g), r, 0, 0)
  BY StepsCarry
<1>3. /\ Embed(f) \in Steps /\ Call(f) \in Steps /\ Call(g) \in Steps /\ Reply("ok") \in Steps
      /\ Carries(Reply("ok"), r, 0, 0)
  <2>1. f \in Fails /\ g \in Fails /\ "ok" \in Fails /\ <<>> \in Seq(AllOps)
    BY DEF Fails
  <2>2. QED
    BY <1>1, <2>1, StepTypes, StepsCarry
<1>4. Leads(<<Reply("ok")>>, r)
  BY <1>1, <1>3, FeedsOne DEF Leads
<1>5. Feeds(<<Call(f)>>, r, 0, 0) /\ Feeds(<<Embed(f), Call(g)>>, r, 0, 0)
  BY <1>1, <1>2, <1>3, FeedsOne, FeedsTwo
<1>6. /\ <<Call(f)>> \in Seq(Steps) /\ <<Embed(f), Call(g)>> \in Seq(Steps)
      /\ <<Call(f), Reply("ok")>> = <<Call(f)>> \o <<Reply("ok")>>
      /\ <<Embed(f), Call(g), Reply("ok")>> = <<Embed(f), Call(g)>> \o <<Reply("ok")>>
  BY <1>3
<1>7. QED
  BY <1>1, <1>4, <1>5, <1>6, LeadsOk

\* A request of one commit drops nothing.
LEMMA NoDrop ==
  ASSUME NEW r \in Requests, OneCommit(r)
  PROVE  \A i \in DOMAIN r.ops : r.ops[i].op # "drop"
BY RequestsFormed DEF OneCommit

\* A write of the estate leaves all of it there.
LEMMA EstateWriteFeeds ==
  ASSUME NEW r \in Requests, Asked(r) = r.ops, r.verb # "tx", NEW fails \in {"tear", "error"}
  PROVE  Feeds(estate_write(r, fails), r, 0, Len(Asked(r)))
<1>1. Asked(r) \in Seq(AllOps) /\ Len(Asked(r)) \in Nat /\ 0 \in Marks(r) /\ Len(Asked(r)) \in Marks(r)
  BY AskedType
<1>2. fails \in Fails /\ fails # "skip" /\ <<>> \in Seq(AllOps)
  BY DEF Fails
<1>3. /\ Carries(Await("read", <<>>, fails), r, 0, 0)
      /\ Carries(Commit(Asked(r), fails), r, 0, Len(Asked(r)))
      /\ Carries(Await("write", Asked(r), fails), r, 0, Len(Asked(r)))
  BY <1>2, StepsCarry
<1>4. Feeds(<<Commit(r.ops, fails)>>, r, 0, Len(Asked(r)))
  BY <1>1, <1>3, FeedsOne
<1>5. Feeds(<<Await("read", <<>>, fails), Await("write", r.ops, fails)>>, r, 0, Len(Asked(r)))
  <2>1. Await("read", <<>>, fails) \in Steps /\ Await("write", r.ops, fails) \in Steps
    BY <1>1, <1>2, StepTypes
  <2>2. QED
    BY <1>1, <1>3, <2>1, FeedsTwo
<1> DEFINE d == [i \in DOMAIN r.ops |-> Commit(<<r.ops[i]>>, fails)]
<1>6. CASE r.ops = <<>>
  <2>1. d = <<>>
    BY <1>6
  <2>2. Feeds(d, r, 0, Len(Asked(r)))
    BY <1>1, <1>6, <2>1, FeedsNothing
  <2>3. estate_write(r, fails) \in {d, <<Commit(r.ops, fails)>>,
                                    <<Await("read", <<>>, fails), Await("write", r.ops, fails)>>}
    BY DEF estate_write
  <2> HIDE DEF d
  <2>4. QED
    BY <1>4, <1>5, <2>2, <2>3
<1>7. CASE r.ops # <<>> /\ r.ops[1].op # "drop"
  <2>1. estate_write(r, fails) \in {<<Commit(r.ops, fails)>>,
                                    <<Await("read", <<>>, fails), Await("write", r.ops, fails)>>}
    BY <1>7 DEF estate_write
  <2>2. QED
    BY <1>4, <1>5, <2>1
<1>8. CASE r.ops # <<>> /\ r.ops[1].op = "drop"
  <2>1. ~OneCommit(r)
    <3>1. 1 \in DOMAIN r.ops
      BY <1>1, <1>8
    <3>2. QED
      BY <1>8, <3>1, NoDrop
  <2>2. estate_write(r, fails) = d
    BY <1>8 DEF estate_write
  <2>3. DOMAIN d = 1..Len(Asked(r)) /\ d = [i \in 1..Len(Asked(r)) |-> d[i]]
    BY <1>1
  <2>4. ASSUME NEW i \in 1..Len(Asked(r)) PROVE d[i] \in Steps /\ Carries(d[i], r, i - 1, i)
    <3>1. i \in DOMAIN r.ops /\ <<r.ops[i]>> \in Seq(AllOps)
      BY <1>1
    <3>2. d[i] = Commit(<<r.ops[i]>>, fails)
      BY <3>1
    <3>3. Commit(<<r.ops[i]>>, fails) \in Steps
      BY <1>2, <3>1, StepTypes
    <3>4. Carries(Commit(<<Asked(r)[i]>>, fails), r, i - 1, i)
      BY <1>2, <2>1, OneCarries
    <3>5. QED
      BY <3>2, <3>3, <3>4
  <2> HIDE DEF d
  <2>5. d \in Seq(Steps) /\ Len(d) = Len(Asked(r))
    <3>1. d \in [1..Len(Asked(r)) -> Steps]
      BY <2>3, <2>4
    <3>2. QED
      BY <1>1, <3>1
  <2> DEFINE m == [i \in 0..Len(Asked(r)) |-> i]
  <2>6. m \in [0..Len(Asked(r)) -> Marks(r)] /\ m[0] = 0 /\ m[Len(Asked(r))] = Len(Asked(r))
    BY <1>1 DEF Marks
  <2>7. ASSUME NEW i \in 1..Len(Asked(r)) PROVE Carries(d[i], r, m[i - 1], m[i])
    <3>1. m[i] = i /\ m[i - 1] = i - 1
      BY <1>1
    <3>2. QED
      BY <2>4, <3>1
  <2> HIDE DEF m
  <2>8. QED
    BY <2>2, <2>5, <2>6, <2>7 DEF Feeds
<1>9. QED
  BY <1>6, <1>7, <1>8

\* sql: a statement that is applied leaves all it asked, one that is not is answered so.
LEMMA SqlLeads ==
  ASSUME NEW r \in Requests, r.verb = "sql", NEW role
  PROVE  Leads(sql_plan(r, role), r)
<1>1. Asked(r) = r.ops /\ (r.stmt # "write" => r.ops = <<>>)
  BY RequestsFormed DEF Asked, WriteVerbs, PayloadVerbs
<1>2. Leads(<<Reply("error")>>, r) /\ Leads(<<Reply("unauthorized")>>, r)
  BY RefusalsLead
<1>3. r.stmt # "write" => /\ Leads(<<Call("error"), Reply("ok")>>, r)
                          /\ Leads(<<Embed("error"), Call("error"), Reply("ok")>>, r)
  BY <1>1, ReadsLead
<1>4. Leads(estate_write(r, "error") \o <<Reply("ok")>>, r)
  <2>1. Feeds(estate_write(r, "error"), r, 0, Len(Asked(r)))
    BY <1>1, EstateWriteFeeds
  <2>2. estate_write(r, "error") \in Seq(Steps)
    BY EstateWriteType DEF Fails
  <2>3. QED
    BY <2>1, <2>2, LeadsOk
<1>5. Leads(apply(r), r)
  BY <1>2, <1>3, <1>4 DEF apply
<1>6. QED
  BY <1>2, <1>3, <1>5 DEF sql_plan, is_write

\* graphql: the mutations of a document write field after field, its queries nothing.
LEMMA GraphqlLeads ==
  ASSUME NEW r \in Requests, r.verb = "graphql", NEW role
  PROVE  Leads(graphql_plan(r, role), r)
<1> DEFINE q == [i \in DOMAIN r.ops |-> IF is_mutation(r) THEN resolve_mutation(r.ops[i])
                                        ELSE resolve_root(r.ops[i])]
           n == Len(r.ops)
<1>1. /\ Asked(r) \in Seq(AllOps) /\ Len(Asked(r)) \in Nat /\ 0 \in Marks(r) /\ Len(Asked(r)) \in Marks(r)
      /\ r.ops \in Seq(AllOps) /\ n \in Nat /\ DOMAIN r.ops = 1..n
  BY AskedType, RequestsFormed
<1>2. "skip" \in Fails /\ <<>> \in Seq(AllOps) /\ r.verb # "tx" /\ ~OneCommit(r)
  BY DEF Fails, OneCommit
<1>3. Leads(<<Reply("unauthorized")>>, r) /\ Leads(<<Reply("errors")>>, r)
  BY RefusalsLead
<1>4. CASE is_mutation(r)
  <2>1. Asked(r) = r.ops
    BY <1>4 DEF Asked, is_mutation
  <2> DEFINE k == [i \in 0..n |-> i]
  <2>2. k \in [0..n -> Marks(r)] /\ k[0] = 0 /\ k[n] = n
    BY <1>1, <2>1 DEF Marks
  <2>3. ASSUME NEW i \in 1..n PROVE q[i] \in Seq(Steps) /\ Feeds(q[i], r, i - 1, i)
    <3>1. /\ i \in Marks(r) /\ i - 1 \in Marks(r)
          /\ Carries(Commit(<<r.ops[i]>>, "skip"), r, i - 1, i)
          /\ Carries(Embed("skip"), r, i - 1, i - 1)
          /\ Carries(Await("tear", <<>>, "skip"), r, i - 1, i)
      BY <1>2, <2>1, OneCarries
    <3>2. <<r.ops[i]>> \in Seq(AllOps)
      BY <1>1
    <3>3. /\ Commit(<<r.ops[i]>>, "skip") \in Steps /\ Embed("skip") \in Steps
          /\ Await("tear", <<>>, "skip") \in Steps
      BY <1>2, <3>2, StepTypes
    <3>4. /\ Feeds(<<Embed("skip"), Commit(<<r.ops[i]>>, "skip")>>, r, i - 1, i)
          /\ Feeds(<<Commit(<<r.ops[i]>>, "skip")>>, r, i - 1, i)
          /\ Feeds(<<Await("tear", <<>>, "skip")>>, r, i - 1, i)
      BY <3>1, <3>3, FeedsOne, FeedsTwo
    <3>5. q[i] \in {<<Embed("skip"), Commit(<<r.ops[i]>>, "skip")>>, <<Commit(<<r.ops[i]>>, "skip")>>,
                    <<Await("tear", <<>>, "skip")>>}
      BY <1>1, <1>4 DEF resolve_mutation
    <3> HIDE DEF q
    <3>6. q[i] \in Seq(Steps)
      <4>1. /\ <<Embed("skip"), Commit(<<r.ops[i]>>, "skip")>> \in Seq(Steps)
            /\ <<Commit(<<r.ops[i]>>, "skip")>> \in Seq(Steps) /\ <<Await("tear", <<>>, "skip")>> \in Seq(Steps)
        BY <3>3
      <4>2. QED
        BY <3>5, <4>1
    <3>7. QED
      BY <3>4, <3>5, <3>6
  <2>4. q = [i \in 1..n |-> q[i]]
    BY <1>1
  <2>5. execute(r) = IF r.stmt = "malformed" THEN <<Reply("errors")>> ELSE FlattenSeq(q) \o <<Reply("ok")>>
    BY DEF execute
  <2> HIDE DEF q
  <2>6. q \in [1..n -> Seq(Steps)]
    BY <2>3, <2>4
  <2>7. \A i \in 1..n : Feeds(q[i], r, k[i - 1], k[i])
    <3>1. SUFFICES ASSUME NEW i \in 1..n PROVE Feeds(q[i], r, k[i - 1], k[i])
      OBVIOUS
    <3>2. k[i] = i /\ k[i - 1] = i - 1
      BY <1>1
    <3>3. QED
      BY <2>3, <3>2
  <2> HIDE DEF k
  <2>8. Feeds(FlattenSeq(q), r, k[0], k[n])
    BY <1>1, <2>2, <2>6, <2>7, FeedsFlatten
  <2>9. FlattenSeq(q) \in Seq(Steps)
    BY <1>1, <2>6, FlattenType
  <2>10. Leads(FlattenSeq(q) \o <<Reply("ok")>>, r)
    BY <2>1, <2>2, <2>8, <2>9, LeadsOk
  <2>11. Leads(execute(r), r)
    BY <1>3, <2>5, <2>10
  <2>12. QED
    BY <1>3, <2>11 DEF graphql_plan
<1>5. CASE ~is_mutation(r)
  <2>1. Asked(r) = <<>> /\ Len(Asked(r)) = 0
    BY <1>5 DEF Asked, is_mutation
  <2> DEFINE k == [i \in 0..n |-> 0]
  <2>2. k \in [0..n -> Marks(r)] /\ k[0] = 0 /\ k[n] = 0
    BY <1>1
  <2>3. ASSUME NEW i \in 1..n PROVE q[i] \in Seq(Steps) /\ Feeds(q[i], r, 0, 0)
    <3>1. Carries(Embed("skip"), r, 0, 0) /\ Carries(Call("skip"), r, 0, 0)
      BY StepsCarry
    <3>2. Embed("skip") \in Steps /\ Call("skip") \in Steps
      BY <1>2, StepTypes
    <3>3. Feeds(<<Embed("skip"), Call("skip")>>, r, 0, 0) /\ Feeds(<<Call("skip")>>, r, 0, 0)
      BY <1>1, <3>1, <3>2, FeedsOne, FeedsTwo
    <3>4. q[i] \in {<<Embed("skip"), Call("skip")>>, <<Call("skip")>>}
      BY <1>1, <1>5 DEF resolve_root
    <3> HIDE DEF q
    <3>5. q[i] \in Seq(Steps)
      <4>1. <<Embed("skip"), Call("skip")>> \in Seq(Steps) /\ <<Call("skip")>> \in Seq(Steps)
        BY <3>2
      <4>2. QED
        BY <3>4, <4>1
    <3>6. QED
      BY <3>3, <3>4, <3>5
  <2>4. q = [i \in 1..n |-> q[i]]
    BY <1>1
  <2>5. execute(r) = IF r.stmt = "malformed" THEN <<Reply("errors")>> ELSE FlattenSeq(q) \o <<Reply("ok")>>
    BY DEF execute
  <2> HIDE DEF q
  <2>6. q \in [1..n -> Seq(Steps)]
    BY <2>3, <2>4
  <2>7. \A i \in 1..n : Feeds(q[i], r, k[i - 1], k[i])
    <3>1. SUFFICES ASSUME NEW i \in 1..n PROVE Feeds(q[i], r, k[i - 1], k[i])
      OBVIOUS
    <3>2. k[i] = 0 /\ k[i - 1] = 0
      BY <1>1
    <3>3. QED
      BY <2>3, <3>2
  <2> HIDE DEF k
  <2>8. Feeds(FlattenSeq(q), r, k[0], k[n])
    BY <1>1, <2>2, <2>6, <2>7, FeedsFlatten
  <2>9. FlattenSeq(q) \in Seq(Steps)
    BY <1>1, <2>6, FlattenType
  <2>10. Leads(FlattenSeq(q) \o <<Reply("ok")>>, r)
    BY <2>1, <2>2, <2>8, <2>9, LeadsOk
  <2>11. Leads(execute(r), r)
    BY <1>3, <2>5, <2>10
  <2>12. QED
    BY <1>3, <2>11 DEF graphql_plan
<1>6. QED
  BY <1>4, <1>5

\* tx: everything is embedded, committed at once and, where a quorum is asked, waited for.
LEMMA TxLeads ==
  ASSUME NEW r \in Requests, r.verb = "tx"
  PROVE  Leads(tx_plan(r), r)
<1> DEFINE q == [i \in DOMAIN r.ops |-> IF r.ops[i].op = "upsert" THEN <<Embed("tear")>>
                                        ELSE IF r.ops[i].op = "bad" THEN <<Tear>> ELSE <<>>]
           n == Len(r.ops)
           w == Len(Asked(r))
           Waits == IF r.quorum THEN <<Call("tear"), Await("quorum", <<>>, "error")>> ELSE <<>>
<1>1. /\ Asked(r) \in Seq(AllOps) /\ Len(Asked(r)) \in Nat /\ 0 \in Marks(r) /\ Len(Asked(r)) \in Marks(r)
      /\ r.ops \in Seq(AllOps) /\ n \in Nat /\ DOMAIN r.ops = 1..n /\ Asked(r) = r.ops
  BY AskedType, RequestsFormed DEF Asked
<1>2. /\ "tear" \in Fails /\ "error" \in Fails /\ <<>> \in Seq(AllOps) /\ ~OneCommit(r)
      /\ "tear" # "skip" /\ "error" # "skip"
  BY DEF Fails, OneCommit
<1>3. /\ Embed("tear") \in Steps /\ Tear \in Steps /\ Commit(r.ops, "tear") \in Steps
      /\ Call("tear") \in Steps /\ Await("quorum", <<>>, "error") \in Steps
  BY <1>1, <1>2, StepTypes
<1>4. /\ Carries(Embed("tear"), r, 0, 0) /\ Carries(Tear, r, 0, 0)
      /\ Carries(Commit(r.ops, "tear"), r, 0, Len(Asked(r)))
      /\ Carries(Call("tear"), r, Len(Asked(r)), Len(Asked(r)))
      /\ Carries(Await("quorum", <<>>, "error"), r, Len(Asked(r)), Len(Asked(r)))
  BY <1>1, <1>2, StepsCarry
<1> DEFINE k == [i \in 0..n |-> 0]
<1>5. k \in [0..n -> Marks(r)] /\ k[0] = 0 /\ k[n] = 0
  BY <1>1
<1>6. ASSUME NEW i \in 1..n PROVE q[i] \in Seq(Steps) /\ Feeds(q[i], r, 0, 0)
  <2>1. Feeds(<<Embed("tear")>>, r, 0, 0) /\ Feeds(<<Tear>>, r, 0, 0) /\ Feeds(<<>>, r, 0, 0)
    BY <1>1, <1>4, FeedsOne, FeedsNothing
  <2>2. <<Embed("tear")>> \in Seq(Steps) /\ <<Tear>> \in Seq(Steps) /\ <<>> \in Seq(Steps)
    BY <1>3
  <2>3. q[i] \in {<<Embed("tear")>>, <<Tear>>, <<>>}
    BY <1>1
  <2> HIDE DEF q
  <2>4. QED
    BY <2>1, <2>2, <2>3
<1>7. q = [i \in 1..n |-> q[i]]
  BY <1>1
<1>8. tx_plan(r) = FlattenSeq(q) \o <<Commit(r.ops, "tear")>> \o Waits \o <<Reply("ok")>>
  BY DEF tx_plan
<1> HIDE DEF q
<1>9. q \in [1..n -> Seq(Steps)]
  BY <1>6, <1>7
<1>10. \A i \in 1..n : Feeds(q[i], r, k[i - 1], k[i])
  <2>1. SUFFICES ASSUME NEW i \in 1..n PROVE Feeds(q[i], r, k[i - 1], k[i])
    OBVIOUS
  <2>2. k[i] = 0 /\ k[i - 1] = 0
    BY <1>1
  <2>3. QED
    BY <1>6, <2>2
<1> HIDE DEF k
<1>11. Feeds(FlattenSeq(q), r, 0, 0)
  <2>1. Feeds(FlattenSeq(q), r, k[0], k[n])
    BY <1>1, <1>5, <1>9, <1>10, FeedsFlatten
  <2>2. QED
    BY <1>5, <2>1
<1>12. FlattenSeq(q) \in Seq(Steps)
  BY <1>1, <1>9, FlattenType
<1>13. <<Commit(r.ops, "tear")>> \in Seq(Steps) /\ Feeds(<<Commit(r.ops, "tear")>>, r, 0, Len(Asked(r)))
  BY <1>1, <1>3, <1>4, FeedsOne
<1>14. Waits \in Seq(Steps) /\ Feeds(Waits, r, Len(Asked(r)), Len(Asked(r)))
  <2>1. /\ <<Call("tear"), Await("quorum", <<>>, "error")>> \in Seq(Steps) /\ <<>> \in Seq(Steps)
    BY <1>3
  <2>2. /\ Feeds(<<Call("tear"), Await("quorum", <<>>, "error")>>, r, Len(Asked(r)), Len(Asked(r)))
        /\ Feeds(<<>>, r, Len(Asked(r)), Len(Asked(r)))
    BY <1>1, <1>3, <1>4, FeedsTwo, FeedsNothing
  <2>3. QED
    BY <2>1, <2>2
<1> HIDE DEF Waits
<1> DEFINE front == FlattenSeq(q) \o <<Commit(r.ops, "tear")>>
<1>15. front \in Seq(Steps) /\ Feeds(front, r, 0, Len(Asked(r)))
  BY <1>11, <1>12, <1>13, CatType, FeedsConcat, Zenon
<1> HIDE DEF front
<1>16. front \o Waits \in Seq(Steps) /\ Feeds(front \o Waits, r, 0, Len(Asked(r)))
  BY <1>14, <1>15, FeedsConcat
<1>17. Leads(front \o Waits \o <<Reply("ok")>>, r)
  BY <1>16, LeadsOk
<1>18. QED
  BY <1>8, <1>17 DEF front

\* index, the graph and the administration of the estate.
LEMMA WritesLead ==
  ASSUME NEW r \in Requests
  PROVE  /\ r.verb = "index" => Leads(index_plan(r), r)
         /\ r.verb \in {"relate", "traverse"} => Leads(graph_plan(r), r)
         /\ r.verb \in AdminVerbs \cup {"health"} => Leads(admin_plan(r), r)
<1>1. /\ Asked(r) \in Seq(AllOps) /\ Len(Asked(r)) \in Nat /\ 0 \in Marks(r) /\ Len(Asked(r)) \in Marks(r)
      /\ r.ops \in Seq(AllOps) /\ (r.verb # "graphql" => Asked(r) = r.ops)
  BY AskedType, RequestsFormed DEF Asked
<1>2. "tear" \in Fails /\ "error" \in Fails /\ <<>> \in Seq(AllOps) /\ "tear" # "skip"
  BY DEF Fails
<1>3. r.verb \notin WriteVerbs \cup {"graphql", "sql"} => Asked(r) = <<>>
  BY <1>1, RequestsFormed
<1>4. ASSUME r.verb = "index" PROVE Leads(index_plan(r), r)
  <2>1. ~OneCommit(r) /\ Asked(r) = r.ops
    BY <1>1, <1>4 DEF OneCommit
  <2>2. /\ Carries(Embed("tear"), r, 0, 0) /\ Carries(Commit(r.ops, "tear"), r, 0, Len(Asked(r)))
        /\ Carries(Call("tear"), r, Len(Asked(r)), Len(Asked(r)))
    BY <1>2, <2>1, StepsCarry
  <2>3. Embed("tear") \in Steps /\ Commit(r.ops, "tear") \in Steps /\ Call("tear") \in Steps
    BY <1>1, <1>2, StepTypes
  <2>4. /\ Feeds(<<Embed("tear"), Commit(r.ops, "tear")>>, r, 0, Len(Asked(r)))
        /\ Feeds(<<Call("tear")>>, r, Len(Asked(r)), Len(Asked(r)))
    BY <1>1, <2>2, <2>3, FeedsOne, FeedsTwo
  <2>5. /\ <<Embed("tear"), Commit(r.ops, "tear")>> \in Seq(Steps) /\ <<Call("tear")>> \in Seq(Steps)
    BY <2>3
  <2> DEFINE p == <<Embed("tear"), Commit(r.ops, "tear")>> \o <<Call("tear")>>
  <2>6. p \in Seq(Steps) /\ Feeds(p, r, 0, Len(Asked(r)))
    BY <2>4, <2>5, CatType, FeedsConcat, Zenon
  <2>7. index_plan(r) = p \o <<Reply("ok")>>
    BY DEF index_plan
  <2> HIDE DEF p
  <2>8. QED
    BY <2>6, <2>7, LeadsOk
<1>5. /\ r.verb \notin {"tx", "graphql"} => /\ Leads(estate_write(r, "error") \o <<Reply("ok")>>, r)
                                            /\ Leads(estate_write(r, "tear") \o <<Reply("ok")>>, r)
  <2>1. estate_write(r, "error") \in Seq(Steps) /\ estate_write(r, "tear") \in Seq(Steps)
    BY <1>2, EstateWriteType
  <2>2. QED
    BY <1>1, <2>1, EstateWriteFeeds, LeadsOk
<1>6. Asked(r) = <<>> => /\ Leads(<<Call("error")>> \o <<Reply("ok")>>, r)
                         /\ Leads(<<Call("tear")>> \o <<Reply("ok")>>, r)
  <2>1. /\ <<Call("error")>> \o <<Reply("ok")>> = <<Call("error"), Reply("ok")>>
        /\ <<Call("tear")>> \o <<Reply("ok")>> = <<Call("tear"), Reply("ok")>>
    BY Cat, Zenon
  <2>2. QED
    BY <2>1, ReadsLead
<1>7. r.verb = "relate" => Leads(graph_plan(r), r)
  BY <1>5 DEF graph_plan
<1>8. r.verb = "traverse" => Leads(graph_plan(r), r)
  BY <1>3, <1>6 DEF graph_plan, WriteVerbs, PayloadVerbs
<1>9. r.verb \in PayloadVerbs \cup {"drop_collection", "create_alias", "delete_alias"} => Leads(admin_plan(r), r)
  BY <1>5 DEF admin_plan, PayloadVerbs
<1>10. r.verb \in {"info", "flush", "compact", "matrix", "sample", "collections", "aliases", "health"} =>
           Leads(admin_plan(r), r)
  BY <1>3, <1>6 DEF admin_plan, PayloadVerbs, WriteVerbs
<1>11. QED
  BY <1>4, <1>7, <1>8, <1>9, <1>10 DEF AdminVerbs

\* Whatever is asked and whoever asks, the plan leads to what is asked.
LEMMA PlanLeads ==
  ASSUME NEW r \in Requests, NEW role
  PROVE  Leads(plan(r, role), r)
<1>1. Leads(<<Reply("error")>>, r) /\ Leads(BadArguments(r.verb), r)
  BY RefusalsLead
<1>2. /\ r.verb = "sql" => Leads(sql_plan(r, role), r)
      /\ r.verb = "graphql" => Leads(graphql_plan(r, role), r)
      /\ r.verb = "tx" => Leads(tx_plan(r), r)
  BY SqlLeads, GraphqlLeads, TxLeads
<1>3. r.verb \notin WriteVerbs \cup {"graphql", "sql"} => Asked(r) = <<>>
  BY RequestsFormed DEF Asked
<1>4. Asked(r) = <<>> => /\ Leads(ask_plan(r), r) /\ Leads(feed_plan(r), r)
                         /\ Leads(query_plan(r), r) /\ Leads(discover_plan(r), r)
  <2>1. SUFFICES ASSUME Asked(r) = <<>>
                 PROVE  /\ Leads(ask_plan(r), r) /\ Leads(feed_plan(r), r)
                        /\ Leads(query_plan(r), r) /\ Leads(discover_plan(r), r)
    OBVIOUS
  <2>2. /\ Leads(<<Reply("ok")>>, r)
        /\ Leads(<<Call("tear"), Reply("ok")>>, r) /\ Leads(<<Call("error"), Reply("ok")>>, r)
        /\ Leads(<<Embed("tear"), Call("tear"), Reply("ok")>>, r)
        /\ Leads(<<Embed("tear"), Call("error"), Reply("ok")>>, r)
        /\ Leads(<<Embed("error"), Call("error"), Reply("ok")>>, r)
    BY <2>1, ReadsLead
  <2>3. Leads(ask_plan(r), r) /\ Leads(feed_plan(r), r) /\ Leads(discover_plan(r), r)
    BY <2>2 DEF ask_plan, feed_plan, discover_plan
  <2>4. query_plan(r) = IF r.verb = "query" THEN <<Embed("tear"), Call("error"), Reply("ok")>>
                        ELSE <<Call("error"), Reply("ok")>>
    BY Cat, Zenon DEF query_plan
  <2>5. QED
    BY <2>2, <2>3, <2>4
<1>5. /\ r.verb = "index" => Leads(index_plan(r), r)
      /\ r.verb \in {"relate", "traverse"} => Leads(graph_plan(r), r)
      /\ r.verb \in AdminVerbs \cup {"health"} => Leads(admin_plan(r), r)
  BY WritesLead
<1>6. r.verb \in {"ping", "ask", "recall", "map", "changes", "replicate", "query", "recommend", "discover"} =>
          Asked(r) = <<>>
  BY <1>3 DEF WriteVerbs, PayloadVerbs
<1>7. QED
  BY <1>1, <1>2, <1>4, <1>5, <1>6 DEF plan

----------------------------------------------------------------------------
(* Steps.                                                                  *)

\* The task of c changes and no other.
Moves(c) ==
    /\ conn' = [d \in Conns |-> conn'[d]] /\ TaskOK(conn'[c])
    /\ \A d \in Conns : d # c => conn'[d] = conn[d]

\* c gets at most one more reply.
Replied(c) ==
    /\ replies' \in [Conns -> Seq([n : Nat, body : Bodies])]
    /\ \A d \in Conns : d # c => replies'[d] = replies[d]

\* A step of c that adds nothing to the log keeps the invariant when it holds for c.
LEMMA QuietStep ==
  ASSUME DoorInv, NEW c \in Conns, UNCHANGED <<node, now, sent, log>>, Moves(c), Replied(c),
         conn'[c].at \in {"work", "stream"} => Len(replies'[c]) < Len(sent[c]),
         conn'[c].at = "work" => \/ conn'[c].plan \in Seq(Quiet)
                                 \/ MayWrite(sent[c][Len(replies'[c]) + 1].tok, conn'[c].since)
  PROVE  DoorInv'
<1>1. TypeOK'
  BY DEF DoorInv, TypeOK, Moves, Replied
<1>2. InHand'
  BY DEF DoorInv, InHand, Moves, Replied
<1>3. PlanHeld'
  <2>1. SUFFICES ASSUME NEW d \in Conns, conn'[d].at = "work"
                 PROVE  \/ conn'[d].plan \in Seq(Quiet)
                        \/ MayWrite(sent[d][Len(replies'[d]) + 1].tok, conn'[d].since)
    BY DEF PlanHeld, Current, Taken, MayWrite
  <2>2. CASE d = c
    BY <2>1, <2>2
  <2>3. CASE d # c
    BY <2>1, <2>3 DEF DoorInv, PlanHeld, Current, Taken, Moves, Replied
  <2>4. QED
    BY <2>2, <2>3
<1>4. LogRefers' /\ WritesAuthorized'
  <2>1. \A d \in Conns : \A n \in DOMAIN log[d] : \A i \in DOMAIN log[d][n] :
            MayWrite(sent[d][n].tok, log[d][n][i].since)' <=> MayWrite(sent[d][n].tok, log[d][n][i].since)
    BY DEF MayWrite
  <2>2. QED
    BY <2>1 DEF DoorInv, LogRefers, WritesAuthorized
<1>5. QED
  BY <1>1, <1>2, <1>3, <1>4 DEF DoorInv

\* What the moves of a task do to it.
LEMMA MovesOf ==
  ASSUME TypeOK, NEW c \in Conns
  PROVE  /\ Closes(c) => Moves(c) /\ conn'[c].at = "closed"
         /\ ReadsOn(c) => Moves(c) /\ conn'[c].at \in {"idle", "closed"} /\ ~conn'[c].erred
         /\ conn' = [conn EXCEPT ![c].at = "stream"] =>
                Moves(c) /\ conn'[c].at = "stream" /\ conn'[c].erred = conn[c].erred
<1>1. TaskOK(conn[c]) /\ conn = [d \in Conns |-> conn[d]]
  BY DEF TypeOK
<1>2. <<>> \in Seq(Steps)
  OBVIOUS
<1>3. Closes(c) => Moves(c) /\ conn'[c].at = "closed"
  <2>1. SUFFICES ASSUME Closes(c) PROVE Moves(c) /\ conn'[c].at = "closed"
    OBVIOUS
  <2>2. conn'[c] = [conn[c] EXCEPT !.at = "closed", !.plan = <<>>]
    BY <1>1, <2>1 DEF Closes
  <2>3. TaskOK(conn'[c]) /\ conn'[c].at = "closed"
    BY <1>1, <1>2, <2>2 DEF TaskOK, IsTask
  <2>4. QED
    BY <1>1, <2>1, <2>3 DEF Moves, Closes
<1>4. ReadsOn(c) => Moves(c) /\ conn'[c].at \in {"idle", "closed"} /\ ~conn'[c].erred
  <2>1. SUFFICES ASSUME ReadsOn(c)
                 PROVE  Moves(c) /\ conn'[c].at \in {"idle", "closed"} /\ ~conn'[c].erred
    OBVIOUS
  <2>2. PICK to \in {"idle", "closed"} : conn' = [conn EXCEPT ![c] = [@ EXCEPT !.at = to, !.plan = <<>>, !.erred = FALSE]]
    BY <2>1 DEF ReadsOn
  <2>3. conn'[c] = [conn[c] EXCEPT !.at = to, !.plan = <<>>, !.erred = FALSE]
    BY <1>1, <2>2
  <2>4. TaskOK(conn'[c]) /\ conn'[c].at = to /\ ~conn'[c].erred
    BY <1>1, <1>2, <2>3 DEF TaskOK, IsTask
  <2>5. QED
    BY <1>1, <2>2, <2>4 DEF Moves
<1>5. conn' = [conn EXCEPT ![c].at = "stream"] =>
          Moves(c) /\ conn'[c].at = "stream" /\ conn'[c].erred = conn[c].erred
  <2>1. SUFFICES ASSUME conn' = [conn EXCEPT ![c].at = "stream"]
                 PROVE  Moves(c) /\ conn'[c].at = "stream" /\ conn'[c].erred = conn[c].erred
    OBVIOUS
  <2>2. conn'[c] = [conn[c] EXCEPT !.at = "stream"]
    BY <1>1, <2>1
  <2>3. TaskOK(conn'[c]) /\ conn'[c].at = "stream" /\ conn'[c].erred = conn[c].erred
    BY <1>1, <2>2 DEF TaskOK, IsTask
  <2>4. QED
    BY <1>1, <2>1, <2>3 DEF Moves
<1>6. QED
  BY <1>3, <1>4, <1>5

\* The handler goes on: with the rest of its plan, whichever way it drops its head.
AliasReads(c) == conn' = [conn EXCEPT ![c] = [@ EXCEPT !.plan = Rest(c), !.read = aliases]]
Remains(c) == {Rest(c), SubSeq(conn[c].plan, 3, Len(conn[c].plan))}
LEMMA PlanMoves ==
  ASSUME TypeOK, NEW c \in Conns, GoesOn(c) \/ AliasReads(c) \/ Skip(c)
  PROVE  /\ conn' = [conn EXCEPT ![c] = conn'[c]] /\ IsTask(conn'[c])
         /\ conn'[c].at = conn[c].at /\ conn'[c].since = conn[c].since
         /\ conn'[c].plan \in Remains(c) /\ conn'[c].erred \in BOOLEAN
         /\ GoesOn(c) \/ AliasReads(c) => conn'[c].plan = Rest(c) /\ conn'[c].erred = conn[c].erred
         /\ Skip(c) => conn'[c].erred
<1>1. TaskOK(conn[c]) /\ conn = [d \in Conns |-> conn[d]]
  BY DEF TypeOK
<1>2. Rest(c) \in Remains(c)
  BY DEF Remains
<1>3. CASE GoesOn(c)
  <2>1. conn'[c] = [conn[c] EXCEPT !.plan = Rest(c)] /\ conn' = [conn EXCEPT ![c] = conn'[c]]
    BY <1>1, <1>3 DEF GoesOn
  <2>2. /\ conn'[c].plan = Rest(c) /\ IsTask(conn'[c]) /\ conn'[c].erred = conn[c].erred
        /\ conn'[c].at = conn[c].at /\ conn'[c].since = conn[c].since /\ conn[c].erred \in BOOLEAN
    BY <1>1, <2>1 DEF TaskOK, IsTask
  <2>3. Skip(c) => conn'[c].erred
    BY <1>1 DEF Skip, TaskOK, IsTask
  <2>4. QED
    BY <1>2, <2>1, <2>2, <2>3
<1>4. CASE AliasReads(c)
  <2>1. conn'[c] = [conn[c] EXCEPT !.plan = Rest(c), !.read = aliases] /\ conn' = [conn EXCEPT ![c] = conn'[c]]
    BY <1>1, <1>4 DEF AliasReads
  <2>2. /\ conn'[c].plan = Rest(c) /\ IsTask(conn'[c]) /\ conn'[c].erred = conn[c].erred
        /\ conn'[c].at = conn[c].at /\ conn'[c].since = conn[c].since /\ conn[c].erred \in BOOLEAN
    BY <1>1, <2>1 DEF TaskOK, IsTask
  <2>3. Skip(c) => conn'[c].erred
    BY <1>1 DEF Skip, TaskOK, IsTask
  <2>4. QED
    BY <1>2, <2>1, <2>2, <2>3
<1>5. CASE Skip(c)
  <2>1. PICK p \in Remains(c) : conn'[c] = [conn[c] EXCEPT !.erred = TRUE, !.plan = p]
    BY <1>1, <1>5 DEF Skip, Remains
  <2>2. conn' = [conn EXCEPT ![c] = conn'[c]]
    BY <1>1, <1>5 DEF Skip
  <2>3. /\ conn'[c].plan = p /\ IsTask(conn'[c]) /\ conn'[c].erred
        /\ conn'[c].at = conn[c].at /\ conn'[c].since = conn[c].since
    BY <1>1, <2>1 DEF TaskOK, IsTask
  <2>4. conn'[c].erred = TRUE
    BY <1>1, <2>1 DEF TaskOK, IsTask
  <2>5. GoesOn(c) \/ AliasReads(c) => conn'[c].plan = Rest(c) /\ conn'[c].erred = conn[c].erred
    BY <1>1 DEF GoesOn, AliasReads, TaskOK, IsTask
  <2>6. QED
    BY <2>1, <2>2, <2>3, <2>4, <2>5
<1>6. QED
  BY <1>3, <1>4, <1>5

\* What is left of a plan is a plan, and a quiet one if it was.
LEMMA PlanGoesOn ==
  ASSUME TypeOK, NEW c \in Conns, Busy(c), GoesOn(c) \/ AliasReads(c) \/ Skip(c)
  PROVE  /\ Moves(c) /\ conn'[c].at = "work" /\ conn'[c].since = conn[c].since
         /\ conn[c].plan \in Seq(Quiet) => conn'[c].plan \in Seq(Quiet)
<1>1. TaskOK(conn[c]) /\ conn = [d \in Conns |-> conn[d]] /\ conn[c].plan # <<>> /\ conn[c].at = "work"
  BY DEF TypeOK, Busy
<1>2. conn[c].plan \in Seq(Steps)
  BY <1>1 DEF TaskOK
<1>3. \A p \in Remains(c) : p \in Seq(Steps) /\ (conn[c].plan \in Seq(Quiet) => p \in Seq(Quiet))
  BY <1>1, <1>2, TailType DEF Rest, Remains
<1>4. /\ conn' = [conn EXCEPT ![c] = conn'[c]] /\ IsTask(conn'[c])
      /\ conn'[c].at = conn[c].at /\ conn'[c].since = conn[c].since
      /\ conn'[c].plan \in Remains(c) /\ conn'[c].erred \in BOOLEAN
  BY PlanMoves
<1>5. TaskOK(conn'[c])
  BY <1>1, <1>3, <1>4 DEF TaskOK
<1>6. conn' = [d \in Conns |-> conn'[d]] /\ \A d \in Conns : d # c => conn'[d] = conn[d]
  BY <1>1, <1>4
<1>7. Moves(c)
  BY <1>5, <1>6 DEF Moves
<1>8. QED
  BY <1>1, <1>3, <1>4, <1>7

\* An answer is one reply more, to c alone.
LEMMA Answered ==
  ASSUME TypeOK, NEW c \in Conns, NEW n \in Nat, NEW body \in Bodies, Answer(c, n, body)
  PROVE  Replied(c) /\ Len(replies'[c]) = Len(replies[c]) + 1
<1>1. replies \in [Conns -> Seq([n : Nat, body : Bodies])]
  BY DEF TypeOK
<1>2. [n |-> n, body |-> body] \in [n : Nat, body : Bodies]
  OBVIOUS
<1>3. /\ replies'[c] = Append(replies[c], [n |-> n, body |-> body])
      /\ replies' = [replies EXCEPT ![c] = replies'[c]]
  BY <1>1 DEF Answer
<1>4. replies'[c] \in Seq([n : Nat, body : Bodies]) /\ Len(replies'[c]) = Len(replies[c]) + 1
  <2>1. PICK S : S = [n : Nat, body : Bodies]
    OBVIOUS
  <2>2. replies[c] \in Seq(S) /\ \E e \in S : replies'[c] = Append(replies[c], e)
    BY <1>1, <1>2, <1>3, <2>1
  <2>3. replies'[c] \in Seq(S) /\ Len(replies'[c]) = Len(replies[c]) + 1
    BY <2>2
  <2>4. QED
    BY <2>1, <2>3
<1>5. QED
  BY <1>1, <1>3, <1>4 DEF Replied

\* No answer is one too.
LEMMA Unanswered ==
  ASSUME TypeOK, NEW c \in Conns, UNCHANGED replies
  PROVE  Replied(c) /\ replies'[c] = replies[c]
BY DEF TypeOK, Replied

----------------------------------------------------------------------------
(* The actions keep the invariant.                                         *)

\* Before anything is sent.
LEMMA InitInv == ASSUME Init PROVE DoorInv
<1>1. TypeOK
  <2>1. \A c \in Conns : conn[c] = Idle
    BY DEF Init
  <2>2. TaskOK(Idle)
    BY DEF TaskOK, IsTask, Idle
  <2>3. QED
    BY <2>1, <2>2 DEF Init, TypeOK
<1>2. \A c \in Conns : conn[c].at = "idle"
  BY DEF Init, Idle
<1>3. \A c \in Conns : DOMAIN log[c] = {} /\ Len(log[c]) = 0 /\ Len(sent[c]) = 0
  BY DEF Init
<1>4. QED
  BY <1>1, <1>2, <1>3 DEF DoorInv, InHand, PlanHeld, LogRefers, WritesAuthorized

\* A request more, behind those sent.
LEMMA SendInv ==
  ASSUME DoorInv, NEW c \in Conns, NEW r \in Requests, Send(c, r)
  PROVE  DoorInv'
<1>1. /\ TypeOK /\ UNCHANGED <<node, now, conn, replies, aliases>>
      /\ sent' = [sent EXCEPT ![c] = Append(@, r)] /\ log' = [log EXCEPT ![c] = Append(@, <<>>)]
  BY DEF DoorInv, Send
<1>2. sent \in [Conns -> Seq(Requests)] /\ log \in [Conns -> Seq(Seq(Entries))]
  BY <1>1 DEF TypeOK
<1>3. sent' \in [Conns -> Seq(Requests)]
  BY <1>1, <1>2
<1>4. ASSUME NEW d \in Conns
      PROVE  Len(sent'[d]) >= Len(sent[d]) /\ \A n \in 1..Len(sent[d]) : sent'[d][n] = sent[d][n]
  BY <1>1, <1>2
<1>5. TypeOK'
  <2>1. <<>> \in Seq(Entries)
    OBVIOUS
  <2>2. PICK S : S = Seq(Entries)
    OBVIOUS
  <2>3. Append(log[c], <<>>) \in Seq(S)
    BY <1>2, <2>1, <2>2
  <2>4. log' \in [Conns -> Seq(Seq(Entries))]
    BY <1>1, <1>2, <2>2, <2>3
  <2>5. QED
    BY <1>1, <1>3, <2>4 DEF TypeOK
<1>6. \A d \in Conns : Len(sent[d]) \in Nat /\ Len(sent'[d]) \in Nat /\ Len(replies[d]) \in Nat
  BY <1>1, <1>2, <1>3 DEF TypeOK
<1>7. InHand'
  BY <1>1, <1>4, <1>6 DEF DoorInv, InHand
<1>8. PlanHeld'
  <2>1. SUFFICES ASSUME NEW d \in Conns, conn[d].at = "work"
                 PROVE  \/ conn[d].plan \in Seq(Quiet)
                        \/ MayWrite(sent'[d][Current(d)].tok, conn[d].since)
    <3>1. \A d \in Conns : Current(d)' = Current(d)
      BY <1>1 DEF Current, Taken
    <3>2. \A d \in Conns : MayWrite(sent[d][Current(d)].tok, conn[d].since)' <=>
                               MayWrite(sent'[d][Current(d)].tok, conn[d].since)
      BY <1>1, <3>1 DEF MayWrite
    <3>3. QED
      BY <1>1, <3>2 DEF PlanHeld
  <2>2. Current(d) \in 1..Len(sent[d])
    BY <1>6, <2>1 DEF DoorInv, InHand, Current, Taken
  <2>3. sent'[d][Current(d)] = sent[d][Current(d)]
    BY <1>4, <2>2
  <2>4. QED
    BY <2>1, <2>3 DEF DoorInv, PlanHeld
<1>9. LogRefers'
  BY <1>1, <1>2 DEF DoorInv, LogRefers
<1>10. WritesAuthorized'
  <2>1. SUFFICES ASSUME NEW d \in Conns, NEW n \in DOMAIN log'[d], NEW i \in DOMAIN log'[d][n]
                 PROVE  MayWrite(sent'[d][n].tok, log'[d][n][i].since)
    <3>1. \A d \in Conns : \A n \in DOMAIN log'[d] : \A i \in DOMAIN log'[d][n] :
              MayWrite(sent[d][n].tok, log[d][n][i].since)' <=> MayWrite(sent'[d][n].tok, log'[d][n][i].since)
      BY <1>1 DEF MayWrite
    <3>2. QED
      BY <2>1, <3>1 DEF WritesAuthorized
  <2>2. log'[d][n] # <<>>
    OBVIOUS
  <2>3. Len(log[d]) = Len(sent[d]) /\ log[d] \in Seq(Seq(Entries))
    BY <1>2 DEF DoorInv, LogRefers
  <2>4. n \in DOMAIN log[d] /\ log'[d][n] = log[d][n]
    <3>1. CASE d = c
      <4>1. log'[d] = Append(log[d], <<>>)
        BY <1>1, <1>2, <3>1
      <4>2. PICK S : S = Seq(Entries)
        OBVIOUS
      <4>3. log[d] \in Seq(S) /\ <<>> \in S
        BY <2>3, <4>2
      <4>4. QED
        BY <2>2, <4>1, <4>3
    <3>2. CASE d # c
      BY <1>1, <1>2, <3>2
    <3>3. QED
      BY <3>1, <3>2
  <2>5. sent'[d][n] = sent[d][n]
    <3>1. n \in 1..Len(sent[d])
      BY <2>3, <2>4
    <3>2. QED
      BY <1>4, <3>1
  <2>6. QED
    BY <2>4, <2>5 DEF DoorInv, WritesAuthorized
<1>11. QED
  BY <1>5, <1>7, <1>8, <1>9, <1>10 DEF DoorInv

\* The connection ends, or is back at its next request, with or without an answer.
LEMMA EndInv ==
  ASSUME DoorInv, NEW c \in Conns, UNCHANGED <<node, now, sent, log>>, Closes(c) \/ ReadsOn(c),
         UNCHANGED replies \/ \E n \in Nat, body \in Bodies : Answer(c, n, body)
  PROVE  DoorInv'
<1>1. TypeOK
  BY DEF DoorInv
<1>2. Moves(c) /\ conn'[c].at \in {"idle", "closed"}
  BY <1>1, MovesOf
<1>3. Replied(c)
  BY <1>1, Answered, Unanswered
<1>4. QED
  BY <1>2, <1>3, QuietStep

\* The number of the request in hand.
LEMMA CurrentType ==
  ASSUME TypeOK, NEW c \in Conns
  PROVE  Taken(c) \in Nat /\ Current(c) \in Nat /\ Taken(c) + 1 \in Nat /\ Len(replies[c]) \in Nat
BY DEF TypeOK, Taken, Current

\* A stream takes the connection, or is refused.
LEMMA SubscribeInv ==
  ASSUME DoorInv, NEW c \in Conns, Subscribe(c)
  PROVE  DoorInv'
<1>1. TypeOK /\ UNCHANGED <<node, now, sent, log>> /\ conn[c].at = "idle" /\ Len(sent[c]) > Taken(c)
  BY DEF DoorInv, Subscribe, Unread
<1>2. Taken(c) = Len(replies[c]) /\ Taken(c) + 1 \in Nat
  BY <1>1, CurrentType DEF Taken
<1>3. {"unauthorized", "error"} \subseteq Bodies
  BY DEF Bodies, Fails
<1>4. CASE UNCHANGED conn /\ \E body \in Bodies : Answer(c, Taken(c) + 1, body)
  <2>1. Replied(c)
    BY <1>1, <1>2, <1>4, Answered
  <2>2. Moves(c)
    BY <1>1, <1>4 DEF Moves, TypeOK
  <2>3. QED
    BY <1>1, <1>4, <2>1, <2>2, QuietStep
<1>5. CASE conn' = [conn EXCEPT ![c].at = "stream"] /\ UNCHANGED replies
  <2>1. Replied(c) /\ replies'[c] = replies[c]
    BY <1>1, <1>5, Unanswered
  <2>2. Moves(c) /\ conn'[c].at = "stream"
    BY <1>1, <1>5, MovesOf
  <2>3. QED
    BY <1>1, <1>2, <2>1, <2>2, QuietStep
<1>6. QED
  BY <1>3, <1>4, <1>5 DEF Subscribe

\* A message is authorised and its plan taken up, or refused.
LEMMA AcceptInv ==
  ASSUME DoorInv, NEW c \in Conns, Accept(c)
  PROVE  DoorInv'
<1>1. TypeOK /\ UNCHANGED <<node, now, sent, log>> /\ conn[c].at = "idle" /\ Len(sent[c]) > Taken(c)
  BY DEF DoorInv, Accept, Unread
<1>2. Taken(c) = Len(replies[c]) /\ Taken(c) + 1 \in Nat /\ Taken(c) \in Nat
  BY <1>1, CurrentType DEF Taken
<1> DEFINE r == sent[c][Taken(c) + 1]
<1>3. r \in Requests
  <2>1. sent[c] \in Seq(Requests)
    BY <1>1 DEF TypeOK
  <2>2. Taken(c) + 1 \in 1..Len(sent[c])
    BY <1>1, <1>2, <2>1
  <2>3. QED
    BY <2>1, <2>2
<1>4. CASE ReadsOn(c) /\ Answer(c, Taken(c) + 1, "unauthorized")
  <2>1. "unauthorized" \in Bodies
    BY DEF Bodies, Fails
  <2>2. QED
    BY <1>1, <1>2, <1>4, <2>1, EndInv
<1>5. CASE /\ authorize(r) # "refused" /\ UNCHANGED replies
           /\ conn' = [conn EXCEPT ![c] = [@ EXCEPT !.at = "work", !.plan = plan(r, authorize(r)), !.since = now]]
  <2>1. plan(r, authorize(r)) \in Seq(Steps)
    BY <1>3, PlanSteps
  <2>2. plan(r, authorize(r)) \in Seq(Quiet) \/ MayWrite(r.tok, now)
    BY <1>1, <1>3, <1>5, AcceptedPlan DEF TypeOK
  <2>3. PICK p : p = plan(r, authorize(r))
    OBVIOUS
  <2>4. TaskOK(conn[c]) /\ conn = [d \in Conns |-> conn[d]] /\ now \in Nat
    BY <1>1 DEF TypeOK
  <2>5. conn'[c] = [conn[c] EXCEPT !.at = "work", !.plan = p, !.since = now] /\ conn' = [conn EXCEPT ![c] = conn'[c]]
    BY <1>5, <2>3, <2>4
  <2>6. TaskOK(conn'[c]) /\ conn'[c].at = "work" /\ conn'[c].plan = p /\ conn'[c].since = now
    BY <2>1, <2>3, <2>4, <2>5 DEF TaskOK, IsTask
  <2>7. Moves(c)
    BY <2>4, <2>5, <2>6 DEF Moves
  <2>8. Replied(c) /\ replies'[c] = replies[c]
    BY <1>1, <1>5, Unanswered
  <2> HIDE DEF r
  <2>9. \/ conn'[c].plan \in Seq(Quiet)
        \/ MayWrite(sent[c][Len(replies'[c]) + 1].tok, conn'[c].since)
    BY <1>2, <2>2, <2>3, <2>6, <2>8 DEF r
  <2>10. Len(replies'[c]) < Len(sent[c])
    BY <1>1, <1>2, <2>8
  <2>11. QED
    BY <1>1, <2>7, <2>8, <2>9, <2>10, QuietStep
<1>6. QED
  BY <1>4, <1>5 DEF Accept

\* A step that writes nothing.
LEMMA OnInv ==
  ASSUME DoorInv, NEW c \in Conns, Busy(c), GoesOn(c) \/ AliasReads(c) \/ Skip(c),
         UNCHANGED <<node, now, sent, replies, log>>
  PROVE  DoorInv'
<1>1. TypeOK /\ conn[c].at = "work"
  BY DEF DoorInv, Busy
<1>2. /\ Moves(c) /\ conn'[c].at = "work" /\ conn'[c].since = conn[c].since
      /\ conn[c].plan \in Seq(Quiet) => conn'[c].plan \in Seq(Quiet)
  BY <1>1, PlanGoesOn
<1>3. Replied(c) /\ replies'[c] = replies[c]
  BY <1>1, Unanswered
<1>4. conn[c].plan \in Seq(Quiet) \/ MayWrite(sent[c][Len(replies[c]) + 1].tok, conn[c].since)
  BY <1>1 DEF DoorInv, PlanHeld, Current, Taken
<1>5. Len(replies[c]) < Len(sent[c])
  BY <1>1 DEF DoorInv, InHand
<1>6. QED
  BY <1>2, <1>3, <1>4, <1>5, QuietStep

\* What a step writes is an entry per operation.
LEMMA WritesType ==
  ASSUME NEW c \in Conns, Step(c).ops \in Seq(AllOps), conn[c].since \in Nat
  PROVE  /\ Writes(c) \in Seq(Entries) /\ Len(Writes(c)) = Len(Step(c).ops)
         /\ \A i \in DOMAIN Writes(c) : Writes(c)[i].since = conn[c].since /\ Writes(c)[i].op = Step(c).ops[i]
<1>1. Len(Step(c).ops) \in Nat /\ DOMAIN Step(c).ops = 1..Len(Step(c).ops)
  OBVIOUS
<1>2. ASSUME NEW i \in DOMAIN Step(c).ops PROVE [since |-> conn[c].since, op |-> Step(c).ops[i]] \in Entries
  BY DEF Entries
<1>3. Writes(c) \in [1..Len(Step(c).ops) -> Entries]
  BY <1>1, <1>2 DEF Writes
<1>4. \A i \in DOMAIN Step(c).ops : Writes(c)[i].since = conn[c].since /\ Writes(c)[i].op = Step(c).ops[i]
  BY DEF Writes
<1>5. Writes(c) \in Seq(Entries) /\ Len(Writes(c)) = Len(Step(c).ops) /\ DOMAIN Writes(c) = DOMAIN Step(c).ops
  BY <1>1, <1>3
<1>6. QED
  BY <1>4, <1>5

\* A step that writes: its plan is not quiet, so its request may write.
LEMMA WriteInv ==
  ASSUME DoorInv, NEW c \in Conns, Busy(c), Step(c).do \in {"commit", "write"}, GoesOn(c),
         log' = Logged(c), UNCHANGED <<node, now, sent, replies>>
  PROVE  DoorInv'
<1>1. TypeOK /\ conn[c].at = "work" /\ conn[c].plan \in Seq(Steps) /\ conn[c].plan # <<>> /\ conn[c].since \in Nat
  BY DEF DoorInv, TypeOK, TaskOK, Busy
<1>2. /\ Moves(c) /\ conn'[c].at = "work" /\ conn'[c].since = conn[c].since
      /\ conn[c].plan \in Seq(Quiet) => conn'[c].plan \in Seq(Quiet)
  BY <1>1, PlanGoesOn
<1>3. Step(c) \in Steps
  BY <1>1, TailType DEF Step
<1>4. conn[c].plan \notin Seq(Quiet)
  <2>1. conn[c].plan \in Seq(Quiet) => Step(c) \in Quiet
    BY <1>1, TailType DEF Step
  <2>2. Step(c) \notin Quiet
    BY DEF Quiet
  <2>3. QED
    BY <2>1, <2>2
<1>5. MayWrite(sent[c][Current(c)].tok, conn[c].since)
  BY <1>1, <1>4 DEF DoorInv, PlanHeld
<1>6. Current(c) = Len(replies[c]) + 1 /\ Current(c) \in 1..Len(sent[c])
  <2>1. Len(replies[c]) \in Nat /\ Len(sent[c]) \in Nat /\ Len(replies[c]) < Len(sent[c])
    BY <1>1 DEF TypeOK, DoorInv, InHand
  <2>2. QED
    BY <1>1, <2>1 DEF Current, Taken
<1> DEFINE n == Current(c)
<1>7. Step(c).ops \in Seq(AllOps)
  BY <1>3 DEF Steps
<1>8. Writes(c) \in Seq(Entries) /\ \A i \in DOMAIN Writes(c) : Writes(c)[i].since = conn[c].since
  BY <1>1, <1>7, WritesType
<1>9. /\ log \in [Conns -> Seq(Seq(Entries))] /\ n \in DOMAIN log[c] /\ log[c][n] \in Seq(Entries)
      /\ Len(log[c]) = Len(sent[c])
  <2>1. log \in [Conns -> Seq(Seq(Entries))] /\ Len(log[c]) = Len(sent[c])
    BY <1>1 DEF TypeOK, DoorInv, LogRefers
  <2>2. QED
    BY <1>6, <2>1
<1>10. log' = [log EXCEPT ![c] = [log[c] EXCEPT ![n] = log[c][n] \o Writes(c)]]
  BY <1>9 DEF Logged
<1> HIDE DEF n
<1>11. log[c][n] \o Writes(c) \in Seq(Entries)
  BY <1>8, <1>9
<1>12. log'[c] = [log[c] EXCEPT ![n] = log[c][n] \o Writes(c)] /\ \A d \in Conns : d # c => log'[d] = log[d]
  BY <1>9, <1>10
<1>13. log'[c] \in Seq(Seq(Entries)) /\ Len(log'[c]) = Len(log[c])
  <2>1. PICK S : S = Seq(Entries)
    OBVIOUS
  <2>2. PICK e \in S : log'[c] = [log[c] EXCEPT ![n] = e]
    BY <1>11, <1>12, <2>1
  <2>3. log[c] \in Seq(S)
    BY <1>9, <2>1
  <2>4. log'[c] \in Seq(S) /\ Len(log'[c]) = Len(log[c])
    BY <1>9, <2>2, <2>3, ExceptSeq
  <2>5. QED
    BY <2>1, <2>4
<1>14. log' \in [Conns -> Seq(Seq(Entries))]
  BY <1>9, <1>10, <1>12, <1>13
<1>15. LogRefers'
  BY <1>12, <1>13 DEF DoorInv, LogRefers
<1>16. WritesAuthorized'
  <2>1. SUFFICES ASSUME NEW d \in Conns, NEW k \in DOMAIN log'[d], NEW i \in DOMAIN log'[d][k]
                 PROVE  MayWrite(sent[d][k].tok, log'[d][k][i].since)
    <3>1. \A d \in Conns : \A k \in DOMAIN log'[d] : \A i \in DOMAIN log'[d][k] :
              MayWrite(sent[d][k].tok, log[d][k][i].since)' <=> MayWrite(sent[d][k].tok, log'[d][k][i].since)
      BY DEF MayWrite
    <3>2. QED
      BY <2>1, <3>1 DEF WritesAuthorized
  <2>2. k \in DOMAIN log[d]
    BY <1>9, <1>12
  <2>3. CASE d # c \/ k # n
    <3>1. log'[d][k] = log[d][k]
      BY <1>9, <1>12, <2>2, <2>3
    <3>2. QED
      BY <2>2, <3>1 DEF DoorInv, WritesAuthorized
  <2>4. CASE d = c /\ k = n
    <3>1. log'[d][k] = log[c][n] \o Writes(c)
      BY <1>9, <1>12, <2>4
    <3>2. CASE i \in DOMAIN log[c][n]
      <4>1. log'[d][k][i] = log[c][n][i]
        BY <1>8, <1>9, <3>1, <3>2
      <4>2. QED
        BY <1>9, <2>4, <3>2, <4>1 DEF DoorInv, WritesAuthorized
    <3>3. CASE i \notin DOMAIN log[c][n]
      <4>1. PICK j \in DOMAIN Writes(c) : log'[d][k][i] = Writes(c)[j]
        <5>1. PICK w \in Seq(Entries) : w = Writes(c)
          BY <1>8
        <5>2. i \in DOMAIN (log[c][n] \o w) /\ log'[d][k][i] = (log[c][n] \o w)[i]
          BY <3>1, <5>1
        <5>3. \E j \in DOMAIN w : (log[c][n] \o w)[i] = w[j]
          BY <1>9, <3>3, <5>2, ConcatIndex
        <5>4. QED
          BY <5>1, <5>2, <5>3
      <4>2. QED
        BY <1>5, <1>8, <2>4, <4>1 DEF n
    <3>4. QED
      BY <3>2, <3>3
  <2>5. QED
    BY <2>3, <2>4
<1>20. TypeOK'
  BY <1>1, <1>2, <1>14 DEF TypeOK, Moves
<1>17. InHand'
  BY <1>1, <1>2 DEF DoorInv, InHand, Moves
<1>18. PlanHeld'
  <2>1. \A d \in Conns : conn'[d].at = conn[d].at /\ conn'[d].since = conn[d].since
    BY <1>1, <1>2 DEF Moves
  <2>2. \A d \in Conns : Current(d)' = Current(d)
    BY <2>1 DEF Current, Taken
  <2>3. \A d \in Conns : MayWrite(sent[d][Current(d)].tok, conn[d].since)' <=>
                           MayWrite(sent[d][Current(d)].tok, conn[d].since)
    BY <2>1, <2>2 DEF MayWrite
  <2>4. ASSUME NEW d \in Conns, conn'[d].at = "work"
        PROVE  conn'[d].plan \in Seq(Quiet) \/ MayWrite(sent[d][Current(d)].tok, conn[d].since)
    <3>1. CASE d = c
      BY <1>5, <3>1
    <3>2. CASE d # c
      BY <1>2, <2>4, <3>2 DEF DoorInv, PlanHeld, Moves
    <3>3. QED
      BY <3>1, <3>2
  <2>5. QED
    BY <2>3, <2>4 DEF PlanHeld
<1>19. QED
  BY <1>15, <1>16, <1>17, <1>18, <1>20 DEF DoorInv

\* What a step in hand can be answered with.
LEMMA StepFailsType ==
  ASSUME TypeOK, NEW c \in Conns, Busy(c)
  PROVE  Step(c).fails \in Bodies
<1>1. conn[c].plan \in Seq(Steps) /\ conn[c].plan # <<>>
  BY DEF TypeOK, TaskOK, Busy
<1>2. Step(c) \in Steps
  BY <1>1, TailType DEF Step
<1>3. QED
  BY <1>2 DEF Steps, Bodies

\* Every step keeps the invariant.
LEMMA StepInv ==
  ASSUME DoorInv, [Next]_doorVars
  PROVE  DoorInv'
<1>1. TypeOK
  BY DEF DoorInv
<1>2. {"error", "refused", "ended", "committed_local", "errors"} \subseteq Bodies
  BY DEF Bodies, Fails
<1>3. ASSUME NEW c \in Conns, NEW r \in Requests, Send(c, r) PROVE DoorInv'
  BY <1>3, SendInv
<1>4. ASSUME NEW c \in Conns, Malformed(c) PROVE DoorInv'
  <2>1. Taken(c) + 1 \in Nat
    BY <1>1, CurrentType
  <2>2. QED
    BY <1>2, <1>4, <2>1, EndInv DEF Malformed
<1>5. ASSUME NEW c \in Conns, Subscribe(c) PROVE DoorInv'
  BY <1>5, SubscribeInv
<1>6. ASSUME NEW c \in Conns, StreamEnds(c) PROVE DoorInv'
  <2>1. Current(c) \in Nat
    BY <1>1, CurrentType
  <2>2. QED
    BY <1>2, <1>6, <2>1, EndInv DEF StreamEnds
<1>7. ASSUME NEW c \in Conns, Accept(c) PROVE DoorInv'
  BY <1>7, AcceptInv
<1>8. ASSUME NEW c \in Conns, StepDone(c) PROVE DoorInv'
  <2>1. CASE Step(c).do = "commit"
    BY <1>8, <2>1, WriteInv DEF StepDone
  <2>2. CASE Step(c).do # "commit"
    BY <1>8, <2>2, OnInv DEF StepDone
  <2>3. QED
    BY <2>1, <2>2
<1>9. ASSUME NEW c \in Conns, StepFails(c) PROVE DoorInv'
  <2>1. Current(c) \in Nat /\ Busy(c) /\ UNCHANGED <<node, now, sent, log>>
    BY <1>1, <1>9, CurrentType DEF StepFails
  <2>2. CASE Failed(c)
    BY <1>2, <2>1, <2>2, EndInv DEF Failed
  <2>3. CASE ReadsOn(c) /\ Answer(c, Current(c), "error")
    BY <1>2, <2>1, <2>3, EndInv
  <2>4. CASE Skip(c) /\ UNCHANGED replies
    BY <2>1, <2>4, OnInv
  <2>5. QED
    BY <1>9, <2>2, <2>3, <2>4 DEF StepFails
<1>10. ASSUME NEW c \in Conns, AliasRead(c) PROVE DoorInv'
  BY <1>10, OnInv DEF AliasRead, AliasReads, Working
<1>11. ASSUME NEW c \in Conns, AliasWrite(c) PROVE DoorInv'
  BY <1>11, WriteInv DEF AliasWrite, Working
<1>12. ASSUME NEW c \in Conns, AwaitQuorum(c) PROVE DoorInv'
  <2>1. Current(c) \in Nat /\ Busy(c) /\ UNCHANGED <<node, now, sent, log>>
    BY <1>1, <1>12, CurrentType DEF AwaitQuorum, Working
  <2>2. CASE GoesOn(c) /\ UNCHANGED replies
    BY <2>1, <2>2, OnInv
  <2>3. CASE ReadsOn(c) /\ Answer(c, Current(c), "committed_local")
    BY <1>2, <2>1, <2>3, EndInv
  <2>4. QED
    BY <1>12, <2>2, <2>3 DEF AwaitQuorum
<1>13. ASSUME NEW c \in Conns, Respond(c) PROVE DoorInv'
  <2>1. Current(c) \in Nat /\ Busy(c) /\ UNCHANGED <<node, now, sent, log>> /\ ReadsOn(c)
    BY <1>1, <1>13, CurrentType DEF Respond, Working
  <2>2. \E body \in Bodies : Answer(c, Current(c), body)
    BY <1>1, <1>2, <1>13, <2>1, StepFailsType DEF Respond
  <2>3. QED
    BY <2>1, <2>2, EndInv
<1>14. ASSUME NEW c \in Conns, Hangup(c) PROVE DoorInv'
  BY <1>14, EndInv DEF Hangup
<1>15. ASSUME UNCHANGED <<node, conn, sent, replies, log>>, now' \in Nat PROVE DoorInv'
  <2>1. TypeOK'
    BY <1>1, <1>15 DEF TypeOK
  <2>2. InHand' /\ LogRefers'
    BY <1>15 DEF DoorInv, InHand, LogRefers
  <2>3. \A d \in Conns : Current(d)' = Current(d)
    BY <1>15 DEF Current, Taken
  <2>4. \A d \in Conns : MayWrite(sent[d][Current(d)].tok, conn[d].since)' <=>
                           MayWrite(sent[d][Current(d)].tok, conn[d].since)
    BY <1>15, <2>3 DEF MayWrite
  <2>5. PlanHeld'
    BY <1>15, <2>4 DEF DoorInv, PlanHeld
  <2>6. \A d \in Conns : \A n \in DOMAIN log[d] : \A i \in DOMAIN log[d][n] :
            MayWrite(sent[d][n].tok, log[d][n][i].since)' <=> MayWrite(sent[d][n].tok, log[d][n][i].since)
    BY <1>15 DEF MayWrite
  <2>7. WritesAuthorized'
    BY <1>15, <2>6 DEF DoorInv, WritesAuthorized
  <2>8. QED
    BY <2>1, <2>2, <2>5, <2>7 DEF DoorInv
<1>16. CASE Tick
  BY <1>1, <1>15, <1>16 DEF Tick, TypeOK
<1>17. CASE UNCHANGED doorVars
  BY <1>1, <1>15, <1>17 DEF doorVars, TypeOK
<1>18. QED
  BY <1>3, <1>4, <1>5, <1>6, <1>7, <1>8, <1>9, <1>10, <1>11, <1>12, <1>13, <1>14, <1>16, <1>17 DEF Next

----------------------------------------------------------------------------
(* What a connection's replies say, step by step of the connection.        *)

Bodied == [n : Nat, body : Bodies]
FormedConn(t, s, e, l) ==
    /\ TaskOK(t) /\ s \in Seq(Requests) /\ e \in Seq(Bodied) /\ l \in Seq(Seq(Entries))

\* Nothing logged, nothing done.
LEMMA OpsOfNone == ASSUME NEW x, x = <<>> PROVE OpsOf(x) = <<>>
<1>1. DOMAIN x = {}
  OBVIOUS
<1>2. OpsOf(x) = [i \in {} |-> x[i].op]
  BY <1>1 DEF OpsOf
<1>3. QED
  BY <1>2

\* The operations of a log are as many as its entries.
LEMMA OpsOfType ==
  ASSUME NEW x \in Seq(Entries)
  PROVE  /\ OpsOf(x) \in Seq(AllOps) /\ Len(OpsOf(x)) = Len(x)
         /\ \A i \in 1..Len(x) : OpsOf(x)[i] = x[i].op
<1>1. DOMAIN x = 1..Len(x) /\ Len(x) \in Nat
  OBVIOUS
<1>2. \A i \in 1..Len(x) : x[i].op \in AllOps
  <2>1. SUFFICES ASSUME NEW i \in 1..Len(x) PROVE x[i].op \in AllOps
    OBVIOUS
  <2>2. x[i] \in Entries
    BY <1>1
  <2>3. QED
    BY <2>2 DEF Entries
<1>3. OpsOf(x) = [i \in 1..Len(x) |-> x[i].op]
  BY <1>1 DEF OpsOf
<1>4. QED
  BY <1>1, <1>2, <1>3

\* The operations of a log that grew.
LEMMA OpsOfCat ==
  ASSUME NEW x \in Seq(Entries), NEW w \in Seq(Entries), NEW o \in Seq(AllOps), Len(w) = Len(o),
         \A i \in 1..Len(w) : w[i].op = o[i]
  PROVE  OpsOf(x \o w) = OpsOf(x) \o o
<1>1. x \o w \in Seq(Entries) /\ Len(x \o w) = Len(x) + Len(w) /\ Len(x) \in Nat /\ Len(w) \in Nat
  OBVIOUS
<1>2. /\ OpsOf(x) \in Seq(AllOps) /\ Len(OpsOf(x)) = Len(x)
      /\ \A i \in 1..Len(x) : OpsOf(x)[i] = x[i].op
  BY OpsOfType
<1>3. /\ OpsOf(x \o w) \in Seq(AllOps) /\ Len(OpsOf(x \o w)) = Len(x) + Len(w)
      /\ \A i \in 1..(Len(x) + Len(w)) : OpsOf(x \o w)[i] = (x \o w)[i].op
  BY <1>1, OpsOfType
<1>4. PICK y : y = OpsOf(x)
  OBVIOUS
<1>5. y \in Seq(AllOps) /\ Len(y) = Len(x)
  BY <1>2, <1>4
<1>6. y \o o \in Seq(AllOps) /\ Len(y \o o) = Len(x) + Len(w)
  <2>1. y \o o \in Seq(AllOps) /\ Len(y \o o) = Len(y) + Len(o)
    BY <1>5, ConcatProperties
  <2>2. QED
    BY <1>5, <2>1
<1>7. ASSUME NEW i \in 1..(Len(x) + Len(w)) PROVE (x \o w)[i].op = (y \o o)[i]
  <2>1. CASE i <= Len(x)
    <3>1. i \in 1..Len(x) /\ (x \o w)[i] = x[i]
      BY <1>1, <2>1
    <3>2. (y \o o)[i] = y[i]
      BY <1>5, <3>1
    <3>3. QED
      BY <1>2, <1>4, <3>1, <3>2
  <2>2. CASE i > Len(x)
    <3>1. i - Len(x) \in 1..Len(w) /\ (x \o w)[i] = w[i - Len(x)]
      BY <1>1, <2>2
    <3>2. (y \o o)[i] = o[i - Len(x)]
      BY <1>1, <1>5, <2>2
    <3>3. w[i - Len(x)].op = o[i - Len(x)]
      BY <3>1
    <3>4. QED
      BY <3>1, <3>2, <3>3
  <2>3. i <= Len(x) \/ i > Len(x)
    BY <1>1
  <2>4. QED
    BY <2>1, <2>2, <2>3
<1>8. OpsOf(x \o w) = y \o o
  <2>1. Len(OpsOf(x \o w)) = Len(y \o o)
    BY <1>3, <1>6
  <2>2. \A i \in 1..Len(OpsOf(x \o w)) : OpsOf(x \o w)[i] = (y \o o)[i]
    BY <1>3, <1>7
  <2>3. QED
    BY <1>3, <1>6, <2>1, <2>2, SeqEqual
<1>9. QED
  BY <1>4, <1>8

\* The lengths and members of what a connection holds.
LEMMA Formed ==
  ASSUME NEW t, NEW s, NEW e, NEW l, FormedConn(t, s, e, l), PastTrue(s, e, l)
  PROVE  /\ Len(s) \in Nat /\ Len(e) \in Nat /\ Len(e) <= Len(s) /\ Len(l) = Len(s)
         /\ DOMAIN s = 1..Len(s) /\ DOMAIN e = 1..Len(e) /\ DOMAIN l = 1..Len(s)
         /\ \A n \in 1..Len(s) : s[n] \in Requests /\ l[n] \in Seq(Entries)
         /\ t.at \in {"idle", "work", "stream", "closed"} /\ t.plan \in Seq(Steps) /\ t.erred \in BOOLEAN
<1>1. s \in Seq(Requests) /\ e \in Seq(Bodied) /\ l \in Seq(Seq(Entries)) /\ Len(l) = Len(s) /\ Len(e) <= Len(s)
  BY DEF FormedConn, PastTrue
<1>2. /\ Len(s) \in Nat /\ Len(e) \in Nat /\ DOMAIN s = 1..Len(s) /\ DOMAIN e = 1..Len(e)
      /\ \A n \in 1..Len(s) : s[n] \in Requests
  BY <1>1
<1>3. DOMAIN l = 1..Len(s) /\ \A n \in 1..Len(s) : l[n] \in Seq(Entries)
  <2>1. PICK S : S = Seq(Entries)
    OBVIOUS
  <2>2. l \in Seq(S)
    BY <1>1, <2>1
  <2>3. DOMAIN l = 1..Len(l) /\ \A n \in 1..Len(l) : l[n] \in S
    BY <2>2
  <2>4. QED
    BY <1>1, <2>1, <2>3
<1>4. QED
  BY <1>1, <1>2, <1>3 DEF FormedConn, TaskOK

\* An answer: what it says must be true of the request it is for.
LEMMA AnswerTrue ==
  ASSUME NEW t, NEW s, NEW e, NEW l, FormedConn(t, s, e, l), TrueConn(t, s, e, l), t.at # "closed",
         Len(e) < Len(s), NEW body \in Bodies, NEW u, u.at \in {"idle", "closed"},
         u.at = "idle" => ~u.erred, Told(s[Len(e) + 1], body, OpsOf(l[Len(e) + 1]))
  PROVE  TrueConn(u, s, Append(e, [n |-> Len(e) + 1, body |-> body]), l)
<1>0. PICK f : f = Append(e, [n |-> Len(e) + 1, body |-> body])
  OBVIOUS
<1>1. /\ Len(s) \in Nat /\ Len(e) \in Nat /\ DOMAIN s = 1..Len(s) /\ DOMAIN e = 1..Len(e)
      /\ PastTrue(s, e, l) /\ RestTrue(t, s, e, l)
  BY Formed DEF TrueConn
<1>2. /\ Len(f) = Len(e) + 1 /\ DOMAIN f = 1..(Len(e) + 1) /\ \A i \in 1..Len(e) : f[i] = e[i]
      /\ f[Len(e) + 1] = [n |-> Len(e) + 1, body |-> body]
  <2>1. PICK x : x = [n |-> Len(e) + 1, body |-> body]
    OBVIOUS
  <2>2. x \in Bodied
    BY <1>1, <2>1 DEF Bodied
  <2>3. e \in Seq(Bodied) /\ f = Append(e, x)
    BY <1>0, <2>1 DEF FormedConn
  <2>4. PICK S : S = Bodied
    OBVIOUS
  <2>5. e \in Seq(S) /\ x \in S
    BY <2>2, <2>3, <2>4
  <2>6. /\ Len(f) = Len(e) + 1 /\ DOMAIN f = 1..(Len(e) + 1) /\ \A i \in 1..Len(e) : f[i] = e[i]
        /\ f[Len(e) + 1] = x
    BY <2>3, <2>5
  <2>7. QED
    BY <2>1, <2>6
<1>3. WorkTrue(u, s, f, l)
  BY DEF WorkTrue
<1>4. RestTrue(u, s, f, l)
  <2>1. ASSUME NEW n \in DOMAIN s, n > Len(f) PROVE l[n] = <<>>
    <3>1. n > Len(e) + (IF t.at = "work" THEN 1 ELSE 0)
      BY <1>1, <1>2, <2>1
    <3>2. QED
      BY <1>1, <3>1 DEF RestTrue
  <2>2. Len(f) + 0 = Len(f) /\ u.at # "work" /\ u.at # "stream"
    BY <1>1, <1>2
  <2>3. QED
    BY <2>1, <2>2 DEF RestTrue
<1>5. PastTrue(s, f, l)
  <2>1. Len(f) <= Len(s)
    BY <1>1, <1>2
  <2>2. ASSUME NEW i \in DOMAIN f PROVE f[i].n = i /\ Told(s[i], f[i].body, OpsOf(l[i]))
    <3>1. CASE i = Len(e) + 1
      BY <1>2, <3>1
    <3>2. CASE i # Len(e) + 1
      <4>1. i \in DOMAIN e
        BY <1>1, <1>2, <3>2
      <4>2. QED
        BY <1>1, <1>2, <4>1 DEF PastTrue
    <3>3. QED
      BY <3>1, <3>2
  <2>3. QED
    BY <1>1, <2>1, <2>2 DEF PastTrue
<1>6. TrueConn(u, s, f, l)
  BY <1>3, <1>4, <1>5 DEF TrueConn
<1>7. QED
  BY <1>0, <1>6

\* A connection that closes without an answer.
LEMMA CloseTrue ==
  ASSUME NEW t, NEW s, NEW e, NEW l, TrueConn(t, s, e, l), NEW u, u.at = "closed"
  PROVE  TrueConn(u, s, e, l)
BY DEF TrueConn, WorkTrue, RestTrue

\* A subscription begins.
LEMMA StreamTrue ==
  ASSUME NEW t, NEW s, NEW e, NEW l, FormedConn(t, s, e, l), TrueConn(t, s, e, l), t.at = "idle",
         Len(e) < Len(s), s[Len(e) + 1].verb \in {"watch", "live"},
         NEW u, u.at = "stream", u.erred = t.erred
  PROVE  TrueConn(u, s, e, l)
BY DEF TrueConn, WorkTrue, RestTrue

\* A request is taken up.
LEMMA TakeTrue ==
  ASSUME NEW t, NEW s, NEW e, NEW l, FormedConn(t, s, e, l), TrueConn(t, s, e, l), t.at = "idle",
         Len(e) < Len(s), NEW u, u.at = "work", u.erred = t.erred, u.plan \in Seq(Steps),
         Leads(u.plan, s[Len(e) + 1])
  PROVE  TrueConn(u, s, e, l)
<1>1. /\ Len(s) \in Nat /\ Len(e) \in Nat /\ DOMAIN s = 1..Len(s)
      /\ \A n \in 1..Len(s) : s[n] \in Requests
      /\ PastTrue(s, e, l) /\ RestTrue(t, s, e, l)
  BY Formed DEF TrueConn
<1>2. Len(e) + 1 \in DOMAIN s /\ Len(e) + 1 > Len(e) + 0 /\ s[Len(e) + 1] \in Requests
  BY <1>1
<1>3. ~u.erred /\ l[Len(e) + 1] = <<>>
  BY <1>1, <1>2 DEF RestTrue
<1>4. OpsOf(l[Len(e) + 1]) = <<>>
  BY <1>3, OpsOfNone
<1>5. PICK r \in Requests : r = s[Len(e) + 1]
  BY <1>2
<1>6. Asked(r) \in Seq(AllOps) /\ 0 \in Marks(r) /\ SubSeq(Asked(r), 1, 0) = <<>>
  <2>1. Asked(r) \in Seq(AllOps) /\ 0 \in Marks(r)
    BY AskedType
  <2>2. QED
    BY <2>1
<1>7. PICK b \in Marks(r) : Feeds(u.plan, r, 0, b)
  BY <1>5 DEF Leads
<1>8. Underway(r, <<>>, u.plan)
  BY <1>6, <1>7 DEF Underway
<1>9. \A i \in DOMAIN u.plan : Fits(u.plan[i], r)
  BY <1>7, FeedsFits
<1>10. WorkTrue(u, s, e, l)
  BY <1>3, <1>4, <1>5, <1>8, <1>9 DEF WorkTrue
<1>11. RestTrue(u, s, e, l)
  <2>1. ASSUME NEW n \in DOMAIN s, n > Len(e) + 1 PROVE l[n] = <<>>
    <3>1. n > Len(e) + 0
      BY <1>1, <2>1
    <3>2. QED
      BY <1>1, <3>1 DEF RestTrue
  <2>2. QED
    BY <2>1 DEF RestTrue
<1>12. QED
  BY <1>1, <1>10, <1>11 DEF TrueConn

\* What is done of r is a beginning, the first step of p carries it on and the others the rest.
Onward(p, r, done) ==
    \E a, k, b \in Marks(r) :
        /\ done = SubSeq(Asked(r), 1, a) /\ (r.verb = "tx" => a \in {0, Len(Asked(r))})
        /\ Carries(Head(p), r, a, k) /\ Feeds(Tail(p), r, k, b)

\* What a handler at work is about to do, and what it did.
LEMMA AtHand ==
  ASSUME NEW t, NEW s, NEW e, NEW l, FormedConn(t, s, e, l), TrueConn(t, s, e, l), t.at = "work",
         t.plan # <<>>, NEW r, r = s[Len(e) + 1], NEW done, done = OpsOf(l[Len(e) + 1])
  PROVE  /\ r \in Requests /\ Len(e) < Len(s) /\ Fits(Head(t.plan), r)
         /\ t.erred => r.verb = "graphql"
         /\ ~t.erred => Onward(t.plan, r, done)
<1>1. /\ Len(s) \in Nat /\ Len(e) \in Nat /\ DOMAIN s = 1..Len(s)
      /\ \A n \in 1..Len(s) : s[n] \in Requests
      /\ t.plan \in Seq(Steps) /\ WorkTrue(t, s, e, l)
  BY Formed DEF TrueConn
<1>2. Len(e) < Len(s) /\ r \in Requests
  BY <1>1 DEF WorkTrue
<1>3. 1 \in DOMAIN t.plan /\ Head(t.plan) = t.plan[1]
  BY <1>1
<1>4. Fits(Head(t.plan), r) /\ (t.erred => r.verb = "graphql") /\ (~t.erred => Underway(r, done, t.plan))
  BY <1>1, <1>3 DEF WorkTrue
<1>5. ASSUME ~t.erred
      PROVE  Onward(t.plan, r, done)
  <2>1. PICK a, b \in Marks(r) : /\ done = SubSeq(Asked(r), 1, a)
                                 /\ r.verb = "tx" => a \in {0, Len(Asked(r))}
                                 /\ Feeds(t.plan, r, a, b)
    BY <1>4, <1>5 DEF Underway
  <2>2. PICK k \in Marks(r) : Carries(Head(t.plan), r, a, k) /\ Feeds(Tail(t.plan), r, k, b)
    BY <1>1, <2>1, FeedsOn
  <2>3. QED
    BY <2>1, <2>2 DEF Onward
<1>6. QED
  BY <1>2, <1>4, <1>5

\* The beginnings of what was asked.
LEMMA Beginnings ==
  ASSUME NEW r \in Requests
  PROVE  SubSeq(Asked(r), 1, 0) = <<>> /\ SubSeq(Asked(r), 1, Len(Asked(r))) = Asked(r)
<1>1. Asked(r) \in Seq(AllOps)
  BY AskedType
<1>2. QED
  BY <1>1, SubSeqFull

\* A step that fails: an error is true of it.
LEMMA FailTrue ==
  ASSUME NEW t, NEW s, NEW e, NEW l, FormedConn(t, s, e, l), TrueConn(t, s, e, l), t.at = "work",
         t.plan # <<>>, Head(t.plan).do \notin {"quorum", "reply"}
  PROVE  Len(e) < Len(s) /\ Told(s[Len(e) + 1], "error", OpsOf(l[Len(e) + 1]))
<1>1. PICK r, done : r = s[Len(e) + 1] /\ done = OpsOf(l[Len(e) + 1])
  OBVIOUS
<1>2. /\ r \in Requests /\ Len(e) < Len(s) /\ (t.erred => r.verb = "graphql")
      /\ (~t.erred => Onward(t.plan, r, done))
  BY <1>1, AtHand
<1>3. ASSUME OneCommit(r) PROVE done = <<>>
  <2>1. ~t.erred
    BY <1>2, <1>3 DEF OneCommit
  <2>2. PICK a, k, b \in Marks(r) : done = SubSeq(Asked(r), 1, a) /\ Carries(Head(t.plan), r, a, k)
    BY <1>2, <2>1 DEF Onward
  <2>3. a = 0
    BY <1>3, <2>2 DEF Carries
  <2>4. QED
    BY <1>2, <2>2, <2>3, Beginnings
<1>4. QED
  BY <1>1, <1>2, <1>3 DEF Told, Client_call

\* A reply is true when its step comes.
LEMMA ReplyTrue ==
  ASSUME NEW t, NEW s, NEW e, NEW l, FormedConn(t, s, e, l), TrueConn(t, s, e, l), t.at = "work",
         t.plan # <<>>, Head(t.plan).do = "reply"
  PROVE  /\ Len(e) < Len(s)
         /\ Told(s[Len(e) + 1], IF t.erred THEN "errors" ELSE Head(t.plan).fails, OpsOf(l[Len(e) + 1]))
<1>1. PICK r, done : r = s[Len(e) + 1] /\ done = OpsOf(l[Len(e) + 1])
  OBVIOUS
<1>2. /\ r \in Requests /\ Len(e) < Len(s) /\ (t.erred => r.verb = "graphql") /\ Fits(Head(t.plan), r)
      /\ (~t.erred => Onward(t.plan, r, done))
  BY <1>1, AtHand
<1>3. CASE t.erred
  BY <1>1, <1>2, <1>3 DEF Told, Client_call
<1>4. CASE ~t.erred
  <2>1. PICK a, k, b \in Marks(r) : done = SubSeq(Asked(r), 1, a) /\ Carries(Head(t.plan), r, a, k)
    BY <1>2, <1>4 DEF Onward
  <2>2. CASE Head(t.plan).fails = "ok"
    <3>1. done = Asked(r)
      BY <1>2, <2>1, <2>2, Beginnings DEF Carries
    <3>2. r.verb # "graphql" \/ r.stmt = "write" => done = r.ops
      BY <3>1 DEF Asked
    <3>3. QED
      BY <1>1, <1>2, <1>4, <2>2, <3>2 DEF Told, Client_call
  <2>3. CASE Head(t.plan).fails # "ok"
    <3>1. done = <<>>
      BY <1>2, <2>1, <2>3, Beginnings DEF Carries
    <3>2. Head(t.plan).fails \in Fails
      <4>1. t.plan \in Seq(Steps)
        BY DEF FormedConn, TaskOK
      <4>2. Head(t.plan) \in Steps
        BY <4>1, TailType
      <4>3. QED
        BY <4>2 DEF Steps
    <3>3. Head(t.plan).fails = "errors" => r.verb = "graphql"
      BY <1>2 DEF Fits
    <3>4. QED
      BY <1>1, <1>2, <1>4, <2>3, <3>1, <3>2, <3>3 DEF Told, Client_call, Fails
  <2>4. QED
    BY <2>2, <2>3
<1>5. QED
  BY <1>3, <1>4

\* A quorum is waited for with everything in the estate.
LEMMA QuorumTrue ==
  ASSUME NEW t, NEW s, NEW e, NEW l, FormedConn(t, s, e, l), TrueConn(t, s, e, l), t.at = "work",
         t.plan # <<>>, Head(t.plan).do = "quorum"
  PROVE  Len(e) < Len(s) /\ Told(s[Len(e) + 1], "committed_local", OpsOf(l[Len(e) + 1]))
<1>1. PICK r, done : r = s[Len(e) + 1] /\ done = OpsOf(l[Len(e) + 1])
  OBVIOUS
<1>2. /\ r \in Requests /\ Len(e) < Len(s) /\ (t.erred => r.verb = "graphql") /\ Fits(Head(t.plan), r)
      /\ (~t.erred => Onward(t.plan, r, done))
  BY <1>1, AtHand
<1>3. r.verb = "tx" /\ ~t.erred
  BY <1>2 DEF Fits
<1>4. PICK a, k, b \in Marks(r) : done = SubSeq(Asked(r), 1, a) /\ Carries(Head(t.plan), r, a, k)
  BY <1>2, <1>3 DEF Onward
<1>5. done = r.ops
  BY <1>2, <1>3, <1>4, Beginnings DEF Carries, Asked
<1>6. QED
  BY <1>1, <1>2, <1>5 DEF Told, Client_call

\* What remains of a plan consists of its steps.
LEMMA RemainsFit ==
  ASSUME NEW r, NEW p \in Seq(Steps), p # <<>>, \A i \in DOMAIN p : Fits(p[i], r),
         NEW q \in {Tail(p), SubSeq(p, 3, Len(p))}
  PROVE  \A i \in DOMAIN q : Fits(q[i], r)
<1>1. Len(p) \in Nat /\ Len(p) # 0 /\ DOMAIN p = 1..Len(p)
  OBVIOUS
<1>2. CASE q = Tail(p)
  <2>1. DOMAIN q = 1..(Len(p) - 1) /\ \A i \in 1..(Len(p) - 1) : q[i] = p[i + 1]
    BY <1>1, <1>2
  <2>2. \A i \in 1..(Len(p) - 1) : i + 1 \in DOMAIN p
    BY <1>1
  <2>3. QED
    BY <2>1, <2>2
<1>3. CASE q = SubSeq(p, 3, Len(p))
  <2>1. \A i \in DOMAIN q : i + 2 \in DOMAIN p /\ q[i] = p[i + 2]
    BY <1>1, <1>3
  <2>2. QED
    BY <2>1
<1>4. QED
  BY <1>2, <1>3

\* A step that writes nothing.
LEMMA GoTrue ==
  ASSUME NEW t, NEW s, NEW e, NEW l, FormedConn(t, s, e, l), TrueConn(t, s, e, l), t.at = "work",
         t.plan # <<>>, Head(t.plan).do \in {"embed", "call", "read", "quorum"},
         NEW u, u.at = "work", u.plan = Tail(t.plan), u.erred = t.erred
  PROVE  TrueConn(u, s, e, l)
<1>1. PICK r, done : r = s[Len(e) + 1] /\ done = OpsOf(l[Len(e) + 1])
  OBVIOUS
<1>2. /\ r \in Requests /\ Len(e) < Len(s) /\ (t.erred => r.verb = "graphql")
      /\ (~t.erred => Onward(t.plan, r, done))
  BY <1>1, AtHand
<1>3. t.plan \in Seq(Steps)
  BY DEF FormedConn, TaskOK
<1>4. \A i \in DOMAIN t.plan : Fits(t.plan[i], r)
  BY <1>1 DEF TrueConn, WorkTrue
<1>5. \A i \in DOMAIN u.plan : Fits(u.plan[i], r)
  BY <1>3, <1>4, RemainsFit
<1>6. ASSUME ~t.erred PROVE Underway(r, done, u.plan)
  <2>1. PICK a, k, b \in Marks(r) :
            /\ done = SubSeq(Asked(r), 1, a) /\ (r.verb = "tx" => a \in {0, Len(Asked(r))})
            /\ Carries(Head(t.plan), r, a, k) /\ Feeds(Tail(t.plan), r, k, b)
    BY <1>2, <1>6 DEF Onward
  <2>2. k = a
    BY <2>1 DEF Carries
  <2>3. QED
    BY <2>1, <2>2 DEF Underway
<1>7. WorkTrue(u, s, e, l)
  BY <1>1, <1>2, <1>5, <1>6 DEF WorkTrue
<1>8. RestTrue(u, s, e, l)
  BY DEF TrueConn, RestTrue
<1>9. QED
  BY <1>7, <1>8 DEF TrueConn

\* A field that fails: only a document has any, and from here on it has failed.
LEMMA SkipTrue ==
  ASSUME NEW t, NEW s, NEW e, NEW l, FormedConn(t, s, e, l), TrueConn(t, s, e, l), t.at = "work",
         t.plan # <<>>, Head(t.plan).fails = "skip", NEW u, u.at = "work", u.erred,
         u.plan \in {Tail(t.plan), SubSeq(t.plan, 3, Len(t.plan))}
  PROVE  TrueConn(u, s, e, l)
<1>1. PICK r : r = s[Len(e) + 1]
  OBVIOUS
<1>2. Len(e) < Len(s) /\ Fits(Head(t.plan), r)
  BY <1>1, AtHand
<1>3. t.plan \in Seq(Steps) /\ \A i \in DOMAIN t.plan : Fits(t.plan[i], r)
  BY <1>1 DEF FormedConn, TaskOK, TrueConn, WorkTrue
<1>4. \A i \in DOMAIN u.plan : Fits(u.plan[i], r)
  BY <1>3, RemainsFit
<1>5. r.verb = "graphql"
  BY <1>2 DEF Fits
<1>6. WorkTrue(u, s, e, l)
  BY <1>1, <1>2, <1>4, <1>5 DEF WorkTrue
<1>7. RestTrue(u, s, e, l)
  BY DEF TrueConn, RestTrue
<1>8. QED
  BY <1>6, <1>7 DEF TrueConn

\* Log n grows by the operations o, the others stay.
Grows(l, m, n, o) ==
    /\ DOMAIN m = DOMAIN l /\ Len(m) = Len(l) /\ \A i \in DOMAIN l : i # n => m[i] = l[i]
    /\ OpsOf(m[n]) = OpsOf(l[n]) \o o

\* A step that writes: the beginning of what was asked grows by what the step carries.
LEMMA WriteTrue ==
  ASSUME NEW t, NEW s, NEW e, NEW l, FormedConn(t, s, e, l), TrueConn(t, s, e, l), t.at = "work",
         t.plan # <<>>, Head(t.plan).do \in {"commit", "write"},
         NEW u, u.at = "work", u.plan = Tail(t.plan), u.erred = t.erred,
         NEW m, Grows(l, m, Len(e) + 1, Head(t.plan).ops)
  PROVE  TrueConn(u, s, e, m)
<1>0. /\ DOMAIN m = DOMAIN l /\ Len(m) = Len(l) /\ \A i \in DOMAIN l : i # Len(e) + 1 => m[i] = l[i]
      /\ OpsOf(m[Len(e) + 1]) = OpsOf(l[Len(e) + 1]) \o Head(t.plan).ops
  BY DEF Grows
<1>1. PICK r, done : r = s[Len(e) + 1] /\ done = OpsOf(l[Len(e) + 1])
  OBVIOUS
<1>2. /\ r \in Requests /\ Len(e) < Len(s) /\ (t.erred => r.verb = "graphql")
      /\ (~t.erred => Onward(t.plan, r, done))
  BY <1>1, AtHand
<1>3. t.plan \in Seq(Steps)
  BY DEF FormedConn, TaskOK
<1>4. \A i \in DOMAIN t.plan : Fits(t.plan[i], r)
  BY <1>1 DEF TrueConn, WorkTrue
<1>5. \A i \in DOMAIN u.plan : Fits(u.plan[i], r)
  BY <1>3, <1>4, RemainsFit
<1>6. Asked(r) \in Seq(AllOps) /\ Len(Asked(r)) \in Nat /\ Marks(r) = 0..Len(Asked(r))
  BY <1>2, AskedType DEF Marks
<1> DEFINE grown == OpsOf(m[Len(e) + 1])
<1>7. ASSUME ~t.erred
      PROVE  \E k, b \in Marks(r) : /\ grown = SubSeq(Asked(r), 1, k)
                                    /\ r.verb = "tx" => k \in {0, Len(Asked(r))}
                                    /\ Feeds(u.plan, r, k, b)
  <2>1. PICK a, k, b \in Marks(r) :
            /\ done = SubSeq(Asked(r), 1, a)
            /\ Carries(Head(t.plan), r, a, k) /\ Feeds(Tail(t.plan), r, k, b)
    BY <1>2, <1>7 DEF Onward
  <2>2. a <= k /\ Head(t.plan).ops = SubSeq(Asked(r), a + 1, k) /\ (r.verb = "tx" => k \in {0, Len(Asked(r))})
    BY <2>1 DEF Carries
  <2>3. a \in (1 - 1)..Len(Asked(r)) /\ k \in a..Len(Asked(r)) /\ 1 \in 1..(Len(Asked(r)) + 1)
    BY <1>6, <2>1, <2>2
  <2>4. SubSeq(Asked(r), 1, a) \o SubSeq(Asked(r), a + 1, k) = SubSeq(Asked(r), 1, k)
    BY <1>6, <2>3, ConcatAdjacentSubSeq
  <2>5. QED
    BY <1>0, <1>1, <2>1, <2>2, <2>4
<1> HIDE DEF grown
<1>8. WorkTrue(u, s, e, m)
  <2>1. ~u.erred => Underway(r, grown, u.plan)
    BY <1>7 DEF Underway
  <2>2. QED
    BY <1>1, <1>2, <1>5, <2>1 DEF WorkTrue, grown
<1>9. /\ Len(s) \in Nat /\ Len(e) \in Nat /\ DOMAIN s = 1..Len(s) /\ DOMAIN e = 1..Len(e)
      /\ DOMAIN l = 1..Len(s) /\ Len(e) <= Len(s) /\ PastTrue(s, e, l) /\ RestTrue(t, s, e, l)
  BY Formed DEF TrueConn
<1>10. RestTrue(u, s, e, m)
  <2>1. ASSUME NEW n \in DOMAIN s, n > Len(e) + 1 PROVE m[n] = <<>>
    <3>1. l[n] = <<>>
      BY <1>9, <2>1 DEF RestTrue
    <3>2. n \in DOMAIN l /\ n # Len(e) + 1
      BY <1>9, <2>1
    <3>3. QED
      BY <1>0, <3>1, <3>2
  <2>2. QED
    BY <2>1 DEF RestTrue
<1>11. PastTrue(s, e, m)
  <2>1. ASSUME NEW i \in DOMAIN e PROVE e[i].n = i /\ Told(s[i], e[i].body, OpsOf(m[i]))
    <3>1. i \in DOMAIN l /\ i # Len(e) + 1
      BY <1>9
    <3>2. m[i] = l[i]
      BY <1>0, <3>1
    <3>3. QED
      BY <1>9, <3>2 DEF PastTrue
  <2>2. ASSUME NEW n \in DOMAIN s, s[n].verb = "tx" PROVE OpsOf(m[n]) \in {<<>>, s[n].ops}
    <3>1. CASE n # Len(e) + 1
      <4>1. m[n] = l[n]
        BY <1>0, <1>9, <3>1
      <4>2. QED
        BY <1>9, <2>2, <4>1 DEF PastTrue
    <3>2. CASE n = Len(e) + 1
      <4>1. ~t.erred /\ r.verb = "tx"
        BY <1>1, <1>2, <2>2, <3>2
      <4>2. PICK k \in Marks(r) : grown = SubSeq(Asked(r), 1, k) /\ k \in {0, Len(Asked(r))}
        BY <1>7, <4>1
      <4>3. grown \in {<<>>, Asked(r)}
        BY <1>2, <4>2, Beginnings
      <4>4. Asked(r) = r.ops
        BY <4>1 DEF Asked
      <4>5. QED
        BY <1>1, <3>2, <4>3, <4>4 DEF grown
    <3>3. QED
      BY <3>1, <3>2
  <2>3. QED
    BY <1>0, <1>9, <2>1, <2>2 DEF PastTrue
<1>12. QED
  BY <1>8, <1>10, <1>11 DEF TrueConn

\* A request more, which wrote nothing yet.
LEMMA SendTrue ==
  ASSUME NEW t, NEW s, NEW e, NEW l, FormedConn(t, s, e, l), TrueConn(t, s, e, l), t.at # "closed",
         NEW r \in Requests, NEW z, z = Append(s, r), NEW m, m = Append(l, <<>>)
  PROVE  TrueConn(t, z, e, m)
<1>1. /\ Len(s) \in Nat /\ Len(e) \in Nat /\ DOMAIN s = 1..Len(s) /\ DOMAIN e = 1..Len(e)
      /\ DOMAIN l = 1..Len(s) /\ Len(l) = Len(s) /\ Len(e) <= Len(s)
      /\ PastTrue(s, e, l) /\ RestTrue(t, s, e, l) /\ WorkTrue(t, s, e, l)
  BY Formed DEF TrueConn
<1>2. /\ Len(z) = Len(s) + 1 /\ DOMAIN z = 1..(Len(s) + 1) /\ \A n \in 1..Len(s) : z[n] = s[n]
  BY DEF FormedConn
<1>3. /\ Len(m) = Len(s) + 1 /\ m[Len(s) + 1] = <<>> /\ \A n \in 1..Len(s) : m[n] = l[n]
  <2>1. PICK S : S = Seq(Entries)
    OBVIOUS
  <2>2. <<>> \in S /\ l \in Seq(S)
    BY <2>1 DEF FormedConn
  <2>3. PICK x : x = <<>>
    OBVIOUS
  <2>4. x \in S /\ m = Append(l, x)
    BY <2>2, <2>3
  <2>5. Len(m) = Len(l) + 1 /\ m[Len(l) + 1] = x /\ \A n \in 1..Len(l) : m[n] = l[n]
    BY <2>2, <2>4
  <2>6. QED
    BY <1>1, <2>3, <2>5
<1>4. WorkTrue(t, z, e, m)
  <2>1. SUFFICES ASSUME t.at = "work" PROVE WorkTrue(t, z, e, m)
    BY DEF WorkTrue
  <2>2. Len(e) < Len(s)
    BY <1>1, <2>1 DEF WorkTrue
  <2>3. Len(e) + 1 \in 1..Len(s) /\ Len(e) < Len(z)
    BY <1>1, <1>2, <2>2
  <2>4. z[Len(e) + 1] = s[Len(e) + 1] /\ m[Len(e) + 1] = l[Len(e) + 1]
    BY <1>2, <1>3, <2>3
  <2>5. QED
    BY <1>1, <2>3, <2>4 DEF WorkTrue
<1>5. RestTrue(t, z, e, m)
  <2>1. t.at = "stream" => Len(e) < Len(z) /\ z[Len(e) + 1].verb \in {"watch", "live"}
    <3>1. SUFFICES ASSUME t.at = "stream"
                   PROVE  Len(e) < Len(z) /\ z[Len(e) + 1].verb \in {"watch", "live"}
      OBVIOUS
    <3>2. Len(e) < Len(s) /\ s[Len(e) + 1].verb \in {"watch", "live"}
      BY <1>1, <3>1 DEF RestTrue
    <3>3. Len(e) + 1 \in 1..Len(s) /\ Len(e) < Len(z)
      BY <1>1, <1>2, <3>2
    <3>4. QED
      BY <1>2, <3>2, <3>3
  <2>2. ASSUME NEW n \in DOMAIN z, n > Len(e) + (IF t.at = "work" THEN 1 ELSE 0) PROVE m[n] = <<>>
    <3>1. CASE n = Len(s) + 1
      BY <1>3, <3>1
    <3>2. CASE n # Len(s) + 1
      <4>1. n \in 1..Len(s)
        BY <1>1, <1>2, <3>2
      <4>2. l[n] = <<>>
        BY <1>1, <2>2, <4>1 DEF RestTrue
      <4>3. QED
        BY <1>3, <4>1, <4>2
    <3>3. QED
      BY <3>1, <3>2
  <2>3. t.at \in {"idle", "stream"} => ~t.erred
    BY <1>1 DEF RestTrue
  <2>4. QED
    BY <2>1, <2>2, <2>3 DEF RestTrue
<1>6. PastTrue(z, e, m)
  <2>1. Len(e) <= Len(z) /\ Len(m) = Len(z)
    BY <1>1, <1>2, <1>3
  <2>2. ASSUME NEW i \in DOMAIN e PROVE e[i].n = i /\ Told(z[i], e[i].body, OpsOf(m[i]))
    <3>1. i \in 1..Len(s)
      BY <1>1
    <3>2. z[i] = s[i] /\ m[i] = l[i]
      BY <1>2, <1>3, <3>1
    <3>3. QED
      BY <1>1, <3>2 DEF PastTrue
  <2>3. ASSUME NEW n \in DOMAIN z, z[n].verb = "tx" PROVE OpsOf(m[n]) \in {<<>>, z[n].ops}
    <3>1. CASE n = Len(s) + 1
      <4>1. m[n] = <<>>
        BY <1>3, <3>1
      <4>2. OpsOf(m[n]) = <<>>
        BY <4>1, OpsOfNone
      <4>3. QED
        BY <4>2
    <3>2. CASE n # Len(s) + 1
      <4>1. n \in 1..Len(s)
        BY <1>1, <1>2, <3>2
      <4>2. z[n] = s[n] /\ m[n] = l[n]
        BY <1>2, <1>3, <4>1
      <4>3. QED
        BY <1>1, <2>3, <4>1, <4>2 DEF PastTrue
    <3>3. QED
      BY <3>1, <3>2
  <2>4. QED
    BY <2>1, <2>2, <2>3 DEF PastTrue
<1>7. QED
  BY <1>4, <1>5, <1>6 DEF TrueConn

----------------------------------------------------------------------------
(* The actions keep the replies true.                                      *)

\* The state of a connection is well formed, and its request in hand is the one after those
\* answered.
LEMMA ConnFormed ==
  ASSUME DoorInv, NEW c \in Conns
  PROVE  /\ FormedConn(conn[c], sent[c], replies[c], log[c])
         /\ conn[c].at \in {"work", "stream"} =>
                Current(c) = Len(replies[c]) + 1 /\ Len(replies[c]) < Len(sent[c])
         /\ Unread(c) => /\ Taken(c) + 1 = Len(replies[c]) + 1 /\ Len(replies[c]) < Len(sent[c])
                         /\ conn[c].at = "idle" /\ sent[c][Taken(c) + 1] \in Requests
<1>1. TypeOK /\ InHand
  BY DEF DoorInv
<1>2. FormedConn(conn[c], sent[c], replies[c], log[c])
  BY <1>1 DEF TypeOK, FormedConn, Bodied
<1>3. Len(replies[c]) \in Nat /\ Len(sent[c]) \in Nat /\ sent[c] \in Seq(Requests)
  BY <1>1 DEF TypeOK
<1>4. conn[c].at \in {"work", "stream"} => Current(c) = Len(replies[c]) + 1 /\ Len(replies[c]) < Len(sent[c])
  BY <1>1 DEF InHand, Current, Taken
<1>5. ASSUME Unread(c)
      PROVE  /\ Taken(c) + 1 = Len(replies[c]) + 1 /\ Len(replies[c]) < Len(sent[c])
             /\ conn[c].at = "idle" /\ sent[c][Taken(c) + 1] \in Requests
  <2>1. conn[c].at = "idle" /\ Taken(c) = Len(replies[c]) /\ Len(replies[c]) < Len(sent[c])
    BY <1>3, <1>5 DEF Unread, Taken
  <2>2. QED
    BY <1>3, <2>1
<1>6. QED
  BY <1>2, <1>4, <1>5

\* A step of one connection leaves the others as true as they were.
LEMMA OnlyOne ==
  ASSUME TruthInv, NEW c \in Conns, Moves(c),
         \A d \in Conns : d # c => sent'[d] = sent[d] /\ replies'[d] = replies[d] /\ log'[d] = log[d],
         TrueConn(conn'[c], sent'[c], replies'[c], log'[c])
  PROVE  TruthInv'
<1>1. ASSUME NEW d \in Conns PROVE TrueConn(conn'[d], sent'[d], replies'[d], log'[d])
  <2>1. CASE d = c
    BY <2>1
  <2>2. CASE d # c
    <3>1. conn'[d] = conn[d] /\ sent'[d] = sent[d] /\ replies'[d] = replies[d] /\ log'[d] = log[d]
      BY <2>2 DEF Moves
    <3>2. TrueConn(conn[d], sent[d], replies[d], log[d])
      BY DEF TruthInv
    <3>3. QED
      BY <3>1, <3>2
  <2>3. QED
    BY <2>1, <2>2
<1>2. QED
  BY <1>1 DEF TruthInv

\* A request that no handler took up wrote nothing.
LEMMA Untouched ==
  ASSUME DoorInv, TruthInv, NEW c \in Conns, conn[c].at \in {"idle", "stream"},
         Len(replies[c]) < Len(sent[c])
  PROVE  OpsOf(log[c][Len(replies[c]) + 1]) = <<>>
<1>1. RestTrue(conn[c], sent[c], replies[c], log[c])
  BY DEF TruthInv, TrueConn
<1>2. Len(replies[c]) \in Nat /\ Len(sent[c]) \in Nat /\ DOMAIN sent[c] = 1..Len(sent[c])
  BY DEF DoorInv, TypeOK
<1>3. Len(replies[c]) + 1 \in DOMAIN sent[c] /\ Len(replies[c]) + 1 > Len(replies[c]) + 0
  BY <1>2
<1>4. log[c][Len(replies[c]) + 1] = <<>>
  BY <1>1, <1>3 DEF RestTrue
<1>5. QED
  BY <1>4, OpsOfNone

\* A true answer.
LEMMA AnswerKeeps ==
  ASSUME DoorInv, TruthInv, NEW c \in Conns, UNCHANGED <<sent, log>>, conn[c].at # "closed",
         Len(replies[c]) < Len(sent[c]), NEW body \in Bodies, Answer(c, Len(replies[c]) + 1, body),
         Moves(c), conn'[c].at \in {"idle", "closed"}, conn'[c].at = "idle" => ~conn'[c].erred,
         Told(sent[c][Len(replies[c]) + 1], body, OpsOf(log[c][Len(replies[c]) + 1]))
  PROVE  TruthInv'
<1>1. /\ FormedConn(conn[c], sent[c], replies[c], log[c])
      /\ TrueConn(conn[c], sent[c], replies[c], log[c])
  BY ConnFormed DEF TruthInv
<1>2. /\ replies'[c] = Append(replies[c], [n |-> Len(replies[c]) + 1, body |-> body])
      /\ \A d \in Conns : d # c => replies'[d] = replies[d]
  BY DEF Answer, DoorInv, TypeOK
<1>3. TrueConn(conn'[c], sent[c], replies'[c], log[c])
  <2>1. TrueConn(conn'[c], sent[c], Append(replies[c], [n |-> Len(replies[c]) + 1, body |-> body]), log[c])
    <3>1. PICK t, s, e, l, u : t = conn[c] /\ s = sent[c] /\ e = replies[c] /\ l = log[c] /\ u = conn'[c]
      OBVIOUS
    <3>2. /\ FormedConn(t, s, e, l) /\ TrueConn(t, s, e, l) /\ t.at # "closed" /\ Len(e) < Len(s)
          /\ u.at \in {"idle", "closed"} /\ (u.at = "idle" => ~u.erred)
          /\ Told(s[Len(e) + 1], body, OpsOf(l[Len(e) + 1]))
      BY <1>1, <3>1
    <3>3. TrueConn(u, s, Append(e, [n |-> Len(e) + 1, body |-> body]), l)
      BY <3>2, AnswerTrue
    <3>4. QED
      BY <3>1, <3>3
  <2>2. QED
    BY <1>2, <2>1
<1>4. QED
  BY <1>2, <1>3, OnlyOne

\* The connection is closed without an answer.
LEMMA CloseKeeps ==
  ASSUME DoorInv, TruthInv, NEW c \in Conns, UNCHANGED <<sent, log, replies>>, Closes(c)
  PROVE  TruthInv'
<1>1. Moves(c) /\ conn'[c].at = "closed"
  BY MovesOf DEF DoorInv
<1>2. TrueConn(conn[c], sent[c], replies[c], log[c])
  BY DEF TruthInv
<1>3. TrueConn(conn'[c], sent[c], replies[c], log[c])
  BY <1>1, <1>2, CloseTrue
<1>4. QED
  BY <1>1, <1>3, OnlyOne

\* Before anything is sent.
LEMMA InitTruth == ASSUME Init PROVE TruthInv
<1>1. SUFFICES ASSUME NEW c \in Conns PROVE TrueConn(conn[c], sent[c], replies[c], log[c])
  BY DEF TruthInv
<1>2. conn[c] = Idle /\ sent[c] = <<>> /\ replies[c] = <<>> /\ log[c] = <<>>
  BY DEF Init
<1>3. Len(<<>>) = 0 /\ DOMAIN <<>> = {}
  OBVIOUS
<1>4. QED
  BY <1>2, <1>3 DEF TrueConn, WorkTrue, RestTrue, PastTrue, Idle

\* A request is written to the connection.
LEMMA SendKeeps ==
  ASSUME DoorInv, TruthInv, NEW c \in Conns, NEW r \in Requests, Send(c, r)
  PROVE  TruthInv'
<1>1. /\ FormedConn(conn[c], sent[c], replies[c], log[c])
      /\ TrueConn(conn[c], sent[c], replies[c], log[c]) /\ conn[c].at # "closed"
  BY ConnFormed DEF TruthInv, Send
<1>2. /\ sent'[c] = Append(sent[c], r) /\ log'[c] = Append(log[c], <<>>)
      /\ \A d \in Conns : d # c => sent'[d] = sent[d] /\ log'[d] = log[d]
      /\ conn' = conn /\ replies' = replies
  BY DEF Send, DoorInv, TypeOK
<1>3. TrueConn(conn[c], sent'[c], replies[c], log'[c])
  BY <1>1, <1>2, SendTrue
<1>4. Moves(c)
  BY <1>2 DEF Moves, DoorInv, TypeOK
<1>5. QED
  BY <1>2, <1>3, <1>4, OnlyOne

\* A form that never reaches the handler is refused.
LEMMA MalformedKeeps ==
  ASSUME DoorInv, TruthInv, NEW c \in Conns, Malformed(c)
  PROVE  TruthInv'
<1>1. Unread(c) /\ Closes(c) /\ UNCHANGED <<sent, log>>
  BY DEF Malformed
<1>2. CASE UNCHANGED replies
  BY <1>1, <1>2, CloseKeeps
<1>3. CASE Answer(c, Taken(c) + 1, "refused")
  <2>1. /\ Taken(c) + 1 = Len(replies[c]) + 1 /\ Len(replies[c]) < Len(sent[c]) /\ conn[c].at = "idle"
    BY <1>1, ConnFormed
  <2>2. OpsOf(log[c][Len(replies[c]) + 1]) = <<>>
    BY <2>1, Untouched
  <2>3. Told(sent[c][Len(replies[c]) + 1], "refused", OpsOf(log[c][Len(replies[c]) + 1]))
    BY <2>2 DEF Told, Client_call
  <2>4. Moves(c) /\ conn'[c].at = "closed" /\ "refused" \in Bodies
    BY <1>1, MovesOf DEF DoorInv, Bodies
  <2>5. Answer(c, Len(replies[c]) + 1, "refused")
    BY <1>3, <2>1
  <2>6. QED
    BY <1>1, <2>1, <2>3, <2>4, <2>5, AnswerKeeps
<1>4. QED
  BY <1>2, <1>3 DEF Malformed

\* A stream takes the connection, or is refused.
LEMMA SubscribeKeeps ==
  ASSUME DoorInv, TruthInv, NEW c \in Conns, Subscribe(c)
  PROVE  TruthInv'
<1>1. Unread(c) /\ UNCHANGED <<sent, log>>
  BY DEF Subscribe
<1>2. /\ Taken(c) + 1 = Len(replies[c]) + 1 /\ Len(replies[c]) < Len(sent[c]) /\ conn[c].at = "idle"
      /\ FormedConn(conn[c], sent[c], replies[c], log[c]) /\ TrueConn(conn[c], sent[c], replies[c], log[c])
  BY <1>1, ConnFormed DEF TruthInv
<1>3. CASE UNCHANGED conn /\ \E body \in {"unauthorized", "error"} : Answer(c, Taken(c) + 1, body)
  <2>1. PICK body \in {"unauthorized", "error"} : Answer(c, Len(replies[c]) + 1, body)
    BY <1>2, <1>3
  <2>2. OpsOf(log[c][Len(replies[c]) + 1]) = <<>>
    BY <1>2, Untouched
  <2>3. Told(sent[c][Len(replies[c]) + 1], body, OpsOf(log[c][Len(replies[c]) + 1]))
    BY <2>2 DEF Told, Client_call
  <2>4. Moves(c)
    BY <1>3 DEF Moves, DoorInv, TypeOK
  <2>5. conn'[c].at = "idle" /\ ~conn'[c].erred
    BY <1>2, <1>3 DEF TrueConn, RestTrue
  <2>6. body \in Bodies
    BY DEF Bodies, Fails
  <2>7. QED
    BY <1>1, <1>2, <2>1, <2>3, <2>4, <2>5, <2>6, AnswerKeeps
<1>4. CASE conn' = [conn EXCEPT ![c].at = "stream"] /\ UNCHANGED replies
  <2>1. Moves(c) /\ conn'[c].at = "stream" /\ conn'[c].erred = conn[c].erred
    BY <1>4, MovesOf DEF DoorInv
  <2>2. sent[c][Len(replies[c]) + 1].verb \in {"watch", "live"}
    BY <1>2 DEF Subscribe, Streams
  <2>3. TrueConn(conn'[c], sent[c], replies[c], log[c])
    BY <1>2, <2>1, <2>2, StreamTrue
  <2>4. QED
    BY <1>1, <1>4, <2>1, <2>3, OnlyOne
<1>5. QED
  BY <1>3, <1>4 DEF Subscribe

\* A stream ends; a subscription asked for no write.
LEMMA StreamEndsKeeps ==
  ASSUME DoorInv, TruthInv, NEW c \in Conns, StreamEnds(c)
  PROVE  TruthInv'
<1>1. conn[c].at = "stream" /\ ReadsOn(c) /\ UNCHANGED <<sent, log>> /\ Answer(c, Current(c), "ended")
  BY DEF StreamEnds
<1>2. /\ Current(c) = Len(replies[c]) + 1 /\ Len(replies[c]) < Len(sent[c])
      /\ RestTrue(conn[c], sent[c], replies[c], log[c])
  BY <1>1, ConnFormed DEF TruthInv, TrueConn
<1>3. PICK r : r = sent[c][Len(replies[c]) + 1]
  OBVIOUS
<1>4. r \in Requests
  <2>1. sent[c] \in Seq(Requests) /\ Len(replies[c]) \in Nat
    BY DEF DoorInv, TypeOK
  <2>2. QED
    BY <1>2, <1>3, <2>1
<1>5. r.verb \in {"watch", "live"}
  BY <1>1, <1>2, <1>3 DEF RestTrue
<1>6. r.ops = <<>>
  BY <1>4, <1>5, RequestsFormed DEF WriteVerbs, PayloadVerbs
<1>7. OpsOf(log[c][Len(replies[c]) + 1]) = <<>>
  BY <1>1, <1>2, Untouched
<1>8. Told(sent[c][Len(replies[c]) + 1], "ended", OpsOf(log[c][Len(replies[c]) + 1]))
  BY <1>3, <1>6, <1>7 DEF Told, Client_call
<1>9. Moves(c) /\ conn'[c].at \in {"idle", "closed"} /\ ~conn'[c].erred /\ "ended" \in Bodies
  BY <1>1, MovesOf DEF DoorInv, Bodies
<1>10. Answer(c, Len(replies[c]) + 1, "ended")
  BY <1>1, <1>2
<1>11. QED
  BY <1>1, <1>2, <1>8, <1>9, <1>10, AnswerKeeps

\* A message is authorised and its plan taken up, or refused.
LEMMA AcceptKeeps ==
  ASSUME DoorInv, TruthInv, NEW c \in Conns, Accept(c)
  PROVE  TruthInv'
<1>1. Unread(c) /\ UNCHANGED <<sent, log>>
  BY DEF Accept
<1>2. /\ Taken(c) + 1 = Len(replies[c]) + 1 /\ Len(replies[c]) < Len(sent[c]) /\ conn[c].at = "idle"
      /\ FormedConn(conn[c], sent[c], replies[c], log[c]) /\ TrueConn(conn[c], sent[c], replies[c], log[c])
      /\ sent[c][Taken(c) + 1] \in Requests
  BY <1>1, ConnFormed DEF TruthInv
<1>3. PICK r : r = sent[c][Taken(c) + 1]
  OBVIOUS
<1>4. CASE ReadsOn(c) /\ Answer(c, Taken(c) + 1, "unauthorized")
  <2>1. OpsOf(log[c][Len(replies[c]) + 1]) = <<>>
    BY <1>2, Untouched
  <2>2. Told(sent[c][Len(replies[c]) + 1], "unauthorized", OpsOf(log[c][Len(replies[c]) + 1]))
    BY <2>1 DEF Told, Client_call
  <2>3. Moves(c) /\ conn'[c].at \in {"idle", "closed"} /\ ~conn'[c].erred /\ "unauthorized" \in Bodies
    BY <1>4, MovesOf DEF DoorInv, Bodies, Fails
  <2>4. Answer(c, Len(replies[c]) + 1, "unauthorized")
    BY <1>2, <1>4
  <2>5. QED
    BY <1>1, <1>2, <2>2, <2>3, <2>4, AnswerKeeps
<1>5. CASE /\ UNCHANGED replies
           /\ conn' = [conn EXCEPT ![c] = [@ EXCEPT !.at = "work", !.plan = plan(r, authorize(r)), !.since = now]]
  <2>1. PICK p : p = plan(r, authorize(r))
    OBVIOUS
  <2>2. p \in Seq(Steps) /\ Leads(p, r)
    BY <1>2, <1>3, <2>1, PlanSteps, PlanLeads
  <2>3. TaskOK(conn[c]) /\ conn = [d \in Conns |-> conn[d]] /\ now \in Nat
    BY DEF DoorInv, TypeOK
  <2>4. conn'[c] = [conn[c] EXCEPT !.at = "work", !.plan = p, !.since = now] /\ conn' = [conn EXCEPT ![c] = conn'[c]]
    BY <1>5, <2>1, <2>3
  <2>5. TaskOK(conn'[c]) /\ conn'[c].at = "work" /\ conn'[c].plan = p /\ conn'[c].erred = conn[c].erred
    BY <2>2, <2>3, <2>4 DEF TaskOK, IsTask
  <2>6. Moves(c)
    BY <2>3, <2>4, <2>5 DEF Moves
  <2>7. Leads(conn'[c].plan, sent[c][Len(replies[c]) + 1]) /\ conn'[c].plan \in Seq(Steps)
    BY <1>2, <1>3, <2>2, <2>5
  <2>8. TrueConn(conn'[c], sent[c], replies[c], log[c])
    BY <1>2, <2>5, <2>7, TakeTrue
  <2>9. QED
    BY <1>1, <1>5, <2>6, <2>8, OnlyOne
<1>6. QED
  BY <1>3, <1>4, <1>5 DEF Accept

\* The handler takes a step that writes nothing.
LEMMA GoKeeps ==
  ASSUME DoorInv, TruthInv, NEW c \in Conns, Busy(c), Step(c).do \in {"embed", "call", "read", "quorum"},
         GoesOn(c) \/ AliasReads(c), UNCHANGED <<sent, replies, log>>
  PROVE  TruthInv'
<1>1. /\ FormedConn(conn[c], sent[c], replies[c], log[c]) /\ TrueConn(conn[c], sent[c], replies[c], log[c])
      /\ conn[c].at = "work" /\ conn[c].plan # <<>>
  BY ConnFormed DEF TruthInv, Busy
<1>2. Moves(c) /\ conn'[c].at = "work" /\ conn'[c].plan = Tail(conn[c].plan) /\ conn'[c].erred = conn[c].erred
  BY PlanGoesOn, PlanMoves DEF DoorInv, Rest
<1>3. Head(conn[c].plan).do \in {"embed", "call", "read", "quorum"}
  BY DEF Step
<1>4. TrueConn(conn'[c], sent[c], replies[c], log[c])
  BY <1>1, <1>2, <1>3, GoTrue
<1>5. QED
  BY <1>2, <1>4, OnlyOne

\* The handler takes a step that writes.
LEMMA WriteKeeps ==
  ASSUME DoorInv, TruthInv, NEW c \in Conns, Busy(c), Step(c).do \in {"commit", "write"}, GoesOn(c),
         log' = Logged(c), UNCHANGED <<sent, replies>>
  PROVE  TruthInv'
<1>1. /\ FormedConn(conn[c], sent[c], replies[c], log[c]) /\ TrueConn(conn[c], sent[c], replies[c], log[c])
      /\ conn[c].at = "work" /\ conn[c].plan # <<>>
      /\ Current(c) = Len(replies[c]) + 1 /\ Len(replies[c]) < Len(sent[c])
  BY ConnFormed DEF TruthInv, Busy
<1>2. Moves(c) /\ conn'[c].at = "work" /\ conn'[c].plan = Tail(conn[c].plan) /\ conn'[c].erred = conn[c].erred
  BY PlanGoesOn, PlanMoves DEF DoorInv, Rest
<1>3. Head(conn[c].plan).do \in {"commit", "write"}
  BY DEF Step
<1>4. Step(c).ops \in Seq(AllOps) /\ conn[c].since \in Nat
  <2>1. conn[c].plan \in Seq(Steps) /\ conn[c].since \in Nat
    BY DEF DoorInv, TypeOK, TaskOK
  <2>2. Step(c) \in Steps
    BY <1>1, <2>1, TailType DEF Step
  <2>3. QED
    BY <2>1, <2>2 DEF Steps
<1>5. /\ log \in [Conns -> Seq(Seq(Entries))] /\ Len(log[c]) = Len(sent[c])
      /\ Len(replies[c]) \in Nat /\ Len(sent[c]) \in Nat
  BY DEF DoorInv, TypeOK, LogRefers
<1> DEFINE n == Len(replies[c]) + 1
<1>6. n \in DOMAIN log[c] /\ log[c][n] \in Seq(Entries) /\ DOMAIN log[c] = 1..Len(log[c])
  BY <1>1, <1>5
<1>7. log' = [log EXCEPT ![c] = [log[c] EXCEPT ![n] = log[c][n] \o Writes(c)]]
  BY <1>1, <1>5 DEF Logged
<1> HIDE DEF n
<1>8. log'[c] = [log[c] EXCEPT ![n] = log[c][n] \o Writes(c)] /\ \A d \in Conns : d # c => log'[d] = log[d]
  BY <1>5, <1>7
<1>9. /\ log'[c][n] = log[c][n] \o Writes(c) /\ DOMAIN log'[c] = DOMAIN log[c]
      /\ \A i \in DOMAIN log[c] : i # n => log'[c][i] = log[c][i]
  BY <1>6, <1>8
<1>10. /\ Writes(c) \in Seq(Entries) /\ Len(Writes(c)) = Len(Step(c).ops)
       /\ \A i \in DOMAIN Writes(c) : Writes(c)[i].op = Step(c).ops[i]
  BY <1>4, WritesType
<1>11. OpsOf(log'[c][n]) = OpsOf(log[c][n]) \o Step(c).ops
  <2>1. PICK w \in Seq(Entries) : w = Writes(c)
    BY <1>10
  <2>2. Len(w) = Len(Step(c).ops) /\ \A i \in 1..Len(w) : w[i].op = Step(c).ops[i]
    BY <1>10, <2>1
  <2>3. OpsOf(log[c][n] \o w) = OpsOf(log[c][n]) \o Step(c).ops
    BY <1>4, <1>6, <2>2, OpsOfCat
  <2>4. QED
    BY <1>9, <2>1, <2>3
<1>12. Len(log'[c]) = Len(log[c])
  <2>1. PICK S : S = Seq(Entries)
    OBVIOUS
  <2>2. PICK w \in Seq(Entries) : w = Writes(c)
    BY <1>10
  <2>3. log[c][n] \o w \in S
    BY <1>6, <2>1, <2>2
  <2>4. log[c] \in Seq(S) /\ log'[c] = [log[c] EXCEPT ![n] = log[c][n] \o w]
    BY <1>5, <1>8, <2>1, <2>2
  <2>5. QED
    BY <1>6, <2>3, <2>4, ExceptSeq
<1>13. TrueConn(conn'[c], sent[c], replies[c], log'[c])
  <2>1. Grows(log[c], log'[c], Len(replies[c]) + 1, Head(conn[c].plan).ops)
    BY <1>9, <1>11, <1>12 DEF Grows, n, Step
  <2>2. QED
    BY <1>1, <1>2, <1>3, <2>1, WriteTrue
<1>14. QED
  BY <1>2, <1>8, <1>13, OnlyOne

\* A step of the handler fails.
LEMMA FailKeeps ==
  ASSUME DoorInv, TruthInv, NEW c \in Conns, StepFails(c)
  PROVE  TruthInv'
<1>1. /\ FormedConn(conn[c], sent[c], replies[c], log[c]) /\ TrueConn(conn[c], sent[c], replies[c], log[c])
      /\ conn[c].at = "work" /\ conn[c].plan # <<>> /\ Current(c) = Len(replies[c]) + 1
  BY ConnFormed DEF TruthInv, StepFails, Busy
<1>2. Head(conn[c].plan).do \notin {"quorum", "reply"} /\ UNCHANGED <<sent, log>> /\ Busy(c)
  BY DEF StepFails, Step
<1>3. Len(replies[c]) < Len(sent[c]) /\ Told(sent[c][Len(replies[c]) + 1], "error", OpsOf(log[c][Len(replies[c]) + 1]))
  BY <1>1, <1>2, FailTrue
<1>4. CASE (Closes(c) \/ ReadsOn(c)) /\ Answer(c, Current(c), "error")
  <2>1. Moves(c) /\ conn'[c].at \in {"idle", "closed"} /\ (conn'[c].at = "idle" => ~conn'[c].erred)
    BY <1>4, MovesOf DEF DoorInv
  <2>2. Answer(c, Len(replies[c]) + 1, "error") /\ "error" \in Bodies
    BY <1>1, <1>4 DEF Bodies, Fails
  <2>3. QED
    BY <1>1, <1>2, <1>3, <2>1, <2>2, AnswerKeeps
<1>5. CASE Closes(c) /\ UNCHANGED replies
  BY <1>2, <1>5, CloseKeeps
<1>6. CASE Step(c).fails = "skip" /\ Skip(c) /\ UNCHANGED replies
  <2>1. Moves(c) /\ conn'[c].at = "work"
    BY <1>2, <1>6, PlanGoesOn DEF DoorInv
  <2>2. conn'[c].erred /\ conn'[c].plan \in {Tail(conn[c].plan), SubSeq(conn[c].plan, 3, Len(conn[c].plan))}
    BY <1>6, PlanMoves DEF DoorInv, Remains, Rest
  <2>3. Head(conn[c].plan).fails = "skip"
    BY <1>6 DEF Step
  <2>4. TrueConn(conn'[c], sent[c], replies[c], log[c])
    BY <1>1, <2>1, <2>2, <2>3, SkipTrue
  <2>5. QED
    BY <1>2, <1>6, <2>1, <2>4, OnlyOne
<1>7. QED
  BY <1>4, <1>5, <1>6 DEF StepFails, Failed

\* A quorum is waited for: the write is committed here whatever comes of it.
LEMMA QuorumKeeps ==
  ASSUME DoorInv, TruthInv, NEW c \in Conns, AwaitQuorum(c)
  PROVE  TruthInv'
<1>1. /\ FormedConn(conn[c], sent[c], replies[c], log[c]) /\ TrueConn(conn[c], sent[c], replies[c], log[c])
      /\ conn[c].at = "work" /\ conn[c].plan # <<>> /\ Current(c) = Len(replies[c]) + 1
  BY ConnFormed DEF TruthInv, AwaitQuorum, Working, Busy
<1>2. Step(c).do = "quorum" /\ UNCHANGED <<sent, log>> /\ Busy(c)
  BY DEF AwaitQuorum, Working
<1>3. CASE GoesOn(c) /\ UNCHANGED replies
  BY <1>2, <1>3, GoKeeps
<1>4. CASE ReadsOn(c) /\ Answer(c, Current(c), "committed_local")
  <2>1. /\ Len(replies[c]) < Len(sent[c])
        /\ Told(sent[c][Len(replies[c]) + 1], "committed_local", OpsOf(log[c][Len(replies[c]) + 1]))
    BY <1>1, <1>2, QuorumTrue DEF Step
  <2>2. Moves(c) /\ conn'[c].at \in {"idle", "closed"} /\ ~conn'[c].erred
    BY <1>4, MovesOf DEF DoorInv
  <2>3. Answer(c, Len(replies[c]) + 1, "committed_local") /\ "committed_local" \in Bodies
    BY <1>1, <1>4 DEF Bodies
  <2>4. QED
    BY <1>1, <1>2, <2>1, <2>2, <2>3, AnswerKeeps
<1>5. QED
  BY <1>3, <1>4 DEF AwaitQuorum

\* The handler replies.
LEMMA RespondKeeps ==
  ASSUME DoorInv, TruthInv, NEW c \in Conns, Respond(c)
  PROVE  TruthInv'
<1>1. /\ FormedConn(conn[c], sent[c], replies[c], log[c]) /\ TrueConn(conn[c], sent[c], replies[c], log[c])
      /\ conn[c].at = "work" /\ conn[c].plan # <<>> /\ Current(c) = Len(replies[c]) + 1
  BY ConnFormed DEF TruthInv, Respond, Working, Busy
<1>2. Step(c).do = "reply" /\ UNCHANGED <<sent, log>> /\ Busy(c) /\ ReadsOn(c)
  BY DEF Respond, Working
<1> DEFINE body == IF conn[c].erred THEN "errors" ELSE Step(c).fails
<1>3. /\ Len(replies[c]) < Len(sent[c])
      /\ Told(sent[c][Len(replies[c]) + 1], body, OpsOf(log[c][Len(replies[c]) + 1]))
  BY <1>1, <1>2, ReplyTrue DEF Step
<1>4. Moves(c) /\ conn'[c].at \in {"idle", "closed"} /\ ~conn'[c].erred
  BY <1>2, MovesOf DEF DoorInv
<1>5. body \in Bodies
  <2>1. Step(c).fails \in Bodies
    BY <1>2, StepFailsType DEF DoorInv
  <2>2. QED
    BY <2>1 DEF Bodies, Fails
<1>6. Answer(c, Len(replies[c]) + 1, body)
  BY <1>1 DEF Respond
<1> HIDE DEF body
<1>7. QED
  BY <1>1, <1>2, <1>3, <1>4, <1>5, <1>6, AnswerKeeps

\* Every step keeps the replies true.
LEMMA StepTruth ==
  ASSUME DoorInv, TruthInv, [Next]_doorVars
  PROVE  TruthInv'
<1>1. ASSUME NEW c \in Conns, NEW r \in Requests, Send(c, r) PROVE TruthInv'
  BY <1>1, SendKeeps
<1>2. ASSUME NEW c \in Conns, Malformed(c) PROVE TruthInv'
  BY <1>2, MalformedKeeps
<1>3. ASSUME NEW c \in Conns, Subscribe(c) PROVE TruthInv'
  BY <1>3, SubscribeKeeps
<1>4. ASSUME NEW c \in Conns, StreamEnds(c) PROVE TruthInv'
  BY <1>4, StreamEndsKeeps
<1>5. ASSUME NEW c \in Conns, Accept(c) PROVE TruthInv'
  BY <1>5, AcceptKeeps
<1>6. ASSUME NEW c \in Conns, StepDone(c) PROVE TruthInv'
  <2>1. CASE Step(c).do = "commit"
    BY <1>6, <2>1, WriteKeeps DEF StepDone
  <2>2. CASE Step(c).do # "commit"
    BY <1>6, <2>2, GoKeeps DEF StepDone
  <2>3. QED
    BY <2>1, <2>2
<1>7. ASSUME NEW c \in Conns, StepFails(c) PROVE TruthInv'
  BY <1>7, FailKeeps
<1>8. ASSUME NEW c \in Conns, AliasRead(c) PROVE TruthInv'
  BY <1>8, GoKeeps DEF AliasRead, AliasReads, Working
<1>9. ASSUME NEW c \in Conns, AliasWrite(c) PROVE TruthInv'
  BY <1>9, WriteKeeps DEF AliasWrite, Working
<1>10. ASSUME NEW c \in Conns, AwaitQuorum(c) PROVE TruthInv'
  BY <1>10, QuorumKeeps
<1>11. ASSUME NEW c \in Conns, Respond(c) PROVE TruthInv'
  BY <1>11, RespondKeeps
<1>12. ASSUME NEW c \in Conns, Hangup(c) PROVE TruthInv'
  BY <1>12, CloseKeeps DEF Hangup
<1>13. CASE UNCHANGED <<conn, sent, replies, log>>
  BY <1>13 DEF TruthInv
<1>14. CASE Tick
  BY <1>13, <1>14 DEF Tick
<1>15. CASE UNCHANGED doorVars
  BY <1>13, <1>15 DEF doorVars
<1>16. QED
  BY <1>1, <1>2, <1>3, <1>4, <1>5, <1>6, <1>7, <1>8, <1>9, <1>10, <1>11, <1>12, <1>14, <1>15 DEF Next

\* What the invariant says of the replies is what a caller is told.
LEMMA TruthTold == ASSUME DoorInv, TruthInv PROVE RepliesAreTrue
<1>1. ASSUME NEW c \in Conns
      PROVE  /\ \A i \in DOMAIN replies[c] :
                    replies[c][i].n = i /\ Told(sent[c][i], replies[c][i].body, Applied(c, i))
             /\ \A n \in DOMAIN sent[c] : sent[c][n].verb = "tx" => Applied(c, n) \in {<<>>, sent[c][n].ops}
  <2>1. PastTrue(sent[c], replies[c], log[c])
    BY DEF TruthInv, TrueConn
  <2>2. \A n : Applied(c, n) = OpsOf(log[c][n])
    BY DEF Applied, OpsOf
  <2>3. QED
    BY <2>1, <2>2 DEF PastTrue
<1>2. QED
  BY <1>1 DEF RepliesAreTrue, Told

----------------------------------------------------------------------------
(* Theorems.                                                               *)

\* The invariant of the door.
THEOREM DoorInvariant == Spec => []DoorInv
<1>1. Init => DoorInv
  BY InitInv
<1>2. DoorInv /\ [Next]_doorVars => DoorInv'
  BY StepInv
<1>3. QED
  BY <1>1, <1>2, PTL DEF Spec

\* handler.rs authorises every message anew, and auth.rs lists the verbs that need more than a
\* reader: whatever verb, SQL statement, GraphQL document or door a write came by, it was asked
\* for with a token that may write here, for any connections, requests and node.
THEOREM EveryWriteAuthorized == Spec => []WritesAuthorized
<1>1. DoorInv => WritesAuthorized
  BY DEF DoorInv
<1>2. QED
  BY <1>1, DoorInvariant, PTL

\* Over any door a caller is told the truth, for any connections, requests and node: replies
\* come one per request and in order; a call that returns, or reports "committed_local", left
\* the whole write in the estate, in the order asked; a refusal, and an error of a write of one
\* commit, left nothing; and handle_tx leaves all of a transaction or none, whether its reply
\* arrived or not.
THEOREM EveryReplyTrue == Spec => []RepliesAreTrue
<1>1. Init => TruthInv
  BY InitTruth
<1>2. DoorInv /\ TruthInv /\ [Next]_doorVars => TruthInv'
  BY StepTruth
<1>3. DoorInv /\ TruthInv => RepliesAreTrue
  BY TruthTold
<1>4. QED
  BY <1>1, <1>2, <1>3, DoorInvariant, PTL DEF Spec

----------------------------------------------------------------------------
(* One turn, one pass: how far a pass has come says what its turn has      *)
(* signalled, and no two passes of a process have the same turn.           *)

Ats == {"idle", "identify", "settle", "plan", "distilled", "embed", "recall", "rerank", "reason", "answer"}

Kinds == {"flow.open", "shape", "embed", "intent", "recall", "rerank", "reason", "flow.turn"}

\* How many signals of a full turn a pass that is at a stage has sent.
Signals(at) ==
    CASE at \in {"identify", "settle", "plan", "distilled"} -> 1
      [] at = "embed" -> 2 [] at = "recall" -> 4 [] at = "rerank" -> 5 [] at = "reason" -> 6
      [] at = "answer" -> 8

\* The signals of a turn whose pass is at a stage; a blocked query is answered from the gate.
Heard(at, x) == x = SubSeq(FullTurn, 1, Signals(at)) \/ (at = "answer" /\ x = GatedTurn)

\* The beginning of a turn.
Begins(x) == (\E k \in 0..8 : x = SubSeq(FullTurn, 1, k)) \/ x = GatedTurn

IsPass(r) == r = [x \in DOMAIN r |-> r[x]] /\ "at" \in DOMAIN r /\ r.at \in Ats
IsResult(r) == r = [x \in {"turn", "candidates", "label"} |-> r[x]]

FlowType ==
    /\ nextTurn \in Nat \ {0} /\ restarts \in Nat
    /\ stream = [n \in 1..MaxTurns |-> stream[n]]
    /\ pass = [t \in Threads |-> pass[t]] /\ \A t \in Threads : IsPass(pass[t])
    /\ result = [t \in Threads |-> result[t]] /\ \A t \in Threads : IsResult(result[t])

\* A pass under way has a turn minted before, whose signals are its own so far.
TurnOfPass ==
    \A t \in Threads : pass[t].at # "idle" =>
        /\ result[t].turn \in 1..MaxTurns /\ result[t].turn < nextTurn
        /\ Heard(pass[t].at, stream[result[t].turn])

\* No two passes under way share a turn.
OwnTurns ==
    \A t, u \in Threads : t # u /\ pass[t].at # "idle" /\ pass[u].at # "idle" =>
        result[t].turn # result[u].turn

\* Every turn is the beginning of a pass, and one that was not minted is silent.
TurnsBegin ==
    \A n \in 1..MaxTurns : Begins(stream[n]) /\ (n >= nextTurn => stream[n] = <<>>)

FlowInv == FlowType /\ (restarts = 0 => TurnOfPass /\ OwnTurns /\ TurnsBegin)

\* The signals of a turn, as a sequence.
LEMMA TurnSequences ==
  /\ FullTurn \in Seq(Kinds) /\ Len(FullTurn) = 8 /\ GatedTurn \in Seq(Kinds) /\ Len(GatedTurn) = 3
  /\ FullTurn[1] = "flow.open" /\ FullTurn[2] = "shape" /\ FullTurn[3] = "embed" /\ FullTurn[4] = "intent"
  /\ FullTurn[5] = "recall" /\ FullTurn[6] = "rerank" /\ FullTurn[7] = "reason" /\ FullTurn[8] = "flow.turn"
  /\ GatedTurn[1] = "flow.open" /\ GatedTurn[2] = "shape" /\ GatedTurn[3] = "flow.turn"
<1>1. FullTurn \in Seq(Kinds) /\ GatedTurn \in Seq(Kinds)
  BY DEF FullTurn, GatedTurn, Kinds
<1>2. Len(FullTurn) = 8 /\ Len(GatedTurn) = 3
  BY DEF FullTurn, GatedTurn
<1>3. /\ FullTurn[1] = "flow.open" /\ FullTurn[2] = "shape" /\ FullTurn[3] = "embed"
      /\ FullTurn[4] = "intent" /\ FullTurn[5] = "recall" /\ FullTurn[6] = "rerank"
      /\ FullTurn[7] = "reason" /\ FullTurn[8] = "flow.turn"
  BY DEF FullTurn
<1>4. GatedTurn[1] = "flow.open" /\ GatedTurn[2] = "shape" /\ GatedTurn[3] = "flow.turn"
  BY DEF GatedTurn
<1>5. QED
  BY <1>1, <1>2, <1>3, <1>4

\* One element of a sequence, and two.
LEMMA Pieces ==
  ASSUME NEW S, NEW f \in Seq(S), NEW i \in 1..Len(f)
  PROVE  /\ SubSeq(f, i, i) = <<f[i]>>
         /\ i < Len(f) => SubSeq(f, i, i + 1) = <<f[i], f[i + 1]>>
<1>1. SubSeq(f, i, i) = <<f[i]>>
  <2>1. /\ SubSeq(f, i, i) \in Seq(S) /\ Len(SubSeq(f, i, i)) = 1
        /\ SubSeq(f, i, i)[1] = f[i] /\ f[i] \in S
    OBVIOUS
  <2>2. <<f[i]>> \in Seq(S) /\ Len(<<f[i]>>) = 1 /\ <<f[i]>>[1] = f[i]
    BY <2>1
  <2>3. 1..1 = {1}
    OBVIOUS
  <2>4. QED
    BY <2>1, <2>2, <2>3, SeqEqual
<1>2. ASSUME i < Len(f) PROVE SubSeq(f, i, i + 1) = <<f[i], f[i + 1]>>
  <2>1. /\ SubSeq(f, i, i + 1) \in Seq(S) /\ Len(SubSeq(f, i, i + 1)) = 2
        /\ SubSeq(f, i, i + 1)[1] = f[i] /\ f[i] \in S
        /\ SubSeq(f, i, i + 1)[2] = f[i + 1] /\ f[i + 1] \in S
    BY <1>2
  <2>2. PICK x, y : x = f[i] /\ y = f[i + 1]
    OBVIOUS
  <2>3. <<x, y>> \in Seq(S) /\ Len(<<x, y>>) = 2 /\ <<x, y>>[1] = x /\ <<x, y>>[2] = y
    BY <2>1, <2>2
  <2>4. 1..2 = {1, 2}
    OBVIOUS
  <2>5. SubSeq(f, i, i + 1) = <<x, y>>
    BY <2>1, <2>2, <2>3, <2>4, SeqEqual
  <2>6. QED
    BY <2>2, <2>5
<1>3. QED
  BY <1>1, <1>2

\* The signals of a stage follow those of the stages before.
LEMMA SignalsFollow ==
  /\ <<>> \o <<"flow.open">> = SubSeq(FullTurn, 1, 1)
  /\ SubSeq(FullTurn, 1, 1) \o <<"shape">> = SubSeq(FullTurn, 1, 2)
  /\ SubSeq(FullTurn, 1, 1) \o <<"shape", "flow.turn">> = GatedTurn
  /\ SubSeq(FullTurn, 1, 2) \o <<"embed", "intent">> = SubSeq(FullTurn, 1, 4)
  /\ SubSeq(FullTurn, 1, 4) \o <<"recall">> = SubSeq(FullTurn, 1, 5)
  /\ SubSeq(FullTurn, 1, 5) \o <<"rerank">> = SubSeq(FullTurn, 1, 6)
  /\ SubSeq(FullTurn, 1, 6) \o <<"reason", "flow.turn">> = SubSeq(FullTurn, 1, 8)
<1>1. FullTurn \in Seq(Kinds) /\ Len(FullTurn) = 8
  BY TurnSequences
<1>2. ASSUME NEW a \in 0..8, NEW b \in a..8
      PROVE  SubSeq(FullTurn, 1, a) \o SubSeq(FullTurn, a + 1, b) = SubSeq(FullTurn, 1, b)
  <2>1. 1 \in 1..(Len(FullTurn) + 1) /\ a \in (1 - 1)..Len(FullTurn) /\ b \in a..Len(FullTurn)
    BY <1>1
  <2>2. QED
    BY <1>1, <2>1, ConcatAdjacentSubSeq
<1>3. <<"flow.open">> = SubSeq(FullTurn, 1, 1) /\ <<"shape">> = SubSeq(FullTurn, 2, 2)
  BY Pieces, TurnSequences
<1>4. <<"embed", "intent">> = SubSeq(FullTurn, 3, 4)
  BY Pieces, TurnSequences
<1>5. <<"recall">> = SubSeq(FullTurn, 5, 5) /\ <<"rerank">> = SubSeq(FullTurn, 6, 6)
  BY Pieces, TurnSequences
<1>6. <<"reason", "flow.turn">> = SubSeq(FullTurn, 7, 8)
  BY Pieces, TurnSequences
<1>7. <<>> \o <<"flow.open">> = SubSeq(FullTurn, 1, 1)
  <2>1. <<>> \o <<"flow.open">> = <<"flow.open">>
    OBVIOUS
  <2>2. QED
    BY <1>3, <2>1
<1>8. SubSeq(FullTurn, 1, 1) \o <<"shape", "flow.turn">> = GatedTurn
  <2>1. SubSeq(FullTurn, 1, 1) \o <<"shape", "flow.turn">> = <<"flow.open">> \o <<"shape", "flow.turn">>
    BY <1>3
  <2>2. <<"flow.open">> \o <<"shape", "flow.turn">> = <<"flow.open", "shape", "flow.turn">>
    BY Cat, Zenon
  <2>3. QED
    BY <2>1, <2>2 DEF GatedTurn
<1>9. /\ SubSeq(FullTurn, 1, 1) \o SubSeq(FullTurn, 2, 2) = SubSeq(FullTurn, 1, 2)
      /\ SubSeq(FullTurn, 1, 2) \o SubSeq(FullTurn, 3, 4) = SubSeq(FullTurn, 1, 4)
      /\ SubSeq(FullTurn, 1, 4) \o SubSeq(FullTurn, 5, 5) = SubSeq(FullTurn, 1, 5)
      /\ SubSeq(FullTurn, 1, 5) \o SubSeq(FullTurn, 6, 6) = SubSeq(FullTurn, 1, 6)
      /\ SubSeq(FullTurn, 1, 6) \o SubSeq(FullTurn, 7, 8) = SubSeq(FullTurn, 1, 8)
  <2>1. 1 + 1 = 2 /\ 2 + 1 = 3 /\ 4 + 1 = 5 /\ 5 + 1 = 6 /\ 6 + 1 = 7
    OBVIOUS
  <2>2. SubSeq(FullTurn, 1, 1) \o SubSeq(FullTurn, 1 + 1, 2) = SubSeq(FullTurn, 1, 2)
    BY <1>2
  <2>3. SubSeq(FullTurn, 1, 2) \o SubSeq(FullTurn, 2 + 1, 4) = SubSeq(FullTurn, 1, 4)
    BY <1>2
  <2>4. SubSeq(FullTurn, 1, 4) \o SubSeq(FullTurn, 4 + 1, 5) = SubSeq(FullTurn, 1, 5)
    BY <1>2
  <2>5. SubSeq(FullTurn, 1, 5) \o SubSeq(FullTurn, 5 + 1, 6) = SubSeq(FullTurn, 1, 6)
    BY <1>2
  <2>6. SubSeq(FullTurn, 1, 6) \o SubSeq(FullTurn, 6 + 1, 8) = SubSeq(FullTurn, 1, 8)
    BY <1>2
  <2>7. QED
    BY <2>1, <2>2, <2>3, <2>4, <2>5, <2>6
<1>10. QED
  BY <1>3, <1>4, <1>5, <1>6, <1>7, <1>8, <1>9

\* What begins a turn is a prefix of a turn.
LEMMA BeginsIsPrefix ==
  ASSUME NEW x, Begins(x)
  PROVE  IsPrefix(x, FullTurn) \/ IsPrefix(x, GatedTurn)
<1>1. /\ FullTurn \in Seq(Kinds) /\ Len(FullTurn) = 8 /\ GatedTurn \in Seq(Kinds) /\ Len(GatedTurn) = 3
  BY TurnSequences
<1>2. CASE x = GatedTurn
  <2>1. Len(x) = 3 /\ Len(GatedTurn) = 3 /\ 3 <= 3
    BY <1>1, <1>2
  <2>2. QED
    BY <1>2, <2>1 DEF IsPrefix
<1>3. ASSUME NEW k \in 0..8, x = SubSeq(FullTurn, 1, k) PROVE IsPrefix(x, FullTurn)
  <2>1. x \in Seq(Kinds) /\ Len(x) = k
    <3>1. \A i \in 1..k : FullTurn[i] \in Kinds
      <4>1. \A i \in 1..Len(FullTurn) : FullTurn[i] \in Kinds
        BY <1>1, ElementOfSeq
      <4>2. QED
        BY <1>1, <4>1
    <3>2. k \in Int /\ 1 \in Int /\ (IF 1 <= k THEN k - 1 + 1 ELSE 0) = k
      OBVIOUS
    <3>3. QED
      BY <1>3, <3>1, <3>2, SubSeqProperties
  <2>2. SubSeq(x, 1, Len(x)) = x
    BY <2>1, SubSeqFull
  <2>3. QED
    BY <1>1, <1>3, <2>1, <2>2 DEF IsPrefix
<1>4. QED
  BY <1>2, <1>3 DEF Begins

\* A turn heard is a turn begun.
LEMMA HeardBegins ==
  ASSUME NEW at \in Ats \ {"idle"}, NEW x, Heard(at, x)
  PROVE  Begins(x)
<1>1. Signals(at) \in 0..8
  BY DEF Ats, Signals
<1>2. QED
  BY <1>1 DEF Heard, Begins
\* Of a pass and its turn.
Moved(t, p, r) ==
    /\ IsPass(p) /\ pass' = [pass EXCEPT ![t] = p]
    /\ IsResult(r) /\ result' = [result EXCEPT ![t] = r]

\* The types after a step of one thread.
LEMMA MovedType ==
  ASSUME FlowType, NEW t \in Threads, NEW p, NEW r, Moved(t, p, r)
  PROVE  /\ pass' = [u \in Threads |-> pass'[u]] /\ \A u \in Threads : IsPass(pass'[u])
         /\ result' = [u \in Threads |-> result'[u]] /\ \A u \in Threads : IsResult(result'[u])
         /\ pass'[t] = p /\ result'[t] = r
         /\ \A u \in Threads \ {t} : pass'[u] = pass[u] /\ result'[u] = result[u]
BY DEF FlowType, Moved

\* A pass ends, by its answer or by an error; its turn stays as it is.
LEMMA EndKeeps ==
  ASSUME FlowInv, NEW t \in Threads, NEW r, Moved(t, NoPass, r), UNCHANGED <<nextTurn, restarts, stream>>
  PROVE  FlowInv'
<1>1. FlowType
  BY DEF FlowInv
<1>2. /\ pass' = [u \in Threads |-> pass'[u]] /\ \A u \in Threads : IsPass(pass'[u])
      /\ result' = [u \in Threads |-> result'[u]] /\ \A u \in Threads : IsResult(result'[u])
      /\ pass'[t] = NoPass /\ \A u \in Threads \ {t} : pass'[u] = pass[u] /\ result'[u] = result[u]
  BY <1>1, MovedType
<1>3. FlowType'
  BY <1>1, <1>2 DEF FlowType
<1>4. pass'[t].at = "idle"
  BY <1>2 DEF NoPass
<1>5. ASSUME restarts = 0 PROVE TurnOfPass' /\ OwnTurns' /\ TurnsBegin'
  <2>1. TurnOfPass /\ OwnTurns /\ TurnsBegin
    BY <1>5 DEF FlowInv
  <2>2. TurnOfPass'
    <3>1. SUFFICES ASSUME NEW u \in Threads, pass'[u].at # "idle"
                   PROVE  /\ result'[u].turn \in 1..MaxTurns /\ result'[u].turn < nextTurn
                          /\ Heard(pass'[u].at, stream[result'[u].turn])
      BY DEF TurnOfPass
    <3>2. pass'[u] = pass[u] /\ result'[u] = result[u]
      BY <1>2, <1>4, <3>1
    <3>3. QED
      BY <2>1, <3>1, <3>2 DEF TurnOfPass
  <2>3. OwnTurns'
    BY <1>2, <1>4, <2>1 DEF OwnTurns
  <2>4. QED
    BY <2>1, <2>2, <2>3 DEF TurnsBegin
<1>6. QED
  BY <1>3, <1>5 DEF FlowInv

\* A pass under way goes on, with the signals of where it is now on its turn.
LEMMA GoesOnKeeps ==
  ASSUME FlowInv, NEW t \in Threads, pass[t].at # "idle", NEW p, p.at # "idle",
         NEW r, r.turn = result[t].turn, Moved(t, p, r), UNCHANGED <<nextTurn, restarts>>,
         NEW x, stream' = [stream EXCEPT ![result[t].turn] = x],
         Heard(pass[t].at, stream[result[t].turn]) => Heard(p.at, x)
  PROVE  FlowInv'
<1>1. FlowType
  BY DEF FlowInv
<1>2. /\ pass' = [u \in Threads |-> pass'[u]] /\ \A u \in Threads : IsPass(pass'[u])
      /\ result' = [u \in Threads |-> result'[u]] /\ \A u \in Threads : IsResult(result'[u])
      /\ pass'[t] = p /\ result'[t] = r
      /\ \A u \in Threads \ {t} : pass'[u] = pass[u] /\ result'[u] = result[u]
  BY <1>1, MovedType
<1>3. FlowType'
  <2>1. stream' = [n \in 1..MaxTurns |-> stream'[n]]
    BY <1>1 DEF FlowType
  <2>2. QED
    BY <1>1, <1>2, <2>1 DEF FlowType
<1>4. ASSUME restarts = 0 PROVE TurnOfPass' /\ OwnTurns' /\ TurnsBegin'
  <2>1. TurnOfPass /\ OwnTurns /\ TurnsBegin
    BY <1>4 DEF FlowInv
  <2>2. PICK n : n = result[t].turn
    OBVIOUS
  <2>3. n \in 1..MaxTurns /\ n < nextTurn /\ Heard(pass[t].at, stream[n])
    BY <2>1, <2>2 DEF TurnOfPass
  <2>4. stream'[n] = x /\ \A m \in 1..MaxTurns : m # n => stream'[m] = stream[m]
    BY <1>1, <2>2, <2>3 DEF FlowType
  <2>5. Heard(p.at, x)
    BY <2>2, <2>3
  <2>6. TurnOfPass'
    <3>1. SUFFICES ASSUME NEW u \in Threads, pass'[u].at # "idle"
                   PROVE  /\ result'[u].turn \in 1..MaxTurns /\ result'[u].turn < nextTurn
                          /\ Heard(pass'[u].at, stream'[result'[u].turn])
      BY DEF TurnOfPass
    <3>2. CASE u = t
      <4>1. pass'[u].at = p.at /\ result'[u].turn = n
        BY <1>2, <2>2, <3>2
      <4>2. QED
        BY <2>3, <2>4, <2>5, <4>1
    <3>3. CASE u # t
      <4>1. pass'[u] = pass[u] /\ result'[u] = result[u]
        BY <1>2, <3>3
      <4>2. /\ result[u].turn \in 1..MaxTurns /\ result[u].turn < nextTurn
            /\ Heard(pass[u].at, stream[result[u].turn])
        BY <2>1, <3>1, <4>1 DEF TurnOfPass
      <4>3. result[u].turn # n
        BY <2>1, <2>2, <3>1, <3>3, <4>1 DEF OwnTurns
      <4>4. QED
        BY <2>4, <4>1, <4>2, <4>3
    <3>4. QED
      BY <3>2, <3>3
  <2>7. OwnTurns'
    <3>1. \A u \in Threads : pass'[u].at # "idle" => pass[u].at # "idle" /\ result'[u].turn = result[u].turn
      BY <1>2
    <3>2. QED
      BY <2>1, <3>1 DEF OwnTurns
  <2>8. TurnsBegin'
    <3>1. SUFFICES ASSUME NEW m \in 1..MaxTurns
                   PROVE  Begins(stream'[m]) /\ (m >= nextTurn => stream'[m] = <<>>)
      BY DEF TurnsBegin
    <3>2. CASE m # n
      BY <2>1, <2>4, <3>2 DEF TurnsBegin
    <3>3. CASE m = n
      <4>1. p.at \in Ats \ {"idle"}
        BY DEF Moved, IsPass
      <4>2. Begins(x)
        BY <2>5, <4>1, HeardBegins
      <4>3. ~(m >= nextTurn)
        BY <1>1, <2>3, <3>3, TurnsAssumption DEF FlowType
      <4>4. QED
        BY <2>4, <3>3, <4>2, <4>3
    <3>4. QED
      BY <3>2, <3>3
  <2>9. QED
    BY <2>6, <2>7, <2>8
<1>5. QED
  BY <1>3, <1>4 DEF FlowInv

\* A pass begins: its turn is a new one, and silent until now.
LEMMA AskKeeps ==
  ASSUME FlowInv, NEW t \in Threads, NEW y \in Payloads, Ask(t, y)
  PROVE  FlowInv'
<1>1. FlowType
  BY DEF FlowInv
<1>2. nextTurn \in 1..MaxTurns /\ nextTurn' = nextTurn + 1 /\ restarts' = restarts /\ nextTurn' \in Nat \ {0}
  BY <1>1, TurnsAssumption DEF Ask, FlowType
<1>3. PICK p : IsPass(p) /\ p.at \in {"distilled", "identify"} /\ pass' = [pass EXCEPT ![t] = p]
  <2>1. ASSUME NEW p, NEW at \in {"distilled", "identify"}, NEW a, NEW b, NEW c, NEW d,
               p = [at |-> at, result |-> a, payload |-> b, context |-> c, before |-> d,
                    isNew |-> FALSE, told |-> {}]
        PROVE  IsPass(p) /\ p.at = at
    BY <2>1 DEF IsPass, Ats
  <2>2. \/ pass' = [pass EXCEPT ![t] = [at |-> "distilled", result |-> "block", payload |-> y,
                                        context |-> Channel, before |-> {}, isNew |-> FALSE, told |-> {}]]
        \/ \E predicted : pass' = [pass EXCEPT ![t] = [at |-> "identify", result |-> GateOf(y), payload |-> y,
                               context |-> Channel, before |-> predicted, isNew |-> FALSE, told |-> {}]]
    BY DEF Ask, Gate
  <2>3. QED
    BY <2>1, <2>2
<1>4. PICK r : /\ IsResult(r) /\ r.turn = nextTurn /\ result' = [result EXCEPT ![t] = r]
  BY DEF Ask, NoResult, IsResult
<1>5. PICK x : x = stream[nextTurn] \o <<"flow.open">>
  OBVIOUS
<1>6. stream' = [stream EXCEPT ![nextTurn] = x]
  BY <1>5 DEF Ask, Emit
<1>7. Moved(t, p, r)
  BY <1>3, <1>4 DEF Moved
<1>8. /\ pass' = [u \in Threads |-> pass'[u]] /\ \A u \in Threads : IsPass(pass'[u])
      /\ result' = [u \in Threads |-> result'[u]] /\ \A u \in Threads : IsResult(result'[u])
      /\ pass'[t] = p /\ result'[t] = r
      /\ \A u \in Threads \ {t} : pass'[u] = pass[u] /\ result'[u] = result[u]
  BY <1>1, <1>7, MovedType
<1>9. /\ stream' = [n \in 1..MaxTurns |-> stream'[n]] /\ stream'[nextTurn] = x
      /\ \A n \in 1..MaxTurns : n # nextTurn => stream'[n] = stream[n]
  BY <1>1, <1>2, <1>6 DEF FlowType
<1>10. FlowType'
  BY <1>1, <1>2, <1>8, <1>9 DEF FlowType
<1>11. ASSUME restarts = 0 PROVE TurnOfPass' /\ OwnTurns' /\ TurnsBegin'
  <2>1. TurnOfPass /\ OwnTurns /\ TurnsBegin
    BY <1>11 DEF FlowInv
  <2>2. stream[nextTurn] = <<>>
    BY <1>1, <1>2, <2>1 DEF TurnsBegin, FlowType
  <2>3. x = SubSeq(FullTurn, 1, 1)
    BY <1>5, <2>2, SignalsFollow
  <2>4. Heard(p.at, x) /\ p.at \in Ats \ {"idle"}
    BY <1>3, <2>3 DEF Heard, Signals, Ats
  <2>5. Begins(x)
    BY <2>4, HeardBegins
  <2>6. \A u \in Threads : u # t /\ pass'[u].at # "idle" =>
            /\ result'[u].turn = result[u].turn /\ result[u].turn \in 1..MaxTurns /\ result[u].turn < nextTurn
            /\ pass'[u] = pass[u] /\ Heard(pass[u].at, stream[result[u].turn])
    BY <1>8, <2>1 DEF TurnOfPass
  <2>7. \A n \in 1..MaxTurns : n < nextTurn => n # nextTurn /\ n < nextTurn'
    BY <1>1, <1>2, TurnsAssumption DEF FlowType
  <2>8. TurnOfPass'
    <3>1. SUFFICES ASSUME NEW u \in Threads, pass'[u].at # "idle"
                   PROVE  /\ result'[u].turn \in 1..MaxTurns /\ result'[u].turn < nextTurn'
                          /\ Heard(pass'[u].at, stream'[result'[u].turn])
      BY DEF TurnOfPass
    <3>2. CASE u = t
      <4>1. pass'[u].at = p.at /\ result'[u].turn = nextTurn
        BY <1>4, <1>8, <3>2
      <4>2. nextTurn < nextTurn'
        BY <1>1, <1>2 DEF FlowType
      <4>3. QED
        BY <1>2, <1>9, <2>4, <4>1, <4>2
    <3>3. CASE u # t
      BY <1>9, <2>6, <2>7, <3>1, <3>3
    <3>4. QED
      BY <3>2, <3>3
  <2>9. OwnTurns'
    <3>1. SUFFICES ASSUME NEW u \in Threads, NEW v \in Threads, u # v, pass'[u].at # "idle", pass'[v].at # "idle"
                   PROVE  result'[u].turn # result'[v].turn
      BY DEF OwnTurns
    <3>2. CASE u # t /\ v # t
      BY <1>8, <2>1, <3>1, <3>2 DEF OwnTurns
    <3>3. CASE u = t
      BY <1>4, <1>8, <2>6, <2>7, <3>1, <3>3
    <3>4. CASE v = t
      BY <1>4, <1>8, <2>6, <2>7, <3>1, <3>4
    <3>5. QED
      BY <3>2, <3>3, <3>4
  <2>10. TurnsBegin'
    <3>1. SUFFICES ASSUME NEW m \in 1..MaxTurns
                   PROVE  Begins(stream'[m]) /\ (m >= nextTurn' => stream'[m] = <<>>)
      BY DEF TurnsBegin
    <3>2. CASE m # nextTurn
      <4>1. m >= nextTurn' => m >= nextTurn
        BY <1>1, <1>2, TurnsAssumption DEF FlowType
      <4>2. QED
        BY <1>9, <2>1, <3>2, <4>1 DEF TurnsBegin
    <3>3. CASE m = nextTurn
      <4>1. ~(m >= nextTurn')
        BY <1>1, <1>2, <3>3 DEF FlowType
      <4>2. QED
        BY <1>9, <2>5, <3>3, <4>1
    <3>4. QED
      BY <3>2, <3>3
  <2>11. QED
    BY <2>8, <2>9, <2>10
<1>12. QED
  BY <1>2, <1>10, <1>11 DEF FlowInv

\* A pass under way that stays silent: RRD distils the query.
LEMMA DistilKeeps ==
  ASSUME FlowInv, NEW t \in Threads, Distil(t)
  PROVE  FlowInv'
<1>1. FlowType /\ UNCHANGED <<nextTurn, stream, result, restarts>>
  BY DEF FlowInv, Distil, flowVars
<1>2. IsPass(pass[t]) /\ IsResult(result[t]) /\ result = [result EXCEPT ![t] = result[t]]
  BY <1>1 DEF FlowType
<1>3. \E p : /\ IsPass(p) /\ pass' = [pass EXCEPT ![t] = p]
             /\ pass[t].at \in {"identify", "settle", "plan"} /\ p.at \in {"settle", "plan", "distilled"}
  <2>1. CASE Identify(t)
    <3>1. PICK p : /\ pass' = [pass EXCEPT ![t] = p]
                   /\ p = [pass[t] EXCEPT !.at = "settle", !.isNew = slivers[ShapeOf(t)] = 0]
      BY <1>1, <2>1 DEF Identify, FlowType
    <3>2. IsPass(p) /\ p.at = "settle"
      BY <1>2, <3>1 DEF IsPass, Ats
    <3>3. QED
      BY <2>1, <3>1, <3>2 DEF Identify
  <2>2. CASE Settle(t)
    <3>1. PICK p : pass' = [pass EXCEPT ![t] = p] /\ p = [pass[t] EXCEPT !.at = "plan"]
      BY <1>1, <2>2 DEF Settle, FlowType
    <3>2. IsPass(p) /\ p.at = "plan"
      BY <1>2, <3>1 DEF IsPass, Ats
    <3>3. QED
      BY <2>2, <3>1, <3>2 DEF Settle
  <2>3. CASE FetchPlan(t)
    <3>1. PICK p : pass' = [pass EXCEPT ![t] = p] /\ p = [pass[t] EXCEPT !.at = "distilled"]
      BY <1>1, <2>3 DEF FetchPlan, FlowType
    <3>2. IsPass(p) /\ p.at = "distilled"
      BY <1>2, <3>1 DEF IsPass, Ats
    <3>3. QED
      BY <2>3, <3>1, <3>2 DEF FetchPlan
  <2>4. QED
    BY <2>1, <2>2, <2>3 DEF Distil
<1>4. PICK p : /\ IsPass(p) /\ pass' = [pass EXCEPT ![t] = p]
               /\ pass[t].at \in {"identify", "settle", "plan"} /\ p.at \in {"settle", "plan", "distilled"}
  BY <1>3
<1>5. Moved(t, p, result[t])
  BY <1>1, <1>2, <1>4 DEF Moved
<1>6. PICK x : x = stream[result[t].turn]
  OBVIOUS
<1>7. stream' = [stream EXCEPT ![result[t].turn] = x]
  BY <1>1, <1>6 DEF FlowType
<1>8. Heard(pass[t].at, x) => Heard(p.at, x)
  BY <1>4 DEF Heard, Signals
<1>9. QED
  BY <1>1, <1>4, <1>5, <1>6, <1>7, <1>8, GoesOnKeeps

\* The shape stage signals; a blocked query closes its turn there.
LEMMA ShapeKeeps ==
  ASSUME FlowInv, NEW t \in Threads, Shape(t)
  PROVE  FlowInv'
<1>1. FlowType /\ UNCHANGED <<nextTurn, restarts>> /\ pass[t].at = "distilled"
  BY DEF FlowInv, Shape
<1>2. IsPass(pass[t]) /\ IsResult(result[t]) /\ result = [result EXCEPT ![t] = result[t]]
  BY <1>1 DEF FlowType
<1>3. Heard(pass[t].at, stream[result[t].turn]) => stream[result[t].turn] = SubSeq(FullTurn, 1, 1)
  BY <1>1 DEF Heard, Signals
<1>4. CASE /\ Emit(result[t].turn, <<"shape", "flow.turn">>)
           /\ pass' = [pass EXCEPT ![t].at = "answer"]
           /\ result' = [result EXCEPT ![t].label = "gated"]
  <2>1. PICK p, r, x : /\ pass' = [pass EXCEPT ![t] = p] /\ p = [pass[t] EXCEPT !.at = "answer"]
                       /\ result' = [result EXCEPT ![t] = r] /\ r = [result[t] EXCEPT !.label = "gated"]
                       /\ x = stream[result[t].turn] \o <<"shape", "flow.turn">>
    BY <1>1, <1>4 DEF FlowType
  <2>2. IsPass(p) /\ p.at = "answer" /\ IsResult(r) /\ r.turn = result[t].turn
    BY <1>2, <2>1 DEF IsPass, IsResult, Ats
  <2>3. stream' = [stream EXCEPT ![result[t].turn] = x]
    BY <1>4, <2>1 DEF Emit
  <2>4. Heard(pass[t].at, stream[result[t].turn]) => Heard(p.at, x)
    BY <1>3, <2>1, <2>2, SignalsFollow DEF Heard
  <2>5. Moved(t, p, r)
    BY <2>1, <2>2 DEF Moved
  <2>6. QED
    BY <1>1, <2>2, <2>3, <2>4, <2>5, GoesOnKeeps
<1>5. ASSUME NEW told, Emit(result[t].turn, <<"shape">>), UNCHANGED result,
             pass' = [pass EXCEPT ![t] = [@ EXCEPT !.at = "embed", !.told = told]]
      PROVE  FlowInv'
  <2>1. PICK p, x : /\ pass' = [pass EXCEPT ![t] = p] /\ p = [pass[t] EXCEPT !.at = "embed", !.told = told]
                    /\ x = stream[result[t].turn] \o <<"shape">>
    BY <1>1, <1>5 DEF FlowType
  <2>2. IsPass(p) /\ p.at = "embed"
    BY <1>2, <2>1 DEF IsPass, Ats
  <2>3. stream' = [stream EXCEPT ![result[t].turn] = x]
    BY <1>5, <2>1 DEF Emit
  <2>4. Heard(pass[t].at, stream[result[t].turn]) => Heard(p.at, x)
    BY <1>3, <2>1, <2>2, SignalsFollow DEF Heard, Signals
  <2>5. Moved(t, p, result[t])
    BY <1>2, <1>5, <2>1, <2>2 DEF Moved
  <2>6. QED
    BY <1>1, <2>2, <2>3, <2>4, <2>5, GoesOnKeeps
<1>6. QED
  BY <1>4, <1>5 DEF Shape

\* An awaited stage answers and signals, or its error ends the pass.
LEMMA StageKeeps ==
  ASSUME FlowInv, NEW t \in Threads, NEW from \in Ats \ {"idle"}, NEW to \in Ats \ {"idle"}, NEW kinds,
         NEW cands, NEW label, Stage(t, from, to, kinds, cands, label),
         \A x : Heard(from, x) => Heard(to, x \o kinds)
  PROVE  FlowInv'
<1>1. FlowType /\ UNCHANGED <<nextTurn, restarts>> /\ pass[t].at = from
  BY DEF FlowInv, Stage
<1>2. IsPass(pass[t]) /\ IsResult(result[t])
  BY <1>1 DEF FlowType
<1>3. CASE /\ pass' = [pass EXCEPT ![t].at = to]
           /\ Emit(result[t].turn, kinds)
           /\ result' = [result EXCEPT ![t].candidates = cands, ![t].label = label]
  <2>1. PICK p, r, x : /\ pass' = [pass EXCEPT ![t] = p] /\ p = [pass[t] EXCEPT !.at = to]
                       /\ result' = [result EXCEPT ![t] = r]
                       /\ r = [result[t] EXCEPT !.candidates = cands, !.label = label]
                       /\ x = stream[result[t].turn] \o kinds
    BY <1>1, <1>3 DEF FlowType
  <2>2. IsPass(p) /\ p.at = to /\ IsResult(r) /\ r.turn = result[t].turn
    BY <1>2, <2>1 DEF IsPass, IsResult, Ats
  <2>3. stream' = [stream EXCEPT ![result[t].turn] = x]
    BY <1>3, <2>1 DEF Emit
  <2>4. Heard(pass[t].at, stream[result[t].turn]) => Heard(p.at, x)
    BY <1>1, <2>1, <2>2
  <2>5. Moved(t, p, r)
    BY <2>1, <2>2 DEF Moved
  <2>6. QED
    BY <1>1, <2>2, <2>3, <2>4, <2>5, GoesOnKeeps
<1>4. CASE /\ pass' = [pass EXCEPT ![t] = NoPass] /\ result' = [result EXCEPT ![t] = NoResult]
           /\ UNCHANGED stream
  <2>1. Moved(t, NoPass, NoResult)
    BY <1>4 DEF Moved, NoPass, NoResult, IsPass, IsResult, Ats
  <2>2. QED
    BY <1>1, <1>4, <2>1, EndKeeps
<1>5. QED
  BY <1>3, <1>4 DEF Stage

\* Before the first query.
LEMMA FlowInitInv == ASSUME FlowInit PROVE FlowInv
<1>1. /\ nextTurn = 1 /\ restarts = 0 /\ stream = [n \in 1..MaxTurns |-> <<>>]
      /\ pass = [t \in Threads |-> NoPass] /\ result = [t \in Threads |-> NoResult]
  BY DEF FlowInit, RrdInit
<1>2. IsPass(NoPass) /\ NoPass.at = "idle" /\ IsResult(NoResult)
  BY DEF NoPass, NoResult, IsPass, IsResult, Ats
<1>3. FlowType
  BY <1>1, <1>2 DEF FlowType
<1>4. TurnOfPass /\ OwnTurns
  BY <1>1, <1>2 DEF TurnOfPass, OwnTurns
<1>5. SubSeq(FullTurn, 1, 0) = <<>>
  BY SubSeqEmpty
<1>6. TurnsBegin
  BY <1>1, <1>5 DEF TurnsBegin, Begins
<1>7. QED
  BY <1>3, <1>4, <1>6 DEF FlowInv

\* Every step keeps the invariant.
LEMMA FlowStepInv ==
  ASSUME FlowInv, [FlowNext]_askVars
  PROVE  FlowInv'
<1>1. ASSUME NEW t \in Threads, NEW y \in Payloads, Ask(t, y) PROVE FlowInv'
  BY <1>1, AskKeeps
<1>2. ASSUME NEW t \in Threads, Distil(t) PROVE FlowInv'
  BY <1>2, DistilKeeps
<1>3. ASSUME NEW t \in Threads, Shape(t) PROVE FlowInv'
  BY <1>3, ShapeKeeps
<1>4. ASSUME NEW t \in Threads, EmbedQuery(t) PROVE FlowInv'
  <2>1. \A x : Heard("embed", x) => Heard("recall", x \o <<"embed", "intent">>)
    BY SignalsFollow DEF Heard, Signals
  <2>2. "embed" \in Ats \ {"idle"} /\ "recall" \in Ats \ {"idle"}
    BY DEF Ats
  <2>3. QED
    BY <1>4, <2>1, <2>2, StageKeeps DEF EmbedQuery
<1>5. ASSUME NEW t \in Threads, Recall(t) PROVE FlowInv'
  <2>1. \A x : Heard("recall", x) => Heard("rerank", x \o <<"recall">>)
    BY SignalsFollow DEF Heard, Signals
  <2>2. "recall" \in Ats \ {"idle"} /\ "rerank" \in Ats \ {"idle"}
    BY DEF Ats
  <2>3. PICK found : Stage(t, "recall", "rerank", <<"recall">>, found, None)
    BY <1>5 DEF Recall
  <2>4. QED
    BY <2>1, <2>2, <2>3, StageKeeps
<1>6. ASSUME NEW t \in Threads, Rerank(t) PROVE FlowInv'
  <2>1. \A x : Heard("rerank", x) => Heard("reason", x \o <<"rerank">>)
    BY SignalsFollow DEF Heard, Signals
  <2>2. "rerank" \in Ats \ {"idle"} /\ "reason" \in Ats \ {"idle"}
    BY DEF Ats
  <2>3. PICK ranked : Stage(t, "rerank", "reason", <<"rerank">>, ranked, None)
    BY <1>6 DEF Rerank
  <2>4. QED
    BY <2>1, <2>2, <2>3, StageKeeps
<1>7. ASSUME NEW t \in Threads, Reason(t) PROVE FlowInv'
  <2>1. \A x : Heard("reason", x) => Heard("answer", x \o <<"reason", "flow.turn">>)
    BY SignalsFollow DEF Heard, Signals
  <2>2. "reason" \in Ats \ {"idle"} /\ "answer" \in Ats \ {"idle"}
    BY DEF Ats
  <2>3. PICK label : Stage(t, "reason", "answer", <<"reason", "flow.turn">>, result[t].candidates, label)
    BY <1>7 DEF Reason
  <2>4. QED
    BY <2>1, <2>2, <2>3, StageKeeps
<1>8. ASSUME NEW t \in Threads, ReturnResult(t) PROVE FlowInv'
  <2>1. Moved(t, NoPass, NoResult) /\ UNCHANGED <<nextTurn, restarts, stream>>
    BY <1>8 DEF ReturnResult, Moved, NoPass, NoResult, IsPass, IsResult, Ats
  <2>2. QED
    BY <2>1, EndKeeps
<1>9. CASE Reboot
  <2>1. FlowType
    BY DEF FlowInv
  <2>2. /\ nextTurn' = 1 /\ restarts' = restarts + 1 /\ stream' = stream
        /\ pass' = [t \in Threads |-> NoPass] /\ result' = [t \in Threads |-> NoResult]
    BY <1>9 DEF Reboot, Restart
  <2>3. IsPass(NoPass) /\ IsResult(NoResult)
    BY DEF NoPass, NoResult, IsPass, IsResult, Ats
  <2>4. FlowType' /\ restarts' # 0
    BY <2>1, <2>2, <2>3 DEF FlowType
  <2>5. QED
    BY <2>4 DEF FlowInv
<1>10. CASE UNCHANGED askVars
  BY <1>10 DEF askVars, rrdVars, flowVars, FlowInv, FlowType, TurnOfPass, OwnTurns, TurnsBegin
<1>11. QED
  BY <1>1, <1>2, <1>3, <1>4, <1>5, <1>6, <1>7, <1>8, <1>9, <1>10 DEF FlowNext

\* turn.rs: within one life of the process the signals that carry one turn id replay into one
\* pass, cut short only where the pass failed, for any number of callers asking at once, any
\* queries and any outcome of the models.
THEOREM EveryTurnReadable == FlowSpec => []TurnReadableInProcess
<1>1. FlowInit => FlowInv
  BY FlowInitInv
<1>2. FlowInv /\ [FlowNext]_askVars => FlowInv'
  BY FlowStepInv
<1>3. FlowInv => TurnReadableInProcess
  <2>1. SUFFICES ASSUME FlowInv, restarts = 0, NEW n \in 1..MaxTurns
                 PROVE  IsPrefix(stream[n], FullTurn) \/ IsPrefix(stream[n], GatedTurn)
    BY DEF TurnReadableInProcess, TurnReadable
  <2>2. Begins(stream[n])
    BY <2>1 DEF FlowInv, TurnsBegin
  <2>3. QED
    BY <2>2, BeginsIsPrefix
<1>4. QED
  BY <1>1, <1>2, <1>3, PTL DEF FlowSpec

----------------------------------------------------------------------------
(* Paging through the documents while they come and go.                    *)

\* A page is the beginning of what is ahead: in order, without a gap, and empty only at the end.
LEMMA PageReads ==
  ASSUME NEW S \in SUBSET Nat, IsFiniteSet(S), NEW limit \in Nat, NEW p, p = PageOf(S, limit)
  PROVE  /\ p \in Seq(S)
         /\ \A i, j \in 1..Len(p) : i < j => p[i] < p[j]
         /\ p = <<>> => S = {}
         /\ p # <<>> => Len(p) \in 1..Len(p)
         /\ \A d \in S : p # <<>> /\ d <= p[Len(p)] => \E i \in 1..Len(p) : p[i] = d
<1> DEFINE n == Cardinality(S)
           room == IF limit = 0 THEN 1 ELSE limit
           m == IF room < n THEN room ELSE n
<1>1. /\ n \in Nat
      /\ \A i \in 1..n : InKeyOrder(S, i) \in S
      /\ \A d \in S : \E i \in 1..n : InKeyOrder(S, i) = d
      /\ \A i, j \in 1..n : i < j => InKeyOrder(S, i) < InKeyOrder(S, j)
  BY ReadsEachOnce
<1>2. p = [i \in 1..m |-> InKeyOrder(S, i)]
  BY DEF PageOf
<1>3. m \in Nat /\ m <= n /\ (m = 0 => n = 0) /\ 1..m \subseteq 1..n
  BY <1>1
<1> HIDE DEF n, m
<1>4. p \in Seq(S) /\ Len(p) = m /\ \A i \in 1..m : p[i] = InKeyOrder(S, i)
  BY <1>1, <1>2, <1>3
<1>5. \A i, j \in 1..Len(p) : i < j => p[i] < p[j]
  BY <1>1, <1>3, <1>4
<1>6. p = <<>> => S = {}
  BY <1>1, <1>3, <1>4
<1>7. p # <<>> => Len(p) \in 1..Len(p)
  BY <1>4
<1>8. ASSUME NEW d \in S, p # <<>>, d <= p[Len(p)] PROVE \E i \in 1..Len(p) : p[i] = d
  <2>1. PICK k \in 1..n : InKeyOrder(S, k) = d
    BY <1>1
  <2>2. m \in 1..m /\ m \in 1..n /\ p[m] = InKeyOrder(S, m)
    BY <1>3, <1>4, <1>7, <1>8
  <2>3. d \in Nat /\ p[m] \in Nat
    BY <1>1, <2>2
  <2>4. ~(m < k)
    BY <1>1, <1>4, <1>8, <2>1, <2>2, <2>3
  <2>5. k \in 1..m
    BY <1>1, <1>3, <2>4
  <2>6. QED
    BY <1>4, <2>1, <2>5
<1>9. QED
  BY <1>4, <1>5, <1>6, <1>7, <1>8

IsScroll(c) == c = [x \in {"at", "listed", "after", "stayed"} |-> c[x]]

\* The client c, over the documents S.
ScrollType(c) ==
    /\ IsScroll(c) /\ c.at \in {"idle", "paging", "ended"}
    /\ c.listed \in Seq(DocKeys) /\ c.after \in Nat /\ c.stayed \subseteq stored

\* What is listed ascends up to the cursor.
Ascends(c) ==
    /\ \A i, j \in 1..Len(c.listed) : i < j => c.listed[i] < c.listed[j]
    /\ \A i \in 1..Len(c.listed) : c.listed[i] <= c.after
    /\ c.at = "idle" => c.listed = <<>> /\ c.after = 0 /\ c.stayed = {}

\* Up to the cursor nothing that stayed is left out, and at the end nothing is ahead of it.
CoversStayed(c) ==
    /\ \A d \in c.stayed : d <= c.after => \E i \in 1..Len(c.listed) : c.listed[i] = d
    /\ c.at = "ended" => \A d \in c.stayed : d <= c.after

ScrollInv == stored \subseteq DocKeys /\ ScrollType(scroll) /\ Ascends(scroll) /\ CoversStayed(scroll)

LEMMA ScrollStarts == ScrollInit => ScrollInv
<1>1. SUFFICES ASSUME ScrollInit PROVE ScrollInv
  OBVIOUS
<1>2. /\ scroll.at = "idle" /\ scroll.listed = <<>> /\ scroll.after = 0 /\ scroll.stayed = {}
      /\ IsScroll(scroll) /\ stored \subseteq DocKeys
  BY <1>1 DEF ScrollInit, IsScroll
<1>3. QED
  BY <1>2 DEF ScrollInv, ScrollType, Ascends, CoversStayed

\* A page goes on where the one before it ended.
LEMMA PageKeeps ==
  ASSUME ScrollInv, NEW limit \in PageLimits, ScrollOn(limit)
  PROVE  ScrollInv'
<1> DEFINE S == {d \in stored : d > scroll.after}
           base == IF scroll.at = "idle" THEN stored ELSE scroll.stayed
<1>1. PICK p : p = PageOf(S, limit)
  OBVIOUS
<1>2. PICK l, a : l = scroll.listed /\ a = scroll.after
  OBVIOUS
<1>3. /\ scroll' = [at |-> IF p = <<>> THEN "ended" ELSE "paging", listed |-> l \o p,
                    after |-> IF p = <<>> THEN a ELSE Last(p), stayed |-> base]
      /\ stored' = stored /\ scroll.at # "ended"
  BY <1>1, <1>2 DEF ScrollOn, scroll_page
<1>4. /\ stored \subseteq DocKeys /\ DocKeys \subseteq Nat \ {0} /\ IsFiniteSet(DocKeys)
      /\ l \in Seq(DocKeys) /\ a \in Nat /\ scroll.stayed \subseteq stored
  BY <1>2, DocKeysAssumption DEF ScrollInv, ScrollType
<1>5. IsFiniteSet(stored) /\ S \subseteq stored /\ S \in SUBSET Nat /\ limit \in Nat
  BY <1>4, FS_Subset, PageLimitsAssumption
<1>6. IsFiniteSet(S)
  BY <1>5, FS_Subset
<1>7. /\ p \in Seq(S)
      /\ \A i, j \in 1..Len(p) : i < j => p[i] < p[j]
      /\ p = <<>> => S = {}
      /\ p # <<>> => Len(p) \in 1..Len(p)
      /\ \A d \in S : p # <<>> /\ d <= p[Len(p)] => \E i \in 1..Len(p) : p[i] = d
  <2> HIDE DEF S
  <2>1. QED
    BY <1>1, <1>5, <1>6, PageReads
<1>8. /\ base \subseteq stored
      /\ \A d \in base : d <= a => \E i \in 1..Len(l) : l[i] = d
  BY <1>2, <1>4 DEF ScrollInv, Ascends, CoversStayed
<1>9. /\ \A i, j \in 1..Len(l) : i < j => l[i] < l[j]
      /\ \A i \in 1..Len(l) : l[i] <= a
  BY <1>2 DEF ScrollInv, Ascends
<1>10. /\ \A i \in 1..Len(p) : p[i] \in S
       /\ \A d \in S : d \in stored /\ d \in Nat /\ d > a
  BY <1>2, <1>5, <1>7
<1> HIDE DEF S, base
<1>11. PICK b : b = IF p = <<>> THEN a ELSE Last(p)
  OBVIOUS
<1>12. p # <<>> => b = p[Len(p)]
  BY <1>11 DEF Last
<1>13. b \in Nat /\ a <= b /\ \A i \in 1..Len(p) : p[i] <= b
  <2>1. CASE p = <<>>
    BY <1>4, <1>11, <2>1
  <2>2. CASE p # <<>>
    <3>1. Len(p) \in 1..Len(p) /\ Len(p) \in Nat
      BY <1>7, <2>2
    <3>2. b \in Nat /\ a <= b
      BY <1>4, <1>10, <1>12, <2>2, <3>1
    <3>3. ASSUME NEW i \in 1..Len(p) PROVE p[i] <= b
      <4>1. p[i] \in Nat /\ (i < Len(p) => p[i] < p[Len(p)])
        BY <1>7, <1>10, <3>1
      <4>2. QED
        BY <1>12, <2>2, <3>1, <3>2, <4>1
    <3>4. QED
      BY <3>2, <3>3
  <2>3. QED
    BY <2>1, <2>2
<1>14. PICK n \in Nat, m \in Nat : n = Len(l) /\ m = Len(p)
  BY <1>4, <1>7
<1>15. /\ l \o p \in Seq(DocKeys) /\ Len(l \o p) = n + m
       /\ \A i \in 1..n : (l \o p)[i] = l[i]
       /\ \A i \in 1..m : (l \o p)[n + i] = p[i]
  <2>1. p \in Seq(DocKeys)
    BY <1>4, <1>7, <1>10
  <2>2. QED
    BY <1>4, <1>14, <2>1
<1>16. PICK q : q = l \o p
  OBVIOUS
<1>17. \A i \in 1..Len(q) : \/ i \in 1..n /\ q[i] = l[i] /\ l[i] <= a
                            \/ i - n \in 1..m /\ q[i] = p[i - n] /\ p[i - n] > a
  <2>1. SUFFICES ASSUME NEW i \in 1..Len(q), i \notin 1..n
                 PROVE  i - n \in 1..m /\ q[i] = p[i - n] /\ p[i - n] > a
    BY <1>9, <1>14, <1>15, <1>16
  <2>2. i - n \in 1..m /\ i = n + (i - n)
    BY <1>14, <1>15, <1>16, <2>1
  <2>3. QED
    BY <1>10, <1>14, <1>15, <1>16, <2>2
<1>18. \A i \in 1..n : l[i] \in Nat
  <2>1. \A i \in 1..n : l[i] \in DocKeys
    BY <1>4, <1>14
  <2>2. QED
    BY <1>4, <2>1
<1>19. \A i, j \in 1..Len(q) : i < j => q[i] < q[j]
  <2>1. SUFFICES ASSUME NEW i \in 1..Len(q), NEW j \in 1..Len(q), i < j PROVE q[i] < q[j]
    OBVIOUS
  <2>2. CASE i \in 1..n /\ j \in 1..n
    BY <1>9, <1>14, <1>15, <1>16, <2>1, <2>2
  <2>3. CASE i \in 1..n /\ j \notin 1..n
    <3>1. q[i] = l[i] /\ l[i] <= a /\ l[i] \in Nat
      BY <1>9, <1>14, <1>15, <1>16, <1>18, <2>3
    <3>2. j - n \in 1..m /\ q[j] = p[j - n] /\ p[j - n] > a
      BY <1>17, <2>3
    <3>3. p[j - n] \in Nat
      BY <1>10, <1>14, <3>2
    <3>4. QED
      BY <1>4, <3>1, <3>2, <3>3
  <2>4. CASE i \notin 1..n
    <3>1. i - n \in 1..m /\ q[i] = p[i - n] /\ j \notin 1..n
      BY <1>15, <1>16, <1>17, <2>1, <2>4
    <3>2. j - n \in 1..m /\ q[j] = p[j - n]
      BY <1>17, <3>1
    <3>3. i - n < j - n
      BY <1>15, <1>16, <2>1
    <3>4. QED
      BY <1>7, <1>14, <3>1, <3>2, <3>3
  <2>5. QED
    BY <2>2, <2>3, <2>4
<1>20. \A i \in 1..Len(q) : q[i] <= b
  <2>1. SUFFICES ASSUME NEW i \in 1..Len(q) PROVE q[i] <= b
    OBVIOUS
  <2>2. CASE i \in 1..n
    BY <1>4, <1>9, <1>13, <1>14, <1>15, <1>16, <1>18, <2>2
  <2>3. CASE i \notin 1..n
    BY <1>13, <1>14, <1>17, <2>1, <2>3
  <2>4. QED
    BY <2>2, <2>3
<1>21. ASSUME NEW d \in base, d <= b PROVE \E i \in 1..Len(q) : q[i] = d
  <2>1. d \in Nat /\ d \in stored
    BY <1>4, <1>8
  <2>2. CASE d <= a
    <3>1. PICK i \in 1..n : l[i] = d
      BY <1>8, <1>14, <2>2
    <3>2. i \in 1..Len(q) /\ q[i] = d
      BY <1>15, <1>16, <3>1
    <3>3. QED
      BY <3>2
  <2>3. CASE ~(d <= a)
    <3>1. d \in S
      BY <1>2, <1>4, <2>1, <2>3 DEF S
    <3>2. p # <<>>
      BY <1>7, <3>1
    <3>3. PICK i \in 1..m : p[i] = d
      BY <1>7, <1>12, <1>14, <1>21, <3>1, <3>2
    <3>4. n + i \in 1..Len(q) /\ q[n + i] = d
      <4>1. n + i \in 1..(n + m)
        OBVIOUS
      <4>2. Len(q) = n + m
        BY <1>15, <1>16
      <4>3. q[n + i] = p[i]
        BY <1>15, <1>16
      <4>4. QED
        BY <3>3, <4>1, <4>2, <4>3
    <3>5. QED
      BY <3>4
  <2>4. QED
    BY <2>2, <2>3
<1>22. ASSUME p = <<>>, NEW d \in base PROVE d <= b
  <2>1. d \in Nat /\ d \in stored /\ d \notin S
    BY <1>4, <1>7, <1>8, <1>22
  <2>2. d <= a
    BY <1>2, <1>4, <2>1 DEF S
  <2>3. QED
    BY <1>11, <1>22, <2>2
<1>23. /\ scroll'.at = (IF p = <<>> THEN "ended" ELSE "paging") /\ scroll'.listed = q
       /\ scroll'.after = b /\ scroll'.stayed = base /\ IsScroll(scroll')
  BY <1>3, <1>11, <1>16 DEF IsScroll
<1>24. stored' \subseteq DocKeys /\ ScrollType(scroll)'
  BY <1>3, <1>4, <1>8, <1>13, <1>15, <1>16, <1>23 DEF ScrollType
<1>25. Ascends(scroll)'
  BY <1>19, <1>20, <1>23 DEF Ascends
<1>26. CoversStayed(scroll)'
  BY <1>21, <1>22, <1>23 DEF CoversStayed
<1>27. QED
  BY <1>24, <1>25, <1>26 DEF ScrollInv

\* A commit moves no cursor, and what it removes has not stayed.
LEMMA CommitKeeps ==
  ASSUME ScrollInv, NEW d \in DocKeys, CreateDoc(d) \/ RemoveDoc(d)
  PROVE  ScrollInv'
<1>1. CASE CreateDoc(d)
  <2>1. scroll' = scroll /\ stored' = stored \cup {d}
    BY <1>1 DEF CreateDoc
  <2>2. QED
    BY <2>1 DEF ScrollInv, ScrollType, Ascends, CoversStayed
<1>2. CASE RemoveDoc(d)
  <2>1. scroll' = [scroll EXCEPT !.stayed = @ \ {d}] /\ stored' = stored \ {d}
    BY <1>2 DEF RemoveDoc
  <2>2. /\ IsScroll(scroll') /\ scroll'.at = scroll.at /\ scroll'.listed = scroll.listed
        /\ scroll'.after = scroll.after /\ scroll'.stayed = scroll.stayed \ {d}
    BY <2>1 DEF ScrollInv, ScrollType, IsScroll
  <2>3. QED
    BY <2>1, <2>2 DEF ScrollInv, ScrollType, Ascends, CoversStayed
<1>3. QED
  BY <1>1, <1>2

\* query.rs, scroll: for any number of documents, any limits and any commits between two pages,
\* no document is listed twice and none is missed that stayed.
THEOREM EveryScrollComplete == ScrollSpec => []ScrollComplete
<1>1. ScrollInit => ScrollInv
  BY ScrollStarts
<1>2. ScrollInv /\ [ScrollNext]_scrollVars => ScrollInv'
  <2>1. ASSUME ScrollInv, UNCHANGED scrollVars PROVE ScrollInv'
    BY <2>1 DEF scrollVars, ScrollInv, ScrollType, Ascends, CoversStayed
  <2>2. QED
    BY <2>1, PageKeeps, CommitKeeps DEF ScrollNext
<1>3. ScrollInv => ScrollComplete
  <2>1. SUFFICES ASSUME ScrollInv PROVE ScrollComplete
    OBVIOUS
  <2>2. PICK l : l = scroll.listed
    OBVIOUS
  <2>3. /\ l \in Seq(DocKeys) /\ DOMAIN l = 1..Len(l) /\ Len(l) \in Nat
        /\ \A i \in 1..Len(l) : l[i] \in Nat
        /\ \A i, j \in 1..Len(l) : i < j => l[i] < l[j]
    <3>1. l \in Seq(DocKeys) /\ \A i, j \in 1..Len(l) : i < j => l[i] < l[j]
      BY <2>1, <2>2 DEF ScrollInv, ScrollType, Ascends
    <3>2. Len(l) \in Nat /\ DOMAIN l = 1..Len(l) /\ \A i \in 1..Len(l) : l[i] \in DocKeys
      BY <3>1
    <3>3. QED
      BY <3>1, <3>2, DocKeysAssumption
  <2>4. ASSUME NEW i \in DOMAIN l, NEW j \in DOMAIN l, l[i] = l[j] PROVE i = j
    <3>1. ~(i < j) /\ ~(j < i)
      BY <2>3, <2>4
    <3>2. QED
      BY <2>3, <3>1
  <2>5. ASSUME scroll.at = "ended", NEW d \in scroll.stayed PROVE d \in ToSet(l)
    <3>1. PICK i \in 1..Len(l) : l[i] = d
      BY <2>1, <2>2, <2>5 DEF ScrollInv, CoversStayed
    <3>2. QED
      BY <2>3, <3>1 DEF ToSet
  <2>6. QED
    BY <2>2, <2>4, <2>5 DEF ScrollComplete
<1>4. QED
  BY <1>1, <1>2, <1>3, PTL DEF ScrollSpec

----------------------------------------------------------------------------
(* What a model call answers: every row that comes back is the one its     *)
(* index says, and a call holds the vectors of the first of its texts.     *)

Tasks == {"instructed", "bare"}
Vectors == [index : Nat, text : Texts, task : Tasks, dim : Nat, score : Int]

IsCall(c) ==
    /\ c \in [at : {"sending", "answered", "failed"}, op : {"embed", "rerank"}, task : Tasks,
             via : {"direct", "signal"}, texts : Seq(Texts), done : Seq(Vectors), topK : Nat]
    /\ Len(c.texts) > 0 /\ c.topK = Len(c.texts)

\* A vector the call c keeps is that of text t, of the dimension that the backend advertises.
Own(r, t, c) == r.text = t /\ r.task = c.task /\ r.dim = backend.dim /\ r.score = Score[t]

\* A row for call c that can be cut to the dimension of the backend.
Fit(r, t, c) == r.text = t /\ r.task = c.task /\ r.dim >= backend.dim /\ r.score = Score[t]

\* What a server, or the process itself, sends for a chunk.
Sent(rows, chunk, c) ==
    /\ rows \in Seq(Vectors)
    /\ \A p \in 1..Len(rows) : /\ rows[p].index \in 1..Len(chunk)
                               /\ Fit(rows[p], chunk[rows[p].index], c)
    /\ Len(rows) = Len(chunk) => \A i \in 1..Len(chunk) : \E p \in 1..Len(rows) : rows[p].index = i

EdgeType ==
    /\ server \in [up : BOOLEAN, native : Dims]
    /\ backend.dim \in Nat /\ (backend.kind # "deterministic" => backend.dim <= server.native)
    /\ call.at # "idle" => IsCall(call) /\ backend # NotBuilt
    /\ call.at # "sending" => reply = NoReply

\* A call under way has the vectors of its first texts, and the reply in hand is to the next.
Sending ==
    call.at = "sending" =>
        /\ Len(call.done) < Len(call.texts)
        /\ \A i \in 1..Len(call.done) : Own(call.done[i], call.texts[i], call)
        /\ reply.status = "200" => Sent(reply.rows, Chunk, call)

EdgeInv == EdgeType /\ Sending /\ AnswersBelong

----------------------------------------------------------------------------
\* The next chunk: not empty, and the texts that follow those done.
LEMMA ChunkFollows ==
  ASSUME IsCall(call), Len(call.done) < Len(call.texts)
  PROVE  /\ Chunk \in Seq(Texts) /\ Len(Chunk) \in Nat \ {0} /\ DOMAIN Chunk = 1..Len(Chunk)
         /\ Len(call.done) + Len(Chunk) <= Len(call.texts)
         /\ \A i \in 1..Len(Chunk) : Chunk[i] = call.texts[Len(call.done) + i]
<1>1. PICK x, n, b : x = call.texts /\ n = Len(call.done) /\ b = Batch
  OBVIOUS
<1>2. x \in Seq(Texts) /\ n \in Nat /\ n < Len(x) /\ b \in Nat \ {0}
  BY <1>1, SizesAssumption DEF IsCall
<1>3. PICK y : y = SubSeq(x, n + 1, Len(x))
  OBVIOUS
<1>4. /\ y \in Seq(Texts) /\ Len(y) = Len(x) - n
      /\ \A i \in 1..(Len(x) - n) : y[i] = x[n + i]
  <2>1. n + 1 \in 1..(Len(x) + 1) /\ Len(x) \in (n + 1) - 1..Len(x) /\ \A i \in (n + 1)..Len(x) : x[i] \in Texts
    BY <1>2
  <2>2. QED
    BY <1>2, <1>3, <2>1, SubSeqProperties
<1>5. PICK m : m = IF b < Len(y) THEN b ELSE Len(y)
  OBVIOUS
<1>6. m \in 1..Len(y) /\ Chunk = SubSeq(y, 1, m)
  <2>1. Len(y) \in Nat \ {0}
    BY <1>2, <1>4
  <2>2. m \in 1..Len(y)
    BY <1>2, <1>5, <2>1
  <2>3. Chunk = UpTo(y, b)
    BY <1>1, <1>3 DEF Chunk
  <2>4. QED
    BY <1>5, <2>2, <2>3 DEF UpTo
<1>7. /\ SubSeq(y, 1, m) \in Seq(Texts) /\ Len(SubSeq(y, 1, m)) = m
      /\ \A i \in 1..m : SubSeq(y, 1, m)[i] = y[i]
  BY <1>4, <1>6
<1>8. \A i \in 1..m : Chunk[i] = x[n + i]
  BY <1>4, <1>6, <1>7
<1>9. QED
  BY <1>1, <1>2, <1>4, <1>6, <1>7, <1>8

----------------------------------------------------------------------------
(* The candle batch.                                                       *)

\* The row of a text in the batch, before padding.
TextRow(t) == KeepTail([k \in 1..Tokens[t] |-> <<t, k>>])

\* What is kept of a text's tokens is a tail of them.
LEMMA TailKept ==
  ASSUME NEW t \in Texts, NEW v, v = TextRow(t)
  PROVE  /\ v \in Seq(Texts \X Nat) /\ Len(v) \in 1..MaxLen /\ Len(v) <= Tokens[t]
         /\ \A k \in 1..Len(v) : v[k] = <<t, Tokens[t] - Len(v) + k>>
<1>1. PICK n, m : n = Tokens[t] /\ m = MaxLen
  OBVIOUS
<1>2. n \in Nat \ {0} /\ m \in Nat \ {0}
  BY <1>1, SizesAssumption
<1>3. PICK u : u = [k \in 1..n |-> <<t, k>>]
  OBVIOUS
<1>4. u \in Seq(Texts \X Nat) /\ Len(u) = n /\ \A k \in 1..n : u[k] = <<t, k>>
  BY <1>2, <1>3
<1>5. v = IF n > m THEN SubSeq(u, n - m + 1, n) ELSE u
  BY <1>1, <1>3, <1>4 DEF TextRow, KeepTail
<1> DEFINE Goal == /\ v \in Seq(Texts \X Nat) /\ Len(v) \in 1..m /\ Len(v) <= n
                   /\ \A k \in 1..Len(v) : v[k] = <<t, n - Len(v) + k>>
<1>6. ASSUME n > m PROVE Goal
  <2>1. /\ v \in Seq(Texts \X Nat) /\ Len(v) = m
        /\ \A k \in 1..m : v[k] = u[n - m + k]
    <3>1. PICK a \in Nat : a = n - m + 1
      BY <1>2, <1>6
    <3>2. a \in 1..n /\ v = SubSeq(u, a, n) /\ n - a + 1 = m
      BY <1>2, <1>5, <1>6, <3>1
    <3>3. /\ SubSeq(u, a, n) \in Seq(Texts \X Nat) /\ Len(SubSeq(u, a, n)) = n - a + 1
          /\ \A k \in 1..(n - a + 1) : SubSeq(u, a, n)[k] = u[a + k - 1]
      <4>1. a \in 1..(n + 1) /\ n \in (a - 1)..n /\ \A k \in a..n : k \in 1..n
        BY <1>2, <3>2
      <4>2. \A k \in a..n : u[k] \in Texts \X Nat
        <5>1. \A k \in 1..n : u[k] \in Texts \X Nat
          BY <1>4, ElementOfSeq
        <5>2. QED
          BY <4>1, <5>1
      <4>3. a \in 1..(Len(u) + 1) /\ n \in (a - 1)..Len(u)
        BY <1>4, <4>1
      <4>4. QED
        BY <1>4, <4>2, <4>3, SubSeqProperties
    <3>4. \A k \in 1..m : a + k - 1 = n - m + k
      BY <1>2, <3>1
    <3>5. QED
      BY <3>2, <3>3, <3>4
  <2>2. ASSUME NEW k \in 1..m PROVE n - m + k \in 1..n
    BY <1>2, <1>6
  <2>3. \A k \in 1..m : v[k] = <<t, n - m + k>>
    BY <1>4, <2>1, <2>2
  <2>4. Len(v) \in 1..m /\ Len(v) <= n /\ \A k \in 1..Len(v) : v[k] = <<t, n - Len(v) + k>>
    BY <1>2, <1>6, <2>1, <2>3
  <2>5. QED
    BY <2>1, <2>4
<1>7. ASSUME ~(n > m) PROVE Goal
  <2>1. v = u /\ Len(v) = n /\ n <= m
    BY <1>2, <1>4, <1>5, <1>7
  <2>2. \A k \in 1..n : n - n + k = k
    BY <1>2
  <2>3. \A k \in 1..n : v[k] = <<t, n - n + k>>
    BY <1>4, <2>1, <2>2
  <2>4. Len(v) \in 1..m /\ Len(v) <= n /\ \A k \in 1..Len(v) : v[k] = <<t, n - Len(v) + k>>
    BY <1>2, <2>1, <2>3
  <2>5. QED
    BY <1>4, <2>1, <2>4
<1>8. QED
  BY <1>1, <1>6, <1>7

\* A batch has a longest row.
LEMMA LongestRow ==
  ASSUME NEW n \in Nat \ {0}, NEW m \in Nat, NEW len \in [1..n -> 1..m]
  PROVE  \E l \in 1..m : (\A i \in 1..n : len[i] <= l) /\ (\E i \in 1..n : len[i] = l)
<1> DEFINE U == {l \in 1..m : \A i \in 1..n : len[i] <= l}
<1>1. 1 \in 1..n /\ len[1] \in 1..m
  OBVIOUS
<1>2. m \in U
  BY <1>1
<1>3. U \subseteq Nat
  OBVIOUS
<1>4. PICK l \in U : \A k \in U : l <= k
  BY <1>2, <1>3, LeastNumber
<1>5. ASSUME \A i \in 1..n : len[i] # l PROVE FALSE
  <2>1. \A i \in 1..n : len[i] \in Nat /\ len[i] <= l /\ len[i] # l
    BY <1>5
  <2>2. l \in Nat /\ \A i \in 1..n : len[i] <= l - 1
    BY <2>1
  <2>3. l - 1 \in 1..m
    BY <1>1, <2>2
  <2>4. l - 1 \in U
    BY <2>2, <2>3
  <2>5. QED
    BY <1>4, <2>2, <2>4
<1>6. QED
  BY <1>5

\* The last column of a padded row is the embedding of its text.
LEMMA PooledOwn ==
  ASSUME NEW t \in Texts, NEW v, v = TextRow(t), NEW m \in Nat
  PROVE  Pooled([k \in 1..m |-> Pad] \o v) = t
<1>1. PICK z, n : z = Tokens[t] /\ n = Len(v)
  OBVIOUS
<1>2. /\ v \in Seq(Texts \X Nat) /\ n \in Nat \ {0} /\ z \in Nat \ {0} /\ n <= z
      /\ \A k \in 1..n : v[k] = <<t, z - n + k>>
  <2>1. /\ v \in Seq(Texts \X Nat) /\ Len(v) \in 1..MaxLen /\ Len(v) <= Tokens[t]
        /\ \A k \in 1..Len(v) : v[k] = <<t, Tokens[t] - Len(v) + k>>
    BY TailKept
  <2>2. n \in Nat \ {0} /\ z \in Nat \ {0}
    BY <1>1, <2>1, SizesAssumption
  <2>3. QED
    BY <1>1, <2>1, <2>2
<1>3. PICK T : T = (Texts \X Nat) \cup {Pad}
  OBVIOUS
<1>4. PICK u : u = [k \in 1..m |-> Pad]
  OBVIOUS
<1>5. u \in Seq(T) /\ Len(u) = m /\ \A k \in 1..m : u[k] = Pad
  BY <1>3, <1>4
<1>6. v \in Seq(T)
  BY <1>2, <1>3
<1>7. PICK w : w = u \o v
  OBVIOUS
<1>8. /\ w \in Seq(T) /\ Len(w) = m + n
      /\ \A k \in 1..m : w[k] = Pad
      /\ \A k \in 1..n : w[m + k] = v[k]
  <2>1. w \in Seq(T) /\ Len(w) = Len(u) + Len(v)
    BY <1>5, <1>6, <1>7, ConcatProperties
  <2>2. \A k \in 1..(Len(u) + Len(v)) : w[k] = IF k <= Len(u) THEN u[k] ELSE v[k - Len(u)]
    BY <1>5, <1>6, <1>7, ConcatProperties
  <2>3. ASSUME NEW k \in 1..m PROVE w[k] = Pad
    <3>1. k \in 1..(m + n) /\ k <= m
      BY <1>2
    <3>2. QED
      BY <1>1, <1>5, <2>2, <3>1
  <2>4. ASSUME NEW k \in 1..n PROVE w[m + k] = v[k]
    <3>1. m + k \in 1..(m + n) /\ ~(m + k <= m) /\ (m + k) - m = k
      BY <1>2
    <3>2. QED
      BY <1>1, <1>5, <2>2, <3>1
  <2>5. QED
    BY <1>1, <1>5, <2>1, <2>3, <2>4
<1>9. \A j \in 1..(m + n) : w[j] = Pad \/ \E k \in 1..n : j = m + k /\ w[j] = <<t, z - n + k>>
  <2>1. SUFFICES ASSUME NEW j \in 1..(m + n), j \notin 1..m
                 PROVE  \E k \in 1..n : j = m + k /\ w[j] = <<t, z - n + k>>
    BY <1>8
  <2>2. PICK k \in 1..n : k = j - m
    BY <1>2, <2>1
  <2>3. j = m + k
    BY <1>2, <2>1, <2>2
  <2>4. w[j] = <<t, z - n + k>>
    BY <1>2, <1>8, <2>3
  <2>5. QED
    BY <2>3, <2>4
<1>10. Last(w) = <<t, z>>
  <2>1. n \in 1..n /\ z - n + n = z
    BY <1>2
  <2>2. w[m + n] = <<t, z>>
    BY <1>2, <1>8, <2>1
  <2>3. QED
    BY <1>8, <2>2 DEF Last
<1>11. <<t, z>> # Pad
  <2>1. <<t, z>>[2] = z /\ Pad[2] = 0
    BY DEF Pad
  <2>2. QED
    BY <1>2, <2>1
<1>12. \A j \in left_pad_mask(w, Len(w)) : w[j] # Pad /\ j \in 1..(m + n)
  BY <1>8, <1>10, <1>11 DEF left_pad_mask, Last
<1>13. ASSUME NEW j \in left_pad_mask(w, Len(w)) PROVE w[j][1] = t
  <2>1. PICK k \in 1..n : w[j] = <<t, z - n + k>>
    BY <1>9, <1>12
  <2>2. QED
    BY <2>1
<1>14. \A i \in DOMAIN w : left_pad_mask(w, i) # {}
  <2>1. SUFFICES ASSUME NEW i \in DOMAIN w PROVE i \in left_pad_mask(w, i)
    OBVIOUS
  <2>2. i \in 1..i
    BY <1>8
  <2>3. QED
    BY <2>2 DEF left_pad_mask
<1>15. <<t, z>>[1] = t /\ <<t, z>>[2] = z
  OBVIOUS
<1>16. \A tok \in {w[j] : j \in left_pad_mask(w, Len(w))} : tok[1] = t
  BY <1>13
<1>17. Pooled(w) = t
  BY <1>1, <1>10, <1>11, <1>14, <1>15, <1>16 DEF Pooled
<1>18. QED
  BY <1>4, <1>7, <1>17

\* The rows of a batch, in order, have the texts' own embeddings.
LEMMA BatchOwn ==
  ASSUME NEW chunk \in Seq(Texts), Len(chunk) \in Nat \ {0}, NEW i \in 1..Len(chunk)
  PROVE  Pooled(Padded([j \in DOMAIN chunk |-> KeepTail([k \in 1..Tokens[chunk[j]] |-> <<chunk[j], k>>])])[i])
             = chunk[i]
<1>1. PICK n : n = Len(chunk)
  OBVIOUS
<1>2. n \in Nat \ {0} /\ DOMAIN chunk = 1..n /\ i \in 1..n /\ \A j \in 1..n : chunk[j] \in Texts
  BY <1>1
<1>3. PICK rows : rows = [j \in DOMAIN chunk |-> TextRow(chunk[j])]
  OBVIOUS
<1>4. DOMAIN rows = 1..n /\ \A j \in 1..n : rows[j] = TextRow(chunk[j])
  BY <1>2, <1>3
<1>5. \A j \in 1..n : Len(rows[j]) \in 1..MaxLen
  BY <1>2, <1>4, TailKept
<1>6. PICK len : len = [j \in 1..n |-> Len(rows[j])]
  OBVIOUS
<1>7. len \in [1..n -> 1..MaxLen] /\ \A j \in 1..n : len[j] = Len(rows[j])
  BY <1>5, <1>6
<1>8. \E l \in 1..MaxLen : (\A j \in 1..n : len[j] <= l) /\ (\E j \in 1..n : len[j] = l)
  <2>1. MaxLen \in Nat
    BY SizesAssumption
  <2>2. n \in Nat \ {0} /\ len \in [1..n -> 1..MaxLen]
    BY <1>2, <1>7
  <2>3. QED
    BY <2>1, <2>2, LongestRow, Zenon
<1> DEFINE Longest(l) == /\ \A j \in DOMAIN rows : Len(rows[j]) <= l
                         /\ \E j \in DOMAIN rows : Len(rows[j]) = l
<1>9. \E l \in 1..MaxLen : Longest(l)
  <2>1. PICK l \in 1..MaxLen : (\A j \in 1..n : len[j] <= l) /\ (\E j \in 1..n : len[j] = l)
    BY <1>8
  <2>2. \A j \in DOMAIN rows : Len(rows[j]) <= l
    BY <1>4, <1>7, <2>1
  <2>3. \E j \in DOMAIN rows : Len(rows[j]) = l
    BY <1>4, <1>7, <2>1
  <2>4. QED
    BY <2>2, <2>3
<1>10. PICK l : l = CHOOSE k \in 1..MaxLen : Longest(k)
  OBVIOUS
<1>11. l \in 1..MaxLen /\ Longest(l)
  BY <1>9, <1>10
<1>12. Padded(rows) = [j \in DOMAIN rows |-> [k \in 1..(l - Len(rows[j])) |-> Pad] \o rows[j]]
  BY <1>10 DEF Padded
<1>13. PICK m : m = l - Len(rows[i])
  OBVIOUS
<1>14. m \in Nat
  <2>1. Len(rows[i]) <= l
    BY <1>2, <1>4, <1>11
  <2>2. QED
    BY <1>2, <1>5, <1>11, <1>13, <2>1, SizesAssumption
<1>15. Padded(rows)[i] = [k \in 1..m |-> Pad] \o rows[i]
  BY <1>2, <1>4, <1>12, <1>13
<1>16. Pooled(Padded(rows)[i]) = chunk[i]
  BY <1>2, <1>4, <1>14, <1>15, PooledOwn
<1>17. rows = [j \in DOMAIN chunk |-> KeepTail([k \in 1..Tokens[chunk[j]] |-> <<chunk[j], k>>])]
  BY <1>3 DEF TextRow
<1>18. QED
  BY <1>16, <1>17

----------------------------------------------------------------------------
(* What is sent for a chunk.                                               *)

\* A row of the backend's dimension, or of a larger one, says which text it is of.
LEMMA RowFits ==
  ASSUME EdgeType, IsCall(call), NEW i \in Nat, NEW t \in Texts, NEW d \in Nat, d >= backend.dim
  PROVE  /\ Row(i, t, d) \in Vectors /\ Row(i, t, d).index = i /\ Fit(Row(i, t, d), t, call)
         /\ [Row(i, t, d) EXCEPT !.text = t] = Row(i, t, d)
<1>1. call.task \in Tasks /\ backend.dim \in Nat
  BY DEF IsCall, EdgeType
<1>2. Score[t] \in Int
  BY SizesAssumption
<1>3. PICK a, c : a = call.task /\ c = Score[t]
  OBVIOUS
<1>4. Row(i, t, d) = [index |-> i, text |-> t, task |-> a, dim |-> d, score |-> c]
  BY <1>3 DEF Row
<1>5. /\ Row(i, t, d).index = i /\ Row(i, t, d).text = t /\ Row(i, t, d).task = a
      /\ Row(i, t, d).dim = d /\ Row(i, t, d).score = c
  BY <1>4
<1>6. Row(i, t, d) \in Vectors
  BY <1>1, <1>2, <1>3, <1>4 DEF Vectors
<1>7. [Row(i, t, d) EXCEPT !.text = t] = Row(i, t, d)
  BY <1>4
<1>8. QED
  BY <1>3, <1>5, <1>6, <1>7 DEF Fit

\* The deterministic embedder and the candle batch.
LEMMA LocalSent ==
  ASSUME EdgeType, IsCall(call), NEW chunk \in Seq(Texts), Len(chunk) \in Nat \ {0}
  PROVE  Sent(embed_text(chunk), chunk, call) /\ Sent(forward_chunk(chunk), chunk, call)
<1>1. PICK n, d : n = Len(chunk) /\ d = backend.dim
  OBVIOUS
<1>2. /\ n \in Nat \ {0} /\ DOMAIN chunk = 1..n /\ d \in Nat /\ d >= backend.dim
      /\ \A i \in 1..n : i \in Nat /\ chunk[i] \in Texts
  BY <1>1 DEF EdgeType
<1>3. PICK rows : rows = embed_text(chunk)
  OBVIOUS
<1>4. rows = [i \in 1..n |-> Row(i, chunk[i], d)]
  BY <1>1, <1>2, <1>3 DEF embed_text
<1>5. \A i \in 1..n : /\ Row(i, chunk[i], d) \in Vectors /\ Row(i, chunk[i], d).index = i
                      /\ Fit(Row(i, chunk[i], d), chunk[i], call)
                      /\ [Row(i, chunk[i], d) EXCEPT !.text = chunk[i]] = Row(i, chunk[i], d)
  BY <1>2, RowFits
<1>6. forward_chunk(chunk) = rows
  <2>1. PICK ids : ids = Padded([j \in DOMAIN chunk |-> KeepTail([k \in 1..Tokens[chunk[j]] |-> <<chunk[j], k>>])])
    OBVIOUS
  <2>2. \A i \in 1..n : Pooled(ids[i]) = chunk[i]
    BY <1>1, <2>1, BatchOwn
  <2>3. forward_chunk(chunk) = [i \in 1..n |-> [Row(i, chunk[i], d) EXCEPT !.text = Pooled(ids[i])]]
    BY <1>1, <1>2, <2>1 DEF forward_chunk
  <2>4. \A i \in 1..n : [Row(i, chunk[i], d) EXCEPT !.text = Pooled(ids[i])] = Row(i, chunk[i], d)
    BY <1>5, <2>2
  <2>5. QED
    BY <1>4, <2>3, <2>4
<1>7. rows \in [1..n -> Vectors] /\ \A i \in 1..n : rows[i] = Row(i, chunk[i], d)
  BY <1>4, <1>5
<1>8. rows \in Seq(Vectors) /\ Len(rows) = n
  BY <1>2, <1>7
<1>9. \A i \in 1..n : rows[i].index = i /\ Fit(rows[i], chunk[i], call)
  BY <1>5, <1>7
<1>10. Sent(rows, chunk, call)
  BY <1>1, <1>8, <1>9 DEF Sent
<1>11. QED
  BY <1>3, <1>6, <1>10

\* The answers of a server.
LEMMA AnswerSent ==
  ASSUME EdgeType, IsCall(call), NEW chunk \in Seq(Texts), Len(chunk) \in Nat \ {0},
         backend.kind # "deterministic", NEW s \in Answers(chunk)
  PROVE  Sent(s, chunk, call)
<1> DEFINE R == {Row(i, chunk[i], server.native) : i \in DOMAIN chunk}
           W == {x \in [DOMAIN chunk -> R] : \A r \in R : \E p \in DOMAIN x : x[p] = r}
<1>1. PICK n : n = Len(chunk)
  OBVIOUS
<1>2. n \in Nat \ {0} /\ DOMAIN chunk = 1..n
  BY <1>1
<1>3. s \in W \/ (\E x \in W : s = Tail(x)) \/ (\E x \in W, r \in R : s = Append(x, r))
  <2>1. Answers(chunk) = W \cup {Tail(x) : x \in W} \cup {Append(x, r) : x \in W, r \in R}
    BY DEF Answers
  <2> HIDE DEF W, R
  <2>2. QED
    BY <2>1
<1>4. /\ \A i \in 1..n : i \in Nat /\ chunk[i] \in Texts
      /\ server.native \in Nat /\ server.native >= backend.dim
  <2>1. server.native \in Dims /\ backend.dim \in Nat /\ backend.dim <= server.native
    BY DEF EdgeType
  <2>2. server.native \in Nat
    BY <2>1, SizesAssumption
  <2>3. QED
    BY <1>1, <2>1, <2>2
<1>5. \A r \in R : r \in Vectors /\ r.index \in 1..n /\ Fit(r, chunk[r.index], call)
  <2>1. ASSUME NEW i \in 1..n PROVE /\ Row(i, chunk[i], server.native) \in Vectors /\ Row(i, chunk[i], server.native).index = i
                                    /\ Fit(Row(i, chunk[i], server.native), chunk[i], call)
    BY <1>4, RowFits
  <2>2. QED
    BY <1>2, <2>1
<1>6. \A i \in 1..n : \E r \in R : r.index = i
  <2>1. ASSUME NEW i \in 1..n PROVE Row(i, chunk[i], server.native) \in R /\ Row(i, chunk[i], server.native).index = i
    BY <1>2, <1>4, RowFits
  <2>2. QED
    BY <2>1
<1>7. \A x \in W : x \in [1..n -> R] /\ \A r \in R : \E p \in 1..n : x[p] = r
  BY <1>2
<1> HIDE DEF R, W
<1>8. ASSUME NEW x \in W PROVE /\ x \in Seq(R) /\ Len(x) = n
                               /\ \A i \in 1..n : \E p \in 1..n : x[p].index = i
  <2>1. x \in [1..n -> R]
    BY <1>7
  <2>2. x \in Seq(R) /\ Len(x) = n
    BY <1>2, <2>1
  <2>3. ASSUME NEW i \in 1..n PROVE \E p \in 1..n : x[p].index = i
    <3>1. PICK r \in R : r.index = i
      BY <1>6
    <3>2. PICK p \in 1..n : x[p] = r
      BY <1>7
    <3>3. QED
      BY <3>1, <3>2
  <2>4. QED
    BY <2>2, <2>3
<1>9. ASSUME NEW x \in Seq(R) PROVE x \in Seq(Vectors) /\ \A p \in 1..Len(x) : x[p] \in R
  <2>1. R \subseteq Vectors
    BY <1>5
  <2>2. \A p \in 1..Len(x) : x[p] \in R
    OBVIOUS
  <2>3. QED
    BY <2>1, <2>2
<1>10. s \in Seq(R) /\ (Len(s) = n => \A i \in 1..n : \E p \in 1..n : s[p].index = i)
  <2>1. CASE s \in W
    BY <1>8, <2>1
  <2>2. CASE \E x \in W : s = Tail(x)
    <3>1. PICK x \in W : s = Tail(x)
      BY <2>2
    <3>2. x \in Seq(R) /\ Len(x) = n
      BY <1>8
    <3>3. s \in Seq(R) /\ Len(s) = n - 1
      BY <1>2, <3>1, <3>2
    <3>4. QED
      BY <1>2, <3>3
  <2>3. CASE \E x \in W, r \in R : s = Append(x, r)
    <3>1. PICK x \in W, r \in R : s = Append(x, r)
      BY <2>3
    <3>2. x \in Seq(R) /\ Len(x) = n
      BY <1>8
    <3>3. s \in Seq(R) /\ Len(s) = n + 1
      BY <1>2, <3>1, <3>2
    <3>4. QED
      BY <1>2, <3>3
  <2>4. QED
    BY <1>3, <2>1, <2>2, <2>3
<1>11. s \in Seq(Vectors) /\ \A p \in 1..Len(s) : s[p] \in R
  BY <1>9, <1>10
<1>12. QED
  BY <1>1, <1>5, <1>10, <1>11 DEF Sent

----------------------------------------------------------------------------
(* What is made of it.                                                     *)

\* A set of places that is not empty has a last one.
LEMMA LastPlace ==
  ASSUME NEW n \in Nat, NEW S \in SUBSET (1..n), S # {}
  PROVE  \E p \in S : \A q \in S : q <= p
<1> DEFINE D == {k \in Nat : \E p \in S : k = n - p}
<1>1. \A p \in S : p \in Nat /\ n - p \in Nat /\ n - p \in D
  OBVIOUS
<1>2. D \subseteq Nat /\ D # {}
  BY <1>1
<1>3. PICK k \in D : \A j \in D : k <= j
  BY <1>2, LeastNumber
<1>4. PICK p \in S : k = n - p
  OBVIOUS
<1>5. \A q \in S : k <= n - q
  BY <1>1, <1>3
<1> HIDE DEF D
<1>6. ASSUME NEW q \in S PROVE q <= p
  BY <1>1, <1>4, <1>5
<1>7. QED
  BY <1>6

\* parse_embeddings sorts the rows back.
LEMMA EmbeddingsParsed ==
  ASSUME NEW chunk \in Seq(Texts), NEW rs, Sent(rs, chunk, call),
         NEW r, r = parse_embeddings(rs, chunk), r # <<>>
  PROVE  /\ r \in Seq(Vectors) /\ Len(r) = Len(chunk)
         /\ \A i \in 1..Len(chunk) : Fit(r[i], chunk[i], call)
<1>1. PICK n : n = Len(chunk)
  OBVIOUS
<1>2. n \in Nat /\ Len(rs) = n /\ rs \in Seq(Vectors) /\ DOMAIN rs = 1..n
  BY <1>1 DEF parse_embeddings, Sent
<1>3. PICK key : key = [p \in DOMAIN rs |-> rs[p].index]
  OBVIOUS
<1>4. /\ \A p \in 1..n : rs[p] \in Vectors /\ rs[p].index \in 1..n /\ Fit(rs[p], chunk[rs[p].index], call)
      /\ \A i \in 1..n : \E p \in 1..n : rs[p].index = i
  <2>1. rs \in Seq(Vectors) /\ Len(rs) = n
    BY <1>2
  <2>2. \A p \in 1..n : rs[p] \in Vectors
    BY <2>1, ElementOfSeq
  <2>3. /\ \A p \in 1..n : rs[p].index \in 1..n /\ Fit(rs[p], chunk[rs[p].index], call)
        /\ \A i \in 1..n : \E p \in 1..n : rs[p].index = i
    BY <1>1, <2>1 DEF Sent
  <2>4. QED
    BY <2>2, <2>3
<1>5. key \in [1..n -> 1..n] /\ \A p \in 1..n : key[p] = rs[p].index
  BY <1>2, <1>3, <1>4
<1>6. \A i \in 1..n : \E p \in 1..n : key[p] = i
  BY <1>4, <1>5
<1>7. \A i \in 1..n : PlaceOf(key, i) \in 1..n /\ key[PlaceOf(key, i)] = i
  BY <1>2, <1>5, <1>6, SortsBack
<1>8. r = [i \in 1..n |-> rs[PlaceOf(key, i)]]
  BY <1>1, <1>2, <1>3 DEF parse_embeddings, SortedBy
<1>9. ASSUME NEW i \in 1..n PROVE r[i] \in Vectors /\ Fit(r[i], chunk[i], call)
  <2>1. PICK p \in 1..n : p = PlaceOf(key, i)
    BY <1>7
  <2>2. r[i] = rs[p] /\ rs[p].index = i
    BY <1>5, <1>7, <1>8, <2>1
  <2>3. QED
    BY <1>4, <2>2
<1>10. r \in [1..n -> Vectors]
  BY <1>8, <1>9
<1>11. QED
  BY <1>1, <1>2, <1>9, <1>10

\* parse_rerank writes the scores back.
LEMMA RerankParsed ==
  ASSUME NEW chunk \in Seq(Texts), NEW rs, Sent(rs, chunk, call),
         NEW r, r = parse_rerank(rs, chunk), r # <<>>
  PROVE  /\ r \in Seq(Vectors) /\ Len(r) = Len(chunk)
         /\ \A i \in 1..Len(chunk) : Fit(r[i], chunk[i], call)
<1> DEFINE of(i) == {p \in DOMAIN rs : rs[p].index = i}
           last(i) == CHOOSE p \in of(i) : \A q \in of(i) : q <= p
<1>1. PICK n, m : n = Len(chunk) /\ m = Len(rs)
  OBVIOUS
<1>2. n \in Nat /\ m \in Nat /\ rs \in Seq(Vectors) /\ DOMAIN rs = 1..m /\ DOMAIN chunk = 1..n
  BY <1>1 DEF Sent
<1>3. \A p \in 1..m : rs[p] \in Vectors /\ Fit(rs[p], chunk[rs[p].index], call)
  BY <1>1, <1>2 DEF Sent
<1>4. /\ \A i \in DOMAIN chunk : of(i) # {}
      /\ r = [i \in DOMAIN chunk |-> [rs[last(i)] EXCEPT !.text = chunk[i]]]
  BY DEF parse_rerank
<1>5. ASSUME NEW i \in 1..n PROVE last(i) \in 1..m /\ rs[last(i)].index = i
  <2>1. PICK S : S = of(i)
    OBVIOUS
  <2>2. S \in SUBSET (1..m) /\ S # {}
    BY <1>2, <1>4, <2>1
  <2>3. \E p \in S : \A q \in S : q <= p
    BY <1>2, <2>2, LastPlace
  <2>4. last(i) = CHOOSE p \in S : \A q \in S : q <= p
    BY <2>1
  <2>5. last(i) \in S
    BY <2>3, <2>4
  <2>6. QED
    BY <1>2, <2>1, <2>5
<1> HIDE DEF last, of
<1>6. ASSUME NEW i \in 1..n PROVE r[i] \in Vectors /\ Fit(r[i], chunk[i], call)
  <2>1. PICK p \in 1..m : p = last(i)
    BY <1>5
  <2>2. rs[p] \in Vectors /\ Fit(rs[p], chunk[i], call) /\ r[i] = [rs[p] EXCEPT !.text = chunk[i]]
    BY <1>2, <1>3, <1>4, <1>5, <2>1
  <2>3. PICK x : x = rs[p]
    OBVIOUS
  <2>4. x \in Vectors /\ x.text = chunk[i] /\ r[i] = [x EXCEPT !.text = chunk[i]]
    BY <2>2, <2>3 DEF Fit
  <2>5. r[i] = x
    BY <2>4 DEF Vectors
  <2>6. QED
    BY <2>2, <2>3, <2>5
<1>7. r \in [1..n -> Vectors]
  BY <1>2, <1>4, <1>6
<1>8. QED
  BY <1>1, <1>2, <1>6, <1>7

\* A row that fits is cut to the backend's dimension.
LEMMA CutOwn ==
  ASSUME EdgeType, NEW r \in Vectors, NEW t, Fit(r, t, call)
  PROVE  Cut(r) \in Vectors /\ Own(Cut(r), t, call)
<1>1. PICK d : d = backend.dim
  OBVIOUS
<1>2. d \in Nat /\ r.dim \in Nat /\ r.dim >= d
  BY <1>1 DEF EdgeType, Fit, Vectors
<1>3. Cut(r) = [r EXCEPT !.dim = d]
  BY <1>1, <1>2 DEF Cut
<1>4. /\ Cut(r) \in Vectors /\ Cut(r).text = r.text /\ Cut(r).task = r.task /\ Cut(r).dim = d
      /\ Cut(r).score = r.score
  BY <1>2, <1>3 DEF Vectors
<1>5. QED
  BY <1>1, <1>4 DEF Own, Fit

\* The n rows r are those of the texts x, each with its own score, best first.
BestFirst(r, x, n) ==
    /\ r \in Seq(Vectors) /\ Len(r) = n
    /\ \A i \in 1..n : r[i].score = Score[r[i].text]
    /\ \A i, j \in 1..n : i < j => r[i].score >= r[j].score
    /\ \A t \in Texts : Cardinality({i \in 1..n : x[i] = t}) = Cardinality({i \in 1..n : r[i].text = t})

\* Ranking keeps every row once, best first.
LEMMA RankedBelongs ==
  ASSUME NEW n \in Nat, NEW x \in Seq(Texts), Len(x) = n, NEW d \in Seq(Vectors), Len(d) = n,
         \A i \in 1..n : d[i].text = x[i] /\ d[i].score = Score[x[i]],
         NEW r, r = Ranked(d)
  PROVE  BestFirst(r, x, n)
<1>1. PICK key : key = [p \in DOMAIN d |-> -d[p].score]
  OBVIOUS
<1>2. DOMAIN d = 1..n /\ \A p \in 1..n : d[p] \in Vectors /\ d[p].score \in Int
  <2>1. DOMAIN d = 1..n /\ \A p \in 1..n : d[p] \in Vectors
    OBVIOUS
  <2>2. \A y \in Vectors : y.score \in Int
    BY DEF Vectors
  <2>3. QED
    BY <2>1, <2>2
<1>3. key \in [1..n -> Int] /\ \A p \in 1..n : key[p] = -d[p].score
  BY <1>1, <1>2
<1>4. /\ \A i \in 1..n : PlaceOf(key, i) \in 1..n
      /\ \A i, j \in 1..n : PlaceOf(key, i) = PlaceOf(key, j) => i = j
      /\ \A p \in 1..n : \E i \in 1..n : PlaceOf(key, i) = p
      /\ \A i, j \in 1..n : i < j => key[PlaceOf(key, i)] <= key[PlaceOf(key, j)]
  BY <1>3, SortsStably
<1>5. r = [i \in 1..n |-> d[PlaceOf(key, i)]]
  BY <1>1, <1>2 DEF Ranked, SortedBy
<1>6. PICK f : f = [i \in 1..n |-> PlaceOf(key, i)]
  OBVIOUS
<1>7. f \in [1..n -> 1..n] /\ \A i \in 1..n : f[i] = PlaceOf(key, i)
  BY <1>4, <1>6
<1>8. \A i \in 1..n : f[i] \in 1..n /\ r[i] = d[f[i]] /\ r[i] \in Vectors
  <2>1. SUFFICES ASSUME NEW i \in 1..n PROVE f[i] \in 1..n /\ r[i] = d[f[i]] /\ r[i] \in Vectors
    OBVIOUS
  <2>2. f[i] \in 1..n /\ f[i] = PlaceOf(key, i)
    BY <1>7
  <2>3. r[i] = d[f[i]]
    BY <1>5, <2>2
  <2>4. QED
    BY <1>2, <2>2, <2>3
<1>9. r \in Seq(Vectors) /\ Len(r) = n
  <2>1. r \in [1..n -> Vectors]
    BY <1>5, <1>8
  <2>2. QED
    BY <2>1
<1>10. \A i \in 1..n : r[i].score = Score[r[i].text] /\ r[i].text = x[f[i]]
  BY <1>8
<1>11. ASSUME NEW i \in 1..n, NEW j \in 1..n, i < j PROVE r[i].score >= r[j].score
  <2>1. PICK p \in 1..n, q \in 1..n : p = f[i] /\ q = f[j]
    BY <1>7
  <2>2. key[PlaceOf(key, i)] <= key[PlaceOf(key, j)]
    BY <1>4, <1>11
  <2>3. key[p] <= key[q]
    BY <1>7, <2>1, <2>2
  <2>4. d[p].score \in Int /\ d[q].score \in Int /\ -d[p].score <= -d[q].score
    BY <1>2, <1>3, <2>3
  <2>5. d[p].score >= d[q].score
    BY <2>4
  <2>6. QED
    BY <1>8, <2>1, <2>5
<1>12. ASSUME NEW t \in Texts
       PROVE  Cardinality({i \in 1..n : x[i] = t}) = Cardinality({i \in 1..n : r[i].text = t})
  <2>1. PICK A, B : A = {i \in 1..n : x[i] = t} /\ B = {i \in 1..n : r[i].text = t}
    OBVIOUS
  <2>2. IsFiniteSet(B)
    <3>1. IsFiniteSet(1..n) /\ B \in SUBSET (1..n)
      BY <2>1, FS_Interval
    <3>2. QED
      BY <3>1, FS_Subset
  <2>3. PICK g : g = [i \in B |-> f[i]]
    OBVIOUS
  <2>4. g \in [B -> A] /\ \A i \in B : i \in 1..n /\ g[i] = f[i]
    BY <1>7, <1>10, <2>1, <2>3
  <2>5. \A i, j \in B : g[i] = g[j] => i = j
    BY <1>4, <1>7, <2>4
  <2>6. ASSUME NEW p \in A PROVE \E i \in B : g[i] = p
    <3>1. p \in 1..n /\ x[p] = t
      BY <2>1
    <3>2. PICK i \in 1..n : PlaceOf(key, i) = p
      BY <1>4, <3>1
    <3>3. f[i] = p /\ r[i].text = t
      BY <1>7, <1>10, <3>1, <3>2
    <3>4. QED
      BY <2>1, <2>4, <3>3
  <2>7. g \in Bijection(B, A)
    BY <2>4, <2>5, <2>6 DEF Bijection, Injection, Surjection, IsInjective
  <2>8. ExistsBijection(B, A)
    BY <2>7 DEF ExistsBijection
  <2>9. Cardinality(A) = Cardinality(B)
    BY <2>2, <2>8, FS_Bijection
  <2>10. QED
    BY <2>1, <2>9
<1>13. QED
  BY <1>9, <1>10, <1>11, <1>12 DEF BestFirst

----------------------------------------------------------------------------
(* The steps.                                                              *)

\* Nothing is built and nothing called at the start.
LEMMA EdgeStarts == EdgeInit => EdgeInv
<1>1. ASSUME EdgeInit PROVE EdgeInv
  <2>1. call.at = "idle" /\ reply = NoReply /\ backend.dim = 0 /\ server \in [up : BOOLEAN, native : Dims]
    BY <1>1 DEF EdgeInit, NoCall, NotBuilt
  <2>2. server.native \in Nat
    BY <2>1, SizesAssumption
  <2>3. QED
    BY <2>1, <2>2 DEF EdgeInv, EdgeType, Sending, AnswersBelong
<1>2. QED
  BY <1>1

\* A backend is built before any call.
LEMMA BuildKeeps ==
  ASSUME EdgeInv, NEW name \in Names, NEW weights \in BOOLEAN, NEW d \in Dims,
         build_embedder(name, weights, d)
  PROVE  EdgeInv'
<1>1. call.at = "idle" /\ server \in [up : BOOLEAN, native : Dims] /\ reply = NoReply
  BY DEF EdgeInv, EdgeType, build_embedder
<1>2. call' = call /\ server' = server /\ reply' = reply
  BY DEF build_embedder
<1>3. backend'.dim = d /\ (backend'.kind # "deterministic" => d \in 1..server.native)
  BY DEF build_embedder
<1>4. d \in Nat /\ server.native \in Nat
  BY <1>1, SizesAssumption
<1>5. backend'.kind # "deterministic" => backend'.dim <= server'.native
  BY <1>2, <1>3, <1>4
<1>6. QED
  BY <1>1, <1>2, <1>3, <1>4, <1>5 DEF EdgeInv, EdgeType, Sending, AnswersBelong

\* A call starts with nothing done.
LEMMA BeginKeeps ==
  ASSUME EdgeInv, NEW op \in {"embed", "rerank"}, NEW mode, NEW texts \in Lists,
         NEW via \in {"direct", "signal"}, Begin(op, mode, texts, via)
  PROVE  EdgeInv'
<1>1. backend # NotBuilt /\ call.at = "idle" /\ server' = server /\ backend' = backend /\ reply' = reply
  BY DEF Begin
<1>2. reply = NoReply
  BY <1>1 DEF EdgeInv, EdgeType
<1>3. PICK task : task \in Tasks /\ call' = NewCall(op, task, texts, via)
  BY DEF Begin, Tasks
<1>4. texts \in Seq(Texts) /\ Len(texts) \in Nat /\ Len(texts) > 0
  <2>1. PICK n \in 1..MaxTexts : texts \in [1..n -> Texts]
    BY DEF Lists
  <2>2. n \in Nat /\ n > 0
    BY <2>1, SizesAssumption
  <2>3. QED
    BY <2>1, <2>2
<1>5. <<>> \in Seq(Vectors) /\ Len(<<>>) = 0
  OBVIOUS
<1>6. PICK e \in Seq(Vectors) : e = <<>> /\ Len(e) = 0
  BY <1>5
<1>7. call' = [at |-> "sending", op |-> op, task |-> task, via |-> via, texts |-> texts, done |-> e,
              topK |-> Len(texts)]
  BY <1>3, <1>6 DEF NewCall
<1>8. /\ IsCall(call') /\ call'.at = "sending" /\ Len(call'.done) = 0 /\ Len(call'.texts) > 0
  BY <1>3, <1>4, <1>6, <1>7 DEF IsCall
<1>9. reply'.status # "200"
  BY <1>1, <1>2 DEF NoReply
<1>10. Sending'
  <2>1. \A i \in 1..Len(call'.done) : FALSE
    BY <1>8
  <2>2. QED
    BY <1>8, <1>9, <2>1 DEF Sending
<1>11. QED
  BY <1>1, <1>8, <1>10 DEF EdgeInv, EdgeType, AnswersBelong

\* What is sent is rows of the chunk that follows.
LEMMA RequestKeeps == ASSUME EdgeInv, Request PROVE EdgeInv'
<1>1. /\ call.at = "sending" /\ IsCall(call) /\ Len(call.done) < Len(call.texts) /\ EdgeType
      /\ call' = call /\ server' = server /\ backend' = backend
  BY DEF EdgeInv, EdgeType, Sending, Request
<1>2. Chunk \in Seq(Texts) /\ Len(Chunk) \in Nat \ {0}
  BY <1>1, ChunkFollows
<1>3. reply'.status = "200" => Sent(reply'.rows, Chunk, call)
  <2>1. SUFFICES ASSUME reply'.status = "200" PROVE Sent(reply'.rows, Chunk, call)
    OBVIOUS
  <2> DEFINE Source == CASE backend.kind = "deterministic" -> {embed_text(Chunk)}
                         [] backend.kind = "candle-qwen" -> {forward_chunk(Chunk)}
                         [] OTHER -> Answers(Chunk)
  <2>2. PICK rows \in Source : reply' = [status |-> "200", rows |-> rows]
    BY <2>1 DEF Request
  <2>3. CASE backend.kind = "deterministic"
    <3>1. rows = embed_text(Chunk)
      BY <2>2, <2>3
    <3>2. QED
      BY <1>1, <1>2, <2>2, <3>1, LocalSent
  <2>4. CASE backend.kind = "candle-qwen"
    <3>1. rows = forward_chunk(Chunk)
      BY <2>2, <2>4
    <3>2. QED
      BY <1>1, <1>2, <2>2, <3>1, LocalSent
  <2>5. CASE backend.kind # "deterministic" /\ backend.kind # "candle-qwen"
    <3>1. rows \in Answers(Chunk)
      BY <2>2, <2>5
    <3>2. QED
      BY <1>1, <1>2, <2>2, <2>5, <3>1, AnswerSent
  <2>6. QED
    BY <2>3, <2>4, <2>5
<1>4. Chunk' = Chunk
  BY <1>1 DEF Chunk
<1>5. (reply.status = "200" => Sent(reply.rows, Chunk, call))'
  BY <1>1, <1>3, <1>4 DEF Sent, Fit
<1>6. Sending'
  <2>1. \A i \in 1..Len(call.done) : Own(call.done[i], call.texts[i], call)
    BY <1>1 DEF EdgeInv, Sending
  <2>2. (\A i \in 1..Len(call.done) : Own(call.done[i], call.texts[i], call))'
    BY <1>1, <2>1 DEF Own
  <2>3. (Len(call.done) < Len(call.texts))'
    BY <1>1
  <2>4. QED
    BY <1>5, <2>2, <2>3 DEF Sending
<1>7. QED
  BY <1>1, <1>6 DEF EdgeInv, EdgeType, AnswersBelong

\* The elements of a concatenation.
LEMMA Concatenated ==
  ASSUME NEW S, NEW a \in Seq(S), NEW b \in Seq(S), NEW c, c = a \o b
  PROVE  /\ c \in Seq(S) /\ Len(c) = Len(a) + Len(b)
         /\ \A i \in 1..(Len(a) + Len(b)) : c[i] = IF i <= Len(a) THEN a[i] ELSE b[i - Len(a)]
  BY ConcatProperties

\* What is made of a reply: the rows of the chunk, cut, follow those that are done.
LEMMA DoneGrows ==
  ASSUME EdgeInv, call.at = "sending", reply.status = "200",
         NEW rows, rows = parse(reply.rows, Chunk), ~(rows = <<>> /\ Chunk # <<>>),
         NEW done, done = call.done \o [i \in DOMAIN rows |-> Cut(rows[i])]
  PROVE  /\ done \in Seq(Vectors) /\ Len(done) <= Len(call.texts)
         /\ \A i \in 1..Len(done) : Own(done[i], call.texts[i], call)
<1>1. /\ IsCall(call) /\ Len(call.done) < Len(call.texts) /\ EdgeType
      /\ \A i \in 1..Len(call.done) : Own(call.done[i], call.texts[i], call)
      /\ Sent(reply.rows, Chunk, call)
  BY DEF EdgeInv, EdgeType, Sending
<1>2. PICK c, x, d, rs : c = Chunk /\ x = call.texts /\ d = call.done /\ rs = reply.rows
  OBVIOUS
<1>3. /\ c \in Seq(Texts) /\ Len(c) \in Nat \ {0} /\ Len(d) + Len(c) <= Len(x)
      /\ \A i \in 1..Len(c) : c[i] = x[Len(d) + i]
  BY <1>1, <1>2, ChunkFollows
<1>4. x \in Seq(Texts) /\ d \in Seq(Vectors) /\ Sent(rs, c, call)
  BY <1>1, <1>2 DEF IsCall
<1>5. rows # <<>>
  BY <1>2, <1>3
<1>6. rows \in Seq(Vectors) /\ Len(rows) = Len(c) /\ \A i \in 1..Len(c) : Fit(rows[i], c[i], call)
  <2>1. CASE call.op = "rerank"
    <3>1. rows = parse_rerank(rs, c)
      BY <1>2, <2>1 DEF parse
    <3>2. QED
      BY <1>3, <1>4, <1>5, <3>1, RerankParsed
  <2>2. CASE call.op # "rerank"
    <3>1. rows = parse_embeddings(rs, c)
      BY <1>2, <2>2 DEF parse
    <3>2. QED
      BY <1>3, <1>4, <1>5, <3>1, EmbeddingsParsed
  <2>3. QED
    BY <2>1, <2>2
<1>7. PICK cut : cut = [i \in DOMAIN rows |-> Cut(rows[i])]
  OBVIOUS
<1>8. PICK n, m : n = Len(d) /\ m = Len(c)
  OBVIOUS
<1>9. n \in Nat /\ m \in Nat /\ DOMAIN rows = 1..m
  BY <1>3, <1>4, <1>6, <1>8
<1>10. \A i \in 1..m : Cut(rows[i]) \in Vectors /\ Own(Cut(rows[i]), c[i], call)
  <2>1. \A i \in 1..m : rows[i] \in Vectors /\ Fit(rows[i], c[i], call)
    BY <1>6, <1>8
  <2>2. QED
    BY <1>1, <2>1, CutOwn
<1>11. cut \in [1..m -> Vectors] /\ \A i \in 1..m : Own(cut[i], c[i], call)
  BY <1>7, <1>9, <1>10
<1>12. cut \in Seq(Vectors) /\ Len(cut) = m
  BY <1>9, <1>11
<1>13. done = d \o cut
  BY <1>2, <1>7
<1>14. /\ done \in Seq(Vectors) /\ Len(done) = n + m
       /\ \A i \in 1..(n + m) : done[i] = IF i <= n THEN d[i] ELSE cut[i - n]
  <2>1. d \in Seq(Vectors) /\ cut \in Seq(Vectors) /\ done = d \o cut
    BY <1>4, <1>12, <1>13
  <2>2. /\ done \in Seq(Vectors) /\ Len(done) = Len(d) + Len(cut)
        /\ \A i \in 1..(Len(d) + Len(cut)) : done[i] = IF i <= Len(d) THEN d[i] ELSE cut[i - Len(d)]
    BY ONLY <2>1, Concatenated
  <2>3. QED
    BY <1>8, <1>12, <2>2
<1>15. ASSUME NEW i \in 1..(n + m) PROVE Own(done[i], x[i], call)
  <2>1. CASE i <= n
    <3>1. i \in 1..n
      BY <1>9, <1>15, <2>1
    <3>2. done[i] = d[i]
      BY <1>14, <1>15, <2>1
    <3>3. QED
      BY <1>1, <1>2, <1>8, <3>1, <3>2
  <2>2. CASE ~(i <= n)
    <3>1. PICK j \in 1..m : j = i - n /\ i = n + j
      BY <1>9, <2>2
    <3>2. done[i] = cut[j] /\ c[j] = x[i]
      BY <1>3, <1>8, <1>14, <2>2, <3>1
    <3>3. QED
      BY <1>11, <3>2
  <2>3. QED
    BY <2>1, <2>2
<1>16. QED
  BY <1>2, <1>3, <1>8, <1>14, <1>15

\* A reply makes the call fail, go on with the next chunk, or answer.
LEMMA ReceiveKeeps == ASSUME EdgeInv, Receive PROVE EdgeInv'
<1>1. /\ call.at = "sending" /\ IsCall(call) /\ EdgeType /\ backend # NotBuilt
      /\ server' = server /\ backend' = backend /\ reply' = NoReply
  BY DEF EdgeInv, EdgeType, Receive
<1>2. PICK rows : rows = parse(reply.rows, Chunk)
  OBVIOUS
<1>3. PICK done : done = call.done \o [i \in DOMAIN rows |-> Cut(rows[i])]
  OBVIOUS
<1>4. NoReply.status # "200"
  BY DEF NoReply
<1>5. PICK x : x = call.texts
  OBVIOUS
<1>6. /\ x \in Seq(Texts) /\ Len(x) \in Nat /\ call.topK = Len(x) /\ call.op \in {"embed", "rerank"}
      /\ <<>> \in Seq(Vectors) /\ DOMAIN x = 1..Len(x)
  BY <1>1, <1>5 DEF IsCall
<1>7. (EdgeType /\ Sending /\ AnswersBelong)' => EdgeInv'
  BY DEF EdgeInv
<1>8. ASSUME reply.status # "200" \/ (rows = <<>> /\ Chunk # <<>>) PROVE EdgeInv'
  <2>1. call' = [call EXCEPT !.at = "failed", !.done = <<>>]
    BY <1>2, <1>8 DEF Receive
  <2>2. call'.at = "failed" /\ IsCall(call')
    BY <1>1, <1>6, <2>1 DEF IsCall
  <2>3. QED
    BY <1>1, <2>2 DEF EdgeInv, EdgeType, Sending, AnswersBelong
<1>9. ASSUME reply.status = "200", ~(rows = <<>> /\ Chunk # <<>>) PROVE EdgeInv'
  <2>1. /\ done \in Seq(Vectors) /\ Len(done) \in Nat /\ Len(done) <= Len(x)
        /\ \A i \in 1..Len(done) : Own(done[i], x[i], call)
    <3>1. /\ done \in Seq(Vectors) /\ Len(done) <= Len(call.texts)
          /\ \A i \in 1..Len(done) : Own(done[i], call.texts[i], call)
      BY <1>1, <1>2, <1>3, <1>9, DoneGrows
    <3>2. QED
      BY <1>5, <3>1
  <2>2. call' = IF Len(done) < Len(x) THEN [call EXCEPT !.done = done]
                ELSE [call EXCEPT !.at = "answered",
                                  !.done = IF call.op = "rerank" THEN UpTo(Ranked(done), call.topK) ELSE done]
    BY <1>2, <1>3, <1>5, <1>9 DEF Receive
  <2>3. ASSUME Len(done) < Len(x) PROVE EdgeInv'
    <3>1. call' = [call EXCEPT !.done = done]
      BY <2>2, <2>3
    <3>2. /\ IsCall(call') /\ call'.at = "sending" /\ call'.done = done /\ call'.texts = x
          /\ call'.task = call.task
      BY <1>1, <1>5, <2>1, <3>1 DEF IsCall
    <3>3. (\A i \in 1..Len(call.done) : Own(call.done[i], call.texts[i], call))'
      BY <1>1, <2>1, <3>2 DEF Own
    <3>4. Sending'
      BY <1>1, <1>4, <2>3, <3>2, <3>3 DEF Sending
    <3>5. QED
      BY <1>1, <3>2, <3>4 DEF EdgeInv, EdgeType, AnswersBelong
  <2>4. ASSUME ~(Len(done) < Len(x)), call.op # "rerank" PROVE EdgeInv'
    <3>1. call' = [call EXCEPT !.at = "answered", !.done = done]
      BY <2>2, <2>4
    <3>2. /\ IsCall(call') /\ call'.at = "answered" /\ call'.done = done /\ call'.texts = x
          /\ call'.task = call.task /\ call'.op = call.op
      BY <1>1, <1>5, <2>1, <3>1 DEF IsCall
    <3>3. Len(done) = Len(x)
      BY <1>6, <2>1, <2>4
    <3>4. \A i \in DOMAIN x : done[i].text = x[i] /\ done[i].task = call.task /\ done[i].dim = backend.dim
      BY <1>6, <2>1, <3>3 DEF Own
    <3>5. AnswersBelong'
      BY <1>1, <2>4, <3>2, <3>3, <3>4 DEF AnswersBelong
    <3>6. QED
      BY <1>1, <3>2, <3>5 DEF EdgeInv, EdgeType, Sending
  <2>5. ASSUME ~(Len(done) < Len(x)), call.op = "rerank" PROVE EdgeInv'
    <3>1. PICK r : r = Ranked(done)
      OBVIOUS
    <3>2. Len(done) = Len(x)
      BY <1>6, <2>1, <2>5
    <3>3. PICK n \in Nat : n = Len(x) /\ Len(done) = n
      BY <1>6, <3>2
    <3>4. \A i \in 1..n : done[i].text = x[i] /\ done[i].score = Score[x[i]]
      BY <2>1, <3>3 DEF Own
    <3>5. BestFirst(r, x, n)
      <4>1. n \in Nat /\ x \in Seq(Texts) /\ Len(x) = n /\ done \in Seq(Vectors) /\ Len(done) = n
        BY <1>6, <2>1, <3>3
      <4>2. QED
        BY ONLY <4>1, <3>1, <3>4, RankedBelongs
    <3>6. UpTo(r, n) = r
      BY <3>3, <3>5 DEF UpTo, BestFirst
    <3>7. call' = [call EXCEPT !.at = "answered", !.done = r]
      BY <1>6, <2>2, <2>5, <3>1, <3>3, <3>6
    <3>8. /\ IsCall(call') /\ call'.at = "answered" /\ call'.done = r /\ call'.texts = x
          /\ call'.op = "rerank"
      BY <1>1, <1>5, <2>5, <3>5, <3>7 DEF IsCall, BestFirst
    <3>9. DOMAIN r = 1..n /\ DOMAIN x = 1..n
      BY <1>6, <3>3, <3>5 DEF BestFirst
    <3>10. AnswersBelong'
      BY <3>5, <3>8, <3>9 DEF AnswersBelong, BestFirst
    <3>11. QED
      BY <1>1, <3>8, <3>10 DEF EdgeInv, EdgeType, Sending
  <2>6. QED
    BY <2>3, <2>4, <2>5
<1>10. QED
  BY <1>8, <1>9

\* The caller goes on, or the server is stopped or started.
LEMMA AnswerTaken == ASSUME EdgeInv, End PROVE EdgeInv'
<1>1. call'.at = "idle" /\ reply = NoReply
  BY DEF End, EdgeInv, EdgeType, NoCall
<1>2. QED
  BY <1>1 DEF End, EdgeInv, EdgeType, Sending, AnswersBelong

LEMMA ToggleKeeps == ASSUME EdgeInv, ServerToggle PROVE EdgeInv'
<1>1. /\ server \in [up : BOOLEAN, native : Dims] /\ server' = [server EXCEPT !.up = ~server.up]
      /\ backend' = backend /\ call' = call /\ reply' = reply
  BY DEF EdgeInv, EdgeType, ServerToggle
<1>2. server' \in [up : BOOLEAN, native : Dims] /\ server'.native = server.native
  BY <1>1
<1>3. Chunk' = Chunk
  BY <1>1 DEF Chunk
<1>4. Sending'
  BY <1>1, <1>3 DEF EdgeInv, Sending, Sent, Fit, Own
<1>5. QED
  BY <1>1, <1>2, <1>4 DEF EdgeInv, EdgeType, AnswersBelong, IsCall

\* embedder/openai.rs, reranker/http.rs and the candle batch: whatever the texts, the number
\* of them in a request, the dimensions, the token counts and the model's window, and whatever
\* the server does, an answered call gives every text its own vector or its own score.
THEOREM EveryAnswerBelongs == EdgeSpec => []AnswersBelong
<1>1. EdgeInv /\ [EdgeNext]_edgeVars => EdgeInv'
  <2>1. SUFFICES ASSUME EdgeInv, [EdgeNext]_edgeVars PROVE EdgeInv'
    OBVIOUS
  <2>2. CASE \E name \in Names, weights \in BOOLEAN, d \in Dims : build_embedder(name, weights, d)
    BY <2>1, <2>2, BuildKeeps
  <2>3. CASE \E texts \in Lists, via \in {"direct", "signal"} :
                \/ \E mode \in {"documents", "queries", "plain"} : Begin("embed", mode, texts, via)
                \/ Begin("rerank", "plain", texts, via)
    BY <2>1, <2>3, BeginKeeps
  <2>4. CASE Request
    BY <2>1, <2>4, RequestKeeps
  <2>5. CASE Receive
    BY <2>1, <2>5, ReceiveKeeps
  <2>6. CASE End
    BY <2>1, <2>6, AnswerTaken
  <2>7. CASE ServerToggle
    BY <2>1, <2>7, ToggleKeeps
  <2>8. CASE UNCHANGED edgeVars
    <3>1. server' = server /\ backend' = backend /\ call' = call /\ reply' = reply
      BY <2>8 DEF edgeVars
    <3>2. Chunk' = Chunk
      BY <3>1 DEF Chunk
    <3>3. Sending'
      BY <2>1, <3>1, <3>2 DEF EdgeInv, Sending, Sent, Fit, Own
    <3>4. QED
      BY <2>1, <3>1, <3>3 DEF EdgeInv, EdgeType, AnswersBelong, IsCall
  <2>9. QED
    BY <2>1, <2>2, <2>3, <2>4, <2>5, <2>6, <2>7, <2>8 DEF EdgeNext
<1>2. EdgeInv => AnswersBelong
  BY DEF EdgeInv
<1>3. QED
  BY <1>1, <1>2, EdgeStarts, PTL DEF EdgeSpec

----------------------------------------------------------------------------
(* The sorted index against the metadata.                                  *)

\* What a document's field can be.
IsField(v) == IsValue(v) \/ v = Bare

DocsFormed == DOMAIN docs = Ids /\ \A d \in Ids : IsField(docs[d]) \/ docs[d] = NoDoc

\* The documents that have the field, and the row of one.
Having == {d \in Live(docs) : docs[d] # Bare}
RowOf(d) == [enc |-> encode_pidx_value(docs[d]), id |-> d]

\* A condition met up to spelling.
Holds(c, v) == matches(CanonCondition(c), Canon(v))
Met(c) == {d \in Live(docs) : Holds(c, docs[d])}

----------------------------------------------------------------------------
\* A coordinate of the grid has two bits.
LEMMA TwoBits ==
  ASSUME NEW a \in 0..3
  PROVE  a % 2 \in 0..1 /\ a \div 2 \in 0..1 /\ a = (a % 2) + 2 * (a \div 2)
  OBVIOUS

\* Interleaving is injective and monotone in both coordinates.
LEMMA MortonOrders ==
  ASSUME NEW p, IsPlace(p), NEW q, IsPlace(q)
  PROVE  /\ morton(p) \in Int
         /\ morton(p) = morton(q) => p[1] = q[1] /\ p[2] = q[2]
         /\ p[1] <= q[1] /\ p[2] <= q[2] => morton(p) <= morton(q)
<1>1. PICK a \in 0..3, b \in 0..3, c \in 0..3, d \in 0..3 : a = p[1] /\ b = p[2] /\ c = q[1] /\ d = q[2]
  BY DEF IsPlace
<1>2. PICK a0 \in 0..1, a1 \in 0..1 : a0 = a % 2 /\ a1 = a \div 2 /\ a = a0 + 2 * a1
  BY TwoBits
<1>3. PICK b0 \in 0..1, b1 \in 0..1 : b0 = b % 2 /\ b1 = b \div 2 /\ b = b0 + 2 * b1
  BY TwoBits
<1>4. PICK c0 \in 0..1, c1 \in 0..1 : c0 = c % 2 /\ c1 = c \div 2 /\ c = c0 + 2 * c1
  BY TwoBits
<1>5. PICK d0 \in 0..1, d1 \in 0..1 : d0 = d % 2 /\ d1 = d \div 2 /\ d = d0 + 2 * d1
  BY TwoBits
<1>6. morton(p) = a0 + 2 * b0 + 4 * a1 + 8 * b1 /\ morton(q) = c0 + 2 * d0 + 4 * c1 + 8 * d1
  BY <1>1, <1>2, <1>3, <1>4, <1>5 DEF morton
<1>7. morton(p) \in Int
  BY <1>6
<1>8. ASSUME a0 + 2 * b0 + 4 * a1 + 8 * b1 = c0 + 2 * d0 + 4 * c1 + 8 * d1 PROVE a = c /\ b = d
  BY <1>2, <1>3, <1>4, <1>5, <1>8
<1>9. ASSUME a <= c, b <= d PROVE a0 + 2 * b0 + 4 * a1 + 8 * b1 <= c0 + 2 * d0 + 4 * c1 + 8 * d1
  BY <1>2, <1>3, <1>4, <1>5, <1>9
<1>10. QED
  BY <1>1, <1>6, <1>7, <1>8, <1>9

\* A side is no longer than the radius.
LEMMA SideFits ==
  ASSUME NEW a \in Int, NEW b \in Int, NEW r \in Nat, a * a + b * b <= r * r
  PROVE  -r <= a /\ a <= r /\ -r <= b /\ b <= r
<1>1. ASSUME NEW x \in Int, NEW y \in Int, x * x + y * y <= r * r PROVE -r <= x /\ x <= r
  <2>1. y * y >= 0
    OBVIOUS
  <2>2. PICK z \in Nat : (z = x \/ z = -x) /\ z * z = x * x
    <3>1. CASE x >= 0
      BY <3>1
    <3>2. CASE x < 0
      <4>1. -x \in Nat /\ (-x) * (-x) = x * x
        BY <3>2
      <4>2. QED
        BY <4>1
    <3>3. QED
      BY <3>1, <3>2
  <2>3. z * z <= r * r
    BY <1>1, <2>1, <2>2
  <2>4. ASSUME z > r PROVE FALSE
    <3>1. PICK k \in Nat : k > 0 /\ z = r + k
      BY <2>4
    <3>2. z * z = r * r + 2 * (r * k) + k * k
      BY <3>1
    <3>3. r * k >= 0 /\ k * k > 0
      BY <3>1
    <3>4. QED
      BY <2>3, <3>2, <3>3
  <2>5. QED
    BY <2>2, <2>4
<1>2. b * b + a * a <= r * r
  OBVIOUS
<1>3. QED
  BY <1>1, <1>2

\* A side of the bounding box, cut at the edge of the map, has what is within the radius.
LEMMA SidesClamped ==
  ASSUME NEW u \in 0..3, NEW x \in 0..3, NEW r \in Nat, -r <= x - u, x - u <= r,
         NEW lo, lo = IF u - r > 0 THEN u - r ELSE 0, NEW hi, hi = IF u + r < 3 THEN u + r ELSE 3
  PROVE  lo \in 0..3 /\ lo <= x /\ hi \in 0..3 /\ x <= hi
  OBVIOUS

\* The bounding box of a circle has all its places.
LEMMA CircleInBox ==
  ASSUME NEW c, IsPlace(c.center), c.radius \in Nat, NEW p, IsPlace(p), Near(c, p)
  PROVE  /\ IsPlace(radius_bbox(c)[1]) /\ IsPlace(radius_bbox(c)[2])
         /\ InBox(radius_bbox(c), p)
<1>1. PICK x \in 0..3, y \in 0..3, u \in 0..3, v \in 0..3, r \in Nat :
         x = p[1] /\ y = p[2] /\ u = c.center[1] /\ v = c.center[2] /\ r = c.radius
  BY DEF IsPlace
<1>2. (x - u) * (x - u) + (y - v) * (y - v) <= r * r
  BY <1>1 DEF Near
<1>3. -r <= x - u /\ x - u <= r /\ -r <= y - v /\ y - v <= r
  <2>1. PICK a \in Int, b \in Int : a = x - u /\ b = y - v
    BY <1>1
  <2>2. a * a + b * b <= r * r
    BY <1>2, <2>1
  <2>3. -r <= a /\ a <= r /\ -r <= b /\ b <= r
    BY <2>2, SideFits
  <2>4. QED
    BY <2>1, <2>3
<1>4. \A a \in Int : /\ Max({0, a}) = IF a > 0 THEN a ELSE 0
                     /\ Min({3, a}) = IF a < 3 THEN a ELSE 3
  <2>1. SUFFICES ASSUME NEW a \in Int PROVE /\ Max({0, a}) = IF a > 0 THEN a ELSE 0
                                            /\ Min({3, a}) = IF a < 3 THEN a ELSE 3
    OBVIOUS
  <2>2. Max({0, a}) \in {0, a} /\ \A y1 \in {0, a} : Max({0, a}) >= y1
    <3>1. \E x1 \in {0, a} : \A y1 \in {0, a} : x1 >= y1
      BY SMT
    <3>2. QED
      BY <3>1 DEF Max
  <2>3. Min({3, a}) \in {3, a} /\ \A y1 \in {3, a} : Min({3, a}) <= y1
    <3>1. \E x1 \in {3, a} : \A y1 \in {3, a} : x1 <= y1
      BY SMT
    <3>2. QED
      BY <3>1 DEF Min
  <2>4. QED
    BY <2>2, <2>3
<1>5. PICK lo, hi : lo = radius_bbox(c)[1] /\ hi = radius_bbox(c)[2]
  OBVIOUS
<1>6. /\ lo = [axis \in {1, 2} |-> Max({0, c.center[axis] - c.radius})]
      /\ hi = [axis \in {1, 2} |-> Min({3, c.center[axis] + c.radius})]
  BY <1>5 DEF radius_bbox
<1>7. /\ DOMAIN lo = 1..2 /\ DOMAIN hi = 1..2
      /\ lo[1] = Max({0, u - r}) /\ lo[2] = Max({0, v - r})
      /\ hi[1] = Min({3, u + r}) /\ hi[2] = Min({3, v + r})
  BY <1>1, <1>6
<1>8. /\ u - r \in Int /\ v - r \in Int /\ u + r \in Int /\ v + r \in Int
  BY <1>1
<1>9. /\ lo[1] \in 0..3 /\ lo[1] <= x /\ lo[2] \in 0..3 /\ lo[2] <= y
      /\ hi[1] \in 0..3 /\ x <= hi[1] /\ hi[2] \in 0..3 /\ y <= hi[2]
  <2>1. /\ lo[1] = IF u - r > 0 THEN u - r ELSE 0
        /\ lo[2] = IF v - r > 0 THEN v - r ELSE 0
        /\ hi[1] = IF u + r < 3 THEN u + r ELSE 3
        /\ hi[2] = IF v + r < 3 THEN v + r ELSE 3
    BY <1>4, <1>7, <1>8
  <2>2. lo[1] \in 0..3 /\ lo[1] <= x /\ hi[1] \in 0..3 /\ x <= hi[1]
    BY <1>3, <2>1, SidesClamped
  <2>3. lo[2] \in 0..3 /\ lo[2] <= y /\ hi[2] \in 0..3 /\ y <= hi[2]
    BY <1>3, <2>1, SidesClamped
  <2>4. QED
    BY <2>2, <2>3
<1>10. QED
  BY <1>1, <1>5, <1>7, <1>9 DEF IsPlace, InBox

----------------------------------------------------------------------------
\* The parts of a value that the index keeps, and of one that is not there.
LEMMA FieldParts ==
  ASSUME NEW v, IsField(v)
  PROVE  /\ v \in [type : Types \cup {"none"}, key : Seq(Int), spelling : Nat]
         /\ Canon(v).type = v.type /\ Canon(v).key = v.key
         /\ v.type = "none" <=> v = Bare
         /\ v # Bare => IsValue(v)
         /\ v # NoDoc /\ Canon(v) # NoDoc
<1>1. <<0>> \in Seq(Int)
  OBVIOUS
<1>2. Bare \in [type : Types \cup {"none"}, key : Seq(Int), spelling : Nat] /\ Bare.type = "none"
  BY <1>1 DEF Bare, Value
<1>3. IsValue(v) => v \in [type : Types, key : Seq(Int), spelling : Nat] /\ v.type # "none"
  BY DEF IsValue, Types, Surfaces
<1>4. v \in [type : Types \cup {"none"}, key : Seq(Int), spelling : Nat]
  BY <1>2, <1>3 DEF IsField
<1>5. Canon(v) = [v EXCEPT !.spelling = 0] /\ Canon(v).type = v.type /\ Canon(v).key = v.key
  BY <1>4 DEF Canon
<1>6. v.type # "absent" /\ NoDoc.type = "absent"
  BY <1>4 DEF Types, Surfaces, NoDoc, Value
<1>7. (v.type = "none" <=> v = Bare) /\ (v # Bare => IsValue(v))
  BY <1>2, <1>3 DEF IsField
<1>8. QED
  BY <1>4, <1>5, <1>6, <1>7

\* Two values are the same up to spelling when type and key are.
LEMMA SameCanon ==
  ASSUME NEW v, IsField(v), NEW w, IsField(w)
  PROVE  Canon(v) = Canon(w) <=> v.type = w.type /\ v.key = w.key
<1>1. /\ v \in [type : Types \cup {"none"}, key : Seq(Int), spelling : Nat]
      /\ w \in [type : Types \cup {"none"}, key : Seq(Int), spelling : Nat]
  BY FieldParts
<1>2. Canon(v) = [type |-> v.type, key |-> v.key, spelling |-> 0]
  BY <1>1 DEF Canon
<1>3. Canon(w) = [type |-> w.type, key |-> w.key, spelling |-> 0]
  BY <1>1 DEF Canon
<1>4. QED
  BY <1>2, <1>3

\* The encoding tells two values apart when they are not the same up to spelling.
LEMMA EncodesOnce ==
  ASSUME NEW v, IsValue(v), NEW w, IsValue(w)
  PROVE  encode_pidx_value(v) = encode_pidx_value(w) <=> Canon(v) = Canon(w)
<1>1. /\ v.key \in Seq(Int) /\ w.key \in Seq(Int)
  BY DEF IsValue
<1>2. Canon(v) = Canon(w) <=> v.type = w.type /\ v.key = w.key
  BY SameCanon DEF IsField
<1>3. encode_pidx_value(v) = encode_pidx_value(w) <=>
         /\ v.type = w.type
         /\ (IF v.type = "geo" THEN morton(v.key) ELSE v.key[1])
                = (IF w.type = "geo" THEN morton(w.key) ELSE w.key[1])
  BY DEF encode_pidx_value
<1>4. ASSUME v.type = w.type, v.type = "geo", morton(v.key) = morton(w.key) PROVE v.key = w.key
  <2>1. IsPlace(v.key) /\ IsPlace(w.key)
    BY <1>4 DEF IsValue
  <2>2. v.key[1] = w.key[1] /\ v.key[2] = w.key[2]
    BY <1>4, <2>1, MortonOrders
  <2>3. PICK s \in Seq(Int), t \in Seq(Int) : s = v.key /\ t = w.key
    BY <1>1
  <2>4. Len(s) = 2 /\ Len(t) = 2
    <3>1. DOMAIN s = 1..2 /\ DOMAIN t = 1..2
      BY <2>1, <2>3 DEF IsPlace
    <3>2. \A n \in Nat : 1..n = 1..2 => n = 2
      <4>1. SUFFICES ASSUME NEW n \in Nat, 1..n = 1..2 PROVE n = 2
        OBVIOUS
      <4>2. 2 \in 1..2 /\ 3 \notin 1..2
        OBVIOUS
      <4>3. 2 \in 1..n /\ 3 \notin 1..n
        BY <4>1, <4>2
      <4>4. QED
        BY <4>3
    <3>3. Len(s) \in Nat /\ Len(t) \in Nat /\ DOMAIN s = 1..Len(s) /\ DOMAIN t = 1..Len(t)
      BY <2>3
    <3>4. QED
      BY <3>1, <3>2, <3>3
  <2>5. \A i \in 1..2 : s[i] = t[i]
    <3>1. \A i \in 1..2 : i = 1 \/ i = 2
      OBVIOUS
    <3>2. QED
      BY <2>2, <2>3, <3>1
  <2>6. s = t
    BY <2>4, <2>5, SeqEqual
  <2>7. QED
    BY <2>3, <2>6
<1>5. ASSUME v.type = w.type, v.type # "geo", v.key[1] = w.key[1] PROVE v.key = w.key
  <2>1. PICK s \in Seq(Int), t \in Seq(Int) : s = v.key /\ t = w.key
    BY <1>1
  <2>2. Len(s) = 1 /\ Len(t) = 1
    BY <1>5, <2>1 DEF IsValue
  <2>3. \A i \in 1..1 : s[i] = t[i]
    BY <1>5, <2>1
  <2>4. s = t
    BY <2>2, <2>3, SeqEqual
  <2>5. QED
    BY <2>1, <2>4
<1>6. QED
  BY <1>2, <1>3, <1>4, <1>5

\* What a condition says of a value, up to spelling.
LEMMA HoldsHow ==
  ASSUME NEW c, IsCondition(c), NEW v, IsField(v)
  PROVE  /\ c.op = "eq" => (Holds(c, v) <=> Canon(v) = Canon(c.value))
         /\ c.op = "any" => (Holds(c, v) <=> \E w \in c.values : Canon(v) = Canon(w))
         /\ c.op = "range" => (Holds(c, v) <=> v.type = "num" /\ Within(c, v.key[1]))
         /\ c.op = "date_range" => (Holds(c, v) <=> v.type = "dt" /\ Within(c, v.key[1]))
         /\ c.op = "geo_radius" => (Holds(c, v) <=> v.type = "geo" /\ Near(c, v.key))
         /\ c.op = "geo_box" => (Holds(c, v) <=> v.type = "geo" /\ InBox(c.box, v.key))
         /\ c.op = "exists" => (Holds(c, v) <=> v.type # "none")
<1>1. Canon(v).type = v.type /\ Canon(v).key = v.key
  BY FieldParts
<1>2. ASSUME c.op = "eq" PROVE Holds(c, v) <=> Canon(v) = Canon(c.value)
  <2>1. PICK e : e = CanonCondition(c)
    OBVIOUS
  <2>2. e = [c EXCEPT !.value = Canon(c.value)]
    BY <1>2, <2>1 DEF CanonCondition
  <2>3. e.op = "eq" /\ e.value = Canon(c.value)
    BY <1>2, <2>2 DEF IsCondition
  <2>4. matches(e, Canon(v)) <=> Canon(v) = e.value
    BY <2>3 DEF matches
  <2>5. QED
    BY <2>1, <2>3, <2>4 DEF Holds
<1>3. ASSUME c.op = "any" PROVE Holds(c, v) <=> \E w \in c.values : Canon(v) = Canon(w)
  <2>1. PICK e : e = CanonCondition(c)
    OBVIOUS
  <2>2. e = [c EXCEPT !.values = {Canon(w) : w \in c.values}]
    BY <1>3, <2>1 DEF CanonCondition
  <2>3. e.op = "any" /\ e.values = {Canon(w) : w \in c.values}
    BY <1>3, <2>2 DEF IsCondition
  <2>4. matches(e, Canon(v)) <=> Canon(v) \in e.values
    BY <2>3 DEF matches
  <2>5. QED
    BY <2>1, <2>3, <2>4 DEF Holds
<1>4. ASSUME c.op # "eq", c.op # "any" PROVE Holds(c, v) <=> matches(c, Canon(v))
  BY <1>4 DEF Holds, CanonCondition
<1>5. c.op = "range" => (matches(c, Canon(v)) <=> v.type = "num" /\ Within(c, v.key[1]))
  BY <1>1 DEF matches
<1>6. c.op = "date_range" => (matches(c, Canon(v)) <=> v.type = "dt" /\ Within(c, v.key[1]))
  BY <1>1 DEF matches
<1>7. c.op = "geo_radius" => (matches(c, Canon(v)) <=> v.type = "geo" /\ Near(c, v.key))
  BY <1>1 DEF matches
<1>8. c.op = "geo_box" => (matches(c, Canon(v)) <=> v.type = "geo" /\ InBox(c.box, v.key))
  BY <1>1 DEF matches
<1>9. c.op = "exists" => (matches(c, Canon(v)) <=> v.type # "none")
  BY <1>1 DEF matches
<1>10. QED
  BY <1>2, <1>3, <1>4, <1>5, <1>6, <1>7, <1>8, <1>9

----------------------------------------------------------------------------
(* The scans.                                                              *)

\* One row per document that has the field.
LEMMA RowsAre ==
  ASSUME DocsFormed
  PROVE  /\ Rows(docs) = {RowOf(d) : d \in Having}
         /\ \A d \in Live(docs) : IsField(docs[d])
         /\ \A d \in Having : d \in Live(docs) /\ IsValue(docs[d]) /\ IsField(docs[d])
         /\ \A d \in Live(docs) : d \notin Having => docs[d] = Bare
         /\ \A d \in Having : /\ RowOf(d) \in Rows(docs) /\ RowOf(d).id = d
                            /\ RowOf(d).enc = encode_pidx_value(docs[d])
         /\ \A r \in Rows(docs) : r.id \in Having /\ r = RowOf(r.id)
<1>1. Rows(docs) = {RowOf(d) : d \in Having}
  BY DEF Rows, RowOf, Having
<1>2. \A d \in Live(docs) : IsField(docs[d])
  BY DEF DocsFormed, Live
<1>3. \A d \in Having : d \in Live(docs) /\ docs[d] # Bare
  BY DEF Having
<1>4. \A d \in Having : IsValue(docs[d]) /\ IsField(docs[d])
  BY <1>2, <1>3 DEF IsField
<1>5. \A d \in Live(docs) : d \notin Having => docs[d] = Bare
  BY DEF Having
<1>6. \A d : RowOf(d).id = d /\ RowOf(d).enc = encode_pidx_value(docs[d])
  BY DEF RowOf
<1>7. QED
  BY <1>1, <1>2, <1>3, <1>4, <1>5, <1>6

\* The parts of a row that a scan compares.
LEMMA RowParts ==
  ASSUME DocsFormed, NEW d \in Having
  PROVE  /\ RowOf(d).enc.tag = docs[d].type
         /\ docs[d].type # "geo" => RowOf(d).enc.key = docs[d].key[1] /\ docs[d].key[1] \in Int
         /\ docs[d].type = "geo" => RowOf(d).enc.key = morton(docs[d].key) /\ IsPlace(docs[d].key)
<1>1. IsValue(docs[d]) /\ RowOf(d).enc = encode_pidx_value(docs[d])
  BY RowsAre
<1>2. PICK e : e = encode_pidx_value(docs[d])
  OBVIOUS
<1>3. /\ e.tag = docs[d].type
      /\ e.key = IF docs[d].type = "geo" THEN morton(docs[d].key) ELSE docs[d].key[1]
  BY <1>2 DEF encode_pidx_value
<1>4. docs[d].type # "geo" => docs[d].key[1] \in Int
  <2>1. SUFFICES ASSUME docs[d].type # "geo" PROVE docs[d].key[1] \in Int
    OBVIOUS
  <2>2. PICK k \in Seq(Int) : k = docs[d].key /\ Len(k) = 1
    BY <1>1, <2>1 DEF IsValue
  <2>3. k[1] \in Int
    BY <2>2
  <2>4. QED
    BY <2>2, <2>3
<1>5. docs[d].type = "geo" => IsPlace(docs[d].key)
  BY <1>1 DEF IsValue
<1>6. QED
  BY <1>1, <1>2, <1>3, <1>4, <1>5

\* A scan for a value.
LEMMA ScanValue ==
  ASSUME DocsFormed, NEW w, IsValue(w)
  PROVE  IdsOf(scan_value(docs, w)) = {d \in Having : Canon(docs[d]) = Canon(w)}
<1>1. \A d \in Having : encode_pidx_value(docs[d]) = encode_pidx_value(w) <=> Canon(docs[d]) = Canon(w)
  BY RowsAre, EncodesOnce
<1>2. scan_value(docs, w) = {r \in Rows(docs) : r.enc = encode_pidx_value(w)}
  BY DEF scan_value
<1>3. ASSUME NEW d \in IdsOf(scan_value(docs, w)) PROVE d \in Having /\ Canon(docs[d]) = Canon(w)
  <2>1. PICK r \in Rows(docs) : r.id = d /\ r.enc = encode_pidx_value(w)
    BY <1>2, <1>3 DEF IdsOf
  <2>2. d \in Having /\ r = RowOf(d) /\ RowOf(d).enc = encode_pidx_value(docs[d])
    BY <2>1, RowsAre
  <2>3. QED
    BY <1>1, <2>1, <2>2
<1>4. ASSUME NEW d \in Having, Canon(docs[d]) = Canon(w) PROVE d \in IdsOf(scan_value(docs, w))
  <2>1. RowOf(d) \in Rows(docs) /\ RowOf(d).id = d /\ RowOf(d).enc = encode_pidx_value(w)
    BY <1>1, <1>4, RowsAre
  <2>2. QED
    BY <1>2, <2>1 DEF IdsOf
<1>5. QED
  BY <1>3, <1>4

\* A scan over a range ends early, and only past everything it is for.
LEMMA ScanRange ==
  ASSUME DocsFormed, NEW tag, tag # "geo", NEW c, c.gt \cup c.gte \cup c.lt \cup c.lte \subseteq Int
  PROVE  IdsOf(scan_range(docs, tag, c)) = {d \in Having : docs[d].type = tag /\ Within(c, docs[d].key[1])}
<1> DEFINE lower == IF c.gte # {} THEN c.gte ELSE c.gt
           from == {r \in Rows(docs) : r.enc.tag = tag /\ \A b \in lower : r.enc.key >= b}
           past(x) == (\E b \in c.lt : x >= b) \/ (\E b \in c.lte : x > b)
           below(x) == (\E b \in c.gt : x <= b) \/ (\E b \in c.gte : x < b)
<1>1. scan_range(docs, tag, c)
        = {r \in from : /\ ~\E s \in from : past(s.enc.key) /\ s.enc.key <= r.enc.key
                        /\ ~below(r.enc.key)}
  BY DEF scan_range
<1>2. \A b : b \in c.gt \/ b \in c.gte \/ b \in c.lt \/ b \in c.lte => b \in Int
  OBVIOUS
<1>3. \A x \in Int : Within(c, x) => ~past(x) /\ ~below(x) /\ \A b \in lower : x >= b
  BY <1>2 DEF Within
<1>4. \A x \in Int : ~past(x) /\ ~below(x) => Within(c, x)
  BY <1>2 DEF Within
<1>5. \A x, y \in Int : past(x) /\ x <= y => past(y)
  BY <1>2
<1>6. \A r \in from : /\ r \in Rows(docs) /\ r.enc.tag = tag /\ r.id \in Having /\ r = RowOf(r.id)
                     /\ docs[r.id].type = tag /\ r.enc.key = docs[r.id].key[1] /\ r.enc.key \in Int
  <2>1. SUFFICES ASSUME NEW r \in from
                 PROVE  /\ r \in Rows(docs) /\ r.enc.tag = tag /\ r.id \in Having /\ r = RowOf(r.id)
                        /\ docs[r.id].type = tag /\ r.enc.key = docs[r.id].key[1] /\ r.enc.key \in Int
    OBVIOUS
  <2>2. r \in Rows(docs) /\ r.enc.tag = tag
    OBVIOUS
  <2>3. PICK d \in Having : d = r.id /\ r = RowOf(d)
    BY <2>2, RowsAre
  <2>4. RowOf(d).enc.tag = docs[d].type
    BY RowParts
  <2>5. docs[d].type # "geo"
    BY <2>2, <2>3, <2>4
  <2>6. RowOf(d).enc.key = docs[d].key[1] /\ docs[d].key[1] \in Int
    BY <2>5, RowParts
  <2>7. QED
    BY <2>2, <2>3, <2>4, <2>6
<1>7. \A d \in Having : docs[d].type = tag /\ (\A b \in lower : docs[d].key[1] >= b) => RowOf(d) \in from
  <2>1. SUFFICES ASSUME NEW d \in Having, docs[d].type = tag, \A b \in lower : docs[d].key[1] >= b
                 PROVE  RowOf(d) \in from
    OBVIOUS
  <2>2. RowOf(d) \in Rows(docs) /\ RowOf(d).enc.tag = tag /\ RowOf(d).enc.key = docs[d].key[1]
    BY <2>1, RowsAre, RowParts
  <2>3. QED
    BY <2>1, <2>2
<1> HIDE DEF lower, from, past, below
<1>8. ASSUME NEW d \in IdsOf(scan_range(docs, tag, c))
      PROVE  d \in Having /\ docs[d].type = tag /\ Within(c, docs[d].key[1])
  <2>1. PICK r \in from : /\ r.id = d /\ ~below(r.enc.key)
                          /\ ~\E s \in from : past(s.enc.key) /\ s.enc.key <= r.enc.key
    BY <1>1, <1>8 DEF IdsOf
  <2>2. d \in Having /\ docs[d].type = tag /\ r.enc.key = docs[d].key[1] /\ r.enc.key \in Int
    BY <1>6, <2>1
  <2>3. ~past(r.enc.key)
    BY <2>1, <2>2
  <2>4. QED
    BY <1>4, <2>1, <2>2, <2>3
<1>9. ASSUME NEW d \in Having, docs[d].type = tag, Within(c, docs[d].key[1])
      PROVE  d \in IdsOf(scan_range(docs, tag, c))
  <2>1. PICK x \in Int : x = docs[d].key[1]
    BY <1>9, RowParts
  <2>2. ~past(x) /\ ~below(x) /\ \A b \in lower : x >= b
    BY <1>3, <1>9, <2>1
  <2>3. RowOf(d) \in from /\ RowOf(d).enc.key = x /\ RowOf(d).id = d
    BY <1>7, <1>9, <2>1, <2>2, RowParts, RowsAre
  <2>4. ASSUME NEW s \in from, past(s.enc.key), s.enc.key <= x PROVE FALSE
    BY <1>5, <1>6, <2>2, <2>4
  <2>5. RowOf(d) \in scan_range(docs, tag, c)
    BY <1>1, <2>2, <2>3, <2>4
  <2>6. QED
    BY <2>3, <2>5 DEF IdsOf
<1>10. QED
  BY <1>8, <1>9

\* A scan of one range of the Z-order has everything that is in the box.
LEMMA ScanGeo ==
  ASSUME DocsFormed, NEW box, NEW c,
         \A d \in Having : matches(c, docs[d]) =>
             /\ docs[d].type = "geo" /\ IsPlace(box[1]) /\ IsPlace(box[2])
             /\ InBox(box, docs[d].key)
  PROVE  IdsOf(scan_geo(docs, box, c)) = {d \in Having : matches(c, docs[d])}
<1>1. scan_geo(docs, box, c) = {r \in Rows(docs) : /\ r.enc.tag = "geo"
                                  /\ morton(box[1]) <= r.enc.key /\ r.enc.key <= morton(box[2])
                                  /\ matches(c, docs[r.id])}
  BY DEF scan_geo
<1>2. ASSUME NEW d \in IdsOf(scan_geo(docs, box, c)) PROVE d \in Having /\ matches(c, docs[d])
  <2>1. PICK r \in Rows(docs) : r.id = d /\ matches(c, docs[r.id])
    BY <1>1, <1>2 DEF IdsOf
  <2>2. QED
    BY <2>1, RowsAre
<1>3. ASSUME NEW d \in Having, matches(c, docs[d]) PROVE d \in IdsOf(scan_geo(docs, box, c))
  <2>1. PICK p, lo, hi : p = docs[d].key /\ lo = box[1] /\ hi = box[2]
    OBVIOUS
  <2>2. docs[d].type = "geo" /\ IsPlace(lo) /\ IsPlace(hi) /\ InBox(box, p)
    BY <1>3, <2>1
  <2>3. IsPlace(p) /\ RowOf(d).enc.tag = "geo" /\ RowOf(d).enc.key = morton(p)
    BY <2>1, <2>2, RowParts
  <2>4. lo[1] <= p[1] /\ lo[2] <= p[2] /\ p[1] <= hi[1] /\ p[2] <= hi[2]
    BY <2>1, <2>2 DEF InBox
  <2>5. morton(lo) <= morton(p) /\ morton(p) <= morton(hi)
    BY <2>2, <2>3, <2>4, MortonOrders
  <2>6. RowOf(d) \in Rows(docs) /\ RowOf(d).id = d
    BY RowsAre
  <2>7. RowOf(d) \in scan_geo(docs, box, c)
    BY <1>1, <1>3, <2>1, <2>3, <2>5, <2>6
  <2>8. QED
    BY <2>6, <2>7 DEF IdsOf
<1>4. QED
  BY <1>2, <1>3

\* Scans of the index find for a condition the documents that meet it.
LEMMA ConditionAgrees ==
  ASSUME DocsFormed, NEW c, IsCondition(c)
  PROVE  ids_for_condition(docs, c) = Met(c)
<1>1. /\ \A d \in Having : d \in Live(docs) /\ IsValue(docs[d]) /\ IsField(docs[d])
      /\ \A d \in Live(docs) : IsField(docs[d]) /\ (d \notin Having => docs[d] = Bare)
  BY RowsAre
<1>2. Bare.type = "none" /\ \A v : IsValue(v) => v.type # "none"
  BY DEF Bare, Value, IsValue, Types, Surfaces
<1>3. Met(c) = {d \in Live(docs) : Holds(c, docs[d])}
  BY DEF Met
<1>4. CASE c.op = "eq"
  <2>1. IsValue(c.value) /\ IsField(c.value)
    BY <1>4 DEF IsCondition, IsField
  <2>2. ids_for_condition(docs, c) = IdsOf(scan_value(docs, c.value))
    BY <1>4 DEF ids_for_condition
  <2>3. IdsOf(scan_value(docs, c.value)) = {d \in Having : Canon(docs[d]) = Canon(c.value)}
    BY <2>1, ScanValue
  <2>4. \A d \in Live(docs) : Holds(c, docs[d]) <=> Canon(docs[d]) = Canon(c.value)
    BY <1>1, <1>4, HoldsHow
  <2>5. \A d \in Live(docs) : Canon(docs[d]) = Canon(c.value) => d \in Having
    <3>1. SUFFICES ASSUME NEW d \in Live(docs), Canon(docs[d]) = Canon(c.value), d \notin Having PROVE FALSE
      OBVIOUS
    <3>2. docs[d].type = c.value.type
      BY <1>1, <2>1, <3>1, SameCanon
    <3>3. QED
      BY <1>1, <1>2, <2>1, <3>1, <3>2
  <2>6. QED
    BY <1>1, <1>3, <2>2, <2>3, <2>4, <2>5
<1>5. CASE c.op = "any"
  <2>1. \A w \in c.values : IsValue(w) /\ IsField(w)
    BY <1>5 DEF IsCondition, IsField
  <2>2. ids_for_condition(docs, c) = IdsOf(UNION {scan_value(docs, w) : w \in c.values})
    BY <1>5 DEF ids_for_condition
  <2>3. \A d : d \in ids_for_condition(docs, c) <=> \E w \in c.values : d \in IdsOf(scan_value(docs, w))
    BY <2>2 DEF IdsOf
  <2>4. \A w \in c.values : IdsOf(scan_value(docs, w)) = {d \in Having : Canon(docs[d]) = Canon(w)}
    BY <2>1, ScanValue
  <2>5. \A d \in Live(docs) : Holds(c, docs[d]) <=> \E w \in c.values : Canon(docs[d]) = Canon(w)
    BY <1>1, <1>5, HoldsHow
  <2>6. \A d \in Live(docs) : \A w \in c.values : Canon(docs[d]) = Canon(w) => d \in Having
    <3>1. SUFFICES ASSUME NEW d \in Live(docs), NEW w \in c.values, Canon(docs[d]) = Canon(w), d \notin Having
                   PROVE  FALSE
      OBVIOUS
    <3>2. docs[d].type = w.type
      BY <1>1, <2>1, <3>1, SameCanon
    <3>3. QED
      BY <1>1, <1>2, <2>1, <3>1, <3>2
  <2>7. ASSUME NEW d \in ids_for_condition(docs, c) PROVE d \in Met(c)
    BY <1>1, <1>3, <2>3, <2>4, <2>5
  <2>8. ASSUME NEW d \in Met(c) PROVE d \in ids_for_condition(docs, c)
    BY <1>3, <2>3, <2>4, <2>5, <2>6
  <2>9. QED
    BY <2>7, <2>8
<1>6. ASSUME NEW tag, tag # "geo", tag # "none", c.gt \cup c.gte \cup c.lt \cup c.lte \subseteq Int,
             ids_for_condition(docs, c) = IdsOf(scan_range(docs, tag, c)),
             \A d \in Live(docs) : Holds(c, docs[d]) <=> docs[d].type = tag /\ Within(c, docs[d].key[1])
      PROVE  ids_for_condition(docs, c) = Met(c)
  <2>1. IdsOf(scan_range(docs, tag, c)) = {d \in Having : docs[d].type = tag /\ Within(c, docs[d].key[1])}
    BY <1>6, ScanRange
  <2>2. \A d \in Live(docs) : docs[d].type = tag => d \in Having
    BY <1>1, <1>2, <1>6
  <2>3. QED
    BY <1>1, <1>3, <1>6, <2>1, <2>2
<1>7. CASE c.op = "range"
  <2>1. c.gt \cup c.gte \cup c.lt \cup c.lte \subseteq Int
    BY <1>7 DEF IsCondition
  <2>2. ids_for_condition(docs, c) = IdsOf(scan_range(docs, "num", c))
    BY <1>7 DEF ids_for_condition
  <2>3. \A d \in Live(docs) : Holds(c, docs[d]) <=> docs[d].type = "num" /\ Within(c, docs[d].key[1])
    BY <1>1, <1>7, HoldsHow
  <2>4. QED
    BY <1>6, <2>1, <2>2, <2>3
<1>8. CASE c.op = "date_range"
  <2>1. c.gt \cup c.gte \cup c.lt \cup c.lte \subseteq Int
    BY <1>8 DEF IsCondition
  <2>2. ids_for_condition(docs, c) = IdsOf(scan_range(docs, "dt", c))
    BY <1>8 DEF ids_for_condition
  <2>3. \A d \in Live(docs) : Holds(c, docs[d]) <=> docs[d].type = "dt" /\ Within(c, docs[d].key[1])
    BY <1>1, <1>8, HoldsHow
  <2>4. QED
    BY <1>6, <2>1, <2>2, <2>3
<1>9. CASE c.op = "geo_radius"
  <2>1. IsPlace(c.center) /\ c.radius \in Nat
    BY <1>9 DEF IsCondition
  <2>2. \A d : matches(c, docs[d]) <=> docs[d].type = "geo" /\ Near(c, docs[d].key)
    BY <1>9 DEF matches
  <2>3. \A d \in Having : matches(c, docs[d]) =>
           /\ docs[d].type = "geo" /\ IsPlace(radius_bbox(c)[1]) /\ IsPlace(radius_bbox(c)[2])
           /\ InBox(radius_bbox(c), docs[d].key)
    <3>1. SUFFICES ASSUME NEW d \in Having, docs[d].type = "geo", Near(c, docs[d].key)
                   PROVE  /\ IsPlace(radius_bbox(c)[1]) /\ IsPlace(radius_bbox(c)[2])
                          /\ InBox(radius_bbox(c), docs[d].key)
      BY <2>2
    <3>2. IsPlace(docs[d].key)
      BY <3>1, RowParts
    <3>3. QED
      BY <2>1, <3>1, <3>2, CircleInBox
  <2>4. ids_for_condition(docs, c) = IdsOf(scan_geo(docs, radius_bbox(c), c))
    BY <1>9 DEF ids_for_condition
  <2>5. IdsOf(scan_geo(docs, radius_bbox(c), c)) = {d \in Having : matches(c, docs[d])}
    BY <2>3, ScanGeo
  <2>6. \A d \in Live(docs) : Holds(c, docs[d]) <=> docs[d].type = "geo" /\ Near(c, docs[d].key)
    BY <1>1, <1>9, HoldsHow
  <2>7. \A d \in Live(docs) : docs[d].type = "geo" => d \in Having
    BY <1>1, <1>2
  <2>8. QED
    BY <1>1, <1>3, <2>2, <2>4, <2>5, <2>6, <2>7
<1>10. CASE c.op = "geo_box"
  <2>1. IsPlace(c.box[1]) /\ IsPlace(c.box[2])
    BY <1>10 DEF IsCondition
  <2>2. \A d : matches(c, docs[d]) <=> docs[d].type = "geo" /\ InBox(c.box, docs[d].key)
    BY <1>10 DEF matches
  <2>3. \A d \in Having : matches(c, docs[d]) =>
           /\ docs[d].type = "geo" /\ IsPlace(c.box[1]) /\ IsPlace(c.box[2]) /\ InBox(c.box, docs[d].key)
    BY <2>1, <2>2
  <2>4. ids_for_condition(docs, c) = IdsOf(scan_geo(docs, c.box, c))
    BY <1>10 DEF ids_for_condition
  <2>5. IdsOf(scan_geo(docs, c.box, c)) = {d \in Having : matches(c, docs[d])}
    BY <2>3, ScanGeo
  <2>6. \A d \in Live(docs) : Holds(c, docs[d]) <=> docs[d].type = "geo" /\ InBox(c.box, docs[d].key)
    BY <1>1, <1>10, HoldsHow
  <2>7. \A d \in Live(docs) : docs[d].type = "geo" => d \in Having
    BY <1>1, <1>2
  <2>8. QED
    BY <1>1, <1>3, <2>2, <2>4, <2>5, <2>6, <2>7
<1>11. CASE c.op = "exists"
  <2>1. ids_for_condition(docs, c) = IdsOf(Rows(docs))
    BY <1>11 DEF ids_for_condition
  <2>2. IdsOf(Rows(docs)) = Having
    BY RowsAre DEF IdsOf
  <2>3. \A d \in Live(docs) : Holds(c, docs[d]) <=> docs[d].type # "none"
    BY <1>1, <1>11, HoldsHow
  <2>4. QED
    BY <1>1, <1>2, <1>3, <2>1, <2>2, <2>3
<1>12. QED
  BY <1>4, <1>5, <1>7, <1>8, <1>9, <1>10, <1>11 DEF IsCondition

\* must, should and must_not combine the sets as they combine the verdicts.
LEMMA FilterAgrees ==
  ASSUME DocsFormed, NEW f, IsFilter(f), f.must # {} \/ f.should # {}
  PROVE  ids_where(f, docs) = Matching(CanonFilter(f), [d \in Ids |-> Canon(docs[d])])
<1>1. PICK cd : cd = [d \in Ids |-> Canon(docs[d])]
  OBVIOUS
<1>2. PICK g : g = CanonFilter(f)
  OBVIOUS
<1>3. /\ g.must = {CanonCondition(c) : c \in f.must} /\ g.should = {CanonCondition(c) : c \in f.should}
      /\ g.must_not = {CanonCondition(c) : c \in f.must_not}
  BY <1>2 DEF CanonFilter, IsFilter
<1>4. \A c : c \in f.must \/ c \in f.should \/ c \in f.must_not => IsCondition(c)
  BY DEF IsFilter
<1>5. \A c : c \in f.must \/ c \in f.should \/ c \in f.must_not => ids_for_condition(docs, c) = Met(c)
  BY <1>4, ConditionAgrees
<1>6. Live(cd) = Live(docs) /\ \A d \in Live(docs) : d \in Ids /\ cd[d] = Canon(docs[d])
  <2>1. DOMAIN cd = Ids /\ DOMAIN docs = Ids /\ \A d \in Ids : cd[d] = Canon(docs[d])
    BY <1>1 DEF DocsFormed
  <2>2. Canon(NoDoc) = NoDoc
    BY DEF Canon, NoDoc, Value
  <2>3. \A d \in Ids : docs[d] # NoDoc => Canon(docs[d]) # NoDoc
    BY FieldParts DEF DocsFormed
  <2>4. QED
    BY <2>1, <2>2, <2>3 DEF Live
<1>7. \A d \in Live(docs) : filter_matches(g, cd[d]) <=>
         /\ \A c \in f.must : Holds(c, docs[d])
         /\ f.should = {} \/ \E c \in f.should : Holds(c, docs[d])
         /\ ~\E c \in f.must_not : Holds(c, docs[d])
  <2>1. SUFFICES ASSUME NEW d \in Live(docs)
                 PROVE  filter_matches(g, cd[d]) <=>
                          /\ \A c \in f.must : Holds(c, docs[d])
                          /\ f.should = {} \/ \E c \in f.should : Holds(c, docs[d])
                          /\ ~\E c \in f.must_not : Holds(c, docs[d])
    OBVIOUS
  <2>2. \A c : matches(CanonCondition(c), cd[d]) <=> Holds(c, docs[d])
    BY <1>6 DEF Holds
  <2>3. (\A e \in g.must : matches(e, cd[d])) <=> \A c \in f.must : Holds(c, docs[d])
    BY <1>3, <2>2
  <2>4. (\E e \in g.should : matches(e, cd[d])) <=> \E c \in f.should : Holds(c, docs[d])
    BY <1>3, <2>2
  <2>5. (\E e \in g.must_not : matches(e, cd[d])) <=> \E c \in f.must_not : Holds(c, docs[d])
    BY <1>3, <2>2
  <2>6. g.should = {} <=> f.should = {}
    BY <1>3
  <2>7. QED
    BY <2>3, <2>4, <2>5, <2>6 DEF filter_matches
<1>8. ids_where(f, docs) =
        ({d \in DOMAIN docs : \A c \in f.must : d \in ids_for_condition(docs, c)}
         \cap (IF f.should = {} THEN DOMAIN docs ELSE UNION {ids_for_condition(docs, c) : c \in f.should}))
        \ UNION {ids_for_condition(docs, c) : c \in f.must_not}
  BY DEF ids_where
<1>9. \A c, d : d \in Met(c) <=> d \in Live(docs) /\ Holds(c, docs[d])
  BY DEF Met
<1>10. Live(docs) \subseteq DOMAIN docs
  BY DEF Live
<1>11. \A d : d \in ids_where(f, docs) <=>
          /\ d \in DOMAIN docs /\ \A c \in f.must : d \in Met(c)
          /\ f.should = {} \/ \E c \in f.should : d \in Met(c)
          /\ ~\E c \in f.must_not : d \in Met(c)
  BY <1>5, <1>8
<1>12. \A d : d \in ids_where(f, docs) <=>
          /\ d \in Live(docs) /\ \A c \in f.must : Holds(c, docs[d])
          /\ f.should = {} \/ \E c \in f.should : Holds(c, docs[d])
          /\ ~\E c \in f.must_not : Holds(c, docs[d])
  BY <1>9, <1>10, <1>11
<1>13. Matching(g, cd) = {d \in Live(docs) : filter_matches(g, cd[d])}
  BY <1>6 DEF Matching
<1>14. \A d : d \in Matching(g, cd) <=> d \in ids_where(f, docs)
  BY <1>7, <1>12, <1>13
<1>15. Matching(g, cd) \subseteq ids_where(f, docs) /\ ids_where(f, docs) \subseteq Matching(g, cd)
  BY <1>14
<1>16. QED
  BY <1>1, <1>2, <1>15

\* A facet read from the rows counts what the documents hold.
LEMMA FacetAgrees == ASSUME DocsFormed PROVE facet(docs, indexed) = facet_scan(docs)
<1>1. CASE ~(indexed /\ \A r \in Rows(docs) : r.enc.tag \in Surfaces)
  BY <1>1 DEF facet
<1>2. CASE indexed /\ \A r \in Rows(docs) : r.enc.tag \in Surfaces
  <2>1. PICK t, u : /\ t = [d \in IdsOf(Rows(docs)) |->
                              Text(Value(docs[d].type, <<encode_pidx_value(docs[d]).key>>, 0))]
                    /\ u = [d \in {e \in Live(docs) : docs[e] # Bare} |-> Text(docs[d])]
    OBVIOUS
  <2>2. facet(docs, indexed) = Counted(t) /\ facet_scan(docs) = Counted(u)
    BY <1>2, <2>1 DEF facet, facet_scan
  <2>3. IdsOf(Rows(docs)) = Having /\ {e \in Live(docs) : docs[e] # Bare} = Having
    BY RowsAre DEF IdsOf, Having
  <2>4. ASSUME NEW d \in Having
        PROVE  Text(Value(docs[d].type, <<encode_pidx_value(docs[d]).key>>, 0)) = Text(docs[d])
    <3>1. IsValue(docs[d]) /\ RowOf(d) \in Rows(docs) /\ RowOf(d).enc.tag = docs[d].type
      BY RowsAre, RowParts
    <3>2. docs[d].type \in Surfaces /\ docs[d].type # "geo"
      BY <1>2, <3>1 DEF Surfaces
    <3>3. PICK k \in Seq(Int) : k = docs[d].key /\ Len(k) = 1 /\ docs[d].spelling = 0
      BY <3>1, <3>2 DEF IsValue
    <3>4. encode_pidx_value(docs[d]).key = k[1]
      BY <3>2, <3>3 DEF encode_pidx_value
    <3>5. k = <<k[1]>>
      <4>1. <<k[1]>> \in Seq(Int) /\ Len(<<k[1]>>) = 1 /\ \A i \in 1..1 : k[i] = <<k[1]>>[i]
        BY <3>3
      <4>2. QED
        BY <3>3, <4>1, SeqEqual
    <3>6. QED
      BY <3>3, <3>4, <3>5 DEF Text, Value
  <2>5. t = u
    BY <2>1, <2>3, <2>4
  <2>6. QED
    BY <2>2, <2>5
<1>3. QED
  BY <1>1, <1>2

\* filter.rs, keys.rs: whatever is written, for every filter of the language the sorted scans
\* of the index, with their early end and their Z-order range, give exactly the documents whose
\* metadata match, up to spelling, and a facet from the rows counts what the documents hold.
THEOREM IndexAlwaysAgrees == QuerySpec => []IndexAgrees
<1>1. QueryInit => DocsFormed
  BY ValuesAssumption DEF QueryInit, DocsFormed, IsField
<1>2. DocsFormed /\ [QueryNext]_queryVars => DocsFormed'
  <2>1. SUFFICES ASSUME DocsFormed, [QueryNext]_queryVars PROVE DocsFormed'
    OBVIOUS
  <2>2. CASE \E d \in Ids, v \in Values \cup {Bare, NoDoc} : Write(d, v)
    <3>1. PICK d \in Ids, v \in Values \cup {Bare, NoDoc} : docs' = [docs EXCEPT ![d] = v]
      BY <2>2 DEF Write
    <3>2. IsField(v) \/ v = NoDoc
      BY <3>1, ValuesAssumption DEF IsField
    <3>3. DOMAIN docs' = Ids /\ \A e \in Ids : docs'[e] = IF e = d THEN v ELSE docs[e]
      BY <2>1, <3>1 DEF DocsFormed
    <3>4. QED
      BY <2>1, <3>2, <3>3 DEF DocsFormed, IsField, IsValue
  <2>3. CASE UNCHANGED docs
    BY <2>1, <2>3 DEF DocsFormed, IsField, IsValue
  <2>4. CASE QueryStep
    <3>1. docs' = docs
      BY <2>4 DEF QueryStep, Submit, Prefetch, ResolveScope, ResolveFilter, Search, FuseSparse, Rescore,
                  PostFilter, Page, Group, Examples, Recommend, Discover, Contextualise, Deliver, Quietly
    <3>2. QED
      BY <2>3, <3>1
  <2>5. CASE UNCHANGED queryVars
    BY <2>3, <2>5 DEF queryVars
  <2>6. QED
    BY <2>1, <2>2, <2>4, <2>5 DEF QueryNext
<1>3. DocsFormed => IndexAgrees
  <2>1. SUFFICES ASSUME DocsFormed PROVE IndexAgrees
    OBVIOUS
  <2>2. ASSUME NEW q \in Queries, Resolvable(effective_filter(q), indexed)
        PROVE  ids_where(effective_filter(q), docs)
                   = Matching(CanonFilter(effective_filter(q)), [d \in Ids |-> Canon(docs[d])])
    <3>1. PICK f : f = effective_filter(q)
      OBVIOUS
    <3>2. IsFilter(f) /\ (f.must # {} \/ f.should # {})
      BY <2>2, <3>1, QueriesAssumption DEF Resolvable, IsQuery
    <3>3. QED
      BY <2>1, <3>1, <3>2, FilterAgrees
  <2>3. facet(docs, indexed) = facet_scan(docs)
    BY <2>1, FacetAgrees
  <2>4. QED
    BY <2>2, <2>3 DEF IndexAgrees
<1>4. QED
  BY <1>1, <1>2, <1>3, PTL DEF QuerySpec

----------------------------------------------------------------------------
(* Lists of candidates.                                                    *)

Fields == Values \cup Stored \cup {Bare, NoDoc}
Cands == [id : Ids, score : Int, meta : Fields \cup {Lean}]

\* A list of candidates that names every id once, and the ids it names.
Listing(s) == s \in Seq(Cands) /\ \A i, j \in 1..Len(s) : s[i].id = s[j].id => i = j
IdSet(s) == {s[i].id : i \in 1..Len(s)}

\* The payload a candidate carries, if any, is one its document has had.
Backed(s, seen) == \A i \in 1..Len(s) : s[i].meta = Lean \/ s[i].meta \in seen[s[i].id]

\* A list of some places of another, each once and in any order, with the payloads they had.
From(t, s) ==
    /\ t \in Seq(Cands)
    /\ \E at \in [1..Len(t) -> 1..Len(s)] :
          /\ \A i \in 1..Len(t) : t[i].id = s[at[i]].id /\ t[i].meta = s[at[i]].meta
          /\ \A i, j \in 1..Len(t) : at[i] = at[j] => i = j

LEMMA FromLists ==
  ASSUME NEW s, NEW t, From(t, s), Listing(s)
  PROVE  /\ Listing(t) /\ IdSet(t) \subseteq IdSet(s)
         /\ \A i \in 1..Len(t) : \E j \in 1..Len(s) : t[i].id = s[j].id /\ t[i].meta = s[j].meta
<1>1. PICK at \in [1..Len(t) -> 1..Len(s)] :
          /\ \A i \in 1..Len(t) : t[i].id = s[at[i]].id /\ t[i].meta = s[at[i]].meta
          /\ \A i, j \in 1..Len(t) : at[i] = at[j] => i = j
  BY DEF From
<1>2. t \in Seq(Cands)
  BY DEF From
<1>3. ASSUME NEW i \in 1..Len(t), NEW j \in 1..Len(t), t[i].id = t[j].id PROVE i = j
  <2>1. at[i] \in 1..Len(s) /\ at[j] \in 1..Len(s) /\ s[at[i]].id = s[at[j]].id
    BY <1>1, <1>3
  <2>2. at[i] = at[j]
    BY <2>1 DEF Listing
  <2>3. QED
    BY <1>1, <2>2
<1>4. ASSUME NEW i \in 1..Len(t)
      PROVE  /\ t[i].id \in IdSet(s)
             /\ \E j \in 1..Len(s) : t[i].id = s[j].id /\ t[i].meta = s[j].meta
  <2>1. at[i] \in 1..Len(s) /\ t[i].id = s[at[i]].id /\ t[i].meta = s[at[i]].meta
    BY <1>1
  <2>2. QED
    BY <2>1 DEF IdSet
<1>5. Listing(t)
  BY <1>2, <1>3 DEF Listing
<1>6. IdSet(t) \subseteq IdSet(s)
  BY <1>4 DEF IdSet
<1>7. QED
  BY <1>4, <1>5, <1>6

\* Leaving out.
LEMMA KeptFrom ==
  ASSUME NEW s \in Seq(Cands), NEW P, P \subseteq 1..Len(s)
  PROVE  From(KeptAt(s, P), s) /\ Len(KeptAt(s, P)) = Cardinality(P)
<1>1. PICK k : k = KeptAt(s, P)
  OBVIOUS
<1>2. k \in Seq(Cands) /\ Len(k) = Cardinality(P) /\ Picks(k, s, P)
  BY <1>1, KeepsPlaces
<1>3. PICK at \in [1..Len(k) -> P] :
         /\ \A i \in 1..Len(k) : k[i] = s[at[i]]
         /\ \A i, j \in 1..Len(k) : at[i] = at[j] => i = j
  BY <1>2 DEF Picks
<1>4. at \in [1..Len(k) -> 1..Len(s)]
  BY <1>3
<1>5. \A i \in 1..Len(k) : k[i].id = s[at[i]].id /\ k[i].meta = s[at[i]].meta
  BY <1>3
<1>6. From(k, s)
  BY <1>2, <1>3, <1>4, <1>5 DEF From
<1>7. QED
  BY <1>1, <1>2, <1>6

\* The least of a set of two numbers, and the greatest.
LEMMA LeastOfTwo ==
  ASSUME NEW a \in Int, NEW b \in Int
  PROVE  /\ Min({a, b}) = IF a <= b THEN a ELSE b
         /\ Max({a, b}) = IF a <= b THEN b ELSE a
<1>1. PICK m \in {a, b} : \A y \in {a, b} : m <= y
  OBVIOUS
<1>2. PICK x \in {a, b} : \A y \in {a, b} : x >= y
  OBVIOUS
<1>3. Min({a, b}) \in {a, b} /\ \A y \in {a, b} : Min({a, b}) <= y
  BY <1>1 DEF Min
<1>4. Max({a, b}) \in {a, b} /\ \A y \in {a, b} : Max({a, b}) >= y
  BY <1>2 DEF Max
<1>5. QED
  BY <1>3, <1>4

\* The first of a list.
LEMMA TakeFrom ==
  ASSUME NEW s \in Seq(Cands), NEW n \in Nat, NEW t, t = Take(s, n)
  PROVE  /\ From(t, s) /\ Len(t) = (IF n <= Len(s) THEN n ELSE Len(s))
         /\ \A i \in 1..Len(t) : i \in 1..Len(s) /\ t[i] = s[i]
<1>1. PICK m \in Nat : m = IF n <= Len(s) THEN n ELSE Len(s)
  OBVIOUS
<1>2. Len(s) \in Nat /\ m <= Len(s)
  BY <1>1
<1>3. t = SubSeq(s, 1, m)
  BY <1>1, <1>2, LeastOfTwo DEF Take
<1>4. \A i \in 1..m : i \in 1..Len(s) /\ s[i] \in Cands
  BY <1>2, ElementOfSeq
<1>5. t \in Seq(Cands) /\ Len(t) = m /\ \A i \in 1..m : t[i] = s[i]
  <2>1. /\ SubSeq(s, 1, m) \in Seq(Cands)
        /\ Len(SubSeq(s, 1, m)) = IF 1 <= m THEN m - 1 + 1 ELSE 0
        /\ \A i \in 1..(m - 1 + 1) : SubSeq(s, 1, m)[i] = s[1 + i - 1]
    BY <1>2, <1>4, SubSeqProperties
  <2>2. QED
    BY <1>3, <2>1
<1>6. PICK at : at = [i \in 1..m |-> i]
  OBVIOUS
<1>7. at \in [1..Len(t) -> 1..Len(s)] /\ \A i \in 1..Len(t) : at[i] = i
  BY <1>4, <1>5, <1>6
<1>8. /\ t \in Seq(Cands) /\ at \in [1..Len(t) -> 1..Len(s)]
      /\ \A i \in 1..Len(t) : t[i].id = s[at[i]].id /\ t[i].meta = s[at[i]].meta
      /\ \A i, j \in 1..Len(t) : at[i] = at[j] => i = j
  BY <1>5, <1>7
<1>9. From(t, s)
  BY <1>8 DEF From
<1>10. QED
  BY <1>1, <1>4, <1>5, <1>9

\* The rest of a list.
LEMMA DropFrom ==
  ASSUME NEW s \in Seq(Cands), NEW n \in Nat, NEW t, t = Drop(s, n)
  PROVE  From(t, s) /\ Len(t) = (IF n <= Len(s) THEN Len(s) - n ELSE 0)
<1>1. PICK l \in Nat : l = Len(s)
  OBVIOUS
<1>2. t = SubSeq(s, n + 1, l)
  BY <1>1 DEF Drop
<1>3. \A i \in (n + 1)..l : i \in 1..Len(s) /\ s[i] \in Cands
  BY <1>1, ElementOfSeq
<1>4. /\ t \in Seq(Cands) /\ Len(t) = (IF n + 1 <= l THEN l - (n + 1) + 1 ELSE 0)
      /\ \A i \in 1..(l - (n + 1) + 1) : t[i] = s[n + 1 + i - 1]
  BY <1>2, <1>3, SubSeqProperties
<1>5. Len(t) = IF n <= l THEN l - n ELSE 0
  BY <1>4
<1>6. \A i \in 1..Len(t) : n + i \in 1..l /\ t[i] = s[n + i]
  <2>1. ASSUME NEW i \in 1..Len(t) PROVE n + i \in 1..l /\ t[i] = s[n + i]
    <3>1. n + i \in 1..l /\ i \in 1..(l - (n + 1) + 1) /\ n + 1 + i - 1 = n + i
      BY <1>5
    <3>2. QED
      BY <1>4, <3>1
  <2>2. QED
    BY <2>1
<1>7. PICK at : at = [i \in 1..Len(t) |-> n + i]
  OBVIOUS
<1>8. at \in [1..Len(t) -> 1..Len(s)] /\ \A i \in 1..Len(t) : at[i] = n + i
  BY <1>1, <1>6, <1>7
<1>9. \A i, j \in 1..Len(t) : at[i] = at[j] => i = j
  BY <1>8
<1>10. From(t, s)
  <2>1. t \in Seq(Cands) /\ \A i \in 1..Len(t) : t[i].id = s[at[i]].id /\ t[i].meta = s[at[i]].meta
    BY <1>4, <1>6, <1>8
  <2>2. QED
    BY <1>8, <1>9, <2>1 DEF From
<1>11. QED
  BY <1>1, <1>5, <1>10

\* A list is as long as it names ids.
LEMMA ListSize ==
  ASSUME NEW s, Listing(s)
  PROVE  IsFiniteSet(IdSet(s)) /\ Cardinality(IdSet(s)) = Len(s) /\ IdSet(s) \subseteq Ids
<1>1. PICK n \in Nat : n = Len(s)
  BY DEF Listing
<1>2. \A i \in 1..n : s[i] \in Cands
  BY <1>1, ElementOfSeq DEF Listing
<1>3. PICK f : f = [i \in 1..n |-> s[i].id]
  OBVIOUS
<1>4. f \in Bijection(1..n, IdSet(s))
  <2>1. f \in [1..n -> IdSet(s)]
    BY <1>1, <1>3 DEF IdSet
  <2>2. \A i, j \in 1..n : f[i] = f[j] => i = j
    BY <1>1, <1>3 DEF Listing
  <2>3. \A d \in IdSet(s) : \E i \in 1..n : f[i] = d
    BY <1>1, <1>3 DEF IdSet
  <2>4. QED
    BY <2>1, <2>2, <2>3 DEF Bijection, Injection, Surjection, IsInjective
<1>5. IsFiniteSet(1..n) /\ Cardinality(1..n) = n
  BY FS_Interval
<1>6. IsFiniteSet(IdSet(s)) /\ Cardinality(IdSet(s)) = n
  BY <1>4, <1>5, FS_Bijection DEF ExistsBijection
<1>7. IdSet(s) \subseteq Ids
  BY <1>1, <1>2 DEF IdSet, Cands
<1>8. QED
  BY <1>1, <1>6, <1>7

\* A ranking names what is ranked.
LEMMA RankingLists ==
  ASSUME NEW S, S \subseteq Ids, NEW score, \A d \in S : score[d] \in Int, NEW r, r = Ranking(S, score)
  PROVE  /\ Listing(r) /\ IdSet(r) = S
         /\ \A i \in 1..Len(r) : r[i].meta = Lean /\ r[i].score = score[r[i].id]
<1>1. IsFiniteSet(S) /\ S \subseteq Int
  BY IdsAssumption, FS_Subset
<1>2. PICK B : B = [d \in S |-> {e \in S : score[e] > score[d] \/ (score[e] = score[d] /\ e < d)}]
  OBVIOUS
<1>3. \A d \in S : B[d] = {e \in S : score[e] > score[d] \/ (score[e] = score[d] /\ e < d)}
  BY <1>2
<1>4. Orders(B, S)
  <2>1. B \in [S -> SUBSET S]
    BY <1>2
  <2>2. \A a, b \in S : a \in B[b] <=> score[a] > score[b] \/ (score[a] = score[b] /\ a < b)
    BY <1>3
  <2>3. \A a \in S : a \notin B[a]
    BY <1>1, <2>2
  <2>4. \A a, b \in S : a # b => a \in B[b] \/ b \in B[a]
    BY <1>1, <2>2
  <2>5. ASSUME NEW a \in S, NEW b \in S, a \in B[b], NEW c \in B[a] PROVE c \in B[b]
    <3>1. c \in S
      BY <2>1
    <3>2. /\ score[a] > score[b] \/ (score[a] = score[b] /\ a < b)
          /\ score[c] > score[a] \/ (score[c] = score[a] /\ c < a)
      BY <2>2, <2>5, <3>1
    <3>3. score[c] > score[b] \/ (score[c] = score[b] /\ c < b)
      BY <1>1, <3>1, <3>2
    <3>4. QED
      BY <2>2, <3>1, <3>3
  <2>6. QED
    BY <2>1, <2>3, <2>4, <2>5 DEF Orders
<1>5. PICK ids : ids = Arranged(S, B)
  OBVIOUS
<1>6. /\ ids \in Seq(S)
      /\ \A i, j \in 1..Len(ids) : ids[i] = ids[j] => i = j
      /\ \A x \in S : \E i \in 1..Len(ids) : ids[i] = x
  BY <1>1, <1>4, <1>5, ArrangesEachOnce
<1>7. r = [i \in DOMAIN ids |-> Cand(ids[i], score[ids[i]], Lean)]
  BY <1>2, <1>5 DEF Ranking
<1>8. PICK n \in Nat : n = Len(ids) /\ DOMAIN ids = 1..n
  BY <1>6
<1>9. \A i \in 1..n : ids[i] \in S
  BY <1>6, <1>8, ElementOfSeq
<1>10. ASSUME NEW i \in 1..n
       PROVE  /\ r[i] \in Cands /\ r[i].id = ids[i] /\ r[i].meta = Lean
              /\ r[i].score = score[ids[i]]
  <2>1. r[i] = [id |-> ids[i], score |-> score[ids[i]], meta |-> Lean]
    BY <1>7, <1>8 DEF Cand
  <2>2. QED
    BY <1>9, <2>1 DEF Cands
<1>11. r \in Seq(Cands) /\ Len(r) = n
  <2>1. r = [i \in 1..n |-> r[i]]
    BY <1>7, <1>8
  <2>2. QED
    BY <1>10, <2>1
<1>12. Listing(r)
  BY <1>6, <1>8, <1>10, <1>11 DEF Listing
<1>13. IdSet(r) = S
  BY <1>6, <1>8, <1>9, <1>10, <1>11 DEF IdSet
<1>14. QED
  BY <1>10, <1>11, <1>12, <1>13

\* Every candidate of k is one of s at the places P.
TakenFrom(k, s, P) == \A i \in 1..Len(k) : \E p \in P : k[i] = s[p]

\* What is left of a list names what was at the places kept.
LEMMA KeptLists ==
  ASSUME NEW s, Listing(s), NEW P, P \subseteq 1..Len(s), NEW k, k = KeptAt(s, P)
  PROVE  /\ Listing(k) /\ IdSet(k) = {s[p].id : p \in P} /\ IdSet(k) \subseteq IdSet(s)
         /\ TakenFrom(k, s, P)
<1>1. s \in Seq(Cands)
  BY DEF Listing
<1>2. From(k, s)
  BY <1>1, KeptFrom
<1>3. Listing(k) /\ IdSet(k) \subseteq IdSet(s)
  BY <1>2, FromLists
<1>4. PICK at \in [1..Len(k) -> P] :
         /\ \A i \in 1..Len(k) : k[i] = s[at[i]]
         /\ \A p \in P : \E i \in 1..Len(k) : at[i] = p
  <2>1. Picks(k, s, P)
    BY <1>1, KeepsPlaces
  <2>2. QED
    BY <2>1 DEF Picks
<1>5. \A i \in 1..Len(k) : at[i] \in P /\ k[i] = s[at[i]]
  BY <1>4
<1>6. IdSet(k) \subseteq {s[p].id : p \in P}
  BY <1>5 DEF IdSet
<1>7. ASSUME NEW p \in P PROVE s[p].id \in IdSet(k)
  <2>1. PICK i \in 1..Len(k) : at[i] = p
    BY <1>4
  <2>2. QED
    BY <1>5, <2>1 DEF IdSet
<1>8. TakenFrom(k, s, P)
  BY <1>5 DEF TakenFrom
<1>9. QED
  BY <1>3, <1>6, <1>7, <1>8

DocsTyped == docs \in [Ids -> Fields]

\* A candidate of a list.
LEMMA CandParts ==
  ASSUME NEW s, Listing(s), NEW i \in 1..Len(s)
  PROVE  /\ s[i] \in Cands /\ s[i].id \in Ids /\ s[i].id \in IdSet(s) /\ s[i].score \in Int
         /\ s[i].meta \in Fields \cup {Lean}
<1>1. s[i] \in Cands
  BY ElementOfSeq DEF Listing
<1>2. QED
  BY <1>1 DEF Cands, IdSet

\* A list with new payloads.
LEMMA Relabelled ==
  ASSUME NEW s, Listing(s), NEW t, DOMAIN t = 1..Len(s), t = [i \in 1..Len(s) |-> t[i]],
         \A i \in 1..Len(s) : t[i] \in Cands /\ t[i].id = s[i].id
  PROVE  Listing(t) /\ IdSet(t) = IdSet(s) /\ Len(t) = Len(s)
<1>1. PICK n \in Nat : n = Len(s)
  BY DEF Listing
<1>2. t \in Seq(Cands) /\ Len(t) = n
  BY <1>1
<1>3. Listing(t)
  BY <1>1, <1>2 DEF Listing
<1>4. IdSet(t) = IdSet(s)
  BY <1>1, <1>2 DEF IdSet
<1>5. QED
  BY <1>1, <1>2, <1>3, <1>4

\* A hydrated candidate carries the document of the moment.
LEMMA HydratedIs ==
  ASSUME DocsTyped, NEW c \in Cands
  PROVE  Hydrated(c) \in Cands /\ Hydrated(c).id = c.id /\ Hydrated(c).meta = docs[c.id]
         /\ Hydrated(c).score = c.score
<1>1. c.id \in Ids /\ c.score \in Int /\ docs[c.id] \in Fields
  BY DEF Cands, DocsTyped
<1>2. Hydrated(c) = [id |-> c.id, score |-> c.score, meta |-> docs[c.id]]
  BY DEF Hydrated, Cands
<1>3. QED
  BY <1>1, <1>2 DEF Cands

\* Fetching drops what is gone.
LEMMA FetchedLists ==
  ASSUME DocsTyped, NEW s, Listing(s), NEW f, f = Fetched(s)
  PROVE  /\ Listing(f) /\ IdSet(f) = IdSet(s) \cap Live(docs)
         /\ \A i \in 1..Len(f) : f[i].meta = docs[f[i].id]
<1>1. PICK P : P = {i \in 1..Len(s) : docs[s[i].id] # NoDoc}
  OBVIOUS
<1>2. PICK e : e = KeptAt(s, P)
  OBVIOUS
<1>3. DOMAIN s = 1..Len(s)
  BY DEF Listing
<1>4. e = Existing(s)
  BY <1>1, <1>2, <1>3 DEF Existing
<1>5. Listing(e) /\ IdSet(e) = {s[p].id : p \in P}
  BY <1>1, <1>2, KeptLists
<1>6. PICK n \in Nat : n = Len(e) /\ DOMAIN e = 1..n
  BY <1>5 DEF Listing
<1>7. f = [i \in 1..n |-> Hydrated(e[i])]
  BY <1>4, <1>6 DEF Fetched
<1>8. ASSUME NEW i \in 1..n PROVE f[i] \in Cands /\ f[i].id = e[i].id /\ f[i].meta = docs[f[i].id]
  <2>1. e[i] \in Cands
    BY <1>5, <1>6, CandParts
  <2>2. f[i] = Hydrated(e[i])
    BY <1>7
  <2>3. QED
    BY <2>1, <2>2, HydratedIs
<1>9. DOMAIN f = 1..n /\ f = [i \in 1..n |-> f[i]]
  BY <1>7
<1>10. Listing(f) /\ IdSet(f) = IdSet(e) /\ Len(f) = n
  BY <1>5, <1>6, <1>8, <1>9, Relabelled
<1>11. DOMAIN docs = Ids /\ \A i \in 1..Len(s) : s[i].id \in Ids
  BY CandParts DEF DocsTyped
<1>12. {s[p].id : p \in P} = IdSet(s) \cap Live(docs)
  BY <1>1, <1>11 DEF IdSet, Live
<1>13. QED
  BY <1>5, <1>8, <1>10, <1>12

\* Refilling changes payloads only, and those only to the document of the moment.
LEMMA RefilledLists ==
  ASSUME DocsTyped, NEW s, Listing(s), NEW missing, NEW t, t = Refilled(s, missing)
  PROVE  /\ Listing(t) /\ IdSet(t) = IdSet(s) /\ Len(t) = Len(s)
         /\ \A i \in 1..Len(s) :
              /\ t[i].id = s[i].id
              /\ t[i].meta = IF s[i].meta \in missing /\ docs[s[i].id] # NoDoc THEN docs[s[i].id] ELSE s[i].meta
<1>1. DOMAIN s = 1..Len(s)
  BY DEF Listing
<1>2. t = [i \in 1..Len(s) |-> IF s[i].meta \in missing /\ docs[s[i].id] # NoDoc
                               THEN Hydrated(s[i]) ELSE s[i]]
  BY <1>1 DEF Refilled
<1>3. ASSUME NEW i \in 1..Len(s)
      PROVE  /\ t[i] \in Cands /\ t[i].id = s[i].id
             /\ t[i].meta = IF s[i].meta \in missing /\ docs[s[i].id] # NoDoc THEN docs[s[i].id] ELSE s[i].meta
  <2>1. s[i] \in Cands
    BY CandParts
  <2>2. Hydrated(s[i]) \in Cands /\ Hydrated(s[i]).id = s[i].id /\ Hydrated(s[i]).meta = docs[s[i].id]
    BY <2>1, HydratedIs
  <2>3. t[i] = IF s[i].meta \in missing /\ docs[s[i].id] # NoDoc THEN Hydrated(s[i]) ELSE s[i]
    BY <1>2
  <2>4. QED
    BY <2>1, <2>2, <2>3
<1>4. DOMAIN t = 1..Len(s) /\ t = [i \in 1..Len(s) |-> t[i]]
  BY <1>2
<1>5. Listing(t) /\ IdSet(t) = IdSet(s) /\ Len(t) = Len(s)
  BY <1>3, <1>4, Relabelled
<1>6. QED
  BY <1>3, <1>5

----------------------------------------------------------------------------
(* Fusion.                                                                 *)

\* A finite set of numbers has a least and a greatest.
LEMMA Extremes ==
  ASSUME NEW S, S \subseteq Int, IsFiniteSet(S), S # {}
  PROVE  /\ Min(S) \in S /\ \A x \in S : Min(S) <= x
         /\ Max(S) \in S /\ \A x \in S : Max(S) >= x
<1>1. Cardinality(S) \in Nat /\ Cardinality(S) # 0
  BY FS_CardinalityType, FS_EmptySet
<1>2. 1 \in 1..Cardinality(S)
  BY <1>1
<1>3. \E a \in S : \A x \in S : a <= x
  <2>1. PICK B : B = [a \in S |-> {b \in S : b < a}]
    OBVIOUS
  <2>2. B \in [S -> SUBSET S] /\ \A a, b \in S : b \in B[a] <=> b < a
    BY <2>1
  <2>3. ASSUME NEW a \in S, NEW b \in S, a \in B[b], NEW c \in B[a] PROVE c \in B[b]
    BY <2>2, <2>3
  <2>4. Orders(B, S)
    <3>1. \A a \in S : a \notin B[a]
      BY <2>2
    <3>2. \A a, b \in S : a # b => a \in B[b] \/ b \in B[a]
      BY <2>2
    <3>3. \A a, b \in S : a \in B[b] => B[a] \subseteq B[b]
      BY <2>3
    <3>4. QED
      BY <2>2, <3>1, <3>2, <3>3 DEF Orders
  <2>5. PICK a \in S : Cardinality(B[a]) = 1 - 1
    <3>1. Ranks(B, S)
      BY <2>4, RanksOnce
    <3>2. QED
      BY <1>2, <3>1 DEF Ranks
  <2>6. B[a] = {}
    BY <2>2, <2>5, FS_Subset, FS_EmptySet
  <2>7. \A x \in S : a <= x
    BY <2>2, <2>6
  <2>8. QED
    BY <2>7
<1>4. \E a \in S : \A x \in S : a >= x
  <2>1. PICK B : B = [a \in S |-> {b \in S : b > a}]
    OBVIOUS
  <2>2. B \in [S -> SUBSET S] /\ \A a, b \in S : b \in B[a] <=> b > a
    BY <2>1
  <2>3. ASSUME NEW a \in S, NEW b \in S, a \in B[b], NEW c \in B[a] PROVE c \in B[b]
    BY <2>2, <2>3
  <2>4. Orders(B, S)
    <3>1. \A a \in S : a \notin B[a]
      BY <2>2
    <3>2. \A a, b \in S : a # b => a \in B[b] \/ b \in B[a]
      BY <2>2
    <3>3. \A a, b \in S : a \in B[b] => B[a] \subseteq B[b]
      BY <2>3
    <3>4. QED
      BY <2>2, <3>1, <3>2, <3>3 DEF Orders
  <2>5. PICK a \in S : Cardinality(B[a]) = 1 - 1
    <3>1. Ranks(B, S)
      BY <2>4, RanksOnce
    <3>2. QED
      BY <1>2, <3>1 DEF Ranks
  <2>6. B[a] = {}
    BY <2>2, <2>5, FS_Subset, FS_EmptySet
  <2>7. \A x \in S : a >= x
    BY <2>2, <2>6
  <2>8. QED
    BY <2>7
<1>5. Min(S) \in S /\ \A x \in S : Min(S) <= x
  BY <1>3 DEF Min
<1>6. Max(S) \in S /\ \A x \in S : Max(S) >= x
  BY <1>4 DEF Max
<1>7. QED
  BY <1>5, <1>6

\* Whole numbers divide into whole numbers.
LEMMA Divides ==
  ASSUME NEW x \in Int, NEW y \in Nat \ {0}
  PROVE  x \div y \in Int
  OBVIOUS

\* Where a list has an id.
LEMMA PlaceFound ==
  ASSUME NEW s, Listing(s), NEW d, Listed(s, d)
  PROVE  PlaceIn(s, d) \in 1..Len(s) /\ s[PlaceIn(s, d)].id = d
<1>1. DOMAIN s = 1..Len(s)
  BY DEF Listing
<1>2. \E i \in 1..Len(s) : s[i].id = d
  BY <1>1 DEF Listed
<1>3. PlaceIn(s, d) = CHOOSE i \in 1..Len(s) : s[i].id = d
  BY <1>1 DEF PlaceIn
<1>4. QED
  BY <1>2, <1>3

\* The scores of a list, which are between two of them.
LEMMA ScoresBetween ==
  ASSUME NEW s, Listing(s), Len(s) # 0, NEW V, V = {s[i].score : i \in 1..Len(s)}
  PROVE  Min(V) \in Int /\ Max(V) \in Int /\ Max(V) - Min(V) \in Nat
<1>1. PICK n \in Nat : n = Len(s) /\ n # 0
  BY DEF Listing
<1>2. \A i \in 1..n : s[i].score \in Int
  BY <1>1, CandParts
<1>3. V \subseteq Int /\ V # {}
  BY <1>1, <1>2
<1>4. PICK f : f = [i \in 1..n |-> s[i].score]
  OBVIOUS
<1>5. f \in Surjection(1..n, V)
  <2>1. f \in [1..n -> V] /\ \A v \in V : \E i \in 1..n : f[i] = v
    BY <1>1, <1>4
  <2>2. QED
    BY <2>1 DEF Surjection
<1>6. IsFiniteSet(1..n)
  BY FS_Interval
<1>7. IsFiniteSet(V)
  BY <1>5, <1>6, FS_Surjection
<1>8. Min(V) \in V /\ Max(V) \in V /\ Max(V) >= Min(V)
  BY <1>3, <1>7, Extremes
<1>9. PICK lo \in Int, hi \in Int : lo = Min(V) /\ hi = Max(V) /\ hi >= lo
  BY <1>3, <1>8
<1>10. QED
  BY <1>9

\* What two lists that are heard have between them.
LEMMA VotedAre ==
  ASSUME NEW a, Listing(a), NEW b, Listing(b), NEW w
  PROVE  /\ Voted(<<a, b>>, w) = (IF w[1] # 0 THEN IdSet(a) ELSE {}) \cup (IF w[2] # 0 THEN IdSet(b) ELSE {})
         /\ Voted(<<a, b>>, w) \subseteq Ids
<1>1. DOMAIN a = 1..Len(a) /\ DOMAIN b = 1..Len(b)
  BY DEF Listing
<1>2. IdSet(a) \subseteq Ids /\ IdSet(b) \subseteq Ids
  BY ListSize
<1>3. \A d : (Listed(a, d) <=> d \in IdSet(a)) /\ (Listed(b, d) <=> d \in IdSet(b))
  BY <1>1 DEF Listed, IdSet
<1>4. \A d : /\ Speaks(<<a, b>>, w, 1, d) <=> w[1] # 0 /\ d \in IdSet(a)
             /\ Speaks(<<a, b>>, w, 2, d) <=> w[2] # 0 /\ d \in IdSet(b)
  BY <1>3 DEF Speaks
<1>5. Voted(<<a, b>>, w)
          = {d \in Ids : (w[1] # 0 /\ d \in IdSet(a)) \/ (w[2] # 0 /\ d \in IdSet(b))}
  BY <1>4 DEF Voted
<1>6. QED
  BY <1>2, <1>5

\* Rank fusion names what was heard.
LEMMA RrfLists ==
  ASSUME NEW a, Listing(a), NEW b, Listing(b), NEW w, w[1] \in Int, w[2] \in Int,
         NEW r, r = reciprocal_rank_fusion_weighted(<<a, b>>, w)
  PROVE  Listing(r) /\ IdSet(r) = Voted(<<a, b>>, w)
<1> DEFINE lists == <<a, b>>
           vote(l, d) == IF Speaks(lists, w, l, d)
                         THEN w[l] * (FusionScale \div (RRF_K + PlaceIn(lists[l], d))) ELSE 0
<1>1. ASSUME NEW l \in {1, 2}, NEW d \in Ids PROVE vote(l, d) \in Int
  <2>1. CASE ~Speaks(lists, w, l, d)
    BY <2>1
  <2>2. CASE Speaks(lists, w, l, d)
    <3>1. PICK s : s = lists[l]
      OBVIOUS
    <3>2. Listing(s) /\ Listed(s, d)
      BY <2>2, <3>1 DEF Speaks
    <3>3. PlaceIn(s, d) \in 1..Len(s)
      BY <3>2, PlaceFound
    <3>4. RRF_K + PlaceIn(s, d) \in Nat \ {0} /\ FusionScale \in Int
      BY <3>3, ScoresAssumption
    <3>5. PICK x \in Int : x = FusionScale \div (RRF_K + PlaceIn(s, d))
      BY <3>4, Divides
    <3>6. w[l] \in Int
      OBVIOUS
    <3>7. vote(l, d) = w[l] * x
      BY <2>2, <3>1, <3>5
    <3>8. QED
      BY <3>5, <3>6, <3>7
  <2>3. QED
    BY <2>1, <2>2
<1>2. PICK score : score = [d \in Ids |-> vote(1, d) + vote(2, d)]
  OBVIOUS
<1>3. \A d \in Ids : score[d] \in Int
  <2>1. ASSUME NEW d \in Ids PROVE score[d] \in Int
    <3>1. PICK x \in Int, y \in Int : x = vote(1, d) /\ y = vote(2, d)
      BY <1>1
    <3>2. QED
      BY <1>2, <3>1
  <2>2. QED
    BY <2>1
<1>4. r = Ranking(Voted(lists, w), score)
  BY <1>2 DEF reciprocal_rank_fusion_weighted
<1>5. Voted(lists, w) \subseteq Ids
  BY VotedAre
<1>6. QED
  BY <1>3, <1>4, <1>5, RankingLists

\* So does score fusion.
LEMMA DbsfLists ==
  ASSUME NEW a, Listing(a), NEW b, Listing(b), NEW w, w[1] \in Int, w[2] \in Int,
         NEW r, r = distribution_score_fusion(<<a, b>>, w)
  PROVE  Listing(r) /\ IdSet(r) = Voted(<<a, b>>, w)
<1> DEFINE lists == <<a, b>>
           scores(l) == {lists[l][i].score : i \in DOMAIN lists[l]}
           span(l) == Max(scores(l)) - Min(scores(l))
           norm(l, s) == IF span(l) = 0 THEN FusionScale
                         ELSE (FusionScale * (s - Min(scores(l)))) \div span(l)
           vote(l, d) == IF Speaks(lists, w, l, d)
                         THEN w[l] * norm(l, lists[l][PlaceIn(lists[l], d)].score) ELSE 0
<1>1. ASSUME NEW l \in {1, 2}, NEW d \in Ids PROVE vote(l, d) \in Int
  <2>1. CASE ~Speaks(lists, w, l, d)
    BY <2>1
  <2>2. CASE Speaks(lists, w, l, d)
    <3>1. PICK s : s = lists[l]
      OBVIOUS
    <3>2. Listing(s) /\ Listed(s, d) /\ DOMAIN s = 1..Len(s)
      BY <2>2, <3>1 DEF Speaks, Listing
    <3>3. PICK p \in 1..Len(s) : p = PlaceIn(s, d)
      BY <3>2, PlaceFound
    <3>4. PICK V : V = {s[i].score : i \in 1..Len(s)}
      OBVIOUS
    <3>5. scores(l) = V
      BY <3>1, <3>2, <3>4
    <3>6. PICK lo \in Int, hi \in Int : lo = Min(V) /\ hi = Max(V) /\ hi - lo \in Nat
      <4>1. Len(s) # 0
        BY <3>3
      <4>2. QED
        BY <3>2, <3>4, <4>1, ScoresBetween
    <3>7. PICK c \in Int : c = s[p].score
      BY <3>2, CandParts
    <3>8. PICK m : m = norm(l, c)
      OBVIOUS
    <3>9. m = IF hi - lo = 0 THEN FusionScale ELSE (FusionScale * (c - lo)) \div (hi - lo)
      BY <3>5, <3>6, <3>8
    <3>10. m \in Int
      <4>1. FusionScale \in Int
        BY ScoresAssumption
      <4>2. CASE hi - lo = 0
        BY <3>9, <4>1, <4>2
      <4>3. CASE hi - lo # 0
        <5>1. PICK x \in Int, y \in Nat \ {0} : x = FusionScale * (c - lo) /\ y = hi - lo
          BY <3>6, <4>1, <4>3
        <5>2. m = x \div y
          BY <3>9, <4>3, <5>1
        <5>3. QED
          BY <5>2, Divides
      <4>4. QED
        BY <4>2, <4>3
    <3>11. vote(l, d) = w[l] * m /\ w[l] \in Int
      BY <2>2, <3>1, <3>3, <3>7, <3>8
    <3>12. QED
      BY <3>10, <3>11
  <2>3. QED
    BY <2>1, <2>2
<1>2. PICK score : score = [d \in Ids |-> vote(1, d) + vote(2, d)]
  OBVIOUS
<1>3. \A d \in Ids : score[d] \in Int
  <2>1. ASSUME NEW d \in Ids PROVE score[d] \in Int
    <3>1. PICK x \in Int, y \in Int : x = vote(1, d) /\ y = vote(2, d)
      BY <1>1
    <3>2. QED
      BY <1>2, <3>1
  <2>2. QED
    BY <2>1
<1>4. r = Ranking(Voted(lists, w), score)
  BY <1>2 DEF distribution_score_fusion
<1>5. Voted(lists, w) \subseteq Ids
  BY VotedAre
<1>6. QED
  BY <1>3, <1>4, <1>5, RankingLists

\* Either way two lists are fused.
LEMMA FusedLists ==
  ASSUME NEW a, Listing(a), NEW b, Listing(b), NEW q, q.fusion \in Int \X Int, NEW r, r = fuse(q, <<a, b>>)
  PROVE  /\ Listing(r) /\ IdSet(r) \subseteq IdSet(a) \cup IdSet(b)
         /\ q.fusion[1] # 0 => IdSet(a) \subseteq IdSet(r)
<1>1. PICK w : w = q.fusion
  OBVIOUS
<1>2. w[1] \in Int /\ w[2] \in Int
  BY <1>1
<1>3. \/ r = reciprocal_rank_fusion_weighted(<<a, b>>, w)
      \/ r = distribution_score_fusion(<<a, b>>, w)
  BY <1>1 DEF fuse
<1>4. Listing(r) /\ IdSet(r) = Voted(<<a, b>>, w)
  BY <1>2, <1>3, RrfLists, DbsfLists
<1>5. QED
  BY <1>1, <1>4, VotedAre

----------------------------------------------------------------------------
(* The searches.                                                           *)

\* Payloads, where there are any, are those of the moment.
Fresh(s) == \A i \in 1..Len(s) : s[i].meta \in {Lean, docs[s[i].id]}

LEMMA EmptyLists == Listing(<<>>) /\ IdSet(<<>>) = {} /\ Fresh(<<>>) /\ Len(<<>>) = 0
  BY DEF Listing, IdSet, Fresh

LEMMA LiveIds ==
  ASSUME DocsTyped
  PROVE  Live(docs) \subseteq Ids /\ IsFiniteSet(Live(docs))
<1>1. Live(docs) \subseteq Ids
  BY DEF Live, DocsTyped
<1>2. QED
  BY <1>1, IdsAssumption, FS_Subset

\* The first of a list, as a list.
LEMMA TakeLists ==
  ASSUME NEW s, Listing(s), NEW n \in Nat, NEW t, t = Take(s, n)
  PROVE  /\ Listing(t) /\ IdSet(t) \subseteq IdSet(s)
         /\ Len(t) = (IF n <= Len(s) THEN n ELSE Len(s))
         /\ \A i \in 1..Len(t) : i \in 1..Len(s) /\ t[i] = s[i]
<1>1. s \in Seq(Cands)
  BY DEF Listing
<1>2. /\ From(t, s) /\ Len(t) = (IF n <= Len(s) THEN n ELSE Len(s))
      /\ \A i \in 1..Len(t) : i \in 1..Len(s) /\ t[i] = s[i]
  BY <1>1, TakeFrom
<1>3. QED
  BY <1>2, FromLists

\* What is fetched of the first of a list.
LEMMA FetchedFirst ==
  ASSUME DocsTyped, NEW s, Listing(s), NEW k \in Nat, NEW f, f = Fetched(Take(s, k))
  PROVE  /\ Listing(f) /\ IdSet(f) \subseteq IdSet(s) /\ Fresh(f)
         /\ IdSet(s) \subseteq Live(docs) => Len(f) = IF k <= Len(s) THEN k ELSE Len(s)
<1>1. PICK t : t = Take(s, k)
  OBVIOUS
<1>2. Listing(t) /\ IdSet(t) \subseteq IdSet(s) /\ Len(t) = IF k <= Len(s) THEN k ELSE Len(s)
  BY <1>1, TakeLists
<1>3. /\ Listing(f) /\ IdSet(f) = IdSet(t) \cap Live(docs)
      /\ \A i \in 1..Len(f) : f[i].meta = docs[f[i].id]
  BY <1>1, <1>2, FetchedLists
<1>4. Fresh(f)
  BY <1>3 DEF Fresh
<1>5. ASSUME IdSet(s) \subseteq Live(docs) PROVE Len(f) = Len(t)
  <2>1. IdSet(f) = IdSet(t)
    BY <1>2, <1>3, <1>5
  <2>2. QED
    BY <1>2, <1>3, <2>1, ListSize
<1>6. QED
  BY <1>2, <1>3, <1>4, <1>5

LEMMA DenseLists ==
  ASSUME DocsTyped, NEW q, NEW S, NEW r, r = dense_search(q, S)
  PROVE  Listing(r) /\ IdSet(r) = S \cap Live(docs) /\ Fresh(r)
<1>1. PICK score : score = IF q.vector THEN Dense ELSE [d \in Ids |-> 0]
  OBVIOUS
<1>2. \A d \in Ids : score[d] \in Int
  BY <1>1, ScoresAssumption
<1>3. PICK L : L = S \cap Live(docs)
  OBVIOUS
<1>4. L \subseteq Ids /\ \A d \in L : score[d] \in Int
  BY <1>2, <1>3, LiveIds
<1>5. r = Ranking(L, score)
  BY <1>1, <1>3 DEF dense_search
<1>6. QED
  BY <1>3, <1>4, <1>5, RankingLists DEF Fresh

LEMMA LexicalLists ==
  ASSUME DocsTyped, NEW q, NEW S, NEW r, r = lexical_search(q, S)
  PROVE  Listing(r) /\ IdSet(r) \subseteq S \cap Live(docs) /\ Fresh(r)
<1>1. CASE ~q.text
  BY <1>1, EmptyLists DEF lexical_search
<1>2. CASE q.text
  <2>1. PICK L : L = {d \in S \cap Live(docs) : Lexical[d] > 0}
    OBVIOUS
  <2>2. L \subseteq Ids /\ \A d \in L : Lexical[d] \in Int
    BY <2>1, LiveIds, ScoresAssumption
  <2>3. r = Ranking(L, Lexical)
    BY <1>2, <2>1 DEF lexical_search
  <2>4. Listing(r) /\ IdSet(r) = L /\ Fresh(r)
    BY <2>2, <2>3, RankingLists DEF Fresh
  <2>5. QED
    BY <2>1, <2>4
<1>3. QED
  BY <1>1, <1>2

\* Inside a scope everything alive is ranked.
LEMMA ScopedLists ==
  ASSUME DocsTyped, NEW q, NEW S, NEW k \in Nat, NEW f, f = scoped_search(q, S, k)
  PROVE  /\ Listing(f) /\ IdSet(f) \subseteq S /\ Fresh(f)
         /\ Len(f) = IF k <= Cardinality(S \cap Live(docs)) THEN k ELSE Cardinality(S \cap Live(docs))
<1>1. PICK a, b : a = dense_search(q, S) /\ b = lexical_search(q, S)
  OBVIOUS
<1>2. Listing(a) /\ IdSet(a) = S \cap Live(docs)
  BY <1>1, DenseLists
<1>3. Listing(b) /\ IdSet(b) \subseteq S \cap Live(docs)
  BY <1>1, LexicalLists
<1>4. PICK w : w = <<1, 1>>
  OBVIOUS
<1>5. w[1] \in Int /\ w[2] \in Int /\ w[1] # 0 /\ w[2] # 0
  BY <1>4
<1>6. PICK r : r = reciprocal_rank_fusion_weighted(<<a, b>>, w)
  OBVIOUS
<1>7. Listing(r) /\ IdSet(r) = Voted(<<a, b>>, w)
  BY <1>2, <1>3, <1>5, <1>6, RrfLists
<1>8. IdSet(r) = S \cap Live(docs)
  BY <1>2, <1>3, <1>5, <1>7, VotedAre
<1>9. f = Fetched(Take(r, k))
  BY <1>1, <1>4, <1>6 DEF scoped_search
<1>10. Len(r) = Cardinality(S \cap Live(docs))
  BY <1>7, <1>8, ListSize
<1>11. QED
  BY <1>7, <1>8, <1>9, <1>10, FetchedFirst

\* Without a scope.
LEMMA UnscopedLists ==
  ASSUME DocsTyped, NEW q, q.fusion \in Int \X Int, NEW k \in Nat, NEW f, f = unscoped(q, k)
  PROVE  Listing(f) /\ Fresh(f)
<1>1. PICK a, b : a = dense_search(q, Ids) /\ b = lexical_search(q, Ids)
  OBVIOUS
<1>2. Listing(a) /\ Listing(b) /\ Fresh(b)
  BY <1>1, DenseLists, LexicalLists
<1>3. CASE q.vector
  <2>1. PICK c, d : c = Take(a, 4 * k) /\ d = Take(b, 4 * k)
    OBVIOUS
  <2>2. 4 * k \in Nat
    OBVIOUS
  <2>3. Listing(c) /\ Listing(d)
    BY <1>2, <2>1, <2>2, TakeLists
  <2>4. PICK r : r = fuse(q, <<c, d>>)
    OBVIOUS
  <2>5. Listing(r)
    BY <2>3, <2>4, FusedLists
  <2>6. f = Fetched(Take(r, k))
    BY <1>1, <1>3, <2>1, <2>4 DEF unscoped, hybrid_weighted
  <2>7. QED
    BY <2>5, <2>6, FetchedFirst
<1>4. CASE ~q.vector
  <2>1. f = Take(b, k)
    BY <1>1, <1>4 DEF unscoped
  <2>2. Listing(f) /\ \A i \in 1..Len(f) : i \in 1..Len(b) /\ f[i] = b[i]
    BY <1>2, <2>1, TakeLists
  <2>3. QED
    BY <1>2, <2>2 DEF Fresh
<1>5. QED
  BY <1>3, <1>4

\* In a named space.
LEMMA NamedLists ==
  ASSUME DocsTyped, NEW q, q.fusion \in Int \X Int, NEW k \in Nat, NEW f, f = named_hybrid(q, k)
  PROVE  Listing(f) /\ Fresh(f)
<1>1. PICK S : S = {d \in Live(docs) : Named[d] > 0}
  OBVIOUS
<1>2. S \subseteq Ids /\ \A d \in S : Named[d] \in Int
  BY <1>1, LiveIds, ScoresAssumption
<1>3. PICK a : a = Ranking(S, Named)
  OBVIOUS
<1>4. Listing(a)
  BY <1>2, <1>3, RankingLists
<1>5. PICK b : b = lexical_search(q, Ids)
  OBVIOUS
<1>6. Listing(b)
  BY <1>5, LexicalLists
<1>7. PICK c, d : c = Take(a, k) /\ d = Take(b, k)
  OBVIOUS
<1>8. Listing(c) /\ Listing(d)
  BY <1>4, <1>6, <1>7, TakeLists
<1>9. f = IF d = <<>> THEN Fetched(c) ELSE Fetched(Take(fuse(q, <<c, d>>), k))
  BY <1>1, <1>3, <1>5, <1>7 DEF named_hybrid, named_search
<1>10. CASE d = <<>>
  BY <1>8, <1>9, <1>10, FetchedLists DEF Fresh
<1>11. CASE d # <<>>
  <2>1. PICK r : r = fuse(q, <<c, d>>)
    OBVIOUS
  <2>2. Listing(r)
    BY <1>8, <2>1, FusedLists
  <2>3. QED
    BY <1>9, <1>11, <2>1, <2>2, FetchedFirst
<1>12. QED
  BY <1>10, <1>11

\* In the graph, under a filter.
LEMMA FilterAwareLists ==
  ASSUME DocsTyped, NEW q, q.fusion \in Int \X Int, NEW allow, NEW k \in Nat,
         NEW f \in filter_aware_search(q, allow, k)
  PROVE  Listing(f) /\ IdSet(f) \subseteq allow /\ Fresh(f)
<1>1. CASE f = scoped_search(q, allow, k)
  BY <1>1, ScopedLists
<1>2. CASE f # scoped_search(q, allow, k)
  <2> DEFINE lexical == Take(lexical_search(q, Ids), 4 * k)
             allowed == KeptAt(lexical, {i \in DOMAIN lexical : lexical[i].id \in allow})
             found(S) == Take(dense_search(q, S), k)
             fused(S) == IF allowed = <<>> THEN found(S) ELSE fuse(q, <<found(S), allowed>>)
  <2>1. PICK S \in SUBSET allow : f = Fetched(Ranking(ToSet(IdList(Take(fused(S), k))), Dense))
    BY <1>2 DEF filter_aware_search
  <2>2. PICK a : a = found(S)
    OBVIOUS
  <2>3. Listing(a) /\ IdSet(a) \subseteq allow
    <3>1. PICK c : c = dense_search(q, S)
      OBVIOUS
    <3>2. Listing(c) /\ IdSet(c) \subseteq S
      BY <3>1, DenseLists
    <3>3. a = Take(c, k)
      BY <2>2, <3>1
    <3>4. QED
      BY <2>1, <3>2, <3>3, TakeLists
  <2>4. PICK b : b = allowed
    OBVIOUS
  <2>5. Listing(b) /\ IdSet(b) \subseteq allow
    <3>1. PICK c : c = lexical_search(q, Ids)
      OBVIOUS
    <3>2. Listing(c) /\ 4 * k \in Nat
      BY <3>1, LexicalLists
    <3>3. PICK l : l = Take(c, 4 * k)
      OBVIOUS
    <3>4. Listing(l)
      BY <3>2, <3>3, TakeLists
    <3>5. DOMAIN l = 1..Len(l)
      BY <3>4 DEF Listing
    <3>6. PICK P : P = {i \in 1..Len(l) : l[i].id \in allow}
      OBVIOUS
    <3>7. b = KeptAt(l, P)
      BY <2>4, <3>1, <3>3, <3>5, <3>6
    <3>8. Listing(b) /\ IdSet(b) = {l[p].id : p \in P}
      BY <3>4, <3>6, <3>7, KeptLists
    <3>9. QED
      BY <3>6, <3>8
  <2>6. PICK r : r = fused(S)
    OBVIOUS
  <2>7. r = a \/ r = fuse(q, <<a, b>>)
    BY <2>2, <2>4, <2>6
  <2>8. Listing(r) /\ IdSet(r) \subseteq allow
    <3>1. CASE r = a
      BY <2>3, <3>1
    <3>2. CASE r = fuse(q, <<a, b>>)
      <4>1. Listing(r) /\ IdSet(r) \subseteq IdSet(a) \cup IdSet(b)
        BY <2>3, <2>5, <3>2, FusedLists
      <4>2. QED
        BY <2>3, <2>5, <4>1
    <3>3. QED
      BY <2>7, <3>1, <3>2
  <2>9. PICK t : t = Take(r, k)
    OBVIOUS
  <2>10. Listing(t) /\ IdSet(t) \subseteq allow
    BY <2>8, <2>9, TakeLists
  <2>11. ToSet(IdList(t)) = IdSet(t)
    <3>1. DOMAIN t = 1..Len(t)
      BY <2>10 DEF Listing
    <3>2. IdList(t) = [i \in 1..Len(t) |-> t[i].id]
      BY <3>1 DEF IdList
    <3>3. QED
      BY <3>2 DEF ToSet, IdSet
  <2>12. PICK g : g = Ranking(IdSet(t), Dense)
    OBVIOUS
  <2>13. IdSet(t) \subseteq Ids
    BY <2>10, ListSize
  <2>14. \A d \in IdSet(t) : Dense[d] \in Int
    BY <2>13, ScoresAssumption
  <2>15. Listing(g) /\ IdSet(g) = IdSet(t)
    BY <2>12, <2>13, <2>14, RankingLists
  <2>16. f = Fetched(g)
    BY <2>1, <2>6, <2>9, <2>11, <2>12
  <2>17. QED
    BY <2>10, <2>15, <2>16, FetchedLists DEF Fresh
<1>3. QED
  BY <1>1, <1>2

\* The sparse ranking.
LEMMA SparseLists ==
  ASSUME DocsTyped, NEW k \in Nat, NEW r, r = sparse_search(k)
  PROVE  Listing(r)
<1>1. PICK S : S = {d \in Live(docs) : Sparse[d] > 0}
  OBVIOUS
<1>2. S \subseteq Ids /\ \A d \in S : Sparse[d] \in Int
  BY <1>1, LiveIds, ScoresAssumption
<1>3. PICK a : a = Ranking(S, Sparse)
  OBVIOUS
<1>4. Listing(a)
  BY <1>2, <1>3, RankingLists
<1>5. r = Take(a, k)
  BY <1>1, <1>3 DEF sparse_search
<1>6. QED
  BY <1>4, <1>5, TakeLists

\* Every candidate of r is one of x or one of y.
OfEither(r, x, y) ==
    \A i \in 1..Len(r) : (\E j \in 1..Len(x) : r[i] = x[j]) \/ (\E j \in 1..Len(y) : r[i] = y[j])

\* Two lists of different ids, one after the other.
LEMMA JoinedLists ==
  ASSUME NEW x, Listing(x), NEW y, Listing(y), IdSet(x) \cap IdSet(y) = {}, NEW r, r = x \o y
  PROVE  /\ Listing(r) /\ IdSet(r) = IdSet(x) \cup IdSet(y)
         /\ OfEither(r, x, y)
<1>1. PICK n \in Nat, m \in Nat : n = Len(x) /\ m = Len(y)
  BY DEF Listing
<1>2. x \in Seq(Cands) /\ y \in Seq(Cands)
  BY DEF Listing
<1>3. /\ r \in Seq(Cands) /\ Len(r) = n + m
      /\ \A i \in 1..(n + m) : r[i] = IF i <= n THEN x[i] ELSE y[i - n]
  BY <1>1, <1>2
<1>4. ASSUME NEW i \in 1..(n + m)
      PROVE  \/ i \in 1..n /\ r[i] = x[i] /\ r[i].id \in IdSet(x)
             \/ i \notin 1..n /\ i - n \in 1..m /\ r[i] = y[i - n] /\ r[i].id \in IdSet(y)
  <2>1. CASE i <= n
    <3>1. i \in 1..n /\ r[i] = x[i]
      BY <1>3, <2>1
    <3>2. QED
      BY <1>1, <3>1 DEF IdSet
  <2>2. CASE ~(i <= n)
    <3>1. i \notin 1..n /\ i - n \in 1..m /\ r[i] = y[i - n]
      BY <1>3, <2>2
    <3>2. QED
      BY <1>1, <3>1 DEF IdSet
  <2>3. QED
    BY <2>1, <2>2
<1>5. ASSUME NEW i \in 1..(n + m), NEW j \in 1..(n + m), r[i].id = r[j].id PROVE i = j
  <2>1. CASE i \in 1..n
    <3>1. r[i] = x[i] /\ j \in 1..n /\ r[j] = x[j]
      BY <1>4, <1>5, <2>1
    <3>2. QED
      BY <1>1, <1>5, <2>1, <3>1 DEF Listing
  <2>2. CASE i \notin 1..n
    <3>1. i - n \in 1..m /\ r[i] = y[i - n] /\ j - n \in 1..m /\ r[j] = y[j - n]
      BY <1>4, <1>5, <2>2
    <3>2. i - n = j - n
      BY <1>1, <1>5, <3>1 DEF Listing
    <3>3. QED
      BY <3>2
  <2>3. QED
    BY <2>1, <2>2
<1>6. Listing(r)
  BY <1>3, <1>5 DEF Listing
<1>7. IdSet(r) \subseteq IdSet(x) \cup IdSet(y)
  BY <1>3, <1>4 DEF IdSet
<1>8. ASSUME NEW d \in IdSet(x) PROVE d \in IdSet(r)
  <2>1. PICK i \in 1..n : d = x[i].id
    BY <1>1 DEF IdSet
  <2>2. i \in 1..(n + m) /\ i <= n
    OBVIOUS
  <2>3. r[i] = x[i]
    BY <1>3, <2>2
  <2>4. QED
    BY <1>3, <2>1, <2>2, <2>3 DEF IdSet
<1>9. ASSUME NEW d \in IdSet(y) PROVE d \in IdSet(r)
  <2>1. PICK i \in 1..m : d = y[i].id
    BY <1>1 DEF IdSet
  <2>2. PICK j \in 1..(n + m) : ~(j <= n) /\ j - n = i
    <3>1. n + i \in 1..(n + m) /\ ~(n + i <= n) /\ n + i - n = i
      OBVIOUS
    <3>2. QED
      BY <3>1
  <2>3. r[j] = y[i]
    BY <1>3, <2>2
  <2>4. QED
    BY <1>3, <2>1, <2>2, <2>3 DEF IdSet
<1>10. OfEither(r, x, y)
  BY <1>1, <1>3, <1>4 DEF OfEither
<1>11. QED
  BY <1>6, <1>7, <1>8, <1>9, <1>10

\* MaxSim reorders: every candidate stays, with its payload.
LEMMA MaxsimLists ==
  ASSUME NEW s, Listing(s), NEW r, r = maxsim_rescore(s)
  PROVE  /\ Listing(r) /\ IdSet(r) = IdSet(s)
         /\ \A i \in 1..Len(r) : \E j \in 1..Len(s) : r[i].id = s[j].id /\ r[i].meta = s[j].meta
<1>1. PICK W : W = {d \in Ids : Listed(s, d) /\ TokenScores[d] > 0}
  OBVIOUS
<1>2. PICK a : a = Ranking(W, TokenScores)
  OBVIOUS
<1>3. W \subseteq Ids /\ \A d \in W : TokenScores[d] \in Int
  BY <1>1, ScoresAssumption
<1>4. Listing(a) /\ IdSet(a) = W
  BY <1>2, <1>3, RankingLists
<1>5. DOMAIN a = 1..Len(a) /\ DOMAIN s = 1..Len(s)
  BY <1>4 DEF Listing
<1>6. PICK x : x = [i \in 1..Len(a) |-> [a[i] EXCEPT !.meta = s[PlaceIn(s, a[i].id)].meta]]
  OBVIOUS
<1>7. ASSUME NEW i \in 1..Len(a)
      PROVE  /\ x[i] \in Cands /\ x[i].id = a[i].id
             /\ \E j \in 1..Len(s) : x[i].id = s[j].id /\ x[i].meta = s[j].meta
  <2>1. a[i] \in Cands /\ a[i].id \in W
    BY <1>4, CandParts
  <2>2. PICK j \in 1..Len(s) : j = PlaceIn(s, a[i].id) /\ s[j].id = a[i].id
    BY <1>1, <2>1, PlaceFound
  <2>3. s[j].meta \in Fields \cup {Lean}
    BY CandParts
  <2>4. x[i] = [id |-> a[i].id, score |-> a[i].score, meta |-> s[j].meta]
    BY <1>6, <2>1, <2>2 DEF Cands
  <2>5. QED
    BY <2>1, <2>2, <2>3, <2>4 DEF Cands
<1>8. DOMAIN x = 1..Len(a) /\ x = [i \in 1..Len(a) |-> x[i]]
  BY <1>6
<1>9. Listing(x) /\ IdSet(x) = W /\ Len(x) = Len(a)
  BY <1>4, <1>7, <1>8, Relabelled
<1>10. PICK P : P = {i \in 1..Len(s) : s[i].id \notin W}
  OBVIOUS
<1>11. PICK y : y = KeptAt(s, P)
  OBVIOUS
<1>12. Listing(y) /\ IdSet(y) = {s[p].id : p \in P} /\ TakenFrom(y, s, P)
  BY <1>10, <1>11, KeptLists
<1>13. r = x \o y
  BY <1>1, <1>2, <1>5, <1>6, <1>10, <1>11 DEF maxsim_rescore
<1>14. IdSet(x) \cap IdSet(y) = {}
  BY <1>9, <1>10, <1>12
<1>15. Listing(r) /\ IdSet(r) = IdSet(x) \cup IdSet(y) /\ OfEither(r, x, y)
  <2>1. Listing(x) /\ Listing(y)
    BY <1>9, <1>12
  <2>2. QED
    BY <1>13, <1>14, <2>1, JoinedLists
<1>16. \A d \in W : d \in IdSet(s)
  BY <1>1, <1>5 DEF Listed, IdSet
<1>17. IdSet(x) \cup IdSet(y) = IdSet(s)
  <2>1. IdSet(y) = {d \in IdSet(s) : d \notin W}
    BY <1>10, <1>12 DEF IdSet
  <2>2. QED
    BY <1>9, <1>16, <2>1
<1>18. ASSUME NEW i \in 1..Len(r)
       PROVE  \E j \in 1..Len(s) : r[i].id = s[j].id /\ r[i].meta = s[j].meta
  <2>1. CASE \E j \in 1..Len(x) : r[i] = x[j]
    BY <1>7, <1>9, <2>1
  <2>2. CASE \E j \in 1..Len(y) : r[i] = y[j]
    <3>1. PICK j \in 1..Len(y) : r[i] = y[j]
      BY <2>2
    <3>2. PICK p \in P : y[j] = s[p]
      BY <1>12 DEF TakenFrom
    <3>3. QED
      BY <1>10, <3>1, <3>2
  <2>3. QED
    BY <1>15, <2>1, <2>2 DEF OfEither
<1>19. QED
  BY <1>15, <1>17, <1>18

\* Groups are made of the candidates.
LEMMA GroupedFrom ==
  ASSUME NEW s, Listing(s), NEW q, NEW g, g = Grouped(s, q)
  PROVE  From(g, s)
<1> DEFINE keyed == {i \in DOMAIN s : s[i].meta \notin {Lean, Bare}}
           bucket(i) == {j \in keyed : Text(s[j].meta) = Text(s[i].meta)}
           first == [i \in keyed |-> Min(bucket(i))]
           earlier(i) == {first[j] : j \in {k \in keyed : first[k] < first[i]}}
           kept == {i \in keyed : /\ Cardinality(earlier(i)) < q.groups
                                  /\ Cardinality({j \in bucket(i) : j < i}) < q.group_size}
<1>1. PICK n \in Nat : n = Len(s) /\ DOMAIN s = 1..n
  BY DEF Listing
<1>2. IsFiniteSet(1..n)
  BY FS_Interval
<1>3. ASSUME NEW i \in keyed PROVE first[i] \in Int
  <2>1. PICK T : T = bucket(i)
    OBVIOUS
  <2>2. T \subseteq 1..n /\ i \in T
    BY <1>1, <2>1
  <2>3. T \subseteq Int /\ T # {} /\ IsFiniteSet(T)
    <3>1. IsFiniteSet(T)
      BY <1>2, <2>2, FS_Subset
    <3>2. T \subseteq Int /\ T # {}
      BY <2>2
    <3>3. QED
      BY <3>1, <3>2
  <2>4. Min(T) \in T
    BY <2>3, Extremes
  <2>5. first[i] = Min(T)
    BY <2>1
  <2>6. QED
    BY <2>3, <2>4, <2>5
<1>4. PICK best : best = first
  OBVIOUS
<1>5. PICK K : K = kept
  OBVIOUS
<1>6. K \subseteq 1..n /\ \A i \in K : best[i] \in Int
  BY <1>1, <1>3, <1>4, <1>5
<1>7. IsFiniteSet(K)
  BY <1>2, <1>6, FS_Subset
<1>8. PICK B : B = [i \in K |-> {j \in K : best[j] < best[i] \/ (best[j] = best[i] /\ j < i)}]
  OBVIOUS
<1>9. g = [m \in DOMAIN Arranged(K, B) |-> s[Arranged(K, B)[m]]]
  BY <1>4, <1>5, <1>8 DEF Grouped
<1> HIDE DEF keyed, bucket, first, earlier, kept
<1>10. Orders(B, K)
  <2>1. B \in [K -> SUBSET K]
    BY <1>8
  <2>2. \A a, b \in K : a \in B[b] <=> best[a] < best[b] \/ (best[a] = best[b] /\ a < b)
    BY <1>8
  <2>3. \A a \in K : a \in Int /\ best[a] \in Int
    BY <1>6
  <2>4. \A a \in K : a \notin B[a]
    BY <2>2, <2>3
  <2>5. \A a, b \in K : a # b => a \in B[b] \/ b \in B[a]
    BY <2>2, <2>3
  <2>6. ASSUME NEW a \in K, NEW b \in K, a \in B[b], NEW c \in B[a] PROVE c \in B[b]
    <3>1. c \in K
      BY <2>1
    <3>2. /\ best[a] < best[b] \/ (best[a] = best[b] /\ a < b)
          /\ best[c] < best[a] \/ (best[c] = best[a] /\ c < a)
      BY <2>2, <2>6, <3>1
    <3>3. best[c] < best[b] \/ (best[c] = best[b] /\ c < b)
      BY <2>3, <3>1, <3>2
    <3>4. QED
      BY <2>2, <3>1, <3>3
  <2>7. \A a, b \in K : a \in B[b] => B[a] \subseteq B[b]
    BY <2>6
  <2>8. QED
    BY <2>1, <2>4, <2>5, <2>7 DEF Orders
<1>11. PICK at : at = Arranged(K, B)
  OBVIOUS
<1>12. at \in Seq(K) /\ \A i, j \in 1..Len(at) : at[i] = at[j] => i = j
  BY <1>7, <1>10, <1>11, ArrangesEachOnce
<1>13. PICK m \in Nat : m = Len(at) /\ DOMAIN at = 1..m
  BY <1>12
<1>14. \A i \in 1..m : at[i] \in 1..n
  BY <1>6, <1>12, <1>13, ElementOfSeq
<1>15. g = [i \in 1..m |-> s[at[i]]]
  BY <1>9, <1>11, <1>13
<1>16. \A i \in 1..m : s[at[i]] \in Cands
  BY <1>1, <1>14, CandParts
<1>17. g \in Seq(Cands) /\ Len(g) = m /\ \A i \in 1..m : g[i] = s[at[i]]
  BY <1>15, <1>16
<1>18. PICK h : h = [i \in 1..m |-> at[i]]
  OBVIOUS
<1>19. /\ h \in [1..Len(g) -> 1..Len(s)]
       /\ \A i \in 1..Len(g) : g[i].id = s[h[i]].id /\ g[i].meta = s[h[i]].meta
       /\ \A i, j \in 1..Len(g) : h[i] = h[j] => i = j
  BY <1>1, <1>12, <1>13, <1>14, <1>17, <1>18
<1>20. QED
  BY <1>17, <1>19 DEF From

\* discover only sorts.
LEMMA AgreementLists ==
  ASSUME DocsTyped, NEW s, Listing(s), NEW t, t = ByAgreement(s)
  PROVE  Listing(t) /\ IdSet(t) \subseteq IdSet(s) /\ TakenFrom(t, s, 1..Len(s))
<1> DEFINE vote(c) == IF docs[c.id] = NoDoc THEN -1000 ELSE Agree[c.id]
<1>1. PICK n \in Nat : n = Len(s) /\ DOMAIN s = 1..n
  BY DEF Listing
<1>2. PICK F : F = ToSet(s)
  OBVIOUS
<1>3. F = {s[i] : i \in 1..n}
  BY <1>1, <1>2 DEF ToSet
<1>4. IsFiniteSet(F)
  <2>1. PICK f : f = [i \in 1..n |-> s[i]]
    OBVIOUS
  <2>2. f \in [1..n -> F] /\ \A c \in F : \E i \in 1..n : f[i] = c
    BY <1>3, <2>1
  <2>3. f \in Surjection(1..n, F)
    BY <2>2 DEF Surjection
  <2>4. IsFiniteSet(1..n)
    BY FS_Interval
  <2>5. QED
    BY <2>3, <2>4, FS_Surjection
<1>5. \A c \in F : c \in Cands
  BY <1>1, <1>3, CandParts
<1>6. PICK v : v = [c \in F |-> vote(c)]
  OBVIOUS
<1>7. \A c \in F : v[c] \in Int /\ c.score \in Int /\ c.id \in Int
  <2>1. ASSUME NEW c \in F PROVE v[c] \in Int /\ c.score \in Int /\ c.id \in Int
    <3>1. c.id \in Ids /\ c.score \in Int
      BY <1>5 DEF Cands
    <3>2. c.id \in Int /\ Agree[c.id] \in Int
      BY <3>1, IdsAssumption, ScoresAssumption
    <3>3. QED
      BY <1>6, <3>1, <3>2
  <2>2. QED
    BY <2>1
<1>8. \A a, b \in F : a.id = b.id => a = b
  BY <1>1, <1>3 DEF Listing
<1>9. PICK B : B = [b \in F |-> {a \in F : \/ v[a] > v[b]
                                           \/ v[a] = v[b] /\ a.score > b.score
                                           \/ v[a] = v[b] /\ a.score = b.score /\ a.id < b.id}]
  OBVIOUS
<1>10. t = Arranged(F, B)
  <2>1. B = [b \in F |-> {a \in F : \/ vote(a) > vote(b)
                                    \/ vote(a) = vote(b) /\ a.score > b.score
                                    \/ vote(a) = vote(b) /\ a.score = b.score /\ a.id < b.id}]
    BY <1>6, <1>9
  <2>2. QED
    BY <1>2, <2>1 DEF ByAgreement
<1> HIDE DEF vote
<1>11. Orders(B, F)
  <2>1. B \in [F -> SUBSET F]
    BY <1>9
  <2>2. \A a, b \in F : a \in B[b] <=> \/ v[a] > v[b]
                                       \/ v[a] = v[b] /\ a.score > b.score
                                       \/ v[a] = v[b] /\ a.score = b.score /\ a.id < b.id
    BY <1>9
  <2>3. \A a \in F : a \notin B[a]
    BY <1>7, <2>2
  <2>4. ASSUME NEW a \in F, NEW b \in F, a # b PROVE a \in B[b] \/ b \in B[a]
    <3>1. a.id # b.id
      BY <1>8, <2>4
    <3>2. QED
      BY <1>7, <2>2, <3>1
  <2>5. ASSUME NEW a \in F, NEW b \in F, a \in B[b], NEW c \in B[a] PROVE c \in B[b]
    <3>1. c \in F
      BY <2>1
    <3>2. /\ \/ v[a] > v[b]
             \/ v[a] = v[b] /\ a.score > b.score
             \/ v[a] = v[b] /\ a.score = b.score /\ a.id < b.id
          /\ \/ v[c] > v[a]
             \/ v[c] = v[a] /\ c.score > a.score
             \/ v[c] = v[a] /\ c.score = a.score /\ c.id < a.id
      BY <2>2, <2>5, <3>1
    <3>3. \/ v[c] > v[b]
          \/ v[c] = v[b] /\ c.score > b.score
          \/ v[c] = v[b] /\ c.score = b.score /\ c.id < b.id
      BY <1>7, <3>1, <3>2
    <3>4. QED
      BY <2>2, <3>1, <3>3
  <2>6. \A a, b \in F : a \in B[b] => B[a] \subseteq B[b]
    BY <2>5
  <2>7. QED
    BY <2>1, <2>3, <2>4, <2>6 DEF Orders
<1>12. t \in Seq(F) /\ \A i, j \in 1..Len(t) : t[i] = t[j] => i = j
  BY <1>4, <1>10, <1>11, ArrangesEachOnce
<1>13. PICK m \in Nat : m = Len(t)
  BY <1>12
<1>14. \A i \in 1..m : t[i] \in F
  BY <1>12, <1>13, ElementOfSeq
<1>15. t \in Seq(Cands)
  BY <1>5, <1>12
<1>16. Listing(t)
  BY <1>8, <1>12, <1>13, <1>14, <1>15 DEF Listing
<1>17. \A i \in 1..m : \E p \in 1..n : t[i] = s[p]
  BY <1>3, <1>14
<1>18. TakenFrom(t, s, 1..Len(s))
  BY <1>1, <1>13, <1>17 DEF TakenFrom
<1>19. IdSet(t) \subseteq IdSet(s)
  BY <1>1, <1>13, <1>17 DEF IdSet
<1>20. QED
  BY <1>16, <1>18, <1>19

----------------------------------------------------------------------------
(* A query under way.                                                      *)

Parts == {"at", "q", "scope", "allowed", "prefiltered", "cands", "quiet", "seen"}
QueryStages == {"prefetch", "scope", "ids", "search", "sparse", "multi", "filter", "page", "group",
                "recommend", "near", "discover", "agree", "done", "refused"}

\* A document the request admits, and one that matched it at some moment.
Bounded(q, d) == (q.scope # <<>> => d \in q.scope[1]) /\ (q.collection => d \in Members)
Matched(q, seen, d) == \E v \in seen[d] : v = NoDoc \/ MatchesEitherWay(effective_filter(q), v)

IsScope(scope) == scope = <<>> \/ DOMAIN scope = {1}

SeenNow == query.seen \in [Ids -> SUBSET Fields] /\ \A d \in Ids : docs[d] \in query.seen[d]

QueryTyped ==
    /\ DOMAIN query = Parts /\ query = [p \in Parts |-> query[p]]
    /\ IsQuery(query.q) /\ IsScope(query.scope)
    /\ query.prefiltered \in BOOLEAN /\ query.quiet \in BOOLEAN
    /\ SeenNow
    /\ Listing(query.cands) /\ Backed(query.cands, query.seen)

\* The scope found so far is inside the one asked for.
WithinScope(r) == r.q.scope # <<>> => r.scope # <<>> /\ r.scope[1] \subseteq r.q.scope[1]

\* What may be on the page, once the scope is known.
Narrowed(r) ==
    /\ \A d \in r.allowed : Bounded(r.q, d)
    /\ r.prefiltered => /\ effective_filter(r.q) # NoFilter /\ r.scope = <<>> /\ r.allowed \subseteq Ids
                       /\ \A d \in r.allowed : Matched(r.q, r.seen, d)
    /\ ~r.prefiltered => r.allowed = IF r.scope = <<>> THEN Ids ELSE r.scope[1]

Belonging(r, d) == Bounded(r.q, d) /\ Matched(r.q, r.seen, d)

StageInv(r) ==
    /\ r.at \in QueryStages
    /\ r.at \in {"prefetch", "scope"} => WithinScope(r)
    /\ r.at \in {"prefetch", "scope", "ids"} => ~r.prefiltered
    /\ r.at \in {"ids", "search", "sparse", "multi", "filter"} => Narrowed(r)
    /\ r.at \in {"sparse", "multi", "filter"} => IdSet(r.cands) \subseteq r.allowed
    /\ r.at \in {"page", "group", "done"} => \A d \in IdSet(r.cands) : Belonging(r, d)
    /\ r.at \in {"recommend", "near", "discover", "agree"} => r.q.kind \in {"recommend", "discover"}

QueryInv == DocsTyped /\ (query = NoQuery \/ (QueryTyped /\ StageInv(query)))

\* A step changes the parts it names.
LEMMA GoesParts ==
  ASSUME DOMAIN query = Parts, NEW next, Goes(next)
  PROVE  /\ DOMAIN query' = Parts /\ query' = [p \in Parts |-> query'[p]]
         /\ \A p \in Parts : query'[p] = IF p \in DOMAIN next THEN next[p] ELSE query[p]
<1>1. query' = [p \in Parts |-> IF p \in DOMAIN next THEN next[p] ELSE query[p]]
  BY DEF Goes
<1>2. QED
  BY <1>1

\* What a step of the query keeps.
LEMMA Carried ==
  ASSUME QueryInv, QueryTyped, docs' = docs, DOMAIN query' = Parts, query' = [p \in Parts |-> query'[p]],
         query'.q = query.q, query'.seen = query.seen, query'.quiet = query.quiet,
         IsScope(query'.scope), query'.prefiltered \in BOOLEAN,
         Listing(query'.cands), Backed(query'.cands, query.seen)
  PROVE  QueryTyped' /\ DocsTyped'
<1>1. DocsTyped'
  BY DEF QueryInv, DocsTyped
<1>2. SeenNow'
  BY DEF QueryTyped, SeenNow
<1>3. IsScope(query.scope)' /\ Listing(query.cands)' /\ Backed(query.cands, query.seen)'
  BY DEF IsScope, Listing, Cands, Fields, Backed
<1>4. IsQuery(query.q)' /\ (query.prefiltered \in BOOLEAN)' /\ (query.quiet \in BOOLEAN)'
  BY DEF QueryTyped, IsQuery, effective_filter
<1>5. QED
  BY <1>1, <1>2, <1>3, <1>4 DEF QueryTyped

\* One step of a query under way.
LEMMA StepKeeps ==
  ASSUME QueryInv, query # NoQuery, NEW next, Goes(next), Quietly,
         DOMAIN next \subseteq {"at", "scope", "allowed", "prefiltered", "cands"},
         "scope" \in DOMAIN next => IsScope(next.scope),
         "prefiltered" \in DOMAIN next => next.prefiltered \in BOOLEAN,
         "cands" \in DOMAIN next => Listing(next.cands) /\ Backed(next.cands, query.seen)
  PROVE  /\ QueryTyped' /\ DocsTyped'
         /\ \A p \in Parts : query'[p] = IF p \in DOMAIN next THEN next[p] ELSE query[p]
<1>1. QueryTyped
  BY DEF QueryInv
<1>2. /\ DOMAIN query' = Parts /\ query' = [p \in Parts |-> query'[p]]
      /\ \A p \in Parts : query'[p] = IF p \in DOMAIN next THEN next[p] ELSE query[p]
  BY <1>1, GoesParts DEF QueryTyped
<1>3. query'.q = query.q /\ query'.seen = query.seen /\ query'.quiet = query.quiet
  BY <1>2 DEF Parts
<1>4. IsScope(query'.scope) /\ query'.prefiltered \in BOOLEAN
  BY <1>1, <1>2 DEF Parts, QueryTyped
<1>5. Listing(query'.cands) /\ Backed(query'.cands, query.seen)
  BY <1>1, <1>2 DEF Parts, QueryTyped
<1>6. QED
  BY <1>1, <1>2, <1>3, <1>4, <1>5, Carried DEF Quietly

\* Payloads of the moment are among those seen.
LEMMA FreshBacked ==
  ASSUME SeenNow, NEW s, Listing(s), Fresh(s)
  PROVE  Backed(s, query.seen)
<1>1. \A i \in 1..Len(s) : s[i].id \in Ids
  BY CandParts
<1>2. QED
  BY <1>1 DEF SeenNow, Fresh, Backed

\* So are those of a list taken from another.
LEMMA FromBacked ==
  ASSUME NEW s, NEW seen, Backed(s, seen), NEW t,
         \A i \in 1..Len(t) : \E j \in 1..Len(s) : t[i].id = s[j].id /\ t[i].meta = s[j].meta
  PROVE  Backed(t, seen)
<1>1. ASSUME NEW i \in 1..Len(t) PROVE t[i].meta = Lean \/ t[i].meta \in seen[t[i].id]
  <2>1. PICK j \in 1..Len(s) : t[i].id = s[j].id /\ t[i].meta = s[j].meta
    OBVIOUS
  <2>2. s[j].meta = Lean \/ s[j].meta \in seen[s[j].id]
    BY DEF Backed
  <2>3. QED
    BY <2>1, <2>2
<1>2. QED
  BY <1>1 DEF Backed

\* Where there is no filter everything matches.
LEMMA UnfilteredMatched ==
  ASSUME DocsTyped, SeenNow, NEW q, effective_filter(q) = NoFilter, NEW d \in Ids
  PROVE  Matched(q, query.seen, d)
<1>1. filter_matches(NoFilter, docs[d])
  BY DEF filter_matches, NoFilter
<1>2. docs[d] \in query.seen[d]
  BY DEF SeenNow
<1>3. QED
  BY <1>1, <1>2 DEF Matched, MatchesEitherWay

\* A payload that is missing is not one of a document.
LEMMA LeanIsNone == Lean \notin Fields
<1>1. ASSUME NEW v \in Fields PROVE v.type # "lean"
  BY ValuesAssumption DEF Fields, IsValue, Types, Surfaces, Bare, NoDoc, Value
<1>2. Lean.type = "lean"
  BY DEF Lean, Value
<1>3. QED
  BY <1>1, <1>2

LEMMA DocsAreFormed == ASSUME DocsTyped PROVE DocsFormed
  BY ValuesAssumption DEF DocsTyped, DocsFormed, IsField, Fields

\* Both depths are numbers.
LEMMA Depths ==
  ASSUME NEW q, IsQuery(q)
  PROVE  Want(q) \in Nat /\ Fetch(q) \in Nat /\ q.top_k \in Nat /\ q.offset \in Nat
         /\ q.fusion \in Int \X Int
<1>1. q.top_k \in Nat /\ q.offset \in Nat /\ q.fusion \in Int \X Int
  BY DEF IsQuery
<1>2. Want(q) \in Nat
  BY <1>1 DEF Want
<1>3. FILTER_OVERFETCH \in Nat
  BY ScoresAssumption
<1>4. Want(q) * FILTER_OVERFETCH \in Nat
  BY <1>2, <1>3
<1>5. QED
  BY <1>1, <1>2, <1>4 DEF Fetch

LEMMA UnderWay ==
  ASSUME QueryInv, query.at # "idle"
  PROVE  query # NoQuery /\ QueryTyped /\ StageInv(query) /\ IsQuery(query.q) /\ SeenNow /\ DocsTyped
  BY DEF QueryInv, NoQuery, QueryTyped

LEMMA SubmitHolds == ASSUME QueryInv, NEW r \in Queries, Submit(r) PROVE QueryInv'
<1>1. PICK q : q = IF r.kind # "grouped" THEN r
                   ELSE [r EXCEPT !.top_k = r.groups * r.group_size * STRATEGY_OVERFETCH]
  OBVIOUS
<1>2. IsQuery(r)
  BY QueriesAssumption
<1>3. IsQuery(q)
  <2>1. CASE r.kind # "grouped"
    BY <1>1, <1>2, <2>1
  <2>2. CASE r.kind = "grouped"
    <3>1. PICK n : n = r.groups * r.group_size * STRATEGY_OVERFETCH
      OBVIOUS
    <3>2. n \in Nat
      <4>1. r.groups \in Nat /\ r.group_size \in Nat /\ STRATEGY_OVERFETCH \in Nat
        BY <1>2, ScoresAssumption DEF IsQuery
      <4>2. r.groups * r.group_size \in Nat
        BY <4>1
      <4>3. QED
        BY <3>1, <4>1, <4>2
    <3>3. q = [r EXCEPT !.top_k = n]
      BY <1>1, <2>2, <3>1
    <3>4. DOMAIN r = DOMAIN DefaultQuery
      BY <1>2 DEF IsQuery
    <3>5. DOMAIN q = DOMAIN DefaultQuery /\ \A p \in DOMAIN q : q[p] = IF p = "top_k" THEN n ELSE r[p]
      BY <3>3, <3>4
    <3>6. DOMAIN DefaultQuery =
            {"kind", "text", "vector", "sparse", "using", "collection", "multi", "top_k", "legacy", "filter",
             "scope", "threshold", "offset", "prefetch", "fusion", "mode", "groups", "group_size", "positive",
             "negative"}
      BY DEF DefaultQuery
    <3>7. /\ q.top_k = n /\ q.kind = r.kind /\ q.legacy = r.legacy /\ q.filter = r.filter /\ q.scope = r.scope
          /\ q.offset = r.offset /\ q.groups = r.groups /\ q.group_size = r.group_size /\ q.prefetch = r.prefetch
          /\ q.fusion = r.fusion /\ q.positive = r.positive /\ q.negative = r.negative
          /\ q.collection = r.collection
      BY <3>5, <3>6
    <3>8. effective_filter(q) = effective_filter(r)
      BY <3>7 DEF effective_filter
    <3>9. QED
      BY <1>2, <3>2, <3>5, <3>7, <3>8 DEF IsQuery
  <2>3. QED
    BY <2>1, <2>2
<1>4. /\ query' =
                [at |-> IF q.kind \in {"query", "grouped"}
                             /\ (q.top_k > MaxTopK \/ Len(q.prefetch) > MAX_PREFETCH_DEPTH)
                        THEN "refused"
                        ELSE IF q.top_k = 0 THEN "done"
                        ELSE IF q.kind \in {"query", "grouped"} THEN "prefetch" ELSE q.kind,
                 q |-> q, scope |-> q.scope, allowed |-> Unlimited, prefiltered |-> FALSE,
                 cands |-> <<>>, quiet |-> TRUE, seen |-> [d \in Ids |-> {docs[d]}]]
      /\ docs' = docs
  BY <1>1 DEF Submit
<1>5. PICK s : s = query'
  OBVIOUS
<1>6. /\ DOMAIN s = Parts /\ s = [p \in Parts |-> s[p]]
      /\ s.q = q /\ s.scope = q.scope /\ s.prefiltered = FALSE /\ s.cands = <<>> /\ s.quiet = TRUE
      /\ s.seen = [d \in Ids |-> {docs[d]}]
      /\ s.at = "refused" \/ s.at = "done" \/ s.at = "prefetch"
         \/ (s.at = q.kind /\ q.kind \notin {"query", "grouped"})
  BY <1>4, <1>5 DEF Parts
<1>7. q.kind \in {"query", "grouped", "recommend", "discover"} /\ IsScope(q.scope)
  BY <1>3 DEF IsQuery, IsScope
<1>8. DocsTyped /\ DocsTyped'
  BY <1>4 DEF QueryInv, DocsTyped
<1>9. SeenNow'
  <2>1. s.seen \in [Ids -> SUBSET Fields]
    BY <1>6, <1>8 DEF DocsTyped
  <2>2. \A d \in Ids : docs[d] \in s.seen[d]
    BY <1>6
  <2>3. QED
    BY <1>4, <1>5, <2>1, <2>2 DEF SeenNow
<1>10. Listing(s.cands) /\ IdSet(s.cands) = {} /\ Backed(s.cands, s.seen)
  BY <1>6, EmptyLists DEF Backed
<1>11. QueryTyped'
  BY <1>3, <1>5, <1>6, <1>7, <1>9, <1>10 DEF QueryTyped
<1>12. StageInv(s)
  <2>1. WithinScope(s)
    BY <1>6 DEF WithinScope
  <2>2. QED
    BY <1>6, <1>7, <1>10, <2>1 DEF StageInv, QueryStages
<1>13. QED
  BY <1>5, <1>8, <1>11, <1>12 DEF QueryInv

LEMMA PrefetchHolds == ASSUME QueryInv, Prefetch PROVE QueryInv'
<1>1. query # NoQuery /\ QueryTyped /\ StageInv(query) /\ IsQuery(query.q) /\ query.at = "prefetch"
  BY UnderWay DEF Prefetch
<1>2. PICK q, gathered : q = query.q /\ gathered = Gathered(q)
  OBVIOUS
<1>3. PICK scope : scope = IF q.prefetch = <<>> THEN q.scope
                           ELSE IF q.scope = <<>> THEN <<gathered>>
                           ELSE <<gathered \cap q.scope[1]>>
  OBVIOUS
<1>4. PICK next : next = [at |-> "scope", scope |-> scope]
  OBVIOUS
<1>5. Goes(next) /\ Quietly
  BY <1>2, <1>3, <1>4 DEF Prefetch
<1>6. /\ IsScope(scope)
      /\ q.scope # <<>> => scope # <<>> /\ scope[1] \subseteq q.scope[1]
  BY <1>1, <1>2, <1>3 DEF IsQuery, IsScope
<1>7. DOMAIN next = {"at", "scope"} /\ next.at = "scope" /\ next.scope = scope
  BY <1>4
<1>8. /\ QueryTyped' /\ DocsTyped'
      /\ \A p \in Parts : query'[p] = IF p \in DOMAIN next THEN next[p] ELSE query[p]
  BY <1>1, <1>5, <1>6, <1>7, StepKeeps
<1>9. query'.at = "scope" /\ query'.scope = scope /\ query'.q = q /\ query'.prefiltered = query.prefiltered
  BY <1>2, <1>7, <1>8 DEF Parts
<1>10. StageInv(query')
  BY <1>1, <1>6, <1>9 DEF StageInv, WithinScope, QueryStages
<1>11. QED
  BY <1>8, <1>10 DEF QueryInv

LEMMA ResolveScopeHolds == ASSUME QueryInv, ResolveScope PROVE QueryInv'
<1>1. query # NoQuery /\ QueryTyped /\ StageInv(query) /\ IsQuery(query.q) /\ query.at = "scope"
  BY UnderWay DEF ResolveScope
<1>2. PICK scope : scope = IF ~query.q.collection THEN query.scope
                           ELSE IF query.scope = <<>> THEN <<CollectionMembers>>
                           ELSE <<query.scope[1] \cap CollectionMembers>>
  OBVIOUS
<1>3. PICK allowed : allowed = IF scope = <<>> THEN Ids ELSE scope[1]
  OBVIOUS
<1>4. PICK next : next = [at |-> "ids", scope |-> scope, allowed |-> allowed]
  OBVIOUS
<1>5. Goes(next) /\ Quietly
  BY <1>2, <1>3, <1>4 DEF ResolveScope, Unlimited
<1>6. WithinScope(query) /\ ~query.prefiltered /\ IsScope(query.scope)
  BY <1>1 DEF StageInv, QueryTyped
<1>7. CollectionMembers \subseteq Members
  BY DEF CollectionMembers
<1>8. IsScope(scope)
  BY <1>2, <1>6 DEF IsScope
<1>9. DOMAIN next = {"at", "scope", "allowed"} /\ next.at = "ids" /\ next.scope = scope /\ next.allowed = allowed
  BY <1>4
<1>10. /\ QueryTyped' /\ DocsTyped'
       /\ \A p \in Parts : query'[p] = IF p \in DOMAIN next THEN next[p] ELSE query[p]
  BY <1>1, <1>5, <1>8, <1>9, StepKeeps
<1>11. /\ query'.at = "ids" /\ query'.scope = scope /\ query'.allowed = allowed /\ query'.q = query.q
       /\ query'.prefiltered = query.prefiltered
  BY <1>9, <1>10 DEF Parts
<1>12. ASSUME NEW d \in allowed PROVE Bounded(query.q, d)
  <2>1. ASSUME query.q.scope # <<>> PROVE d \in query.q.scope[1]
    BY <1>2, <1>3, <1>6, <2>1 DEF WithinScope
  <2>2. ASSUME query.q.collection PROVE d \in Members
    BY <1>2, <1>3, <1>7, <2>2
  <2>3. QED
    BY <2>1, <2>2 DEF Bounded
<1>13. Narrowed(query')
  BY <1>3, <1>6, <1>11, <1>12 DEF Narrowed
<1>14. StageInv(query')
  BY <1>6, <1>11, <1>13 DEF StageInv, QueryStages
<1>15. QED
  BY <1>10, <1>14 DEF QueryInv

LEMMA ResolveFilterHolds == ASSUME QueryInv, ResolveFilter PROVE QueryInv'
<1>1. /\ query # NoQuery /\ QueryTyped /\ StageInv(query) /\ IsQuery(query.q) /\ SeenNow /\ DocsTyped
      /\ query.at = "ids"
  BY UnderWay DEF ResolveFilter
<1>2. PICK f : f = effective_filter(query.q)
  OBVIOUS
<1>3. PICK resolved \in BOOLEAN : resolved <=> (query.scope = <<>> /\ Resolvable(f, indexed))
  OBVIOUS
<1>4. PICK allowed : allowed = IF resolved THEN ids_where(f, docs) ELSE query.allowed
  OBVIOUS
<1>5. PICK next : next = [at |-> "search", prefiltered |-> resolved, allowed |-> allowed]
  OBVIOUS
<1>6. Goes(next) /\ Quietly
  BY <1>2, <1>3, <1>4, <1>5 DEF ResolveFilter
<1>7. /\ DOMAIN next = {"at", "prefiltered", "allowed"} /\ next.at = "search" /\ next.prefiltered = resolved
      /\ next.allowed = allowed
  BY <1>5
<1>8. /\ QueryTyped' /\ DocsTyped'
      /\ \A p \in Parts : query'[p] = IF p \in DOMAIN next THEN next[p] ELSE query[p]
  BY <1>1, <1>3, <1>6, <1>7, StepKeeps
<1>9. /\ query'.at = "search" /\ query'.scope = query.scope /\ query'.allowed = allowed /\ query'.q = query.q
      /\ query'.prefiltered = resolved /\ query'.seen = query.seen
  BY <1>7, <1>8 DEF Parts
<1>10. Narrowed(query) /\ ~query.prefiltered
  BY <1>1 DEF StageInv
<1>11. ASSUME resolved
       PROVE  /\ f # NoFilter /\ query.scope = <<>> /\ allowed \subseteq Ids
              /\ \A d \in allowed : Bounded(query.q, d) /\ Matched(query.q, query.seen, d)
  <2>1. query.scope = <<>> /\ (f.must # {} \/ f.should # {}) /\ IsFilter(f)
    BY <1>1, <1>2, <1>3, <1>11 DEF Resolvable, IsQuery
  <2>2. f # NoFilter
    BY <2>1 DEF NoFilter
  <2>3. allowed = Matching(CanonFilter(f), [d \in Ids |-> Canon(docs[d])])
    BY <1>1, <1>4, <1>11, <2>1, DocsAreFormed, FilterAgrees
  <2>4. ASSUME NEW d \in allowed PROVE d \in Ids /\ filter_matches(CanonFilter(f), Canon(docs[d]))
    BY <2>3 DEF Matching, Live
  <2>5. ASSUME NEW d \in allowed PROVE Bounded(query.q, d)
    BY <1>10, <2>1, <2>4 DEF Narrowed
  <2>6. ASSUME NEW d \in allowed PROVE Matched(query.q, query.seen, d)
    BY <1>1, <1>2, <2>4 DEF Matched, MatchesEitherWay, SeenNow
  <2>7. QED
    BY <2>1, <2>2, <2>4, <2>5, <2>6
<1>12. Narrowed(query')
  BY <1>2, <1>4, <1>9, <1>10, <1>11 DEF Narrowed
<1>13. StageInv(query')
  BY <1>9, <1>12 DEF StageInv, QueryStages
<1>14. QED
  BY <1>8, <1>13 DEF QueryInv

\* A step that puts a list in place of the candidates.
LEMMA ListStep ==
  ASSUME QueryInv, query # NoQuery, NEW at, NEW t, Goes([at |-> at, cands |-> t]), Quietly,
         Listing(t), Backed(t, query.seen)
  PROVE  /\ QueryTyped' /\ DocsTyped'
         /\ query'.at = at /\ query'.cands = t /\ query'.q = query.q /\ query'.seen = query.seen
         /\ query'.scope = query.scope /\ query'.allowed = query.allowed
         /\ query'.prefiltered = query.prefiltered /\ query'.quiet = query.quiet
         /\ Narrowed(query) => Narrowed(query')
<1>1. PICK next : next = [at |-> at, cands |-> t]
  OBVIOUS
<1>2. DOMAIN next = {"at", "cands"} /\ next.at = at /\ next.cands = t
  BY <1>1
<1>3. /\ QueryTyped' /\ DocsTyped'
      /\ \A p \in Parts : query'[p] = IF p \in DOMAIN next THEN next[p] ELSE query[p]
  BY <1>1, <1>2, StepKeeps
<1>4. /\ query'.at = at /\ query'.cands = t /\ query'.q = query.q /\ query'.seen = query.seen
      /\ query'.scope = query.scope /\ query'.allowed = query.allowed
      /\ query'.prefiltered = query.prefiltered /\ query'.quiet = query.quiet
  BY <1>2, <1>3 DEF Parts
<1>5. Narrowed(query) => Narrowed(query')
  BY <1>4 DEF Narrowed
<1>6. QED
  BY <1>3, <1>4, <1>5

\* One that leads to the page, or on from it, with documents that belong on it.
LEMMA PageStep ==
  ASSUME QueryInv, query # NoQuery, NEW at \in {"page", "group", "done"}, NEW t,
         Goes([at |-> at, cands |-> t]), Quietly, Listing(t), Backed(t, query.seen),
         \A d \in IdSet(t) : Belonging(query, d)
  PROVE  QueryInv'
<1>1. /\ QueryTyped' /\ DocsTyped'
      /\ query'.at = at /\ query'.cands = t /\ query'.q = query.q /\ query'.seen = query.seen
  BY ListStep
<1>2. \A d \in IdSet(query'.cands) : Belonging(query', d)
  BY <1>1 DEF Belonging
<1>3. StageInv(query')
  BY <1>1, <1>2 DEF StageInv, QueryStages
<1>4. QED
  BY <1>1, <1>3 DEF QueryInv

\* What any of the searches finds.
LEMMA SearchFinds ==
  ASSUME QueryInv, query.at = "search", NEW q, q = query.q, NEW ids, ids = query.allowed,
         NEW found \in
              IF query.scope # <<>> THEN {scoped_search(q, ids, Fetch(q))}
              ELSE IF effective_filter(q) = NoFilter /\ q.using /\ q.vector THEN {named_hybrid(q, Fetch(q))}
              ELSE IF ~query.prefiltered THEN {unscoped(q, Fetch(q))}
              ELSE IF Cardinality(ids) <= EXACT_SCOPE_MAX THEN {scoped_search(q, ids, Want(q))}
              ELSE filter_aware_search(q, ids, Want(q))
  PROVE  Listing(found) /\ IdSet(found) \subseteq ids /\ Fresh(found)
<1>1. /\ query # NoQuery /\ QueryTyped /\ StageInv(query) /\ IsQuery(query.q) /\ SeenNow /\ DocsTyped
      /\ query.at = "search"
  BY UnderWay
<1>2. Want(q) \in Nat /\ Fetch(q) \in Nat /\ q.fusion \in Int \X Int
  BY <1>1, Depths
<1>3. Narrowed(query)
  BY <1>1 DEF StageInv
<1>4. CASE query.scope # <<>>
  BY <1>1, <1>2, <1>4, ScopedLists
<1>5. ASSUME query.scope = <<>>, ~query.prefiltered, Listing(found) PROVE IdSet(found) \subseteq ids
  BY <1>3, <1>5, ListSize DEF Narrowed
<1>6. CASE query.scope = <<>> /\ effective_filter(q) = NoFilter /\ q.using /\ q.vector
  <2>1. ~query.prefiltered
    BY <1>3, <1>6 DEF Narrowed
  <2>2. found = named_hybrid(q, Fetch(q))
    BY <1>6
  <2>3. QED
    BY <1>1, <1>2, <1>5, <1>6, <2>1, <2>2, NamedLists
<1>7. CASE query.scope = <<>> /\ ~(effective_filter(q) = NoFilter /\ q.using /\ q.vector) /\ ~query.prefiltered
  <2>1. found = unscoped(q, Fetch(q))
    BY <1>7
  <2>2. QED
    BY <1>1, <1>2, <1>5, <1>7, <2>1, UnscopedLists
<1>8. CASE /\ query.scope = <<>> /\ ~(effective_filter(q) = NoFilter /\ q.using /\ q.vector) /\ query.prefiltered
           /\ Cardinality(ids) <= EXACT_SCOPE_MAX
  <2>1. found = scoped_search(q, ids, Want(q))
    BY <1>8
  <2>2. QED
    BY <1>1, <1>2, <2>1, ScopedLists
<1>9. CASE /\ query.scope = <<>> /\ ~(effective_filter(q) = NoFilter /\ q.using /\ q.vector) /\ query.prefiltered
           /\ ~(Cardinality(ids) <= EXACT_SCOPE_MAX)
  <2>1. found \in filter_aware_search(q, ids, Want(q))
    BY <1>9
  <2>2. QED
    BY <1>1, <1>2, <2>1, FilterAwareLists
<1>10. QED
  BY <1>4, <1>6, <1>7, <1>8, <1>9

LEMMA SearchHolds == ASSUME QueryInv, Search PROVE QueryInv'
<1>1. /\ query # NoQuery /\ QueryTyped /\ StageInv(query) /\ SeenNow /\ query.at = "search"
  BY UnderWay DEF Search
<1>2. PICK q, ids : q = query.q /\ ids = query.allowed
  OBVIOUS
<1>3. PICK found \in
              IF query.scope # <<>> THEN {scoped_search(q, ids, Fetch(q))}
              ELSE IF effective_filter(q) = NoFilter /\ q.using /\ q.vector THEN {named_hybrid(q, Fetch(q))}
              ELSE IF ~query.prefiltered THEN {unscoped(q, Fetch(q))}
              ELSE IF Cardinality(ids) <= EXACT_SCOPE_MAX THEN {scoped_search(q, ids, Want(q))}
              ELSE filter_aware_search(q, ids, Want(q)) :
                 Goes([at |-> "sparse", cands |-> found])
  BY <1>2 DEF Search
<1>4. Listing(found) /\ IdSet(found) \subseteq ids /\ Fresh(found)
  BY <1>1, <1>2, <1>3, SearchFinds
<1>5. Backed(found, query.seen)
  BY <1>1, <1>4, FreshBacked
<1>6. Quietly
  BY DEF Search
<1>7. /\ QueryTyped' /\ DocsTyped'
      /\ query'.at = "sparse" /\ query'.cands = found /\ query'.allowed = query.allowed
      /\ Narrowed(query) => Narrowed(query')
  BY <1>1, <1>3, <1>4, <1>5, <1>6, ListStep
<1>8. StageInv(query')
  BY <1>1, <1>2, <1>4, <1>7 DEF StageInv, QueryStages
<1>9. QED
  BY <1>7, <1>8 DEF QueryInv

LEMMA FuseSparseHolds == ASSUME QueryInv, FuseSparse PROVE QueryInv'
<1>1. /\ query # NoQuery /\ QueryTyped /\ StageInv(query) /\ IsQuery(query.q) /\ SeenNow /\ DocsTyped
      /\ query.at = "sparse"
  BY UnderWay DEF FuseSparse
<1>2. PICK q, hitList : q = query.q /\ hitList = sparse_search(Fetch(q))
  OBVIOUS
<1>3. PICK P : P = {i \in DOMAIN hitList : hitList[i].id \in query.allowed}
  OBVIOUS
<1>4. PICK sparse : sparse = KeptAt(hitList, P)
  OBVIOUS
<1>5. PICK t : t = IF ~q.sparse \/ sparse = <<>> THEN query.cands
                   ELSE Fetched(Take(fuse(q, <<query.cands, sparse>>), Fetch(q)))
  OBVIOUS
<1>6. Goes([at |-> "multi", cands |-> t]) /\ Quietly
  BY <1>2, <1>3, <1>4, <1>5 DEF FuseSparse
<1>7. Fetch(q) \in Nat /\ q.fusion \in Int \X Int
  BY <1>1, <1>2, Depths
<1>8. Listing(hitList)
  BY <1>1, <1>2, <1>7, SparseLists
<1>9. DOMAIN hitList = 1..Len(hitList)
  BY <1>8 DEF Listing
<1>10. P \subseteq 1..Len(hitList)
  BY <1>3, <1>9
<1>11. Listing(sparse) /\ IdSet(sparse) = {hitList[p].id : p \in P}
  BY <1>4, <1>8, <1>10, KeptLists
<1>12. IdSet(sparse) \subseteq query.allowed
  BY <1>3, <1>11
<1>13. /\ Listing(query.cands) /\ Backed(query.cands, query.seen) /\ IdSet(query.cands) \subseteq query.allowed
       /\ Narrowed(query)
  BY <1>1 DEF QueryTyped, StageInv
<1>14. Listing(t) /\ Backed(t, query.seen) /\ IdSet(t) \subseteq query.allowed
  <2>1. CASE ~q.sparse \/ sparse = <<>>
    BY <1>5, <1>13, <2>1
  <2>2. CASE ~(~q.sparse \/ sparse = <<>>)
    <3>1. PICK r : r = fuse(q, <<query.cands, sparse>>)
      OBVIOUS
    <3>2. Listing(r) /\ IdSet(r) \subseteq IdSet(query.cands) \cup IdSet(sparse)
      BY <1>7, <1>11, <1>13, <3>1, FusedLists
    <3>3. t = Fetched(Take(r, Fetch(q)))
      BY <1>5, <2>2, <3>1
    <3>4. Listing(t) /\ IdSet(t) \subseteq IdSet(r) /\ Fresh(t)
      BY <1>1, <1>7, <3>2, <3>3, FetchedFirst
    <3>5. QED
      BY <1>1, <1>12, <1>13, <3>2, <3>4, FreshBacked
  <2>3. QED
    BY <2>1, <2>2
<1>15. /\ QueryTyped' /\ DocsTyped'
       /\ query'.at = "multi" /\ query'.cands = t /\ query'.allowed = query.allowed /\ Narrowed(query')
  BY <1>1, <1>6, <1>13, <1>14, ListStep
<1>16. StageInv(query')
  BY <1>14, <1>15 DEF StageInv, QueryStages
<1>17. QED
  BY <1>15, <1>16 DEF QueryInv

\* Fetching payloads keeps them among those seen.
LEMMA RefilledBacked ==
  ASSUME DocsTyped, SeenNow, NEW s, Listing(s), Backed(s, query.seen), NEW missing, NEW t, t = Refilled(s, missing)
  PROVE  Listing(t) /\ IdSet(t) = IdSet(s) /\ Backed(t, query.seen)
<1>1. /\ Listing(t) /\ IdSet(t) = IdSet(s) /\ Len(t) = Len(s)
      /\ \A i \in 1..Len(s) :
              /\ t[i].id = s[i].id
              /\ t[i].meta = IF s[i].meta \in missing /\ docs[s[i].id] # NoDoc THEN docs[s[i].id] ELSE s[i].meta
  BY RefilledLists
<1>2. ASSUME NEW i \in 1..Len(t) PROVE t[i].meta = Lean \/ t[i].meta \in query.seen[t[i].id]
  <2>1. s[i].id \in Ids /\ (s[i].meta = Lean \/ s[i].meta \in query.seen[s[i].id])
    BY <1>1, CandParts DEF Backed
  <2>2. docs[s[i].id] \in query.seen[s[i].id]
    BY <2>1 DEF SeenNow
  <2>3. QED
    BY <1>1, <2>1, <2>2
<1>3. QED
  BY <1>1, <1>2 DEF Backed

LEMMA RescoreHolds == ASSUME QueryInv, Rescore PROVE QueryInv'
<1>1. /\ query # NoQuery /\ QueryTyped /\ StageInv(query) /\ SeenNow /\ DocsTyped /\ query.at = "multi"
  BY UnderWay DEF Rescore
<1>2. PICK t : t = IF query.q.multi THEN Refilled(maxsim_rescore(query.cands), {Lean}) ELSE query.cands
  OBVIOUS
<1>3. Goes([at |-> "filter", cands |-> t]) /\ Quietly
  BY <1>2 DEF Rescore
<1>4. /\ Listing(query.cands) /\ Backed(query.cands, query.seen) /\ IdSet(query.cands) \subseteq query.allowed
      /\ Narrowed(query)
  BY <1>1 DEF QueryTyped, StageInv
<1>5. Listing(t) /\ Backed(t, query.seen) /\ IdSet(t) = IdSet(query.cands)
  <2>1. CASE ~query.q.multi
    BY <1>2, <1>4, <2>1
  <2>2. CASE query.q.multi
    <3>1. PICK r : r = maxsim_rescore(query.cands)
      OBVIOUS
    <3>2. /\ Listing(r) /\ IdSet(r) = IdSet(query.cands)
          /\ \A i \in 1..Len(r) : \E j \in 1..Len(query.cands) :
                r[i].id = query.cands[j].id /\ r[i].meta = query.cands[j].meta
      BY <1>4, <3>1, MaxsimLists
    <3>3. Backed(r, query.seen)
      <4>1. PICK c, seen : c = query.cands /\ seen = query.seen
        OBVIOUS
      <4>2. \A i \in 1..Len(r) : \E j \in 1..Len(c) : r[i].id = c[j].id /\ r[i].meta = c[j].meta
        BY <3>2, <4>1
      <4>3. Backed(c, seen)
        BY <1>4, <4>1
      <4>4. Backed(r, seen)
        BY <4>2, <4>3, FromBacked
      <4>5. QED
        BY <4>1, <4>4
    <3>4. t = Refilled(r, {Lean})
      BY <1>2, <2>2, <3>1
    <3>5. QED
      BY <1>1, <3>2, <3>3, <3>4, RefilledBacked
  <2>3. QED
    BY <2>1, <2>2
<1>6. /\ QueryTyped' /\ DocsTyped'
      /\ query'.at = "filter" /\ query'.cands = t /\ query'.allowed = query.allowed /\ Narrowed(query')
  BY <1>1, <1>3, <1>4, <1>5, ListStep
<1>7. StageInv(query')
  BY <1>4, <1>5, <1>6 DEF StageInv, QueryStages
<1>8. QED
  BY <1>6, <1>7 DEF QueryInv

LEMMA PostFilterHolds == ASSUME QueryInv, PostFilter PROVE QueryInv'
<1>1. /\ query # NoQuery /\ QueryTyped /\ StageInv(query) /\ SeenNow /\ DocsTyped /\ query.at = "filter"
  BY UnderWay DEF PostFilter
<1>2. PICK f, c, full : f = effective_filter(query.q) /\ c = query.cands /\ full = Refilled(c, {Lean, Bare})
  OBVIOUS
<1>3. PICK P : P = {i \in DOMAIN full : filter_matches(f, IF full[i].meta = Lean THEN Bare ELSE full[i].meta)}
  OBVIOUS
<1>4. PICK t : t = IF f = NoFilter \/ query.prefiltered THEN c ELSE KeptAt(full, P)
  OBVIOUS
<1>5. Goes([at |-> "page", cands |-> t]) /\ Quietly
  BY <1>2, <1>3, <1>4 DEF PostFilter
<1>6. /\ Listing(c) /\ Backed(c, query.seen) /\ IdSet(c) \subseteq query.allowed /\ Narrowed(query)
  BY <1>1, <1>2 DEF QueryTyped, StageInv
<1>7. \A d \in IdSet(c) : Bounded(query.q, d) /\ d \in Ids
  BY <1>6, ListSize DEF Narrowed
<1>8. CASE f = NoFilter \/ query.prefiltered
  <2>1. t = c
    BY <1>4, <1>8
  <2>2. ASSUME NEW d \in IdSet(c) PROVE Matched(query.q, query.seen, d)
    <3>1. CASE query.prefiltered
      BY <1>6, <3>1 DEF Narrowed
    <3>2. CASE f = NoFilter
      BY <1>1, <1>2, <1>7, <3>2, UnfilteredMatched
    <3>3. QED
      BY <1>8, <3>1, <3>2
  <2>3. \A d \in IdSet(t) : Belonging(query, d)
    BY <1>7, <2>1, <2>2 DEF Belonging
  <2>4. QED
    BY <1>1, <1>5, <1>6, <2>1, <2>3, PageStep
<1>9. CASE ~(f = NoFilter \/ query.prefiltered)
  <2>1. /\ Listing(full) /\ IdSet(full) = IdSet(c) /\ Len(full) = Len(c)
        /\ \A i \in 1..Len(c) :
              /\ full[i].id = c[i].id
              /\ full[i].meta = IF c[i].meta \in {Lean, Bare} /\ docs[c[i].id] # NoDoc THEN docs[c[i].id]
                                ELSE c[i].meta
    BY <1>1, <1>2, <1>6, RefilledLists
  <2>2. Backed(full, query.seen)
    BY <1>1, <1>2, <1>6, RefilledBacked
  <2>3. t = KeptAt(full, P)
    BY <1>4, <1>9
  <2>4. DOMAIN full = 1..Len(full)
    BY <2>1 DEF Listing
  <2>5. P \subseteq 1..Len(full)
    BY <1>3, <2>4
  <2>6. Listing(t) /\ IdSet(t) = {full[p].id : p \in P} /\ IdSet(t) \subseteq IdSet(full) /\ TakenFrom(t, full, P)
    BY <2>1, <2>3, <2>5, KeptLists
  <2>7. Backed(t, query.seen)
    <3>1. PICK seen : seen = query.seen
      OBVIOUS
    <3>2. \A i \in 1..Len(t) : \E j \in 1..Len(full) : t[i].id = full[j].id /\ t[i].meta = full[j].meta
      BY <2>5, <2>6 DEF TakenFrom
    <3>3. QED
      BY <2>2, <3>1, <3>2, FromBacked
  <2>8. ASSUME NEW p \in P PROVE Matched(query.q, query.seen, full[p].id)
    <3>1. p \in 1..Len(c) /\ p \in 1..Len(full) /\ c[p].id \in Ids /\ full[p].id = c[p].id
      BY <1>6, <2>1, <2>5, CandParts
    <3>2. CASE full[p].meta = Lean
      <4>1. docs[c[p].id] \in Fields
        BY <1>1, <3>1 DEF DocsTyped
      <4>2. docs[c[p].id] = NoDoc
        BY <2>1, <3>1, <3>2, <4>1, LeanIsNone
      <4>3. NoDoc \in query.seen[full[p].id]
        BY <1>1, <3>1, <4>2 DEF SeenNow
      <4>4. QED
        BY <4>3 DEF Matched
    <3>3. CASE full[p].meta # Lean
      <4>1. full[p].meta \in query.seen[full[p].id]
        BY <2>2, <3>1, <3>3 DEF Backed
      <4>2. filter_matches(f, full[p].meta)
        BY <1>3, <3>3
      <4>3. QED
        BY <1>2, <4>1, <4>2 DEF Matched, MatchesEitherWay
    <3>4. QED
      BY <3>2, <3>3
  <2>9. \A d \in IdSet(t) : Belonging(query, d)
    BY <1>7, <2>1, <2>6, <2>8 DEF Belonging
  <2>10. QED
    BY <1>1, <1>5, <2>6, <2>7, <2>9, PageStep
<1>10. QED
  BY <1>8, <1>9

\* What is taken from a list of documents that belong on the page belongs there.
LEMMA StillBelongs ==
  ASSUME QueryInv, query # NoQuery, NEW s, Listing(s), Backed(s, query.seen),
         \A d \in IdSet(s) : Belonging(query, d), NEW t, From(t, s)
  PROVE  Listing(t) /\ Backed(t, query.seen) /\ \A d \in IdSet(t) : Belonging(query, d)
<1>1. PICK seen : seen = query.seen
  OBVIOUS
<1>2. /\ Listing(t) /\ IdSet(t) \subseteq IdSet(s)
      /\ \A i \in 1..Len(t) : \E j \in 1..Len(s) : t[i].id = s[j].id /\ t[i].meta = s[j].meta
  BY FromLists
<1>3. Backed(t, seen)
  BY <1>1, <1>2, FromBacked
<1>4. QED
  BY <1>1, <1>2, <1>3

LEMMA PageHolds == ASSUME QueryInv, Page PROVE QueryInv'
<1>1. /\ query # NoQuery /\ QueryTyped /\ StageInv(query) /\ IsQuery(query.q) /\ query.at = "page"
  BY UnderWay DEF Page
<1>2. PICK q, c : q = query.q /\ c = query.cands
  OBVIOUS
<1>3. PICK P : P = {i \in DOMAIN c : \A x \in q.threshold : c[i].score >= x}
  OBVIOUS
<1>4. PICK above, rest, t : above = KeptAt(c, P) /\ rest = Drop(above, q.offset) /\ t = Take(rest, q.top_k)
  OBVIOUS
<1>5. PICK at : at = IF q.kind = "grouped" THEN "group" ELSE "done"
  OBVIOUS
<1>6. Goes([at |-> at, cands |-> t]) /\ Quietly
  BY <1>2, <1>3, <1>4, <1>5 DEF Page
<1>7. q.top_k \in Nat /\ q.offset \in Nat
  BY <1>1, <1>2, Depths
<1>8. Listing(c) /\ Backed(c, query.seen) /\ \A d \in IdSet(c) : Belonging(query, d)
  BY <1>1, <1>2 DEF QueryTyped, StageInv
<1>9. c \in Seq(Cands) /\ P \subseteq 1..Len(c)
  BY <1>3, <1>8 DEF Listing
<1>10. From(above, c)
  BY <1>4, <1>9, KeptFrom
<1>11. Listing(above) /\ Backed(above, query.seen) /\ \A d \in IdSet(above) : Belonging(query, d)
  BY <1>1, <1>8, <1>10, StillBelongs
<1>12. From(rest, above)
  BY <1>4, <1>7, <1>11, DropFrom DEF Listing
<1>13. Listing(rest) /\ Backed(rest, query.seen) /\ \A d \in IdSet(rest) : Belonging(query, d)
  BY <1>1, <1>11, <1>12, StillBelongs
<1>14. From(t, rest)
  BY <1>4, <1>7, <1>13, TakeFrom DEF Listing
<1>15. Listing(t) /\ Backed(t, query.seen) /\ \A d \in IdSet(t) : Belonging(query, d)
  BY <1>1, <1>13, <1>14, StillBelongs
<1>16. QED
  BY <1>1, <1>5, <1>6, <1>15, PageStep

LEMMA GroupHolds == ASSUME QueryInv, Group PROVE QueryInv'
<1>1. /\ query # NoQuery /\ QueryTyped /\ StageInv(query) /\ SeenNow /\ DocsTyped /\ query.at = "group"
  BY UnderWay DEF Group
<1>2. PICK c, full, t : c = query.cands /\ full = Refilled(c, {Lean, Bare}) /\ t = Grouped(full, query.q)
  OBVIOUS
<1>3. Goes([at |-> "done", cands |-> t]) /\ Quietly
  BY <1>2 DEF Group
<1>4. Listing(c) /\ Backed(c, query.seen) /\ \A d \in IdSet(c) : Belonging(query, d)
  BY <1>1, <1>2 DEF QueryTyped, StageInv
<1>5. Listing(full) /\ IdSet(full) = IdSet(c) /\ Backed(full, query.seen)
  BY <1>1, <1>2, <1>4, RefilledBacked
<1>6. From(t, full)
  BY <1>2, <1>5, GroupedFrom
<1>7. Listing(t) /\ Backed(t, query.seen) /\ \A d \in IdSet(t) : Belonging(query, d)
  BY <1>1, <1>4, <1>5, <1>6, StillBelongs
<1>8. QED
  BY <1>1, <1>3, <1>7, PageStep

\* From examples: no filter and no scope, so that every document belongs on the page.
LEMMA AllBelong ==
  ASSUME QueryInv, query # NoQuery, query.q.kind \in {"recommend", "discover"}, NEW d \in Ids
  PROVE  Belonging(query, d)
<1>1. QueryTyped /\ DocsTyped /\ SeenNow /\ IsQuery(query.q)
  BY DEF QueryInv, QueryTyped
<1>2. effective_filter(query.q) = NoFilter /\ query.q.scope = <<>> /\ ~query.q.collection
  BY <1>1 DEF IsQuery
<1>3. Matched(query.q, query.seen, d)
  BY <1>1, <1>2, UnfilteredMatched
<1>4. QED
  BY <1>2, <1>3 DEF Belonging, Bounded

LEMMA ExamplesHolds == ASSUME QueryInv, Examples PROVE QueryInv'
<1>1. /\ query # NoQuery /\ QueryTyped /\ StageInv(query) /\ query.at = "recommend"
  BY UnderWay DEF Examples
<1>2. PICK at : at = IF query.q.positive \cap Live(docs) = {} THEN "refused" ELSE "near"
  OBVIOUS
<1>3. PICK next : next = [at |-> at]
  OBVIOUS
<1>4. Goes(next) /\ Quietly
  BY <1>2, <1>3 DEF Examples
<1>5. DOMAIN next = {"at"} /\ next.at = at
  BY <1>3
<1>6. /\ QueryTyped' /\ DocsTyped'
      /\ \A p \in Parts : query'[p] = IF p \in DOMAIN next THEN next[p] ELSE query[p]
  BY <1>1, <1>4, <1>5, StepKeeps
<1>7. query'.at = at /\ query'.q = query.q
  BY <1>5, <1>6 DEF Parts
<1>8. StageInv(query')
  BY <1>1, <1>2, <1>7 DEF StageInv, QueryStages
<1>9. QED
  BY <1>6, <1>8 DEF QueryInv

LEMMA RecommendHolds == ASSUME QueryInv, Recommend PROVE QueryInv'
<1>1. /\ query # NoQuery /\ QueryTyped /\ StageInv(query) /\ IsQuery(query.q) /\ SeenNow /\ DocsTyped
      /\ query.at = "near"
  BY UnderWay DEF Recommend
<1>2. PICK q, exclude : q = query.q /\ exclude = q.positive \cup q.negative
  OBVIOUS
<1>3. PICK near : near = dense_search(q, Ids)
  OBVIOUS
<1>4. PICK hitList : hitList = Fetched(Take(near, q.top_k + Cardinality(exclude)))
  OBVIOUS
<1>5. PICK P : P = {i \in DOMAIN hitList : hitList[i].id \notin exclude}
  OBVIOUS
<1>6. PICK others, t : others = KeptAt(hitList, P) /\ t = Take(others, q.top_k)
  OBVIOUS
<1>7. Goes([at |-> "done", cands |-> t]) /\ Quietly
  BY <1>2, <1>3, <1>4, <1>5, <1>6 DEF Recommend
<1>8. q.top_k \in Nat /\ exclude \subseteq Ids
  BY <1>1, <1>2 DEF IsQuery
<1>9. Cardinality(exclude) \in Nat
  BY <1>8, IdsAssumption, FS_Subset, FS_CardinalityType
<1>10. Listing(near) /\ IdSet(near) = Ids \cap Live(docs)
  BY <1>1, <1>3, DenseLists
<1>11. Listing(hitList) /\ Fresh(hitList)
  BY <1>1, <1>4, <1>8, <1>9, <1>10, FetchedFirst
<1>12. Backed(hitList, query.seen)
  BY <1>1, <1>11, FreshBacked
<1>13. query.q.kind \in {"recommend", "discover"}
  BY <1>1 DEF StageInv
<1>14. \A d \in IdSet(hitList) : Belonging(query, d)
  BY <1>1, <1>11, <1>13, ListSize, AllBelong
<1>15. hitList \in Seq(Cands) /\ P \subseteq 1..Len(hitList)
  BY <1>5, <1>11 DEF Listing
<1>16. From(others, hitList)
  BY <1>6, <1>15, KeptFrom
<1>17. Listing(others) /\ Backed(others, query.seen) /\ \A d \in IdSet(others) : Belonging(query, d)
  BY <1>1, <1>11, <1>12, <1>14, <1>16, StillBelongs
<1>18. From(t, others)
  BY <1>6, <1>8, <1>17, TakeFrom DEF Listing
<1>19. Listing(t) /\ Backed(t, query.seen) /\ \A d \in IdSet(t) : Belonging(query, d)
  BY <1>1, <1>17, <1>18, StillBelongs
<1>20. QED
  BY <1>1, <1>7, <1>19, PageStep

LEMMA DiscoverHolds == ASSUME QueryInv, Discover PROVE QueryInv'
<1>1. /\ query # NoQuery /\ QueryTyped /\ StageInv(query) /\ IsQuery(query.q) /\ SeenNow /\ DocsTyped
      /\ query.at = "discover"
  BY UnderWay DEF Discover
<1>2. PICK near, k : near = dense_search(query.q, Ids) /\ k = query.q.top_k * STRATEGY_OVERFETCH
  OBVIOUS
<1>3. PICK t : t = Fetched(Take(near, k))
  OBVIOUS
<1>4. Goes([at |-> "agree", cands |-> t]) /\ Quietly
  BY <1>2, <1>3 DEF Discover
<1>5. query.q.top_k \in Nat /\ STRATEGY_OVERFETCH \in Nat
  BY <1>1, ScoresAssumption DEF IsQuery
<1>6. k \in Nat
  BY <1>2, <1>5
<1>7. Listing(near)
  BY <1>1, <1>2, DenseLists
<1>8. Listing(t) /\ Fresh(t)
  BY <1>1, <1>3, <1>6, <1>7, FetchedFirst
<1>9. Backed(t, query.seen)
  BY <1>1, <1>8, FreshBacked
<1>10. /\ QueryTyped' /\ DocsTyped' /\ query'.at = "agree" /\ query'.q = query.q
  BY <1>1, <1>4, <1>8, <1>9, ListStep
<1>11. StageInv(query')
  BY <1>1, <1>10 DEF StageInv, QueryStages
<1>12. QED
  BY <1>10, <1>11 DEF QueryInv

LEMMA ContextualiseHolds == ASSUME QueryInv, Contextualise PROVE QueryInv'
<1>1. /\ query # NoQuery /\ QueryTyped /\ StageInv(query) /\ IsQuery(query.q) /\ DocsTyped
      /\ query.at = "agree"
  BY UnderWay DEF Contextualise
<1>2. PICK c, sorted, t : c = query.cands /\ sorted = ByAgreement(c) /\ t = Take(sorted, query.q.top_k)
  OBVIOUS
<1>3. Goes([at |-> "done", cands |-> t]) /\ Quietly
  BY <1>2 DEF Contextualise
<1>4. query.q.top_k \in Nat /\ Listing(c) /\ Backed(c, query.seen)
  BY <1>1, <1>2, Depths DEF QueryTyped
<1>5. Listing(sorted) /\ IdSet(sorted) \subseteq IdSet(c) /\ TakenFrom(sorted, c, 1..Len(c))
  BY <1>1, <1>2, <1>4, AgreementLists
<1>6. Backed(sorted, query.seen)
  <2>1. PICK seen : seen = query.seen
    OBVIOUS
  <2>2. \A i \in 1..Len(sorted) : \E j \in 1..Len(c) : sorted[i].id = c[j].id /\ sorted[i].meta = c[j].meta
    BY <1>5 DEF TakenFrom
  <2>3. QED
    BY <1>4, <2>1, <2>2, FromBacked
<1>7. query.q.kind \in {"recommend", "discover"}
  BY <1>1 DEF StageInv
<1>8. \A d \in IdSet(sorted) : Belonging(query, d)
  BY <1>1, <1>5, <1>7, ListSize, AllBelong
<1>9. From(t, sorted)
  BY <1>2, <1>4, <1>5, TakeFrom DEF Listing
<1>10. Listing(t) /\ Backed(t, query.seen) /\ \A d \in IdSet(t) : Belonging(query, d)
  BY <1>1, <1>5, <1>6, <1>8, <1>9, StillBelongs
<1>11. QED
  BY <1>1, <1>3, <1>10, PageStep

\* A write only adds to what has been seen.
LEMMA WriteHolds ==
  ASSUME QueryInv, NEW d \in Ids, NEW v \in Values \cup {Bare, NoDoc}, Write(d, v)
  PROVE  QueryInv'
<1>1. DocsTyped /\ docs' = [docs EXCEPT ![d] = v]
  BY DEF QueryInv, Write
<1>2. v \in Fields
  BY DEF Fields
<1>3. DocsTyped'
  BY <1>1, <1>2 DEF DocsTyped
<1>4. CASE query.at = "idle"
  <2>1. query' = query
    BY <1>4 DEF Write
  <2>2. query = NoQuery
    BY <1>4 DEF QueryInv, StageInv, QueryStages
  <2>3. QED
    BY <1>3, <2>1, <2>2 DEF QueryInv, NoQuery
<1>5. CASE query.at # "idle"
  <2>1. query # NoQuery /\ QueryTyped /\ StageInv(query) /\ SeenNow
    BY <1>5, UnderWay
  <2>2. query' = [query EXCEPT !.quiet = FALSE, !.seen[d] = @ \cup {v}]
    BY <1>5 DEF Write
  <2>3. PICK s : s = query'
    OBVIOUS
  <2>4. DOMAIN query = Parts
    BY <2>1 DEF QueryTyped
  <2>5. /\ DOMAIN s = Parts /\ s = [p \in Parts |-> s[p]]
        /\ s.at = query.at /\ s.q = query.q /\ s.scope = query.scope /\ s.allowed = query.allowed
        /\ s.prefiltered = query.prefiltered /\ s.cands = query.cands /\ s.quiet = FALSE
        /\ s.seen = [query.seen EXCEPT ![d] = query.seen[d] \cup {v}]
    BY <2>2, <2>3, <2>4 DEF Parts
  <2>6. query.seen \in [Ids -> SUBSET Fields]
    BY <2>1 DEF SeenNow
  <2>7. \A e \in Ids : query.seen[e] \subseteq s.seen[e]
    BY <2>5, <2>6
  <2>8. s.seen \in [Ids -> SUBSET Fields] /\ \A e \in Ids : docs'[e] \in s.seen[e]
    BY <1>1, <1>2, <2>1, <2>5, <2>6 DEF SeenNow, DocsTyped
  <2>9. Listing(query.cands) /\ Backed(query.cands, query.seen)
    BY <2>1 DEF QueryTyped
  <2>10. Backed(s.cands, s.seen)
    <3>1. ASSUME NEW i \in 1..Len(query.cands)
          PROVE  query.cands[i].meta = Lean \/ query.cands[i].meta \in s.seen[query.cands[i].id]
      <4>1. query.cands[i].id \in Ids
        BY <2>9, CandParts
      <4>2. query.cands[i].meta = Lean \/ query.cands[i].meta \in query.seen[query.cands[i].id]
        BY <2>9 DEF Backed
      <4>3. QED
        BY <2>7, <4>1, <4>2
    <3>2. QED
      BY <2>5, <3>1 DEF Backed
  <2>11. QueryTyped'
    BY <2>1, <2>3, <2>5, <2>8, <2>9, <2>10 DEF QueryTyped, SeenNow
  <2>12. \A e \in Ids : Matched(query.q, query.seen, e) => Matched(s.q, s.seen, e)
    BY <2>5, <2>7 DEF Matched
  <2>13. ASSUME Narrowed(query), query.at \in {"ids", "search", "sparse", "multi", "filter"} PROVE Narrowed(s)
    <3>1. ASSUME query.prefiltered, NEW e \in query.allowed PROVE e \in Ids
      BY <2>13, <3>1 DEF Narrowed
    <3>2. QED
      BY <2>5, <2>12, <2>13, <3>1 DEF Narrowed
  <2>14. \A e \in IdSet(query.cands) : Belonging(query, e) => Belonging(s, e)
    BY <2>5, <2>9, <2>12, ListSize DEF Belonging
  <2>15. StageInv(s)
    BY <2>1, <2>5, <2>13, <2>14 DEF StageInv, WithinScope
  <2>16. QED
    BY <1>3, <2>3, <2>11, <2>15 DEF QueryInv
<1>6. QED
  BY <1>4, <1>5

LEMMA QueryKept == QueryInv /\ [QueryNext]_queryVars => QueryInv'
<1>1. SUFFICES ASSUME QueryInv, [QueryNext]_queryVars PROVE QueryInv'
  OBVIOUS
<1>2. CASE \E q \in Queries : Submit(q)
  BY <1>1, <1>2, SubmitHolds
<1>3. CASE Deliver
  BY <1>1, <1>3 DEF Deliver, Quietly, QueryInv, DocsTyped
<1>4. CASE UNCHANGED queryVars
  BY <1>1, <1>4 DEF queryVars, QueryInv, DocsTyped, QueryTyped, SeenNow
<1>5. CASE QueryStep
  BY <1>1, <1>2, <1>3, <1>5, PrefetchHolds, ResolveScopeHolds, ResolveFilterHolds, SearchHolds, FuseSparseHolds,
     RescoreHolds, PostFilterHolds, PageHolds, GroupHolds, ExamplesHolds, RecommendHolds, DiscoverHolds,
     ContextualiseHolds DEF QueryStep
<1>6. CASE \E d \in Ids, v \in Values \cup {Bare, NoDoc} : Write(d, v)
  BY <1>1, <1>6, WriteHolds
<1>7. QED
  BY <1>1, <1>4, <1>5, <1>6 DEF QueryNext

\* query.rs, strategies.rs: whatever is written between the awaits of a query, with every
\* combination of filter, scope, collection, prefetch, sparse, MaxSim and grouping, a page
\* names a document once, and each was inside the scope and the collection and matched the
\* filter, or was removed, while the query ran.
THEOREM EveryPageTrue == QuerySpec => []PageWasTrue
<1>1. QueryInit => QueryInv
  BY DEF QueryInit, QueryInv, DocsTyped, Fields
<1>2. QueryInv => PageWasTrue
  <2>1. SUFFICES ASSUME QueryInv, query.at = "done" PROVE PageWasTrue
    BY DEF PageWasTrue
  <2>2. QueryTyped /\ StageInv(query) /\ IsQuery(query.q)
    BY <2>1, UnderWay
  <2>3. PICK c : c = query.cands
    OBVIOUS
  <2>4. Listing(c) /\ \A d \in IdSet(c) : Belonging(query, d)
    BY <2>1, <2>2, <2>3 DEF QueryTyped, StageInv
  <2>5. DOMAIN c = 1..Len(c)
    BY <2>4 DEF Listing
  <2>6. IsInjective(IdList(c))
    BY <2>4, <2>5 DEF IsInjective, IdList, Listing
  <2>7. ASSUME NEW x \in ToSet(c) PROVE x.id \in IdSet(c)
    BY <2>5 DEF ToSet, IdSet
  <2>8. QED
    BY <2>3, <2>4, <2>6, <2>7 DEF PageWasTrue, Belonging, Bounded, Matched
<1>3. QED
  BY <1>1, <1>2, QueryKept, PTL DEF QuerySpec

----------------------------------------------------------------------------
(* A page is full.                                                         *)

Typed == {"prefetch", "scope", "ids", "search", "sparse", "multi", "filter", "page", "group"}

\* Which strategy a stage is of.
KindAt(r) ==
    /\ r.at \in Typed => r.q.kind \in {"query", "grouped"}
    /\ r.at = "group" => r.q.kind = "grouped"
    /\ r.at \in {"recommend", "near"} => r.q.kind = "recommend"
    /\ r.at \in {"discover", "agree"} => r.q.kind = "discover"

\* A query whose filter is resolved from the index to a set small enough to be ranked whole.
Exactly ==
    /\ query.quiet /\ query.q.kind = "query" /\ Resolvable(effective_filter(query.q), indexed)
    /\ query.scope = <<>> /\ Cardinality(query.allowed) <= EXACT_SCOPE_MAX
    /\ query.q.fusion[1] # 0 /\ query.q.threshold = {}

\* As many of the set as the page and its offset need, or all of it.
Enough(r) ==
    Len(r.cands) >= IF Want(r.q) <= Cardinality(r.allowed) THEN Want(r.q) ELSE Cardinality(r.allowed)

Others == Live(docs) \ (query.q.positive \cup query.q.negative)

FullInv ==
    /\ KindAt(query)
    /\ query.at \in {"ids", "search", "sparse", "multi", "filter", "page"} /\ query.scope = <<>> =>
          query.q.scope = <<>> /\ ~query.q.collection
    /\ Exactly /\ query.at \in {"search", "sparse", "multi", "filter", "page"} =>
          query.prefiltered /\ query.allowed = Wanted(query.q)
    /\ Exactly /\ query.at \in {"sparse", "multi", "filter", "page"} =>
          Enough(query) /\ IdSet(query.cands) \subseteq query.allowed
    /\ Exactly /\ query.at = "done" => Full(query.q, query.cands)
    /\ query.quiet /\ query.at = "done" /\ query.q.kind = "recommend" =>
          Len(query.cands) = Min({query.q.top_k, Cardinality(Others)})

QueryFull == QueryInv /\ (query = NoQuery \/ FullInv)

\* The parts that a step does not name.
LEMMA ListMoves ==
  ASSUME QueryTyped, NEW at, NEW t, Goes([at |-> at, cands |-> t]), Quietly
  PROVE  /\ query'.at = at /\ query'.cands = t /\ query'.q = query.q /\ query'.scope = query.scope
         /\ query'.allowed = query.allowed /\ query'.prefiltered = query.prefiltered
         /\ query'.quiet = query.quiet /\ docs' = docs /\ indexed' = indexed
<1>1. PICK next : next = [at |-> at, cands |-> t]
  OBVIOUS
<1>2. DOMAIN next = {"at", "cands"} /\ next.at = at /\ next.cands = t
  BY <1>1
<1>3. \A p \in Parts : query'[p] = IF p \in DOMAIN next THEN next[p] ELSE query[p]
  BY <1>1, GoesParts DEF QueryTyped
<1>4. QED
  BY <1>2, <1>3 DEF Parts, Quietly

\* A step of the query leaves alone what it asks for.
LEMMA WantedStays ==
  ASSUME docs' = docs, query'.q = query.q
  PROVE  /\ Wanted(query.q)' = Wanted(query.q) /\ Others' = Others
         /\ (Len(query'.cands) = Min({query.q.top_k, Max({0, Cardinality(Wanted(query.q)) - query.q.offset})}))
               => Full(query.q, query.cands)'
  BY DEF Wanted, Others, Full, Matching, Live

LEMMA ExactlyStays ==
  ASSUME query'.q = query.q, query'.scope = query.scope, query'.allowed = query.allowed,
         query'.quiet = query.quiet, indexed' = indexed, Exactly'
  PROVE  Exactly
  BY DEF Exactly

\* What is asked for is alive.
LEMMA WantedLive ==
  ASSUME DocsTyped, NEW q
  PROVE  /\ Wanted(q) \subseteq Live(docs) /\ IsFiniteSet(Wanted(q)) /\ Cardinality(Wanted(q)) \in Nat
<1>1. DocsFormed
  BY DocsAreFormed
<1>2. ASSUME NEW d \in Wanted(q) PROVE d \in Live(docs)
  <2>1. d \in Ids /\ Canon(docs[d]) # NoDoc
    BY DEF Wanted, Matching, Live
  <2>2. docs[d] # NoDoc
    <3>1. Canon(NoDoc) = NoDoc
      BY DEF Canon, NoDoc, Value
    <3>2. QED
      BY <2>1, <3>1
  <2>3. QED
    BY <2>1, <2>2 DEF Live, DocsTyped
<1>3. Wanted(q) \subseteq Live(docs) /\ IsFiniteSet(Live(docs))
  BY <1>2, LiveIds
<1>4. QED
  BY <1>3, FS_Subset, FS_CardinalityType

\* A filtered search looks no less deep than the page.
LEMMA FetchesEnough == ASSUME NEW q, IsQuery(q) PROVE Fetch(q) >= Want(q)
<1>1. Want(q) \in Nat
  BY Depths
<1>2. PICK n : n = FILTER_OVERFETCH /\ n \in Nat \ {0}
  BY ScoresAssumption
<1>3. PICK m \in Nat : n = m + 1
  <2>1. n - 1 \in Nat /\ n = (n - 1) + 1
    BY <1>2
  <2>2. QED
    BY <2>1
<1>4. Want(q) * n = Want(q) * m + Want(q)
  BY <1>1, <1>3
<1>5. Want(q) * m \in Nat
  BY <1>1
<1>6. Want(q) * n >= Want(q)
  BY <1>1, <1>4, <1>5
<1>7. QED
  BY <1>1, <1>2, <1>6 DEF Fetch

LEMMA NotBelowZero == ASSUME NEW a \in Int PROVE Max({0, a}) = IF 0 <= a THEN a ELSE 0
  BY LeastOfTwo

\* Leaving out the examples of the nearest leaves as many as there are others, or enough.
LEMMA OthersCount ==
  ASSUME NEW L, IsFiniteSet(L), NEW E, IsFiniteSet(E), NEW H, H \subseteq L, NEW k \in Nat,
         Cardinality(H) = IF k + Cardinality(E) <= Cardinality(L) THEN k + Cardinality(E) ELSE Cardinality(L),
         NEW l, l = Cardinality(H \ E), NEW t, t = IF k <= l THEN k ELSE l
  PROVE  t = Min({k, Cardinality(L \ E)})
<1>1. IsFiniteSet(H) /\ Cardinality(H) \in Nat /\ Cardinality(L) \in Nat /\ Cardinality(E) \in Nat
  BY FS_Subset, FS_CardinalityType
<1>2. IsFiniteSet(H \ E) /\ IsFiniteSet(L \ E)
  BY <1>1, FS_Difference
<1>3. l \in Nat /\ Cardinality(L \ E) \in Nat /\ l <= Cardinality(L \ E)
  <2>1. H \ E \subseteq L \ E
    OBVIOUS
  <2>2. Cardinality(H \ E) <= Cardinality(L \ E)
    BY <1>2, <2>1, FS_Subset
  <2>3. QED
    BY <1>2, <2>2, FS_CardinalityType
<1>4. Min({k, Cardinality(L \ E)}) = IF k <= Cardinality(L \ E) THEN k ELSE Cardinality(L \ E)
  <2>1. PICK c \in Int : c = Cardinality(L \ E)
    BY <1>3
  <2>2. Min({k, c}) = IF k <= c THEN k ELSE c
    BY LeastOfTwo
  <2>3. QED
    BY <2>1, <2>2
<1>5. CASE k + Cardinality(E) <= Cardinality(L)
  <2>1. Cardinality(H \ E) = Cardinality(H) - Cardinality(H \cap E)
    BY <1>1, FS_Difference
  <2>2. Cardinality(H \cap E) \in Nat /\ Cardinality(H \cap E) <= Cardinality(E)
    <3>1. H \cap E \subseteq E
      OBVIOUS
    <3>2. QED
      BY <3>1, FS_Subset, FS_CardinalityType
  <2>3. l >= k
    BY <1>1, <1>5, <2>1, <2>2
  <2>4. QED
    BY <1>3, <1>4, <2>3
<1>6. CASE ~(k + Cardinality(E) <= Cardinality(L))
  <2>1. Cardinality(H) = Cardinality(L)
    BY <1>6
  <2>2. H = L
    BY <2>1, FS_Subset
  <2>3. QED
    BY <1>3, <1>4, <2>2
<1>7. QED
  BY <1>5, <1>6

\* A step after which nothing is said of the length of the list.
LEMMA NotYet ==
  ASSUME KindAt(query'), query'.at \notin {"ids", "search", "sparse", "multi", "filter", "page", "done"}
  PROVE  FullInv'
  BY DEF FullInv

LEMMA SubmitFills == ASSUME QueryInv, QueryInv', NEW r \in Queries, Submit(r) PROVE FullInv'
<1>1. PICK q : q = IF r.kind # "grouped" THEN r
                   ELSE [r EXCEPT !.top_k = r.groups * r.group_size * STRATEGY_OVERFETCH]
  OBVIOUS
<1>2. /\ query' =
                [at |-> IF q.kind \in {"query", "grouped"}
                             /\ (q.top_k > MaxTopK \/ Len(q.prefetch) > MAX_PREFETCH_DEPTH)
                        THEN "refused"
                        ELSE IF q.top_k = 0 THEN "done"
                        ELSE IF q.kind \in {"query", "grouped"} THEN "prefetch" ELSE q.kind,
                 q |-> q, scope |-> q.scope, allowed |-> Unlimited, prefiltered |-> FALSE,
                 cands |-> <<>>, quiet |-> TRUE, seen |-> [d \in Ids |-> {docs[d]}]]
      /\ docs' = docs
  BY <1>1 DEF Submit
<1>3. /\ query'.q = q /\ query'.cands = <<>>
      /\ \/ query'.at = "refused"
         \/ query'.at = "done" /\ q.top_k = 0
         \/ query'.at = "prefetch" /\ q.kind \in {"query", "grouped"}
         \/ query'.at = q.kind /\ q.kind \notin {"query", "grouped"}
  BY <1>2
<1>4. IsQuery(q)
  <2>1. query' # NoQuery
    BY <1>2 DEF NoQuery
  <2>2. QED
    BY <1>3, <2>1 DEF QueryInv, QueryTyped
<1>5. q.kind \in {"query", "grouped", "recommend", "discover"} /\ q.top_k \in Nat /\ q.offset \in Nat
  BY <1>4 DEF IsQuery
<1>6. KindAt(query')
  BY <1>3, <1>5 DEF KindAt, Typed
<1>7. CASE query'.at # "done"
  BY <1>3, <1>5, <1>6, <1>7, NotYet
<1>8. CASE query'.at = "done"
  <2>1. q.top_k = 0 /\ Len(query'.cands) = 0
    BY <1>3, <1>5, <1>8
  <2>2. DocsTyped'
    BY DEF QueryInv
  <2>3. Cardinality(Wanted(q)') \in Nat /\ Cardinality(Others') \in Nat
    <3>1. DocsTyped
      BY DEF QueryInv
    <3>2. Wanted(q)' = Wanted(q)
      BY <1>2 DEF Wanted, Matching, Live
    <3>3. Others' = Live(docs) \ (q.positive \cup q.negative)
      BY <1>2, <1>3 DEF Others, Live
    <3>4. IsFiniteSet(Live(docs))
      BY <3>1, LiveIds
    <3>5. QED
      BY <3>1, <3>2, <3>3, <3>4, WantedLive, FS_Difference, FS_CardinalityType
  <2>4. PICK w \in Nat, o \in Nat : w = Cardinality(Wanted(q)') /\ o = Cardinality(Others')
    BY <2>3
  <2>5. PICK m : m = Max({0, w - q.offset})
    OBVIOUS
  <2>6. m \in Nat
    <3>1. PICK z \in Int : z = w - q.offset
      BY <1>5
    <3>2. Max({0, z}) = IF 0 <= z THEN z ELSE 0
      BY LeastOfTwo
    <3>3. QED
      BY <2>5, <3>1, <3>2
  <2>7. Min({0, m}) = 0 /\ Min({0, o}) = 0
    BY <2>6, LeastOfTwo
  <2>8. Full(query.q, query.cands)'
    BY <1>3, <2>1, <2>4, <2>5, <2>7 DEF Full
  <2>9. Len(query'.cands) = Min({query'.q.top_k, Cardinality(Others')})
    BY <1>3, <2>1, <2>4, <2>7
  <2>10. QED
    BY <1>6, <1>8, <2>8, <2>9 DEF FullInv
<1>9. QED
  BY <1>7, <1>8

LEMMA PrefetchFills == ASSUME QueryInv, QueryTyped, FullInv, Prefetch PROVE FullInv'
<1>1. PICK next : next = [at |-> "scope",
                          scope |-> IF query.q.prefetch = <<>> THEN query.q.scope
                                    ELSE IF query.q.scope = <<>> THEN <<Gathered(query.q)>>
                                    ELSE <<Gathered(query.q) \cap query.q.scope[1]>>]
  OBVIOUS
<1>2. Goes(next)
  BY <1>1 DEF Prefetch
<1>3. DOMAIN next = {"at", "scope"} /\ next.at = "scope"
  BY <1>1
<1>4. \A p \in Parts : query'[p] = IF p \in DOMAIN next THEN next[p] ELSE query[p]
  BY <1>2, GoesParts DEF QueryTyped
<1>5. query'.at = "scope" /\ query'.q = query.q
  BY <1>3, <1>4 DEF Parts
<1>6. KindAt(query')
  BY <1>5 DEF FullInv, KindAt, Typed, Prefetch
<1>7. QED
  BY <1>5, <1>6, NotYet

LEMMA ResolveScopeFills == ASSUME QueryInv, QueryTyped, StageInv(query), FullInv, ResolveScope PROVE FullInv'
<1>1. PICK scope : scope = IF ~query.q.collection THEN query.scope
                           ELSE IF query.scope = <<>> THEN <<CollectionMembers>>
                           ELSE <<query.scope[1] \cap CollectionMembers>>
  OBVIOUS
<1>2. PICK next : next = [at |-> "ids", scope |-> scope,
                          allowed |-> IF scope = <<>> THEN Unlimited ELSE scope[1]]
  OBVIOUS
<1>3. Goes(next)
  BY <1>1, <1>2 DEF ResolveScope
<1>4. DOMAIN next = {"at", "scope", "allowed"} /\ next.at = "ids" /\ next.scope = scope
  BY <1>2
<1>5. \A p \in Parts : query'[p] = IF p \in DOMAIN next THEN next[p] ELSE query[p]
  BY <1>3, GoesParts DEF QueryTyped
<1>6. query'.at = "ids" /\ query'.q = query.q /\ query'.scope = scope
  BY <1>4, <1>5 DEF Parts
<1>7. KindAt(query')
  BY <1>6 DEF FullInv, KindAt, Typed, ResolveScope
<1>8. WithinScope(query)
  BY DEF ResolveScope, StageInv
<1>9. scope = <<>> => query.q.scope = <<>> /\ ~query.q.collection
  BY <1>1, <1>8 DEF WithinScope
<1>10. QED
  BY <1>6, <1>7, <1>9 DEF FullInv

LEMMA ResolveFilterFills == ASSUME QueryInv, QueryTyped, FullInv, ResolveFilter PROVE FullInv'
<1>1. PICK f : f = effective_filter(query.q)
  OBVIOUS
<1>2. PICK resolved \in BOOLEAN : resolved <=> (query.scope = <<>> /\ Resolvable(f, indexed))
  OBVIOUS
<1>3. PICK next : next = [at |-> "search", prefiltered |-> resolved,
                          allowed |-> IF resolved THEN ids_where(f, docs) ELSE query.allowed]
  OBVIOUS
<1>4. Goes(next) /\ docs' = docs /\ indexed' = indexed
  BY <1>1, <1>2, <1>3 DEF ResolveFilter, Quietly
<1>5. /\ DOMAIN next = {"at", "prefiltered", "allowed"} /\ next.at = "search" /\ next.prefiltered = resolved
      /\ resolved => next.allowed = ids_where(f, docs)
  BY <1>3
<1>6. \A p \in Parts : query'[p] = IF p \in DOMAIN next THEN next[p] ELSE query[p]
  BY <1>4, GoesParts DEF QueryTyped
<1>7. /\ query'.at = "search" /\ query'.q = query.q /\ query'.scope = query.scope /\ query'.prefiltered = resolved
      /\ resolved => query'.allowed = ids_where(f, docs)
  BY <1>5, <1>6 DEF Parts
<1>8. KindAt(query')
  BY <1>7 DEF FullInv, KindAt, Typed, ResolveFilter
<1>9. query.scope = <<>> => query.q.scope = <<>> /\ ~query.q.collection
  BY DEF FullInv, ResolveFilter
<1>10. ASSUME Exactly' PROVE query'.prefiltered /\ query'.allowed = Wanted(query.q)'
  <2>1. query.scope = <<>> /\ Resolvable(f, indexed)
    BY <1>1, <1>4, <1>7, <1>10 DEF Exactly, Resolvable
  <2>2. IsFilter(f) /\ (f.must # {} \/ f.should # {}) /\ DocsFormed
    BY <1>1, <2>1, DocsAreFormed DEF Resolvable, IsQuery, QueryTyped, QueryInv
  <2>3. ids_where(f, docs) = Matching(CanonFilter(f), [d \in Ids |-> Canon(docs[d])])
    BY <2>2, FilterAgrees
  <2>4. Wanted(query.q) = Matching(CanonFilter(f), [d \in Ids |-> Canon(docs[d])])
    BY <1>1, <1>9, <2>1 DEF Wanted
  <2>5. Wanted(query.q)' = Wanted(query.q)
    BY <1>4, <1>7, WantedStays
  <2>6. QED
    BY <1>2, <1>7, <2>1, <2>3, <2>4, <2>5
<1>11. QED
  BY <1>7, <1>8, <1>9, <1>10 DEF FullInv

\* A step from one list of candidates to the next.
LEMMA ListFills ==
  ASSUME QueryTyped, FullInv, query.at \in {"search", "sparse", "multi", "filter"},
         NEW at \in {"sparse", "multi", "filter", "page"}, NEW t, Goes([at |-> at, cands |-> t]), Quietly,
         Exactly => /\ IdSet(t) \subseteq query.allowed
                    /\ Len(t) >= IF Want(query.q) <= Cardinality(query.allowed) THEN Want(query.q)
                                 ELSE Cardinality(query.allowed)
  PROVE  FullInv'
<1>1. /\ query'.at = at /\ query'.cands = t /\ query'.q = query.q /\ query'.scope = query.scope
      /\ query'.allowed = query.allowed /\ query'.prefiltered = query.prefiltered
      /\ query'.quiet = query.quiet /\ docs' = docs /\ indexed' = indexed
  BY ListMoves
<1>2. KindAt(query')
  BY <1>1 DEF FullInv, KindAt, Typed
<1>3. query'.scope = <<>> => query'.q.scope = <<>> /\ ~query'.q.collection
  BY <1>1 DEF FullInv
<1>4. ASSUME Exactly'
      PROVE  /\ query'.prefiltered /\ query'.allowed = Wanted(query.q)'
             /\ Enough(query') /\ IdSet(query'.cands) \subseteq query'.allowed
  <2>1. Exactly
    BY <1>1, <1>4, ExactlyStays
  <2>2. query.prefiltered /\ query.allowed = Wanted(query.q)
    BY <2>1 DEF FullInv
  <2>3. Wanted(query.q)' = Wanted(query.q)
    BY <1>1, WantedStays
  <2>4. QED
    BY <1>1, <2>1, <2>2, <2>3 DEF Enough
<1>5. QED
  BY <1>1, <1>2, <1>3, <1>4 DEF FullInv

LEMMA SearchFills == ASSUME QueryInv, QueryTyped, StageInv(query), FullInv, Search PROVE FullInv'
<1>1. PICK q, ids : q = query.q /\ ids = query.allowed
  OBVIOUS
<1>2. PICK found \in
              IF query.scope # <<>> THEN {scoped_search(q, ids, Fetch(q))}
              ELSE IF effective_filter(q) = NoFilter /\ q.using /\ q.vector THEN {named_hybrid(q, Fetch(q))}
              ELSE IF ~query.prefiltered THEN {unscoped(q, Fetch(q))}
              ELSE IF Cardinality(ids) <= EXACT_SCOPE_MAX THEN {scoped_search(q, ids, Want(q))}
              ELSE filter_aware_search(q, ids, Want(q)) :
                 Goes([at |-> "sparse", cands |-> found])
  BY <1>1 DEF Search
<1>3. Quietly /\ query.at = "search"
  BY DEF Search
<1>4. ASSUME Exactly
      PROVE  /\ IdSet(found) \subseteq query.allowed
             /\ Len(found) >= IF Want(q) <= Cardinality(ids) THEN Want(q) ELSE Cardinality(ids)
  <2>1. query.prefiltered /\ ids = Wanted(q) /\ query.scope = <<>> /\ Cardinality(ids) <= EXACT_SCOPE_MAX
    BY <1>1, <1>3, <1>4 DEF FullInv, Exactly
  <2>2. effective_filter(q) # NoFilter
    BY <1>1, <1>3, <2>1 DEF StageInv, Narrowed
  <2>3. found = scoped_search(q, ids, Want(q))
    BY <1>2, <2>1, <2>2
  <2>4. DocsTyped /\ Want(q) \in Nat
    BY <1>1, Depths DEF QueryInv, QueryTyped
  <2>5. ids \subseteq Live(docs) /\ Cardinality(ids) \in Nat
    BY <2>1, <2>4, WantedLive
  <2>6. ids \cap Live(docs) = ids
    BY <2>5
  <2>7. /\ IdSet(found) \subseteq ids
        /\ Len(found) = IF Want(q) <= Cardinality(ids) THEN Want(q) ELSE Cardinality(ids)
    <3>1. PICK k \in Nat : k = Want(q)
      BY <2>4
    <3>2. /\ IdSet(found) \subseteq ids
          /\ Len(found) = IF k <= Cardinality(ids \cap Live(docs)) THEN k ELSE Cardinality(ids \cap Live(docs))
      BY <2>3, <2>4, <3>1, ScopedLists
    <3>3. QED
      BY <2>6, <3>1, <3>2
  <2>8. QED
    BY <1>1, <2>4, <2>5, <2>7
<1>5. QED
  BY <1>1, <1>2, <1>3, <1>4, ListFills

LEMMA FuseSparseFills == ASSUME QueryInv, QueryTyped, StageInv(query), FullInv, FuseSparse PROVE FullInv'
<1>1. DocsTyped /\ IsQuery(query.q) /\ query.at = "sparse"
  BY DEF QueryInv, QueryTyped, FuseSparse
<1>2. PICK q, hitList : q = query.q /\ hitList = sparse_search(Fetch(q))
  OBVIOUS
<1>3. PICK P : P = {i \in DOMAIN hitList : hitList[i].id \in query.allowed}
  OBVIOUS
<1>4. PICK sparse : sparse = KeptAt(hitList, P)
  OBVIOUS
<1>5. PICK c, t : /\ c = query.cands
                  /\ t = IF ~q.sparse \/ sparse = <<>> THEN c ELSE Fetched(Take(fuse(q, <<c, sparse>>), Fetch(q)))
  OBVIOUS
<1>6. Goes([at |-> "multi", cands |-> t]) /\ Quietly
  BY <1>2, <1>3, <1>4, <1>5 DEF FuseSparse
<1>7. Fetch(q) \in Nat /\ Want(q) \in Nat /\ q.fusion \in Int \X Int /\ Fetch(q) >= Want(q)
  BY <1>1, <1>2, Depths, FetchesEnough
<1>8. Listing(hitList)
  BY <1>1, <1>2, <1>7, SparseLists
<1>9. P \subseteq 1..Len(hitList)
  BY <1>3, <1>8 DEF Listing
<1>10. Listing(sparse) /\ IdSet(sparse) = {hitList[p].id : p \in P}
  BY <1>4, <1>8, <1>9, KeptLists
<1>11. IdSet(sparse) \subseteq query.allowed
  BY <1>3, <1>10
<1>12. Listing(c) /\ IdSet(c) \subseteq query.allowed
  BY <1>1, <1>5 DEF QueryTyped, StageInv
<1>13. PICK n : n = Cardinality(query.allowed)
  OBVIOUS
<1>14. ASSUME Exactly
       PROVE  /\ IdSet(t) \subseteq query.allowed
              /\ Len(t) >= IF Want(q) <= n THEN Want(q) ELSE n
  <2>1. /\ query.allowed = Wanted(q) /\ q.fusion[1] # 0
        /\ Len(c) >= IF Want(q) <= n THEN Want(q) ELSE n
    BY <1>1, <1>2, <1>5, <1>13, <1>14 DEF FullInv, Exactly, Enough
  <2>2. query.allowed \subseteq Live(docs) /\ n \in Nat
    BY <1>1, <1>13, <2>1, WantedLive
  <2>3. CASE ~q.sparse \/ sparse = <<>>
    BY <1>5, <1>12, <2>1, <2>3
  <2>4. CASE ~(~q.sparse \/ sparse = <<>>)
    <3>1. PICK r : r = fuse(q, <<c, sparse>>)
      OBVIOUS
    <3>2. Listing(r) /\ IdSet(r) \subseteq IdSet(c) \cup IdSet(sparse) /\ IdSet(c) \subseteq IdSet(r)
      BY <1>7, <1>10, <1>12, <2>1, <3>1, FusedLists
    <3>3. t = Fetched(Take(r, Fetch(q)))
      BY <1>5, <2>4, <3>1
    <3>4. IdSet(r) \subseteq query.allowed
      BY <1>11, <1>12, <3>2
    <3>5. IdSet(r) \subseteq Live(docs)
      BY <2>2, <3>4
    <3>6. /\ IdSet(t) \subseteq IdSet(r)
          /\ Len(t) = IF Fetch(q) <= Len(r) THEN Fetch(q) ELSE Len(r)
      BY <1>1, <1>7, <3>2, <3>3, <3>5, FetchedFirst
    <3>7. Len(c) \in Nat /\ Len(r) \in Nat /\ Len(c) <= Len(r)
      <4>1. /\ IsFiniteSet(IdSet(r)) /\ Cardinality(IdSet(r)) = Len(r)
            /\ IsFiniteSet(IdSet(c)) /\ Cardinality(IdSet(c)) = Len(c)
        BY <1>12, <3>2, ListSize
      <4>2. Cardinality(IdSet(c)) <= Cardinality(IdSet(r))
        BY <3>2, <4>1, FS_Subset
      <4>3. QED
        BY <4>1, <4>2, FS_CardinalityType
    <3>8. QED
      BY <1>7, <2>1, <2>2, <3>4, <3>6, <3>7
  <2>5. QED
    BY <2>3, <2>4
<1>15. QED
  BY <1>1, <1>2, <1>6, <1>13, <1>14, ListFills

LEMMA RescoreFills == ASSUME QueryInv, QueryTyped, FullInv, Rescore PROVE FullInv'
<1>1. DocsTyped /\ query.at = "multi"
  BY DEF QueryInv, Rescore
<1>2. PICK c, t : /\ c = query.cands
                  /\ t = IF query.q.multi THEN Refilled(maxsim_rescore(c), {Lean}) ELSE c
  OBVIOUS
<1>3. Goes([at |-> "filter", cands |-> t]) /\ Quietly
  BY <1>2 DEF Rescore
<1>4. Listing(c)
  BY <1>2 DEF QueryTyped
<1>5. IdSet(t) = IdSet(c) /\ Len(t) = Len(c)
  <2>1. CASE ~query.q.multi
    BY <1>2, <2>1
  <2>2. CASE query.q.multi
    <3>1. PICK r : r = maxsim_rescore(c)
      OBVIOUS
    <3>2. Listing(r) /\ IdSet(r) = IdSet(c)
      BY <1>4, <3>1, MaxsimLists
    <3>3. t = Refilled(r, {Lean})
      BY <1>2, <2>2, <3>1
    <3>4. IdSet(t) = IdSet(r) /\ Len(t) = Len(r)
      BY <1>1, <3>2, <3>3, RefilledLists
    <3>5. Len(r) = Len(c)
      BY <1>4, <3>2, ListSize
    <3>6. QED
      BY <3>2, <3>4, <3>5
  <2>3. QED
    BY <2>1, <2>2
<1>6. ASSUME Exactly
      PROVE  /\ IdSet(t) \subseteq query.allowed
             /\ Len(t) >= IF Want(query.q) <= Cardinality(query.allowed) THEN Want(query.q)
                          ELSE Cardinality(query.allowed)
  BY <1>1, <1>2, <1>5, <1>6 DEF FullInv, Enough
<1>7. QED
  BY <1>1, <1>3, <1>6, ListFills

LEMMA PostFilterFills == ASSUME QueryInv, QueryTyped, FullInv, PostFilter PROVE FullInv'
<1>1. query.at = "filter"
  BY DEF PostFilter
<1>2. PICK f, full : f = effective_filter(query.q) /\ full = Refilled(query.cands, {Lean, Bare})
  OBVIOUS
<1>3. PICK P : P = {i \in DOMAIN full : filter_matches(f, IF full[i].meta = Lean THEN Bare ELSE full[i].meta)}
  OBVIOUS
<1>4. PICK t : t = IF f = NoFilter \/ query.prefiltered THEN query.cands ELSE KeptAt(full, P)
  OBVIOUS
<1>5. Goes([at |-> "page", cands |-> t]) /\ Quietly
  BY <1>2, <1>3, <1>4 DEF PostFilter
<1>6. ASSUME Exactly
      PROVE  /\ IdSet(t) \subseteq query.allowed
             /\ Len(t) >= IF Want(query.q) <= Cardinality(query.allowed) THEN Want(query.q)
                          ELSE Cardinality(query.allowed)
  <2>1. t = query.cands
    BY <1>1, <1>4, <1>6 DEF FullInv
  <2>2. QED
    BY <1>1, <1>6, <2>1 DEF FullInv, Enough
<1>7. QED
  BY <1>1, <1>5, <1>6, ListFills

LEMMA PageFills == ASSUME QueryInv, QueryTyped, FullInv, Page PROVE FullInv'
<1>1. DocsTyped /\ IsQuery(query.q) /\ query.at = "page"
  BY DEF QueryInv, QueryTyped, Page
<1>2. PICK q, c : q = query.q /\ c = query.cands
  OBVIOUS
<1>3. PICK P : P = {i \in DOMAIN c : \A x \in q.threshold : c[i].score >= x}
  OBVIOUS
<1>4. PICK above, rest, t : above = KeptAt(c, P) /\ rest = Drop(above, q.offset) /\ t = Take(rest, q.top_k)
  OBVIOUS
<1>5. PICK at : at = IF q.kind = "grouped" THEN "group" ELSE "done"
  OBVIOUS
<1>6. Goes([at |-> at, cands |-> t]) /\ Quietly
  BY <1>2, <1>3, <1>4, <1>5 DEF Page
<1>7. /\ query'.at = at /\ query'.cands = t /\ query'.q = query.q /\ query'.scope = query.scope
      /\ query'.allowed = query.allowed /\ query'.quiet = query.quiet /\ docs' = docs /\ indexed' = indexed
  BY <1>6, ListMoves
<1>8. q.kind \in {"query", "grouped"}
  BY <1>1, <1>2 DEF FullInv, KindAt, Typed
<1>9. KindAt(query')
  BY <1>2, <1>5, <1>7, <1>8 DEF KindAt, Typed
<1>10. CASE at = "group"
  BY <1>7, <1>9, <1>10, NotYet
<1>11. CASE at = "done"
  <2>1. ASSUME Exactly' PROVE Full(query.q, query.cands)'
    <3>1. Exactly
      BY <1>7, <2>1, ExactlyStays
    <3>2. PICK n : n = Cardinality(query.allowed)
      OBVIOUS
    <3>3. /\ query.allowed = Wanted(q) /\ q.threshold = {} /\ IdSet(c) \subseteq query.allowed
          /\ Len(c) >= IF Want(q) <= n THEN Want(q) ELSE n
      BY <1>1, <1>2, <3>1, <3>2 DEF FullInv, Exactly, Enough
    <3>4. q.top_k \in Nat /\ q.offset \in Nat /\ Want(q) = q.top_k + q.offset
      BY <1>1, <1>2, Depths DEF Want
    <3>5. Listing(c)
      BY <1>2 DEF QueryTyped
    <3>6. IsFiniteSet(query.allowed) /\ n \in Nat
      BY <1>1, <3>2, <3>3, WantedLive
    <3>7. Len(c) \in Nat /\ Len(c) <= n
      <4>1. IsFiniteSet(IdSet(c)) /\ Cardinality(IdSet(c)) = Len(c)
        BY <3>5, ListSize
      <4>2. Cardinality(IdSet(c)) <= n
        BY <3>2, <3>3, <3>6, FS_Subset
      <4>3. QED
        BY <4>1, <4>2, FS_CardinalityType
    <3>8. c \in Seq(Cands) /\ P = 1..Len(c)
      BY <1>3, <3>3, <3>5 DEF Listing
    <3>9. above \in Seq(Cands) /\ Len(above) = Len(c)
      <4>1. From(above, c) /\ Len(above) = Cardinality(1..Len(c))
        BY <1>4, <3>8, KeptFrom
      <4>2. Cardinality(1..Len(c)) = Len(c)
        <5>1. PICK l \in Nat : l = Len(c)
          BY <3>7
        <5>2. Cardinality(1..l) = l
          BY FS_Interval
        <5>3. QED
          BY <5>1, <5>2
      <4>3. QED
        BY <4>1, <4>2 DEF From
    <3>10. rest \in Seq(Cands) /\ Len(rest) = IF q.offset <= Len(c) THEN Len(c) - q.offset ELSE 0
      BY <1>4, <3>4, <3>9, DropFrom DEF From
    <3>11. Len(t) = IF q.top_k <= Len(rest) THEN q.top_k ELSE Len(rest)
      BY <1>4, <3>4, <3>10, TakeFrom
    <3>12. PICK k \in Nat, o \in Nat, l \in Nat : k = q.top_k /\ o = q.offset /\ l = Len(c)
      BY <3>4, <3>7
    <3>13. PICK left \in Int : left = n - o
      BY <3>6
    <3>14. Max({0, left}) = IF 0 <= left THEN left ELSE 0
      BY NotBelowZero
    <3>15. PICK m \in Int : m = IF 0 <= left THEN left ELSE 0
      OBVIOUS
    <3>16. Min({k, m}) = IF k <= m THEN k ELSE m
      BY LeastOfTwo
    <3>17. Len(t) = IF k <= m THEN k ELSE m
      <4>1. PICK r \in Nat : r = Len(rest)
        BY <3>10
      <4>2. PICK w \in Nat : w = n
        BY <3>6
      <4>3. l <= w /\ (l >= k + o \/ l >= w)
        BY <3>3, <3>4, <3>7, <3>12, <4>2
      <4>4. (o <= l => r = l - o) /\ (o > l => r = 0)
        BY <3>10, <3>12, <4>1
      <4>5. (k <= r => Len(t) = k) /\ (k > r => Len(t) = r)
        BY <3>11, <3>12, <4>1
      <4>6. (w - o >= 0 => m = w - o) /\ (w - o < 0 => m = 0)
        BY <3>13, <3>15, <4>2
      <4>7. PICK z : z = Len(t)
        OBVIOUS
      <4>8. (k <= r => z = k) /\ (k > r => z = r)
        BY <4>5, <4>7
      <4>9. (k <= m => z = k) /\ (k > m => z = m)
        BY <4>3, <4>4, <4>6, <4>8
      <4>10. QED
        BY <4>7, <4>9
    <3>18. m = Max({0, Cardinality(Wanted(query.q)) - query.q.offset})
      BY <1>2, <3>2, <3>3, <3>12, <3>13, <3>14, <3>15
    <3>19. Len(query'.cands) = Min({query.q.top_k, m})
      BY <1>2, <1>7, <3>12, <3>16, <3>17
    <3>20. QED
      BY <1>7, <3>18, <3>19, WantedStays
  <2>2. query'.q.kind # "recommend"
    BY <1>2, <1>7, <1>8
  <2>3. QED
    BY <1>7, <1>9, <1>11, <2>1, <2>2 DEF FullInv
<1>12. QED
  BY <1>5, <1>10, <1>11

\* A step that ends a query of another kind, or goes on with one.
LEMMA ElseFills ==
  ASSUME KindAt(query'), query'.at \in {"agree", "near", "refused", "done"},
         query'.at = "done" => query'.q.kind \notin {"query", "recommend"}
  PROVE  FullInv'
  BY DEF FullInv, Exactly

LEMMA GroupFills == ASSUME QueryTyped, FullInv, Group PROVE FullInv'
<1>1. PICK t : t = Grouped(Refilled(query.cands, {Lean, Bare}), query.q)
  OBVIOUS
<1>2. Goes([at |-> "done", cands |-> t]) /\ Quietly
  BY <1>1 DEF Group
<1>3. query'.at = "done" /\ query'.q = query.q
  BY <1>2, ListMoves
<1>4. query.q.kind = "grouped"
  BY DEF Group, FullInv, KindAt
<1>5. KindAt(query')
  BY <1>3 DEF KindAt, Typed
<1>6. QED
  BY <1>3, <1>4, <1>5, ElseFills

LEMMA ExamplesFills == ASSUME QueryTyped, FullInv, Examples PROVE FullInv'
<1>1. PICK at : at = IF query.q.positive \cap Live(docs) = {} THEN "refused" ELSE "near"
  OBVIOUS
<1>2. PICK next : next = [at |-> at]
  OBVIOUS
<1>3. Goes(next) /\ DOMAIN next = {"at"} /\ next.at = at
  BY <1>1, <1>2 DEF Examples
<1>4. \A p \in Parts : query'[p] = IF p \in DOMAIN next THEN next[p] ELSE query[p]
  BY <1>3, GoesParts DEF QueryTyped
<1>5. query'.at = at /\ query'.q = query.q
  BY <1>3, <1>4 DEF Parts
<1>6. query.q.kind = "recommend"
  BY DEF Examples, FullInv, KindAt
<1>7. KindAt(query')
  BY <1>1, <1>5, <1>6 DEF KindAt, Typed
<1>8. QED
  BY <1>1, <1>5, <1>7, ElseFills

LEMMA RecommendFills == ASSUME QueryInv, QueryTyped, FullInv, Recommend PROVE FullInv'
<1>1. DocsTyped /\ IsQuery(query.q) /\ query.at = "near"
  BY DEF QueryInv, QueryTyped, Recommend
<1>2. PICK q, exclude : q = query.q /\ exclude = q.positive \cup q.negative
  OBVIOUS
<1>3. PICK near, e : near = dense_search(q, Ids) /\ e = Cardinality(exclude)
  OBVIOUS
<1>4. PICK k : k = q.top_k
  OBVIOUS
<1>5. PICK hitList : hitList = Fetched(Take(near, k + e))
  OBVIOUS
<1>6. PICK P : P = {i \in DOMAIN hitList : hitList[i].id \notin exclude}
  OBVIOUS
<1>7. PICK others, t : others = KeptAt(hitList, P) /\ t = Take(others, k)
  OBVIOUS
<1>8. Goes([at |-> "done", cands |-> t]) /\ Quietly
  BY <1>2, <1>3, <1>4, <1>5, <1>6, <1>7 DEF Recommend
<1>9. query'.at = "done" /\ query'.cands = t /\ query'.q = query.q /\ docs' = docs
  BY <1>8, ListMoves
<1>10. query.q.kind = "recommend"
  BY <1>1 DEF FullInv, KindAt
<1>11. KindAt(query')
  BY <1>9 DEF KindAt, Typed
<1>12. k \in Nat /\ exclude \subseteq Ids
  BY <1>1, <1>2, <1>4 DEF IsQuery
<1>13. IsFiniteSet(exclude) /\ e \in Nat
  BY <1>3, <1>12, IdsAssumption, FS_Subset, FS_CardinalityType
<1>14. Live(docs) \subseteq Ids /\ IsFiniteSet(Live(docs))
  BY <1>1, LiveIds
<1>15. Listing(near) /\ IdSet(near) = Live(docs)
  <2>1. Listing(near) /\ IdSet(near) = Ids \cap Live(docs)
    BY <1>1, <1>3, DenseLists
  <2>2. QED
    BY <1>14, <2>1
<1>16. Len(near) = Cardinality(Live(docs))
  BY <1>15, ListSize
<1>17. /\ Listing(hitList) /\ IdSet(hitList) \subseteq Live(docs)
       /\ Len(hitList) = IF k + e <= Cardinality(Live(docs)) THEN k + e ELSE Cardinality(Live(docs))
  <2>1. PICK n \in Nat : n = k + e
    BY <1>12, <1>13
  <2>2. /\ Listing(hitList) /\ IdSet(hitList) \subseteq IdSet(near)
        /\ IdSet(near) \subseteq Live(docs) => Len(hitList) = IF n <= Len(near) THEN n ELSE Len(near)
    BY <1>1, <1>5, <1>15, <2>1, FetchedFirst
  <2>3. QED
    BY <1>15, <1>16, <2>1, <2>2
<1>18. hitList \in Seq(Cands) /\ DOMAIN hitList = 1..Len(hitList) /\ P \subseteq 1..Len(hitList)
  BY <1>6, <1>17 DEF Listing
<1>19. Listing(others) /\ IdSet(others) = {hitList[p].id : p \in P}
  BY <1>7, <1>17, <1>18, KeptLists
<1>20. IdSet(others) = IdSet(hitList) \ exclude
  BY <1>6, <1>18, <1>19 DEF IdSet
<1>21. Len(others) = Cardinality(IdSet(hitList) \ exclude) /\ Cardinality(IdSet(hitList)) = Len(hitList)
  BY <1>17, <1>19, <1>20, ListSize
<1>22. Len(t) = IF k <= Len(others) THEN k ELSE Len(others)
  BY <1>7, <1>12, <1>19, TakeFrom DEF Listing
<1>23. Len(t) = Min({k, Cardinality(Live(docs) \ exclude)})
  <2>1. PICK H, l, z : H = IdSet(hitList) /\ l = Cardinality(H \ exclude) /\ z = IF k <= l THEN k ELSE l
    OBVIOUS
  <2>2. /\ H \subseteq Live(docs)
        /\ Cardinality(H) = IF k + Cardinality(exclude) <= Cardinality(Live(docs))
                            THEN k + Cardinality(exclude) ELSE Cardinality(Live(docs))
    BY <1>3, <1>17, <1>21, <2>1
  <2>3. z = Min({k, Cardinality(Live(docs) \ exclude)})
    BY <1>12, <1>13, <1>14, <2>1, <2>2, OthersCount
  <2>4. QED
    BY <1>21, <1>22, <2>1, <2>3
<1>24. Others' = Live(docs) \ exclude
  BY <1>2, <1>9, WantedStays DEF Others
<1>25. Len(query'.cands) = Min({query'.q.top_k, Cardinality(Others')})
  BY <1>2, <1>4, <1>9, <1>23, <1>24
<1>26. ~Exactly'
  BY <1>9, <1>10 DEF Exactly
<1>27. QED
  BY <1>9, <1>11, <1>25, <1>26 DEF FullInv

LEMMA DiscoverFills == ASSUME QueryTyped, FullInv, Discover PROVE FullInv'
<1>1. PICK t : t = Fetched(Take(dense_search(query.q, Ids), query.q.top_k * STRATEGY_OVERFETCH))
  OBVIOUS
<1>2. Goes([at |-> "agree", cands |-> t]) /\ Quietly
  BY <1>1 DEF Discover
<1>3. query'.at = "agree" /\ query'.q = query.q
  BY <1>2, ListMoves
<1>4. KindAt(query')
  BY <1>3 DEF Discover, FullInv, KindAt, Typed
<1>5. QED
  BY <1>3, <1>4, ElseFills

LEMMA ContextualiseFills == ASSUME QueryTyped, FullInv, Contextualise PROVE FullInv'
<1>1. PICK t : t = Take(ByAgreement(query.cands), query.q.top_k)
  OBVIOUS
<1>2. Goes([at |-> "done", cands |-> t]) /\ Quietly
  BY <1>1 DEF Contextualise
<1>3. query'.at = "done" /\ query'.q = query.q
  BY <1>2, ListMoves
<1>4. query.q.kind = "discover"
  BY DEF Contextualise, FullInv, KindAt
<1>5. KindAt(query')
  BY <1>3 DEF KindAt, Typed
<1>6. QED
  BY <1>3, <1>4, <1>5, ElseFills

LEMMA WriteFills ==
  ASSUME QueryTyped, FullInv, query.at # "idle", NEW d \in Ids, NEW v \in Values \cup {Bare, NoDoc}, Write(d, v)
  PROVE  FullInv'
<1>1. query' = [query EXCEPT !.quiet = FALSE, !.seen[d] = @ \cup {v}]
  BY DEF Write
<1>2. DOMAIN query = Parts
  BY DEF QueryTyped
<1>3. query'.at = query.at /\ query'.q = query.q /\ query'.scope = query.scope /\ query'.quiet = FALSE
  BY <1>1, <1>2 DEF Parts
<1>4. ~Exactly' /\ ~query'.quiet
  BY <1>3 DEF Exactly
<1>5. KindAt(query')
  BY <1>3 DEF FullInv, KindAt
<1>6. QED
  BY <1>3, <1>4, <1>5 DEF FullInv

LEMMA FullKept == QueryFull /\ [QueryNext]_queryVars => QueryFull'
<1>1. SUFFICES ASSUME QueryFull, [QueryNext]_queryVars PROVE QueryFull'
  OBVIOUS
<1>2. QueryInv /\ QueryInv'
  BY <1>1, QueryKept DEF QueryFull
<1>3. CASE UNCHANGED queryVars
  BY <1>1, <1>2, <1>3 DEF queryVars, QueryFull, FullInv, Exactly, Others, Full, Wanted, Matching, Live
<1>4. CASE \E q \in Queries : Submit(q)
  BY <1>2, <1>4, SubmitFills DEF QueryFull
<1>5. CASE Deliver
  BY <1>2, <1>5 DEF Deliver, QueryFull
<1>6. ASSUME query.at # "idle" PROVE QueryTyped /\ StageInv(query) /\ FullInv
  BY <1>1, <1>2, <1>6, UnderWay DEF QueryFull
<1>7. CASE QueryStep
  <2>1. CASE Prefetch
    BY <1>2, <1>6, <2>1, PrefetchFills DEF Prefetch, QueryFull
  <2>2. CASE ResolveScope
    BY <1>2, <1>6, <2>2, ResolveScopeFills DEF ResolveScope, QueryFull
  <2>3. CASE ResolveFilter
    BY <1>2, <1>6, <2>3, ResolveFilterFills DEF ResolveFilter, QueryFull
  <2>4. CASE Search
    BY <1>2, <1>6, <2>4, SearchFills DEF Search, QueryFull
  <2>5. CASE FuseSparse
    BY <1>2, <1>6, <2>5, FuseSparseFills DEF FuseSparse, QueryFull
  <2>6. CASE Rescore
    BY <1>2, <1>6, <2>6, RescoreFills DEF Rescore, QueryFull
  <2>7. CASE PostFilter
    BY <1>2, <1>6, <2>7, PostFilterFills DEF PostFilter, QueryFull
  <2>8. CASE Page
    BY <1>2, <1>6, <2>8, PageFills DEF Page, QueryFull
  <2>9. CASE Group
    BY <1>2, <1>6, <2>9, GroupFills DEF Group, QueryFull
  <2>10. CASE Examples
    BY <1>2, <1>6, <2>10, ExamplesFills DEF Examples, QueryFull
  <2>11. CASE Recommend
    BY <1>2, <1>6, <2>11, RecommendFills DEF Recommend, QueryFull
  <2>12. CASE Discover
    BY <1>2, <1>6, <2>12, DiscoverFills DEF Discover, QueryFull
  <2>13. CASE Contextualise
    BY <1>2, <1>6, <2>13, ContextualiseFills DEF Contextualise, QueryFull
  <2>14. QED
    BY <1>4, <1>5, <1>7, <2>1, <2>2, <2>3, <2>4, <2>5, <2>6, <2>7, <2>8, <2>9, <2>10, <2>11, <2>12, <2>13
       DEF QueryStep
<1>8. CASE \E d \in Ids, v \in Values \cup {Bare, NoDoc} : Write(d, v)
  <2>1. PICK d \in Ids, v \in Values \cup {Bare, NoDoc} : Write(d, v)
    BY <1>8
  <2>2. CASE query.at # "idle"
    BY <1>2, <1>6, <2>1, <2>2, WriteFills DEF QueryFull
  <2>3. CASE query.at = "idle"
    <3>1. query = NoQuery
      BY <1>2, <2>3 DEF QueryInv, StageInv, QueryStages
    <3>2. query' = NoQuery
      BY <2>1, <2>3, <3>1 DEF Write, NoQuery
    <3>3. QED
      BY <1>2, <3>2 DEF QueryFull
  <2>4. QED
    BY <2>2, <2>3
<1>9. QED
  BY <1>1, <1>3, <1>7, <1>8 DEF QueryNext

\* query.rs, strategies.rs: undisturbed, a query whose filter the index resolves to a set that
\* is ranked exactly has a full page at every offset, after sparse fusion, MaxSim and fetching
\* payloads too; recommend, which drops its examples from the nearest, fills its page.
THEOREM EveryPageFull == QuerySpec => []PageFull
<1>1. QueryInit => QueryFull
  BY DEF QueryInit, QueryFull, QueryInv, DocsTyped, Fields
<1>2. QueryFull => PageFull
  <2>1. SUFFICES ASSUME QueryFull, query.at = "done" PROVE PageFull
    BY DEF PageFull, AskedQuietly
  <2>2. FullInv
    BY <2>1 DEF QueryFull, NoQuery
  <2>3. QED
    BY <2>1, <2>2 DEF PageFull, FullInv, AskedQuietly, Exactly, Others
<1>3. QED
  BY <1>1, <1>2, FullKept, PTL DEF QuerySpec

=============================================================================
