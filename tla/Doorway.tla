------------------------------ MODULE Doorway ------------------------------
(***************************************************************************)
(* A node seen from its doors: newline-framed TCP (rro-net/tcp.rs), HTTP   *)
(* (http.rs) and the in-process bus (local.rs) in front of one handler     *)
(* (handler.rs), with its authorisation (auth.rs) and its text surfaces    *)
(* (sql.rs, graphql.rs).  A connection serves one request at a time; what  *)
(* the handler does for it is a plan of awaits, and the plans of different *)
(* connections interleave.  The writes of a request are recorded in its    *)
(* log; what a transaction does inside the estate is EstateTx, what a      *)
(* subscription pushes is ChangeStream, what a quorum waits for is         *)
(* Replication.                                                            *)
(***************************************************************************)
EXTENDS Integers, Sequences, FiniteSets, SequencesExt

CONSTANTS
    Conns,          \* connections
    DoorOf,         \* connection -> "tcp" | "http" | "bus"
    Requests,       \* what a caller may send
    NodeSetups,     \* how the node may be set up
    MaxRequests,    \* bound on requests
    MaxNow          \* bound on the clock

AllOps == UNION {{r.ops[i] : i \in DOMAIN r.ops} : r \in Requests}

PayloadVerbs == {"set_payload", "overwrite_payload", "delete_payload_keys", "clear_payload"}

\* The verbs whose arguments are operations on the estate; a statement that writes and a
\* GraphQL document have some too, and only a collection is dropped document by document.
WriteVerbs == {"index", "tx", "relate", "drop_collection", "create_alias", "delete_alias"} \cup PayloadVerbs

ASSUME RequestsFormed ==
    \A r \in Requests :
        /\ r.tok.role \in {"reader", "writer", "admin"}
        /\ r.ops \in Seq(AllOps)
        /\ r.ops # <<>> => r.verb \in WriteVerbs \cup {"graphql"} \/ (r.verb = "sql" /\ r.stmt = "write")
        /\ \A i \in DOMAIN r.ops : r.ops[i].op = "drop" => r.verb \in {"drop_collection", "sql", "graphql"}
ASSUME NodesFormed == \A n \in NodeSetups : n.gate \in {"open", "secret", "rbac"}

VARIABLES
    node,       \* [gate, ns, estate, leader]
    now,        \* seconds
    conn,       \* connection -> what its task is at
    sent,       \* connection -> requests sent, in order
    replies,    \* connection -> [n, body], in order
    log,        \* connection -> per request sent, its writes [since, op] in the estate, in order
    aliases     \* alias names in the durable map

doorVars == <<node, now, conn, sent, replies, log, aliases>>

----------------------------------------------------------------------------
(* Authorisation.                                                          *)

Rank(role) == CASE role = "reader" -> 1 [] role = "writer" -> 2 [] role = "admin" -> 3

\* Mutant: relate is missing from the table of write verbs.
MinRoleForgetsRelate(verb) ==
    IF verb \in {"compact", "flush", "drop_collection"} THEN "admin"
    ELSE IF verb \in {"index", "tx", "set_payload", "overwrite_payload", "delete_payload_keys",
                      "clear_payload", "create_alias", "delete_alias"} THEN "writer"
    ELSE "reader"

\* What is not listed is a read.
min_role(verb) ==
    IF verb \in {"compact", "flush", "drop_collection"} THEN "admin"
    ELSE IF verb \in {"index", "tx", "relate", "set_payload", "overwrite_payload",
                      "delete_payload_keys", "clear_payload", "create_alias", "delete_alias"}
         THEN "writer"
    ELSE "reader"

allows(role, verb) == Rank(role) >= Rank(min_role(verb))

\* A token: the key it is signed with ("none": no token, "secret": the shared secret).
policy_authorize(tok, verb) ==
    IF /\ tok.key = "local"
       /\ tok.exp > now
       /\ "any" \in {node.ns, tok.ns} \/ node.ns = tok.ns
       /\ allows(tok.role, verb)
    THEN tok.role ELSE "refused"

\* The caller's role, "open" where roles play no part, or "refused".
authorize(r) ==
    IF r.verb = "ping" THEN "open"
    ELSE IF node.gate = "rbac" THEN policy_authorize(r.tok, r.verb)
    ELSE IF node.gate = "secret" /\ r.tok.key # "secret" THEN "refused"
    ELSE "open"

----------------------------------------------------------------------------
(* Plans: the awaits of a handler, in order.  A step that fails tears the  *)
(* handler down with an error ("tear"), ends it with an error reply        *)
(* ("error"), or drops the rest of its field and goes on ("skip").         *)

Await(do, ops, fails) == [do |-> do, ops |-> ops, fails |-> fails]
Embed(fails) == Await("embed", <<>>, fails)
Call(fails) == Await("call", <<>>, fails)
Commit(ops, fails) == Await("commit", ops, fails)
Reply(body) == Await("reply", <<>>, body)
Tear == Await("tear", <<>>, "tear")

\* Mutant: each operation commits as it is read, not all of them at the end.
TxPlanAsItGoes(r) ==
    FlattenSeq([i \in DOMAIN r.ops |->
                   IF r.ops[i].op = "upsert" THEN <<Embed("tear"), Commit(<<r.ops[i]>>, "tear")>>
                   ELSE IF r.ops[i].op = "bad" THEN <<Tear>> ELSE <<Commit(<<r.ops[i]>>, "tear")>>])
        \o (IF r.quorum THEN <<Call("tear"), Await("quorum", <<>>, "error")>> ELSE <<>>)
        \o <<Reply("ok")>>

\* tx embeds operation by operation and commits once, after the last; a quorum is waited for
\* with the write in the estate.
tx_plan(r) ==
    FlattenSeq([i \in DOMAIN r.ops |->
                   IF r.ops[i].op = "upsert" THEN <<Embed("tear")>>
                   ELSE IF r.ops[i].op = "bad" THEN <<Tear>> ELSE <<>>])
        \o <<Commit(r.ops, "tear")>>
        \o (IF r.quorum THEN <<Call("tear"), Await("quorum", <<>>, "error")>> ELSE <<>>)
        \o <<Reply("ok")>>

\* A write that is one operation of the estate.  An alias is a read and a write of the whole
\* map; a collection is dropped document by document; the rest is one commit.
estate_write(r, fails) ==
    CASE r.ops[1].op \in {"create_alias", "delete_alias"} ->
             <<Await("read", <<>>, fails), Await("write", r.ops, fails)>>
      [] r.ops[1].op = "drop" -> [i \in DOMAIN r.ops |-> Commit(<<r.ops[i]>>, fails)]
      [] OTHER                -> <<Commit(r.ops, fails)>>

\* Reads and writes of a parsed statement; a SELECT does not come here.
apply(r) ==
    CASE r.stmt = "write" -> estate_write(r, "error") \o <<Reply("ok")>>
      [] r.stmt = "live"  -> <<Reply("error")>>
      [] OTHER            -> <<Call("error"), Reply("ok")>>

is_write(r) == r.stmt = "write"

\* A reader's sql is read only; a request may pin itself read only.
sql_plan(r, role) ==
    IF r.stmt = "malformed"                  THEN <<Reply("error")>>
    ELSE IF is_write(r) /\ role = "reader"   THEN <<Reply("unauthorized")>>
    ELSE IF is_write(r) /\ r.read_only       THEN <<Reply("error")>>
    ELSE IF r.stmt = "select"                THEN <<Embed("error"), Call("error"), Reply("ok")>>
    ELSE apply(r)

resolve_root(field) == IF field.op = "search" THEN <<Embed("skip"), Call("skip")>> ELSE <<Call("skip")>>
resolve_mutation(field) ==
    CASE field.op = "upsert" -> <<Embed("skip"), Commit(<<field>>, "skip")>>
      [] field.op = "remove" -> <<Commit(<<field>>, "skip")>>
      [] OTHER               -> <<Await("tear", <<>>, "skip")>>

is_mutation(r) == r.stmt = "write"

\* The fields of a document are resolved one after the other; one that fails is noted under
\* errors and the next is resolved.
execute(r) ==
    IF r.stmt = "malformed" THEN <<Reply("errors")>>
    ELSE FlattenSeq([i \in DOMAIN r.ops |-> IF is_mutation(r) THEN resolve_mutation(r.ops[i])
                                            ELSE resolve_root(r.ops[i])]) \o <<Reply("ok")>>

graphql_plan(r, role) ==
    IF is_mutation(r) /\ role = "reader" THEN <<Reply("unauthorized")>> ELSE execute(r)

ask_plan(r) == IF r.verb = "ping" THEN <<Reply("ok")>>
               ELSE <<Embed("tear"), Call("tear"), Reply("ok")>>

feed_plan(r) == <<Call(IF r.verb = "changes" THEN "tear" ELSE "error"), Reply("ok")>>

query_plan(r) ==
    (IF r.verb = "query" THEN <<Embed("tear")>> ELSE <<>>) \o <<Call("error"), Reply("ok")>>

discover_plan(r) == <<Embed("error"), Call("error"), Reply("ok")>>

graph_plan(r) == (IF r.verb = "relate" THEN estate_write(r, "error") ELSE <<Call("error")>>) \o <<Reply("ok")>>

index_plan(r) == <<Embed("tear"), Commit(r.ops, "tear"), Call("tear"), Reply("ok")>>

AdminVerbs == {"info", "flush", "compact", "matrix", "sample", "collections", "drop_collection",
               "create_alias", "aliases", "delete_alias"} \cup PayloadVerbs

admin_plan(r) ==
    (CASE r.verb \in PayloadVerbs -> estate_write(r, "error")
       [] r.verb \in {"drop_collection", "create_alias", "delete_alias"} -> estate_write(r, "tear")
       [] OTHER -> <<Call("tear")>>) \o <<Reply("ok")>>

NeedsEstate(verb) == verb \notin {"ping", "ask", "recall", "map", "index", "health"}

\* Arguments that do not parse are answered, or tear the handler down where it says `?`.
BadArguments(verb) == IF verb \in {"index", "tx", "set_payload", "overwrite_payload"}
                      THEN <<Tear>> ELSE <<Reply("error")>>

plan(r, role) ==
    IF NeedsEstate(r.verb) /\ ~node.estate              THEN <<Reply("error")>>
    ELSE IF r.verb = "sql"                              THEN sql_plan(r, role)
    ELSE IF r.verb = "graphql"                          THEN graphql_plan(r, role)
    ELSE IF r.stmt = "malformed"                        THEN BadArguments(r.verb)
    ELSE IF r.verb \in {"ping", "ask", "recall", "map"} THEN ask_plan(r)
    ELSE IF r.verb \in {"changes", "replicate"}         THEN feed_plan(r)
    ELSE IF r.verb \in {"query", "recommend"}           THEN query_plan(r)
    ELSE IF r.verb = "discover"                         THEN discover_plan(r)
    ELSE IF r.verb \in {"relate", "traverse"}           THEN graph_plan(r)
    ELSE IF r.verb = "index"                            THEN index_plan(r)
    ELSE IF r.verb = "tx"                               THEN tx_plan(r)
    ELSE IF r.verb \in AdminVerbs \cup {"health"}       THEN admin_plan(r)
    ELSE <<Reply("error")>>

----------------------------------------------------------------------------
Idle == [at |-> "idle", plan |-> <<>>, since |-> 0, read |-> {}, erred |-> FALSE]

Init ==
    /\ node \in NodeSetups
    /\ now = 0
    /\ conn = [c \in Conns |-> Idle]
    /\ sent = [c \in Conns |-> <<>>]
    /\ replies = [c \in Conns |-> <<>>]
    /\ log = [c \in Conns |-> <<>>]
    /\ aliases = {}

\* How many of the requests on c its task has taken: one reply each, and the one in hand.
Taken(c) == Len(replies[c]) + (IF conn[c].at \in {"work", "stream"} THEN 1 ELSE 0)
Current(c) == Taken(c)
Unread(c) == conn[c].at = "idle" /\ Len(sent[c]) > Taken(c)

Answer(c, n, body) == replies' = [replies EXCEPT ![c] = Append(@, [n |-> n, body |-> body])]
Closes(c) == conn' = [conn EXCEPT ![c] = [@ EXCEPT !.at = "closed", !.plan = <<>>]]

\* After a reply a TCP connection reads on, any other door is closed.
ReadsOn(c) == conn' = [conn EXCEPT ![c] = [@ EXCEPT !.at = IF DoorOf[c] = "tcp" THEN "idle" ELSE "closed",
                                                  !.plan = <<>>, !.erred = FALSE]]

\* An error of the handler: the TCP connection is dropped without a reply, the other doors
\* hand the error to their caller.
Failed(c) ==
    /\ Closes(c)
    /\ IF DoorOf[c] = "tcp" THEN UNCHANGED replies ELSE Answer(c, Current(c), "error")

\* Over TCP requests may be written ahead of the replies; the other doors take one.
Send(c, r) ==
    /\ conn[c].at \in {"idle", "work", "stream"}
    /\ DoorOf[c] # "tcp" => sent[c] = <<>>
    /\ FoldFunction(LAMBDA q, k : Len(q) + k, 0, sent) < MaxRequests
    /\ sent' = [sent EXCEPT ![c] = Append(@, r)]
    /\ log' = [log EXCEPT ![c] = Append(@, <<>>)]
    /\ UNCHANGED <<node, now, conn, replies, aliases>>

\* Forms that never reach the handler: a line that is no message ends a TCP connection; the
\* HTTP door answers 400, 413, 404 and 405 itself.
Malformed(c) ==
    /\ Unread(c) /\ sent[c][Taken(c) + 1].verb = "malformed"
    /\ Closes(c)
    /\ IF DoorOf[c] = "tcp" THEN UNCHANGED replies ELSE Answer(c, Taken(c) + 1, "refused")
    /\ UNCHANGED <<node, now, sent, log, aliases>>

Streams(c, r) == DoorOf[c] = "tcp" /\ r.verb \in {"watch", "live"}

\* handle_stream: the connection gives itself to the stream until its producer ends.
Subscribe(c) ==
    /\ Unread(c)
    /\ LET n == Taken(c) + 1
           r == sent[c][n]
       IN  /\ Streams(c, r)
           /\ IF authorize(r) = "refused" THEN Answer(c, n, "unauthorized") /\ UNCHANGED conn
              ELSE IF ~node.estate \/ (r.verb = "live" /\ r.stmt # "live")
              THEN Answer(c, n, "error") /\ UNCHANGED conn
              ELSE conn' = [conn EXCEPT ![c].at = "stream"] /\ UNCHANGED replies
    /\ UNCHANGED <<node, now, sent, log, aliases>>

\* The producer ends when the feed cannot be read.
StreamEnds(c) ==
    /\ conn[c].at = "stream"
    /\ ReadsOn(c)
    /\ Answer(c, Current(c), "ended")
    /\ UNCHANGED <<node, now, sent, log, aliases>>

\* FlowNode::handle: authorised anew for every message.
Accept(c) ==
    /\ Unread(c)
    /\ LET n == Taken(c) + 1
           r == sent[c][n]
           role == authorize(r)
       IN  /\ ~Streams(c, r) /\ r.verb # "malformed"
           /\ IF role = "refused" THEN ReadsOn(c) /\ Answer(c, n, "unauthorized")
              ELSE /\ conn' = [conn EXCEPT ![c] = [@ EXCEPT !.at = "work", !.plan = plan(r, role), !.since = now]]
                   /\ UNCHANGED replies
    /\ UNCHANGED <<node, now, sent, log, aliases>>

\* The handler has a step to take.
Busy(c) == conn[c].at = "work" /\ conn[c].plan # <<>>

Step(c) == Head(conn[c].plan)
Rest(c) == Tail(conn[c].plan)
GoesOn(c) == conn' = [conn EXCEPT ![c].plan = Rest(c)]
Working(c, do) == Busy(c) /\ Step(c).do = do

Writes(c) == [i \in DOMAIN Step(c).ops |-> [since |-> conn[c].since, op |-> Step(c).ops[i]]]
Logged(c) == [log EXCEPT ![c][Current(c)] = @ \o Writes(c)]

StepDone(c) ==
    /\ Busy(c) /\ Step(c).do \in {"embed", "call", "commit"}
    /\ GoesOn(c)
    /\ log' = IF Step(c).do = "commit" THEN Logged(c) ELSE log
    /\ UNCHANGED <<node, now, sent, replies, aliases>>

\* A field whose text cannot be embedded is not written or searched for either.
Skip(c) == conn' = [conn EXCEPT ![c] = [@ EXCEPT !.erred = TRUE,
                        !.plan = IF Step(c).do = "embed" THEN SubSeq(conn[c].plan, 3, Len(conn[c].plan))
                                 ELSE Rest(c)]]

\* A model that cannot be reached, a commit or a read of the estate that is refused.
StepFails(c) ==
    /\ Busy(c) /\ Step(c).do \notin {"quorum", "reply"}
    /\ \/ Step(c).fails = "tear" /\ Failed(c)
       \/ Step(c).fails = "error" /\ ReadsOn(c) /\ Answer(c, Current(c), "error")
       \/ Step(c).fails = "skip" /\ Skip(c) /\ UNCHANGED replies
    /\ UNCHANGED <<node, now, sent, log, aliases>>

\* create_alias, delete_alias read the whole map and write it back, under no lock.
AliasRead(c) ==
    /\ Working(c, "read")
    /\ conn' = [conn EXCEPT ![c] = [@ EXCEPT !.plan = Rest(c), !.read = aliases]]
    /\ UNCHANGED <<node, now, sent, replies, log, aliases>>

AliasWrite(c) ==
    /\ Working(c, "write")
    /\ LET name == Step(c).ops[1].id
       IN  aliases' = IF Step(c).ops[1].op = "create_alias" THEN conn[c].read \cup {name}
                      ELSE conn[c].read \ {name}
    /\ GoesOn(c)
    /\ log' = Logged(c)
    /\ UNCHANGED <<node, now, sent, replies>>

\* The write is committed here whatever the cluster says.
AwaitQuorum(c) ==
    /\ Working(c, "quorum")
    /\ \/ node.leader /\ GoesOn(c) /\ UNCHANGED replies
       \/ ReadsOn(c) /\ Answer(c, Current(c), "committed_local")
    /\ UNCHANGED <<node, now, sent, log, aliases>>

Respond(c) ==
    /\ Working(c, "reply")
    /\ Answer(c, Current(c), IF conn[c].erred THEN "errors" ELSE Step(c).fails)
    /\ ReadsOn(c)
    /\ UNCHANGED <<node, now, sent, log, aliases>>

\* The caller hangs up.  What is in hand goes on to its reply, which nobody reads; an idle or
\* streaming task ends.
Hangup(c) ==
    /\ conn[c].at \in {"idle", "stream"} /\ sent[c] # <<>>
    /\ Closes(c)
    /\ UNCHANGED <<node, now, sent, replies, log, aliases>>

Tick ==
    /\ now < MaxNow
    /\ now' = now + 1
    /\ UNCHANGED <<node, conn, sent, replies, log, aliases>>

Next ==
    \/ \E c \in Conns : \/ \E r \in Requests : Send(c, r)
                        \/ Malformed(c) \/ Subscribe(c) \/ StreamEnds(c) \/ Accept(c)
                        \/ StepDone(c) \/ StepFails(c) \/ AliasRead(c) \/ AliasWrite(c)
                        \/ AwaitQuorum(c) \/ Respond(c) \/ Hangup(c)
    \/ Tick

Spec == Init /\ [][Next]_doorVars

----------------------------------------------------------------------------
Applied(c, n) == [i \in DOMAIN log[c][n] |-> log[c][n][i].op]

MayWrite(tok, t) ==
    CASE node.gate = "open"   -> TRUE
      [] node.gate = "secret" -> tok.key = "secret"
      [] node.gate = "rbac"   -> /\ tok.key = "local" /\ tok.exp > t
                                 /\ "any" \in {node.ns, tok.ns} \/ node.ns = tok.ns
                                 /\ tok.role \in {"writer", "admin"}

\* handler.rs: "fresh authorization at every action"; graphql.rs: "the write surface is covered
\* whichever language carries it".  Whatever verb, statement, document or door it came by, a
\* write in the estate was asked for with a token that lets its bearer write here.
WritesAuthorized ==
    \A c \in Conns : \A n \in DOMAIN log[c] : \A i \in DOMAIN log[c][n] :
        MayWrite(sent[c][n].tok, log[c][n][i].since)

\* What Client::call makes of a reply: an "error" in its body is one, "errors" is not.
Client_call(body) == IF body \in {"ok", "errors", "ended"} THEN "ok" ELSE "err"

\* The requests whose last fallible step is their one commit.
OneCommit(r) == \/ r.verb \in {"relate", "set_payload", "overwrite_payload", "delete_payload_keys",
                               "clear_payload", "create_alias", "delete_alias"}
                \/ r.verb = "sql" /\ \A i \in DOMAIN r.ops : r.ops[i].op # "drop"

\* What a caller is told, by any door.  Replies come in the order of the requests, one each.
\* A call that returns, and one that reports "committed_local", left the whole write in the
\* estate, in the order asked; a refusal left nothing, and so does an error of a write of one
\* commit; and a tx is there whole or not at all, whether its reply arrived or not.
RepliesAreTrue ==
    \A c \in Conns :
        /\ \A i \in DOMAIN replies[c] :
              LET r == sent[c][i]
                  body == replies[c][i].body
              IN  /\ replies[c][i].n = i
                  /\ (Client_call(body) = "ok" /\ r.verb # "graphql") \/ body = "committed_local" =>
                         Applied(c, i) = r.ops
                  /\ body \in {"unauthorized", "refused"} => Applied(c, i) = <<>>
                  /\ body = "error" /\ OneCommit(r) => Applied(c, i) = <<>>
                  /\ body = "ok" /\ r.verb = "graphql" /\ r.stmt = "write" => Applied(c, i) = r.ops
        /\ \A n \in DOMAIN sent[c] :
              sent[c][n].verb = "tx" => Applied(c, n) \in {<<>>, sent[c][n].ops}

=============================================================================
