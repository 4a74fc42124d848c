--------------------------- MODULE MCRequestPath ----------------------------
(* What a request goes through, for TLC: one stage per behaviour, chosen at *)
(* the start, with every instance of the stages' constants in one place.   *)
(*                                                                          *)
(*   door     the doors, authorisation and dispatch           (Doorway)     *)
(*   ask      one turn of the flow around the RRD engine      (AskFlow)     *)
(*   distil   the RRD engine alone, more observations         (Rrd)         *)
(*   models   embedder, reranker and sidecar calls            (ModelEdge)   *)
(*   query    filters, fusion and paging                      (QueryPlane)  *)
(*   scroll   a client paging through the documents           (Scroll)      *)
(*   graph    the nearest-neighbour graph under the query     (AnnGraph)    *)
(*                                                                          *)
(* No stage shares state with another inside one request, only values it    *)
(* returns.  distil names the variables s1..s7 after its own, in the order  *)
(* it declares them.  The other stages have variables of their own.         *)
EXTENDS Doorway, AskFlow, Scroll, ModelEdge, QueryPlane, AnnGraph, TLC

CONSTANT Stages     \* the stages a run covers

VARIABLES stage, s1, s2, s3, s4, s5, s6, s7

shared == <<s1, s2, s3, s4, s5, s6, s7>>
pathVars == <<doorVars, askVars, edgeVars, scrollVars, queryVars, stage, shared, annVars>>

Blank(v) == v = "-"

----------------------------------------------------------------------------
(* door: every kind of gate, a leader and a follower, callers of each role. *)

Tok(k, role, ns, exp) == [key |-> k, role |-> role, ns |-> ns, exp |-> exp]
NoTok == Tok("none", "reader", "any", 0)
Secret == Tok("secret", "reader", "any", 0)
Reader == Tok("local", "reader", "any", 9)
Writer == Tok("local", "writer", "acme", 9)
Expiring == Tok("local", "writer", "any", 1)
Admin == Tok("local", "admin", "any", 9)

Req(verb, tok, stmt, ops) ==
    [verb |-> verb, tok |-> tok, stmt |-> stmt, read_only |-> FALSE, ops |-> ops, quorum |-> FALSE]
Op(o, i) == [op |-> o, id |-> i]
Two == <<Op("upsert", 1), Op("remove", 2)>>

DoorRequests ==
    { Req("ping", NoTok, "none", <<>>),
      Req("malformed", NoTok, "none", <<>>),
      Req("query", Secret, "none", <<>>),
      Req("watch", Reader, "none", <<>>),
      Req("live", Reader, "write", <<>>),
      [Req("tx", Writer, "none", Two) EXCEPT !.quorum = TRUE],
      Req("tx", Expiring, "none", Two \o <<Op("bad", 0)>>),
      Req("relate", Reader, "none", <<Op("relate", 1)>>),
      Req("relate", Secret, "none", <<Op("relate", 1)>>),
      Req("sql", Reader, "write", <<Op("relate", 1)>>),
      Req("sql", Writer, "write", <<Op("drop", 1), Op("drop", 2)>>),
      Req("graphql", Expiring, "write", Two),
      Req("graphql", Reader, "write", Two),
      Req("graphql", Reader, "none", <<Op("search", 0)>>),
      Req("create_alias", Writer, "none", <<Op("create_alias", 1)>>),
      Req("delete_alias", Admin, "none", <<Op("delete_alias", 1)>>),
      Req("index", Writer, "none", <<Op("upsert", 1)>>) }

Node(gate, ns, estate, leader) == [gate |-> gate, ns |-> ns, estate |-> estate, leader |-> leader]
DoorNodes ==
    { Node("rbac", "acme", TRUE, TRUE), Node("rbac", "other", TRUE, FALSE),
      Node("secret", "any", TRUE, FALSE), Node("open", "any", FALSE, FALSE) }
Doors == "c1" :> "tcp" @@ "c2" :> "http"

\* The other stages leave the door alone.
DoorShut ==
    /\ node = Node("open", "any", FALSE, FALSE) /\ now = 0
    /\ conn = [c \in Conns |-> Idle] /\ sent = [c \in Conns |-> <<>>]
    /\ replies = [c \in Conns |-> <<>>] /\ log = [c \in Conns |-> <<>>] /\ aliases = {}

DoorStage == /\ Next
             /\ UNCHANGED <<stage, askVars, edgeVars, scrollVars, queryVars, shared, annVars>>

----------------------------------------------------------------------------
(* ask and distil: two callers, a payload with fields, one that leaks, one  *)
(* over the size limit.                                                     *)

Field(n, ty) == [name |-> n, type |-> ty]
Mail == [bytes |-> 1, fields |-> {Field(<<"from">>, "string"), Field(<<"sent", "at">>, "number")},
         signals |-> {}]
Leak == [bytes |-> 1, fields |-> {}, signals |-> {"secret"}]
Huge == [bytes |-> 9, fields |-> {}, signals |-> {}]
AskPayloads == {Mail, Leak, Huge}
AskQuery == [p \in AskPayloads |-> IF p = Mail THEN {"a"} ELSE {}]
AskTerms == [d1 |-> {"a"}, d2 |-> {"b"}]

Engine == INSTANCE Rrd WITH
    slivers <- s1, plans <- s2, hits <- s3, compiles <- s4, baseline <- s5, saved <- s6,
    pass <- s7, Contexts <- {"query", "global"}, MaxObservations <- 4

AskStage == /\ FlowNext
            /\ UNCHANGED <<stage, doorVars, edgeVars, scrollVars, queryVars, shared, annVars>>
DistilStage == /\ Engine!RrdNext
               /\ UNCHANGED <<stage, doorVars, askVars, edgeVars, scrollVars, queryVars, annVars>>

----------------------------------------------------------------------------
(* models: two of the three texts score alike, one is longer than the       *)
(* window, and a call needs two chunks.                                     *)

TextScore == "t1" :> 3 @@ "t2" :> 5 @@ "t3" :> 5
TextTokens == "t1" :> 1 @@ "t2" :> 3 @@ "t3" :> 2

ModelsStage == /\ EdgeNext
               /\ UNCHANGED <<stage, doorVars, askVars, scrollVars, queryVars, shared, annVars>>

----------------------------------------------------------------------------
(* query: three documents whose field is a number, its float spelling, a    *)
(* word, a date, a place, or missing; eleven requests that between them     *)
(* take every path of the query plane; one write in the middle of one.      *)

One == Value("num", <<1>>, 0)
OneFloat == Value("num", <<1>>, 1)
Three == Value("num", <<3>>, 0)
Word == Value("str", <<1>>, 0)
Date == Value("dt", <<2>>, 0)
Spot == Value("geo", <<1, 2>>, 0)
AFilter(must, should, not) == [must |-> must, should |-> should, must_not |-> not]
Eq(v) == [op |-> "eq", value |-> v]
Exists == [op |-> "exists"]
Between == [op |-> "range", gt |-> {1}, gte |-> {0}, lt |-> {}, lte |-> {3}]
Nearby == [op |-> "geo_radius", center |-> <<1, 1>>, radius |-> 1]
Inside == [op |-> "geo_box", box |-> <<<<0, 0>>, <<3, 1>>>>]

Default == DefaultQuery
QueryRequests ==
    { [Default EXCEPT !.legacy = {One}, !.sparse = TRUE],
      [Default EXCEPT !.filter = AFilter({Exists}, {Eq(One), Between}, {}),
                  !.offset = 1, !.multi = TRUE, !.mode = "dbsf"],
      [Default EXCEPT !.filter = AFilter({Exists}, {}, {Eq(One)}), !.collection = TRUE],
      [Default EXCEPT !.filter = AFilter({}, {}, {Eq(One)}), !.vector = FALSE],
      [Default EXCEPT !.prefetch = <<1, 2>>, !.scope = <<{1, 2}>>, !.mode = "dbsf", !.threshold = {1}],
      [Default EXCEPT !.top_k = 2, !.sparse = TRUE, !.fusion = <<1, 0>>],
      [Default EXCEPT !.kind = "grouped", !.group_size = 2, !.using = TRUE],
      [Default EXCEPT !.kind = "discover"],
      [Default EXCEPT !.kind = "recommend", !.positive = {1}, !.negative = {2}],
      [Default EXCEPT !.filter = AFilter({Nearby}, {}, {Inside}), !.top_k = 2],
      [Default EXCEPT !.filter = AFilter({}, {[op |-> "any", values |-> {One, Word}]},
                                     {[Between EXCEPT !.op = "date_range"]}), !.top_k = 5] }

DenseOf == <<1, 3, 2>>
LexicalOf == <<2, 0, 1>>
SparseOf == <<1, 2, 0>>
NamedOf == <<0, 1, 2>>
TokensOf == <<0, 1, 2>>
AgreeOf == <<0, -1, 1>>

Corpus == {One, Three, NoDoc}
Written == {OneFloat, Word, Spot, Date}

QueryStage == /\ QueryNext
              /\ UNCHANGED <<stage, doorVars, askVars, edgeVars, scrollVars, shared, annVars>>

ScrollStage == /\ ScrollNext
               /\ UNCHANGED <<stage, doorVars, askVars, edgeVars, queryVars, shared, annVars>>

----------------------------------------------------------------------------
(* graph: a quantized corpus that re-inserts an id, and a plain one that    *)
(* overflows the links of its hub.                                          *)

Quantized == << <<"a", <<0, 0>>>>, <<"b", <<3, 1>>>>, <<"c", <<1, 5>>>>, <<"a", <<6, 2>>>>,
                <<"d", <<2, 2>>>> >>
Plain == << <<"a", <<5, 5>>>>, <<"b", <<5, 8>>>>, <<"c", <<9, 5>>>>, <<"d", <<5, 1>>>>,
            <<"e", <<0, 5>>>> >>

GraphSetups ==
    {[quantizer |-> "pq", writes |-> Quantized], [quantizer |-> "none", writes |-> Plain]}
GraphProbes == { <<0, 1>>, <<5, 6>> }

GraphStage == /\ AnnNext
              /\ UNCHANGED <<stage, doorVars, askVars, edgeVars, scrollVars, queryVars, shared>>

----------------------------------------------------------------------------
ServerDown == [up |-> FALSE, native |-> 1]

PathInit ==
    /\ stage \in Stages
    /\ FlowInit
    /\ stage = "door" => Init
    /\ stage = "distil" => Engine!RrdInit
    /\ stage # "distil" => /\ Blank(s1) /\ Blank(s2) /\ Blank(s3) /\ Blank(s4)
                          /\ Blank(s5) /\ Blank(s6) /\ Blank(s7)
    /\ stage # "door" => DoorShut
    /\ EdgeInit /\ (stage # "models" => server = ServerDown)
    /\ ScrollInit /\ (stage # "scroll" => stored = {})
    /\ QueryInit /\ (stage # "query" => docs = [d \in Ids |-> NoDoc] /\ ~indexed)
    /\ stage = "graph" => AnnInit
    /\ stage # "graph" => script = <<>> /\ quantizer = "none" /\ EmptyGraph

PathNext ==
    \/ stage = "door" /\ DoorStage
    \/ stage = "ask" /\ AskStage
    \/ stage = "distil" /\ DistilStage
    \/ stage = "models" /\ ModelsStage
    \/ stage = "query" /\ QueryStage
    \/ stage = "scroll" /\ ScrollStage
    \/ stage = "graph" /\ GraphStage

PathSpec == PathInit /\ [][PathNext]_pathVars
----------------------------------------------------------------------------
(* The property of distil; those of the other stages are their modules'     *)
(* own.                                                                     *)

\* baseline.rs: decay, rescaling, snapshots and restores never let the global distribution and
\* the contexts' weigh an observation differently.
MassAlwaysConserved == MassConserved /\ (stage = "distil" => Engine!MassConserved)

----------------------------------------------------------------------------
(* What comments say and the code does not do: no run lists these, nor      *)
(* AskFlow's TurnReadable and HonestScorecard and QueryPlane's              *)
(* ScopedPageFull, and each is violated when it is added to the             *)
(* configuration.                                                           *)

\* baseline.rs:22 "newer observations simply weigh more": a restored snapshot keeps its weights
\* while the unit starts again at 1, so the observations of before outweigh those after.
RecencyAlwaysWeighted == stage = "distil" => Engine!RecencyWeighted
=============================================================================
