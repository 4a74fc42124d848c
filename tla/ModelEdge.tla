----------------------------- MODULE ModelEdge -----------------------------
(***************************************************************************)
(* The models behind the flow: the registry that turns a configured name   *)
(* into a backend (crates/model-registry), the backend that talks to a     *)
(* local inference server in chunks over HTTP (embedder/openai.rs,         *)
(* reranker/http.rs), the in-process candle batch, and the signal path     *)
(* that puts a bus between the two (rro-engine/signal_model.rs).  The      *)
(* server answers a chunk in any order, with a row too few or twice, with  *)
(* an error or too late.  A vector is [text, task, dim]: what it is the embedding of.  *)
(***************************************************************************)
EXTENDS Integers, Sequences, FiniteSets, SequencesExt, KeyOrder

CONSTANTS
    Texts,          \* texts that are embedded or reranked; each its own vector and score
    MaxTexts,       \* bound: texts of one call
    Batch,          \* texts per request
    Dims,           \* dimensions a server can have natively, or be asked for
    Features,       \* cargo features this binary was built with
    Score,          \* text -> relevance the cross-encoder gives it
    Tokens, MaxLen  \* text -> number of its tokens, the last one EOS; the model's window

ASSUME SizesAssumption ==
    /\ MaxTexts \in Nat /\ Batch \in Nat \ {0} /\ MaxLen \in Nat \ {0}
    /\ Dims \subseteq Nat \ {0}
    /\ Score \in [Texts -> Int] /\ Tokens \in [Texts -> Nat \ {0}]

VARIABLES
    server,     \* [up, native]
    backend,    \* the built embedder: [kind, dim], or NotBuilt
    call,       \* the call in progress or just ended
    reply       \* what the server sent for the chunk in flight, or NoReply

edgeVars == <<server, backend, call, reply>>

NotBuilt == [kind |-> "none", dim |-> 0]
NoReply == [status |-> "none", rows |-> <<>>]
NoCall == [at |-> "idle"]

UpTo(seq, n) == SubSeq(seq, 1, IF n < Len(seq) THEN n ELSE Len(seq))

----------------------------------------------------------------------------
(* The registry.                                                           *)

EmbedderKindOf == [deterministic |-> "deterministic", qwen |-> "candle-qwen",
                   llama |-> "llamacpp", vllm |-> "vllm", onnx |-> "onnx", remote |-> "remote",
                   unset |-> "deterministic"]
Names == DOMAIN EmbedderKindOf \cup {"typo"}

Served(kind) == kind \in {"llamacpp", "vllm"}

EdgeInit ==
    /\ server \in [up : BOOLEAN, native : Dims]
    /\ backend = NotBuilt
    /\ call = NoCall
    /\ reply = NoReply

\* build_embedder and, for a served kind, OpenAiEmbedder::connect with its dimension probe.
\* Whatever is missing is an error: nothing falls back to the deterministic embedder.
build_embedder(name, weights, truncate) ==
    /\ backend = NotBuilt
    /\ name \in DOMAIN EmbedderKindOf
    /\ LET kind == EmbedderKindOf[name]
           native == IF kind = "deterministic" THEN truncate ELSE server.native
       IN  /\ \/ kind = "deterministic"
              \/ kind = "candle-qwen" /\ "candle" \in Features /\ weights
              \/ Served(kind) /\ server.up
           /\ truncate \in 1..native
           /\ backend' = [kind |-> kind, dim |-> truncate]
    /\ UNCHANGED <<server, call, reply>>

----------------------------------------------------------------------------
(* One call: encode or rerank, chunk by chunk.                              *)

NewCall(op, task, texts, via) ==
    [at |-> "sending", op |-> op, task |-> task, via |-> via, texts |-> texts, done |-> <<>>,
     topK |-> Len(texts)]

\* The signal path names the mode in the message and the model node reads it back; an
\* unknown mode would embed plainly.
embed_mode(tag) == IF tag \in {"documents", "queries"} THEN tag ELSE "plain"

\* embed_documents / embed_queries / rerank on the built backend.
Begin(op, mode, texts, via) ==
    /\ backend # NotBuilt /\ call.at = "idle"
    /\ op = "rerank" => Served(backend.kind)
    /\ LET seen == IF via = "signal" THEN embed_mode(mode) ELSE mode
           task == IF seen = "queries" THEN "instructed" ELSE "bare"
       IN  call' = NewCall(op, task, texts, via)
    /\ UNCHANGED <<server, backend, reply>>

Chunk == UpTo(SubSeq(call.texts, Len(call.done) + 1, Len(call.texts)), Batch)

Row(i, t, dim) == [index |-> i, text |-> t, task |-> call.task, dim |-> dim, score |-> Score[t]]

\* What the server can send back for a chunk: its rows in any order, each with its index, one
\* row too few, or one row twice.
Answers(chunk) ==
    LET rows == {Row(i, chunk[i], server.native) : i \in DOMAIN chunk}
        whole == {s \in [DOMAIN chunk -> rows] : \A r \in rows : \E p \in DOMAIN s : s[p] = r}
    IN  whole \cup {Tail(s) : s \in whole} \cup {Append(s, r) : s \in whole, r \in rows}

\* The candle batch.  Token k of text t is <<t, k>>; a row too long keeps its tail, and rows
\* are padded on the left to the longest.
KeepTail(v) == IF Len(v) > MaxLen THEN SubSeq(v, Len(v) - MaxLen + 1, Len(v)) ELSE v

Pad == <<"pad", 0>>

Padded(rows) ==
    LET longest == CHOOSE n \in 1..MaxLen : /\ \A i \in DOMAIN rows : Len(rows[i]) <= n
                                            /\ \E i \in DOMAIN rows : Len(rows[i]) = n
    IN  [i \in DOMAIN rows |-> [k \in 1..(longest - Len(rows[i])) |-> Pad] \o rows[i]]

\* Which keys a position attends to: none after itself, and a real position no padding; a
\* padded position stays causal, so that no row of the softmax is empty.
left_pad_mask(row, i) == {j \in 1..i : row[i] = Pad \/ row[j] # Pad}

\* The last column: the text's embedding if it is the text's EOS, saw nothing but the text,
\* and no position of the batch was NaN.
Pooled(row) ==
    LET eos == Last(row)
        seen == {row[j] : j \in left_pad_mask(row, Len(row))}
    IN  IF /\ eos # Pad /\ eos[2] = Tokens[eos[1]]
           /\ \A tok \in seen : tok[1] = eos[1]
           /\ \A i \in DOMAIN row : left_pad_mask(row, i) # {}
        THEN eos[1] ELSE "noise"

forward_chunk(chunk) ==
    LET ids == Padded([i \in DOMAIN chunk |->
                          KeepTail([k \in 1..Tokens[chunk[i]] |-> <<chunk[i], k>>])])
    IN  [i \in DOMAIN chunk |-> [Row(i, chunk[i], backend.dim) EXCEPT !.text = Pooled(ids[i])]]

\* The deterministic embedder hashes each text by itself.
embed_text(chunk) == [i \in DOMAIN chunk |-> Row(i, chunk[i], backend.dim)]

InProcess == ~Served(backend.kind)

\* The request of one chunk.  In process there is no wire; a server that is down, or answers
\* after the timeout, is an error.
Request ==
    /\ call.at = "sending" /\ reply = NoReply
    /\ \/ \E rows \in CASE backend.kind = "deterministic" -> {embed_text(Chunk)}
                        [] backend.kind = "candle-qwen" -> {forward_chunk(Chunk)}
                        [] OTHER -> Answers(Chunk) :
             /\ InProcess \/ server.up
             /\ reply' = [status |-> "200", rows |-> rows]
       \/ /\ ~InProcess
          /\ reply' = [status |-> "failed", rows |-> <<>>]
    /\ UNCHANGED <<server, backend, call>>

\* Rows back in request order by their index, their number checked.
parse_embeddings(rows, chunk) ==
    IF Len(rows) # Len(chunk) THEN <<>>
    ELSE SortedBy(rows, [p \in DOMAIN rows |-> rows[p].index])

\* Each score is written to its document by index, the last one if there are several; no
\* document may be left without one.
parse_rerank(rows, chunk) ==
    LET of(i) == {p \in DOMAIN rows : rows[p].index = i}
        last(i) == CHOOSE p \in of(i) : \A q \in of(i) : q <= p
    IN  IF \E i \in DOMAIN chunk : of(i) = {} THEN <<>>
        ELSE [i \in DOMAIN chunk |-> [rows[last(i)] EXCEPT !.text = chunk[i]]]

\* Mutant: rows are taken in their order of arrival.
ParseRowsAsTheyCome(rows, chunk) == IF Len(rows) # Len(chunk) THEN <<>> ELSE rows

parse(rows, chunk) ==
    IF call.op = "rerank" THEN parse_rerank(rows, chunk) ELSE parse_embeddings(rows, chunk)

\* A vector is cut to the configured dimension, then normalised.
Cut(row) == [row EXCEPT !.dim = IF row.dim < backend.dim THEN row.dim ELSE backend.dim]

\* Descending relevance, ties in the order they came.
Ranked(rows) == SortedBy(rows, [p \in DOMAIN rows |-> -rows[p].score])

Receive ==
    /\ call.at = "sending" /\ reply # NoReply
    /\ LET rows == parse(reply.rows, Chunk)
           done == call.done \o [i \in DOMAIN rows |-> Cut(rows[i])]
       IN  call' = IF reply.status # "200" \/ (rows = <<>> /\ Chunk # <<>>)
                   THEN [call EXCEPT !.at = "failed", !.done = <<>>]
                   ELSE IF Len(done) < Len(call.texts) THEN [call EXCEPT !.done = done]
                   ELSE [call EXCEPT !.at = "answered",
                                     !.done = IF call.op = "rerank"
                                              THEN UpTo(Ranked(done), call.topK) ELSE done]
    /\ reply' = NoReply
    /\ UNCHANGED <<server, backend>>

\* The caller takes the answer or the error.
End ==
    /\ call.at \in {"answered", "failed"}
    /\ call' = NoCall
    /\ UNCHANGED <<server, backend, reply>>

\* The inference server is stopped or started; it keeps its model.
ServerToggle ==
    /\ server' = [server EXCEPT !.up = ~@]
    /\ UNCHANGED <<backend, call, reply>>

Lists == UNION {[1..n -> Texts] : n \in 1..MaxTexts}

EdgeNext ==
    \/ \E name \in Names, weights \in BOOLEAN, d \in Dims : build_embedder(name, weights, d)
    \/ \E texts \in Lists, via \in {"direct", "signal"} :
          \/ \E mode \in {"documents", "queries", "plain"} : Begin("embed", mode, texts, via)
          \/ Begin("rerank", "plain", texts, via)
    \/ Request \/ Receive \/ End \/ ServerToggle

EdgeSpec == EdgeInit /\ [][EdgeNext]_edgeVars

----------------------------------------------------------------------------
\* embedder/openai.rs: "sort rather than trust arrival order, or vectors silently attach to
\* the wrong text".  An answered embed call has, for every text and over all its chunks, that
\* text's own vector, of the advertised dimension, instructed exactly for a query, whichever
\* path carried it; an answered rerank holds every candidate with its own score, best first.
AnswersBelong ==
    call.at = "answered" =>
        /\ call.op = "embed" =>
              /\ Len(call.done) = Len(call.texts)
              /\ \A i \in DOMAIN call.texts :
                    /\ call.done[i].text = call.texts[i]
                    /\ call.done[i].task = call.task
                    /\ call.done[i].dim = backend.dim
        /\ call.op = "rerank" =>
              /\ \A i \in DOMAIN call.done : call.done[i].score = Score[call.done[i].text]
              /\ \A i, j \in DOMAIN call.done :
                    i < j => call.done[i].score >= call.done[j].score
              /\ \A t \in Texts : Cardinality({i \in DOMAIN call.texts : call.texts[i] = t})
                                = Cardinality({i \in DOMAIN call.done : call.done[i].text = t})

=============================================================================
