----------------------------- MODULE QueryPlane -----------------------------
(***************************************************************************)
(* One typed query (connxism/query.rs, strategies.rs, the searches of      *)
(* store.rs, the fusion of index.rs) while documents are written, replaced *)
(* and removed.  A query is a chain of awaits, each of which reads the     *)
(* estate anew: the collection, the ids of the filter, the search, the     *)
(* sparse and MaxSim rankings, the payloads.  EstateTx shows that the      *)
(* index rows are exact after every commit, so they are read here straight *)
(* from the documents (Filters!Rows).  Scores under the query's vector,    *)
(* text, sparse vector and tokens are given per id.                        *)
(***************************************************************************)
EXTENDS Filters, KeyOrder

CONSTANTS
    Ids,            \* document ids, integers: their order is the key order
    Values,         \* values a document's field is given by a write
    Stored,         \* what the estate holds per id at the start: values, Bare, NoDoc
    Members,        \* ids whose documents belong to the collection
    Queries,        \* requests
    Dense, Lexical, Sparse, TokenScores, Named, \* id -> score; 0 in all but the first: no row
    Agree,          \* id -> how many context pairs it agrees with
    STRATEGY_OVERFETCH,
    FILTER_OVERFETCH, EXACT_SCOPE_MAX, MAX_PREFETCH_DEPTH, MaxTopK,
    RRF_K, FusionScale,             \* FusionScale: scores are integers in 1/FusionScale
    MaxWrites       \* bound

ASSUME ValuesAssumption == \A v \in Values \cup Stored : IsValue(v) \/ v \in {Bare, NoDoc}
ASSUME IdsAssumption == Ids \subseteq Int /\ IsFiniteSet(Ids)
ASSUME ScoresAssumption ==
    /\ \A ranked \in {Dense, Lexical, Sparse, TokenScores, Named, Agree} : ranked \in [Ids -> Int]
    /\ FusionScale \in Nat /\ RRF_K \in Nat
    /\ STRATEGY_OVERFETCH \in Nat \ {0} /\ FILTER_OVERFETCH \in Nat \ {0}

VARIABLES
    docs,       \* id -> value of its field, Bare, or NoDoc
    indexed,    \* the field has a payload index
    writes,
    query       \* the query in progress

queryVars == <<docs, indexed, writes, query>>

NoQuery == [at |-> "idle"]
Lean == Value("lean", <<0>>, 0)     \* a candidate that carries no payload yet

Cand(id, score, meta) == [id |-> id, score |-> score, meta |-> meta]
IdList(cands) == [i \in DOMAIN cands |-> cands[i].id]
Take(s, n) == SubSeq(s, 1, Min({n, Len(s)}))
Drop(s, n) == SubSeq(s, n + 1, Len(s))

\* Descending score, ties by id.
Ranking(S, score) ==
    LET before == [d \in S |-> {e \in S : score[e] > score[d] \/ (score[e] = score[d] /\ e < d)}]
        ids == Arranged(S, before)
    IN  [i \in DOMAIN ids |-> Cand(ids[i], score[ids[i]], Lean)]

----------------------------------------------------------------------------
(* Fusion.                                                                 *)

\* Where a list, which names an id at most once, has it.
Listed(list, d) == \E i \in DOMAIN list : list[i].id = d
PlaceIn(list, d) == CHOOSE i \in DOMAIN list : list[i].id = d

\* Two lists are fused at a time; one of weight 0 has no say.
Speaks(lists, weights, l, d) == weights[l] # 0 /\ Listed(lists[l], d)
Voted(lists, weights) == {d \in Ids : \E l \in {1, 2} : Speaks(lists, weights, l, d)}

\* Each list votes 1 / (k + rank) for its members, scaled by its weight.
reciprocal_rank_fusion_weighted(lists, weights) ==
    LET vote(l, d) == IF Speaks(lists, weights, l, d)
                      THEN weights[l] * (FusionScale \div (RRF_K + PlaceIn(lists[l], d))) ELSE 0
    IN  Ranking(Voted(lists, weights), [d \in Ids |-> vote(1, d) + vote(2, d)])

\* Each list's scores are stretched over [0, 1]; a list without spread counts 1 throughout.
distribution_score_fusion(lists, weights) ==
    LET scores(l) == {lists[l][i].score : i \in DOMAIN lists[l]}
        span(l) == Max(scores(l)) - Min(scores(l))
        norm(l, s) == IF span(l) = 0 THEN FusionScale
                      ELSE (FusionScale * (s - Min(scores(l)))) \div span(l)
        vote(l, d) == IF Speaks(lists, weights, l, d)
                      THEN weights[l] * norm(l, lists[l][PlaceIn(lists[l], d)].score) ELSE 0
    IN  Ranking(Voted(lists, weights), [d \in Ids |-> vote(1, d) + vote(2, d)])

fuse(q, lists) ==
    IF q.mode = "rrf" THEN reciprocal_rank_fusion_weighted(lists, q.fusion)
    ELSE distribution_score_fusion(lists, q.fusion)

----------------------------------------------------------------------------
(* The searches.  A payload is fetched where the code fetches it.          *)

Hydrated(c) == [c EXCEPT !.meta = docs[c.id]]
Existing(cands) == KeptAt(cands, {i \in DOMAIN cands : docs[cands[i].id] # NoDoc})
Fetched(cands) == [i \in DOMAIN Existing(cands) |-> Hydrated(Existing(cands)[i])]

\* Payloads still missing are fetched, of the documents that are still there.
Refilled(cands, missing) ==
    [i \in DOMAIN cands |-> IF cands[i].meta \in missing /\ docs[cands[i].id] # NoDoc
                            THEN Hydrated(cands[i]) ELSE cands[i]]

\* Without a query vector every cosine is 0.
dense_search(q, S) == Ranking(S \cap Live(docs), IF q.vector THEN Dense ELSE [d \in Ids |-> 0])

lexical_search(q, S) ==
    IF q.text THEN Ranking({d \in S \cap Live(docs) : Lexical[d] > 0}, Lexical) ELSE <<>>

\* Exact inside the scope; fused one to one, whatever weights the query carries.
scoped_search(q, scope, k) ==
    Fetched(Take(reciprocal_rank_fusion_weighted(
                    <<dense_search(q, scope), lexical_search(q, scope)>>, <<1, 1>>), k))

hybrid_weighted(q, k) ==
    Fetched(Take(fuse(q, <<Take(dense_search(q, Ids), 4 * k), Take(lexical_search(q, Ids), 4 * k)>>), k))

unscoped(q, k) == IF q.vector THEN hybrid_weighted(q, k) ELSE Take(lexical_search(q, Ids), k)

named_search(k) == Take(Ranking({d \in Live(docs) : Named[d] > 0}, Named), k)
sparse_search(k) == Take(Ranking({d \in Live(docs) : Sparse[d] > 0}, Sparse), k)

\* In a named space: exact cosine over its rows, fused with the text's ranking if there is one.
named_hybrid(q, k) ==
    LET dense == named_search(k)
        lexical == Take(lexical_search(q, Ids), k)
    IN  IF lexical = <<>> THEN Fetched(dense) ELSE Fetched(Take(fuse(q, <<dense, lexical>>), k))

\* The graph walk finds some of the allowed documents; what the lexical ranking adds is fused
\* in, the winners are scored and sorted by exact cosine again.  A small corpus has no graph.
filter_aware_search(q, allow, k) ==
    {scoped_search(q, allow, k)} \cup
    {LET found == Take(dense_search(q, S), k)
         lexical == Take(lexical_search(q, Ids), 4 * k)
         allowed == KeptAt(lexical, {i \in DOMAIN lexical : lexical[i].id \in allow})
         fused == IF allowed = <<>> THEN found ELSE fuse(q, <<found, allowed>>)
     IN  Fetched(Ranking(ToSet(IdList(Take(fused, k))), Dense)) : S \in SUBSET allow}

\* Documents with token vectors first, by MaxSim; the others after them as they were.
maxsim_rescore(cands) ==
    LET with == {d \in Ids : Listed(cands, d) /\ TokenScores[d] > 0}
        ranked == Ranking(with, TokenScores)
        metaOf(d) == cands[PlaceIn(cands, d)].meta
    IN  [i \in DOMAIN ranked |-> [ranked[i] EXCEPT !.meta = metaOf(ranked[i].id)]]
            \o KeptAt(cands, {i \in DOMAIN cands : cands[i].id \notin with})

----------------------------------------------------------------------------
(* One query.                                                              *)

effective_filter(q) ==
    [q.filter EXCEPT !.must = @ \cup {[op |-> "eq", value |-> v] : v \in q.legacy}]

\* The strategies that start from examples take no filter and no scope.
IsQuery(q) ==
    /\ DOMAIN q = DOMAIN DefaultQuery /\ IsFilter(effective_filter(q))
    /\ q.kind \in {"query", "grouped", "recommend", "discover"}
    /\ \A n \in {q.top_k, q.offset, q.groups, q.group_size} : n \in Nat
    /\ q.scope = <<>> \/ (DOMAIN q.scope = {1} /\ q.scope[1] \subseteq Ids)
    /\ q.prefetch \in Seq(Nat) /\ q.fusion \in Int \X Int
    /\ q.positive \cup q.negative \subseteq Ids
    /\ q.kind \in {"recommend", "discover"} =>
          effective_filter(q) = NoFilter /\ q.scope = <<>> /\ ~q.collection

ASSUME QueriesAssumption == \A q \in Queries : IsQuery(q)

\* Mutant: the offset is not ranked past.
WantForgetsOffset(q) == q.top_k

\* How deep to rank: a page past an offset needs the offset too.
Want(q) == q.top_k + q.offset

Fetch(q) ==
    IF effective_filter(q) = NoFilter /\ ~q.multi THEN Want(q) ELSE Want(q) * FILTER_OVERFETCH

Unlimited == Ids
CollectionMembers == Members \cap Live(docs)

QueryInit ==
    /\ docs \in [Ids -> Stored]
    /\ indexed \in BOOLEAN
    /\ writes = 0
    /\ query = NoQuery

\* query, query_grouped, recommend, discover.  A grouped query ranks deeper than it returns.
\* query checks the quota, then the nesting of prefetch stages.
Submit(r) ==
    /\ query = NoQuery
    /\ LET q == IF r.kind # "grouped" THEN r
                ELSE [r EXCEPT !.top_k = r.groups * r.group_size * STRATEGY_OVERFETCH]
           typed == q.kind \in {"query", "grouped"}
       IN  query' =
                [at |-> IF typed /\ (q.top_k > MaxTopK \/ Len(q.prefetch) > MAX_PREFETCH_DEPTH)
                        THEN "refused"
                        ELSE IF q.top_k = 0 THEN "done"
                        ELSE IF typed THEN "prefetch" ELSE q.kind,
                 q |-> q, scope |-> q.scope, allowed |-> Unlimited, prefiltered |-> FALSE,
                 cands |-> <<>>, quiet |-> TRUE, seen |-> [d \in Ids |-> {docs[d]}]]
    /\ UNCHANGED <<docs, indexed, writes>>

\* A step sets the parts of the query that it names.
Goes(next) ==
    query' = [part \in DOMAIN query |-> IF part \in DOMAIN next THEN next[part] ELSE query[part]]
Quietly == UNCHANGED <<docs, indexed, writes>>

\* q.prefetch is the limits of stages nested in one another, the outermost first: each stage
\* ranks what the one inside it gathered.
Gathered(q) ==
    LET depth == Len(q.prefetch)
        stage[i \in 0..depth] ==
            IF i = 0 THEN Ids
            ELSE ToSet(IdList(Take(dense_search(q, stage[i - 1]), q.prefetch[depth - i + 1])))
    IN  stage[depth]

\* What the stages gather becomes the scope, inside an explicit one.
Prefetch ==
    /\ query.at = "prefetch"
    /\ LET q == query.q
           gathered == Gathered(q)
       IN  Goes([at |-> "scope",
                 scope |-> IF q.prefetch = <<>> THEN q.scope
                           ELSE IF q.scope = <<>> THEN <<gathered>>
                           ELSE <<gathered \cap q.scope[1]>>])
    /\ Quietly

\* A collection, found through its alias, narrows the scope to its members of the moment.
ResolveScope ==
    /\ query.at = "scope"
    /\ LET scope == IF ~query.q.collection THEN query.scope
                    ELSE IF query.scope = <<>> THEN <<CollectionMembers>>
                    ELSE <<query.scope[1] \cap CollectionMembers>>
       IN  Goes([at |-> "ids", scope |-> scope,
                 allowed |-> IF scope = <<>> THEN Unlimited ELSE scope[1]])
    /\ Quietly

\* Only without a scope is a filter resolved from the index.
ResolveFilter ==
    /\ query.at = "ids"
    /\ LET q == query.q
           resolved == query.scope = <<>> /\ Resolvable(effective_filter(q), indexed)
       IN  Goes([at |-> "search", prefiltered |-> resolved,
                 allowed |-> IF resolved THEN ids_where(effective_filter(q), docs) ELSE query.allowed])
    /\ Quietly

Search ==
    /\ query.at = "search"
    /\ LET q == query.q
           ids == query.allowed
       IN  \E found \in
              IF query.scope # <<>> THEN {scoped_search(q, ids, Fetch(q))}
              ELSE IF effective_filter(q) = NoFilter /\ q.using /\ q.vector THEN {named_hybrid(q, Fetch(q))}
              ELSE IF ~query.prefiltered THEN {unscoped(q, Fetch(q))}
              ELSE IF Cardinality(ids) <= EXACT_SCOPE_MAX THEN {scoped_search(q, ids, Want(q))}
              ELSE filter_aware_search(q, ids, Want(q)) :
                 Goes([at |-> "sparse", cands |-> found])
    /\ Quietly

\* Mutant: the sparse ranking is fused without the check that its hits are allowed.
FuseSparseAnywhere ==
    /\ query.at = "sparse"
    /\ LET q == query.q
           sparse == sparse_search(Fetch(q))
       IN  Goes([at |-> "multi",
                 cands |-> IF ~q.sparse \/ sparse = <<>> THEN query.cands
                           ELSE Fetched(Take(fuse(q, <<query.cands, sparse>>), Fetch(q)))])
    /\ Quietly

FuseSparse ==
    /\ query.at = "sparse"
    /\ LET q == query.q
           hits == sparse_search(Fetch(q))
           sparse == KeptAt(hits, {i \in DOMAIN hits : hits[i].id \in query.allowed})
       IN  Goes([at |-> "multi",
                 cands |-> IF ~q.sparse \/ sparse = <<>> THEN query.cands
                           ELSE Fetched(Take(fuse(q, <<query.cands, sparse>>), Fetch(q)))])
    /\ Quietly

Rescore ==
    /\ query.at = "multi"
    /\ Goes([at |-> "filter",
             cands |-> IF query.q.multi THEN Refilled(maxsim_rescore(query.cands), {Lean})
                       ELSE query.cands])
    /\ Quietly

\* What the index did not settle is settled on the payloads, fetched now where missing.
PostFilter ==
    /\ query.at = "filter"
    /\ LET filter == effective_filter(query.q)
           full == Refilled(query.cands, {Lean, Bare})
           meta(c) == IF c.meta = Lean THEN Bare ELSE c.meta
       IN  Goes([at |-> "page",
                 cands |-> IF filter = NoFilter \/ query.prefiltered THEN query.cands
                           ELSE KeptAt(full, {i \in DOMAIN full : filter_matches(filter, meta(full[i]))})])
    /\ Quietly

Page ==
    /\ query.at = "page"
    /\ LET q == query.q
           above == KeptAt(query.cands, {i \in DOMAIN query.cands :
                                           \A t \in q.threshold : query.cands[i].score >= t})
       IN  Goes([at |-> IF q.kind = "grouped" THEN "group" ELSE "done",
                 cands |-> Take(Drop(above, q.offset), q.top_k)])
    /\ Quietly

\* Hits without the field are dropped; the first groups in order of their best hit, each cut
\* to its size, follow one another.
Grouped(full, q) ==
    LET keyed == {i \in DOMAIN full : full[i].meta \notin {Lean, Bare}}
        bucket(i) == {j \in keyed : Text(full[j].meta) = Text(full[i].meta)}
        best == [i \in keyed |-> Min(bucket(i))]
        earlier(i) == {best[j] : j \in {k \in keyed : best[k] < best[i]}}
        kept == {i \in keyed : /\ Cardinality(earlier(i)) < q.groups
                               /\ Cardinality({j \in bucket(i) : j < i}) < q.group_size}
        before == [i \in kept |-> {j \in kept : best[j] < best[i] \/ (best[j] = best[i] /\ j < i)}]
        order == Arranged(kept, before)
    IN  [n \in DOMAIN order |-> full[order[n]]]

Group ==
    /\ query.at = "group"
    /\ Goes([at |-> "done", cands |-> Grouped(Refilled(query.cands, {Lean, Bare}), query.q)])
    /\ Quietly

\* recommend: the examples' vectors make the target; without one positive it is an error.
Examples ==
    /\ query.at = "recommend"
    /\ Goes([at |-> IF query.q.positive \cap Live(docs) = {} THEN "refused" ELSE "near"])
    /\ Quietly

Recommend ==
    /\ query.at = "near"
    /\ LET q == query.q
           exclude == q.positive \cup q.negative
           hits == Fetched(Take(dense_search(q, Ids), q.top_k + Cardinality(exclude)))
           others == KeptAt(hits, {i \in DOMAIN hits : hits[i].id \notin exclude})
       IN  Goes([at |-> "done", cands |-> Take(others, q.top_k)])
    /\ Quietly

\* discover: dense hits, then sorted by the context pairs they agree with; a hit whose vector
\* is gone by then comes last.
Discover ==
    /\ query.at = "discover"
    /\ Goes([at |-> "agree", cands |-> Fetched(Take(dense_search(query.q, Ids),
                                                  query.q.top_k * STRATEGY_OVERFETCH))])
    /\ Quietly

ByAgreement(cands) ==
    LET found == ToSet(cands)
        vote(c) == IF docs[c.id] = NoDoc THEN -1000 ELSE Agree[c.id]
        before == [b \in found |->
                     {a \in found : \/ vote(a) > vote(b)
                                    \/ vote(a) = vote(b) /\ a.score > b.score
                                    \/ vote(a) = vote(b) /\ a.score = b.score /\ a.id < b.id}]
    IN  Arranged(found, before)

Contextualise ==
    /\ query.at = "agree"
    /\ Goes([at |-> "done", cands |-> Take(ByAgreement(query.cands), query.q.top_k)])
    /\ Quietly

\* The caller takes the page.
Deliver ==
    /\ query.at \in {"done", "refused"}
    /\ query' = NoQuery
    /\ Quietly

\* A commit that replaces, creates or removes one document.
Write(d, v) ==
    /\ writes < MaxWrites
    /\ docs[d] # v
    /\ docs' = [docs EXCEPT ![d] = v]
    /\ writes' = writes + 1
    /\ query' = IF query.at = "idle" THEN query
                ELSE [query EXCEPT !.quiet = FALSE, !.seen[d] = @ \cup {v}]
    /\ UNCHANGED indexed

QueryStep ==
    \/ \E q \in Queries : Submit(q)
    \/ Prefetch \/ ResolveScope \/ ResolveFilter \/ Search \/ FuseSparse \/ Rescore
    \/ PostFilter \/ Page \/ Group \/ Examples \/ Recommend \/ Discover \/ Contextualise
    \/ Deliver

QueryNext ==
    \/ QueryStep
    \/ \E d \in Ids, v \in Values \cup {Bare, NoDoc} : Write(d, v)

QuerySpec == QueryInit /\ [][QueryNext]_queryVars

----------------------------------------------------------------------------
Canon(v) == [v EXCEPT !.spelling = 0]

CanonCondition(c) ==
    IF c.op = "eq" THEN [c EXCEPT !.value = Canon(@)]
    ELSE IF c.op = "any" THEN [c EXCEPT !.values = {Canon(v) : v \in @}] ELSE c

CanonFilter(f) == [part \in DOMAIN f |-> {CanonCondition(c) : c \in f[part]}]

\* filter.rs: "the exact matching id-set is resolved from sorted index scans".  For every
\* filter asked and every estate reached, the scans give the documents whose metadata match,
\* up to spelling, and a facet read from the rows counts what a scan of the documents counts.
IndexAgrees ==
    /\ \A q \in Queries :
          Resolvable(effective_filter(q), indexed) =>
              ids_where(effective_filter(q), docs)
                  = Matching(CanonFilter(effective_filter(q)), [d \in Ids |-> Canon(docs[d])])
    /\ facet(docs, indexed) = facet_scan(docs)

\* The index compares values up to spelling, the post-filter as JSON.
MatchesEitherWay(f, v) == filter_matches(f, v) \/ filter_matches(CanonFilter(f), Canon(v))

\* Whatever was written while the query ran, and whichever strategies and rankings were
\* fused, a document of the page is listed once, was inside the scope and the collection and
\* matched the filter at some moment of the query (or was removed in the course of it: the
\* post-filter then reads empty metadata, and a filter of must_not alone lets it through).
PageWasTrue ==
    query.at = "done" =>
        /\ IsInjective(IdList(query.cands))
        /\ \A c \in ToSet(query.cands) :
              /\ \E v \in query.seen[c.id] :
                    v = NoDoc \/ MatchesEitherWay(effective_filter(query.q), v)
              /\ query.q.scope # <<>> => c.id \in query.q.scope[1]
              /\ query.q.collection => c.id \in Members

Wanted(q) ==
    {d \in Matching(CanonFilter(effective_filter(q)), [e \in Ids |-> Canon(docs[e])]) :
        /\ q.scope # <<>> => d \in q.scope[1]
        /\ q.collection => d \in Members}

Full(q, cands) == Len(cands) = Min({q.top_k, Max({0, Cardinality(Wanted(q)) - q.offset})})

AskedQuietly ==
    /\ query.at = "done" /\ query.quiet /\ query.q.kind = "query"
    /\ Resolvable(effective_filter(query.q), indexed)
    /\ query.q.prefetch = <<>> /\ query.q.threshold = {} /\ query.q.fusion[1] # 0

\* query.rs: "Filtered ANN must return the filtered nearest neighbours, not the global ones
\* that survive a filter".  Undisturbed, an indexed filter of exact size fills its page, at
\* every offset, if no threshold cuts it and the nearest have a say in the fusion; recommend
\* excludes its examples and still fills its page.
PageFull ==
    /\ AskedQuietly /\ query.scope = <<>> /\ Cardinality(query.allowed) <= EXACT_SCOPE_MAX =>
           Full(query.q, query.cands)
    /\ query.at = "done" /\ query.quiet /\ query.q.kind = "recommend" =>
           Len(query.cands) = Min({query.q.top_k,
               Cardinality(Live(docs) \ (query.q.positive \cup query.q.negative))})

\* query.rs:9: post-filtering happens "only when the filter cannot be resolved from indexes
\* at all": an indexed filter fills its page inside a scope or a collection too.
ScopedPageFull == AskedQuietly => Full(query.q, query.cands)

=============================================================================
