------------------------------ MODULE AnnGraph ------------------------------
(***************************************************************************)
(* The layered small-world graph of crates/recall/src/ann.rs: how it is    *)
(* linked, pruned and searched, and the store its vectors live in (a paged *)
(* base read from a file, a tail in memory, a warm-up of full vectors      *)
(* while a product quantizer has no codebook yet).  The durable cache of   *)
(* the graph is GraphCache; when writes reach it, GraphApply.              *)
(*                                                                         *)
(* A vector is a point of a grid and a distance is squared: on unit        *)
(* vectors 1 - dot orders pairs the same way.  Nodes count from 1 and      *)
(* layers from 0.  Ties, which the heaps of the code break in no           *)
(* particular order, are broken by node.                                   *)
(***************************************************************************)
EXTENDS Integers, SequencesExt, KeyOrder

CONSTANTS
    Setups,         \* [quantizer ("none", "sq8", "pq"), writes (<<id, vector>>, in order)]
    Probes,         \* vectors searched for
    M,              \* links a node asks for per layer
    EfConstruction, \* beam width while building
    EfSearch,       \* least beam width of a search
    PqTrainSize,    \* vectors a codebook is trained on
    PerPage,        \* vectors per page of the base
    MaxLevel,       \* bound on levels (16 in the code)
    MaxRemoves,     \* bound on removals
    MaxReopens      \* bound on reopenings

ASSUME AnnSizes ==
    /\ M \in Nat /\ EfConstruction \in Nat /\ EfSearch \in Nat /\ MaxLevel \in Nat
    /\ PqTrainSize \in Nat /\ PerPage \in Nat \ {0}
ASSUME SetupsFormed ==
    \A setup \in Setups :
        /\ setup.writes \in Seq(ToSet(setup.writes))
        /\ \A i \in DOMAIN setup.writes : setup.writes[i][2] \in Int \X Int
ASSUME ProbesFormed == Probes \subseteq Int \X Int

VARIABLES
    script,     \* the run of inserts under way
    pushed,     \* every vector inserted, by node (history)
    quantizer,
    store,      \* [base, tail, warmup, trained]
    ids,        \* node -> id
    deleted,    \* node -> tombstoned
    links,      \* node -> layer + 1 -> neighbours
    entry,      \* <<>> or <<node, level>>
    live,       \* count of nodes not tombstoned
    removes, reopens

annVars == <<script, pushed, quantizer, store, ids, deleted, links, entry, live, removes, reopens>>

Nodes == DOMAIN ids

----------------------------------------------------------------------------
(* The vector store.                                                       *)

Square(i) == i * i
Distance(v, w) == Square(v[1] - w[1]) + Square(v[2] - w[2])

\* A quantizer keeps less of a vector than it is given.
Encode(v) == IF quantizer = "none" THEN v ELSE <<2 * (v[1] \div 2), v[2]>>

EmptyStore == [base |-> <<>>, tail |-> <<>>, warmup |-> <<>>, trained |-> quantizer # "pq"]

\* Vectors are read a page at a time; the last page is short.
page(rows, idx) == SubSeq(rows, idx * PerPage + 1, IF (idx + 1) * PerPage < Len(rows)
                                                   THEN (idx + 1) * PerPage ELSE Len(rows))
PagedWith(rows, node) == page(rows, (node - 1) \div PerPage)[((node - 1) % PerPage) + 1]

\* What is read for a node, out of the warm-up, the base or the tail.
materialize(st, node) ==
    IF ~st.trained THEN st.warmup[node]
    ELSE IF node <= Len(st.base) THEN PagedWith(st.base, node)
    ELSE st.tail[node - Len(st.base)]

\* A codebook is trained on the warm-up, which it replaces.
Train(st) == [st EXCEPT !.tail = @ \o [i \in DOMAIN st.warmup |-> Encode(st.warmup[i])],
                        !.warmup = <<>>, !.trained = TRUE]

push(st, v) ==
    IF st.trained THEN [st EXCEPT !.tail = Append(@, Encode(v))]
    ELSE LET warm == [st EXCEPT !.warmup = Append(@, v)]
         IN  IF Len(warm.warmup) >= PqTrainSize THEN Train(warm) ELSE warm

\* seal: training now, on whatever there is.
seal(st) == IF ~st.trained /\ st.warmup # <<>> THEN Train(st) ELSE st

----------------------------------------------------------------------------
(* Searching a graph g = [vec, ln]: what is read for its nodes, and links.  *)

Read(st, n) == [node \in 1..n |-> materialize(st, node)]

dist_to(g, node, q) == Distance(g.vec[node], q)
dot_nodes(g, a, b) == Distance(g.vec[a], g.vec[b])

Neighbours(g, node, layer) == IF layer < Len(g.ln[node]) THEN g.ln[node][layer + 1] ELSE <<>>

Closer(g, q, a, b) == \/ dist_to(g, a, q) < dist_to(g, b, q)
                      \/ dist_to(g, a, q) = dist_to(g, b, q) /\ a < b

Nearest(g, S, q) == CHOOSE n \in S : \A o \in S \ {n} : Closer(g, q, n, o)
Farthest(g, S, q) == CHOOSE n \in S : \A o \in S \ {n} : Closer(g, q, o, n)

NearestFirst(g, S, q) == Arranged(S, [n \in S |-> {o \in S : Closer(g, q, o, n)}])

\* To the nearest neighbour, as long as that is nearer.
Nearer(g, q, layer, n) ==
    LET best == Nearest(g, {n} \cup ToSet(Neighbours(g, n, layer)), q)
    IN  IF dist_to(g, best, q) < dist_to(g, n, q) THEN best ELSE n

\* No node is left twice, so there are no more steps than nodes.
greedy_at(g, q, cur, layer) ==
    LET walk[i \in 0..Len(g.ln)] == IF i = 0 THEN cur ELSE Nearer(g, q, layer, walk[i - 1])
    IN  walk[Len(g.ln)]

\* Mutant: the beam walks only through what it may return.
MeetAdmitted(g, q, ef, admit, b, nb) ==
    LET near == \/ Cardinality(b.found) < ef
                \/ dist_to(g, nb, q) < dist_to(g, Farthest(g, b.found, q), q)
        with == b.found \cup {nb}
    IN  IF nb \in b.seen \/ nb \notin admit THEN b
        ELSE [cand  |-> IF near THEN b.cand \cup {nb} ELSE b.cand,
              seen  |-> b.seen \cup {nb},
              found |-> IF ~near THEN b.found
                        ELSE IF Cardinality(with) > ef THEN with \ {Farthest(g, with, q)} ELSE with]

\* One neighbour met by the beam b = [cand, seen, found].
Meet(g, q, ef, admit, b, nb) ==
    LET near == \/ Cardinality(b.found) < ef
                \/ dist_to(g, nb, q) < dist_to(g, Farthest(g, b.found, q), q)
        with == b.found \cup ({nb} \cap admit)
    IN  IF nb \in b.seen THEN b
        ELSE [cand  |-> IF near THEN b.cand \cup {nb} ELSE b.cand,
              seen  |-> b.seen \cup {nb},
              found |-> IF ~near THEN b.found
                        ELSE IF Cardinality(with) > ef
                        THEN with \ {Farthest(g, with, q)} ELSE with]

MeetAll(g, q, ef, admit, b, nbs) ==
    LET met[i \in 0..Len(nbs)] == IF i = 0 THEN b ELSE Meet(g, q, ef, admit, met[i - 1], nbs[i])
    IN  met[Len(nbs)]

\* The nearest candidate is left for its neighbours, unless the results are nearer already.
Onward(g, q, layer, ef, admit, b) ==
    LET next == Nearest(g, b.cand, q)
        stop == /\ Cardinality(b.found) >= ef
                /\ dist_to(g, next, q) > dist_to(g, Farthest(g, b.found, q), q)
    IN  IF b.cand = {} \/ stop THEN b
        ELSE MeetAll(g, q, ef, admit, [b EXCEPT !.cand = @ \ {next}], Neighbours(g, next, layer))

BeamStart(start, admit) == [cand |-> {start}, seen |-> {start}, found |-> {start} \cap admit]

\* A node is a candidate once, so there are no more rounds than nodes.
BeamEnd(g, q, start, layer, ef, admit) ==
    LET beam[i \in 0..Len(g.ln)] ==
            IF i = 0 THEN BeamStart(start, admit) ELSE Onward(g, q, layer, ef, admit, beam[i - 1])
    IN  beam[Len(g.ln)]

\* Every node is walked through, those of admit are results.
beam_admit(g, q, start, layer, ef, admit) ==
    NearestFirst(g, BeamEnd(g, q, start, layer, ef, admit).found, q)

Keep(g, q, m, kept, c) ==
    IF Len(kept) >= m \/ \E s \in ToSet(kept) : dot_nodes(g, c, s) < dist_to(g, c, q)
    THEN kept ELSE Append(kept, c)
FillUp(m, kept, c) == IF Len(kept) >= m \/ c \in ToSet(kept) THEN kept ELSE Append(kept, c)

Diverse(g, sorted, q, m) ==
    LET kept[i \in 0..Len(sorted)] == IF i = 0 THEN <<>> ELSE Keep(g, q, m, kept[i - 1], sorted[i])
    IN  kept[Len(sorted)]
FilledUp(sorted, m, kept) ==
    LET filled[i \in 0..Len(sorted)] == IF i = 0 THEN kept ELSE FillUp(m, filled[i - 1], sorted[i])
    IN  filled[Len(sorted)]

\* Nearest first, a candidate is kept unless a kept one is closer to it than the query is;
\* then the list is filled up with the nearest of the rest.
select_diverse(g, sorted, q, m) == FilledUp(sorted, m, Diverse(g, sorted, q, m))

prune(g, node, layer, max) ==
    LET q == g.vec[node]
        sorted == NearestFirst(g, ToSet(g.ln[node][layer + 1]), q)
    IN  [g EXCEPT !.ln[node][layer + 1] = select_diverse(g, sorted, q, max)]

\* From the top layer down to the one above which it stops.
Descended(g, q, from, top, above) ==
    LET down[i \in 0..(top - above)] ==
            IF i = 0 THEN from ELSE greedy_at(g, q, down[i - 1], top + 1 - i)
    IN  down[top - above]

----------------------------------------------------------------------------
(* Inserting.                                                              *)

MaxLinks(layer) == IF layer = 0 THEN 2 * M ELSE M

Linking(g, from, to, layer) == [g EXCEPT !.ln[from][layer + 1] = Append(@, to)]

\* Mutant: a neighbour's list is left as long as it grows.
LinkUnpruned(g, node, nb, layer) == Linking(Linking(g, node, nb, layer), nb, node, layer)

\* Linked both ways; a neighbour with too many links chooses among them again.
Link(g, node, nb, layer) ==
    LET both == Linking(Linking(g, node, nb, layer), nb, node, layer)
    IN  IF Len(both.ln[nb][layer + 1]) > MaxLinks(layer) THEN prune(both, nb, layer, MaxLinks(layer))
        ELSE both

LinkAll(g, node, nbs, layer) ==
    LET linked[i \in 0..Len(nbs)] == IF i = 0 THEN g ELSE Link(linked[i - 1], node, nbs[i], layer)
    IN  linked[Len(nbs)]

\* One layer of an insert: a beam from cur, tombstones included, and the links chosen from it.
Connect(a, node, v, layer) ==
    LET found == beam_admit(a.g, v, a.cur, layer, EfConstruction, DOMAIN a.g.ln)
        chosen == select_diverse(a.g, found, v, M)
    IN  [g |-> LinkAll(a.g, node, chosen, layer),
         cur |-> IF chosen = <<>> THEN a.cur ELSE chosen[1]]

\* From layer last down to the lowest.
ConnectAll(a, node, v, last) ==
    LET done[i \in 0..(last + 1)] == IF i = 0 THEN a ELSE Connect(done[i - 1], node, v, last + 1 - i)
    IN  done[last + 1]

by_id(id) == LET ns == {n \in Nodes : ids[n] = id}
             IN  IF ns = {} THEN {} ELSE {CHOOSE n \in ns : \A o \in ns : o <= n}

Tombstone(id) == [n \in Nodes |-> deleted[n] \/ n \in by_id(id)]
Alive(dead) == Cardinality({n \in DOMAIN dead : ~dead[n]})

Insert(level) ==
    /\ script # <<>>
    /\ LET id == script[1][1]
           v == script[1][2]
           node == Len(ids) + 1
           st == push(store, v)
           g0 == [vec |-> Read(st, node), ln |-> Append(links, [l \in 1..(level + 1) |-> <<>>])]
           top == entry[2]
           last == IF level < top THEN level ELSE top
           cur == Descended(g0, v, entry[1], top, last)
       IN  /\ script' = Tail(script)
           /\ pushed' = Append(pushed, v)
           /\ store' = st
           /\ ids' = Append(ids, id)
           /\ deleted' = Append(Tombstone(id), FALSE)
           /\ live' = live + 1 - Cardinality({n \in by_id(id) : ~deleted[n]})
           /\ links' = IF entry = <<>> THEN g0.ln ELSE ConnectAll([g |-> g0, cur |-> cur], node, v, last).g.ln
           /\ entry' = IF entry = <<>> \/ level > top THEN <<node, level>> ELSE entry
    /\ UNCHANGED <<quantizer, removes, reopens>>

RemoveId(id) ==
    /\ removes < MaxRemoves
    /\ removes' = removes + 1
    /\ deleted' = Tombstone(id)
    /\ live' = live - Cardinality({n \in by_id(id) : ~deleted[n]})
    /\ UNCHANGED <<script, pushed, quantizer, store, ids, links, entry, reopens>>

\* Sealed, written and read back, as one blob into the tail or with the vectors paged.
Reopen(paged) ==
    /\ reopens < MaxReopens /\ ids # <<>>
    /\ reopens' = reopens + 1
    /\ LET st == seal(store)
           all == st.base \o st.tail
       IN  store' = [st EXCEPT !.base = IF paged THEN all ELSE <<>>,
                               !.tail = IF paged THEN <<>> ELSE all]
    /\ UNCHANGED <<script, pushed, quantizer, ids, deleted, links, entry, live, removes>>

EmptyGraph ==
    /\ store = EmptyStore
    /\ pushed = <<>> /\ ids = <<>> /\ deleted = <<>> /\ links = <<>> /\ entry = <<>>
    /\ live = 0 /\ removes = 0 /\ reopens = 0

AnnInit ==
    /\ \E setup \in Setups : script = setup.writes /\ quantizer = setup.quantizer
    /\ EmptyGraph

AnnNext ==
    \/ \E level \in 0..MaxLevel : Insert(level)
    \/ \E id \in ToSet(ids) : RemoveId(id)
    \/ \E paged \in BOOLEAN : Reopen(paged)

AnnSpec == AnnInit /\ [][AnnNext]_annVars

----------------------------------------------------------------------------
(* Searching.                                                              *)

Graph == [vec |-> Read(store, Len(ids)), ln |-> links]
Living == {n \in Nodes : ~deleted[n]}
Start(q) == Descended(Graph, q, entry[1], entry[2], 0)
Largest(a, b) == IF a > b THEN a ELSE b
Foremost(s, k) == SubSeq(s, 1, IF k < Len(s) THEN k ELSE Len(s))

search(q, k, ef) ==
    IF entry = <<>> THEN <<>>
    ELSE Foremost(beam_admit(Graph, q, Start(q), 0, Largest(Largest(ef, EfSearch), k), Living), k)

\* The beam is widened by the selectivity of the filter, up to the graph.
Widened(k, ef, allow) ==
    LET want == (Largest(Largest(ef, EfSearch), k) * Len(ids) + Cardinality(allow) - 1) \div Cardinality(allow)
    IN  IF want < Len(ids) THEN want ELSE Len(ids)

search_filtered(q, k, ef, allow) ==
    IF entry = <<>> \/ allow = {} THEN <<>>
    ELSE Foremost(beam_admit(Graph, q, Start(q), 0, Widened(k, ef, allow),
                          {n \in Living : ids[n] \in allow}), k)

\* What layer 0 leads to.
LeadsNowhere(S) == \A n \in S : ToSet(Neighbours(Graph, n, 0)) \subseteq S
ReachedFrom(start) == {n \in Nodes : \A S \in SUBSET Nodes : start \in S /\ LeadsNowhere(S) => n \in S}

\* What insert relies on without a check, and a search without saying so.  A link of a layer
\* leads to a node that has this layer (insert indexes its list there), to no node twice and
\* never to itself; a list is no longer than its layer allows; the entry is a node of the
\* highest layer; an id has one living node, its latest, however it was overwritten, and live
\* counts them; and whether a node's vector sits in the warm-up, the base or the tail, what is
\* read for it is what was pushed for it.
GraphSound ==
    /\ \A n \in Nodes : \A l \in DOMAIN links[n] :
          /\ Len(links[n][l]) <= MaxLinks(l - 1)
          /\ IsInjective(links[n][l])
          /\ \A nb \in ToSet(links[n][l]) : nb # n /\ l \in DOMAIN links[nb]
    /\ entry # <<>> =>
          /\ Len(links[entry[1]]) = entry[2] + 1
          /\ \A n \in Nodes : Len(links[n]) <= entry[2] + 1
    /\ \A n \in Living : by_id(ids[n]) = {n}
    /\ live = Cardinality(Living)
    /\ \A n \in Nodes : materialize(store, n) \in {pushed[n], Encode(pushed[n])}

\* A beam that is wide enough is exact.  However the graph was linked, pruned, tombstoned and
\* reopened, a search as wide as the number of living nodes returns the k nearest of those
\* layer 0 leads to from where the descent ended, a filtered one the k nearest of those the
\* filter allows; and one of any width returns distinct living ids, nearest first.
SearchExact ==
    \A q \in Probes : entry # <<>> =>
        LET reached == ReachedFrom(Start(q)) \cap Living
            nearest(S) == Foremost(NearestFirst(Graph, S, q), 2)
            allow == {ids[1], ids[Len(ids)]}
            narrow == search(q, 1, 1)
        IN  /\ search(q, 2, live) = nearest(reached)
            /\ search_filtered(q, 2, live, allow) = nearest({n \in reached : ids[n] \in allow})
            /\ ToSet(narrow) \subseteq reached /\ Len(narrow) <= 1
            /\ reached # {} => narrow # <<>>

=============================================================================
