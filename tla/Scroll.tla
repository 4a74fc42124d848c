------------------------------- MODULE Scroll -------------------------------
(***************************************************************************)
(* Paging through the documents of an estate (connxism/query.rs, scroll):  *)
(* a client passes the last id of a page back as the cursor of the next,   *)
(* until a page is empty.  No snapshot is kept between two pages, and the  *)
(* writers go on; the cursor's own document may be gone when it is used.   *)
(***************************************************************************)
EXTENDS Integers, Sequences, FiniteSets, SequencesExt, KeyOrder

CONSTANTS
    DocKeys,        \* document ids, numbered in the order of their keys
    PageLimits,     \* limits a client asks for
    MaxCommits      \* bound

ASSUME DocKeysAssumption == DocKeys \subseteq Nat \ {0} /\ IsFiniteSet(DocKeys)
ASSUME PageLimitsAssumption == PageLimits \subseteq Nat

VARIABLES
    stored,     \* the keys of CF_DOCS
    scroll,     \* the client: [at, listed, after, stayed]
    commits

scrollVars == <<stored, scroll, commits>>

ScrollInit ==
    /\ stored \in SUBSET DocKeys
    /\ scroll = [at |-> "idle", listed |-> <<>>, after |-> 0, stayed |-> {}]
    /\ commits = 0

\* The page that reads the documents ahead: it is cut after a document is added to it, so a
\* limit of 0 returns one.
PageOf(ahead, limit) ==
    LET room == IF limit = 0 THEN 1 ELSE limit
        left == Cardinality(ahead)
    IN  [i \in 1..(IF room < left THEN room ELSE left) |-> InKeyOrder(ahead, i)]

\* Mutant: the cursor's own document is read again.
ScrollFromCursor(after, limit) == PageOf({d \in stored : d >= after}, limit)

\* The documents strictly after the cursor, in id order; 0 is before every key.
scroll_page(after, limit) == PageOf({d \in stored : d > after}, limit)

\* The client asks for a page.  `stayed` are the documents that have been there since it began.
ScrollOn(limit) ==
    /\ scroll.at # "ended"
    /\ LET page == scroll_page(scroll.after, limit)
       IN  scroll' = [at |-> IF page = <<>> THEN "ended" ELSE "paging",
                      listed |-> scroll.listed \o page,
                      after |-> IF page = <<>> THEN scroll.after ELSE Last(page),
                      stayed |-> IF scroll.at = "idle" THEN stored ELSE scroll.stayed]
    /\ UNCHANGED <<stored, commits>>

\* A commit that creates or removes a document; one that replaces it does not move its key.
CreateDoc(d) ==
    /\ commits < MaxCommits /\ d \notin stored
    /\ stored' = stored \cup {d} /\ commits' = commits + 1
    /\ UNCHANGED scroll

RemoveDoc(d) ==
    /\ commits < MaxCommits /\ d \in stored
    /\ stored' = stored \ {d} /\ commits' = commits + 1
    /\ scroll' = [scroll EXCEPT !.stayed = @ \ {d}]

ScrollNext ==
    \/ \E limit \in PageLimits : ScrollOn(limit)
    \/ \E d \in DocKeys : CreateDoc(d) \/ RemoveDoc(d)

ScrollSpec == ScrollInit /\ [][ScrollNext]_scrollVars

----------------------------------------------------------------------------
\* query.rs, scroll: while documents come and go between its pages, a scroll lists no document
\* twice, and at its end it has listed every document that was there throughout.
ScrollComplete ==
    /\ \A i, j \in DOMAIN scroll.listed : scroll.listed[i] = scroll.listed[j] => i = j
    /\ scroll.at = "ended" => scroll.stayed \subseteq ToSet(scroll.listed)

=============================================================================
