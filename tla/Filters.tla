------------------------------ MODULE Filters ------------------------------
(***************************************************************************)
(* The filter language (rro-core/query.rs, geo.rs, time.rs) and its two    *)
(* evaluations: Condition::matches on a document's metadata, and the       *)
(* sorted scans of the payload index (connxism/filter.rs, keys.rs).  One   *)
(* metadata field is modelled.  Its value is [type, key, spelling]: type   *)
(* and key are what the index encodes, spelling is what else the JSON text *)
(* distinguishes (2 and 2.0, one instant in two offsets, the case of a     *)
(* UUID).  A key is <<n>>, or <<lat, lon>> on a 4 x 4 grid.                *)
(***************************************************************************)
EXTENDS Integers, Sequences, FiniteSets, SequencesExt, FiniteSetsExt

Value(type, key, spelling) == [type |-> type, key |-> key, spelling |-> spelling]

Bare == Value("none", <<0>>, 0)         \* a document without the field
NoDoc == Value("absent", <<0>>, 0)      \* no document
Live(docs) == {d \in DOMAIN docs : docs[d] # NoDoc}

\* The tags of keys.rs, the ones whose key spells the value back, and what a value of the
\* field can be.
Surfaces == {"str", "bool"}
Types == Surfaces \cup {"num", "dt", "uuid", "geo", "other"}

IsPlace(p) == DOMAIN p = 1..2 /\ p[1] \in 0..3 /\ p[2] \in 0..3

IsValue(v) ==
    /\ v \in [type : Types, key : Seq(Int), spelling : Nat]
    /\ IF v.type = "geo" THEN IsPlace(v.key) ELSE Len(v.key) = 1
    /\ v.type \in Surfaces => v.spelling = 0

----------------------------------------------------------------------------
(* On metadata.  A missing bound, or one that is not a date, is {}.        *)

Within(c, x) ==
    /\ \A b \in c.gt : x > b
    /\ \A b \in c.gte : x >= b
    /\ \A b \in c.lt : x < b
    /\ \A b \in c.lte : x <= b

InBox(box, p) == \A axis \in {1, 2} : box[1][axis] <= p[axis] /\ p[axis] <= box[2][axis]

\* haversine_m, on the grid.
Near(c, p) ==
    LET d(axis) == p[axis] - c.center[axis]
    IN  d(1) * d(1) + d(2) * d(2) <= c.radius * c.radius

matches(c, v) ==
    CASE c.op = "eq"         -> v = c.value
      [] c.op = "any"        -> v \in c.values
      [] c.op = "range"      -> v.type = "num" /\ Within(c, v.key[1])
      [] c.op = "date_range" -> v.type = "dt" /\ Within(c, v.key[1])
      [] c.op = "geo_radius" -> v.type = "geo" /\ Near(c, v.key)
      [] c.op = "geo_box"    -> v.type = "geo" /\ InBox(c.box, v.key)
      [] c.op = "exists"     -> v.type # "none"

\* The conditions there are, and the filters.
IsCondition(c) ==
    /\ "op" \in DOMAIN c
    /\ c.op \in {"eq", "any", "range", "date_range", "geo_radius", "geo_box", "exists"}
    /\ c.op = "eq" => "value" \in DOMAIN c /\ IsValue(c.value)
    /\ c.op = "any" => "values" \in DOMAIN c /\ \A v \in c.values : IsValue(v)
    /\ c.op \in {"range", "date_range"} => c.gt \cup c.gte \cup c.lt \cup c.lte \subseteq Int
    /\ c.op = "geo_radius" => IsPlace(c.center) /\ c.radius \in Nat
    /\ c.op = "geo_box" => IsPlace(c.box[1]) /\ IsPlace(c.box[2])

IsFilter(f) ==
    /\ DOMAIN f = {"must", "should", "must_not"}
    /\ \A part \in DOMAIN f : \A c \in f[part] : IsCondition(c)

NoFilter == [must |-> {}, should |-> {}, must_not |-> {}]

filter_matches(f, v) ==
    /\ \A c \in f.must : matches(c, v)
    /\ f.should = {} \/ \E c \in f.should : matches(c, v)
    /\ ~\E c \in f.must_not : matches(c, v)

Matching(f, docs) == {d \in Live(docs) : filter_matches(f, docs[d])}

\* EstateQuery::default, asked with text and a vector.  legacy: values of the older equality
\* form of the filter; kind, groups to negative are the arguments of the strategies.
DefaultQuery ==
    [kind |-> "query", text |-> TRUE, vector |-> TRUE, sparse |-> FALSE, using |-> FALSE,
     collection |-> FALSE, multi |-> FALSE, top_k |-> 1, legacy |-> {}, filter |-> NoFilter,
     scope |-> <<>>, threshold |-> {}, offset |-> 0, prefetch |-> <<>>, fusion |-> <<1, 1>>,
     mode |-> "rrf", groups |-> 1, group_size |-> 1, positive |-> {}, negative |-> {}]

----------------------------------------------------------------------------
(* On the index.                                                           *)

\* interleave: latitude on the even bits, longitude on the odd ones.
morton(p) ==
    (p[1] % 2) + 2 * (p[2] % 2) + 4 * (p[1] \div 2) + 8 * (p[2] \div 2)

\* The corners of a radius query, clamped to the map.
radius_bbox(c) ==
    <<[axis \in {1, 2} |-> Max({0, c.center[axis] - c.radius})],
      [axis \in {1, 2} |-> Min({3, c.center[axis] + c.radius})]>>

encode_pidx_value(v) ==
    [tag |-> v.type, key |-> IF v.type = "geo" THEN morton(v.key) ELSE v.key[1]]

\* The rows of the field, one per document that has it.
Rows(docs) ==
    {[enc |-> encode_pidx_value(docs[d]), id |-> d] : d \in {e \in Live(docs) : docs[e] # Bare}}

IdsOf(rows) == {r.id : r \in rows}

scan_value(docs, v) == {r \in Rows(docs) : r.enc = encode_pidx_value(v)}

\* From the lower bound (gte before gt) upward; the first row past an upper bound ends the
\* scan, a row below a lower bound is skipped.
scan_range(docs, tag, c) ==
    LET lower == IF c.gte # {} THEN c.gte ELSE c.gt
        from == {r \in Rows(docs) : r.enc.tag = tag /\ \A b \in lower : r.enc.key >= b}
        past(x) == (\E b \in c.lt : x >= b) \/ (\E b \in c.lte : x > b)
        below(x) == (\E b \in c.gt : x <= b) \/ (\E b \in c.gte : x < b)
    IN  {r \in from : /\ ~\E s \in from : past(s.enc.key) /\ s.enc.key <= r.enc.key
                      /\ ~below(r.enc.key)}

\* One range of the Z-order covers the box; every hit is checked against its document.
scan_geo(docs, box, c) ==
    {r \in Rows(docs) : /\ r.enc.tag = "geo"
                        /\ morton(box[1]) <= r.enc.key /\ r.enc.key <= morton(box[2])
                        /\ matches(c, docs[r.id])}

ids_for_condition(docs, c) ==
    IdsOf(CASE c.op = "eq"         -> scan_value(docs, c.value)
            [] c.op = "any"        -> UNION {scan_value(docs, v) : v \in c.values}
            [] c.op = "range"      -> scan_range(docs, "num", c)
            [] c.op = "date_range" -> scan_range(docs, "dt", c)
            [] c.op = "geo_radius" -> scan_geo(docs, radius_bbox(c), c)
            [] c.op = "geo_box"    -> scan_geo(docs, c.box, c)
            [] c.op = "exists"     -> Rows(docs))

\* A filter with neither must nor should, or on a field without an index, is not resolved.
Resolvable(f, indexed) == indexed /\ (f.must # {} \/ f.should # {})

\* Mutant: should read as an alternative to must instead of a further demand.
IdsWhereShouldAlone(f, docs) ==
    LET ids(c) == ids_for_condition(docs, c)
        must == {d \in DOMAIN docs : f.must # {} /\ \A c \in f.must : d \in ids(c)}
    IN  (must \cup UNION {ids(c) : c \in f.should}) \ UNION {ids(c) : c \in f.must_not}

ids_where(f, docs) ==
    LET ids(c) == ids_for_condition(docs, c)
        must == {d \in DOMAIN docs : \A c \in f.must : d \in ids(c)}
        should == IF f.should = {} THEN DOMAIN docs ELSE UNION {ids(c) : c \in f.should}
    IN  (must \cap should) \ UNION {ids(c) : c \in f.must_not}

----------------------------------------------------------------------------
(* Facets.                                                                 *)

\* The text of a value: the string "1" and the number 1 have the same.
Text(v) == <<v.key, v.spelling>>

Counted(texts) == {<<texts[d], Cardinality({e \in DOMAIN texts : texts[e] = texts[d]})>> : d \in DOMAIN texts}

facet_scan(docs) == Counted([d \in {e \in Live(docs) : docs[e] # Bare} |-> Text(docs[d])])

\* One pass over the rows, given up at the first tag that cannot be spelled back.
facet(docs, indexed) ==
    IF indexed /\ \A r \in Rows(docs) : r.enc.tag \in Surfaces
    THEN Counted([d \in IdsOf(Rows(docs)) |->
                     Text(Value(docs[d].type, <<encode_pidx_value(docs[d]).key>>, 0))])
    ELSE facet_scan(docs)

=============================================================================
