------------------------------- MODULE Search -------------------------------
(***************************************************************************)
(* SEARCH ... NEAR ... WHERE ... LIMIT ... OFFSET over one collection: the *)
(* vector index (internal/vector) answers with keys in relevance order and *)
(* execSearch hydrates them from the live documents of Find.  Nothing      *)
(* removes a point when its document is deleted, and an indexer may be     *)
(* behind, so the index and the documents drift apart.                     *)
(***************************************************************************)
EXTENDS Find

CONSTANTS
    DefaultLimit,   \* hits asked for when the statement has no LIMIT (10)
    Foreign         \* a point that another program put into the collection

ASSUME SearchAssumption == DefaultLimit \in Nat \ {0} /\ Foreign \notin Keys

VARIABLE points   \* the Qdrant collection: the keys that have a point

searchVars == <<docs, points>>

SearchInit == Init /\ points = {}

(* Index.Upsert: the point's id is a function of the key, so a document    *)
(* indexed again keeps one point.                                          *)
Upsert(k) ==
    /\ points' = points \cup {k}
    /\ UNCHANGED docs

ForeignUpsert ==
    /\ points' = points \cup {Foreign}
    /\ UNCHANGED docs

SearchNext ==
    \/ Next /\ UNCHANGED points
    \/ \E k \in Keys : Upsert(k)
    \/ ForeignUpsert

SearchSpec == SearchInit /\ [][SearchNext]_searchVars

(* Any order of the points may be the one of their scores. *)
Rankings == SetToSeqs(points)

First(s, n) == SubSeq(s, 1, IF n < Len(s) THEN n ELSE Len(s))

(* Index.Search: Qdrant's best hits, then those with a key in the payload. *)
IndexSearch(ranking, limit) ==
    Collect(First(ranking, IF limit <= 0 THEN DefaultLimit ELSE limit), Keys)

(* Mutant: the index is asked for one page, whatever the offset. *)
FetchOnePage(limit, offset) == limit

(* How many candidates execSearch asks the index for. *)
Fetch(limit, offset) ==
    IF offset > 0 /\ limit > 0 THEN limit + offset ELSE limit

(* Mutant: the hits are not looked up in live. *)
HydrateBlindly(keys, expr) == keys

(* The SELECT over the candidate keys, back in relevance order: a deleted  *)
(* document and one that WHERE excludes are passed over.                   *)
Hydrate(keys, expr) == Collect(keys, FindLive(expr))

ExecSearch(ranking, expr, limit, offset) ==
    LET keys == IndexSearch(ranking, Fetch(limit, offset))
    IN  Hydrate(SubSeq(keys, offset + 1, Len(keys)), expr)
-----------------------------------------------------------------------------
(* The filters tried: none, and an equality. *)
Filters == {{}} \cup {{[op |-> "=", value |-> o]} : o \in {Null, Num(1)}}

(* However the index and the documents have drifted apart, SEARCH without  *)
(* LIMIT returns the documents that FIND returns with the same WHERE, as   *)
(* far as they are indexed and DefaultLimit reaches, and nothing twice.    *)
SearchAgreesWithFind ==
    \A ranking \in Rankings, expr \in Filters :
        LET rows == ExecSearch(ranking, expr, 0, 0)
        IN  /\ IsInjective(rows)
            /\ ToSet(rows) =
                   FindLive(expr) \cap ToSet(First(ranking, DefaultLimit))

(* The rows of the pages of the given size, one after the other. *)
AllPages(ranking, expr, size) ==
    FlattenSeq([i \in 1 .. Len(ranking) + 1 |->
                    ExecSearch(ranking, expr, size, (i - 1) * size)])

(* The rows stand in the order in which the ranking has them. *)
InOrderOf(ranking, rows) ==
    \A i, j \in DOMAIN rows : i < j =>
        \E a, b \in DOMAIN ranking :
            a < b /\ rows[i] = ranking[a] /\ rows[j] = ranking[b]

(* Reading page after page with LIMIT and OFFSET meets every indexed       *)
(* document that FIND returns, once and in relevance order, though the     *)
(* filter and the stale points make pages come out short.  (A foreign      *)
(* point hides the rows behind it: it takes a place among the candidates,  *)
(* and OFFSET counts without it.)                                          *)
SearchPagesAddUp ==
    Foreign \notin points =>
        \A ranking \in Rankings, expr \in Filters, size \in 1 .. NumKeys :
            LET rows == AllPages(ranking, expr, size)
            IN  /\ ToSet(rows) = FindLive(expr) \cap points
                /\ InOrderOf(ranking, rows)
=============================================================================
