------------------------------- MODULE Graph --------------------------------
(***************************************************************************)
(* internal/graph: edges are documents of one collection, written through  *)
(* the event store (EventLog, which EventStore implements).  RELATED reads *)
(* live by SQL, RELATED ... AS OF replays events and filters in Go.        *)
(*                                                                         *)
(* A value is a row's meta and value columns together.  An edge row's meta *)
(* is its triple; a PUT into the edge collection stores an empty meta.     *)
(***************************************************************************)
EXTENDS EventLog, FiniteSets

CONSTANTS
    Nodes,           \* "<collection>/<key>" paths
    Types,           \* edge types
    Props,           \* properties of an edge, and values of other documents
    NoMeta,          \* the meta {}
    EdgeCollection,  \* "__edges__"
    RawKeys,         \* keys a client may PUT into the edge collection
    KeyRank          \* the order of the keys as strings

EdgeMeta == [from : Nodes, type : Types, to : Nodes]

(* Mutant: the type is left out of the hash. *)
EdgeKeyOfEnds(m) == <<m.from, CHOOSE y \in Types : TRUE, m.to>>

(* The SHA-256 of the length-prefixed parts: one key per triple. *)
EdgeKey(m) == <<m.from, m.type, m.to>>

ASSUME GraphAssumption ==
    /\ NoMeta \notin EdgeMeta
    /\ EdgeCollection \in Collections
    /\ {EdgeKey(m) : m \in EdgeMeta} \cup RawKeys \subseteq Keys
    /\ Values = [meta : EdgeMeta \cup {NoMeta}, props : Props]
    /\ KeyRank \in [Keys -> Nat]
    /\ \A j, k \in Keys : KeyRank[j] = KeyRank[k] => j = k

VARIABLES
    graph,   \* history: the edges, as RELATE and UNRELATE should leave them
    past     \* history: graph after each commit, by seq

vars == <<logVars, graph, past>>

Edge == [from : Nodes, type : Types, to : Nodes, props : Props, seq : Nat]

Same(e, m) == e.from = m.from /\ e.type = m.type /\ e.to = m.to

TypeOK ==
    /\ LogTypeOK
    /\ graph \subseteq Edge
    /\ past \in [0 .. MaxSeq -> SUBSET Edge]

Init ==
    /\ LogInit
    /\ graph = {}
    /\ past = [n \in 0 .. MaxSeq |-> {}]
-----------------------------------------------------------------------------
Put(k, v) ==
    [collection |-> EdgeCollection, key |-> k, op |-> OpPut, value |-> v,
     validFrom |-> ZeroTime]

Delete(k) ==
    [collection |-> EdgeCollection, key |-> k, op |-> OpDelete,
     value |-> NoValue, validFrom |-> ZeroTime]

(* These are among the writes clients issue. *)
ASSUME EdgeRequestAssumption ==
    /\ \A m \in EdgeMeta :
           /\ Delete(EdgeKey(m)) \in Requests
           /\ \A p \in Props :
                  Put(EdgeKey(m), [meta |-> m, props |-> p]) \in Requests
    /\ \A k \in RawKeys :
           /\ Delete(k) \in Requests
           /\ \A p \in Props :
                  Put(k, [meta |-> NoMeta, props |-> p]) \in Requests

(* Store.Relate: a put of the properties under the triple's key. *)
Relate(m, p, t) ==
    /\ AppendEvent(Put(EdgeKey(m), [meta |-> m, props |-> p]), t)
    /\ graph' = {e \in graph : ~Same(e, m)}
                \cup {[from |-> m.from, type |-> m.type, to |-> m.to,
                       props |-> p, seq |-> NextSeq]}
    /\ past' = [past EXCEPT ![NextSeq] = graph']

(* Store.Unrelate: a delete, whether or not the edge exists. *)
Unrelate(m, t) ==
    /\ AppendEvent(Delete(EdgeKey(m)), t)
    /\ graph' = {e \in graph : ~Same(e, m)}
    /\ past' = [past EXCEPT ![NextSeq] = graph']

(* PUT and DELETE statements may name the edge collection like any other.  *)
(* Under an edge's key they replace the edge, and remove it.               *)
PutRaw(k, p, t) ==
    /\ AppendEvent(Put(k, [meta |-> NoMeta, props |-> p]), t)
    /\ graph' = {e \in graph : <<e.from, e.type, e.to>> # k}
    /\ past' = [past EXCEPT ![NextSeq] = graph']

DeleteRaw(k, t) ==
    /\ AppendEvent(Delete(k), t)
    /\ graph' = {e \in graph : <<e.from, e.type, e.to>> # k}
    /\ past' = [past EXCEPT ![NextSeq] = graph']

PurgeEdges(cutoff) ==
    /\ Purge(EdgeCollection, cutoff)
    /\ UNCHANGED <<graph, past>>

TimePasses ==
    /\ Tick
    /\ UNCHANGED <<graph, past>>

Next ==
    \/ \E m \in EdgeMeta, p \in Props, t \in Clock : Relate(m, p, t)
    \/ \E m \in EdgeMeta, t \in Clock : Unrelate(m, t)
    \/ \E k \in RawKeys, p \in Props, t \in Clock : PutRaw(k, p, t)
    \/ \E k \in RawKeys, t \in Clock : DeleteRaw(k, t)
    \/ \E cutoff \in Cutoffs : PurgeEdges(cutoff)
    \/ TimePasses

Spec == Init /\ [][Next]_vars
-----------------------------------------------------------------------------
(* Queries *)

Directions == {"out", "in", "both"}

(* The SQL predicate: json_extract of an empty meta is NULL, equal to no   *)
(* node.                                                                   *)
DirectionClause(d, m, n) ==
    /\ m # NoMeta
    /\ \/ d = "in" /\ m.to = n
       \/ d = "both" /\ (m.from = n \/ m.to = n)
       \/ d = "out" /\ m.from = n

(* Mutant: BOTH looks at one end only. *)
DirectionMatchesFrom(d, m, n) ==
    /\ m # NoMeta
    /\ IF d = "in" THEN m.to = n ELSE m.from = n

(* Its Go twin: an empty meta decodes to empty strings, which are no path. *)
DirectionMatches(d, m, n) ==
    /\ m # NoMeta
    /\ \/ d = "in" /\ m.to = n
       \/ d = "both" /\ (m.from = n \/ m.to = n)
       \/ d = "out" /\ m.from = n

(* An empty list of types is any type. *)
TypeListed(m, T) == T = {} \/ m.type \in T

(* Mutant: the row after the page's last one is on it too. *)
PageOneMore(rows, rank, limit, offset) ==
    {r \in rows :
        LET before == Cardinality({q \in rows : rank[q] < rank[r]})
        IN  before >= offset /\ (limit > 0 => before <= offset + limit)}

(* LIMIT and OFFSET of rows in the order of rank; LIMIT 0 is no limit. *)
Page(rows, rank, limit, offset) ==
    {r \in rows :
        LET before == Cardinality({q \in rows : rank[q] < rank[r]})
        IN  before >= offset /\ (limit > 0 => before < offset + limit)}

ToEdge(r) ==
    [from |-> r.value.meta.from, type |-> r.value.meta.type,
     to |-> r.value.meta.to, props |-> r.value.props, seq |-> r.seq]

(* Store.Related: live rows in seq order. *)
Related(n, T, d, limit, offset) ==
    LET rows == {r \in live : /\ r.collection = EdgeCollection
                              /\ r.op # OpDelete
                              /\ DirectionClause(d, r.value.meta, n)
                              /\ TypeListed(r.value.meta, T)}
    IN  {ToEdge(r) : r \in Page(rows, [r \in rows |-> r.seq], limit, offset)}

(* Store.RelatedAsOf: the replayed rows in key order. *)
RelatedAsOf(n, T, d, validAt, limit, offset) ==
    LET rows == {r \in ReplayAsOf(events, EdgeCollection, ZeroTime, validAt) :
                    /\ DirectionMatches(d, r.value.meta, n)
                    /\ TypeListed(r.value.meta, T)}
    IN  {ToEdge(r) :
            r \in Page(rows, [r \in rows |-> KeyRank[r.key]], limit, offset)}

EdgeRows == {r \in live : r.collection = EdgeCollection /\ r.op # OpDelete}

(* Store.EdgeTypes: the NULL type of a row without meta fails the scan. *)
EdgeTypes ==
    [ok    |-> \A r \in EdgeRows : r.value.meta # NoMeta,
     types |-> {r.value.meta.type : r \in {q \in EdgeRows : q.value.meta # NoMeta}}]
-----------------------------------------------------------------------------
(* The edges of G that a query about n asks for. *)
Touching(G, n, T, d) ==
    {e \in G : /\ \/ d # "in" /\ e.from = n
                  \/ d # "out" /\ e.to = n
               /\ T = {} \/ e.type \in T}

(* RELATED answers the edges that RELATE and UNRELATE left, in every       *)
(* direction and for every list of types, whatever else was put into the   *)
(* edge collection or purged from the log; EDGETYPES, when it answers,     *)
(* lists their types.                                                      *)
RelatedIsGraph ==
    /\ \A n \in Nodes, T \in SUBSET Types, d \in Directions :
           Related(n, T, d, 0, 0) = Touching(graph, n, T, d)
    /\ EdgeTypes.ok => EdgeTypes.types = {e.type : e \in graph}

(* The graph after the last commit stamped no later than t. *)
GraphAt(t) == past[HighWater({e \in committed : e.txTime <= t})]

(* Each edge's last version by t is still in the log. *)
KeptAt(t) == LatestOf({e \in committed : e.txTime <= t}) \subseteq events

(* RELATED ... AS OF t answers the graph as it stood at t, by replay and   *)
(* the Go filters, unless a PURGE took some edge's version of that time.   *)
RelatedAsOfIsPast ==
    \A t \in Clock : KeptAt(t) =>
        \A n \in Nodes, T \in SUBSET Types, d \in Directions :
            RelatedAsOf(n, T, d, t, 0, 0) = Touching(GraphAt(t), n, T, d)

(* full, read page by page with LIMIT and OFFSET. *)
Pages(page(_, _), full) ==
    \A limit \in 1 .. MaxSeq :
        /\ UNION {page(limit, limit * k) : k \in 0 .. MaxSeq - 1} = full
        /\ \A k \in 0 .. MaxSeq - 1 :
               LET left == Cardinality(full) - limit * k
               IN  Cardinality(page(limit, limit * k))
                       = IF left < 0 THEN 0 ELSE IF left < limit THEN left ELSE limit

(* The pages of RELATED and of RELATED ... AS OF now are full, overlap in  *)
(* nothing and add up to the whole answer, though the two are in different *)
(* orders (seq, and the key's hash).                                       *)
PagesAddUp ==
    \A n \in Nodes :
        /\ LET P(limit, offset) == Related(n, {}, "both", limit, offset)
           IN  Pages(P, Related(n, {}, "both", 0, 0))
        /\ LET P(limit, offset) == RelatedAsOf(n, {}, "both", now, limit, offset)
           IN  Pages(P, RelatedAsOf(n, {}, "both", now, 0, 0))
=============================================================================
