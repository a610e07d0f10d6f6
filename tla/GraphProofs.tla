---------------------------- MODULE GraphProofs -----------------------------
(***************************************************************************)
(* Theorems about Graph for any nodes, types, properties and raw keys: the *)
(* edge collection is a client of the log, RELATED answers the edges that  *)
(* RELATE and UNRELATE left, and RELATED ... AS OF those of the past.      *)
(***************************************************************************)
EXTENDS Graph, EventLogProofs, FiniteSetTheorems, FunctionTheorems

(* A row that holds an edge. *)
IsEdgeRow(r) == r.op # OpDelete /\ r.value.meta # NoMeta

(* The edges among some rows. *)
EdgesOf(L) == {ToEdge(r) : r \in {q \in L : IsEdgeRow(q)}}

(* The first n commits. *)
UpTo(n) == {e \in committed : e.seq <= n}

(* Every row is in the edge collection and undated, and an edge is stored  *)
(* under the key of its triple.                                            *)
RowInv ==
    \A e \in committed :
        /\ e.collection = EdgeCollection
        /\ e.validFrom = e.txTime
        /\ e.op # OpDelete => e.value \in Values
        /\ IsEdgeRow(e) => e.key = EdgeKey(e.value.meta)

(* The graph is what the live rows hold, and was, after each commit, what  *)
(* the latest rows then held.                                              *)
GraphInv ==
    /\ LogInv
    /\ IsFiniteSet(committed)
    /\ RowInv
    /\ graph = EdgesOf(live)
    /\ past \in [0 .. MaxSeq -> SUBSET Edge]
    /\ \A n \in 0 .. autoinc : past[n] = EdgesOf(LatestOf(UpTo(n)))

-----------------------------------------------------------------------------
LEMMA EdgeRowFacts ==
    ASSUME LogTypeOK, RowInv, NEW r \in committed, IsEdgeRow(r)
    PROVE  /\ r.value.meta \in EdgeMeta
           /\ r.value.props \in Props
           /\ ToEdge(r) \in Edge
           /\ <<ToEdge(r).from, ToEdge(r).type, ToEdge(r).to>> = r.key
           /\ ToEdge(r).from = r.value.meta.from
           /\ ToEdge(r).type = r.value.meta.type
           /\ ToEdge(r).to = r.value.meta.to
  <1>1. r.value \in [meta : EdgeMeta \cup {NoMeta}, props : Props]
    BY GraphAssumption DEF RowInv, IsEdgeRow
  <1>2. r.value.meta \in EdgeMeta /\ r.value.props \in Props
    BY <1>1 DEF IsEdgeRow
  <1>3. r.seq \in Nat
    BY DEF LogTypeOK, Event
  <1>4. ToEdge(r) \in Edge
    BY <1>2, <1>3 DEF ToEdge, Edge, EdgeMeta
  <1>5. r.key = <<r.value.meta.from, r.value.meta.type, r.value.meta.to>>
    BY DEF RowInv, EdgeKey
  <1> QED
    BY <1>2, <1>4, <1>5 DEF ToEdge

(* An append of an undated row to the edge collection, where the graph     *)
(* loses the edge of that key and gains the one the row holds, if any.     *)
LEMMA AppendKeepsGraphInv ==
    ASSUME GraphInv, NEW r \in Requests, NEW t \in Clock, AppendEvent(r, t),
           r.collection = EdgeCollection, r.validFrom = ZeroTime,
           r.op # OpDelete => r.value \in Values,
           IsEdgeRow(r) => r.key = EdgeKey(r.value.meta),
           graph' = {g \in graph : <<g.from, g.type, g.to>> # r.key}
                    \cup EdgesOf({Row(r, autoinc + 1, t)}),
           past' = [past EXCEPT ![autoinc + 1] = graph']
    PROVE  GraphInv'
  <1> DEFINE e == Row(r, autoinc + 1, t)
  <1>1. /\ autoinc' = autoinc + 1
        /\ autoinc < MaxSeq
        /\ live' = Upsert(live, e)
        /\ committed' = committed \cup {e}
    BY DEF AppendEvent, CommitRow, NextSeq
  <1>2. LogInv' /\ LogTypeOK /\ LogTypeOK'
    BY AppendKeepsLogInv DEF GraphInv, LogInv
  <1>3. IsFiniteSet(committed')
    BY <1>1, FS_AddElement DEF GraphInv
  <1>4. /\ e.seq = autoinc + 1 /\ e.collection = EdgeCollection /\ e.key = r.key
        /\ e.op = r.op /\ e.validFrom = e.txTime
        /\ e.op # OpDelete => e.value = r.value
    BY DEF Row
  <1> HIDE DEF e
  <1>5. IsEdgeRow(e) <=> IsEdgeRow(r)
    BY <1>4 DEF IsEdgeRow
  <1>6. RowInv'
    BY <1>1, <1>4, <1>5 DEF GraphInv, RowInv, IsEdgeRow
  <1>7. /\ autoinc \in Nat
        /\ live = LatestOf(committed) /\ live' = LatestOf(committed')
        /\ live \subseteq committed
        /\ \A f \in committed : f.seq \in Nat /\ f.seq <= autoinc
    BY <1>2, BoundAssumption DEF GraphInv, LogInv, LogTypeOK, LatestOf, Event
  <1>8. \A q \in live : IsEdgeRow(q) =>
            <<ToEdge(q).from, ToEdge(q).type, ToEdge(q).to>> = q.key
    BY <1>2, <1>7, EdgeRowFacts DEF GraphInv
  <1>9. \A q \in live : Doc(q) # Doc(e) <=> q.key # r.key
    BY <1>4, <1>7 DEF GraphInv, RowInv, Doc
  <1>10. graph' = EdgesOf(live')
    <2>1. ASSUME NEW g \in graph' PROVE g \in EdgesOf(live')
      <3>1. CASE g \in EdgesOf({e})
        BY <1>1, <3>1 DEF EdgesOf, Upsert
      <3>2. CASE g \in graph /\ <<g.from, g.type, g.to>> # r.key
        <4>1. PICK q \in live : IsEdgeRow(q) /\ g = ToEdge(q)
          BY <3>2 DEF GraphInv, EdgesOf
        <4>2. q.key # r.key
          BY <1>8, <3>2, <4>1
        <4>3. q \in live'
          BY <1>1, <1>9, <4>1, <4>2 DEF Upsert
        <4> QED
          BY <4>1, <4>3 DEF EdgesOf
      <3> QED
        BY <2>1, <3>1, <3>2 DEF e
    <2>2. ASSUME NEW g \in EdgesOf(live') PROVE g \in graph'
      <3>1. PICK q \in live' : IsEdgeRow(q) /\ g = ToEdge(q)
        BY <2>2 DEF EdgesOf
      <3>2. CASE q = e
        <4>1. g \in EdgesOf({e})
          BY <3>1, <3>2 DEF EdgesOf
        <4> QED
          BY <4>1 DEF e
      <3>3. CASE q \in live /\ Doc(q) # Doc(e)
        <4>1. g \in graph
          BY <3>1, <3>3 DEF GraphInv, EdgesOf
        <4>2. <<g.from, g.type, g.to>> # r.key
          BY <1>8, <1>9, <3>1, <3>3
        <4> QED
          BY <4>1, <4>2
      <3> QED
        BY <1>1, <3>1, <3>2, <3>3 DEF Upsert
    <2> QED
      BY <2>1, <2>2
  <1>11. graph' \subseteq Edge
    <2>1. live' \subseteq committed'
      BY <1>7 DEF LatestOf
    <2>2. \A q \in committed' : IsEdgeRow(q) => ToEdge(q) \in Edge
      <3>1. \A q \in committed : IsEdgeRow(q) => ToEdge(q) \in Edge
        BY <1>2, EdgeRowFacts DEF GraphInv
      <3>2. ASSUME IsEdgeRow(e) PROVE ToEdge(e) \in Edge
        <4>1. e.value \in [meta : EdgeMeta \cup {NoMeta}, props : Props]
          BY <1>4, <3>2, GraphAssumption DEF IsEdgeRow
        <4>2. e.value.meta \in EdgeMeta /\ e.value.props \in Props
          BY <3>2, <4>1 DEF IsEdgeRow
        <4> QED
          BY <1>4, <1>7, <4>2 DEF ToEdge, Edge, EdgeMeta
      <3> QED
        BY <1>1, <3>1, <3>2
    <2> QED
      BY <1>10, <2>1, <2>2 DEF EdgesOf
  <1>12. past \in [0 .. MaxSeq -> SUBSET Edge] /\ autoinc + 1 \in 0 .. MaxSeq
    BY <1>1, <1>7, BoundAssumption DEF GraphInv
  <1>13. past' \in [0 .. MaxSeq -> SUBSET Edge]
    BY <1>11, <1>12
  <1>14. ASSUME NEW n \in 0 .. autoinc'
         PROVE  past'[n] = EdgesOf(LatestOf(UpTo(n)'))
    <2>1. CASE n = autoinc + 1
      <3>1. UpTo(n)' = committed'
        BY <1>1, <1>4, <1>7, <2>1 DEF UpTo
      <3>2. past'[n] = graph'
        BY <1>12, <2>1
      <3> QED
        BY <1>7, <1>10, <3>1, <3>2
    <2>2. CASE n # autoinc + 1
      <3>1. n \in 0 .. autoinc /\ n \in 0 .. MaxSeq
        BY <1>1, <1>7, <2>2, BoundAssumption
      <3>2. UpTo(n)' = UpTo(n)
        BY <1>1, <1>4, <1>7, <3>1 DEF UpTo
      <3>3. past'[n] = past[n]
        BY <1>12, <2>2, <3>1
      <3> QED
        BY <3>1, <3>2, <3>3 DEF GraphInv
    <2> QED
      BY <2>1, <2>2
  <1> QED
    BY <1>2, <1>3, <1>6, <1>10, <1>13, <1>14 DEF GraphInv

LEMMA PutFacts ==
    ASSUME NEW k, NEW v
    PROVE  /\ Put(k, v).collection = EdgeCollection
           /\ Put(k, v).key = k
           /\ Put(k, v).op = OpPut /\ Put(k, v).op # OpDelete
           /\ Put(k, v).value = v
           /\ Put(k, v).validFrom = ZeroTime
  BY DEF Put, OpPut, OpDelete

LEMMA DeleteFacts ==
    ASSUME NEW k
    PROVE  /\ Delete(k).collection = EdgeCollection
           /\ Delete(k).key = k
           /\ Delete(k).op = OpDelete
           /\ Delete(k).validFrom = ZeroTime
  BY DEF Delete

LEMMA SameKey ==
    ASSUME NEW m \in EdgeMeta, NEW g \in Edge
    PROVE  Same(g, m) <=> <<g.from, g.type, g.to>> = EdgeKey(m)
  BY DEF Same, EdgeKey

LEMMA GraphType == GraphInv => graph \subseteq Edge
  <1> SUFFICES ASSUME GraphInv, NEW g \in graph PROVE g \in Edge
    OBVIOUS
  <1>1. PICK q \in live : IsEdgeRow(q) /\ g = ToEdge(q)
    BY DEF GraphInv, EdgesOf
  <1>2. q \in committed
    BY <1>1 DEF GraphInv, LogInv, LatestOf
  <1> QED
    BY <1>1, <1>2, EdgeRowFacts DEF GraphInv, LogInv

LEMMA RelateKeeps ==
    ASSUME GraphInv, NEW m \in EdgeMeta, NEW p \in Props, NEW t \in Clock,
           Relate(m, p, t)
    PROVE  GraphInv'
  <1> DEFINE v == [meta |-> m, props |-> p]
             r == Put(EdgeKey(m), v)
             new == [from |-> m.from, type |-> m.type, to |-> m.to,
                     props |-> p, seq |-> autoinc + 1]
  <1>1. /\ AppendEvent(r, t)
        /\ graph' = {g \in graph : ~Same(g, m)} \cup {new}
        /\ past' = [past EXCEPT ![autoinc + 1] = graph']
    BY DEF Relate, NextSeq
  <1>2. v \in Values /\ v.meta = m /\ v.props = p /\ m # NoMeta
    BY GraphAssumption
  <1>3. /\ r.collection = EdgeCollection /\ r.validFrom = ZeroTime
        /\ r.op = OpPut /\ r.op # OpDelete /\ r.value = v /\ r.key = EdgeKey(m)
    BY PutFacts
  <1>4. r \in Requests
    BY EdgeRequestAssumption
  <1> HIDE DEF r, v
  <1>5. {g \in graph : ~Same(g, m)}
            = {g \in graph : <<g.from, g.type, g.to>> # r.key}
    BY <1>3, SameKey, GraphType
  <1>6. EdgesOf({Row(r, autoinc + 1, t)}) = {new}
    <2> DEFINE e == Row(r, autoinc + 1, t)
    <2>1. e.op = OpPut /\ e.op # OpDelete /\ e.value = v /\ e.seq = autoinc + 1
      BY <1>3 DEF Row
    <2> HIDE DEF e
    <2>2. IsEdgeRow(e) /\ ToEdge(e) = new
      BY <1>2, <2>1 DEF IsEdgeRow, ToEdge
    <2>3. EdgesOf({e}) = {ToEdge(e)}
      BY <2>2 DEF EdgesOf
    <2> QED
      BY <2>2, <2>3 DEF e
  <1>7. IsEdgeRow(r) => r.key = EdgeKey(r.value.meta)
    BY <1>2, <1>3
  <1> HIDE DEF new
  <1> QED
    BY <1>1, <1>2, <1>3, <1>4, <1>5, <1>6, <1>7, AppendKeepsGraphInv

(* A delete under any key, and a put of a value that is no edge. *)
LEMMA NoEdgeKeeps ==
    ASSUME GraphInv, NEW r \in Requests, NEW t \in Clock, AppendEvent(r, t),
           r.collection = EdgeCollection, r.validFrom = ZeroTime,
           r.op # OpDelete => r.value \in Values,
           ~IsEdgeRow(r),
           graph' = {g \in graph : <<g.from, g.type, g.to>> # r.key},
           past' = [past EXCEPT ![autoinc + 1] = graph']
    PROVE  GraphInv'
  <1> DEFINE e == Row(r, autoinc + 1, t)
  <1>1. e.op = r.op /\ (e.op # OpDelete => e.value = r.value)
    BY DEF Row
  <1> HIDE DEF e
  <1>2. EdgesOf({e}) = {}
    BY <1>1 DEF EdgesOf, IsEdgeRow
  <1>3. graph' = {g \in graph : <<g.from, g.type, g.to>> # r.key} \cup EdgesOf({e})
    BY <1>2
  <1> QED
    BY <1>3, AppendKeepsGraphInv DEF e

LEMMA UnrelateKeeps ==
    ASSUME GraphInv, NEW m \in EdgeMeta, NEW t \in Clock, Unrelate(m, t)
    PROVE  GraphInv'
  <1> DEFINE r == Delete(EdgeKey(m))
  <1>1. /\ AppendEvent(r, t)
        /\ graph' = {g \in graph : ~Same(g, m)}
        /\ past' = [past EXCEPT ![autoinc + 1] = graph']
    BY DEF Unrelate, NextSeq
  <1>2. /\ r.collection = EdgeCollection /\ r.validFrom = ZeroTime
        /\ r.op = OpDelete /\ r.key = EdgeKey(m)
    BY DeleteFacts
  <1>3. r \in Requests
    BY EdgeRequestAssumption
  <1> HIDE DEF r
  <1>4. graph' = {g \in graph : <<g.from, g.type, g.to>> # r.key}
    BY <1>1, <1>2, SameKey, GraphType
  <1>5. ~IsEdgeRow(r)
    BY <1>2 DEF IsEdgeRow
  <1> QED
    BY <1>1, <1>2, <1>3, <1>4, <1>5, NoEdgeKeeps

LEMMA PutRawKeeps ==
    ASSUME GraphInv, NEW k \in RawKeys, NEW p \in Props, NEW t \in Clock,
           PutRaw(k, p, t)
    PROVE  GraphInv'
  <1> DEFINE v == [meta |-> NoMeta, props |-> p]
             r == Put(k, v)
  <1>1. /\ AppendEvent(r, t)
        /\ graph' = {g \in graph : <<g.from, g.type, g.to>> # k}
        /\ past' = [past EXCEPT ![autoinc + 1] = graph']
    BY DEF PutRaw, NextSeq
  <1>2. v \in Values /\ v.meta = NoMeta
    BY GraphAssumption
  <1>3. /\ r.collection = EdgeCollection /\ r.validFrom = ZeroTime
        /\ r.value = v /\ r.key = k
    BY PutFacts
  <1>4. r \in Requests
    BY EdgeRequestAssumption
  <1> HIDE DEF r, v
  <1>5. ~IsEdgeRow(r)
    BY <1>2, <1>3 DEF IsEdgeRow
  <1> QED
    BY <1>1, <1>2, <1>3, <1>4, <1>5, NoEdgeKeeps

LEMMA DeleteRawKeeps ==
    ASSUME GraphInv, NEW k \in RawKeys, NEW t \in Clock, DeleteRaw(k, t)
    PROVE  GraphInv'
  <1> DEFINE r == Delete(k)
  <1>1. /\ AppendEvent(r, t)
        /\ graph' = {g \in graph : <<g.from, g.type, g.to>> # k}
        /\ past' = [past EXCEPT ![autoinc + 1] = graph']
    BY DEF DeleteRaw, NextSeq
  <1>2. /\ r.collection = EdgeCollection /\ r.validFrom = ZeroTime
        /\ r.op = OpDelete /\ r.key = k
    BY DeleteFacts
  <1>3. r \in Requests
    BY EdgeRequestAssumption
  <1> HIDE DEF r
  <1>4. ~IsEdgeRow(r)
    BY <1>2 DEF IsEdgeRow
  <1> QED
    BY <1>1, <1>2, <1>3, <1>4, NoEdgeKeeps

LEMMA InitGraphInv == Init => GraphInv
  <1> SUFFICES ASSUME Init PROVE GraphInv
    OBVIOUS
  <1> USE DEF Init
  <1>1. LogInv
    BY InitLogInv
  <1>2. IsFiniteSet(committed)
    BY FS_EmptySet DEF LogInit
  <1>3. RowInv /\ graph = EdgesOf(live)
    BY DEF LogInit, RowInv, EdgesOf
  <1>4. past \in [0 .. MaxSeq -> SUBSET Edge]
    OBVIOUS
  <1>5. ASSUME NEW n \in 0 .. autoinc PROVE past[n] = EdgesOf(LatestOf(UpTo(n)))
    <2>1. past[n] = {}
      BY BoundAssumption DEF LogInit
    <2> QED
      BY <2>1 DEF LogInit, UpTo, LatestOf, EdgesOf
  <1> QED
    BY <1>1, <1>2, <1>3, <1>4, <1>5 DEF GraphInv

LEMMA NextGraphInv == GraphInv /\ [Next]_vars => GraphInv'
  <1> SUFFICES ASSUME GraphInv, [Next]_vars PROVE GraphInv'
    OBVIOUS
  <1>1. ASSUME LogInv', UNCHANGED <<live, autoinc, committed, graph, past>>
        PROVE  GraphInv'
    BY <1>1 DEF GraphInv, RowInv, UpTo
  <1>2. ASSUME NEW cutoff \in Cutoffs, PurgeEdges(cutoff) PROVE GraphInv'
    <2>1. LogInv'
      BY <1>2, PurgeKeepsLogInv DEF PurgeEdges, GraphInv
    <2> QED
      BY <1>1, <1>2, <2>1 DEF PurgeEdges, Purge
  <1>3. CASE TimePasses
    <2>1. LogInv'
      BY <1>3, TickKeepsLogInv DEF TimePasses, GraphInv
    <2> QED
      BY <1>1, <1>3, <2>1 DEF TimePasses, Tick
  <1>4. CASE UNCHANGED vars
    <2>1. LogInv'
      BY <1>4, StutterKeepsLogInv DEF vars, GraphInv
    <2> QED
      BY <1>1, <1>4, <2>1 DEF vars, logVars
  <1> QED
    BY <1>2, <1>3, <1>4, RelateKeeps, UnrelateKeeps, PutRawKeeps, DeleteRawKeeps
    DEF Next

(* GraphInv holds for every mix of RELATE, UNRELATE, raw writes into the   *)
(* edge collection and PURGE.                                              *)
THEOREM GraphInductive == Spec => []GraphInv
  BY InitGraphInv, NextGraphInv, PTL DEF Spec

(* TypeOK: what RELATE and UNRELATE leave is a set of edges, after every   *)
(* commit.                                                                 *)
THEOREM GraphTypeCorrect == Spec => []TypeOK
  <1>1. GraphInv => TypeOK
    BY GraphType DEF GraphInv, LogInv, TypeOK
  <1> QED
    BY <1>1, GraphInductive, PTL

(* The graph store is a client of the event log: RELATE, UNRELATE, PUT and *)
(* DELETE on the edge collection change the tables as Append does.         *)
THEOREM GraphUsesLog == Spec => LogSpec
  <1>1. Init => LogInit
    BY DEF Init
  <1>2. [Next]_vars => [LogNext]_logVars
    <2> SUFFICES ASSUME [Next]_vars PROVE [LogNext]_logVars
      OBVIOUS
    <2>1. EdgeCollection \in Collections
      BY GraphAssumption
    <2>2. ASSUME NEW m \in EdgeMeta, NEW p \in Props, NEW t \in Clock,
                 Relate(m, p, t)
          PROVE  LogNext
      BY <2>2, EdgeRequestAssumption DEF Relate, LogNext
    <2>3. ASSUME NEW m \in EdgeMeta, NEW t \in Clock, Unrelate(m, t)
          PROVE  LogNext
      BY <2>3, EdgeRequestAssumption DEF Unrelate, LogNext
    <2>4. ASSUME NEW k \in RawKeys, NEW p \in Props, NEW t \in Clock,
                 PutRaw(k, p, t)
          PROVE  LogNext
      BY <2>4, EdgeRequestAssumption DEF PutRaw, LogNext
    <2>5. ASSUME NEW k \in RawKeys, NEW t \in Clock, DeleteRaw(k, t)
          PROVE  LogNext
      BY <2>5, EdgeRequestAssumption DEF DeleteRaw, LogNext
    <2> QED
      BY <2>1, <2>2, <2>3, <2>4, <2>5 DEF Next, PurgeEdges, TimePasses, LogNext, vars
  <1> QED
    BY <1>1, <1>2, PTL DEF Spec, LogSpec

-----------------------------------------------------------------------------
(* LIMIT 0 OFFSET 0 is the whole answer. *)
LEMMA WholePage ==
    ASSUME NEW rows, IsFiniteSet(rows), NEW rank
    PROVE  Page(rows, rank, 0, 0) = rows
  <1>1. ASSUME NEW r \in rows
        PROVE  Cardinality({q \in rows : rank[q] < rank[r]}) >= 0
    <2> DEFINE S == {q \in rows : rank[q] < rank[r]}
    <2>1. S \subseteq rows
      OBVIOUS
    <2> HIDE DEF S
    <2>2. Cardinality(S) \in Nat
      BY <2>1, FS_Subset, FS_CardinalityType
    <2>3. Cardinality(S) >= 0
      BY <2>2
    <2> QED
      BY <2>3 DEF S
  <1>2. ~(0 > 0)
    OBVIOUS
  <1> QED
    BY <1>1, <1>2 DEF Page

(* The edges of some rows that touch n are those of the rows whose meta    *)
(* touches n: the SQL predicate and its Go twin do what the query asks.    *)
LEMMA TouchingRows ==
    ASSUME LogTypeOK, RowInv, NEW L \in SUBSET committed,
           NEW n, NEW T, NEW d \in Directions
    PROVE  /\ {ToEdge(r) : r \in {q \in L : /\ q.op # OpDelete
                                            /\ DirectionMatches(d, q.value.meta, n)
                                            /\ TypeListed(q.value.meta, T)}}
                  = Touching(EdgesOf(L), n, T, d)
           /\ \A m : DirectionClause(d, m, n) <=> DirectionMatches(d, m, n)
  <1> DEFINE Q == {q \in L : /\ q.op # OpDelete
                             /\ DirectionMatches(d, q.value.meta, n)
                             /\ TypeListed(q.value.meta, T)}
             A == {ToEdge(r) : r \in Q}
             B == Touching(EdgesOf(L), n, T, d)
  <1>1. ASSUME NEW r \in L, IsEdgeRow(r)
        PROVE  /\ DirectionMatches(d, r.value.meta, n) <=>
                      \/ d # "in" /\ ToEdge(r).from = n
                      \/ d # "out" /\ ToEdge(r).to = n
               /\ TypeListed(r.value.meta, T) <=> (T = {} \/ ToEdge(r).type \in T)
    <2>1. r.value.meta # NoMeta
      BY <1>1 DEF IsEdgeRow
    <2>2. /\ ToEdge(r).from = r.value.meta.from
          /\ ToEdge(r).type = r.value.meta.type
          /\ ToEdge(r).to = r.value.meta.to
      BY <1>1, EdgeRowFacts
    <2> QED
      BY <2>1, <2>2 DEF DirectionMatches, TypeListed, Directions
  <1>2. \A q \in Q : q \in L /\ IsEdgeRow(q)
    BY DEF IsEdgeRow, DirectionMatches
  <1>3. A \subseteq B
    BY <1>1, <1>2 DEF Touching, EdgesOf
  <1>4. ASSUME NEW g \in B PROVE g \in A
    <2>1. PICK r \in L : IsEdgeRow(r) /\ g = ToEdge(r)
      BY DEF Touching, EdgesOf
    <2>2. r \in Q
      BY <1>1, <2>1 DEF Touching, IsEdgeRow
    <2> QED
      BY <2>1, <2>2
  <1>5. \A m : DirectionClause(d, m, n) <=> DirectionMatches(d, m, n)
    BY DEF DirectionClause, DirectionMatches
  <1> QED
    BY <1>3, <1>4, <1>5

LEMMA GraphInvRelated == GraphInv => RelatedIsGraph
  <1> SUFFICES ASSUME GraphInv PROVE RelatedIsGraph
    OBVIOUS
  <1>1. /\ LogTypeOK /\ RowInv /\ IsFiniteSet(committed)
        /\ live \in SUBSET committed
        /\ graph = EdgesOf(live)
    BY DEF GraphInv, LogInv, LatestOf
  <1>2. \A r \in live : r.collection = EdgeCollection
    BY <1>1 DEF RowInv
  <1>3. ASSUME NEW n \in Nodes, NEW T \in SUBSET Types, NEW d \in Directions
        PROVE  Related(n, T, d, 0, 0) = Touching(graph, n, T, d)
    <2> DEFINE rows == {r \in live : /\ r.collection = EdgeCollection
                                     /\ r.op # OpDelete
                                     /\ DirectionClause(d, r.value.meta, n)
                                     /\ TypeListed(r.value.meta, T)}
               rank == [r \in rows |-> r.seq]
    <2>1. rows = {q \in live : /\ q.op # OpDelete
                               /\ DirectionMatches(d, q.value.meta, n)
                               /\ TypeListed(q.value.meta, T)}
      BY <1>1, <1>2, TouchingRows
    <2>2. {ToEdge(r) : r \in rows} = Touching(graph, n, T, d)
      BY <1>1, <2>1, TouchingRows
    <2>3. rows \subseteq committed
      BY <1>1
    <2>4. Related(n, T, d, 0, 0) = {ToEdge(r) : r \in Page(rows, rank, 0, 0)}
      BY DEF Related
    <2> HIDE DEF rows, rank
    <2>5. Page(rows, rank, 0, 0) = rows
      BY <1>1, <2>3, FS_Subset, WholePage
    <2> QED
      BY <2>2, <2>4, <2>5
  <1>4. EdgeTypes.types = {g.type : g \in graph}
    <2> DEFINE L == {q \in EdgeRows : q.value.meta # NoMeta}
    <2>1. L = {q \in live : IsEdgeRow(q)}
      BY <1>2 DEF EdgeRows, IsEdgeRow
    <2>2. EdgeTypes.types = {r.value.meta.type : r \in L}
      BY DEF EdgeTypes
    <2>3. \A r \in L : ToEdge(r).type = r.value.meta.type
      BY <1>1, <2>1, EdgeRowFacts
    <2>4. graph = {ToEdge(r) : r \in L}
      BY <1>1, <2>1 DEF EdgesOf
    <2> HIDE DEF L
    <2> QED
      BY <2>2, <2>3, <2>4
  <1> QED
    BY <1>3, <1>4 DEF RelatedIsGraph

(* RelatedIsGraph: RELATED answers the edges that RELATE and UNRELATE left *)
(* in every direction and for every list of types, and EDGETYPES their     *)
(* types, whatever else was put into the edge collection or purged.        *)
THEOREM RelatedAnswersGraph == Spec => []RelatedIsGraph
  BY GraphInvRelated, GraphInductive, PTL

-----------------------------------------------------------------------------
(* What was committed by the instant t, and the last commit among it: with *)
(* a clock that does not step back, a prefix of the log.                   *)
LEMMA CommittedByIsPrefix ==
    ASSUME GraphInv, ~ClockStepsBack, NEW t \in Clock
    PROVE  LET C == {e \in committed : e.txTime <= t}
           IN  /\ HighWater(C) \in 0 .. autoinc
               /\ C = UpTo(HighWater(C))
  <1> DEFINE C == {e \in committed : e.txTime <= t}
             N == HighWater(C)
  <1>1. /\ committed \in SUBSET Event /\ autoinc \in Nat /\ t \in Nat
        /\ \A e \in committed : /\ e.seq \in Nat \ {0} /\ e.seq <= autoinc
                                /\ e.txTime \in Nat
        /\ \A e, f \in committed : e.seq = f.seq => e = f
        /\ \A e, f \in committed : e.seq < f.seq => e.txTime <= f.txTime
    BY BoundAssumption DEF GraphInv, LogInv, LogTypeOK, Event, Instant, Clock
  <1>2. C \in SUBSET Event /\ C \subseteq committed /\ \A e \in C : e.seq <= autoinc
    BY <1>1
  <1>3. /\ N \in Nat
        /\ \A e \in C : e.seq <= N
        /\ C = {} => N = 0
        /\ C # {} => \E e \in C : e.seq = N
    <2> HIDE DEF C
    <2> QED
      BY <1>1, <1>2, HighWaterIsMax
  <1>4. CASE C = {}
    <2>1. N = 0
      BY <1>3, <1>4
    <2>2. UpTo(0) = {}
      BY <1>1 DEF UpTo
    <2> HIDE DEF N, C
    <2> QED
      BY <1>1, <1>4, <2>1, <2>2 DEF N, C
  <1>5. CASE C # {}
    <2>1. PICK f \in C : f.seq = N
      BY <1>3, <1>5
    <2>2. N <= autoinc
      BY <1>2, <2>1
    <2>3. ASSUME NEW e \in committed, e.seq <= N PROVE e.txTime <= t
      BY <1>1, <1>2, <2>1, <2>3
    <2>4. C = UpTo(N)
      BY <1>3, <2>3 DEF UpTo
    <2> HIDE DEF N, C
    <2> QED
      BY <1>1, <1>3, <2>2, <2>4 DEF N, C
  <1> QED
    BY <1>4, <1>5

(* Replaying the log up to t, by valid_from and then seq, yields the last  *)
(* commits by t, as long as no PURGE took one of them.                     *)
LEMMA ReplayIsLatest ==
    ASSUME GraphInv, ~ClockStepsBack, NEW t \in Clock, KeptAt(t)
    PROVE  ReplayAsOf(events, EdgeCollection, ZeroTime, t)
               = {r \in LatestOf({e \in committed : e.txTime <= t}) : r.op # OpDelete}
  <1> DEFINE C == {e \in committed : e.txTime <= t}
             Cand(d) == Candidates(Versions(events, d), ZeroTime, t)
             L == LatestOf(C)
  <1>1. /\ committed \in SUBSET Event /\ autoinc \in Nat /\ t \in Nat /\ t # ZeroTime
        /\ \A e \in committed : /\ e.seq \in Nat /\ e.seq <= autoinc
                                /\ e.txTime \in Nat /\ e.validFrom = e.txTime
                                /\ e.key \in Keys /\ Doc(e) = <<EdgeCollection, e.key>>
        /\ \A e, f \in committed : e.seq = f.seq => e = f
        /\ \A e, f \in committed : e.seq < f.seq => e.txTime <= f.txTime
        /\ events \subseteq committed
    BY BoundAssumption DEF GraphInv, LogInv, LogTypeOK, Event, Instant, Clock,
                           RowInv, Doc, ZeroTime
  <1>2. L \subseteq events
    BY DEF KeptAt
  <1>3. ASSUME NEW d PROVE Cand(d) = {e \in events : Doc(e) = d /\ e \in C}
    BY <1>1 DEF Candidates, Versions
  <1>4. \A d, e : e \in AsOf(events, d, ZeroTime, t) <=>
            /\ e \in Cand(d) /\ e.op # OpDelete
            /\ \A f \in Cand(d) : ~EarlierVersion(e, f)
    BY DEF AsOf, Visible
  <1> HIDE DEF Cand
  <1>5. ASSUME NEW d, NEW e \in AsOf(events, d, ZeroTime, t)
        PROVE  e \in L /\ e.op # OpDelete
    <2>1. /\ e \in events /\ Doc(e) = d /\ e \in C /\ e.op # OpDelete
          /\ \A f \in Cand(d) : ~EarlierVersion(e, f)
      BY <1>3, <1>4
    <2> DEFINE D == {f \in C : Doc(f) = d}
    <2>2. D \in SUBSET Event /\ D # {} /\ \A f \in D : f.seq <= autoinc
      BY <1>1, <2>1
    <2>3. \E g \in D : \A f \in D : f.seq <= g.seq
      <3> HIDE DEF D
      <3>1. /\ \A f \in D : f.seq <= HighWater(D)
            /\ \E g \in D : g.seq = HighWater(D)
        BY <1>1, <2>2, HighWaterIsMax
      <3> QED
        BY <3>1
    <2>4. PICK g \in D : \A f \in D : f.seq <= g.seq
      BY <2>3
    <2>5. g \in L
      BY <2>4 DEF LatestOf
    <2>6. g \in Cand(d) /\ g \in committed /\ e \in committed
      BY <1>1, <1>2, <1>3, <2>1, <2>5
    <2>7. ~(e.seq < g.seq)
      <3> SUFFICES ASSUME e.seq < g.seq PROVE FALSE
        OBVIOUS
      <3>1. e.txTime <= g.txTime /\ e.validFrom = e.txTime /\ g.validFrom = g.txTime
            /\ e.txTime \in Nat /\ g.txTime \in Nat
        BY <1>1, <2>6
      <3>2. EarlierVersion(e, g)
        BY <3>1 DEF EarlierVersion
      <3> QED
        BY <2>1, <2>6, <3>2
    <2>8. ASSUME NEW f \in C, Doc(f) = Doc(e) PROVE f.seq <= e.seq
      <3>1. f \in D /\ f.seq <= g.seq
        BY <2>1, <2>4, <2>8
      <3> QED
        BY <1>1, <2>6, <2>7, <3>1
    <2> QED
      BY <2>1, <2>8 DEF LatestOf
  <1>6. ASSUME NEW e \in L, e.op # OpDelete
        PROVE  e \in AsOf(events, Doc(e), ZeroTime, t)
    <2>1. e \in C /\ e \in events /\ \A f \in C : Doc(f) = Doc(e) => f.seq <= e.seq
      BY <1>2 DEF LatestOf
    <2>2. e \in Cand(Doc(e))
      BY <1>3, <2>1
    <2>3. ASSUME NEW f \in Cand(Doc(e)) PROVE ~EarlierVersion(e, f)
      <3>1. f \in C /\ Doc(f) = Doc(e) /\ f \in committed /\ e \in committed
        BY <1>1, <1>3, <2>1
      <3>2. f.seq <= e.seq
        BY <2>1, <3>1
      <3>3. f.txTime <= e.txTime
        BY <1>1, <3>1, <3>2
      <3>4. /\ e.seq \in Nat /\ f.seq \in Nat
            /\ e.txTime \in Nat /\ f.txTime \in Nat
            /\ e.validFrom = e.txTime /\ f.validFrom = f.txTime
        BY <1>1, <3>1
      <3> QED
        BY <3>2, <3>3, <3>4 DEF EarlierVersion
    <2> QED
      BY <1>4, <1>6, <2>2, <2>3
  <1>7. \A e \in L : e.key \in Keys /\ Doc(e) = <<EdgeCollection, e.key>>
    BY <1>1, <1>2
  <1> HIDE DEF L
  <1>8. ReplayAsOf(events, EdgeCollection, ZeroTime, t) = {r \in L : r.op # OpDelete}
    <2>1. ASSUME NEW e \in ReplayAsOf(events, EdgeCollection, ZeroTime, t)
          PROVE  e \in L /\ e.op # OpDelete
      <3>1. PICK k \in Keys : e \in AsOf(events, <<EdgeCollection, k>>, ZeroTime, t)
        BY DEF ReplayAsOf
      <3> QED
        BY <1>5, <3>1
    <2>2. ASSUME NEW e \in L, e.op # OpDelete
          PROVE  e \in ReplayAsOf(events, EdgeCollection, ZeroTime, t)
      <3>1. e \in AsOf(events, <<EdgeCollection, e.key>>, ZeroTime, t)
        BY <1>6, <1>7, <2>2
      <3> QED
        BY <1>7, <3>1 DEF ReplayAsOf
    <2> QED
      BY <2>1, <2>2
  <1> QED
    BY <1>8 DEF L

LEMMA GraphInvRelatedAsOf ==
    ASSUME GraphInv, ~ClockStepsBack
    PROVE  RelatedAsOfIsPast
  <1> SUFFICES ASSUME NEW t \in Clock, KeptAt(t),
                      NEW n \in Nodes, NEW T \in SUBSET Types, NEW d \in Directions
               PROVE  RelatedAsOf(n, T, d, t, 0, 0) = Touching(GraphAt(t), n, T, d)
    BY DEF RelatedAsOfIsPast
  <1> DEFINE C == {e \in committed : e.txTime <= t}
             L == LatestOf(C)
             rows == {r \in ReplayAsOf(events, EdgeCollection, ZeroTime, t) :
                         /\ DirectionMatches(d, r.value.meta, n)
                         /\ TypeListed(r.value.meta, T)}
             rank == [r \in rows |-> KeyRank[r.key]]
  <1>1. GraphAt(t) = EdgesOf(L)
    <2>1. HighWater(C) \in 0 .. autoinc /\ C = UpTo(HighWater(C))
      BY CommittedByIsPrefix
    <2>2. GraphAt(t) = past[HighWater(C)]
      BY DEF GraphAt
    <2> HIDE DEF C
    <2> QED
      BY <2>1, <2>2 DEF GraphInv
  <1>2. L \in SUBSET committed /\ LogTypeOK /\ RowInv /\ IsFiniteSet(committed)
    BY DEF LatestOf, GraphInv, LogInv
  <1>3. rows = {q \in L : /\ q.op # OpDelete
                          /\ DirectionMatches(d, q.value.meta, n)
                          /\ TypeListed(q.value.meta, T)}
    BY ReplayIsLatest
  <1>4. RelatedAsOf(n, T, d, t, 0, 0) = {ToEdge(r) : r \in Page(rows, rank, 0, 0)}
    BY DEF RelatedAsOf
  <1> HIDE DEF L, rows, rank
  <1>5. {ToEdge(r) : r \in rows} = Touching(EdgesOf(L), n, T, d)
    BY <1>2, <1>3, TouchingRows
  <1>6. rows \subseteq committed
    BY <1>2, <1>3
  <1>7. Page(rows, rank, 0, 0) = rows
    BY <1>2, <1>6, FS_Subset, WholePage
  <1> QED
    BY <1>1, <1>4, <1>5, <1>7

(* RelatedAsOfIsPast: while the wall clock does not step back, RELATED ... *)
(* AS OF, by replay and the Go filters, answers the graph as it stood,     *)
(* unless a PURGE took some edge's version of that time.                   *)
THEOREM RelatedAsOfAnswersPast ==
    ~ClockStepsBack => (Spec => []RelatedAsOfIsPast)
  <1> SUFFICES ASSUME ~ClockStepsBack PROVE Spec => []RelatedAsOfIsPast
    OBVIOUS
  <1>1. GraphInv => RelatedAsOfIsPast
    BY GraphInvRelatedAsOf
  <1> QED
    BY <1>1, GraphInductive, PTL

-----------------------------------------------------------------------------
(* Rows ordered by a rank without ties: counting the rows before each one  *)
(* numbers them from 0 without gaps.                                       *)
LEMMA PlacesAreNumbers ==
    ASSUME NEW S, IsFiniteSet(S), NEW rank \in [S -> Nat],
           \A q, r \in S : rank[q] = rank[r] => q = r
    PROVE  [r \in S |-> Cardinality({q \in S : rank[q] < rank[r]})]
               \in Bijection(S, 0 .. Cardinality(S) - 1)
  <1> DEFINE Below(r) == {q \in S : rank[q] < rank[r]}
             f == [r \in S |-> Cardinality(Below(r))]
             N == Cardinality(S)
             T == 0 .. N - 1
  <1>1. N \in Nat
    BY FS_CardinalityType
  <1>2. ASSUME NEW A \in SUBSET S, NEW B \in SUBSET A, A # B
        PROVE  /\ Cardinality(A) \in Nat /\ Cardinality(B) \in Nat
               /\ Cardinality(B) < Cardinality(A)
    <2>1. IsFiniteSet(A)
      BY FS_Subset
    <2>2. /\ IsFiniteSet(B) /\ Cardinality(B) <= Cardinality(A)
          /\ Cardinality(A) # Cardinality(B)
      BY <1>2, <2>1, FS_Subset
    <2>3. Cardinality(A) \in Nat /\ Cardinality(B) \in Nat
      BY <2>1, <2>2, FS_CardinalityType
    <2> QED
      BY <2>2, <2>3
  <1>3. ASSUME NEW r \in S PROVE f[r] \in T
    <2>1. Below(r) \in SUBSET S /\ S # Below(r)
      BY <1>3
    <2> HIDE DEF Below
    <2>2. Cardinality(Below(r)) \in Nat /\ Cardinality(Below(r)) < N
      BY <1>2, <2>1
    <2> QED
      BY <1>1, <2>2
  <1>4. ASSUME NEW q \in S, NEW r \in S, rank[q] < rank[r] PROVE f[q] # f[r]
    <2>1. Below(r) \in SUBSET S /\ Below(q) \in SUBSET Below(r) /\ Below(r) # Below(q)
      <3>1. \A x \in S : rank[x] \in Nat
        OBVIOUS
      <3>2. q \in Below(r) /\ q \notin Below(q)
        BY <1>4, <3>1
      <3> QED
        BY <1>4, <3>1, <3>2
    <2> HIDE DEF Below
    <2>2. /\ Cardinality(Below(q)) \in Nat /\ Cardinality(Below(r)) \in Nat
          /\ Cardinality(Below(q)) < Cardinality(Below(r))
      BY <1>2, <2>1
    <2> QED
      BY <2>2
  <1> HIDE DEF Below
  <1>5. f \in [S -> T]
    BY <1>3
  <1>6. \A q, r \in S : f[q] = f[r] => q = r
    <2> SUFFICES ASSUME NEW q \in S, NEW r \in S, f[q] = f[r], q # r PROVE FALSE
      OBVIOUS
    <2>1. rank[q] < rank[r] \/ rank[r] < rank[q]
      OBVIOUS
    <2> HIDE DEF f
    <2> QED
      BY <1>4, <2>1
  <1> HIDE DEF f
  <1>7. f \in Injection(S, T)
    BY <1>5, <1>6, Fun_IsInj
  <1>8. IsFiniteSet(T) /\ Cardinality(T) = N
    <2>1. 0 \in Int /\ N - 1 \in Int
      BY <1>1
    <2>2. IsFiniteSet(T) /\ Cardinality(T) = IF 0 > N - 1 THEN 0 ELSE N - 1 - 0 + 1
      BY <2>1, FS_Interval
    <2> QED
      BY <1>1, <2>2
  <1>9. f \in Surjection(S, T)
    <2> HIDE DEF T
    <2>1. Cardinality(S) = Cardinality(T)
      BY <1>8 DEF N
    <2> QED
      BY <1>7, <1>8, <2>1, FS_Injection
  <1>10. f \in Bijection(S, T)
    BY <1>7, <1>9, Fun_IsBij
  <1> QED
    BY <1>10 DEF f, Below, T, N

(* A page holds as many rows as LIMIT asks for and OFFSET leaves. *)
LEMMA PageSize ==
    ASSUME NEW S, IsFiniteSet(S), NEW rank \in [S -> Nat],
           \A q, r \in S : rank[q] = rank[r] => q = r,
           NEW limit \in Nat \ {0}, NEW offset \in Nat
    PROVE  LET left == Cardinality(S) - offset
           IN  Cardinality(Page(S, rank, limit, offset))
                   = IF left < 0 THEN 0 ELSE IF left < limit THEN left ELSE limit
  <1> DEFINE N == Cardinality(S)
             T == 0 .. N - 1
             f == [r \in S |-> Cardinality({q \in S : rank[q] < rank[r]})]
             top == IF offset + limit < N THEN offset + limit ELSE N
             P == Page(S, rank, limit, offset)
             I == offset .. top - 1
             g == [r \in P |-> f[r]]
  <1>1. N \in Nat
    BY FS_CardinalityType
  <1>2. f \in Bijection(S, T)
    BY PlacesAreNumbers
  <1>3. P = {r \in S : f[r] >= offset /\ f[r] < offset + limit}
    BY DEF Page
  <1> HIDE DEF f, P
  <1>4. /\ f \in [S -> T]
        /\ \A q, r \in S : f[q] = f[r] => q = r
        /\ \A i \in T : \E r \in S : f[r] = i
    <2> HIDE DEF T
    <2> QED
      BY <1>2, Fun_BijectionProperties
  <1>5. \A r \in S : f[r] \in Nat /\ f[r] < N
    BY <1>1, <1>4
  <1>6. g \in [P -> I]
    <2>1. ASSUME NEW r \in P PROVE f[r] \in I
      BY <1>1, <1>3, <1>5
    <2> QED
      BY <2>1
  <1>7. \A q, r \in P : g[q] = g[r] => q = r
    BY <1>3, <1>4
  <1>8. ASSUME NEW i \in I PROVE \E r \in P : g[r] = i
    <2>1. i \in Nat /\ i >= offset /\ i < offset + limit /\ i < N
      BY <1>1
    <2>2. i \in T
      BY <1>1, <2>1
    <2>3. PICK r \in S : f[r] = i
      BY <1>4, <2>2
    <2>4. r \in P
      BY <1>3, <2>1, <2>3
    <2> QED
      BY <2>3, <2>4
  <1> HIDE DEF g, I
  <1>9. g \in Bijection(P, I)
    BY <1>6, <1>7, <1>8, Fun_IsBij
  <1>10. P \in SUBSET S
    BY <1>3
  <1>11. IsFiniteSet(P)
    BY <1>10, FS_Subset
  <1>12. Cardinality(P) = Cardinality(I)
    BY <1>9, <1>11, FS_Bijection, Fun_ExistsBij
  <1>13. top \in Nat
    BY <1>1
  <1>14. Cardinality(I) = IF offset > top - 1 THEN 0 ELSE top - 1 - offset + 1
    <2> HIDE DEF top
    <2>1. offset \in Int /\ top - 1 \in Int
      BY <1>13
    <2>2. Cardinality(offset .. top - 1)
              = IF offset > top - 1 THEN 0 ELSE top - 1 - offset + 1
      BY <2>1, FS_Interval
    <2> QED
      BY <2>2 DEF I
  <1>15. Cardinality(I) = IF N - offset < 0 THEN 0
                          ELSE IF N - offset < limit THEN N - offset ELSE limit
    <2> HIDE DEF N
    <2>1. CASE N <= offset
      <3>1. top = N /\ offset > top - 1
        BY <1>1, <2>1
      <3> QED
        BY <1>1, <1>14, <2>1, <3>1
    <2>2. CASE offset < N /\ N - offset < limit
      <3>1. top = N /\ ~(offset > top - 1) /\ top - 1 - offset + 1 = N - offset
        BY <1>1, <2>2
      <3> QED
        BY <1>1, <1>14, <2>2, <3>1
    <2>3. CASE offset < N /\ ~(N - offset < limit)
      <3>1. top = offset + limit /\ ~(offset > top - 1) /\ top - 1 - offset + 1 = limit
        BY <1>1, <2>3
      <3> QED
        BY <1>1, <1>14, <2>3, <3>1
    <2> QED
      BY <1>1, <2>1, <2>2, <2>3
  <1> QED
    BY <1>12, <1>15 DEF P

(* Every place is on one of the pages. *)
LEMMA PlaceHasPage ==
    ASSUME NEW limit \in Nat \ {0}, NEW b \in Nat
    PROVE  \E k \in 0 .. b : b >= limit * k /\ b < limit * k + limit
  <1> DEFINE K == {k \in Nat : b < limit * k + limit}
  <1>1. b \in K
    <2>1. limit * b >= b
      OBVIOUS
    <2> QED
      BY <2>1
  <1>2. PICK k \in K : \A m \in K : k <= m
    <2>1. K \in SUBSET Nat /\ K # {}
      BY <1>1
    <2> HIDE DEF K
    <2> QED
      BY <2>1, LeastNatural
  <1>3. k \in 0 .. b
    BY <1>1, <1>2
  <1>4. b >= limit * k
    <2>1. CASE k = 0
      BY <2>1
    <2>2. CASE k # 0
      <3>1. k - 1 \in Nat /\ k - 1 \notin K
        BY <1>2, <2>2
      <3>2. limit * (k - 1) + limit = limit * k
        BY <1>2
      <3> QED
        BY <3>1, <3>2
    <2> QED
      BY <2>1, <2>2
  <1> QED
    BY <1>2, <1>3, <1>4

LEMMA PagesCover ==
    ASSUME NEW S, IsFiniteSet(S), NEW rank \in [S -> Nat],
           \A q, r \in S : rank[q] = rank[r] => q = r,
           NEW limit \in Nat \ {0}, NEW m \in Nat, Cardinality(S) <= m,
           NEW r \in S
    PROVE  \E k \in 0 .. m - 1 : r \in Page(S, rank, limit, limit * k)
  <1> DEFINE N == Cardinality(S)
             f == [x \in S |-> Cardinality({q \in S : rank[q] < rank[x]})]
             b == f[r]
  <1>1. N \in Nat
    BY FS_CardinalityType
  <1>2. f \in Bijection(S, 0 .. N - 1)
    BY PlacesAreNumbers
  <1>3. b \in Nat /\ b < N
    <2>1. f \in [S -> 0 .. N - 1]
      <3> HIDE DEF f, N
      <3> QED
        BY <1>2, Fun_BijectionProperties
    <2> HIDE DEF f, N
    <2> QED
      BY <1>1, <2>1
  <1>4. PICK k \in 0 .. b : b >= limit * k /\ b < limit * k + limit
    <2> HIDE DEF b
    <2> QED
      BY <1>3, PlaceHasPage
  <1>5. k \in 0 .. m - 1
    BY <1>1, <1>3, <1>4
  <1>6. b = Cardinality({q \in S : rank[q] < rank[r]})
    OBVIOUS
  <1>7. r \in Page(S, rank, limit, limit * k)
    <2> HIDE DEF b
    <2> QED
      BY <1>4, <1>6 DEF Page
  <1> QED
    BY <1>5, <1>7

(* The log never holds more rows than AUTOINCREMENT gave numbers. *)
LEMMA RowsAreFew ==
    ASSUME GraphInv, NEW rows \in SUBSET committed
    PROVE  IsFiniteSet(rows) /\ Cardinality(rows) <= MaxSeq
  <1> DEFINE f == [r \in rows |-> r.seq]
             T == 1 .. MaxSeq
  <1>1. /\ MaxSeq \in Nat /\ autoinc \in Nat /\ autoinc <= MaxSeq
        /\ \A r \in committed : r.seq \in Nat \ {0} /\ r.seq <= autoinc
        /\ \A q, r \in committed : q.seq = r.seq => q = r
    BY BoundAssumption DEF GraphInv, LogInv, LogTypeOK, Event
  <1>2. f \in [rows -> T] /\ \A q, r \in rows : f[q] = f[r] => q = r
    BY <1>1
  <1>3. IsFiniteSet(T) /\ Cardinality(T) = MaxSeq
    <2>1. 1 \in Int /\ MaxSeq \in Int
      BY <1>1
    <2>2. IsFiniteSet(T) /\ Cardinality(T) = IF 1 > MaxSeq THEN 0 ELSE MaxSeq - 1 + 1
      BY <2>1, FS_Interval
    <2> QED
      BY <1>1, <2>2
  <1> HIDE DEF f, T
  <1>4. f \in Injection(rows, T)
    BY <1>2, Fun_IsInj
  <1> QED
    BY <1>3, <1>4, FS_Injection

(* Rows of the log have as many edges: an edge carries its seq. *)
LEMMA EdgesOfRows ==
    ASSUME GraphInv, NEW rows \in SUBSET committed
    PROVE  Cardinality({ToEdge(r) : r \in rows}) = Cardinality(rows)
  <1> DEFINE E == {ToEdge(r) : r \in rows}
             f == [r \in rows |-> ToEdge(r)]
  <1>1. \A r \in rows : ToEdge(r).seq = r.seq
    BY DEF ToEdge
  <1>2. \A q, r \in rows : q.seq = r.seq => q = r
    BY DEF GraphInv, LogInv
  <1>3. f \in [rows -> E] /\ \A e \in E : \E r \in rows : f[r] = e
    OBVIOUS
  <1>4. \A q, r \in rows : f[q] = f[r] => q = r
    BY <1>1, <1>2
  <1> HIDE DEF f, E
  <1>5. f \in Bijection(rows, E)
    BY <1>3, <1>4, Fun_IsBij
  <1>6. IsFiniteSet(rows)
    BY RowsAreFew
  <1> QED
    BY <1>5, <1>6, FS_Bijection, Fun_ExistsBij DEF E

(* The pages of an answer, whatever order without ties it comes in. *)
LEMMA PagesOfRows ==
    ASSUME GraphInv, NEW rows \in SUBSET committed, NEW rank \in [rows -> Nat],
           \A q, r \in rows : rank[q] = rank[r] => q = r,
           NEW limit \in 1 .. MaxSeq
    PROVE  LET page(offset) == {ToEdge(r) : r \in Page(rows, rank, limit, offset)}
               full == {ToEdge(r) : r \in Page(rows, rank, 0, 0)}
           IN  /\ UNION {page(limit * k) : k \in 0 .. MaxSeq - 1} = full
               /\ \A k \in 0 .. MaxSeq - 1 :
                      LET left == Cardinality(full) - limit * k
                      IN  Cardinality(page(limit * k))
                              = IF left < 0 THEN 0
                                ELSE IF left < limit THEN left ELSE limit
  <1> DEFINE page(offset) == {ToEdge(r) : r \in Page(rows, rank, limit, offset)}
             full == {ToEdge(r) : r \in Page(rows, rank, 0, 0)}
  <1>1. IsFiniteSet(rows) /\ Cardinality(rows) <= MaxSeq /\ MaxSeq \in Nat
    BY RowsAreFew, BoundAssumption
  <1>2. limit \in Nat \ {0}
    BY <1>1
  <1>3. full = {ToEdge(r) : r \in rows}
    BY <1>1, WholePage
  <1>4. \A offset : Page(rows, rank, limit, offset) \subseteq rows
    BY DEF Page
  <1>5. UNION {page(limit * k) : k \in 0 .. MaxSeq - 1} = full
    <2>1. \A r \in rows : \E k \in 0 .. MaxSeq - 1 :
              r \in Page(rows, rank, limit, limit * k)
      BY <1>1, <1>2, PagesCover
    <2>2. ASSUME NEW e \in full
          PROVE  e \in UNION {page(limit * k) : k \in 0 .. MaxSeq - 1}
      <3>1. PICK r \in rows : e = ToEdge(r)
        BY <1>3
      <3>2. PICK k \in 0 .. MaxSeq - 1 : r \in Page(rows, rank, limit, limit * k)
        BY <2>1
      <3>3. e \in page(limit * k)
        BY <3>1, <3>2
      <3> HIDE DEF page
      <3> QED
        BY <3>2, <3>3
    <2>3. \A k \in 0 .. MaxSeq - 1 : page(limit * k) \subseteq full
      BY <1>3, <1>4
    <2> HIDE DEF page, full
    <2> QED
      BY <2>2, <2>3
  <1>6. ASSUME NEW k \in 0 .. MaxSeq - 1
        PROVE  LET left == Cardinality(full) - limit * k
               IN  Cardinality(page(limit * k))
                       = IF left < 0 THEN 0 ELSE IF left < limit THEN left ELSE limit
    <2> DEFINE offset == limit * k
               P == Page(rows, rank, limit, offset)
    <2>1. offset \in Nat
      BY <1>1, <1>2
    <2> HIDE DEF offset
    <2>2. LET left == Cardinality(rows) - offset
          IN  Cardinality(P)
                  = IF left < 0 THEN 0 ELSE IF left < limit THEN left ELSE limit
      BY <1>1, <1>2, <2>1, PageSize
    <2>3. P \in SUBSET committed
      BY <1>4
    <2>4. Cardinality(page(offset)) = Cardinality(P)
      <3> HIDE DEF P
      <3>1. Cardinality({ToEdge(r) : r \in P}) = Cardinality(P)
        BY <2>3, EdgesOfRows
      <3> QED
        BY <3>1 DEF P
    <2>5. Cardinality(full) = Cardinality(rows)
      BY <1>3, EdgesOfRows
    <2> HIDE DEF P, page, full
    <2> QED
      BY <2>2, <2>4, <2>5 DEF offset
  <1> QED
    BY <1>5, <1>6

(* A replay answers one row per key. *)
LEMMA ReplayKeysDiffer ==
    ASSUME GraphInv, NEW t,
           NEW q \in ReplayAsOf(events, EdgeCollection, ZeroTime, t),
           NEW r \in ReplayAsOf(events, EdgeCollection, ZeroTime, t)
    PROVE  q \in committed /\ q.key \in Keys /\ (q.key = r.key => q = r)
  <1> DEFINE V(k) == Versions(events, <<EdgeCollection, k>>)
             C(k) == Candidates(V(k), ZeroTime, t)
  <1>1. /\ events \subseteq committed
        /\ \A e \in committed : e.seq \in Nat /\ e.validFrom \in Nat /\ e.key \in Keys
        /\ \A e, f \in committed : e.seq = f.seq => e = f
    BY DEF GraphInv, LogInv, LogTypeOK, Event, Instant
  <1>2. ASSUME NEW e \in ReplayAsOf(events, EdgeCollection, ZeroTime, t)
        PROVE  /\ e \in C(e.key) /\ e \in committed
               /\ \A f \in C(e.key) : ~EarlierVersion(e, f)
    <2>1. PICK k \in Keys : e \in AsOf(events, <<EdgeCollection, k>>, ZeroTime, t)
      BY DEF ReplayAsOf
    <2>2. e \in C(k) /\ \A f \in C(k) : ~EarlierVersion(e, f)
      BY <2>1 DEF AsOf, Visible
    <2>3. e \in events /\ Doc(e) = <<EdgeCollection, k>>
      BY <2>2 DEF Candidates, Versions
    <2>4. e.key = k
      BY <2>3 DEF Doc
    <2> HIDE DEF C
    <2> QED
      BY <1>1, <2>2, <2>3, <2>4
  <1> HIDE DEF C
  <1>3. q \in committed /\ r \in committed
    BY <1>2
  <1>4. ASSUME q.key = r.key PROVE q = r
    <2>1. ~EarlierVersion(q, r) /\ ~EarlierVersion(r, q)
      BY <1>2, <1>4
    <2>2. q.seq = r.seq
      BY <1>1, <1>3, <2>1 DEF EarlierVersion
    <2> QED
      BY <1>1, <1>3, <2>2
  <1> QED
    BY <1>1, <1>3, <1>4

LEMMA GraphInvPages == GraphInv => PagesAddUp
  <1> SUFFICES ASSUME GraphInv, NEW n \in Nodes
               PROVE  /\ LET P(limit, offset) == Related(n, {}, "both", limit, offset)
                         IN  Pages(P, Related(n, {}, "both", 0, 0))
                      /\ LET P(limit, offset) ==
                                 RelatedAsOf(n, {}, "both", now, limit, offset)
                         IN  Pages(P, RelatedAsOf(n, {}, "both", now, 0, 0))
    BY DEF PagesAddUp
  <1>1. LET P(limit, offset) == Related(n, {}, "both", limit, offset)
        IN  Pages(P, Related(n, {}, "both", 0, 0))
    <2> DEFINE rows == {r \in live : /\ r.collection = EdgeCollection
                                     /\ r.op # OpDelete
                                     /\ DirectionClause("both", r.value.meta, n)
                                     /\ TypeListed(r.value.meta, {})}
               rank == [r \in rows |-> r.seq]
    <2>1. rows \in SUBSET committed
      BY DEF GraphInv, LogInv, LatestOf
    <2>2. rank \in [rows -> Nat] /\ \A q, r \in rows : rank[q] = rank[r] => q = r
      <3>1. \A r \in rows : r.seq \in Nat
        BY <2>1 DEF GraphInv, LogInv, LogTypeOK, Event
      <3>2. \A q, r \in rows : q.seq = r.seq => q = r
        BY <2>1 DEF GraphInv, LogInv
      <3> HIDE DEF rows
      <3> QED
        BY <3>1, <3>2
    <2>3. \A limit, offset : Related(n, {}, "both", limit, offset)
              = {ToEdge(r) : r \in Page(rows, rank, limit, offset)}
      BY DEF Related
    <2> HIDE DEF rows, rank
    <2>4. ASSUME NEW limit \in 1 .. MaxSeq
          PROVE  /\ UNION {Related(n, {}, "both", limit, limit * k) : k \in 0 .. MaxSeq - 1}
                        = Related(n, {}, "both", 0, 0)
                 /\ \A k \in 0 .. MaxSeq - 1 :
                        LET left == Cardinality(Related(n, {}, "both", 0, 0)) - limit * k
                        IN  Cardinality(Related(n, {}, "both", limit, limit * k))
                                = IF left < 0 THEN 0
                                  ELSE IF left < limit THEN left ELSE limit
      <3> DEFINE page(k) == {ToEdge(r) : r \in Page(rows, rank, limit, limit * k)}
                 full == {ToEdge(r) : r \in Page(rows, rank, 0, 0)}
      <3>1. /\ UNION {page(k) : k \in 0 .. MaxSeq - 1} = full
            /\ \A k \in 0 .. MaxSeq - 1 :
                   LET left == Cardinality(full) - limit * k
                   IN  Cardinality(page(k))
                           = IF left < 0 THEN 0
                             ELSE IF left < limit THEN left ELSE limit
        <4>1. rows \in SUBSET committed /\ rank \in [rows -> Nat]
              /\ \A q, r \in rows : rank[q] = rank[r] => q = r
          BY <2>1, <2>2
        <4> QED
          BY <4>1, PagesOfRows
      <3>2. full = Related(n, {}, "both", 0, 0)
        BY <2>3
      <3>3. \A k : page(k) = Related(n, {}, "both", limit, limit * k)
        BY <2>3
      <3> HIDE DEF page, full
      <3>4. {page(k) : k \in 0 .. MaxSeq - 1}
                = {Related(n, {}, "both", limit, limit * k) : k \in 0 .. MaxSeq - 1}
        BY <3>3
      <3> QED
        BY <3>1, <3>2, <3>3, <3>4
    <2> QED
      BY <2>4 DEF Pages
  <1>2. LET P(limit, offset) == RelatedAsOf(n, {}, "both", now, limit, offset)
        IN  Pages(P, RelatedAsOf(n, {}, "both", now, 0, 0))
    <2> DEFINE rows == {r \in ReplayAsOf(events, EdgeCollection, ZeroTime, now) :
                           /\ DirectionMatches("both", r.value.meta, n)
                           /\ TypeListed(r.value.meta, {})}
               rank == [r \in rows |-> KeyRank[r.key]]
    <2>1. /\ rows \in SUBSET committed
          /\ \A r \in rows : r.key \in Keys
          /\ \A q, r \in rows : q.key = r.key => q = r
      BY ReplayKeysDiffer
    <2> HIDE DEF rows
    <2>2. rank \in [rows -> Nat] /\ \A q, r \in rows : rank[q] = rank[r] => q = r
      BY <2>1, GraphAssumption
    <2>3. \A limit, offset : RelatedAsOf(n, {}, "both", now, limit, offset)
              = {ToEdge(r) : r \in Page(rows, rank, limit, offset)}
      BY DEF RelatedAsOf, rows
    <2> HIDE DEF rank
    <2>4. ASSUME NEW limit \in 1 .. MaxSeq
          PROVE  /\ UNION {RelatedAsOf(n, {}, "both", now, limit, limit * k) : k \in 0 .. MaxSeq - 1}
                        = RelatedAsOf(n, {}, "both", now, 0, 0)
                 /\ \A k \in 0 .. MaxSeq - 1 :
                        LET left == Cardinality(RelatedAsOf(n, {}, "both", now, 0, 0)) - limit * k
                        IN  Cardinality(RelatedAsOf(n, {}, "both", now, limit, limit * k))
                                = IF left < 0 THEN 0
                                  ELSE IF left < limit THEN left ELSE limit
      <3> DEFINE page(k) == {ToEdge(r) : r \in Page(rows, rank, limit, limit * k)}
                 full == {ToEdge(r) : r \in Page(rows, rank, 0, 0)}
      <3>1. /\ UNION {page(k) : k \in 0 .. MaxSeq - 1} = full
            /\ \A k \in 0 .. MaxSeq - 1 :
                   LET left == Cardinality(full) - limit * k
                   IN  Cardinality(page(k))
                           = IF left < 0 THEN 0
                             ELSE IF left < limit THEN left ELSE limit
        <4>1. rows \in SUBSET committed /\ rank \in [rows -> Nat]
              /\ \A q, r \in rows : rank[q] = rank[r] => q = r
          BY <2>1, <2>2
        <4> QED
          BY <4>1, PagesOfRows
      <3>2. full = RelatedAsOf(n, {}, "both", now, 0, 0)
        BY <2>3
      <3>3. \A k : page(k) = RelatedAsOf(n, {}, "both", now, limit, limit * k)
        BY <2>3
      <3> HIDE DEF page, full
      <3>4. {page(k) : k \in 0 .. MaxSeq - 1}
                = {RelatedAsOf(n, {}, "both", now, limit, limit * k) : k \in 0 .. MaxSeq - 1}
        BY <3>3
      <3> QED
        BY <3>1, <3>2, <3>3, <3>4
    <2> QED
      BY <2>4 DEF Pages
  <1> QED
    BY <1>1, <1>2

(* PagesAddUp: the pages of RELATED and of RELATED ... AS OF now are full, *)
(* overlap in nothing and add up to the answer, though one is cut in seq   *)
(* order and the other in the order of the keys' hashes.                   *)
THEOREM RelatedPagesAddUp == Spec => []PagesAddUp
  BY GraphInvPages, GraphInductive, PTL
=============================================================================
