------------------------------ MODULE MCGraph -------------------------------
(***************************************************************************)
(* Graph for TLC.                                                          *)
(***************************************************************************)
EXTENDS Graph, FiniteSetsExt, TLC

CONSTANT Raw

(* A key of the client's own, and the key of some edge. *)
SomeRawKeys ==
    {Raw, CHOOSE k \in Nodes \X Types \X Nodes : k[1] # k[3]}

GraphKeys == (Nodes \X Types \X Nodes) \cup RawKeys

GraphValues ==
    [meta : [from : Nodes, type : Types, to : Nodes] \cup {NoMeta},
     props : Props]

(* What the actions of Graph append. *)
GraphRequests ==
    {Delete(k) : k \in GraphKeys}
    \cup {Put(EdgeKey(v.meta), v) : v \in {w \in GraphValues : w.meta # NoMeta}}
    \cup {Put(k, [meta |-> NoMeta, props |-> p]) : k \in RawKeys, p \in Props}

AllCutoffs == 1 .. MaxTime + 1

(* Some order of the hashes. *)
SomeRank == FoldSet(LAMBDA k, f : f @@ (k :> Cardinality(DOMAIN f)),
                    <<>>, GraphKeys)
=============================================================================
