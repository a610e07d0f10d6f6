------------------------------ MODULE Temporal ------------------------------
(***************************************************************************)
(* The event record of internal/temporal and the one visibility rule of    *)
(* the database, temporal.Visible.                                         *)
(*                                                                         *)
(* An instant is a natural number and 0 is Go's zero Time: the encoding    *)
(* temporal.Encode is fixed-width so that the order of the stored strings  *)
(* is the order of the instants, and that order is all the code uses.      *)
(* A value stands for a document together with its meta column: every      *)
(* statement that writes one writes the other, and neither is inspected.   *)
(***************************************************************************)
EXTENDS Naturals

CONSTANTS
    Collections,  \* names of collections
    Keys,         \* keys of documents
    Values,       \* what a put may store (value and meta)
    NoValue       \* the nil value of a delete

ASSUME ValueAssumption == NoValue \notin Values

ZeroTime == 0
Instant == Nat \ {ZeroTime}

OpPut == "put"
OpDelete == "delete"

(* A row of the events table; a row of live carries the same columns, its  *)
(* deleted flag being op = OpDelete.                                       *)
Event ==
    [seq        : Nat \ {0},
     collection : Collections,
     key        : Keys,
     op         : {OpPut, OpDelete},
     value      : Values \cup {NoValue},
     validFrom  : Instant,
     txTime     : Instant]

Doc(e) == <<e.collection, e.key>>

Docs == Collections \X Keys

(* Mutant: a same-instant correction loses to the version it corrects. *)
EarlierVersionFirstWins(e, f) ==
    \/ e.validFrom < f.validFrom
    \/ /\ e.validFrom = f.validFrom
       /\ e.seq > f.seq

(* The order sort.Slice uses: by valid_from, ties by seq. *)
EarlierVersion(e, f) ==
    \/ e.validFrom < f.validFrom
    \/ /\ e.validFrom = f.validFrom
       /\ e.seq < f.seq

(* The versions that survive the tx_time cutoff asOf and start no later    *)
(* than validAt; a zero cutoff does not cut, a zero validAt means asOf.    *)
Candidates(versions, asOf, validAt) ==
    LET at == IF validAt = ZeroTime THEN asOf ELSE validAt
    IN  {e \in versions : /\ asOf # ZeroTime => e.txTime <= asOf
                          /\ at # ZeroTime => e.validFrom <= at}

(* temporal.Visible over the versions of one key: the last candidate of    *)
(* the sorted scan, as a set that is empty when ok is false.               *)
Visible(versions, asOf, validAt) ==
    LET C == Candidates(versions, asOf, validAt)
    IN  {e \in C : \A f \in C : ~EarlierVersion(e, f)}
=============================================================================
