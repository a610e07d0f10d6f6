---------------------------- MODULE EventTables -----------------------------
(***************************************************************************)
(* The two tables of migrations/00001_init.sql and the SQL statements of   *)
(* internal/event over them, as operators on sets of rows.  events is the  *)
(* log; live holds one row per document, its last write.                   *)
(***************************************************************************)
EXTENDS Temporal

(* What a caller hands to Append: a put with or without AT (validFrom 0    *)
(* when absent), or a delete, which every caller sends without value and   *)
(* without a valid time.                                                   *)
Request ==
    [collection : Collections, key : Keys, op : {OpPut}, value : Values,
     validFrom : Nat]
    \cup
    [collection : Collections, key : Keys, op : {OpDelete}, value : {NoValue},
     validFrom : {ZeroTime}]

CONSTANTS
    Requests,        \* the writes clients may issue
    Cutoffs,         \* the instants a PURGE may name
    MaxSeq,          \* bound: the log takes this many commits
    MaxTime,         \* bound: the wall clock stops here
    ClockStepsBack   \* may the wall clock be set back?

ASSUME BoundAssumption ==
    /\ Requests \subseteq Request
    /\ Requests # {}
    /\ Cutoffs \subseteq Nat
    /\ MaxSeq \in Nat
    /\ MaxTime \in Nat \ {0}
    /\ ClockStepsBack \in BOOLEAN

Clock == 1 .. MaxTime

(* Mutant: a write without AT keeps the zero valid time. *)
RowWithoutDefault(r, seq, txTime) ==
    [seq |-> seq, collection |-> r.collection, key |-> r.key, op |-> r.op,
     value |-> r.value, validFrom |-> r.validFrom, txTime |-> txTime]

(* Mutant: AT overrides the commit time too. *)
RowBackdated(r, seq, txTime) ==
    LET t == IF r.validFrom = ZeroTime THEN txTime ELSE r.validFrom
    IN  [seq |-> seq, collection |-> r.collection, key |-> r.key, op |-> r.op,
         value |-> r.value, validFrom |-> t, txTime |-> t]

(* The row Append inserts: seq from AUTOINCREMENT, tx_time the instant     *)
(* read under the mutex, valid_from that instant unless the caller gave    *)
(* one, and no value on a delete.                                          *)
Row(r, seq, txTime) ==
    [seq        |-> seq,
     collection |-> r.collection,
     key        |-> r.key,
     op         |-> r.op,
     value      |-> IF r.op = OpDelete THEN NoValue ELSE r.value,
     validFrom  |-> IF r.validFrom = ZeroTime THEN txTime ELSE r.validFrom,
     txTime     |-> txTime]

(* Mutant: the row with the later valid_from wins. *)
UpsertByValidFrom(live, e) ==
    IF \E r \in live : Doc(r) = Doc(e) /\ r.validFrom > e.validFrom
    THEN live
    ELSE {r \in live : Doc(r) # Doc(e)} \cup {e}

(* INSERT INTO live ... ON CONFLICT(collection, key) DO UPDATE. *)
Upsert(live, e) == {r \in live : Doc(r) # Doc(e)} \cup {e}

(* Mutant: ON CONFLICT DO NOTHING. *)
InsertOrIgnore(live, e) ==
    IF \E r \in live : Doc(r) = Doc(e) THEN live ELSE live \cup {e}

(* The same upsert in RestoreEvent: WHERE excluded.seq > live.seq. *)
UpsertIfNewer(live, e) ==
    IF \E r \in live : Doc(r) = Doc(e) /\ r.seq >= e.seq
    THEN live
    ELSE Upsert(live, e)

(* What live holds after a history of commits: each document's last one. *)
LatestOf(history) ==
    {e \in history : \A f \in history : Doc(f) = Doc(e) => f.seq <= e.seq}

(* DELETE FROM events WHERE collection = c AND tx_time < cutoff. *)
DeleteBefore(events, c, cutoff) ==
    {e \in events : ~(e.collection = c /\ e.txTime < cutoff)}

(* SELECT COALESCE(MAX(seq), 0) over a set of events. *)
HighWater(events) ==
    IF events = {} THEN 0
    ELSE (CHOOSE e \in events : \A f \in events : f.seq <= e.seq).seq

Versions(events, d) == {e \in events : Doc(e) = d}

(* Mutant: deletes are left out. *)
HistoryOfPuts(events, d, from, to) ==
    {e \in Versions(events, d) : e.op # OpDelete /\ from <= e.validFrom /\ e.validFrom <= to}

(* HISTORY ... BETWEEN from AND to: the versions, deletes included, with   *)
(* a valid_from within the closed interval.                                *)
History(events, d, from, to) ==
    {e \in Versions(events, d) : from <= e.validFrom /\ e.validFrom <= to}

(* Store.Get: the live row unless it is a tombstone. *)
Get(live, d) == {r \in live : Doc(r) = d /\ r.op # OpDelete}

(* Store.AsOf: the visible version of the replayed history, a delete       *)
(* counting as nothing.                                                    *)
AsOf(events, d, asOf, validAt) ==
    {e \in Visible(Versions(events, d), asOf, validAt) : e.op # OpDelete}

(* Store.ReplayAsOf: the same for every key of a collection. *)
ReplayAsOf(events, c, asOf, validAt) ==
    UNION {AsOf(events, <<c, k>>, asOf, validAt) : k \in Keys}

(* The rows a FIND without AS OF and without WHERE returns. *)
FindLive(live, c) == {r \in live : r.collection = c /\ r.op # OpDelete}
=============================================================================
