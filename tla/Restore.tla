------------------------------ MODULE Restore -------------------------------
(***************************************************************************)
(* backup.Restore, evaluated in every state of Backup, and what the        *)
(* backup promises.  Restore reads files only, so it is an operator: the   *)
(* set of outcomes it may have, each an ok flag and a database.            *)
(***************************************************************************)
EXTENDS Backup, Folds

(* latestSnapshotBefore: the highest seq among the snapshots whose name is *)
(* at or before target (all of them if target is zero).  Names with the    *)
(* same seq and different seconds are ordered by an unstable sort.         *)
LatestSnapshots(target) ==
    LET Q == {s \in snapshots : target = ZeroTime \/ s.at <= target}
    IN  {s \in Q : \A q \in Q : q.seq <= s.seq}

(* The database the replay starts from and the seq it starts after.  A     *)
(* copy that has only just been created is an empty file, which SQLite     *)
(* opens as an empty database.                                             *)
Bases(target) ==
    IF LatestSnapshots(target) = {}
    THEN {[seq |-> 0, db |-> EmptyDB]}
    ELSE {[seq |-> s.seq, db |-> IF s.whole THEN s.db ELSE EmptyDB] :
              s \in LatestSnapshots(target)}

(* Mutant: the snapshot's own last event is replayed again. *)
ReadShippedEventsFrom(afterSeq, target) ==
    {l \in stream : /\ l.ev.seq >= afterSeq
                    /\ target = ZeroTime \/ l.ev.txTime <= target}

(* readShippedEvents: the lines after the base's seq, up to target. *)
ReadShippedEvents(afterSeq, target) ==
    {l \in stream : /\ l.ev.seq > afterSeq
                    /\ target = ZeroTime \/ l.ev.txTime <= target}

(* Store.RestoreEvent: an explicit seq, refused if the table has it; live  *)
(* only moves to a higher seq.  The first error ends Restore.              *)
RestoreEvent(e, o) ==
    IF ~o.ok \/ \E f \in o.db.events : f.seq = e.seq
    THEN [o EXCEPT !.ok = FALSE]
    ELSE [ok |-> TRUE,
          db |-> [events  |-> o.db.events \cup {e},
                  live    |-> UpsertIfNewer(o.db.live, e),
                  autoinc |-> IF e.seq > o.db.autoinc THEN e.seq
                              ELSE o.db.autoinc]]

(* Lines are replayed in file order. *)
Replay(db, lines) ==
    MapThenFoldSet(RestoreEvent, [ok |-> TRUE, db |-> db],
                   LAMBDA l : l.ev,
                   LAMBDA S : CHOOSE l \in S : \A m \in S : m.no <= l.no,
                   lines)

Failed == [ok |-> FALSE, db |-> EmptyDB]

(* Restore into an empty directory. *)
RestoreTo(target) ==
    IF torn THEN {Failed}
    ELSE {Replay(b.db, ReadShippedEvents(b.seq, target)) : b \in Bases(target)}
         \cup {Failed : s \in {s \in LatestSnapshots(target) : ~s.whole}}

Targets == 0 .. MaxTime
-----------------------------------------------------------------------------
(* No PURGE has ever dropped this event from the primary or the stream. *)
Unpurged(e) == \A p \in purges : e.txTime >= p[2]

(* The stream is in commit order and holds no event twice, across failed   *)
(* writes, crashes, resumed shippers and purges: Restore's explicit seqs   *)
(* would be refused otherwise.                                             *)
StreamAscending ==
    \A l, m \in stream : l.no < m.no => l.ev.seq < m.ev.seq

(* Nothing is skipped: an event at or below the point the shipper has      *)
(* reached, or would resume from, is in the stream unless some PURGE       *)
(* reached its commit time.                                                *)
NothingSkipped ==
    \A e \in committed :
        /\ e.seq <= shipper.lastSeq \/ e.seq <= LastShippedSeq
        /\ Unpurged(e)
        => e \in Shipped(stream)

(* The database holds exactly the first commits, and live their latest. *)
IsPrefix(db) ==
    LET H == {e \in committed : e.seq <= db.autoinc}
    IN  db.events = H /\ db.live = LatestOf(H)

(* A snapshot holds no event past the seq in its name. *)
NamedByHighWater(s) == \A e \in s.db.events : e.seq <= s.seq

(* Whatever was purged, a restore from a decodable stream and a complete   *)
(* snapshot that its name describes meets no seq twice, so it succeeds.    *)
RestoreSucceeds ==
    \A target \in Targets :
        /\ ~torn
        /\ \A s \in LatestSnapshots(target) : s.whole /\ NamedByHighWater(s)
        => \A o \in RestoreTo(target) : o.ok
-----------------------------------------------------------------------------
(* What the documentation says, and the code does not do.                  *)

Quiet ==
    /\ up
    /\ shipper.pc = "idle"
    /\ snapper.pc = "idle"
    /\ \A p \in Purgers : purger[p].pc = "idle"

(* snapshot.go: Snapshot takes one consistent snapshot, named by its       *)
(* high-water seq; so restoring any complete backup replays what comes     *)
(* after the snapshot and succeeds.                                        *)
RestoreAlwaysSucceeds ==
    Quiet /\ ~torn => \A o \in RestoreTo(ZeroTime) : o.ok

(* snapshot.go: a partial snapshot is never mistaken for a finished one;   *)
(* so without purges, and with no copy under way, a successful restore is  *)
(* a prefix.                                                               *)
PartialNeverMistaken ==
    purges = {} /\ snapper.pc # "copying" => \A o \in RestoreTo(ZeroTime) : o.ok => IsPrefix(o.db)

(* sink.go: Purge mirrors PURGE's effect on the primary events table; so   *)
(* a shipped event that is still in the table is still in the stream.      *)
PurgeMirrorsPrimary ==
    Quiet => \A e \in events :
                 e.seq <= shipper.lastSeq => e \in Shipped(stream)

(* README: PURGE leaves the current value untouched; so with everything    *)
(* shipped and a complete snapshot of the present database in the sink, a  *)
(* restore has the current values.                                         *)
RestoreKeepsCurrent ==
    /\ Quiet
    /\ After(shipper.lastSeq) = {}
    /\ \E s \in snapshots : s.whole /\ s.db = DB
    => \A o \in RestoreTo(ZeroTime) : o.ok => o.db.live = live
=============================================================================
