------------------------------- MODULE Backup -------------------------------
(***************************************************************************)
(* internal/backup beside a running server: the Shipper that tails the     *)
(* event log into the FileSink's events.ndjson, the Snapshotter that puts  *)
(* VACUUM INTO copies beside it, PURGE's two halves (the events table,     *)
(* then the stream) as a client or the retention sweep runs them, and what *)
(* a crash leaves for the next start.                                      *)
(*                                                                         *)
(* The database is EventLog, which EventStore implements.  The stream is   *)
(* a set of lines, each with its place in the file; torn says that the     *)
(* file ends in part of a line, which no reader can decode.                *)
(***************************************************************************)
EXTENDS EventLog, FiniteSets

CONSTANTS
    Faults,          \* which of the faults below may happen
    Retention,       \* TEMPORALDB_RETENTION; 0 starts no sweep
    MaxSnapshots,    \* bound: snapshot files in the sink
    MaxPurges,       \* bound: clients PURGE while fewer have been run
    MaxCrashes,      \* bound: crashes of the server
    TicksPerSecond   \* a snapshot's name has whole seconds

FaultKinds == {"ship", "torn", "snapshot", "purge", "delete"}

ASSUME BackupAssumption ==
    /\ Faults \subseteq FaultKinds
    /\ {Retention, MaxSnapshots, MaxPurges, MaxCrashes} \subseteq Nat
    /\ TicksPerSecond \in Nat \ {0}

VARIABLES
    up,         \* is the server process running?
    stream,     \* lines of events.ndjson
    torn,       \* does the file end in a partial line?
    snapshots,  \* files of snapshots/
    sinkMu,     \* FileSink.mu: its holder or "free"
    shipper,    \* Shipper.lastSeq and the locals of shipOnce
    snapper,    \* the locals of Snapshot
    purger,     \* the locals of execPurge and FileSink.Purge, per caller
    sweep,      \* the locals of runRetention's sweep
    purges,     \* history: the PURGE statements run on the primary
    past        \* history: crashes so far, and whether every recovery (see
                \* module Recovery) gave back all that the backup had

sinkVars == <<stream, torn, snapshots, sinkMu>>
backupVars == <<up, sinkVars, shipper, snapper, purger, sweep, purges, past>>
vars == <<logVars, backupVars>>

Database == [events : SUBSET Event, live : SUBSET Event, autoinc : Nat]
EmptyDB == [events |-> {}, live |-> {}, autoinc |-> 0]
DB == [events |-> events, live |-> live, autoinc |-> autoinc]

Line == [no : Nat, ev : Event]
Snapshot == [seq : Nat, at : Nat, whole : BOOLEAN, db : Database]

Shipped(lines) == {l.ev : l \in lines}

IdleShipper(n) == [pc |-> "idle", lastSeq |-> n, batch |-> {}, upto |-> 0]
IdleSnapper == [pc |-> "idle", seq |-> 0, at |-> 0, db |-> EmptyDB]
IdlePurger == [pc |-> "idle", cutoff |-> 0, tmp |-> {}]
IdleSweep == [pc |-> "idle", todo |-> {}, cutoff |-> 0]

(* Who runs PURGE statements; each has its own call of execPurge. *)
Purgers == {"client", "sweep"}

TypeOK ==
    /\ LogTypeOK
    /\ up \in BOOLEAN
    /\ stream \subseteq Line
    /\ torn \in BOOLEAN
    /\ snapshots \subseteq Snapshot
    /\ sinkMu \in {"free", "shipper", "snapper"} \cup Purgers
    /\ shipper \in [pc : {"idle", "read", "writing", "stopped"},
                    lastSeq : Nat, batch : SUBSET Event, upto : Nat]
    /\ snapper \in [pc : {"idle", "counted", "named", "vacuumed", "copying"},
                    seq : Nat, at : Nat, db : Database]
    /\ purger \in [Purgers -> [pc : {"idle", "deleted", "filtered"},
                                cutoff : Nat, tmp : SUBSET Line]]
    /\ sweep \in [pc : {"idle", "listed", "purging"},
                  todo : SUBSET Collections, cutoff : Nat]
    /\ purges \subseteq Collections \X Nat
    /\ past \in [crashes : 0 .. MaxCrashes, clean : BOOLEAN]

Init ==
    /\ LogInit
    /\ up = TRUE
    /\ stream = {}
    /\ torn = FALSE
    /\ snapshots = {}
    /\ sinkMu = "free"
    /\ shipper = IdleShipper(0)
    /\ snapper = IdleSnapper
    /\ purger = [p \in Purgers |-> IdlePurger]
    /\ sweep = IdleSweep
    /\ purges = {}
    /\ past = [crashes |-> 0, clean |-> TRUE]
-----------------------------------------------------------------------------
(* Clients append through the server; time passes. *)
ClientAppends ==
    /\ up
    /\ \E r \in Requests, t \in Clock : AppendEvent(r, t)
    /\ UNCHANGED backupVars

TimePasses ==
    /\ Tick
    /\ UNCHANGED backupVars
-----------------------------------------------------------------------------
(* Shipper *)

(* The rows of After(lastSeq); an empty result ends shipOnce at once. *)
After(s) == {e \in events : e.seq > s}

ShipRead ==
    /\ up
    /\ shipper.pc = "idle"
    /\ After(shipper.lastSeq) # {}
    /\ shipper' = [shipper EXCEPT !.pc = "read",
                                  !.batch = After(shipper.lastSeq),
                                  !.upto = HighWater(After(shipper.lastSeq))]
    /\ UNCHANGED <<logVars, up, sinkVars, snapper, purger, sweep, purges,
                   past>>

(* WriteEvents takes the sink's mutex. *)
ShipLock ==
    /\ shipper.pc = "read"
    /\ sinkMu = "free"
    /\ sinkMu' = "shipper"
    /\ shipper' = [shipper EXCEPT !.pc = "writing"]
    /\ UNCHANGED <<logVars, up, stream, torn, snapshots, snapper, purger,
                   sweep, purges, past>>

NextLine(lines) ==
    IF lines = {} THEN 1
    ELSE 1 + (CHOOSE l \in lines : \A m \in lines : m.no <= l.no).no

(* Mutant: the query has no ORDER BY. *)
ShipWriteUnordered ==
    /\ shipper.pc = "writing"
    /\ \E e \in shipper.batch :
           /\ stream' = stream \cup {[no |-> NextLine(stream), ev |-> e]}
           /\ shipper' = [shipper EXCEPT !.batch = @ \ {e}]
    /\ UNCHANGED <<logVars, up, torn, snapshots, sinkMu, snapper, purger,
                   sweep, purges, past>>

(* One Encode appends one line; rows come in seq order. *)
ShipWrite ==
    /\ shipper.pc = "writing"
    /\ \E e \in shipper.batch :
           /\ \A f \in shipper.batch : e.seq <= f.seq
           /\ stream' = stream \cup {[no |-> NextLine(stream), ev |-> e]}
           /\ shipper' = [shipper EXCEPT !.batch = @ \ {e}]
    /\ UNCHANGED <<logVars, up, torn, snapshots, sinkMu, snapper, purger,
                   sweep, purges, past>>

(* Mutant: lastSeq becomes the log's high-water seq. *)
ShipDoneAtHighWater ==
    /\ shipper.pc = "writing"
    /\ shipper.batch = {}
    /\ sinkMu' = "free"
    /\ shipper' = IdleShipper(autoinc)
    /\ UNCHANGED <<logVars, up, stream, torn, snapshots, snapper, purger,
                   sweep, purges, past>>

(* WriteEvents returned: lastSeq becomes the seq of the batch's last row. *)
ShipDone ==
    /\ shipper.pc = "writing"
    /\ shipper.batch = {}
    /\ sinkMu' = "free"
    /\ shipper' = IdleShipper(shipper.upto)
    /\ UNCHANGED <<logVars, up, stream, torn, snapshots, snapper, purger,
                   sweep, purges, past>>

(* A line may be left half written when the write of it fails. *)
MayTear == {FALSE} \cup IF /\ "torn" \in Faults
                           /\ shipper.pc = "writing"
                           /\ shipper.batch # {}
                        THEN {TRUE} ELSE {}

(* Any error of shipOnce ends Run; main logs it and starts no other.  The  *)
(* write that fails may have left nothing, part of its line, or all of it  *)
(* but the newline, which the decoder does not need.                       *)
ShipFail ==
    /\ up
    /\ "ship" \in Faults
    /\ shipper.pc # "stopped"
    /\ shipper' = [IdleShipper(shipper.lastSeq) EXCEPT !.pc = "stopped"]
    /\ sinkMu' = IF sinkMu = "shipper" THEN "free" ELSE sinkMu
    /\ torn' \in MayTear
    /\ UNCHANGED <<logVars, up, stream, snapshots, snapper, purger, sweep,
                   purges, past>>
-----------------------------------------------------------------------------
(* Snapshotter *)

(* SELECT COALESCE(MAX(seq), 0) FROM events. *)
SnapCount ==
    /\ up
    /\ snapper.pc = "idle"
    /\ Cardinality(snapshots) < MaxSnapshots
    /\ snapper' = [snapper EXCEPT !.pc = "counted", !.seq = HighWater(events)]
    /\ UNCHANGED <<logVars, up, sinkVars, shipper, purger, sweep, purges,
                   past>>

Truncate(t) == t - (t % TicksPerSecond)

(* The file's name: that seq and the current second. *)
SnapName ==
    /\ snapper.pc = "counted"
    /\ snapper' = [snapper EXCEPT !.pc = "named", !.at = Truncate(now)]
    /\ UNCHANGED <<logVars, up, sinkVars, shipper, purger, sweep, purges,
                   past>>

(* VACUUM INTO copies the database as it is now. *)
SnapVacuum ==
    /\ snapper.pc = "named"
    /\ snapper' = [snapper EXCEPT !.pc = "vacuumed", !.db = DB]
    /\ UNCHANGED <<logVars, up, sinkVars, shipper, purger, sweep, purges,
                   past>>

(* The sink's file of that name, replacing one of the same name. *)
Store(whole) ==
    snapshots' =
        {s \in snapshots : ~(s.seq = snapper.seq /\ s.at = snapper.at)}
        \cup {[seq |-> snapper.seq, at |-> snapper.at, whole |-> whole,
               db |-> snapper.db]}

(* WriteSnapshot locks the sink and copyFile creates the final file. *)
SnapCreate ==
    /\ snapper.pc = "vacuumed"
    /\ sinkMu = "free"
    /\ sinkMu' = "snapper"
    /\ Store(FALSE)
    /\ snapper' = [snapper EXCEPT !.pc = "copying"]
    /\ UNCHANGED <<logVars, up, stream, torn, shipper, purger, sweep, purges,
                   past>>

(* The copy is complete. *)
SnapDone ==
    /\ snapper.pc = "copying"
    /\ Store(TRUE)
    /\ sinkMu' = "free"
    /\ snapper' = IdleSnapper
    /\ UNCHANGED <<logVars, up, stream, torn, shipper, purger, sweep, purges,
                   past>>

(* An error of Snapshot is logged and the next interval tries again; what  *)
(* copyFile had created stays.                                             *)
SnapFail ==
    /\ "snapshot" \in Faults
    /\ snapper.pc # "idle"
    /\ snapper' = IdleSnapper
    /\ sinkMu' = IF sinkMu = "snapper" THEN "free" ELSE sinkMu
    /\ UNCHANGED <<logVars, up, stream, torn, snapshots, shipper, purger,
                   sweep, purges, past>>
-----------------------------------------------------------------------------
(* PURGE *)

(* execPurge, first half: the DELETE on the primary. *)
PurgeDelete(p, c, cutoff) ==
    /\ purger[p].pc = "idle"
    /\ Purge(c, cutoff)
    /\ purger' = [purger EXCEPT ![p].pc = "deleted", ![p].cutoff = cutoff]
    /\ purges' = purges \cup {<<c, cutoff>>}
    /\ UNCHANGED <<up, sinkVars, shipper, snapper, past>>

(* A client's PURGE. *)
ClientPurges ==
    /\ up
    /\ Cardinality(purges) < MaxPurges
    /\ \E c \in Collections, cutoff \in Cutoffs :
           PurgeDelete("client", c, cutoff)
    /\ UNCHANGED sweep

(* Mutant: the stream is filtered without the sink's mutex. *)
PurgeFilterUnlocked(p) ==
    /\ purger[p].pc = "deleted"
    /\ ~torn
    /\ purger' = [purger EXCEPT
                     ![p].pc = "filtered",
                     ![p].tmp = {l \in stream :
                                     l.ev.txTime >= purger[p].cutoff}]
    /\ UNCHANGED <<logVars, up, sinkVars, shipper, snapper, sweep, purges,
                   past>>

(* FileSink.Purge, under the sink's mutex: every line not before the       *)
(* cutoff goes to a temporary file, whatever its collection.               *)
PurgeFilter(p) ==
    /\ purger[p].pc = "deleted"
    /\ sinkMu = "free"
    /\ ~torn
    /\ sinkMu' = p
    /\ purger' = [purger EXCEPT
                     ![p].pc = "filtered",
                     ![p].tmp = {l \in stream :
                                     l.ev.txTime >= purger[p].cutoff}]
    /\ UNCHANGED <<logVars, up, stream, torn, snapshots, shipper, snapper,
                   sweep, purges, past>>

(* The rename over events.ndjson. *)
PurgeRename(p) ==
    /\ purger[p].pc = "filtered"
    /\ stream' = purger[p].tmp
    /\ sinkMu' = "free"
    /\ purger' = [purger EXCEPT ![p] = IdlePurger]
    /\ UNCHANGED <<logVars, up, torn, snapshots, shipper, snapper, sweep,
                   purges, past>>

(* An undecodable stream or an I/O error: the statement reports an error,  *)
(* the stream is as it was, and the primary stays purged.                  *)
PurgeFail(p) ==
    /\ purger[p].pc # "idle"
    /\ torn \/ "purge" \in Faults
    /\ purger' = [purger EXCEPT ![p] = IdlePurger]
    /\ sinkMu' = IF sinkMu = p THEN "free" ELSE sinkMu
    /\ UNCHANGED <<logVars, up, stream, torn, snapshots, shipper, snapper,
                   sweep, purges, past>>
-----------------------------------------------------------------------------
(* Retention sweep *)

(* SELECT DISTINCT collection FROM events. *)
SweepList ==
    /\ up
    /\ Retention > 0
    /\ sweep.pc = "idle"
    /\ events # {}
    /\ sweep' = [sweep EXCEPT !.pc = "listed",
                              !.todo = {e.collection : e \in events}]
    /\ UNCHANGED <<logVars, up, sinkVars, shipper, snapper, purger, purges,
                   past>>

(* Mutant: the retention period is not subtracted. *)
SweepCutoffNow ==
    /\ sweep.pc = "listed"
    /\ sweep' = [sweep EXCEPT !.pc = "purging", !.cutoff = now]
    /\ UNCHANGED <<logVars, up, sinkVars, shipper, snapper, purger, purges,
                   past>>

(* cutoff := time.Now().Add(-retention); an instant before the first one   *)
(* cuts nothing.                                                           *)
SweepCutoff ==
    /\ sweep.pc = "listed"
    /\ sweep' = [sweep EXCEPT !.pc = "purging",
                              !.cutoff = IF now > Retention
                                         THEN now - Retention ELSE ZeroTime]
    /\ UNCHANGED <<logVars, up, sinkVars, shipper, snapper, purger, purges,
                   past>>

(* The PURGE of one listed collection, when the one before it returned. *)
SweepPurge(c) ==
    /\ sweep.pc = "purging"
    /\ c \in sweep.todo
    /\ PurgeDelete("sweep", c, sweep.cutoff)
    /\ sweep' = [sweep EXCEPT !.todo = @ \ {c}]

(* Mutant: its DELETE fails and the sweeping goroutine returns. *)
SweepSkipReturns(c) ==
    /\ "delete" \in Faults
    /\ sweep.pc = "purging"
    /\ c \in sweep.todo
    /\ purger["sweep"].pc = "idle"
    /\ sweep' = [IdleSweep EXCEPT !.pc = "returned"]
    /\ UNCHANGED <<logVars, up, sinkVars, shipper, snapper, purger, purges,
                   past>>

(* Its DELETE fails: the sweep goes on with the next collection. *)
SweepSkip(c) ==
    /\ "delete" \in Faults
    /\ sweep.pc = "purging"
    /\ c \in sweep.todo
    /\ purger["sweep"].pc = "idle"
    /\ sweep' = [sweep EXCEPT !.todo = @ \ {c}]
    /\ UNCHANGED <<logVars, up, sinkVars, shipper, snapper, purger, purges,
                   past>>

(* The sweep waits for the next tick. *)
SweepDone ==
    /\ sweep.pc = "purging"
    /\ sweep.todo = {}
    /\ purger["sweep"].pc = "idle"
    /\ sweep' = IdleSweep
    /\ UNCHANGED <<logVars, up, sinkVars, shipper, snapper, purger, purges,
                   past>>
-----------------------------------------------------------------------------
(* The server dies: goroutines, their locals and the mutexes are gone;     *)
(* files and committed rows stay.                                          *)
Crash ==
    /\ up
    /\ past.crashes < MaxCrashes
    /\ past' = [past EXCEPT !.crashes = @ + 1]
    /\ up' = FALSE
    /\ torn' \in {torn \/ t : t \in MayTear}
    /\ sinkMu' = "free"
    /\ shipper' = IdleShipper(0)
    /\ snapper' = IdleSnapper
    /\ purger' = [p \in Purgers |-> IdlePurger]
    /\ sweep' = IdleSweep
    /\ UNCHANGED <<logVars, stream, snapshots, purges>>

(* The highest seq in the stream. *)
LastShippedSeq == HighWater(Shipped(stream))

(* Mutant: the shipper starts over from 0. *)
RestartFromZero ==
    /\ ~up
    /\ ~torn
    /\ up' = TRUE
    /\ shipper' = IdleShipper(0)
    /\ UNCHANGED <<logVars, sinkVars, snapper, purger, sweep, purges, past>>

(* run resumes the shipper at LastShippedSeq; a stream it cannot decode    *)
(* makes the start fail.                                                   *)
Restart ==
    /\ ~up
    /\ ~torn
    /\ up' = TRUE
    /\ shipper' = IdleShipper(LastShippedSeq)
    /\ UNCHANGED <<logVars, sinkVars, snapper, purger, sweep, purges, past>>

Next ==
    \/ ClientAppends \/ TimePasses
    \/ ShipRead \/ ShipLock \/ ShipWrite \/ ShipDone \/ ShipFail
    \/ SnapCount \/ SnapName \/ SnapVacuum \/ SnapCreate \/ SnapDone \/ SnapFail
    \/ ClientPurges
    \/ \E p \in Purgers : PurgeFilter(p) \/ PurgeRename(p) \/ PurgeFail(p)
    \/ SweepList \/ SweepCutoff \/ SweepDone
    \/ \E c \in Collections : SweepPurge(c) \/ SweepSkip(c)
    \/ Crash \/ Restart

Spec == Init /\ [][Next]_vars
=============================================================================
