------------------------------ MODULE Recovery ------------------------------
(***************************************************************************)
(* A restored database takes the place of the lost one: the operator runs  *)
(* temporaldb-cli restore into an empty data directory and starts the      *)
(* server on it with the same backup directory.  What was committed and is *)
(* not in it is lost, and AUTOINCREMENT goes on from what is.              *)
(***************************************************************************)
EXTENDS Restore

CONSTANT RecoverTo   \* the targets an operator names; ZeroTime is the latest

ASSUME RecoveryAssumption == RecoverTo \subseteq Targets

(* A snapshot that is fully copied and has no more than its name says. *)
Sound(s) == s.whole /\ NamedByHighWater(s)

(* The recovery starts from the best that the sink has: the latest state,  *)
(* sound snapshots, and none that knows of seqs which AUTOINCREMENT would  *)
(* now give out again.  (After a PURGE of the newest rows a snapshot's     *)
(* name may say less than its sqlite_sequence.)                            *)
Faithful(target, lastSeq) ==
    /\ target = ZeroTime
    /\ \A s \in LatestSnapshots(target) : Sound(s)
    /\ \A s \in snapshots : s.whole => s.db.autoinc <= lastSeq

(* Mutant: the shipper of a recovered server resumes at the database's     *)
(* last seq.                                                               *)
RecoverAtAutoinc(target) ==
    /\ ~up
    /\ \E o \in RestoreTo(target) :
           /\ o.ok
           /\ events' = o.db.events
           /\ live' = o.db.live
           /\ autoinc' = o.db.autoinc
           /\ committed' = {e \in committed : e.seq <= o.db.autoinc}
           /\ shipper' = IdleShipper(o.db.autoinc)
    /\ up' = TRUE
    /\ past' = [past EXCEPT !.clean = @ /\ Faithful(target, autoinc')]
    /\ UNCHANGED <<now, sinkVars, snapper, purger, sweep, purges>>

(* Restore, then run on what it wrote. *)
Recover(target) ==
    /\ ~up
    /\ \E o \in RestoreTo(target) :
           /\ o.ok
           /\ events' = o.db.events
           /\ live' = o.db.live
           /\ autoinc' = o.db.autoinc
           /\ committed' = {e \in committed : e.seq <= o.db.autoinc}
           /\ shipper' = IdleShipper(LastShippedSeq)
    /\ up' = TRUE
    /\ past' = [past EXCEPT !.clean = @ /\ Faithful(target, autoinc')]
    /\ UNCHANGED <<now, sinkVars, snapper, purger, sweep, purges>>

RecoveryNext == Next \/ \E target \in RecoverTo : Recover(target)

RecoverySpec == Init /\ [][RecoveryNext]_vars
-----------------------------------------------------------------------------
(* After any number of faithful recoveries the new primary and the old     *)
(* stream fit together: the shipper has skipped nothing that the database  *)
(* holds, and what no PURGE reached is all there, in the log and in live.  *)
(* (After a recovery to an earlier instant they do not: seqs up to         *)
(* LastShippedSeq are given out again and never shipped.)                  *)
RecoveryFitsStream ==
    past.clean => /\ NothingSkipped
                  /\ (\A e \in committed : Unpurged(e)) =>
                         events = committed /\ live = LatestOf(committed)

(* Without purges, a restore from a complete snapshot that succeeds is a   *)
(* prefix of the commits with the live rows of that prefix, which misses   *)
(* no shipped event up to the target, however often the primary was        *)
(* itself restored from the same backup.                                   *)
RestoreIsPrefix ==
    \A target \in Targets :
        /\ past.clean
        /\ purges = {}
        /\ \A s \in LatestSnapshots(target) : s.whole
        => \A o \in RestoreTo(target) :
               o.ok => /\ IsPrefix(o.db)
                       /\ \A l \in ReadShippedEvents(0, target) :
                              l.ev \in o.db.events
=============================================================================
