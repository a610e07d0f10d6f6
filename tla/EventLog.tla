------------------------------ MODULE EventLog ------------------------------
(***************************************************************************)
(* What internal/event promises its callers: Append is one atomic step     *)
(* that extends the log and replaces the document's live row, commit times *)
(* follow commit order, PURGE removes old log rows and nothing else.       *)
(* EventStore implements this specification; Backup is built on it.        *)
(*                                                                         *)
(* committed is a history variable: every row ever committed, purged or    *)
(* not.                                                                    *)
(***************************************************************************)
EXTENDS EventTables

VARIABLES
    events,     \* table events
    live,       \* table live
    autoinc,    \* sqlite_sequence: the last seq AUTOINCREMENT gave out
    now,        \* the wall clock
    committed   \* history: every row ever committed

logVars == <<events, live, autoinc, now, committed>>

LogTypeOK ==
    /\ events \subseteq Event
    /\ live \subseteq Event
    /\ autoinc \in 0 .. MaxSeq
    /\ now \in Clock
    /\ committed \subseteq Event

LogInit ==
    /\ events = {}
    /\ live = {}
    /\ autoinc = 0
    /\ now = 1
    /\ committed = {}

(* Mutant: a plain rowid, one more than the highest row left. *)
NextRowid == HighWater(events) + 1

(* INTEGER PRIMARY KEY AUTOINCREMENT. *)
NextSeq == autoinc + 1

(* One transaction: the insert into events, the upsert of live, COMMIT. *)
CommitRow(r, t) ==
    LET e == Row(r, NextSeq, t)
    IN  /\ autoinc < MaxSeq
        /\ autoinc' = NextSeq
        /\ events' = events \cup {e}
        /\ live' = Upsert(live, e)
        /\ committed' = committed \cup {e}
        /\ now' = now

(* An append commits with an instant that was read while no other append   *)
(* could commit: not in the future and not before an earlier commit.       *)
AppendEvent(r, t) ==
    /\ ~ClockStepsBack => /\ t <= now
                          /\ \A e \in committed : e.txTime <= t
    /\ CommitRow(r, t)

(* execPurge's DELETE; live and sqlite_sequence are left alone. *)
Purge(c, cutoff) ==
    /\ events' = DeleteBefore(events, c, cutoff)
    /\ UNCHANGED <<live, autoinc, now, committed>>

Tick ==
    /\ now < MaxTime
    /\ now' = now + 1
    /\ UNCHANGED <<events, live, autoinc, committed>>

(* An operator or NTP sets the wall clock back. *)
StepBack ==
    /\ ClockStepsBack
    /\ now > 1
    /\ now' = now - 1
    /\ UNCHANGED <<events, live, autoinc, committed>>

LogNext ==
    \/ \E r \in Requests, t \in Clock : AppendEvent(r, t)
    \/ \E c \in Collections, cutoff \in Cutoffs : Purge(c, cutoff)
    \/ Tick
    \/ StepBack

LogSpec == LogInit /\ [][LogNext]_logVars
=============================================================================
