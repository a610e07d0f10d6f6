----------------------------- MODULE EventStore -----------------------------
(***************************************************************************)
(* internal/event.Store as its callers' goroutines run it.  A writer calls *)
(* Append, waits for the store's mutex, reads the clock while holding it,  *)
(* and commits or rolls back one SQLite transaction before unlocking.      *)
(* PURGE and readers use connections of their own and never take the       *)
(* mutex.  The process may die at any time; SQLite keeps what committed.   *)
(***************************************************************************)
EXTENDS EventLog

CONSTANTS
    Writers,   \* goroutines that call Append
    NoWriter   \* the free state of the mutex

ASSUME WriterAssumption == NoWriter \notin Writers

VARIABLES
    mu,      \* Store.mu: its holder or NoWriter
    pc,      \* where each writer is in Append
    arg,     \* its request
    stamp    \* its txTime, zero until it holds mu

writerVars == <<mu, pc, arg, stamp>>
vars == <<logVars, writerVars>>

TypeOK ==
    /\ LogTypeOK
    /\ mu \in Writers \cup {NoWriter}
    /\ pc \in [Writers -> {"idle", "waiting", "holding"}]
    /\ arg \in [Writers -> Requests]
    /\ stamp \in [Writers -> Clock \cup {ZeroTime}]

(* The request of a writer that is not in Append. *)
NoRequest == CHOOSE r \in Requests : TRUE

Init ==
    /\ LogInit
    /\ mu = NoWriter
    /\ pc = [w \in Writers |-> "idle"]
    /\ arg = [w \in Writers |-> NoRequest]
    /\ stamp = [w \in Writers |-> ZeroTime]

(* Append is entered: validation passed, Lock not yet taken. *)
Call(w, r) ==
    /\ pc[w] = "idle"
    /\ pc' = [pc EXCEPT ![w] = "waiting"]
    /\ arg' = [arg EXCEPT ![w] = r]
    /\ UNCHANGED <<logVars, mu, stamp>>

(* Mutant: no Lock. *)
LockNothing(w) ==
    /\ pc[w] = "waiting"
    /\ mu' = w
    /\ pc' = [pc EXCEPT ![w] = "holding"]
    /\ stamp' = [stamp EXCEPT ![w] = now]
    /\ UNCHANGED <<logVars, arg>>

(* s.mu.Lock(), then txTime := time.Now(). *)
Lock(w) ==
    /\ pc[w] = "waiting"
    /\ mu = NoWriter
    /\ mu' = w
    /\ pc' = [pc EXCEPT ![w] = "holding"]
    /\ stamp' = [stamp EXCEPT ![w] = now]
    /\ UNCHANGED <<logVars, arg>>

(* Mutant: the return path forgets the Unlock. *)
KeepLock(w) ==
    /\ mu' = mu
    /\ pc' = [pc EXCEPT ![w] = "idle"]
    /\ arg' = [arg EXCEPT ![w] = NoRequest]
    /\ stamp' = [stamp EXCEPT ![w] = ZeroTime]

(* Leaving Append: the deferred Unlock. *)
Unlock(w) ==
    /\ mu' = NoWriter
    /\ pc' = [pc EXCEPT ![w] = "idle"]
    /\ arg' = [arg EXCEPT ![w] = NoRequest]
    /\ stamp' = [stamp EXCEPT ![w] = ZeroTime]

(* The transaction commits. *)
Commit(w) ==
    /\ pc[w] = "holding"
    /\ CommitRow(arg[w], stamp[w])
    /\ Unlock(w)

(* Mutant: two autocommitted statements; the second one fails. *)
FailAfterInsert(w) ==
    /\ pc[w] = "holding"
    /\ autoinc < MaxSeq
    /\ Unlock(w)
    /\ autoinc' = NextSeq
    /\ events' = events \cup {Row(arg[w], NextSeq, stamp[w])}
    /\ committed' = committed \cup {Row(arg[w], NextSeq, stamp[w])}
    /\ UNCHANGED <<live, now>>

(* Begin, insert, upsert or COMMIT fails (SQLITE_BUSY after busy_timeout,  *)
(* disk full, the request's context cancelled): the deferred Rollback      *)
(* undoes the insert and the AUTOINCREMENT with it.                        *)
Fail(w) ==
    /\ pc[w] = "holding"
    /\ Unlock(w)
    /\ UNCHANGED logVars

(* execPurge's DELETE, on another connection and without Store.mu. *)
ExecPurge(c, cutoff) ==
    /\ Purge(c, cutoff)
    /\ UNCHANGED writerVars

(* The process dies and is started again: open transactions are gone. *)
Crash ==
    /\ mu' = NoWriter
    /\ pc' = [w \in Writers |-> "idle"]
    /\ arg' = [w \in Writers |-> NoRequest]
    /\ stamp' = [w \in Writers |-> ZeroTime]
    /\ UNCHANGED logVars

PassTime ==
    /\ Tick \/ StepBack
    /\ UNCHANGED writerVars

WriterStep(w) ==
    \/ \E r \in Requests : Call(w, r)
    \/ Lock(w)
    \/ Commit(w)
    \/ Fail(w)

Next ==
    \/ \E w \in Writers : WriterStep(w)
    \/ \E c \in Collections, cutoff \in Cutoffs : ExecPurge(c, cutoff)
    \/ Crash
    \/ PassTime

Spec == Init /\ [][Next]_vars
-----------------------------------------------------------------------------
(* live holds, for every document ever written, exactly its last commit:   *)
(* Append's unconditional upsert never lets an older write win, whatever   *)
(* the interleaving, and PURGE never takes a current row away.             *)
LiveIsLatest == live = LatestOf(committed)

(* A seq names one event for ever: AUTOINCREMENT does not hand out again   *)
(* the number of a purged or rolled back row, which the shipper (seq >     *)
(* lastSeq) and RestoreEvent (explicit seq) rely on.                       *)
SeqNamesOneEvent ==
    \A e, f \in committed : e.seq = f.seq => e = f

(* tx_time is monotonic with seq (ADR-001 D3) while the wall clock is:     *)
(* Append reads it after taking the mutex, so no later commit is stamped   *)
(* earlier.                                                                *)
TxTimeMonotonic ==
    \A e, f \in committed : e.seq < f.seq => e.txTime <= f.txTime

TxTimeFollowsSeq == ~ClockStepsBack => TxTimeMonotonic

(* Every document of c was written without AT and none was purged. *)
Undated(c) ==
    /\ \A e \in committed : e.collection = c => e.validFrom = e.txTime
    /\ \A r \in live : r.collection = c => r \in events

(* In such a collection FIND and GET answer from live what FIND and GET    *)
(* AS OF now (or at no instant) answer by replaying events: one path       *)
(* orders by seq, the other by valid_from.                                 *)
LiveAgreesWithReplay ==
    ~ClockStepsBack =>
        \A c \in Collections, at \in {ZeroTime, now} :
            Undated(c) =>
                /\ ReplayAsOf(events, c, ZeroTime, at) = FindLive(live, c)
                /\ \A k \in Keys : AsOf(events, <<c, k>>, ZeroTime, at)
                                        = Get(live, <<c, k>>)

(* HISTORY ... BETWEEN accounts for every answer of GET ... AS OF: the row *)
(* is among the versions up to that instant, and from one instant to the   *)
(* next the answer changes only if a version, or a delete, is listed for   *)
(* the later one.                                                          *)
HistoryExplainsAsOf ==
    \A d \in Docs, at \in Clock :
        LET answer(t) == AsOf(events, d, ZeroTime, t)
        IN  /\ answer(at) \subseteq History(events, d, ZeroTime, at)
            /\ at - 1 \in Clock /\ answer(at) # answer(at - 1)
                   => History(events, d, at, at) # {}

(* No commit still to come can carry a tx_time at or before asOf. *)
Settled(asOf) ==
    /\ asOf < now
    /\ \A w \in Writers : pc[w] = "holding" => asOf < stamp[w]

(* A step that deletes no row changes what the database believed at no     *)
(* settled instant, whatever valid time is asked for.                      *)
KeepsAuditView ==
    ~ClockStepsBack /\ events \subseteq events' =>
        \A d \in Docs, asOf \in Clock, at \in 0 .. MaxTime :
            Settled(asOf) =>
                Visible(Versions(events', d), asOf, at)
                    = Visible(Versions(events, d), asOf, at)

(* The audit view (Visible with a tx_time cutoff) is stable: only a PURGE  *)
(* changes what the database believed at a settled instant.                *)
AuditViewStable == [][KeepsAuditView]_vars

(* The store implements the atomic log of EventLog: whatever the writers,  *)
(* the mutex and the crashes do, the tables change only by whole appends   *)
(* in commit-time order, by purges, or not at all.                         *)
ImplementsEventLog == LogSpec
=============================================================================
