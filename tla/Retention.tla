----------------------------- MODULE Retention ------------------------------
(***************************************************************************)
(* What must happen beside the server if it is left to run: every commit   *)
(* reaches the stream, and every event older than the retention period     *)
(* goes, through crashes and failing sweeps.                               *)
(***************************************************************************)
EXTENDS Restore

(* The tickers of shipper and sweep fire for ever, a sink operation under  *)
(* way ends, the mutex is handed to a waiter (sync.Mutex), no collection's *)
(* DELETE fails at every tick, a supervisor starts the server again.       *)
Fairness ==
    /\ WF_vars(ShipRead)
    /\ SF_vars(ShipLock)
    /\ WF_vars(ShipWrite)
    /\ WF_vars(ShipDone)
    /\ WF_vars(SnapDone \/ SnapFail)
    /\ \A p \in Purgers :
           /\ SF_vars(PurgeFilter(p))
           /\ WF_vars(PurgeRename(p) \/ PurgeFail(p))
    /\ WF_vars(SweepList)
    /\ WF_vars(SweepCutoff)
    /\ \A c \in Collections : SF_vars(SweepPurge(c))
    /\ WF_vars(SweepDone)
    /\ WF_vars(Restart)

RetentionSpec == Spec /\ Fairness
-----------------------------------------------------------------------------
Young(e) == e.txTime + Retention >= now

(* Where only the sweep purges, an event younger than the retention period *)
(* is in the log and, once shipped, in the stream: the cutoff of a sweep   *)
(* that is still at work is never ahead of the clock, and a statement for  *)
(* one collection cuts the other's lines no later than that.               *)
RetentionKeepsYoung ==
    Cutoffs = {} =>
        \A e \in committed : Young(e) =>
            /\ e \in events
            /\ e.seq <= shipper.lastSeq => e \in Shipped(stream)

Pending(n) ==
    \E e \in committed : /\ e.seq = n
                         /\ e \notin Shipped(stream)
                         /\ Unpurged(e)

(* Every commit reaches the stream, however crashes, snapshots and purges  *)
(* interleave, unless a PURGE reaches its commit time first.               *)
EventuallyShipped == \A n \in 1 .. MaxSeq : Pending(n) ~> ~Pending(n)

(* Every event older than the retention period goes: no sweep that failed, *)
(* died or was overtaken by commits leaves it for ever.                    *)
OldEventsGo ==
    \A n \in 1 .. MaxSeq :
        (\E e \in events : e.seq = n /\ ~Young(e))
            ~> ~(\E e \in events : e.seq = n /\ ~Young(e))

(* The stream as the copy of Replica. *)
Copy == INSTANCE Replica WITH log <- committed,
                              copy <- Shipped(stream),
                              cutoffs <- {p[2] : p \in purges}

(* Shipper, sink, PURGE, sweep, faults and crashes together implement the  *)
(* abstract replica: step by step the stream changes only by the next      *)
(* event in commit order or by the lines a named PURGE cuts off.           *)
StreamIsReplica == Copy!ReplicaSpec
=============================================================================
