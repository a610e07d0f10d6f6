------------------------------ MODULE Replica -------------------------------
(***************************************************************************)
(* What the backup stream is meant to be: a copy of the log that grows one *)
(* event at a time in commit order, passes over an event only if a PURGE   *)
(* reached its commit time, and loses lines only to such a PURGE.  It may  *)
(* lag behind the log by any amount.                                       *)
(***************************************************************************)
EXTENDS Naturals

VARIABLES
    log,      \* every event committed
    copy,     \* the events in the copy
    cutoffs   \* the instants that PURGE statements have named

replicaVars == <<log, copy, cutoffs>>

Reached(e) == \E t \in cutoffs : e.txTime < t

ReplicaInit ==
    /\ log = {}
    /\ copy = {}
    /\ cutoffs = {}

CommitNext ==
    /\ \E e \in log' :
           /\ \A f \in log : f.seq < e.seq
           /\ log' = log \cup {e}
    /\ UNCHANGED <<copy, cutoffs>>

NameCutoff ==
    /\ \E t \in cutoffs' : cutoffs' = cutoffs \cup {t}
    /\ UNCHANGED <<log, copy>>

CopyNext ==
    /\ \E e \in log \ copy :
           /\ \A f \in copy : f.seq < e.seq
           /\ \A f \in log \ copy : f.seq < e.seq => Reached(f)
           /\ copy' = copy \cup {e}
    /\ UNCHANGED <<log, cutoffs>>

Prune ==
    /\ \E t \in cutoffs : copy' = {e \in copy : e.txTime >= t}
    /\ UNCHANGED <<log, cutoffs>>

ReplicaNext == CommitNext \/ NameCutoff \/ CopyNext \/ Prune

ReplicaSpec == ReplicaInit /\ [][ReplicaNext]_replicaVars
=============================================================================
