---------------------------- MODULE MCEventStore ----------------------------
(***************************************************************************)
(* EventStore for TLC.                                                     *)
(***************************************************************************)
EXTENDS EventStore

(* Every put and delete of every document, each put without AT or AT any   *)
(* instant of the clock.                                                   *)
AllRequests == {r \in [collection : Collections, key : Keys,
                       op : {OpPut, OpDelete}, value : Values \cup {NoValue},
                       validFrom : 0 .. MaxTime] :
                    IF r.op = OpPut THEN r.value # NoValue
                    ELSE r.value = NoValue /\ r.validFrom = ZeroTime}

(* The same without AT. *)
UndatedRequests == {r \in AllRequests : r.validFrom = ZeroTime}

(* Any cutoff, up to one after everything. *)
AllCutoffs == 1 .. MaxTime + 1
=============================================================================
