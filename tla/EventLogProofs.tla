--------------------------- MODULE EventLogProofs ---------------------------
(***************************************************************************)
(* Facts about the tables and the log that the proofs about the store, the *)
(* backup, the graph and the HTTP service share, and the invariant of the  *)
(* log itself.                                                             *)
(***************************************************************************)
EXTENDS EventLog, Induction

(* What every component that writes through the log may rely on: the log   *)
(* is part of the history, autoinc bounds it, a seq names one commit, live *)
(* is the last commit of every document, and with a clock that does not    *)
(* step back commit times follow commit order.                             *)
LogInv ==
    /\ LogTypeOK
    /\ events \subseteq committed
    /\ \A e \in committed : e.seq <= autoinc
    /\ \A e, f \in committed : e.seq = f.seq => e = f
    /\ live = LatestOf(committed)
    /\ ~ClockStepsBack =>
           /\ \A e \in committed : e.txTime <= now
           /\ \A e, f \in committed : e.seq < f.seq => e.txTime <= f.txTime

-----------------------------------------------------------------------------
(* The row Append builds is well typed: the instant is never zero. *)
LEMMA RowType ==
    ASSUME NEW r \in Request, NEW n \in Nat, NEW t \in Instant
    PROVE  /\ Row(r, n + 1, t) \in Event
           /\ Row(r, n + 1, t).seq = n + 1
           /\ Row(r, n + 1, t).txTime = t
  <1>1. /\ r.collection \in Collections
        /\ r.key \in Keys
        /\ r.op \in {OpPut, OpDelete}
        /\ r.op = OpPut => r.value \in Values
        /\ r.validFrom \in Nat
    BY DEF Request, OpPut, OpDelete, ZeroTime
  <1>2. n + 1 \in Nat \ {0}
    OBVIOUS
  <1>3. (IF r.op = OpDelete THEN NoValue ELSE r.value) \in Values \cup {NoValue}
    BY <1>1
  <1>4. (IF r.validFrom = ZeroTime THEN t ELSE r.validFrom) \in Instant
    BY <1>1 DEF Instant
  <1> QED
    BY <1>1, <1>2, <1>3, <1>4 DEF Row, Event

(* Upserting the row with the highest seq yields the latest rows of the    *)
(* extended history: what Append's ON CONFLICT DO UPDATE relies on.        *)
LEMMA UpsertLatest ==
    ASSUME NEW H \in SUBSET Event, NEW e \in Event,
           \A f \in H : f.seq < e.seq,
           NEW L, L = LatestOf(H)
    PROVE  Upsert(L, e) = LatestOf(H \cup {e})
  <1> DEFINE R == LatestOf(H \cup {e})
  <1> USE DEF LatestOf
  <1>0. \A f \in H \cup {e} : f.seq \in Nat
    BY DEF Event
  <1>1. ASSUME NEW g \in Upsert(L, e) PROVE g \in R
    <2>1. CASE g = e
      BY <1>0, <2>1
    <2>2. CASE g \in L /\ Doc(g) # Doc(e)
      BY <2>2
    <2> QED
      BY <1>1, <2>1, <2>2 DEF Upsert
  <1>2. ASSUME NEW g \in R PROVE g \in Upsert(L, e)
    <2>1. CASE g = e
      BY <2>1 DEF Upsert
    <2>2. CASE g # e
      <3>1. g \in H /\ g \in L
        BY <1>2, <2>2
      <3>2. Doc(g) # Doc(e)
        BY <1>0, <1>2, <3>1
      <3> QED
        BY <3>1, <3>2 DEF Upsert
    <2> QED
      BY <2>1, <2>2
  <1> QED
    BY <1>1, <1>2

-----------------------------------------------------------------------------
(* HighWater is the greatest seq of a bounded set of events, and 0 of none *)
(* at all: COALESCE(MAX(seq), 0).                                          *)
LEMMA HighWaterIsMax ==
    ASSUME NEW E \in SUBSET Event, NEW b \in Nat, \A e \in E : e.seq <= b
    PROVE  /\ HighWater(E) \in Nat
           /\ \A e \in E : e.seq <= HighWater(E)
           /\ E = {} => HighWater(E) = 0
           /\ E # {} => \E e \in E : e.seq = HighWater(E)
  <1>1. CASE E = {}
    BY <1>1 DEF HighWater
  <1>2. CASE E # {}
    <2> DEFINE S == {e.seq : e \in E}
    <2>1. S \in SUBSET Nat /\ S # {} /\ \A n \in S : n <= b
      BY <1>2 DEF Event
    <2>2. PICK n \in S : \A m \in S : m <= n
      <3> HIDE DEF S
      <3> QED
        BY <2>1, GreatestNatural
    <2>3. \E e \in E : \A f \in E : f.seq <= e.seq
      BY <2>2
    <2> DEFINE h == CHOOSE e \in E : \A f \in E : f.seq <= e.seq
    <2>4. h \in E /\ \A f \in E : f.seq <= h.seq
      BY <2>3
    <2>5. HighWater(E) = h.seq
      BY <1>2 DEF HighWater
    <2> HIDE DEF h
    <2> QED
      BY <1>2, <2>4, <2>5 DEF Event
  <1> QED
    BY <1>1, <1>2

-----------------------------------------------------------------------------
LEMMA InitLogInv == LogInit => LogInv
  <1> SUFFICES ASSUME LogInit PROVE LogInv
    OBVIOUS
  <1> USE DEF LogInit
  <1>1. LogTypeOK
    BY BoundAssumption DEF LogTypeOK, Clock
  <1> QED
    BY <1>1 DEF LogInv, LatestOf

(* What an append does to the tables. *)
LEMMA AppendFacts ==
    ASSUME LogTypeOK, NEW r \in Requests, NEW t \in Clock, AppendEvent(r, t)
    PROVE  /\ LogTypeOK'
           /\ autoinc' = autoinc + 1
           /\ autoinc' <= MaxSeq
           /\ now' = now
           /\ ~ClockStepsBack => t <= now /\ \A f \in committed : f.txTime <= t
           /\ \E e \in Event : /\ e.seq = autoinc + 1
                               /\ e.txTime = t
                               /\ events' = events \cup {e}
                               /\ live' = Upsert(live, e)
                               /\ committed' = committed \cup {e}
  <1> DEFINE e == Row(r, autoinc + 1, t)
  <1>1. /\ autoinc < MaxSeq
        /\ autoinc' = autoinc + 1
        /\ events' = events \cup {e}
        /\ live' = Upsert(live, e)
        /\ committed' = committed \cup {e}
        /\ now' = now
        /\ ~ClockStepsBack => t <= now /\ \A f \in committed : f.txTime <= t
    BY DEF AppendEvent, CommitRow, NextSeq
  <1>2. r \in Request /\ autoinc \in Nat /\ t \in Instant
    BY BoundAssumption DEF LogTypeOK, Clock, Instant, ZeroTime
  <1>3. e \in Event /\ e.seq = autoinc + 1 /\ e.txTime = t
    BY <1>2, RowType
  <1> HIDE DEF e
  <1>4. live' \subseteq Event
    BY <1>1, <1>3 DEF Upsert, LogTypeOK
  <1>5. autoinc' \in 0 .. MaxSeq /\ autoinc' <= MaxSeq
    BY <1>1, <1>2, BoundAssumption
  <1>6. LogTypeOK'
    BY <1>1, <1>3, <1>4, <1>5 DEF LogTypeOK
  <1> QED
    BY <1>1, <1>3, <1>5, <1>6

LEMMA AppendKeepsLogInv ==
    ASSUME LogInv, NEW r \in Requests, NEW t \in Clock, AppendEvent(r, t)
    PROVE  LogInv'
  <1>1. /\ LogTypeOK'
        /\ autoinc' = autoinc + 1
        /\ now' = now
        /\ ~ClockStepsBack => t <= now /\ \A f \in committed : f.txTime <= t
    BY AppendFacts DEF LogInv
  <1>2. PICK e \in Event : /\ e.seq = autoinc + 1
                           /\ e.txTime = t
                           /\ events' = events \cup {e}
                           /\ live' = Upsert(live, e)
                           /\ committed' = committed \cup {e}
    BY AppendFacts DEF LogInv
  <1>3. autoinc \in Nat /\ t \in Nat /\ committed \in SUBSET Event
    BY BoundAssumption DEF LogInv, LogTypeOK, Clock
  <1>4. \A f \in committed : f.seq \in Nat /\ f.txTime \in Nat /\ f.seq < e.seq
    BY <1>2, <1>3 DEF LogInv, Event, Instant
  <1>5. /\ events' \subseteq committed'
        /\ \A f \in committed' : f.seq <= autoinc'
        /\ \A f, g \in committed' : f.seq = g.seq => f = g
    BY <1>1, <1>2, <1>3, <1>4 DEF LogInv
  <1>6. live' = LatestOf(committed')
    BY <1>2, <1>3, <1>4, UpsertLatest DEF LogInv
  <1>7. ASSUME ~ClockStepsBack
        PROVE  /\ \A f \in committed' : f.txTime <= now'
               /\ \A f, g \in committed' : f.seq < g.seq => f.txTime <= g.txTime
    <2>1. \A f \in committed' : f.txTime <= now'
      BY <1>1, <1>2, <1>7 DEF LogInv
    <2>2. ASSUME NEW f \in committed', NEW g \in committed', f.seq < g.seq
          PROVE  f.txTime <= g.txTime
      BY <1>1, <1>2, <1>3, <1>4, <1>7, <2>2 DEF LogInv
    <2> QED
      BY <2>1, <2>2
  <1> QED
    BY <1>1, <1>5, <1>6, <1>7 DEF LogInv

LEMMA PurgeKeepsLogInv ==
    ASSUME LogInv, NEW c, NEW cutoff, Purge(c, cutoff)
    PROVE  LogInv'
  BY DEF LogInv, LogTypeOK, Purge, DeleteBefore

LEMMA TickKeepsLogInv ==
    ASSUME LogInv, Tick
    PROVE  LogInv'
  <1>1. now \in Nat /\ now' = now + 1 /\ now' \in Clock
    BY BoundAssumption DEF LogInv, LogTypeOK, Tick, Clock
  <1>2. \A e \in committed : e.txTime \in Nat
    BY DEF LogInv, LogTypeOK, Event, Instant
  <1> QED
    BY <1>1, <1>2 DEF LogInv, LogTypeOK, Tick

LEMMA StepBackKeepsLogInv ==
    ASSUME LogInv, StepBack
    PROVE  LogInv'
  <1>1. now' \in Clock
    BY BoundAssumption DEF LogInv, LogTypeOK, StepBack, Clock
  <1> QED
    BY <1>1 DEF LogInv, LogTypeOK, StepBack

LEMMA StutterKeepsLogInv ==
    ASSUME LogInv, UNCHANGED logVars
    PROVE  LogInv'
  BY DEF LogInv, LogTypeOK, logVars

LEMMA LogNextKeepsLogInv == LogInv /\ [LogNext]_logVars => LogInv'
  BY AppendKeepsLogInv, PurgeKeepsLogInv, TickKeepsLogInv,
     StepBackKeepsLogInv, StutterKeepsLogInv DEF LogNext

(* The atomic log keeps its promise for every client and every bound. *)
THEOREM LogInductive == LogSpec => []LogInv
  BY InitLogInv, LogNextKeepsLogInv, PTL DEF LogSpec
=============================================================================
