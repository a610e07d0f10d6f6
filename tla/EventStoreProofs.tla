-------------------------- MODULE EventStoreProofs --------------------------
(***************************************************************************)
(* Theorems about EventStore for every set of writers, requests and        *)
(* cutoffs and every bound.  IInv is the inductive invariant; the          *)
(* properties of EventStore follow from it.                                *)
(***************************************************************************)
EXTENDS EventStore, EventLogProofs

(* Exactly the holder of the mutex is past Lock, and it has its stamp. *)
MutexInv ==
    \A w \in Writers : /\ pc[w] = "holding" <=> mu = w
                       /\ pc[w] = "holding" => stamp[w] \in Clock

(* The log is part of the history, which autoinc bounds, and every         *)
(* document of the history has a live row.                                 *)
HistoryInv ==
    /\ events \subseteq committed
    /\ \A e \in committed : e.seq <= autoinc
    /\ \A e \in committed : \E r \in live : Doc(r) = Doc(e)

(* Every commit so far is stamped no later than the clock and than the     *)
(* stamp of the writer that is about to commit.                            *)
StampInv ==
    ~ClockStepsBack =>
        /\ \A e \in committed : e.txTime <= now
        /\ \A w \in Writers :
               pc[w] = "holding" => /\ stamp[w] <= now
                                    /\ \A e \in committed : e.txTime <= stamp[w]

IInv ==
    /\ TypeOK
    /\ MutexInv
    /\ HistoryInv
    /\ LiveIsLatest
    /\ SeqNamesOneEvent
    /\ StampInv
    /\ TxTimeFollowsSeq

-----------------------------------------------------------------------------
LEMMA InitIInv == Init => IInv
  <1> SUFFICES ASSUME Init PROVE IInv
    OBVIOUS
  <1> USE DEF Init, LogInit
  <1>1. 1 \in Clock
    BY BoundAssumption DEF Clock
  <1>2. NoRequest \in Requests
    BY BoundAssumption DEF NoRequest
  <1>3. TypeOK
    BY BoundAssumption, <1>1, <1>2 DEF TypeOK, LogTypeOK
  <1>4. MutexInv
    BY WriterAssumption DEF MutexInv
  <1>5. HistoryInv /\ LiveIsLatest /\ SeqNamesOneEvent
    BY DEF HistoryInv, LiveIsLatest, LatestOf, SeqNamesOneEvent
  <1>6. StampInv /\ TxTimeFollowsSeq
    BY DEF StampInv, TxTimeFollowsSeq, TxTimeMonotonic
  <1> QED
    BY <1>3, <1>4, <1>5, <1>6 DEF IInv

(* Facts about a writer that holds the mutex, used by Commit. *)
LEMMA HolderFacts ==
    ASSUME IInv, NEW w \in Writers, pc[w] = "holding"
    PROVE  /\ arg[w] \in Request
           /\ stamp[w] \in Clock
           /\ stamp[w] \in Instant
           /\ mu = w
           /\ autoinc \in Nat
  BY BoundAssumption DEF IInv, TypeOK, MutexInv, Clock, Instant, ZeroTime,
                         LogTypeOK

LEMMA CommitKeepsIInv ==
    ASSUME IInv, NEW w \in Writers, Commit(w)
    PROVE  IInv'
  <1> DEFINE e == Row(arg[w], autoinc + 1, stamp[w])
  <1>1. /\ pc[w] = "holding"
        /\ autoinc < MaxSeq
        /\ autoinc' = autoinc + 1
        /\ events' = events \cup {e}
        /\ live' = Upsert(live, e)
        /\ committed' = committed \cup {e}
        /\ now' = now
        /\ mu' = NoWriter
        /\ pc' = [pc EXCEPT ![w] = "idle"]
        /\ arg' = [arg EXCEPT ![w] = NoRequest]
        /\ stamp' = [stamp EXCEPT ![w] = ZeroTime]
    BY DEF Commit, CommitRow, NextSeq, Unlock
  <1>2. /\ arg[w] \in Request
        /\ stamp[w] \in Clock
        /\ stamp[w] \in Instant
        /\ mu = w
        /\ autoinc \in Nat
    BY <1>1, HolderFacts
  <1>3. /\ e \in Event
        /\ e.seq = autoinc + 1
        /\ e.txTime = stamp[w]
    BY <1>2, RowType
  <1>4. committed \in SUBSET Event /\ live \in SUBSET Event /\ events \in SUBSET Event
    BY DEF IInv, TypeOK, LogTypeOK
  <1>5. \A f \in committed : f.seq \in Nat /\ f.seq <= autoinc /\ f.seq < e.seq
    BY <1>2, <1>3, <1>4 DEF IInv, HistoryInv, Event
  <1> HIDE DEF e
  <1>6. TypeOK'
    <2>1. NoRequest \in Requests
      BY BoundAssumption DEF NoRequest
    <2>2. live' \subseteq Event
      BY <1>1, <1>3, <1>4 DEF Upsert
    <2>3. autoinc' \in 0 .. MaxSeq
      BY <1>1, <1>2, BoundAssumption
    <2> QED
      BY <1>1, <1>3, <1>4, <2>1, <2>2, <2>3 DEF IInv, TypeOK, LogTypeOK
  <1>7. MutexInv'
    BY <1>1, <1>2, WriterAssumption DEF IInv, MutexInv, TypeOK
  <1>8. HistoryInv'
    <2>1. events' \subseteq committed' /\ \A f \in committed' : f.seq <= autoinc'
      BY <1>1, <1>2, <1>3, <1>5 DEF IInv, HistoryInv
    <2>2. ASSUME NEW f \in committed' PROVE \E r \in live' : Doc(r) = Doc(f)
      <3>1. CASE Doc(f) = Doc(e)
        BY <1>1, <3>1 DEF Upsert
      <3>2. CASE Doc(f) # Doc(e)
        BY <1>1, <3>2 DEF Upsert, IInv, HistoryInv
      <3> QED
        BY <3>1, <3>2
    <2> QED
      BY <2>1, <2>2 DEF HistoryInv
  <1>9. LiveIsLatest'
    <2>1. live = LatestOf(committed)
      BY DEF IInv, LiveIsLatest
    <2>2. Upsert(live, e) = LatestOf(committed \cup {e})
      BY <1>3, <1>4, <1>5, <2>1, UpsertLatest
    <2> QED
      BY <1>1, <2>2 DEF LiveIsLatest
  <1>10. SeqNamesOneEvent'
    BY <1>1, <1>3, <1>5 DEF IInv, SeqNamesOneEvent
  <1>11. StampInv'
    <2> SUFFICES ASSUME ~ClockStepsBack
                 PROVE  /\ \A f \in committed' : f.txTime <= now'
                        /\ \A x \in Writers : pc'[x] # "holding"
      BY DEF StampInv
    <2>1. \A f \in committed' : f.txTime <= now'
      BY <1>1, <1>3 DEF IInv, StampInv
    <2>2. \A x \in Writers : pc'[x] # "holding"
      BY <1>1, <1>2 DEF IInv, MutexInv, TypeOK
    <2> QED
      BY <2>1, <2>2
  <1>12. TxTimeFollowsSeq'
    <2> SUFFICES ASSUME ~ClockStepsBack,
                        NEW f \in committed', NEW g \in committed', f.seq < g.seq
                 PROVE  f.txTime <= g.txTime
      BY DEF TxTimeFollowsSeq, TxTimeMonotonic
    <2>1. CASE f \in committed /\ g \in committed
      BY <2>1 DEF IInv, TxTimeFollowsSeq, TxTimeMonotonic
    <2>2. CASE f \in committed /\ g = e
      BY <1>1, <1>3, <2>2 DEF IInv, StampInv
    <2>3. CASE f = e
      BY <1>1, <1>3, <1>5, <1>2, <2>3
    <2> QED
      BY <1>1, <2>1, <2>2, <2>3
  <1> QED
    BY <1>6, <1>7, <1>8, <1>9, <1>10, <1>11, <1>12 DEF IInv

(* A step that keeps the tables and the clock keeps what is said of them. *)
LEMMA TablesKept ==
    ASSUME IInv, UNCHANGED logVars
    PROVE  /\ LogTypeOK'
           /\ HistoryInv'
           /\ LiveIsLatest'
           /\ SeqNamesOneEvent'
           /\ TxTimeFollowsSeq'
  <1>1. LogTypeOK'
    BY DEF IInv, TypeOK, LogTypeOK, logVars
  <1>2. HistoryInv' /\ LiveIsLatest' /\ SeqNamesOneEvent'
    BY DEF IInv, HistoryInv, LiveIsLatest, SeqNamesOneEvent, logVars
  <1>3. TxTimeFollowsSeq'
    BY DEF IInv, TxTimeFollowsSeq, TxTimeMonotonic, logVars
  <1> QED
    BY <1>1, <1>2, <1>3

LEMMA CallKeepsIInv ==
    ASSUME IInv, NEW w \in Writers, NEW r \in Requests, Call(w, r)
    PROVE  IInv'
  <1> USE DEF Call
  <1>1. TypeOK'
    BY TablesKept DEF IInv, TypeOK
  <1>2. MutexInv'
    BY DEF IInv, TypeOK, MutexInv
  <1>3. StampInv'
    BY DEF IInv, TypeOK, StampInv, logVars
  <1> QED
    BY <1>1, <1>2, <1>3, TablesKept DEF IInv

LEMMA LockKeepsIInv ==
    ASSUME IInv, NEW w \in Writers, Lock(w)
    PROVE  IInv'
  <1> USE DEF Lock
  <1>1. now \in Clock
    BY DEF IInv, TypeOK, LogTypeOK
  <1>2. TypeOK'
    BY <1>1, TablesKept DEF IInv, TypeOK
  <1>3. MutexInv'
    BY <1>1, WriterAssumption DEF IInv, TypeOK, MutexInv
  <1>4. StampInv'
    <2> SUFFICES ASSUME ~ClockStepsBack, NEW x \in Writers, pc'[x] = "holding"
                 PROVE  /\ stamp'[x] <= now
                        /\ \A e \in committed : e.txTime <= stamp'[x]
      BY DEF IInv, StampInv, logVars
    <2>1. x = w
      BY WriterAssumption DEF IInv, TypeOK, MutexInv
    <2>2. stamp'[x] = now
      BY <2>1 DEF IInv, TypeOK
    <2> QED
      BY <1>1, <2>2 DEF IInv, StampInv, Clock
  <1> QED
    BY <1>2, <1>3, <1>4, TablesKept DEF IInv

LEMMA FailKeepsIInv ==
    ASSUME IInv, NEW w \in Writers, Fail(w)
    PROVE  IInv'
  <1> USE DEF Fail, Unlock
  <1>1. NoRequest \in Requests
    BY BoundAssumption DEF NoRequest
  <1>2. TypeOK'
    BY <1>1, TablesKept DEF IInv, TypeOK
  <1>3. MutexInv'
    BY WriterAssumption DEF IInv, TypeOK, MutexInv
  <1>4. StampInv'
    BY DEF IInv, TypeOK, StampInv, logVars
  <1> QED
    BY <1>2, <1>3, <1>4, TablesKept DEF IInv

LEMMA CrashKeepsIInv ==
    ASSUME IInv, Crash
    PROVE  IInv'
  <1> USE DEF Crash
  <1>1. NoRequest \in Requests
    BY BoundAssumption DEF NoRequest
  <1>2. TypeOK'
    BY <1>1, TablesKept DEF IInv, TypeOK
  <1>3. MutexInv'
    BY WriterAssumption DEF MutexInv
  <1>4. StampInv'
    BY DEF IInv, StampInv, logVars
  <1> QED
    BY <1>2, <1>3, <1>4, TablesKept DEF IInv

LEMMA PurgeKeepsIInv ==
    ASSUME IInv, NEW c \in Collections, NEW cutoff \in Cutoffs,
           ExecPurge(c, cutoff)
    PROVE  IInv'
  <1>1. /\ events' \subseteq events
        /\ UNCHANGED <<live, autoinc, now, committed>>
        /\ UNCHANGED <<mu, pc, arg, stamp>>
    BY DEF ExecPurge, Purge, DeleteBefore, writerVars
  <1>2. TypeOK'
    BY <1>1 DEF IInv, TypeOK, LogTypeOK
  <1>3. HistoryInv' /\ LiveIsLatest' /\ SeqNamesOneEvent'
    BY <1>1 DEF IInv, HistoryInv, LiveIsLatest, SeqNamesOneEvent
  <1>4. MutexInv' /\ StampInv'
    BY <1>1 DEF IInv, MutexInv, StampInv
  <1>5. TxTimeFollowsSeq'
    BY <1>1 DEF IInv, TxTimeFollowsSeq, TxTimeMonotonic
  <1> QED
    BY <1>2, <1>3, <1>4, <1>5 DEF IInv

LEMMA PassTimeKeepsIInv ==
    ASSUME IInv, PassTime
    PROVE  IInv'
  <1>1. /\ UNCHANGED <<events, live, autoinc, committed>>
        /\ UNCHANGED <<mu, pc, arg, stamp>>
        /\ now' \in Clock
        /\ ~ClockStepsBack => now <= now'
    BY BoundAssumption
    DEF PassTime, Tick, StepBack, writerVars, IInv, TypeOK, LogTypeOK, Clock
  <1>2. TypeOK'
    BY <1>1 DEF IInv, TypeOK, LogTypeOK
  <1>3. HistoryInv' /\ LiveIsLatest' /\ SeqNamesOneEvent'
    BY <1>1 DEF IInv, HistoryInv, LiveIsLatest, SeqNamesOneEvent
  <1>4. MutexInv'
    BY <1>1 DEF IInv, MutexInv
  <1>5. StampInv'
    <2> SUFFICES ASSUME ~ClockStepsBack PROVE StampInv'
      BY DEF StampInv
    <2>1. now \in Nat /\ now' \in Nat /\ now <= now'
      BY <1>1, BoundAssumption DEF IInv, TypeOK, LogTypeOK, Clock
    <2>2. \A e \in committed : e.txTime \in Nat
      BY DEF IInv, TypeOK, LogTypeOK, Event, Instant
    <2>3. \A w \in Writers : stamp[w] \in Nat
      BY DEF IInv, TypeOK, Clock, ZeroTime
    <2> QED
      BY <1>1, <2>1, <2>2, <2>3 DEF IInv, StampInv
  <1>6. TxTimeFollowsSeq'
    BY <1>1 DEF IInv, TxTimeFollowsSeq, TxTimeMonotonic
  <1> QED
    BY <1>2, <1>3, <1>4, <1>5, <1>6 DEF IInv

LEMMA StutterKeepsIInv ==
    ASSUME IInv, UNCHANGED vars
    PROVE  IInv'
  BY DEF vars, logVars, writerVars, IInv, TypeOK, LogTypeOK, MutexInv,
         HistoryInv, LiveIsLatest, SeqNamesOneEvent, StampInv,
         TxTimeFollowsSeq, TxTimeMonotonic

(* IInv is preserved by every step of the store. *)
LEMMA NextIInv == IInv /\ [Next]_vars => IInv'
  <1> SUFFICES ASSUME IInv, [Next]_vars PROVE IInv'
    OBVIOUS
  <1>1. ASSUME NEW w \in Writers, NEW r \in Requests, Call(w, r) PROVE IInv'
    BY <1>1, CallKeepsIInv
  <1>2. ASSUME NEW w \in Writers, Lock(w) PROVE IInv'
    BY <1>2, LockKeepsIInv
  <1>3. ASSUME NEW w \in Writers, Commit(w) PROVE IInv'
    BY <1>3, CommitKeepsIInv
  <1>4. ASSUME NEW w \in Writers, Fail(w) PROVE IInv'
    BY <1>4, FailKeepsIInv
  <1>5. ASSUME NEW c \in Collections, NEW cutoff \in Cutoffs,
               ExecPurge(c, cutoff)
        PROVE  IInv'
    BY <1>5, PurgeKeepsIInv
  <1>6. CASE Crash
    BY <1>6, CrashKeepsIInv
  <1>7. CASE PassTime
    BY <1>7, PassTimeKeepsIInv
  <1>8. CASE UNCHANGED vars
    BY <1>8, StutterKeepsIInv
  <1> QED
    BY <1>1, <1>2, <1>3, <1>4, <1>5, <1>6, <1>7, <1>8 DEF Next, WriterStep

(* The inductive invariant holds in every reachable state of the store. *)
THEOREM Inductive == Spec => []IInv
  BY InitIInv, NextIInv, PTL DEF Spec

(* Every variable keeps its type, and in particular no event is ever       *)
(* committed with seq 0 or a zero tx_time or valid_from.                   *)
THEOREM TypeCorrect == Spec => []TypeOK
  <1>1. IInv => TypeOK
    BY DEF IInv
  <1> QED
    BY <1>1, Inductive, PTL

(* live is the last commit of every document, however writers interleave,  *)
(* fail or crash and whatever is purged.                                   *)
THEOREM LiveIsAlwaysLatest == Spec => []LiveIsLatest
  <1>1. IInv => LiveIsLatest
    BY DEF IInv
  <1> QED
    BY <1>1, Inductive, PTL

(* No seq is ever given to two events. *)
THEOREM SeqNeverReused == Spec => []SeqNamesOneEvent
  <1>1. IInv => SeqNamesOneEvent
    BY DEF IInv
  <1> QED
    BY <1>1, Inductive, PTL

(* With a clock that does not step back, tx_time is monotonic with seq. *)
THEOREM CommitTimesFollowSeq == Spec => []TxTimeFollowsSeq
  <1>1. IInv => TxTimeFollowsSeq
    BY DEF IInv
  <1> QED
    BY <1>1, Inductive, PTL

-----------------------------------------------------------------------------
(* A version is never visible before its commit: adding one stamped after  *)
(* the cutoff asOf leaves Visible's answer at asOf as it was.              *)
LEMMA LaterCommitInvisible ==
    ASSUME NEW E \in SUBSET Event, NEW e \in Event, NEW d, NEW at,
           NEW asOf \in Instant, asOf < e.txTime
    PROVE  Visible(Versions(E \cup {e}, d), asOf, at)
               = Visible(Versions(E, d), asOf, at)
  <1>1. ~(e.txTime <= asOf) /\ asOf # ZeroTime
    BY DEF Event, Instant
  <1>2. Candidates(Versions(E \cup {e}, d), asOf, at)
            = Candidates(Versions(E, d), asOf, at)
    BY <1>1 DEF Candidates, Versions
  <1> QED
    BY <1>2 DEF Visible

(* Every step keeps the audit view of every settled instant. *)
LEMMA StepKeepsAuditView ==
    ASSUME IInv, Next, ~ClockStepsBack, events \subseteq events',
           NEW d \in Docs, NEW asOf \in Clock, NEW at \in 0 .. MaxTime,
           Settled(asOf)
    PROVE  Visible(Versions(events', d), asOf, at)
               = Visible(Versions(events, d), asOf, at)
  <1>1. CASE \E w \in Writers : Commit(w)
    <2>1. PICK w \in Writers : Commit(w)
      BY <1>1
    <2> DEFINE e == Row(arg[w], autoinc + 1, stamp[w])
    <2>2. pc[w] = "holding" /\ events' = events \cup {e}
      BY <2>1 DEF Commit, CommitRow, NextSeq
    <2>3. e \in Event /\ e.txTime = stamp[w]
      BY <2>2, HolderFacts, RowType
    <2>4. asOf \in Instant /\ asOf < stamp[w]
      BY <2>2, BoundAssumption DEF Settled, Clock, Instant, ZeroTime
    <2>5. events \in SUBSET Event
      BY DEF IInv, TypeOK, LogTypeOK
    <2> QED
      BY <2>2, <2>3, <2>4, <2>5, LaterCommitInvisible
  <1>2. CASE ~ \E w \in Writers : Commit(w)
    <2>1. events' \subseteq events
      BY <1>2 DEF Next, WriterStep, Call, Lock, Fail, ExecPurge, Purge,
                  DeleteBefore, Crash, PassTime, Tick, StepBack, logVars
    <2>2. events' = events
      BY <2>1
    <2> QED
      BY <2>2
  <1> QED
    BY <1>1, <1>2

(* What the database believed at a settled instant is changed by no step   *)
(* other than a PURGE.                                                     *)
THEOREM AuditViewIsStable == Spec => AuditViewStable
  <1>1. IInv /\ [Next]_vars => [KeepsAuditView]_vars
    BY StepKeepsAuditView DEF KeepsAuditView
  <1> QED
    BY <1>1, Inductive, PTL DEF Spec, AuditViewStable

(* Without AT and without losses to PURGE, replaying the log and reading   *)
(* live give the same documents.                                           *)
LEMMA ReplayIsLive == IInv => LiveAgreesWithReplay
  <1> SUFFICES ASSUME IInv, ~ClockStepsBack,
                      NEW c \in Collections, NEW at \in {ZeroTime, now},
                      Undated(c)
               PROVE  /\ ReplayAsOf(events, c, ZeroTime, at) = FindLive(live, c)
                      /\ \A k \in Keys : AsOf(events, <<c, k>>, ZeroTime, at)
                                              = Get(live, <<c, k>>)
    BY DEF LiveAgreesWithReplay
  <1>1. \A e \in committed : /\ e \in Event
                             /\ e.seq \in Nat
                             /\ e.txTime \in Nat
                             /\ e.txTime <= now
    BY DEF IInv, TypeOK, LogTypeOK, Event, Instant, StampInv
  <1>2. events \subseteq committed /\ live \subseteq committed
    BY DEF IInv, HistoryInv, LiveIsLatest, LatestOf
  <1>3. \A e \in committed : e.collection = c => e.validFrom = e.txTime
    BY DEF Undated
  <1>4. \A e, f \in committed : e.seq < f.seq => e.txTime <= f.txTime
    BY DEF IInv, TxTimeFollowsSeq, TxTimeMonotonic
  <1>5. \A e, f \in committed : e.seq = f.seq => e = f
    BY DEF IInv, SeqNamesOneEvent
  <1>6. \A k \in Keys : Candidates(Versions(events, <<c, k>>), ZeroTime, at)
                            = Versions(events, <<c, k>>)
    BY <1>1, <1>2, <1>3 DEF Candidates, Versions, Doc
  <1>7. ASSUME NEW r \in FindLive(live, c)
        PROVE  r \in ReplayAsOf(events, c, ZeroTime, at)
    <2>1. r \in live /\ r.collection = c /\ r.op # OpDelete
      BY DEF FindLive
    <2>2. r \in committed /\ r \in events /\ r.key \in Keys
      BY <1>1, <1>2, <2>1 DEF Undated, Event
    <2> DEFINE V == Versions(events, <<c, r.key>>)
    <2>3. r \in V
      BY <2>1, <2>2 DEF Versions, Doc
    <2>4. ASSUME NEW f \in V PROVE ~EarlierVersion(r, f)
      <3>1. f \in committed /\ f.collection = c /\ Doc(f) = Doc(r)
        BY <1>2, <2>1 DEF Versions, Doc
      <3>2. f.seq <= r.seq
        BY <2>1, <3>1 DEF IInv, LiveIsLatest, LatestOf
      <3>3. f.txTime <= r.txTime
        BY <1>1, <1>4, <1>5, <2>2, <3>1, <3>2
      <3> QED
        BY <1>1, <1>3, <2>1, <2>2, <3>1, <3>2, <3>3 DEF EarlierVersion
    <2>5. r \in Visible(V, ZeroTime, at)
      BY <1>6, <2>2, <2>3, <2>4 DEF Visible
    <2> QED
      BY <2>1, <2>2, <2>5 DEF ReplayAsOf, AsOf
  <1>8. ASSUME NEW e \in ReplayAsOf(events, c, ZeroTime, at)
        PROVE  e \in FindLive(live, c)
    <2>1. PICK k \in Keys : e \in AsOf(events, <<c, k>>, ZeroTime, at)
      BY DEF ReplayAsOf
    <2>2. e.op # OpDelete /\ e \in Visible(Versions(events, <<c, k>>), ZeroTime, at)
      BY <2>1 DEF AsOf
    <2>3. /\ e \in Versions(events, <<c, k>>)
          /\ \A f \in Versions(events, <<c, k>>) : ~EarlierVersion(e, f)
      BY <1>6, <2>2 DEF Visible
    <2>4. e \in committed /\ Doc(e) = <<c, k>> /\ e.collection = c
      BY <1>2, <2>3 DEF Versions, Doc
    <2>5. PICK r \in live : Doc(r) = Doc(e)
      BY <2>4 DEF IInv, HistoryInv
    <2>6. r \in committed /\ r.collection = c /\ r \in events
      BY <1>2, <2>4, <2>5 DEF Undated, Doc
    <2>7. ~EarlierVersion(e, r)
      BY <2>3, <2>4, <2>5, <2>6 DEF Versions
    <2>8. e.seq <= r.seq
      BY <2>4, <2>5 DEF IInv, LiveIsLatest, LatestOf
    <2>9. e.txTime <= r.txTime
      BY <1>1, <1>4, <1>5, <2>4, <2>6, <2>8
    <2>10. e.seq = r.seq
      BY <1>1, <1>3, <2>4, <2>6, <2>7, <2>8, <2>9 DEF EarlierVersion
    <2>11. e = r
      BY <1>5, <2>4, <2>6, <2>10
    <2> QED
      BY <2>2, <2>4, <2>11 DEF FindLive
  <1>9. ReplayAsOf(events, c, ZeroTime, at) = FindLive(live, c)
    BY <1>7, <1>8
  <1>10. ASSUME NEW k \in Keys
         PROVE  AsOf(events, <<c, k>>, ZeroTime, at) = Get(live, <<c, k>>)
    <2>1. ASSUME NEW e \in AsOf(events, <<c, k>>, ZeroTime, at)
          PROVE  e \in Get(live, <<c, k>>)
      <3>1. e \in FindLive(live, c)
        BY <1>9, <2>1 DEF ReplayAsOf
      <3>2. Doc(e) = <<c, k>>
        BY <2>1 DEF AsOf, Visible, Candidates, Versions
      <3> QED
        BY <3>1, <3>2 DEF FindLive, Get
    <2>2. ASSUME NEW r \in Get(live, <<c, k>>)
          PROVE  r \in AsOf(events, <<c, k>>, ZeroTime, at)
      <3>1. r \in live /\ r.op # OpDelete /\ r.collection = c /\ r.key = k
        BY <2>2 DEF Get, Doc
      <3>2. PICK j \in Keys : r \in AsOf(events, <<c, j>>, ZeroTime, at)
        BY <1>9, <3>1 DEF FindLive, ReplayAsOf
      <3>3. Doc(r) = <<c, j>>
        BY <3>2 DEF AsOf, Visible, Candidates, Versions
      <3> QED
        BY <3>1, <3>2, <3>3 DEF Doc
    <2> QED
      BY <2>1, <2>2
  <1> QED
    BY <1>9, <1>10

(* FIND and GET answer the same from live and, AS OF now, by replay, in    *)
(* every reachable state, on collections written without AT and not        *)
(* purged.                                                                 *)
THEOREM ReplayAgreesWithLive == Spec => []LiveAgreesWithReplay
  BY Inductive, ReplayIsLive, PTL

(* HISTORY ... BETWEEN accounts for every answer of GET ... AS OF, and for *)
(* every change of it from one instant to the next.                        *)
THEOREM HistoryExplains == Spec => []HistoryExplainsAsOf
  <1>1. ASSUME TypeOK PROVE HistoryExplainsAsOf
    <2>1. ASSUME NEW d \in Docs, NEW at \in Clock
          PROVE  AsOf(events, d, ZeroTime, at) \subseteq History(events, d, ZeroTime, at)
      <3>1. at # ZeroTime /\ at \in Nat
        BY BoundAssumption DEF Clock, ZeroTime
      <3>2. \A e \in events : e.validFrom \in Nat
        BY <1>1 DEF TypeOK, LogTypeOK, Event, Instant
      <3> QED
        BY <3>1, <3>2 DEF AsOf, Visible, Candidates, Versions, History, ZeroTime
    <2>2. ASSUME NEW d \in Docs, NEW at \in Clock, at - 1 \in Clock,
                 History(events, d, at, at) = {}
          PROVE  AsOf(events, d, ZeroTime, at) = AsOf(events, d, ZeroTime, at - 1)
      <3> DEFINE V == Versions(events, d)
      <3>1. /\ at \in Nat /\ at # ZeroTime
            /\ at - 1 \in Nat /\ at - 1 # ZeroTime
        BY <2>2, BoundAssumption DEF Clock, ZeroTime
      <3>2. \A e \in V : e.validFrom \in Nat
        BY <1>1 DEF TypeOK, LogTypeOK, Event, Instant, Versions
      <3>3. \A e \in V : e.validFrom # at
        BY <2>2, <3>1, <3>2 DEF History
      <3>4. Candidates(V, ZeroTime, at) = Candidates(V, ZeroTime, at - 1)
        BY <3>1, <3>2, <3>3 DEF Candidates
      <3>5. Visible(V, ZeroTime, at) = Visible(V, ZeroTime, at - 1)
        BY <3>4 DEF Visible
      <3> QED
        BY <3>5 DEF AsOf
    <2> QED
      BY <2>1, <2>2 DEF HistoryExplainsAsOf
  <1> QED
    BY <1>1, TypeCorrect, PTL

(* Every step of the store is a step of the atomic log or leaves it alone. *)
LEMMA StepRefines == IInv /\ [Next]_vars => [LogNext]_logVars
  <1> SUFFICES ASSUME IInv, [Next]_vars PROVE [LogNext]_logVars
    OBVIOUS
  <1>1. ASSUME NEW w \in Writers, Commit(w) PROVE LogNext
    <2>1. pc[w] = "holding" /\ CommitRow(arg[w], stamp[w])
      BY <1>1 DEF Commit
    <2>2. stamp[w] \in Clock
      BY <2>1, HolderFacts
    <2>3. arg[w] \in Requests
      BY DEF IInv, TypeOK
    <2>4. AppendEvent(arg[w], stamp[w])
      BY <2>1 DEF AppendEvent, IInv, StampInv
    <2> QED
      BY <2>2, <2>3, <2>4 DEF LogNext
  <1>2. ASSUME NEW c \in Collections, NEW cutoff \in Cutoffs,
               ExecPurge(c, cutoff)
        PROVE  LogNext
    BY <1>2 DEF ExecPurge, LogNext
  <1>3. CASE PassTime
    BY <1>3 DEF PassTime, LogNext
  <1>4. ASSUME NEW w \in Writers, WriterStep(w), ~Commit(w)
        PROVE  UNCHANGED logVars
    BY <1>4 DEF WriterStep, Call, Lock, Fail
  <1>5. CASE Crash
    BY <1>5 DEF Crash
  <1>6. CASE UNCHANGED vars
    BY <1>6 DEF vars
  <1> QED
    BY <1>1, <1>2, <1>3, <1>4, <1>5, <1>6 DEF Next

(* The store with its writers, mutex and crashes implements the atomic     *)
(* event log that the rest of the system is specified against.             *)
THEOREM Refinement == Spec => ImplementsEventLog
  <1>1. Init => LogInit
    BY DEF Init
  <1> QED
    BY <1>1, Inductive, StepRefines, PTL DEF Spec, LogSpec, ImplementsEventLog
=============================================================================
