---------------------------- MODULE BackupProofs ----------------------------
(***************************************************************************)
(* Theorems about Backup for every number of collections and documents,    *)
(* every set of faults and every bound: what the stream holds however      *)
(* shipper, snapshotter, purges, sweep, failures and crashes interleave.   *)
(* IInv is the inductive invariant; it is also kept by the recoveries of   *)
(* module Recovery (see RecoveryProofs), which is why its second half is   *)
(* stated for faithful recoveries only.                                    *)
(***************************************************************************)
EXTENDS Retention, EventLogProofs

(* A server that is down has no goroutines. *)
DownInv ==
    ~up => /\ sinkMu = "free"
           /\ shipper = IdleShipper(0)
           /\ snapper = IdleSnapper
           /\ purger = [p \in Purgers |-> IdlePurger]
           /\ sweep = IdleSweep

(* FileSink.mu is held by exactly the operation that is in the sink. *)
SinkMutexInv ==
    /\ sinkMu = "shipper" <=> shipper.pc = "writing"
    /\ sinkMu = "snapper" <=> snapper.pc = "copying"
    /\ \A p \in Purgers : sinkMu = p <=> purger[p].pc = "filtered"

(* A PURGE under way has been run on the primary, and its temporary file   *)
(* is still the filtered stream when the rename comes.                     *)
PurgerInv ==
    \A p \in Purgers :
        /\ purger[p].pc # "idle" => \E q \in purges : q[2] = purger[p].cutoff
        /\ purger[p].pc = "filtered" =>
               purger[p].tmp = {l \in stream : l.ev.txTime >= purger[p].cutoff}

(* A database, in use or in a snapshot: a seq names one event, and          *)
(* AUTOINCREMENT is not behind any.                                         *)
DbOK(db) ==
    /\ db \in Database
    /\ db.autoinc <= MaxSeq
    /\ \A e \in db.events : e.seq <= db.autoinc
    /\ \A e, f \in db.events : e.seq = f.seq => e = f

(* The primary, the snapshots, and the one under way, whose name is never  *)
(* ahead of what it holds.                                                 *)
DatabaseInv ==
    /\ DbOK(DB)
    /\ DbOK(snapper.db)
    /\ snapper.pc \in {"counted", "named"} => snapper.seq <= autoinc
    /\ snapper.pc \in {"vacuumed", "copying"} => snapper.seq <= snapper.db.autoinc
    /\ \A s \in snapshots : DbOK(s.db) /\ s.seq <= s.db.autoinc

(* Lines have places, and hold events in commit order. *)
LinesInv ==
    /\ \E n \in Nat : \A l \in stream : l.no <= n
    /\ \A l, m \in stream : l.no = m.no => l = m
    /\ \A l \in stream : l.ev.seq <= MaxSeq
    /\ StreamAscending

(* What is still to be written comes after all that is written. *)
ShipperInv ==
    /\ up /\ shipper.pc \in {"idle", "read"} =>
           \A l \in stream : l.ev.seq <= shipper.lastSeq
    /\ shipper.pc \in {"read", "writing"} =>
           /\ shipper.upto <= MaxSeq
           /\ \A e \in shipper.batch : e.seq <= shipper.upto
           /\ \A e, f \in shipper.batch : e.seq = f.seq => e = f
           /\ \A l \in stream : /\ l.ev.seq <= shipper.upto
                                /\ \A e \in shipper.batch : l.ev.seq < e.seq

(* If only the sweep purges, no cutoff is ahead of the clock less the      *)
(* retention period.                                                       *)
CutoffInv ==
    Cutoffs = {} =>
        \A t \in {q[2] : q \in purges} \cup {sweep.cutoff} :
            t = ZeroTime \/ t + Retention <= now

(* What holds whatever was restored and to which instant. *)
SinkInv ==
    /\ TypeOK
    /\ DownInv
    /\ SinkMutexInv
    /\ PurgerInv
    /\ DatabaseInv
    /\ LinesInv
    /\ ShipperInv
    /\ CutoffInv

(* The log is part of the history, a seq names one commit, autoinc bounds  *)
(* them, and commit times follow commit order.                             *)
HistoryInv ==
    /\ events \subseteq committed
    /\ \A e \in committed : e.seq <= autoinc
    /\ \A e, f \in committed : e.seq = f.seq => e = f
    /\ ~ClockStepsBack =>
           \A e, f \in committed : e.seq < f.seq => e.txTime <= f.txTime

(* The stream and the batch hold commits, and the shipper is not ahead of  *)
(* the log.                                                                *)
ShippedInv ==
    /\ Shipped(stream) \subseteq committed
    /\ shipper.lastSeq <= autoinc
    /\ shipper.pc \in {"read", "writing"} => /\ shipper.batch \subseteq committed
                                             /\ shipper.upto <= autoinc

(* No event is passed over: not below lastSeq, not below a shipped event,  *)
(* not by the batch under way.                                             *)
SkipInv ==
    \A e \in committed : Unpurged(e) =>
        /\ e.seq <= shipper.lastSeq => e \in Shipped(stream)
        /\ \A l \in stream : e.seq <= l.ev.seq => e \in Shipped(stream)
        /\ shipper.pc \in {"read", "writing"} /\ e.seq <= shipper.upto
               => e \in Shipped(stream) \cup shipper.batch

(* Of the commits C up to its last one, db misses only what one of the     *)
(* PURGEs P reached, and if none was reached its live rows are the last    *)
(* ones: db is the primary as it was after that commit.                    *)
UnpurgedBy(e, P) == \A p \in P : e.txTime >= p[2]

UpTo(C, n) == {e \in C : e.seq <= n}

ImageIn(db, C, P) ==
    /\ db.events \subseteq C
    /\ \A e \in UpTo(C, db.autoinc) : UnpurgedBy(e, P) => e \in db.events
    /\ (\A e \in UpTo(C, db.autoinc) : UnpurgedBy(e, P))
           => db.live = LatestOf(UpTo(C, db.autoinc))

(* The primary and every complete snapshot are such images, and no         *)
(* snapshot is ahead of the primary.                                       *)
ImageInv ==
    /\ ImageIn(DB, committed, purges)
    /\ ImageIn(snapper.db, committed, purges) /\ snapper.db.autoinc <= autoinc
    /\ \A s \in snapshots :
           s.whole => ImageIn(s.db, committed, purges) /\ s.db.autoinc <= autoinc

(* What holds besides while every recovery was faithful. *)
LogSideInv ==
    /\ HistoryInv
    /\ ShippedInv
    /\ SkipInv
    /\ ImageInv

IInv == SinkInv /\ (past.clean => LogSideInv)
-----------------------------------------------------------------------------
(* The number of the line that the next write appends: past every line. *)
LEMMA NextLineIsPast ==
    ASSUME NEW S \in SUBSET Line, NEW b \in Nat, \A l \in S : l.no <= b
    PROVE  /\ NextLine(S) \in Nat
           /\ \A l \in S : l.no < NextLine(S)
  <1>1. CASE S = {}
    BY <1>1 DEF NextLine
  <1>2. CASE S # {}
    <2> DEFINE N == {l.no : l \in S}
    <2>1. N \in SUBSET Nat /\ N # {} /\ \A n \in N : n <= b
      BY <1>2 DEF Line
    <2>2. PICK n \in N : \A m \in N : m <= n
      <3> HIDE DEF N
      <3> QED
        BY <2>1, GreatestNatural
    <2>3. \E l \in S : \A m \in S : m.no <= l.no
      BY <2>2
    <2> DEFINE h == CHOOSE l \in S : \A m \in S : m.no <= l.no
    <2>4. h \in S /\ \A m \in S : m.no <= h.no
      BY <2>3
    <2>5. NextLine(S) = 1 + h.no
      BY <1>2 DEF NextLine
    <2> HIDE DEF h
    <2> QED
      BY <2>4, <2>5 DEF Line
  <1> QED
    BY <1>1, <1>2

(* A snapshot's name never runs below the zero time. *)
LEMMA TruncateType ==
    ASSUME NEW t \in Nat
    PROVE  Truncate(t) \in Nat
  <1>1. TicksPerSecond \in Nat /\ TicksPerSecond > 0
    BY BackupAssumption
  <1> DEFINE q == t \div TicksPerSecond
             m == t % TicksPerSecond
  <1>2. q \in Nat /\ m \in Nat /\ t = TicksPerSecond * q + m
    BY <1>1
  <1>3. TicksPerSecond * q \in Nat
    BY <1>1, <1>2
  <1> HIDE DEF q, m
  <1>4. t - m \in Nat
    BY <1>2, <1>3
  <1> QED
    BY <1>4 DEF Truncate, m

(* The types of what the log, the stream and the goroutines hold, in the   *)
(* form the proofs below use.                                              *)
LEMMA Types ==
    ASSUME SinkInv
    PROVE  /\ LogTypeOK
           /\ events \in SUBSET Event /\ committed \in SUBSET Event
           /\ live \in SUBSET Event
           /\ stream \in SUBSET Line
           /\ autoinc \in Nat /\ autoinc <= MaxSeq /\ MaxSeq \in Nat
           /\ now \in Nat
           /\ shipper.lastSeq \in Nat /\ shipper.upto \in Nat
           /\ shipper.batch \in SUBSET Event
           /\ \A e \in Event : e.seq \in Nat /\ e.seq > 0 /\ e.txTime \in Nat
           /\ \A l \in Line : l.no \in Nat /\ l.ev \in Event
           /\ \A e \in events : e.seq <= autoinc
           /\ \A e, f \in events : e.seq = f.seq => e = f
  <1>1. \A e \in Event : e.seq \in Nat /\ e.seq > 0 /\ e.txTime \in Nat
    BY DEF Event, Instant
  <1>2. \A l \in Line : l.no \in Nat /\ l.ev \in Event
    BY DEF Line
  <1>3. /\ \A e \in events : e.seq <= autoinc
        /\ \A e, f \in events : e.seq = f.seq => e = f
    BY DEF SinkInv, DatabaseInv, DbOK, DB
  <1> QED
    BY <1>1, <1>2, <1>3, BoundAssumption DEF SinkInv, TypeOK, LogTypeOK, Clock

(* The seq the shipper would resume from is the highest shipped one. *)
LEMMA LastShippedSeqIsMax ==
    ASSUME SinkInv
    PROVE  /\ LastShippedSeq \in Nat
           /\ \A l \in stream : l.ev.seq <= LastShippedSeq
           /\ stream = {} => LastShippedSeq = 0
           /\ stream # {} => \E l \in stream : l.ev.seq = LastShippedSeq
  <1> DEFINE E == Shipped(stream)
  <1>1. E \in SUBSET Event /\ \A e \in E : e.seq <= MaxSeq
    BY Types DEF SinkInv, LinesInv, Shipped
  <1>2. \A l \in stream : l.ev \in E
    BY DEF Shipped
  <1>3. \A e \in E : \E l \in stream : e = l.ev
    BY DEF Shipped
  <1>4. LastShippedSeq = HighWater(E)
    BY DEF LastShippedSeq
  <1>5. E = {} <=> stream = {}
    BY <1>2, <1>3
  <1> HIDE DEF E
  <1>6. /\ HighWater(E) \in Nat
        /\ \A e \in E : e.seq <= HighWater(E)
        /\ E = {} => HighWater(E) = 0
        /\ E # {} => \E e \in E : e.seq = HighWater(E)
    BY <1>1, BoundAssumption, HighWaterIsMax
  <1> QED
    BY <1>2, <1>3, <1>4, <1>5, <1>6

(* An image stays one while its commits stay and more is purged. *)
LEMMA ImageStays ==
    ASSUME NEW db, NEW C, NEW D, NEW P, NEW Q,
           DbOK(db), ImageIn(db, C, P), P \subseteq Q,
           UpTo(D, db.autoinc) = UpTo(C, db.autoinc)
    PROVE  ImageIn(db, D, Q)
  <1>1. db.events \subseteq UpTo(C, db.autoinc)
    BY DEF DbOK, ImageIn, UpTo
  <1>2. db.events \subseteq D
    BY <1>1 DEF UpTo
  <1>3. \A e : UnpurgedBy(e, Q) => UnpurgedBy(e, P)
    BY DEF UnpurgedBy
  <1> QED
    BY <1>2, <1>3 DEF ImageIn

(* The empty database is an image of every history. *)
LEMMA EmptyImage ==
    ASSUME NEW C \in SUBSET Event, NEW P
    PROVE  DbOK(EmptyDB) /\ ImageIn(EmptyDB, C, P)
  <1>1. EmptyDB \in Database /\ EmptyDB.autoinc = 0 /\ EmptyDB.events = {}
            /\ EmptyDB.live = {}
    BY DEF EmptyDB, Database
  <1>2. UpTo(C, 0) = {}
    BY DEF UpTo, Event
  <1> QED
    BY <1>1, <1>2, BoundAssumption DEF DbOK, ImageIn, LatestOf

-----------------------------------------------------------------------------
LEMMA InitIInv == Init => IInv /\ past.clean
  <1> SUFFICES ASSUME Init PROVE IInv /\ past.clean
    OBVIOUS
  <1> USE DEF Init
  <1>1. LogTypeOK
    BY InitLogInv DEF LogInv
  <1>2. DbOK(EmptyDB) /\ ImageIn(EmptyDB, committed, purges) /\ EmptyDB.autoinc = 0
    BY <1>1, EmptyImage DEF LogTypeOK, EmptyDB
  <1>3. TypeOK
    <2>1. shipper \in [pc : {"idle", "read", "writing", "stopped"},
                       lastSeq : Nat, batch : SUBSET Event, upto : Nat]
      BY DEF IdleShipper
    <2>2. snapper \in [pc : {"idle", "counted", "named", "vacuumed", "copying"},
                       seq : Nat, at : Nat, db : Database]
      BY <1>2 DEF IdleSnapper, DbOK
    <2>3. purger \in [Purgers -> [pc : {"idle", "deleted", "filtered"},
                                  cutoff : Nat, tmp : SUBSET Line]]
      BY DEF IdlePurger
    <2>4. sweep \in [pc : {"idle", "listed", "purging"},
                     todo : SUBSET Collections, cutoff : Nat]
      BY DEF IdleSweep
    <2>5. past \in [crashes : 0 .. MaxCrashes, clean : BOOLEAN]
      BY BackupAssumption
    <2> QED
      BY <1>1, <2>1, <2>2, <2>3, <2>4, <2>5 DEF TypeOK
  <1>4. DownInv /\ SinkMutexInv /\ PurgerInv
    BY DEF DownInv, SinkMutexInv, PurgerInv, IdleShipper, IdleSnapper,
           IdlePurger, Purgers
  <1>5. DB = EmptyDB /\ snapper.db = EmptyDB /\ snapper.pc = "idle"
    BY DEF LogInit, DB, EmptyDB, IdleSnapper
  <1>6. DatabaseInv /\ ImageInv
    BY <1>2, <1>5 DEF DatabaseInv, ImageInv, LogInit
  <1>7. LinesInv
    BY DEF LinesInv, StreamAscending
  <1>8. ShipperInv /\ CutoffInv
    BY DEF ShipperInv, CutoffInv, IdleShipper, IdleSweep, ZeroTime
  <1>9. HistoryInv /\ ShippedInv /\ SkipInv
    BY DEF LogInit, HistoryInv, ShippedInv, SkipInv, IdleShipper, Shipped
  <1> QED
    BY <1>3, <1>4, <1>6, <1>7, <1>8, <1>9 DEF IInv, SinkInv, LogSideInv

-----------------------------------------------------------------------------
(* What is said of the databases, the stream, the purges and the history   *)
(* is kept by a step that leaves them alone.                               *)
LEMMA DatabasesKept ==
    ASSUME SinkInv, UNCHANGED <<logVars, snapper, snapshots>>
    PROVE  LogTypeOK' /\ DatabaseInv'
  BY DEF SinkInv, TypeOK, LogTypeOK, DatabaseInv, DB, logVars

LEMMA StreamKept ==
    ASSUME SinkInv, UNCHANGED <<up, stream, shipper>>
    PROVE  LinesInv' /\ ShipperInv'
  BY DEF SinkInv, LinesInv, StreamAscending, ShipperInv

LEMMA PurgesKept ==
    ASSUME SinkInv, UNCHANGED <<now, stream, purger, sweep, purges>>
    PROVE  PurgerInv' /\ CutoffInv'
  BY DEF SinkInv, PurgerInv, CutoffInv

LEMMA HistoryKept ==
    ASSUME LogSideInv, UNCHANGED <<logVars, stream, shipper, purges>>
    PROVE  HistoryInv' /\ ShippedInv' /\ SkipInv'
  BY DEF LogSideInv, HistoryInv, ShippedInv, SkipInv, Unpurged, logVars

LEMMA ImagesKept ==
    ASSUME LogSideInv, UNCHANGED <<logVars, snapper, snapshots, purges>>
    PROVE  ImageInv'
  BY DEF LogSideInv, ImageInv, DB, logVars

-----------------------------------------------------------------------------
(* The snapshotter touches neither stream nor log; what it copies is the   *)
(* primary of that moment, under a name that is not ahead of it.           *)
LEMMA SnapshotterKeepsIInv ==
    ASSUME IInv,
           \/ SnapCount \/ SnapName \/ SnapVacuum
           \/ SnapCreate \/ SnapDone \/ SnapFail
    PROVE  IInv'
  <1> USE DEF sinkVars
  <1>1. UNCHANGED <<logVars, up, stream, torn, shipper, purger, sweep, purges, past>>
    BY DEF SnapCount, SnapName, SnapVacuum, SnapCreate, SnapDone, SnapFail
  <1>2. SinkInv
    BY DEF IInv
  <1>3. LinesInv' /\ ShipperInv' /\ PurgerInv' /\ CutoffInv'
    BY <1>1, <1>2, StreamKept, PurgesKept DEF logVars
  <1>4. /\ snapper \in [pc : {"idle", "counted", "named", "vacuumed", "copying"},
                        seq : Nat, at : Nat, db : Database]
        /\ DbOK(DB) /\ DB \in Database
        /\ DbOK(EmptyDB) /\ EmptyDB \in Database
        /\ HighWater(events) \in Nat
        /\ HighWater(events) <= autoinc
        /\ Truncate(now) \in Nat
        /\ snapshots \subseteq Snapshot
    <2>1. HighWater(events) \in Nat /\ HighWater(events) <= autoinc
      <3>1. events \in SUBSET Event /\ autoinc \in Nat /\ \A e \in events : e.seq <= autoinc
        BY <1>2, Types
      <3>2. /\ HighWater(events) \in Nat
            /\ events = {} => HighWater(events) = 0
            /\ events # {} => \E e \in events : e.seq = HighWater(events)
        BY <3>1, HighWaterIsMax
      <3> QED
        BY <3>1, <3>2
    <2>2. Truncate(now) \in Nat
      BY <1>2, Types, TruncateType
    <2>3. DbOK(DB) /\ DbOK(EmptyDB)
      BY <1>2, EmptyImage DEF SinkInv, DatabaseInv
    <2> QED
      BY <1>2, <2>1, <2>2, <2>3 DEF SinkInv, TypeOK, DbOK
  <1> DEFINE T == [pc : {"idle", "counted", "named", "vacuumed", "copying"},
                   seq : Nat, at : Nat, db : Database]
  <1>5. /\ snapper' \in T
        /\ up \/ snapper.pc # "idle"
        /\ \/ snapper.pc # "copying" /\ snapper'.pc # "copying" /\ sinkMu' = sinkMu
           \/ sinkMu = "free" /\ sinkMu' = "snapper" /\ snapper'.pc = "copying"
           \/ sinkMu = "snapper" /\ sinkMu' = "free" /\ snapper'.pc # "copying"
        /\ snapper'.db \in {snapper.db, DB, EmptyDB}
        /\ snapper'.pc \in {"counted", "named"} => snapper'.seq <= autoinc
        /\ snapper'.pc \in {"vacuumed", "copying"} => snapper'.seq <= snapper'.db.autoinc
    <2>1. /\ snapper \in T
          /\ sinkMu = "snapper" <=> snapper.pc = "copying"
          /\ snapper.pc \in {"counted", "named"} => snapper.seq <= autoinc
          /\ snapper.pc \in {"vacuumed", "copying"} => snapper.seq <= snapper.db.autoinc
      BY <1>2, <1>4 DEF SinkInv, SinkMutexInv, DatabaseInv
    <2>2. CASE SnapCount
      BY <1>4, <2>1, <2>2 DEF SnapCount
    <2>3. CASE SnapName
      BY <1>4, <2>1, <2>3 DEF SnapName
    <2>4. CASE SnapVacuum
      <3>1. DB.autoinc = autoinc
        BY DEF DB
      <3> QED
        BY <1>4, <2>1, <2>4, <3>1 DEF SnapVacuum
    <2>5. CASE SnapCreate
      BY <1>4, <2>1, <2>5 DEF SnapCreate
    <2>6. CASE SnapDone \/ SnapFail
      <3>1. snapper' = IdleSnapper /\ snapper.pc # "idle"
        BY <2>1, <2>6 DEF SnapDone, SnapFail
      <3>2. IdleSnapper \in T /\ IdleSnapper.pc = "idle" /\ IdleSnapper.db = EmptyDB
        BY <1>4 DEF IdleSnapper
      <3>3. sinkMu' = IF sinkMu = "snapper" THEN "free" ELSE sinkMu
        BY <2>1, <2>6 DEF SnapDone, SnapFail
      <3> QED
        BY <2>1, <3>1, <3>2, <3>3
    <2> QED
      BY <2>2, <2>3, <2>4, <2>5, <2>6
  <1>6. \A s \in snapshots' : \/ s \in snapshots
                              \/ /\ s.db = snapper.db
                                 /\ s.seq = snapper.seq
                                 /\ s \in Snapshot
                                 /\ snapper.pc \in {"vacuumed", "copying"}
    <2>1. ASSUME NEW whole \in BOOLEAN, Store(whole), NEW s \in snapshots'
          PROVE  s \in snapshots \/ (s.db = snapper.db /\ s.seq = snapper.seq
                                     /\ s \in Snapshot)
      BY <1>4, <2>1 DEF Store, Snapshot
    <2>2. CASE SnapCreate \/ SnapDone
      <3>1. snapper.pc \in {"vacuumed", "copying"}
        BY <2>2 DEF SnapCreate, SnapDone
      <3>2. Store(TRUE) \/ Store(FALSE)
        BY <2>2 DEF SnapCreate, SnapDone
      <3> QED
        BY <2>1, <3>1, <3>2
    <2>3. CASE SnapCount \/ SnapName \/ SnapVacuum \/ SnapFail
      BY <2>3 DEF SnapCount, SnapName, SnapVacuum, SnapFail
    <2> QED
      BY <2>2, <2>3
  <1>7. TypeOK'
    <2>1. sinkMu' \in {"free", "shipper", "snapper"} \cup Purgers
      BY <1>2, <1>5 DEF SinkInv, TypeOK
    <2>2. LogTypeOK'
      BY <1>1, <1>2, Types DEF LogTypeOK, logVars
    <2>3. snapshots' \subseteq Snapshot
      BY <1>4, <1>6
    <2> QED
      BY <1>1, <1>2, <1>5, <2>1, <2>2, <2>3 DEF SinkInv, TypeOK
  <1>8. DownInv'
    <2>1. up
      BY <1>2, <1>5 DEF SinkInv, DownInv, IdleSnapper
    <2> QED
      BY <1>1, <2>1 DEF DownInv
  <1> HIDE DEF T
  <1>9. SinkMutexInv'
    BY <1>1, <1>2, <1>5 DEF SinkInv, SinkMutexInv, Purgers
  <1>10. DB' = DB /\ autoinc' = autoinc
    BY <1>1 DEF DB, logVars
  <1>11. DatabaseInv'
    <2>1. DbOK(snapper'.db)
      BY <1>2, <1>4, <1>5 DEF SinkInv, DatabaseInv
    <2>2. \A s \in snapshots' : DbOK(s.db) /\ s.seq <= s.db.autoinc
      BY <1>2, <1>6 DEF SinkInv, DatabaseInv
    <2> QED
      BY <1>2, <1>4, <1>5, <1>10, <2>1, <2>2 DEF SinkInv, DatabaseInv
  <1>12. ASSUME past.clean PROVE LogSideInv'
    <2>1. LogSideInv
      BY <1>12 DEF IInv
    <2>2. HistoryInv' /\ ShippedInv' /\ SkipInv'
      BY <1>1, <2>1, HistoryKept
    <2>3. ImageIn(snapper'.db, committed, purges) /\ snapper'.db.autoinc <= autoinc
      <3>1. ImageIn(EmptyDB, committed, purges) /\ EmptyDB.autoinc = 0
        BY <1>2, EmptyImage, Types DEF EmptyDB
      <3>2. ImageIn(DB, committed, purges) /\ DB.autoinc = autoinc
        BY <2>1 DEF LogSideInv, ImageInv, DB
      <3> QED
        BY <1>2, <1>5, <2>1, <3>1, <3>2, Types DEF LogSideInv, ImageInv
    <2>4. \A s \in snapshots' :
              s.whole => ImageIn(s.db, committed, purges) /\ s.db.autoinc <= autoinc
      BY <1>6, <2>1 DEF LogSideInv, ImageInv
    <2>5. ImageIn(DB, committed, purges)
      BY <2>1 DEF LogSideInv, ImageInv
    <2>6. ImageInv'
      <3>1. committed' = committed /\ purges' = purges
        BY <1>1 DEF logVars
      <3> QED
        BY <1>10, <2>3, <2>4, <2>5, <3>1 DEF ImageInv
    <2> QED
      BY <2>2, <2>6 DEF LogSideInv
  <1> QED
    BY <1>1, <1>3, <1>7, <1>8, <1>9, <1>11, <1>12 DEF IInv, SinkInv

(* The sweep's own steps change nothing but its locals. *)
LEMMA SweeperKeepsIInv ==
    ASSUME IInv,
           \/ SweepList \/ SweepCutoff \/ SweepDone
           \/ \E c \in Collections : SweepSkip(c)
    PROVE  IInv'
  <1> USE DEF sinkVars
  <1>1. UNCHANGED <<logVars, up, stream, torn, snapshots, sinkMu, shipper,
                    snapper, purger, purges, past>>
    BY DEF SweepList, SweepCutoff, SweepDone, SweepSkip
  <1>2. SinkInv
    BY DEF IInv
  <1>3. LogTypeOK' /\ DatabaseInv' /\ LinesInv' /\ ShipperInv'
    BY <1>1, <1>2, DatabasesKept, StreamKept
  <1>4. /\ sweep \in [pc : {"idle", "listed", "purging"},
                      todo : SUBSET Collections, cutoff : Nat]
        /\ {e.collection : e \in events} \in SUBSET Collections
        /\ now \in Nat
        /\ Retention \in Nat
    <2>1. \A e \in events : e.collection \in Collections
      BY <1>2, Types DEF Event
    <2> QED
      BY <1>2, <2>1, Types, BackupAssumption DEF SinkInv, TypeOK
  <1>5. /\ sweep' \in [pc : {"idle", "listed", "purging"},
                       todo : SUBSET Collections, cutoff : Nat]
        /\ \/ sweep'.cutoff = sweep.cutoff
           \/ sweep'.cutoff = ZeroTime
           \/ sweep'.cutoff + Retention <= now
    <2>1. CASE SweepList
      BY <1>4, <2>1 DEF SweepList
    <2>2. CASE SweepCutoff
      <3> DEFINE t == IF now > Retention THEN now - Retention ELSE ZeroTime
      <3>1. t \in Nat /\ (t = ZeroTime \/ t + Retention <= now)
        BY <1>4 DEF ZeroTime
      <3>2. sweep' = [sweep EXCEPT !.pc = "purging", !.cutoff = t]
        BY <2>2 DEF SweepCutoff
      <3> HIDE DEF t
      <3> QED
        BY <1>4, <3>1, <3>2
    <2>3. CASE SweepDone
      BY <1>4, <2>3 DEF SweepDone, IdleSweep, ZeroTime
    <2>4. ASSUME NEW c \in Collections, SweepSkip(c)
          PROVE  /\ sweep'.cutoff = sweep.cutoff
                 /\ sweep' \in [pc : {"idle", "listed", "purging"},
                                todo : SUBSET Collections, cutoff : Nat]
      BY <1>4, <2>4 DEF SweepSkip
    <2> QED
      BY <2>1, <2>2, <2>3, <2>4
  <1>6. TypeOK'
    BY <1>1, <1>2, <1>3, <1>5 DEF SinkInv, TypeOK
  <1>7. DownInv'
    BY <1>1, <1>2 DEF SinkInv, DownInv, IdleSweep, SweepList, SweepCutoff,
                      SweepDone, SweepSkip
  <1>8. SinkMutexInv' /\ PurgerInv'
    BY <1>1, <1>2 DEF SinkInv, SinkMutexInv, PurgerInv
  <1>9. CutoffInv'
    BY <1>1, <1>2, <1>5 DEF SinkInv, CutoffInv, logVars
  <1>10. ASSUME past.clean PROVE LogSideInv'
    BY <1>1, <1>10, HistoryKept, ImagesKept DEF IInv, LogSideInv
  <1> QED
    BY <1>1, <1>3, <1>6, <1>7, <1>8, <1>9, <1>10 DEF IInv, SinkInv

(* A commit is above every seq the stream, the shipper and the snapshots   *)
(* know of.                                                                *)
LEMMA ClientAppendsKeepsIInv ==
    ASSUME IInv, ClientAppends
    PROVE  IInv'
  <1>1. PICK r \in Requests, t \in Clock : AppendEvent(r, t)
    BY DEF ClientAppends
  <1>2. SinkInv /\ LogTypeOK
    BY DEF IInv, SinkInv, TypeOK
  <1>3. /\ LogTypeOK'
        /\ autoinc' = autoinc + 1
        /\ autoinc' <= MaxSeq
        /\ now' = now
        /\ ~ClockStepsBack => \A f \in committed : f.txTime <= t
    BY <1>1, <1>2, AppendFacts
  <1>4. PICK e \in Event : /\ e.seq = autoinc + 1
                           /\ e.txTime = t
                           /\ events' = events \cup {e}
                           /\ live' = Upsert(live, e)
                           /\ committed' = committed \cup {e}
    BY <1>1, <1>2, AppendFacts
  <1>5. UNCHANGED <<up, stream, torn, snapshots, sinkMu, shipper, snapper,
                    purger, sweep, purges, past>>
    BY DEF ClientAppends, backupVars, sinkVars
  <1>6. autoinc \in Nat /\ e.seq > autoinc
    BY <1>2, <1>4, Types
  <1>7. TypeOK' /\ DownInv' /\ SinkMutexInv'
    BY <1>2, <1>3, <1>5 DEF SinkInv, TypeOK, DownInv, SinkMutexInv
  <1>8. LinesInv' /\ ShipperInv' /\ PurgerInv' /\ CutoffInv'
    BY <1>2, <1>3, <1>5, StreamKept, PurgesKept
  <1>9. DatabaseInv'
    <2>1. /\ DB'.events = events \cup {e}
          /\ DB'.autoinc = autoinc + 1
          /\ DB' \in Database
      BY <1>3, <1>4, <1>6 DEF DB, Database, LogTypeOK
    <2>2. DbOK(DB')
      BY <1>2, <1>3, <1>4, <1>6, <2>1, Types DEF DbOK
    <2>3. snapper.pc \in {"counted", "named"} => snapper.seq <= autoinc + 1
      <3>1. snapper.seq \in Nat
        BY <1>2 DEF SinkInv, TypeOK
      <3> QED
        BY <1>2, <1>6, <3>1 DEF SinkInv, DatabaseInv
    <2> QED
      BY <1>2, <1>3, <1>5, <2>2, <2>3 DEF SinkInv, DatabaseInv
  <1>10. ASSUME past.clean PROVE LogSideInv'
    <2>1. HistoryInv /\ ShippedInv /\ SkipInv /\ ImageInv
      BY <1>10 DEF IInv, LogSideInv
    <2>2. \A f \in committed : /\ f.seq \in Nat /\ f.txTime \in Nat
                               /\ f.seq <= autoinc /\ f.seq < e.seq
      BY <1>2, <1>6, <2>1, Types DEF HistoryInv
    <2>3. HistoryInv'
      <3>1. /\ events' \subseteq committed'
            /\ \A f \in committed' : f.seq <= autoinc'
            /\ \A f, g \in committed' : f.seq = g.seq => f = g
        BY <1>3, <1>4, <1>6, <2>1, <2>2 DEF HistoryInv
      <3>2. ASSUME ~ClockStepsBack, NEW f \in committed', NEW g \in committed',
                   f.seq < g.seq
            PROVE  f.txTime <= g.txTime
        BY <1>3, <1>4, <2>1, <2>2, <3>2 DEF HistoryInv, Clock
      <3> QED
        BY <3>1, <3>2 DEF HistoryInv
    <2>4. ShippedInv'
      BY <1>2, <1>3, <1>4, <1>5, <1>6, <2>1, Types DEF ShippedInv
    <2>5. SkipInv'
      <3>1. /\ shipper.lastSeq < e.seq
            /\ \A l \in stream : l.ev.seq < e.seq
            /\ shipper.pc \in {"read", "writing"} => shipper.upto < e.seq
        BY <1>2, <1>6, <2>1, <2>2, Types DEF ShippedInv, Shipped
      <3> QED
        BY <1>2, <1>4, <1>5, <2>1, <3>1, Types DEF SkipInv, Unpurged
    <2>6. ImageInv'
      <3>1. ASSUME NEW db, DbOK(db), ImageIn(db, committed, purges), db.autoinc <= autoinc
            PROVE  ImageIn(db, committed', purges') /\ db.autoinc <= autoinc'
        <4>1. db.autoinc \in Nat
          BY <3>1 DEF DbOK, Database
        <4>2. UpTo(committed', db.autoinc) = UpTo(committed, db.autoinc)
          BY <1>4, <1>6, <3>1, <4>1 DEF UpTo
        <4>3. ImageIn(db, committed', purges')
          BY <1>5, <3>1, <4>2, ImageStays
        <4> QED
          BY <1>3, <1>6, <3>1, <4>1, <4>3
      <3>2. ImageIn(DB', committed', purges')
        <4>1. /\ UpTo(committed', autoinc') = committed'
              /\ UpTo(committed, autoinc) = committed
          BY <1>3, <1>4, <1>6, <2>2 DEF UpTo
        <4>2. /\ DB'.autoinc = autoinc' /\ DB'.events = events' /\ DB'.live = live'
              /\ DB.autoinc = autoinc /\ DB.events = events /\ DB.live = live
          BY DEF DB
        <4>3. /\ events \subseteq committed
              /\ \A f \in committed : UnpurgedBy(f, purges) => f \in events
              /\ (\A f \in committed : UnpurgedBy(f, purges)) => live = LatestOf(committed)
          BY <2>1, <4>1, <4>2 DEF ImageInv, ImageIn
        <4>4. live = LatestOf(committed) => live' = LatestOf(committed')
          BY <1>2, <1>4, <2>2, Types, UpsertLatest
        <4> QED
          BY <1>4, <1>5, <4>1, <4>2, <4>3, <4>4 DEF ImageIn
      <3> QED
        BY <1>2, <1>5, <2>1, <3>1, <3>2 DEF ImageInv, SinkInv, DatabaseInv
    <2> QED
      BY <2>3, <2>4, <2>5, <2>6 DEF LogSideInv
  <1> QED
    BY <1>5, <1>7, <1>8, <1>9, <1>10 DEF IInv, SinkInv

LEMMA TimePassesKeepsIInv ==
    ASSUME IInv, TimePasses
    PROVE  IInv'
  <1>1. /\ UNCHANGED <<events, live, autoinc, committed>>
        /\ UNCHANGED <<up, stream, torn, snapshots, sinkMu, shipper, snapper,
                       purger, sweep, purges, past>>
        /\ now' = now + 1 /\ now < MaxTime
    BY DEF TimePasses, Tick, backupVars, sinkVars
  <1>2. SinkInv
    BY DEF IInv
  <1>3. LogTypeOK'
    BY <1>1, <1>2, BoundAssumption DEF SinkInv, TypeOK, LogTypeOK, Clock
  <1>4. TypeOK' /\ DownInv' /\ SinkMutexInv' /\ PurgerInv' /\ DatabaseInv'
    BY <1>1, <1>2, <1>3 DEF SinkInv, TypeOK, DownInv, SinkMutexInv, PurgerInv,
                            DatabaseInv, DB
  <1>5. LinesInv' /\ ShipperInv'
    BY <1>1, <1>2, StreamKept
  <1>6. CutoffInv'
    <2> SUFFICES ASSUME Cutoffs = {},
                        NEW t \in {q[2] : q \in purges} \cup {sweep.cutoff}
                 PROVE  t = ZeroTime \/ t + Retention <= now + 1
      BY <1>1 DEF CutoffInv
    <2>1. t \in Nat /\ now \in Nat /\ Retention \in Nat
      BY <1>2, Types, BackupAssumption DEF SinkInv, TypeOK
    <2>2. t = ZeroTime \/ t + Retention <= now
      BY <1>2 DEF SinkInv, CutoffInv
    <2> QED
      BY <2>1, <2>2
  <1>7. ASSUME past.clean PROVE LogSideInv'
    BY <1>1, <1>7 DEF IInv, LogSideInv, HistoryInv, ShippedInv, SkipInv, Unpurged,
                      ImageInv, DB
  <1> QED
    BY <1>1, <1>4, <1>5, <1>6, <1>7 DEF IInv, SinkInv

-----------------------------------------------------------------------------
(* A step of the shipper leaves the databases and the purges alone. *)
LEMMA ShipperFrame ==
    ASSUME SinkInv, UNCHANGED <<logVars, up, stream, snapshots, snapper, purger,
                                sweep, purges>>
    PROVE  LogTypeOK' /\ DatabaseInv' /\ PurgerInv' /\ CutoffInv' /\ LinesInv'
  BY DatabasesKept, PurgesKept DEF logVars, SinkInv, LinesInv, StreamAscending

(* The batch is all of the log past lastSeq; what it misses was purged. *)
LEMMA ShipReadKeepsIInv ==
    ASSUME IInv, ShipRead
    PROVE  IInv'
  <1> DEFINE A == After(shipper.lastSeq)
  <1>1. /\ up
        /\ shipper.pc = "idle"
        /\ A # {}
        /\ shipper' = [shipper EXCEPT !.pc = "read", !.batch = A, !.upto = HighWater(A)]
        /\ UNCHANGED <<logVars, up, stream, torn, snapshots, sinkMu, snapper,
                       purger, sweep, purges, past>>
    BY DEF ShipRead, sinkVars
  <1>2. /\ A \subseteq events
        /\ \A e \in A : e.seq > shipper.lastSeq
        /\ \A e \in events : e.seq > shipper.lastSeq => e \in A
    BY DEF After
  <1>3. SinkInv
    BY DEF IInv
  <1> HIDE DEF A
  <1>4. /\ HighWater(A) \in Nat
        /\ \A e \in A : e.seq <= HighWater(A)
        /\ \E e \in A : e.seq = HighWater(A)
        /\ HighWater(A) <= autoinc
    <2>1. A \in SUBSET Event /\ autoinc \in Nat /\ \A e \in A : e.seq <= autoinc
      BY <1>2, <1>3, Types
    <2> QED
      BY <1>1, <2>1, HighWaterIsMax
  <1>5. LogTypeOK' /\ DatabaseInv' /\ PurgerInv' /\ CutoffInv' /\ LinesInv'
    BY <1>1, <1>3, ShipperFrame
  <1>6. /\ shipper' \in [pc : {"idle", "read", "writing", "stopped"},
                         lastSeq : Nat, batch : SUBSET Event, upto : Nat]
        /\ shipper'.pc = "read"
        /\ shipper'.lastSeq = shipper.lastSeq
        /\ shipper'.batch = A
        /\ shipper'.upto = HighWater(A)
    BY <1>1, <1>2, <1>3, <1>4, Types DEF SinkInv, TypeOK
  <1>7. TypeOK' /\ DownInv' /\ SinkMutexInv'
    BY <1>1, <1>3, <1>5, <1>6 DEF SinkInv, TypeOK, DownInv, SinkMutexInv
  <1>8. ShipperInv'
    <2>1. \A l \in stream : l.ev.seq \in Nat /\ l.ev.seq <= shipper.lastSeq
      BY <1>1, <1>3, Types DEF SinkInv, ShipperInv
    <2>2. \A l \in stream : \A e \in A : l.ev.seq < e.seq /\ l.ev.seq <= HighWater(A)
      BY <1>2, <1>3, <1>4, <2>1, Types
    <2>3. \A e, f \in A : e.seq = f.seq => e = f
      BY <1>2, <1>3, Types
    <2>4. HighWater(A) <= MaxSeq
      BY <1>3, <1>4, Types
    <2> QED
      BY <1>1, <1>4, <1>6, <2>1, <2>2, <2>3, <2>4 DEF ShipperInv
  <1>9. ASSUME past.clean PROVE LogSideInv'
    <2>1. HistoryInv /\ ShippedInv /\ SkipInv /\ ImageInv
      BY <1>9 DEF IInv, LogSideInv
    <2>2. HistoryInv' /\ ImageInv'
      BY <1>1, <1>9, <2>1, ImagesKept DEF IInv, HistoryInv, logVars
    <2>3. ShippedInv'
      BY <1>1, <1>2, <1>4, <1>6, <2>1 DEF ShippedInv, HistoryInv, logVars
    <2>4. SkipInv'
      <3> SUFFICES ASSUME NEW e \in committed, Unpurged(e)
                   PROVE  /\ e.seq <= shipper.lastSeq => e \in Shipped(stream)
                          /\ \A l \in stream : e.seq <= l.ev.seq => e \in Shipped(stream)
                          /\ e.seq <= HighWater(A) => e \in Shipped(stream) \cup A
        BY <1>1, <1>6 DEF SkipInv, Unpurged, logVars
      <3>1. /\ e.seq <= shipper.lastSeq => e \in Shipped(stream)
            /\ \A l \in stream : e.seq <= l.ev.seq => e \in Shipped(stream)
        BY <2>1 DEF SkipInv
      <3>2. e \in events
        BY <2>1 DEF ImageInv, ImageIn, UpTo, DB, HistoryInv, Unpurged, UnpurgedBy
      <3>3. e.seq <= shipper.lastSeq \/ e \in A
        BY <1>2, <1>3, <3>2, Types
      <3> QED
        BY <3>1, <3>3
    <2> QED
      BY <2>2, <2>3, <2>4 DEF LogSideInv
  <1> QED
    BY <1>1, <1>5, <1>7, <1>8, <1>9 DEF IInv, SinkInv

LEMMA ShipLockKeepsIInv ==
    ASSUME IInv, ShipLock
    PROVE  IInv'
  <1>1. /\ shipper.pc = "read"
        /\ sinkMu = "free" /\ sinkMu' = "shipper"
        /\ shipper' = [shipper EXCEPT !.pc = "writing"]
        /\ UNCHANGED <<logVars, up, stream, torn, snapshots, snapper, purger,
                       sweep, purges, past>>
    BY DEF ShipLock
  <1>2. SinkInv
    BY DEF IInv
  <1>3. LogTypeOK' /\ DatabaseInv' /\ PurgerInv' /\ CutoffInv' /\ LinesInv'
    BY <1>1, <1>2, ShipperFrame
  <1>4. /\ shipper' \in [pc : {"idle", "read", "writing", "stopped"},
                         lastSeq : Nat, batch : SUBSET Event, upto : Nat]
        /\ shipper'.pc = "writing"
        /\ shipper'.lastSeq = shipper.lastSeq
        /\ shipper'.batch = shipper.batch
        /\ shipper'.upto = shipper.upto
    BY <1>1, <1>2 DEF SinkInv, TypeOK
  <1>5. up
    BY <1>1, <1>2 DEF SinkInv, DownInv, IdleShipper
  <1>6. TypeOK' /\ DownInv'
    BY <1>1, <1>2, <1>3, <1>4, <1>5 DEF SinkInv, TypeOK, DownInv
  <1>7. SinkMutexInv'
    BY <1>1, <1>2, <1>4 DEF SinkInv, SinkMutexInv, Purgers
  <1>8. ShipperInv'
    BY <1>1, <1>2, <1>4 DEF SinkInv, ShipperInv
  <1>9. ASSUME past.clean PROVE LogSideInv'
    <2>1. LogSideInv
      BY <1>9 DEF IInv
    <2>2. HistoryInv' /\ ShippedInv' /\ SkipInv'
      BY <1>1, <1>4, <2>1 DEF LogSideInv, HistoryInv, ShippedInv, SkipInv, Unpurged,
                              logVars
    <2> QED
      BY <1>1, <2>1, <2>2, ImagesKept DEF LogSideInv
  <1> QED
    BY <1>1, <1>3, <1>6, <1>7, <1>8, <1>9 DEF IInv, SinkInv

(* What one write does: the lowest event of the batch goes to a new last   *)
(* line.                                                                   *)
LEMMA ShipWriteFacts ==
    ASSUME SinkInv, ShipWrite
    PROVE  \E e \in shipper.batch, n \in Nat :
               /\ shipper.pc = "writing"
               /\ \A f \in shipper.batch : e.seq <= f.seq
               /\ stream' = stream \cup {[no |-> n, ev |-> e]}
               /\ \A l \in stream : l.no < n
               /\ shipper' = [shipper EXCEPT !.batch = shipper.batch \ {e}]
               /\ e \in Event
               /\ Shipped(stream') = Shipped(stream) \cup {e}
               /\ UNCHANGED <<logVars, up, torn, snapshots, sinkMu, snapper,
                              purger, sweep, purges, past>>
  <1>1. PICK e \in shipper.batch :
               /\ \A f \in shipper.batch : e.seq <= f.seq
               /\ stream' = stream \cup {[no |-> NextLine(stream), ev |-> e]}
               /\ shipper' = [shipper EXCEPT !.batch = shipper.batch \ {e}]
    BY DEF ShipWrite
  <1>2. shipper.pc = "writing"
        /\ UNCHANGED <<logVars, up, torn, snapshots, sinkMu, snapper, purger,
                       sweep, purges, past>>
    BY DEF ShipWrite
  <1>3. NextLine(stream) \in Nat /\ \A l \in stream : l.no < NextLine(stream)
    BY Types, NextLineIsPast DEF SinkInv, LinesInv
  <1>4. e \in Event
    BY Types
  <1>5. Shipped(stream') = Shipped(stream) \cup {e}
    <2>1. ASSUME NEW x \in Shipped(stream') PROVE x \in Shipped(stream) \cup {e}
      <3>1. PICK l \in stream' : x = l.ev
        BY <2>1 DEF Shipped
      <3> QED
        BY <1>1, <3>1 DEF Shipped
    <2>2. ASSUME NEW x \in Shipped(stream) PROVE x \in Shipped(stream')
      BY <1>1, <2>2 DEF Shipped
    <2>3. e \in Shipped(stream')
      <3>1. [no |-> NextLine(stream), ev |-> e] \in stream'
        BY <1>1
      <3>2. [no |-> NextLine(stream), ev |-> e].ev = e
        OBVIOUS
      <3> QED
        BY <3>1, <3>2 DEF Shipped
    <2> QED
      BY <2>1, <2>2, <2>3
  <1> QED
    BY <1>1, <1>2, <1>3, <1>4, <1>5

LEMMA ShipWriteKeepsIInv ==
    ASSUME IInv, ShipWrite
    PROVE  IInv'
  <1>1. SinkInv
    BY DEF IInv
  <1>2. PICK e \in shipper.batch, n \in Nat :
               /\ shipper.pc = "writing"
               /\ \A f \in shipper.batch : e.seq <= f.seq
               /\ stream' = stream \cup {[no |-> n, ev |-> e]}
               /\ \A l \in stream : l.no < n
               /\ shipper' = [shipper EXCEPT !.batch = shipper.batch \ {e}]
               /\ e \in Event
               /\ Shipped(stream') = Shipped(stream) \cup {e}
               /\ UNCHANGED <<logVars, up, torn, snapshots, sinkMu, snapper,
                              purger, sweep, purges, past>>
    BY <1>1, ShipWriteFacts
  <1> DEFINE k == [no |-> n, ev |-> e]
  <1>3. k \in Line /\ k.no = n /\ k.ev = e /\ stream' = stream \cup {k}
    BY <1>2 DEF Line
  <1> HIDE DEF k
  <1>4. /\ shipper' \in [pc : {"idle", "read", "writing", "stopped"},
                         lastSeq : Nat, batch : SUBSET Event, upto : Nat]
        /\ shipper'.pc = "writing"
        /\ shipper'.lastSeq = shipper.lastSeq
        /\ shipper'.batch = shipper.batch \ {e}
        /\ shipper'.upto = shipper.upto
    BY <1>1, <1>2, Types DEF SinkInv, TypeOK
  <1>5. up
    BY <1>1, <1>2 DEF SinkInv, DownInv, IdleShipper
  <1>6. /\ shipper.upto <= MaxSeq
        /\ \A f \in shipper.batch : f.seq <= shipper.upto
        /\ \A f, g \in shipper.batch : f.seq = g.seq => f = g
        /\ \A l \in stream : /\ l.ev.seq <= shipper.upto
                             /\ \A f \in shipper.batch : l.ev.seq < f.seq
    BY <1>1, <1>2 DEF SinkInv, ShipperInv
  <1>7. LogTypeOK' /\ DatabaseInv'
    BY <1>1, <1>2, DatabasesKept
  <1>8. TypeOK' /\ DownInv'
    BY <1>1, <1>2, <1>3, <1>4, <1>5, <1>7 DEF SinkInv, TypeOK, DownInv
  <1>9. SinkMutexInv' /\ CutoffInv'
    BY <1>1, <1>2, <1>4 DEF SinkInv, SinkMutexInv, CutoffInv, logVars
  <1>10. PurgerInv'
    <2>1. \A p \in Purgers : purger[p].pc # "filtered"
      BY <1>1, <1>2 DEF SinkInv, SinkMutexInv, Purgers
    <2> QED
      BY <1>1, <1>2, <2>1 DEF SinkInv, PurgerInv
  <1>11. LinesInv'
    <2>1. \A l \in stream' : l.no <= n
      BY <1>1, <1>2, <1>3, Types
    <2>2. \A l, m \in stream' : l.no = m.no => l = m
      BY <1>1, <1>2, <1>3, Types DEF SinkInv, LinesInv
    <2>3. StreamAscending'
      <3> SUFFICES ASSUME NEW l \in stream', NEW m \in stream', l.no < m.no
                   PROVE  l.ev.seq < m.ev.seq
        BY DEF StreamAscending
      <3>1. CASE m = k
        BY <1>1, <1>3, <1>6, <3>1, Types
      <3>2. CASE m \in stream
        <4>1. l \in stream
          BY <1>1, <1>2, <1>3, <3>2, Types
        <4> QED
          BY <1>1, <3>2, <4>1 DEF SinkInv, LinesInv, StreamAscending
      <3> QED
        BY <1>3, <3>1, <3>2
    <2>4. \A l \in stream' : l.ev.seq <= MaxSeq
      BY <1>1, <1>3, <1>6, Types DEF SinkInv, LinesInv
    <2> QED
      BY <2>1, <2>2, <2>3, <2>4 DEF LinesInv
  <1>12. ShipperInv'
    <2>1. \A f \in shipper'.batch : e.seq < f.seq
      BY <1>1, <1>2, <1>4, <1>6, Types
    <2>2. \A l \in stream' : /\ l.ev.seq <= shipper'.upto
                             /\ \A f \in shipper'.batch : l.ev.seq < f.seq
      BY <1>3, <1>4, <1>6, <2>1
    <2> QED
      BY <1>4, <1>6, <2>2 DEF ShipperInv
  <1>13. ASSUME past.clean PROVE LogSideInv'
    <2>1. HistoryInv /\ ShippedInv /\ SkipInv /\ ImageInv /\ LogSideInv
      BY <1>13 DEF IInv, LogSideInv
    <2>2. HistoryInv' /\ ImageInv'
      BY <1>2, <2>1, ImagesKept DEF HistoryInv, logVars
    <2>3. ShippedInv'
      BY <1>2, <1>4, <2>1 DEF ShippedInv, logVars
    <2>4. SkipInv'
      <3> SUFFICES ASSUME NEW f \in committed, Unpurged(f)
                   PROVE  /\ f.seq <= shipper.lastSeq => f \in Shipped(stream')
                          /\ \A l \in stream' : f.seq <= l.ev.seq => f \in Shipped(stream')
                          /\ f.seq <= shipper.upto
                                 => f \in Shipped(stream') \cup (shipper.batch \ {e})
        BY <1>2, <1>4 DEF SkipInv, Unpurged, logVars
      <3>1. /\ f.seq <= shipper.lastSeq => f \in Shipped(stream)
            /\ \A l \in stream : f.seq <= l.ev.seq => f \in Shipped(stream)
            /\ f.seq <= shipper.upto => f \in Shipped(stream) \cup shipper.batch
        BY <1>2, <2>1 DEF SkipInv
      <3>2. ASSUME f.seq <= e.seq PROVE f \in Shipped(stream')
        <4>1. f.seq <= shipper.upto
          BY <1>1, <1>6, <3>2, Types
        <4>2. f \in shipper.batch => f = e
          BY <1>1, <1>2, <1>6, <3>2, Types
        <4> QED
          BY <1>2, <3>1, <4>1, <4>2
      <3> QED
        BY <1>2, <1>3, <3>1, <3>2
    <2> QED
      BY <2>2, <2>3, <2>4 DEF LogSideInv
  <1> QED
    BY <1>2, <1>7, <1>8, <1>9, <1>10, <1>11, <1>12, <1>13 DEF IInv, SinkInv

LEMMA ShipDoneKeepsIInv ==
    ASSUME IInv, ShipDone
    PROVE  IInv'
  <1>1. /\ shipper.pc = "writing"
        /\ shipper.batch = {}
        /\ sinkMu' = "free"
        /\ shipper' = IdleShipper(shipper.upto)
        /\ UNCHANGED <<logVars, up, stream, torn, snapshots, snapper, purger,
                       sweep, purges, past>>
    BY DEF ShipDone
  <1>2. SinkInv
    BY DEF IInv
  <1>3. LogTypeOK' /\ DatabaseInv' /\ PurgerInv' /\ CutoffInv' /\ LinesInv'
    BY <1>1, <1>2, ShipperFrame
  <1>4. /\ shipper' \in [pc : {"idle", "read", "writing", "stopped"},
                         lastSeq : Nat, batch : SUBSET Event, upto : Nat]
        /\ shipper'.pc = "idle"
        /\ shipper'.lastSeq = shipper.upto
    BY <1>1, <1>2, Types DEF IdleShipper
  <1>5. up /\ sinkMu = "shipper"
    BY <1>1, <1>2 DEF SinkInv, DownInv, IdleShipper, SinkMutexInv
  <1>6. TypeOK' /\ DownInv'
    BY <1>1, <1>2, <1>3, <1>4, <1>5 DEF SinkInv, TypeOK, DownInv
  <1>7. SinkMutexInv'
    BY <1>1, <1>2, <1>4, <1>5 DEF SinkInv, SinkMutexInv, Purgers
  <1>8. ShipperInv'
    BY <1>1, <1>2, <1>4 DEF SinkInv, ShipperInv
  <1>9. ASSUME past.clean PROVE LogSideInv'
    <2>1. LogSideInv
      BY <1>9 DEF IInv
    <2>2. HistoryInv' /\ ShippedInv' /\ SkipInv'
      BY <1>1, <1>4, <2>1 DEF LogSideInv, HistoryInv, ShippedInv, SkipInv, Unpurged,
                              logVars
    <2> QED
      BY <1>1, <2>1, <2>2, ImagesKept DEF LogSideInv
  <1> QED
    BY <1>1, <1>3, <1>6, <1>7, <1>8, <1>9 DEF IInv, SinkInv

(* A shipper that has failed keeps lastSeq and never writes again. *)
LEMMA ShipFailKeepsIInv ==
    ASSUME IInv, ShipFail
    PROVE  IInv'
  <1>1. /\ up
        /\ shipper' = [IdleShipper(shipper.lastSeq) EXCEPT !.pc = "stopped"]
        /\ sinkMu' = IF sinkMu = "shipper" THEN "free" ELSE sinkMu
        /\ torn' \in BOOLEAN
        /\ UNCHANGED <<logVars, up, stream, snapshots, snapper, purger,
                       sweep, purges, past>>
    BY DEF ShipFail, MayTear
  <1>2. SinkInv
    BY DEF IInv
  <1>3. LogTypeOK' /\ DatabaseInv' /\ PurgerInv' /\ CutoffInv' /\ LinesInv'
    BY <1>1, <1>2, ShipperFrame
  <1>4. /\ shipper' \in [pc : {"idle", "read", "writing", "stopped"},
                         lastSeq : Nat, batch : SUBSET Event, upto : Nat]
        /\ shipper'.pc = "stopped"
        /\ shipper'.lastSeq = shipper.lastSeq
    BY <1>1, <1>2, Types DEF IdleShipper
  <1>5. TypeOK' /\ DownInv'
    BY <1>1, <1>2, <1>3, <1>4 DEF SinkInv, TypeOK, DownInv
  <1>6. SinkMutexInv'
    BY <1>1, <1>2, <1>4 DEF SinkInv, SinkMutexInv, Purgers
  <1>7. ShipperInv'
    BY <1>4 DEF ShipperInv
  <1>8. ASSUME past.clean PROVE LogSideInv'
    <2>1. LogSideInv
      BY <1>8 DEF IInv
    <2>2. HistoryInv' /\ ShippedInv' /\ SkipInv'
      BY <1>1, <1>4, <2>1 DEF LogSideInv, HistoryInv, ShippedInv, SkipInv, Unpurged,
                              logVars
    <2> QED
      BY <1>1, <2>1, <2>2, ImagesKept DEF LogSideInv
  <1> QED
    BY <1>1, <1>3, <1>5, <1>6, <1>7, <1>8 DEF IInv, SinkInv

-----------------------------------------------------------------------------
(* The DELETE on the primary: it is in the history of purges before the    *)
(* stream is touched.  A cutoff is a client's or the sweep's.              *)
LEMMA PurgeDeleteKeepsIInv ==
    ASSUME IInv, up, NEW p \in Purgers, NEW c \in Collections, NEW t \in Nat,
           PurgeDelete(p, c, t),
           Cutoffs = {} => t = sweep.cutoff,
           sweep' = sweep \/ \E d : sweep' = [sweep EXCEPT !.todo = @ \ {d}]
    PROVE  IInv'
  <1>1. /\ purger[p].pc = "idle"
        /\ purger' = [purger EXCEPT ![p].pc = "deleted", ![p].cutoff = t]
        /\ purges' = purges \cup {<<c, t>>}
        /\ UNCHANGED <<up, stream, torn, snapshots, sinkMu, shipper, snapper, past>>
        /\ UNCHANGED <<live, autoinc, now, committed>>
        /\ events' = DeleteBefore(events, c, t)
    BY DEF PurgeDelete, Purge, sinkVars
  <1>2. SinkInv
    BY DEF IInv
  <1>3. events' \subseteq events /\ \A e \in events : e.txTime >= t => e \in events'
    BY <1>1, <1>2, Types DEF DeleteBefore
  <1>4. /\ purger' \in [Purgers -> [pc : {"idle", "deleted", "filtered"},
                                    cutoff : Nat, tmp : SUBSET Line]]
        /\ purger'[p].pc = "deleted" /\ purger'[p].cutoff = t
        /\ \A x \in Purgers : x # p => purger'[x] = purger[x]
    <2> DEFINE T == [pc : {"idle", "deleted", "filtered"},
                     cutoff : Nat, tmp : SUBSET Line]
               q == [purger[p] EXCEPT !.pc = "deleted", !.cutoff = t]
    <2>1. purger \in [Purgers -> T]
      BY <1>2 DEF SinkInv, TypeOK
    <2>2. q \in T /\ q.pc = "deleted" /\ q.cutoff = t
      BY <2>1
    <2>3. purger' = [purger EXCEPT ![p] = q]
      BY <1>1, <2>1
    <2> HIDE DEF T, q
    <2>4. purger' \in [Purgers -> T] /\ purger'[p] = q
              /\ \A x \in Purgers : x # p => purger'[x] = purger[x]
      BY <2>1, <2>2, <2>3
    <2> QED
      BY <2>2, <2>4 DEF T
  <1>5. /\ sweep' \in [pc : {"idle", "listed", "purging"},
                       todo : SUBSET Collections, cutoff : Nat]
        /\ sweep'.cutoff = sweep.cutoff
    BY <1>2 DEF SinkInv, TypeOK
  <1>6. purges' \subseteq Collections \X Nat /\ purges \subseteq purges'
    BY <1>1, <1>2 DEF SinkInv, TypeOK
  <1>7. LogTypeOK'
    BY <1>1, <1>2, <1>3, Types DEF LogTypeOK
  <1>8. TypeOK' /\ DownInv'
    BY <1>1, <1>2, <1>4, <1>5, <1>6, <1>7 DEF SinkInv, TypeOK, DownInv
  <1>9. SinkMutexInv'
    BY <1>1, <1>2, <1>4 DEF SinkInv, SinkMutexInv
  <1>10. PurgerInv'
    <2>1. \E q \in purges' : q[2] = t
      <3>1. <<c, t>> \in purges' /\ <<c, t>>[2] = t
        BY <1>1
      <3> QED
        BY <3>1
    <2>2. ASSUME NEW x \in Purgers, x # p
          PROVE  /\ purger'[x].pc # "idle" => \E q \in purges' : q[2] = purger'[x].cutoff
                 /\ purger'[x].pc = "filtered" =>
                        purger'[x].tmp
                            = {l \in stream' : l.ev.txTime >= purger'[x].cutoff}
      BY <1>1, <1>2, <1>4, <1>6, <2>2 DEF SinkInv, PurgerInv
    <2> QED
      BY <1>4, <2>1, <2>2 DEF PurgerInv
  <1>11. /\ DB'.events = events' /\ DB'.live = live /\ DB'.autoinc = autoinc
         /\ DB.events = events /\ DB.live = live /\ DB.autoinc = autoinc
    BY <1>1 DEF DB
  <1>12. DatabaseInv'
    <2>1. DB' \in Database
      BY <1>7 DEF DB, Database, LogTypeOK
    <2>2. DbOK(DB')
      BY <1>2, <1>3, <1>11, <2>1, Types DEF DbOK
    <2> QED
      BY <1>1, <1>2, <2>2 DEF SinkInv, DatabaseInv
  <1>13. LinesInv' /\ ShipperInv'
    BY <1>1, <1>2, StreamKept
  <1>14. CutoffInv'
    <2> SUFFICES ASSUME Cutoffs = {},
                        NEW x \in {q[2] : q \in purges'} \cup {sweep'.cutoff}
                 PROVE  x = ZeroTime \/ x + Retention <= now
      BY <1>1 DEF CutoffInv
    <2>1. x = t \/ x \in {q[2] : q \in purges} \cup {sweep.cutoff}
      BY <1>1, <1>5
    <2>2. x \in {q[2] : q \in purges} \cup {sweep.cutoff}
      BY <2>1
    <2> QED
      BY <1>2, <2>2 DEF SinkInv, CutoffInv
  <1>15. ASSUME past.clean PROVE LogSideInv'
    <2>1. HistoryInv /\ ShippedInv /\ SkipInv /\ ImageInv
      BY <1>15 DEF IInv, LogSideInv
    <2>2. HistoryInv' /\ ShippedInv'
      BY <1>1, <1>3, <2>1 DEF HistoryInv, ShippedInv
    <2>3. \A e : UnpurgedBy(e, purges') => UnpurgedBy(e, purges) /\ e.txTime >= t
      <3>1. <<c, t>> \in purges' /\ <<c, t>>[2] = t
        BY <1>1
      <3> QED
        BY <1>6, <3>1 DEF UnpurgedBy
    <2>4. SkipInv'
      <3> SUFFICES ASSUME NEW e \in committed, Unpurged(e)'
                   PROVE  /\ e.seq <= shipper.lastSeq => e \in Shipped(stream)
                          /\ \A l \in stream : e.seq <= l.ev.seq => e \in Shipped(stream)
                          /\ shipper.pc \in {"read", "writing"} /\ e.seq <= shipper.upto
                                 => e \in Shipped(stream) \cup shipper.batch
        BY <1>1 DEF SkipInv
      <3>1. Unpurged(e)
        BY <1>6 DEF Unpurged
      <3> QED
        BY <2>1, <3>1 DEF SkipInv
    <2>5. ImageIn(DB', committed', purges')
      <3>1. events' \subseteq committed
        BY <1>3, <2>1 DEF HistoryInv
      <3>2. \A e \in UpTo(committed, autoinc) : UnpurgedBy(e, purges') => e \in events'
        BY <1>3, <1>11, <2>1, <2>3 DEF ImageInv, ImageIn
      <3>3. (\A e \in UpTo(committed, autoinc) : UnpurgedBy(e, purges'))
                => live = LatestOf(UpTo(committed, autoinc))
        BY <1>11, <2>1, <2>3 DEF ImageInv, ImageIn
      <3> QED
        BY <1>1, <1>11, <3>1, <3>2, <3>3 DEF ImageIn
    <2>6. ASSUME NEW db, DbOK(db), ImageIn(db, committed, purges)
          PROVE  ImageIn(db, committed', purges')
      BY <1>1, <1>6, <2>6, ImageStays
    <2>7. ImageInv'
      BY <1>1, <1>2, <2>1, <2>5, <2>6 DEF ImageInv, SinkInv, DatabaseInv
    <2> QED
      BY <2>2, <2>4, <2>7 DEF LogSideInv
  <1> QED
    BY <1>1, <1>8, <1>9, <1>10, <1>12, <1>13, <1>14, <1>15 DEF IInv, SinkInv

LEMMA ClientPurgesKeepsIInv ==
    ASSUME IInv, ClientPurges
    PROVE  IInv'
  <1>1. PICK c \in Collections, t \in Cutoffs : PurgeDelete("client", c, t)
    BY DEF ClientPurges
  <1>2. up /\ sweep' = sweep /\ "client" \in Purgers /\ t \in Nat /\ Cutoffs # {}
    BY BoundAssumption DEF ClientPurges, Purgers
  <1> QED
    BY <1>1, <1>2, PurgeDeleteKeepsIInv

LEMMA SweepPurgeKeepsIInv ==
    ASSUME IInv, NEW c \in Collections, SweepPurge(c)
    PROVE  IInv'
  <1>1. /\ sweep.pc = "purging"
        /\ PurgeDelete("sweep", c, sweep.cutoff)
        /\ sweep' = [sweep EXCEPT !.todo = @ \ {c}]
    BY DEF SweepPurge
  <1>2. up /\ sweep.cutoff \in Nat /\ "sweep" \in Purgers
    BY <1>1 DEF IInv, SinkInv, DownInv, IdleSweep, TypeOK, Purgers
  <1> QED
    BY <1>1, <1>2, PurgeDeleteKeepsIInv

LEMMA PurgeFilterKeepsIInv ==
    ASSUME IInv, NEW p \in Purgers, PurgeFilter(p)
    PROVE  IInv'
  <1> DEFINE F == {l \in stream : l.ev.txTime >= purger[p].cutoff}
  <1>1. /\ purger[p].pc = "deleted"
        /\ sinkMu = "free" /\ sinkMu' = p
        /\ purger' = [purger EXCEPT ![p].pc = "filtered", ![p].tmp = F]
        /\ UNCHANGED <<logVars, up, stream, torn, snapshots, shipper, snapper,
                       sweep, purges, past>>
    BY DEF PurgeFilter
  <1>2. SinkInv
    BY DEF IInv
  <1>3. F \in SUBSET Line
    BY <1>2, Types
  <1>4. LogTypeOK' /\ DatabaseInv' /\ LinesInv' /\ ShipperInv'
    BY <1>1, <1>2, DatabasesKept, StreamKept
  <1>5. /\ purger' \in [Purgers -> [pc : {"idle", "deleted", "filtered"},
                                    cutoff : Nat, tmp : SUBSET Line]]
        /\ purger'[p].pc = "filtered" /\ purger'[p].tmp = F
        /\ purger'[p].cutoff = purger[p].cutoff
        /\ \A x \in Purgers : x # p => purger'[x] = purger[x]
    <2> HIDE DEF F
    <2> QED
      BY <1>1, <1>2, <1>3 DEF SinkInv, TypeOK
  <1>6. up
    BY <1>1, <1>2 DEF SinkInv, DownInv, IdlePurger
  <1>7. TypeOK' /\ DownInv'
    BY <1>1, <1>2, <1>4, <1>5, <1>6 DEF SinkInv, TypeOK, DownInv
  <1>8. SinkMutexInv'
    BY <1>1, <1>2, <1>5 DEF SinkInv, SinkMutexInv, Purgers
  <1>9. PurgerInv'
    BY <1>1, <1>2, <1>5, ZenonT(30) DEF SinkInv, PurgerInv
  <1>10. CutoffInv'
    BY <1>1, <1>2 DEF SinkInv, CutoffInv, logVars
  <1>11. ASSUME past.clean PROVE LogSideInv'
    BY <1>1, <1>11, HistoryKept, ImagesKept DEF IInv, LogSideInv
  <1> QED
    BY <1>1, <1>4, <1>7, <1>8, <1>9, <1>10, <1>11 DEF IInv, SinkInv

(* What the rename does: the lines the cutoff of a recorded PURGE reaches  *)
(* go, and no others.                                                      *)
LEMMA PurgeRenameFacts ==
    ASSUME SinkInv, NEW p \in Purgers, PurgeRename(p)
    PROVE  \E q \in purges :
               /\ stream' = {l \in stream : l.ev.txTime >= q[2]}
               /\ Shipped(stream') = {e \in Shipped(stream) : e.txTime >= q[2]}
  <1>1. PICK q \in purges : q[2] = purger[p].cutoff
    BY DEF PurgeRename, SinkInv, PurgerInv
  <1>2. stream' = {l \in stream : l.ev.txTime >= q[2]}
    BY <1>1 DEF PurgeRename, SinkInv, PurgerInv
  <1> QED
    BY <1>2 DEF Shipped

LEMMA PurgeRenameKeepsIInv ==
    ASSUME IInv, NEW p \in Purgers, PurgeRename(p)
    PROVE  IInv'
  <1>1. /\ purger[p].pc = "filtered"
        /\ sinkMu' = "free"
        /\ purger' = [purger EXCEPT ![p] = IdlePurger]
        /\ UNCHANGED <<logVars, up, torn, snapshots, shipper, snapper, sweep,
                       purges, past>>
    BY DEF PurgeRename
  <1>2. SinkInv
    BY DEF IInv
  <1>3. PICK q \in purges :
               /\ stream' = {l \in stream : l.ev.txTime >= q[2]}
               /\ Shipped(stream') = {e \in Shipped(stream) : e.txTime >= q[2]}
    BY <1>2, PurgeRenameFacts
  <1>4. stream' \subseteq stream /\ Shipped(stream') \subseteq Shipped(stream)
    BY <1>3
  <1>5. /\ purger' \in [Purgers -> [pc : {"idle", "deleted", "filtered"},
                                    cutoff : Nat, tmp : SUBSET Line]]
        /\ purger'[p].pc = "idle"
        /\ \A x \in Purgers : x # p => purger'[x] = purger[x]
    BY <1>1, <1>2 DEF SinkInv, TypeOK, IdlePurger
  <1>6. up /\ sinkMu = p
    BY <1>1, <1>2 DEF SinkInv, DownInv, IdlePurger, SinkMutexInv
  <1>7. LogTypeOK' /\ DatabaseInv'
    BY <1>1, <1>2, DatabasesKept
  <1>8. TypeOK' /\ DownInv'
    BY <1>1, <1>2, <1>4, <1>5, <1>6, <1>7 DEF SinkInv, TypeOK, DownInv
  <1>9. SinkMutexInv'
    BY <1>1, <1>2, <1>5, <1>6 DEF SinkInv, SinkMutexInv, Purgers
  <1>10. PurgerInv'
    <2>1. \A x \in Purgers : purger'[x].pc # "filtered"
      BY <1>2, <1>5, <1>6 DEF SinkInv, SinkMutexInv
    <2> QED
      BY <1>1, <1>2, <1>5, <2>1 DEF SinkInv, PurgerInv
  <1>11. CutoffInv'
    BY <1>1, <1>2 DEF SinkInv, CutoffInv, logVars
  <1>12. LinesInv'
    <2>1. \E n \in Nat : \A l \in stream' : l.no <= n
      BY <1>2, <1>4 DEF SinkInv, LinesInv
    <2> QED
      BY <1>1, <1>2, <1>4, <2>1 DEF SinkInv, LinesInv, StreamAscending
  <1>13. ShipperInv'
    BY <1>1, <1>2, <1>4 DEF SinkInv, ShipperInv
  <1>14. ASSUME past.clean PROVE LogSideInv'
    <2>1. HistoryInv /\ ShippedInv /\ SkipInv /\ LogSideInv
      BY <1>14 DEF IInv, LogSideInv
    <2>2. HistoryInv' /\ ShippedInv'
      BY <1>1, <1>4, <2>1 DEF HistoryInv, ShippedInv, logVars
    <2>3. ImageInv'
      BY <1>1, <2>1, ImagesKept
    <2>4. SkipInv'
      <3>1. \A e \in committed : Unpurged(e) /\ e \in Shipped(stream)
                                     => e \in Shipped(stream')
        BY <1>3 DEF Unpurged
      <3> SUFFICES ASSUME NEW e \in committed, Unpurged(e)
                   PROVE  /\ e.seq <= shipper.lastSeq => e \in Shipped(stream')
                          /\ \A l \in stream' : e.seq <= l.ev.seq => e \in Shipped(stream')
                          /\ shipper.pc \in {"read", "writing"} /\ e.seq <= shipper.upto
                                 => e \in Shipped(stream') \cup shipper.batch
        BY <1>1 DEF SkipInv, Unpurged, logVars
      <3>2. /\ e.seq <= shipper.lastSeq => e \in Shipped(stream)
            /\ \A l \in stream : e.seq <= l.ev.seq => e \in Shipped(stream)
            /\ shipper.pc \in {"read", "writing"} /\ e.seq <= shipper.upto
                   => e \in Shipped(stream) \cup shipper.batch
        BY <2>1 DEF SkipInv
      <3> QED
        BY <1>4, <3>1, <3>2
    <2> QED
      BY <2>2, <2>3, <2>4 DEF LogSideInv
  <1> QED
    BY <1>1, <1>7, <1>8, <1>9, <1>10, <1>11, <1>12, <1>13, <1>14 DEF IInv, SinkInv

LEMMA PurgeFailKeepsIInv ==
    ASSUME IInv, NEW p \in Purgers, PurgeFail(p)
    PROVE  IInv'
  <1>1. /\ purger[p].pc # "idle"
        /\ sinkMu' = IF sinkMu = p THEN "free" ELSE sinkMu
        /\ purger' = [purger EXCEPT ![p] = IdlePurger]
        /\ UNCHANGED <<logVars, up, stream, torn, snapshots, shipper, snapper,
                       sweep, purges, past>>
    BY DEF PurgeFail
  <1>2. SinkInv
    BY DEF IInv
  <1>3. LogTypeOK' /\ DatabaseInv' /\ LinesInv' /\ ShipperInv'
    BY <1>1, <1>2, DatabasesKept, StreamKept
  <1>4. /\ purger' \in [Purgers -> [pc : {"idle", "deleted", "filtered"},
                                    cutoff : Nat, tmp : SUBSET Line]]
        /\ purger'[p].pc = "idle"
        /\ \A x \in Purgers : x # p => purger'[x] = purger[x]
    BY <1>1, <1>2 DEF SinkInv, TypeOK, IdlePurger
  <1>5. up
    BY <1>1, <1>2 DEF SinkInv, DownInv, IdlePurger
  <1>6. TypeOK' /\ DownInv'
    BY <1>1, <1>2, <1>3, <1>4, <1>5 DEF SinkInv, TypeOK, DownInv
  <1>7. SinkMutexInv'
    BY <1>1, <1>2, <1>4 DEF SinkInv, SinkMutexInv, Purgers
  <1>8. PurgerInv' /\ CutoffInv'
    BY <1>1, <1>2, <1>4 DEF SinkInv, PurgerInv, CutoffInv, logVars
  <1>9. ASSUME past.clean PROVE LogSideInv'
    BY <1>1, <1>9, HistoryKept, ImagesKept DEF IInv, LogSideInv
  <1> QED
    BY <1>1, <1>3, <1>6, <1>7, <1>8, <1>9 DEF IInv, SinkInv
-----------------------------------------------------------------------------
LEMMA CrashKeepsIInv ==
    ASSUME IInv, Crash
    PROVE  IInv' /\ past'.clean = past.clean
  <1>1. /\ past.crashes < MaxCrashes
        /\ past' = [past EXCEPT !.crashes = @ + 1]
        /\ up' = FALSE
        /\ sinkMu' = "free"
        /\ shipper' = IdleShipper(0)
        /\ snapper' = IdleSnapper
        /\ purger' = [p \in Purgers |-> IdlePurger]
        /\ sweep' = IdleSweep
        /\ UNCHANGED <<logVars, stream, snapshots, purges>>
    BY DEF Crash
  <1>2. SinkInv
    BY DEF IInv
  <1>3. torn' \in BOOLEAN
    BY <1>2 DEF Crash, MayTear, SinkInv, TypeOK
  <1>4. DbOK(EmptyDB) /\ EmptyDB \in Database /\ ImageIn(EmptyDB, committed, purges)
            /\ EmptyDB.autoinc = 0
    BY <1>2, Types, EmptyImage DEF DbOK, EmptyDB
  <1>5. snapper'.pc = "idle" /\ snapper'.db = EmptyDB
    BY <1>1 DEF IdleSnapper
  <1>6. LogTypeOK'
    BY <1>1, <1>2 DEF SinkInv, TypeOK, LogTypeOK, logVars
  <1>7. past' \in [crashes : 0 .. MaxCrashes, clean : BOOLEAN]
            /\ past'.clean = past.clean
    <2>1. past.crashes + 1 \in 0 .. MaxCrashes
      BY <1>1, <1>2, BackupAssumption DEF SinkInv, TypeOK
    <2> QED
      BY <1>1, <1>2, <2>1 DEF SinkInv, TypeOK
  <1>8. TypeOK'
    <2>1. shipper' \in [pc : {"idle", "read", "writing", "stopped"},
                        lastSeq : Nat, batch : SUBSET Event, upto : Nat]
      BY <1>1 DEF IdleShipper
    <2>2. snapper' \in [pc : {"idle", "counted", "named", "vacuumed", "copying"},
                        seq : Nat, at : Nat, db : Database]
      BY <1>1, <1>4 DEF IdleSnapper
    <2>3. purger' \in [Purgers -> [pc : {"idle", "deleted", "filtered"},
                                   cutoff : Nat, tmp : SUBSET Line]]
      BY <1>1 DEF IdlePurger
    <2>4. sweep' \in [pc : {"idle", "listed", "purging"},
                      todo : SUBSET Collections, cutoff : Nat]
      BY <1>1 DEF IdleSweep
    <2>5. up' \in BOOLEAN /\ stream' \subseteq Line /\ snapshots' \subseteq Snapshot
          /\ sinkMu' \in {"free", "shipper", "snapper"} \cup Purgers
          /\ purges' \subseteq Collections \X Nat
      BY <1>1, <1>2 DEF SinkInv, TypeOK
    <2> QED
      BY <1>3, <1>6, <1>7, <2>1, <2>2, <2>3, <2>4, <2>5 DEF TypeOK
  <1>9. DownInv'
    BY <1>1 DEF DownInv
  <1>10. SinkMutexInv' /\ PurgerInv'
    BY <1>1 DEF SinkMutexInv, PurgerInv, IdleShipper, IdleSnapper, IdlePurger,
                Purgers
  <1>11. DB' = DB /\ autoinc' = autoinc /\ committed' = committed /\ events' = events
    BY <1>1 DEF DB, logVars
  <1>12. DatabaseInv'
    BY <1>1, <1>2, <1>4, <1>5, <1>11 DEF SinkInv, DatabaseInv
  <1>13. LinesInv' /\ ShipperInv'
    BY <1>1, <1>2 DEF SinkInv, LinesInv, StreamAscending, ShipperInv, IdleShipper
  <1>14. CutoffInv'
    BY <1>1, <1>2 DEF SinkInv, CutoffInv, IdleSweep, ZeroTime, logVars
  <1>15. ASSUME past.clean PROVE LogSideInv'
    <2>1. HistoryInv /\ ShippedInv /\ SkipInv /\ ImageInv
      BY <1>15 DEF IInv, LogSideInv
    <2>2. shipper'.lastSeq = 0 /\ shipper'.pc = "idle"
      BY <1>1 DEF IdleShipper
    <2>3. HistoryInv' /\ ShippedInv'
      BY <1>1, <1>2, <1>11, <2>1, <2>2, Types DEF HistoryInv, ShippedInv
    <2>4. \A e \in committed : ~(e.seq <= 0)
      BY <1>2, Types
    <2>5. SkipInv'
      BY <1>1, <1>11, <2>1, <2>2, <2>4 DEF SkipInv, Unpurged
    <2>6. ImageInv'
      BY <1>1, <1>2, <1>4, <1>5, <1>11, <2>1, Types DEF ImageInv
    <2> QED
      BY <2>3, <2>5, <2>6 DEF LogSideInv
  <1> QED
    BY <1>7, <1>8, <1>9, <1>10, <1>12, <1>13, <1>14, <1>15 DEF IInv, SinkInv

(* The resumed shipper starts past every line and has passed over nothing, *)
(* whatever PURGE has cut from the end of the stream meanwhile.            *)
LEMMA RestartKeepsIInv ==
    ASSUME IInv, Restart
    PROVE  IInv'
  <1>1. /\ ~up /\ up' = TRUE
        /\ shipper' = IdleShipper(LastShippedSeq)
        /\ UNCHANGED <<logVars, stream, torn, snapshots, sinkMu, snapper, purger,
                       sweep, purges, past>>
    BY DEF Restart, sinkVars
  <1>2. SinkInv
    BY DEF IInv
  <1>3. /\ LastShippedSeq \in Nat
        /\ \A l \in stream : l.ev.seq <= LastShippedSeq
        /\ stream = {} => LastShippedSeq = 0
        /\ stream # {} => \E l \in stream : l.ev.seq = LastShippedSeq
    BY <1>2, LastShippedSeqIsMax
  <1>4. /\ shipper' \in [pc : {"idle", "read", "writing", "stopped"},
                         lastSeq : Nat, batch : SUBSET Event, upto : Nat]
        /\ shipper'.pc = "idle"
        /\ shipper'.lastSeq = LastShippedSeq
    BY <1>1, <1>3 DEF IdleShipper
  <1>5. LogTypeOK' /\ DatabaseInv' /\ PurgerInv' /\ CutoffInv'
    BY <1>1, <1>2, DatabasesKept, PurgesKept DEF logVars
  <1>6. TypeOK' /\ DownInv'
    BY <1>1, <1>2, <1>4, <1>5 DEF SinkInv, TypeOK, DownInv
  <1>7. SinkMutexInv'
    BY <1>1, <1>2, <1>4 DEF SinkInv, SinkMutexInv, DownInv, IdleShipper
  <1>8. LinesInv' /\ ShipperInv'
    BY <1>1, <1>2, <1>3, <1>4 DEF SinkInv, LinesInv, StreamAscending, ShipperInv
  <1>9. ASSUME past.clean PROVE LogSideInv'
    <2>1. HistoryInv /\ ShippedInv /\ SkipInv /\ LogSideInv
      BY <1>9 DEF IInv, LogSideInv
    <2>2. HistoryInv' /\ ImageInv'
      BY <1>1, <2>1, ImagesKept DEF HistoryInv, logVars
    <2>3. LastShippedSeq <= autoinc
      <3>1. \A l \in stream : l.ev \in committed /\ l.ev.seq <= autoinc
        BY <2>1 DEF ShippedInv, HistoryInv, Shipped
      <3> QED
        BY <1>2, <1>3, <3>1, Types
    <2>4. ShippedInv'
      BY <1>1, <1>4, <2>1, <2>3 DEF ShippedInv, logVars
    <2>5. SkipInv'
      <3>1. \A e \in committed : ~(e.seq <= 0)
        BY <1>2, Types
      <3>2. \A e \in committed :
                Unpurged(e) => /\ \A l \in stream : e.seq <= l.ev.seq => e \in Shipped(stream)
                               /\ e.seq <= LastShippedSeq => e \in Shipped(stream)
        BY <1>3, <2>1, <3>1 DEF SkipInv
      <3> QED
        BY <1>1, <1>4, <3>2 DEF SkipInv, Unpurged, logVars
    <2> QED
      BY <2>2, <2>4, <2>5 DEF LogSideInv
  <1> QED
    BY <1>1, <1>5, <1>6, <1>7, <1>8, <1>9 DEF IInv, SinkInv

LEMMA StutterKeepsIInv ==
    ASSUME IInv, UNCHANGED vars
    PROVE  IInv'
  <1>1. UNCHANGED <<logVars, up, stream, torn, snapshots, sinkMu, shipper,
                    snapper, purger, sweep, purges, past>>
    BY DEF vars, backupVars, sinkVars
  <1>2. SinkInv
    BY DEF IInv
  <1>3. LogTypeOK' /\ DatabaseInv' /\ LinesInv' /\ ShipperInv' /\ PurgerInv' /\ CutoffInv'
    BY <1>1, <1>2, DatabasesKept, StreamKept, PurgesKept DEF logVars
  <1>4. TypeOK' /\ DownInv' /\ SinkMutexInv'
    BY <1>1, <1>2, <1>3 DEF SinkInv, TypeOK, DownInv, SinkMutexInv
  <1>5. ASSUME past.clean PROVE LogSideInv'
    BY <1>1, <1>5, HistoryKept, ImagesKept DEF IInv, LogSideInv
  <1> QED
    BY <1>1, <1>3, <1>4, <1>5 DEF IInv, SinkInv

(* IInv is preserved by every step beside the server. *)
LEMMA NextIInv == IInv /\ [Next]_vars => IInv'
  <1> SUFFICES ASSUME IInv, [Next]_vars PROVE IInv'
    OBVIOUS
  <1>1. CASE ClientAppends
    BY <1>1, ClientAppendsKeepsIInv
  <1>2. CASE TimePasses
    BY <1>2, TimePassesKeepsIInv
  <1>3. CASE ShipRead
    BY <1>3, ShipReadKeepsIInv
  <1>4. CASE ShipLock
    BY <1>4, ShipLockKeepsIInv
  <1>5. CASE ShipWrite
    BY <1>5, ShipWriteKeepsIInv
  <1>6. CASE ShipDone
    BY <1>6, ShipDoneKeepsIInv
  <1>7. CASE ShipFail
    BY <1>7, ShipFailKeepsIInv
  <1>8. CASE \/ SnapCount \/ SnapName \/ SnapVacuum
             \/ SnapCreate \/ SnapDone \/ SnapFail
    BY <1>8, SnapshotterKeepsIInv
  <1>9. CASE ClientPurges
    BY <1>9, ClientPurgesKeepsIInv
  <1>10. ASSUME NEW p \in Purgers, PurgeFilter(p) \/ PurgeRename(p) \/ PurgeFail(p)
         PROVE  IInv'
    BY <1>10, PurgeFilterKeepsIInv, PurgeRenameKeepsIInv, PurgeFailKeepsIInv
  <1>11. CASE \/ SweepList \/ SweepCutoff \/ SweepDone
              \/ \E c \in Collections : SweepSkip(c)
    BY <1>11, SweeperKeepsIInv
  <1>12. ASSUME NEW c \in Collections, SweepPurge(c) PROVE IInv'
    BY <1>12, SweepPurgeKeepsIInv
  <1>13. CASE Crash
    BY <1>13, CrashKeepsIInv
  <1>14. CASE Restart
    BY <1>14, RestartKeepsIInv
  <1>15. CASE UNCHANGED vars
    BY <1>15, StutterKeepsIInv
  <1> QED
    BY <1>1, <1>2, <1>3, <1>4, <1>5, <1>6, <1>7, <1>8, <1>9, <1>10, <1>11,
       <1>12, <1>13, <1>14, <1>15 DEF Next

(* Only a recovery can be unfaithful. *)
LEMMA NextKeepsClean == IInv /\ [Next]_vars => past'.clean = past.clean
  <1> SUFFICES ASSUME IInv, [Next]_vars PROVE past'.clean = past.clean
    OBVIOUS
  <1>1. CASE Crash
    BY <1>1, CrashKeepsIInv
  <1>2. CASE ~Crash
    <2>1. past' = past
      BY <1>2 DEF Next, ClientAppends, TimePasses, ShipRead, ShipLock, ShipWrite,
                  ShipDone, ShipFail, SnapCount, SnapName, SnapVacuum, SnapCreate,
                  SnapDone, SnapFail, ClientPurges, PurgeDelete, PurgeFilter,
                  PurgeRename, PurgeFail, SweepList, SweepCutoff, SweepDone,
                  SweepPurge, SweepSkip, Restart, vars, backupVars
    <2> QED
      BY <2>1
  <1> QED
    BY <1>1, <1>2

(* The inductive invariant holds in every reachable state. *)
THEOREM BackupInductive == Spec => [](IInv /\ past.clean)
  <1>1. IInv /\ past.clean /\ [Next]_vars => (IInv /\ past.clean)'
    BY NextIInv, NextKeepsClean
  <1> QED
    BY <1>1, InitIInv, PTL DEF Spec

-----------------------------------------------------------------------------
(* Every variable of the backup keeps its type. *)
THEOREM BackupTypeCorrect == Spec => []TypeOK
  <1>1. IInv => TypeOK
    BY DEF IInv, SinkInv
  <1> QED
    BY <1>1, BackupInductive, PTL

(* The stream is in commit order and holds no event twice. *)
THEOREM StreamStaysAscending == Spec => []StreamAscending
  <1>1. IInv => StreamAscending
    BY DEF IInv, SinkInv, LinesInv
  <1> QED
    BY <1>1, BackupInductive, PTL

LEMMA IInvSkipsNothing ==
    ASSUME IInv, past.clean
    PROVE  NothingSkipped
  <1>0. SinkInv /\ SkipInv
    BY DEF IInv, LogSideInv
  <1> SUFFICES ASSUME NEW e \in committed, Unpurged(e),
                      e.seq <= shipper.lastSeq \/ e.seq <= LastShippedSeq
               PROVE  e \in Shipped(stream)
    BY DEF NothingSkipped
  <1>1. CASE e.seq <= shipper.lastSeq
    BY <1>0, <1>1 DEF SkipInv
  <1>2. CASE e.seq <= LastShippedSeq
    <2>1. stream # {}
      BY <1>0, <1>2, LastShippedSeqIsMax, Types
    <2>2. PICK l \in stream : l.ev.seq = LastShippedSeq
      BY <1>0, <2>1, LastShippedSeqIsMax
    <2> QED
      BY <1>0, <1>2, <2>2 DEF SkipInv
  <1> QED
    BY <1>1, <1>2

(* The shipper, and the shipper that a restart would resume, has passed    *)
(* over no event that no PURGE reached.                                    *)
THEOREM NothingIsSkipped == Spec => []NothingSkipped
  <1>1. IInv /\ past.clean => NothingSkipped
    BY IInvSkipsNothing
  <1> QED
    BY <1>1, BackupInductive, PTL

(* Where only the sweep purges, an event younger than the retention period *)
(* is in the log and, once shipped, in the stream.                         *)
THEOREM SweepKeepsYoung == Spec => []RetentionKeepsYoung
  <1>1. ASSUME IInv, past.clean PROVE RetentionKeepsYoung
    <2>0. SinkInv /\ HistoryInv /\ SkipInv /\ ImageInv
      BY <1>1 DEF IInv, LogSideInv
    <2> SUFFICES ASSUME Cutoffs = {}, NEW e \in committed, Young(e)
                 PROVE  e \in events /\ (e.seq <= shipper.lastSeq => e \in Shipped(stream))
      BY DEF RetentionKeepsYoung
    <2>1. ASSUME NEW q \in purges PROVE e.txTime >= q[2]
      <3>1. q[2] = ZeroTime \/ q[2] + Retention <= now
        BY <2>0 DEF SinkInv, CutoffInv
      <3>2. q[2] \in Nat /\ now \in Nat /\ e.txTime \in Nat /\ Retention \in Nat
        BY <2>0, Types, BackupAssumption DEF SinkInv, TypeOK
      <3> QED
        BY <3>1, <3>2 DEF Young, ZeroTime
    <2>2. Unpurged(e)
      BY <2>1 DEF Unpurged
    <2>3. e \in events
      BY <2>0, <2>2 DEF ImageInv, ImageIn, UpTo, DB, HistoryInv, Unpurged, UnpurgedBy
    <2> QED
      BY <2>0, <2>2, <2>3 DEF SkipInv
  <1> QED
    BY <1>1, BackupInductive, PTL

-----------------------------------------------------------------------------
(* Every step beside the server is a step of the abstract replica or       *)
(* leaves the log, the stream and the named cutoffs as they are.           *)
LEMMA StepRefinesReplica ==
    IInv /\ past.clean /\ [Next]_vars => [Copy!ReplicaNext]_(Copy!replicaVars)
  <1> SUFFICES ASSUME IInv, past.clean, [Next]_vars
               PROVE  Copy!ReplicaNext \/ UNCHANGED Copy!replicaVars
    OBVIOUS
  <1>0. SinkInv /\ HistoryInv /\ ShippedInv /\ SkipInv
    BY DEF IInv, LogSideInv
  <1>1. CASE ClientAppends
    <2>1. PICK r \in Requests, t \in Clock : AppendEvent(r, t)
      BY <1>1 DEF ClientAppends
    <2>2. PICK e \in Event : e.seq = autoinc + 1 /\ committed' = committed \cup {e}
      BY <1>0, <2>1, AppendFacts, Types
    <2>6. \A f \in committed : f.seq < e.seq
      BY <1>0, <2>2, Types DEF HistoryInv
    <2>3. UNCHANGED <<stream, purges>>
      BY <1>1 DEF ClientAppends, backupVars, sinkVars
    <2>4. Copy!CommitNext
      BY <2>2, <2>3, <2>6 DEF Copy!CommitNext
    <2> QED
      BY <2>4 DEF Copy!ReplicaNext
  <1>2. CASE ShipWrite
    <2>1. PICK e \in shipper.batch, n \in Nat :
               /\ shipper.pc = "writing"
               /\ \A f \in shipper.batch : e.seq <= f.seq
               /\ Shipped(stream') = Shipped(stream) \cup {e}
               /\ UNCHANGED <<logVars, purges>>
      BY <1>0, <1>2, ShipWriteFacts
    <2>6. e \in committed
      BY <1>0, <2>1 DEF ShippedInv
    <2>2. \A f \in Shipped(stream) : f.seq < e.seq
      BY <1>0, <2>1 DEF SinkInv, ShipperInv, Shipped
    <2>3. e \notin Shipped(stream)
      BY <1>0, <2>1, <2>2, <2>6, Types
    <2>4. ASSUME NEW f \in committed \ Shipped(stream), f.seq < e.seq
          PROVE  Copy!Reached(f)
      <3>1. e.seq <= shipper.upto
        BY <1>0, <2>1 DEF SinkInv, ShipperInv
      <3>2. f \notin shipper.batch
        BY <1>0, <2>1, <2>4, Types
      <3>3. f.seq <= shipper.upto
        BY <1>0, <2>1, <2>4, <2>6, <3>1, Types
      <3>4. ~Unpurged(f)
        BY <1>0, <2>1, <2>4, <3>2, <3>3 DEF SkipInv
      <3>5. PICK q \in purges : ~(f.txTime >= q[2])
        BY <3>4 DEF Unpurged
      <3>6. f.txTime \in Nat /\ q[2] \in Nat
        BY <1>0, Types DEF SinkInv, TypeOK
      <3>7. f.txTime < q[2] /\ q[2] \in {x[2] : x \in purges}
        BY <3>5, <3>6
      <3> QED
        BY <3>7 DEF Copy!Reached
    <2>5. Copy!CopyNext
      BY <2>1, <2>2, <2>3, <2>4, <2>6 DEF Copy!CopyNext, logVars
    <2> QED
      BY <2>5 DEF Copy!ReplicaNext
  <1>3. CASE ClientPurges \/ \E c \in Collections : SweepPurge(c)
    <2>1. PICK p \in Purgers, c \in Collections, t \in Nat : PurgeDelete(p, c, t)
      BY <1>0, <1>3, BoundAssumption DEF ClientPurges, SweepPurge, Purgers, SinkInv,
                                         TypeOK
    <2>2. purges' = purges \cup {<<c, t>>} /\ UNCHANGED <<committed, stream>>
      BY <2>1 DEF PurgeDelete, Purge, sinkVars
    <2>3. {x[2] : x \in purges'} = {x[2] : x \in purges} \cup {t}
      <3>1. <<c, t>>[2] = t
        OBVIOUS
      <3>2. ASSUME NEW y \in {x[2] : x \in purges} \cup {t}
            PROVE  \E x \in purges' : y = x[2]
        BY <2>2, <3>1
      <3>3. ASSUME NEW x \in purges'
            PROVE  x[2] \in {z[2] : z \in purges} \cup {t}
        BY <2>2, <3>1
      <3> QED
        BY <3>2, <3>3
    <2>4. t \in {x[2] : x \in purges'}
      BY <2>3
    <2>5. Copy!NameCutoff
      BY <2>2, <2>3, <2>4 DEF Copy!NameCutoff
    <2> QED
      BY <2>5 DEF Copy!ReplicaNext
  <1>4. ASSUME NEW p \in Purgers, PurgeRename(p)
        PROVE  Copy!ReplicaNext
    <2>1. PICK q \in purges :
              Shipped(stream') = {e \in Shipped(stream) : e.txTime >= q[2]}
      BY <1>0, <1>4, PurgeRenameFacts
    <2>2. UNCHANGED <<committed, purges>>
      BY <1>4 DEF PurgeRename, logVars
    <2>3. q[2] \in {x[2] : x \in purges}
      OBVIOUS
    <2>4. Copy!Prune
      BY <2>1, <2>2, <2>3 DEF Copy!Prune
    <2> QED
      BY <2>4 DEF Copy!ReplicaNext
  <1>5. ASSUME \/ TimePasses \/ ShipRead \/ ShipLock \/ ShipDone \/ ShipFail
               \/ SnapCount \/ SnapName \/ SnapVacuum
               \/ SnapCreate \/ SnapDone \/ SnapFail
               \/ \E p \in Purgers : PurgeFilter(p) \/ PurgeFail(p)
               \/ SweepList \/ SweepCutoff \/ SweepDone
               \/ \E c \in Collections : SweepSkip(c)
               \/ Crash \/ Restart \/ UNCHANGED vars
        PROVE  UNCHANGED Copy!replicaVars
    <2>1. UNCHANGED <<committed, stream, purges>>
      BY <1>5 DEF TimePasses, Tick, ShipRead, ShipLock, ShipDone, ShipFail,
                  SnapCount, SnapName, SnapVacuum, SnapCreate, SnapDone, SnapFail,
                  PurgeFilter, PurgeFail, SweepList, SweepCutoff, SweepDone,
                  SweepSkip, Crash, Restart, vars, backupVars, sinkVars, logVars
    <2> QED
      BY <2>1 DEF Copy!replicaVars
  <1> QED
    BY <1>1, <1>2, <1>3, <1>4, <1>5 DEF Next

(* Shipper, sink, PURGE, sweep, faults and crashes together implement the  *)
(* abstract replica.                                                       *)
THEOREM StreamImplementsReplica == Spec => StreamIsReplica
  <1>1. Init => Copy!ReplicaInit
    BY DEF Init, LogInit, Copy!ReplicaInit, Shipped
  <1> QED
    BY <1>1, BackupInductive, StepRefinesReplica, PTL
    DEF Spec, StreamIsReplica, Copy!ReplicaSpec
=============================================================================
