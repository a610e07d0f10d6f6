--------------------------- MODULE RecoveryProofs ---------------------------
(***************************************************************************)
(* Theorems about Restore and Recovery: what a replay of the stream gives, *)
(* that a restore succeeds, and that the stream goes on fitting a primary  *)
(* that was itself restored from it, however often.                        *)
(*                                                                         *)
(* Replay is a fold over a finite set of lines.  What it computes is       *)
(* proved by looking at the smallest set of lines for which a claim would  *)
(* fail.                                                                   *)
(***************************************************************************)
EXTENDS Recovery, BackupProofs, FiniteSetTheorems

(* What the proofs need of events.ndjson: places are bounded and differ. *)
IsFile(s) ==
    /\ s \in SUBSET Line
    /\ \E n \in Nat : \A l \in s : l.no <= n
    /\ \A l, m \in s : l.no = m.no => l = m

LastLine(s) == CHOOSE l \in s : \A m \in s : m.no <= l.no

(* g is the replay of every part of the file s. *)
IsReplay(g, db, s) ==
    g = [u \in SUBSET s |->
            IF u = {} THEN [ok |-> TRUE, db |-> db]
            ELSE RestoreEvent(LastLine(u).ev, g[u \ {LastLine(u)}])]
-----------------------------------------------------------------------------
(* A non-empty family of parts of a finite set has a smallest member. *)
LEMMA SmallestSet ==
    ASSUME NEW S, IsFiniteSet(S), NEW T \in SUBSET (SUBSET S), T # {}
    PROVE  \E u \in T : \A v \in T : v \subseteq u => v = u
  <1>1. FiniteSubsetsOf(S) = SUBSET S
    BY FS_FiniteSubsetsOfFinite
  <1>2. IsWellFoundedOn(StrictSubsetOrdering(S), SUBSET S)
    BY <1>1, FS_StrictSubsetOrderingWellFounded
  <1>3. PICK u \in T : \A v \in T : ~(<<v, u>> \in StrictSubsetOrdering(S))
    BY <1>2, WFMin
  <1>4. ASSUME NEW v \in T, v \subseteq u, v # u PROVE FALSE
    <2>1. <<v, u>> \in StrictSubsetOrdering(S)
      BY <1>4 DEF StrictSubsetOrdering
    <2> QED
      BY <1>3, <2>1
  <1> QED
    BY <1>4

(* A file is finite, its parts are files, and each has a last line. *)
LEMMA FileFacts ==
    ASSUME NEW s, IsFile(s)
    PROVE  /\ IsFiniteSet(s)
           /\ \A u \in SUBSET s : IsFile(u)
           /\ \A u \in SUBSET s : u # {} => /\ LastLine(u) \in u
                                            /\ \A m \in u : m.no <= LastLine(u).no
  <1>1. PICK n \in Nat : \A l \in s : l.no <= n
    BY DEF IsFile
  <1>2. s \in SUBSET Line /\ \A l \in s : l.no \in 0 .. n
    BY <1>1 DEF IsFile, Line
  <1>3. IsFiniteSet(s)
    <2> DEFINE f == [l \in s |-> l.no]
    <2>1. f \in Injection(s, 0 .. n)
      BY <1>2 DEF IsFile, Injection, IsInjective
    <2>2. IsFiniteSet(0 .. n)
      BY FS_Interval
    <2> HIDE DEF f
    <2> QED
      BY <2>1, <2>2, FS_Injection
  <1>4. ASSUME NEW u \in SUBSET s PROVE IsFile(u)
    BY <1>1 DEF IsFile
  <1>5. ASSUME NEW u \in SUBSET s, u # {}
        PROVE  LastLine(u) \in u /\ \A m \in u : m.no <= LastLine(u).no
    <2> DEFINE N == {l.no : l \in u}
    <2>1. N \in SUBSET Nat /\ N # {} /\ \A k \in N : k <= n
      BY <1>2, <1>5
    <2>2. PICK k \in N : \A m \in N : m <= k
      <3> HIDE DEF N
      <3> QED
        BY <2>1, GreatestNatural
    <2>3. \E l \in u : \A m \in u : m.no <= l.no
      BY <2>2
    <2> QED
      BY <2>3 DEF LastLine
  <1> QED
    BY <1>3, <1>4, <1>5

(* The replay of a part does not depend on the file it is part of. *)
LEMMA ReplaySame ==
    ASSUME NEW s, IsFile(s), NEW t, NEW db,
           NEW g, IsReplay(g, db, s), NEW h, IsReplay(h, db, t),
           NEW z \in SUBSET (s \cap t)
    PROVE  g[z] = h[z]
  <1> DEFINE T == {v \in SUBSET (s \cap t) : g[v] # h[v]}
  <1> SUFFICES T = {}
    OBVIOUS
  <1> SUFFICES ASSUME T # {} PROVE FALSE
    OBVIOUS
  <1>1. IsFiniteSet(s) /\ T \in SUBSET (SUBSET s)
    BY FileFacts
  <1>2. PICK u \in T : \A v \in T : v \subseteq u => v = u
    <2> HIDE DEF T
    <2> QED
      BY <1>1, SmallestSet
  <1>3. u \in SUBSET s /\ u \in SUBSET t /\ g[u] # h[u]
    OBVIOUS
  <1>4. /\ g[u] = IF u = {} THEN [ok |-> TRUE, db |-> db]
                  ELSE RestoreEvent(LastLine(u).ev, g[u \ {LastLine(u)}])
        /\ h[u] = IF u = {} THEN [ok |-> TRUE, db |-> db]
                  ELSE RestoreEvent(LastLine(u).ev, h[u \ {LastLine(u)}])
    BY <1>3 DEF IsReplay
  <1>5. u # {}
    BY <1>3, <1>4
  <1>6. LastLine(u) \in u
    BY <1>3, <1>5, FileFacts
  <1>7. u \ {LastLine(u)} \notin T
    BY <1>2, <1>6
  <1>8. g[u \ {LastLine(u)}] = h[u \ {LastLine(u)}]
    BY <1>3, <1>7
  <1> QED
    BY <1>3, <1>4, <1>5, <1>8

(* Every file has a replay. *)
LEMMA ReplayExists ==
    ASSUME NEW s, IsFile(s), NEW db
    PROVE  \E g : IsReplay(g, db, s)
  <1> DEFINE T == {v \in SUBSET s : ~\E g : IsReplay(g, db, v)}
  <1> SUFFICES T = {}
    OBVIOUS
  <1> SUFFICES ASSUME T # {} PROVE FALSE
    OBVIOUS
  <1>1. IsFiniteSet(s)
    BY FileFacts
  <1>2. PICK u \in T : \A v \in T : v \subseteq u => v = u
    <2> HIDE DEF T
    <2>1. T \in SUBSET (SUBSET s)
      BY DEF T
    <2> QED
      BY <1>1, <2>1, SmallestSet
  <1>3. u \in SUBSET s /\ IsFile(u)
    BY FileFacts
  <1> DEFINE F(v) == (CHOOSE g : IsReplay(g, db, v))
             Step(v) == IF v = {} THEN [ok |-> TRUE, db |-> db]
                        ELSE RestoreEvent(LastLine(v).ev, F(v \ {LastLine(v)})[v \ {LastLine(v)}])
             G == [v \in SUBSET u |-> Step(v)]
  <1>4. ASSUME NEW v \in SUBSET u, v # u PROVE IsReplay(F(v), db, v) /\ IsFile(v)
    <2>1. v \notin T /\ v \in SUBSET s
      BY <1>2, <1>3, <1>4
    <2>2. \E g : IsReplay(g, db, v)
      BY <2>1
    <2> QED
      BY <2>1, <2>2, FileFacts
  <1>5. ASSUME NEW v \in SUBSET u, v # u PROVE G[v] = F(v)[v]
    <2>1. IsReplay(F(v), db, v) /\ IsFile(v)
      BY <1>4, <1>5
    <2> DEFINE w == v \ {LastLine(v)}
    <2>2. F(v)[v] = IF v = {} THEN [ok |-> TRUE, db |-> db]
                    ELSE RestoreEvent(LastLine(v).ev, F(v)[w])
      <3> HIDE DEF F
      <3> QED
        BY <2>1 DEF IsReplay
    <2>3. v # {} => F(v)[w] = F(w)[w]
      <3> SUFFICES ASSUME v # {} PROVE F(v)[w] = F(w)[w]
        OBVIOUS
      <3>1. w \in SUBSET v /\ w \in SUBSET u /\ w # u
        BY <1>5
      <3>2. IsReplay(F(w), db, w)
        BY <1>4, <3>1
      <3>3. w \in SUBSET (v \cap w)
        BY <3>1
      <3> HIDE DEF F, w
      <3> QED
        BY <2>1, <3>2, <3>3, ReplaySame
    <2>4. G[v] = Step(v)
      OBVIOUS
    <2> QED
      BY <2>2, <2>3, <2>4
  <1>6. ASSUME NEW v \in SUBSET u
        PROVE  G[v] = IF v = {} THEN [ok |-> TRUE, db |-> db]
                      ELSE RestoreEvent(LastLine(v).ev, G[v \ {LastLine(v)}])
    <2>1. CASE v = {}
      BY <2>1
    <2>2. CASE v # {}
      <3>1. LastLine(v) \in v
        BY <1>3, <2>2, FileFacts
      <3>2. v \ {LastLine(v)} \in SUBSET u /\ v \ {LastLine(v)} # u
        BY <3>1
      <3>3. G[v \ {LastLine(v)}] = F(v \ {LastLine(v)})[v \ {LastLine(v)}]
        BY <1>5, <3>2
      <3>4. G[v] = Step(v)
        OBVIOUS
      <3> QED
        BY <2>2, <3>3, <3>4
    <2> QED
      BY <2>1, <2>2
  <1>7. IsReplay(G, db, u)
    <2>1. G = [v \in SUBSET u |-> G[v]]
      OBVIOUS
    <2> HIDE DEF G
    <2> QED
      BY <1>6, <2>1 DEF IsReplay
  <1> QED
    BY <1>2, <1>7

(* Replay, as the fold computes it: the last line after all the others. *)
LEMMA ReplayStep ==
    ASSUME NEW s, IsFile(s), NEW db
    PROVE  /\ s = {} => Replay(db, s) = [ok |-> TRUE, db |-> db]
           /\ s # {} => /\ LastLine(s) \in s
                        /\ Replay(db, s) = RestoreEvent(LastLine(s).ev,
                                                        Replay(db, s \ {LastLine(s)}))
  <1> DEFINE F(v) == (CHOOSE g : IsReplay(g, db, v))
  <1>1. ASSUME NEW v PROVE Replay(db, v) = F(v)[v]
    BY DEF Replay, MapThenFoldSet, IsReplay, LastLine
  <1>2. ASSUME NEW v \in SUBSET s PROVE IsReplay(F(v), db, v) /\ IsFile(v)
    BY FileFacts, ReplayExists
  <1>3. F(s)[s] = IF s = {} THEN [ok |-> TRUE, db |-> db]
                  ELSE RestoreEvent(LastLine(s).ev, F(s)[s \ {LastLine(s)}])
    <2> HIDE DEF F
    <2> QED
      BY <1>2 DEF IsReplay
  <1>4. ASSUME s # {} PROVE F(s)[s \ {LastLine(s)}] = F(s \ {LastLine(s)})[s \ {LastLine(s)}]
    <2> DEFINE w == s \ {LastLine(s)}
    <2>1. IsReplay(F(s), db, s) /\ IsReplay(F(w), db, w) /\ w \in SUBSET (s \cap w)
      BY <1>2
    <2> HIDE DEF F, w
    <2>2. F(s)[w] = F(w)[w]
      BY <2>1, ReplaySame
    <2> QED
      BY <2>2 DEF w
  <1>5. s # {} => LastLine(s) \in s
    BY FileFacts
  <1> HIDE DEF F
  <1> QED
    BY <1>1, <1>3, <1>4, <1>5
-----------------------------------------------------------------------------
(* The upsert of RestoreEvent: whichever order seqs come in, live is each  *)
(* document's last write.                                                  *)
LEMMA UpsertIfNewerLatest ==
    ASSUME NEW H \in SUBSET Event, NEW e \in Event, NEW b \in Nat,
           \A f \in H : f.seq <= b /\ f.seq # e.seq
    PROVE  UpsertIfNewer(LatestOf(H), e) = LatestOf(H \cup {e})
  <1> DEFINE L == LatestOf(H)
             R == LatestOf(H \cup {e})
  <1>1. \A f \in H \cup {e} : f.seq \in Nat
    BY DEF Event
  <1>2. ASSUME NEW x \in H
        PROVE  /\ x \in L <=> \A f \in H : Doc(f) = Doc(x) => f.seq <= x.seq
               /\ x \in R <=> x \in L /\ (Doc(e) = Doc(x) => e.seq <= x.seq)
    BY DEF LatestOf
  <1>3. e \in R <=> \A f \in H : Doc(f) = Doc(e) => f.seq <= e.seq
    BY <1>1 DEF LatestOf
  <1>4. L \subseteq H /\ R \subseteq H \cup {e} /\ e \notin H
    BY DEF LatestOf
  <1>5. CASE \E r \in L : Doc(r) = Doc(e) /\ r.seq >= e.seq
    <2>1. PICK r \in L : Doc(r) = Doc(e) /\ r.seq >= e.seq
      BY <1>5
    <2>2. UpsertIfNewer(L, e) = L
      BY <1>5 DEF UpsertIfNewer
    <2>3. e \notin R
      BY <1>1, <1>3, <1>4, <2>1
    <2>4. ASSUME NEW x \in L, Doc(e) = Doc(x) PROVE e.seq <= x.seq
      <3>1. r.seq <= x.seq
        BY <1>2, <1>4, <2>1, <2>4
      <3> QED
        BY <1>1, <1>4, <2>1, <3>1
    <2> HIDE DEF L, R
    <2> QED
      BY <1>2, <1>4, <2>2, <2>3, <2>4 DEF L, R
  <1>6. CASE ~\E r \in L : Doc(r) = Doc(e) /\ r.seq >= e.seq
    <2>1. UpsertIfNewer(L, e) = {r \in L : Doc(r) # Doc(e)} \cup {e}
      BY <1>6 DEF UpsertIfNewer, Upsert
    <2>2. ASSUME NEW f \in H, Doc(f) = Doc(e), ~(f.seq <= e.seq) PROVE FALSE
      <3> DEFINE V == {g \in H : Doc(g) = Doc(e)}
                 N == {g.seq : g \in V}
      <3>1. N \in SUBSET Nat /\ N # {} /\ \A n \in N : n <= b
        BY <1>1, <2>2
      <3>2. PICK n \in N : \A m \in N : m <= n
        <4> HIDE DEF N
        <4> QED
          BY <3>1, GreatestNatural
      <3>3. PICK r \in V : r.seq = n
        OBVIOUS
      <3>4. \A g \in V : g.seq <= r.seq
        BY <3>2, <3>3
      <3>5. r \in L
        BY <1>2, <3>3, <3>4
      <3> QED
        BY <1>1, <1>6, <2>2, <3>3, <3>4, <3>5
    <2>3. e \in R
      BY <1>3, <2>2
    <2>4. \A x \in L : Doc(x) = Doc(e) => ~(e.seq <= x.seq)
      BY <1>1, <1>4, <1>6
    <2> HIDE DEF L, R
    <2> QED
      BY <1>2, <1>4, <2>1, <2>3, <2>4 DEF L, R
  <1> QED
    BY <1>5, <1>6

(* What the lines of a stream are: a file in commit order. *)
IsStream(s) ==
    /\ IsFile(s)
    /\ \A l \in s : l.ev.seq <= MaxSeq
    /\ \A l, m \in s : l.no < m.no => l.ev.seq < m.ev.seq

(* A replay of lines over a database fails only where the database already *)
(* has a line's seq; otherwise it adds exactly the lines, AUTOINCREMENT is *)
(* the higher of the two, and live stays the last writes.                  *)
ReplayGood(db, s) ==
    LET o == Replay(db, s)
    IN  /\ o \in [ok : BOOLEAN, db : Database]
        /\ (\A l \in s, f \in db.events : l.ev.seq # f.seq) => o.ok
        /\ o.ok => /\ DbOK(o.db)
                   /\ o.db.events = db.events \cup Shipped(s)
                   /\ db.autoinc <= o.db.autoinc
                   /\ \/ o.db.autoinc = db.autoinc
                      \/ \E l \in s : l.ev.seq = o.db.autoinc
                   /\ db.live = LatestOf(db.events)
                          => o.db.live = LatestOf(o.db.events)

LEMMA ReplayGoodStep ==
    ASSUME NEW db, DbOK(db), NEW s, IsStream(s), s # {},
           ReplayGood(db, s \ {LastLine(s)})
    PROVE  ReplayGood(db, s)
  <1> DEFINE x == LastLine(s)
             v == s \ {x}
             o == Replay(db, v)
             e == x.ev
             q == Replay(db, s)
  <1>1. x \in s /\ q = RestoreEvent(e, o) /\ \A m \in s : m.no <= x.no
    BY ReplayStep, FileFacts DEF IsStream
  <1>2. x \in Line /\ e \in Event /\ e.seq \in Nat /\ e.seq > 0 /\ e.seq <= MaxSeq
            /\ MaxSeq \in Nat
    BY <1>1, BoundAssumption DEF IsStream, IsFile, Line, Event
  <1>3. s = v \cup {x} /\ x \notin v
    BY <1>1
  <1>4. \A l \in v : l.no < x.no /\ l.ev.seq < e.seq /\ l.ev.seq \in Nat
    BY <1>1, <1>3 DEF IsStream, IsFile, Line, Event
  <1>5. Shipped(s) = Shipped(v) \cup {e}
    <2> HIDE DEF x, v, e
    <2>1. \A y \in Shipped(s) : y \in Shipped(v) \cup {e}
      BY <1>3 DEF Shipped, e
    <2>2. \A y \in Shipped(v) \cup {e} : y \in Shipped(s)
      BY <1>3 DEF Shipped, e
    <2> QED
      BY <2>1, <2>2
  <1>6. /\ o \in [ok : BOOLEAN, db : Database]
        /\ (\A l \in v, f \in db.events : l.ev.seq # f.seq) => o.ok
        /\ o.ok => /\ DbOK(o.db)
                   /\ o.db.events = db.events \cup Shipped(v)
                   /\ db.autoinc <= o.db.autoinc
                   /\ \/ o.db.autoinc = db.autoinc
                      \/ \E l \in v : l.ev.seq = o.db.autoinc
                   /\ db.live = LatestOf(db.events)
                          => o.db.live = LatestOf(o.db.events)
    BY DEF ReplayGood
  <1> HIDE DEF x, v, o, e, q
  <1>7. CASE ~o.ok \/ \E f \in o.db.events : f.seq = e.seq
    <2>1. q = [o EXCEPT !.ok = FALSE]
      BY <1>1, <1>7 DEF RestoreEvent
    <2>2. q \in [ok : BOOLEAN, db : Database] /\ ~q.ok
      BY <1>6, <2>1
    <2>3. ~(\A l \in s, f \in db.events : l.ev.seq # f.seq)
      <3>1. CASE ~o.ok
        BY <1>3, <1>6, <3>1
      <3>2. ASSUME o.ok, NEW f \in o.db.events, f.seq = e.seq
            PROVE  \E l \in s, g \in db.events : l.ev.seq = g.seq
        <4>1. f \in db.events \/ \E l \in v : f = l.ev
          BY <1>6, <3>2 DEF Shipped
        <4>2. f \in db.events
          BY <1>2, <1>4, <3>2, <4>1
        <4> QED
          BY <1>1, <3>2, <4>2 DEF e
      <3> QED
        BY <1>7, <3>1, <3>2
    <2> QED
      BY <2>2, <2>3 DEF ReplayGood, q
  <1>8. CASE o.ok /\ \A f \in o.db.events : f.seq # e.seq
    <2> DEFINE a == IF e.seq > o.db.autoinc THEN e.seq ELSE o.db.autoinc
               n == UpsertIfNewer(o.db.live, e)
    <2>1. q = [ok |-> TRUE, db |-> [events |-> o.db.events \cup {e}, live |-> n,
                                    autoinc |-> a]]
      BY <1>1, <1>8 DEF RestoreEvent
    <2>2. /\ o.db \in Database /\ o.db.events \in SUBSET Event
          /\ o.db.live \in SUBSET Event
          /\ o.db.autoinc \in Nat /\ o.db.autoinc <= MaxSeq
          /\ \A f \in o.db.events : f.seq \in Nat /\ f.seq <= o.db.autoinc
          /\ \A f, g \in o.db.events : f.seq = g.seq => f = g
          /\ db.autoinc \in Nat
      BY <1>6, <1>8 DEF DbOK, Database, Event
    <2>3. a \in Nat /\ a <= MaxSeq /\ o.db.autoinc <= a /\ e.seq <= a
              /\ (a = o.db.autoinc \/ a = e.seq)
      BY <1>2, <2>2
    <2>4. n \in SUBSET Event
      BY <1>2, <2>2 DEF UpsertIfNewer, Upsert
    <2> HIDE DEF a, n
    <2>5. /\ q.ok = TRUE /\ q.db.events = o.db.events \cup {e}
          /\ q.db.live = n /\ q.db.autoinc = a
          /\ q.db \in Database /\ q \in [ok : BOOLEAN, db : Database]
      BY <1>2, <2>1, <2>2, <2>3, <2>4 DEF Database
    <2>6. DbOK(q.db)
      BY <1>2, <1>8, <2>2, <2>3, <2>5 DEF DbOK
    <2>7. q.db.events = db.events \cup Shipped(s)
      BY <1>5, <1>6, <1>8, <2>5
    <2>8. /\ db.autoinc <= q.db.autoinc
          /\ q.db.autoinc = db.autoinc \/ \E l \in s : l.ev.seq = q.db.autoinc
      BY <1>1, <1>3, <1>6, <1>8, <2>2, <2>3, <2>5 DEF e
    <2>9. ASSUME db.live = LatestOf(db.events)
          PROVE  q.db.live = LatestOf(q.db.events)
      <3>1. o.db.live = LatestOf(o.db.events)
        BY <1>6, <1>8, <2>9
      <3>2. UpsertIfNewer(LatestOf(o.db.events), e) = LatestOf(o.db.events \cup {e})
        BY <1>2, <1>8, <2>2, UpsertIfNewerLatest
      <3> QED
        BY <2>5, <3>1, <3>2 DEF n
    <2> QED
      BY <2>5, <2>6, <2>7, <2>8, <2>9 DEF ReplayGood, q
  <1> QED
    BY <1>7, <1>8

LEMMA ReplayIsGood ==
    ASSUME NEW db, DbOK(db), NEW s, IsStream(s)
    PROVE  ReplayGood(db, s)
  <1> DEFINE T == {v \in SUBSET s : ~ReplayGood(db, v)}
  <1> SUFFICES ASSUME T # {} PROVE FALSE
    OBVIOUS
  <1>1. IsFiniteSet(s) /\ \A v \in SUBSET s : IsStream(v)
    BY FileFacts DEF IsStream
  <1>2. PICK u \in T : \A v \in T : v \subseteq u => v = u
    <2> HIDE DEF T
    <2>1. T \in SUBSET (SUBSET s)
      BY DEF T
    <2> QED
      BY <1>1, <2>1, SmallestSet
  <1>3. u \in SUBSET s /\ IsStream(u)
    BY <1>1
  <1>4. CASE u = {}
    <2>1. Replay(db, u) = [ok |-> TRUE, db |-> db]
      BY <1>3, <1>4, ReplayStep DEF IsStream
    <2>2. db \in Database /\ Shipped(u) = {} /\ db.autoinc \in Nat
      BY <1>4 DEF DbOK, Database, Shipped
    <2>3. ReplayGood(db, u)
      BY <2>1, <2>2 DEF ReplayGood
    <2> QED
      BY <2>3
  <1>5. CASE u # {}
    <2>1. LastLine(u) \in u
      BY <1>3, <1>5, FileFacts DEF IsStream
    <2>2. u \ {LastLine(u)} \notin T
      BY <1>2, <2>1
    <2>3. ReplayGood(db, u \ {LastLine(u)})
      BY <1>3, <2>2
    <2>4. ReplayGood(db, u)
      BY <1>3, <1>5, <2>3, ReplayGoodStep
    <2> QED
      BY <2>4
  <1> QED
    BY <1>4, <1>5
-----------------------------------------------------------------------------
(* What a restore that succeeds has used: a base, and the lines after it. *)
RestoredFrom(o, b, target) ==
    /\ b \in Bases(target)
    /\ DbOK(b.db)
    /\ b.seq \in Nat
    /\ ReplayGood(b.db, ReadShippedEvents(b.seq, target))
    /\ o = Replay(b.db, ReadShippedEvents(b.seq, target))

(* What a base is: a latest snapshot, whole or just created, or nothing. *)
LEMMA BaseFacts ==
    ASSUME SinkInv, NEW target, NEW b \in Bases(target)
    PROVE  /\ DbOK(b.db)
           /\ b.seq \in Nat
           /\ \/ b.seq = 0 /\ b.db = EmptyDB /\ LatestSnapshots(target) = {}
              \/ \E s \in LatestSnapshots(target) :
                     /\ s \in snapshots
                     /\ b.seq = s.seq
                     /\ b.db = IF s.whole THEN s.db ELSE EmptyDB
  <1>1. DbOK(EmptyDB)
    BY EmptyImage
  <1>2. CASE LatestSnapshots(target) = {}
    <2>1. b = [seq |-> 0, db |-> EmptyDB]
      BY <1>2 DEF Bases
    <2> QED
      BY <1>1, <1>2, <2>1
  <1>3. CASE LatestSnapshots(target) # {}
    <2>1. PICK s \in LatestSnapshots(target) :
              b = [seq |-> s.seq, db |-> IF s.whole THEN s.db ELSE EmptyDB]
      BY <1>3 DEF Bases
    <2>2. s \in snapshots /\ s \in Snapshot
      BY DEF LatestSnapshots, SinkInv, TypeOK
    <2>3. s.seq \in Nat /\ DbOK(s.db)
      BY <2>2 DEF SinkInv, DatabaseInv, Snapshot
    <2>4. b.seq = s.seq /\ b.db = IF s.whole THEN s.db ELSE EmptyDB
      BY <2>1
    <2> QED
      BY <1>1, <2>2, <2>3, <2>4
  <1> QED
    BY <1>2, <1>3

LEMMA StreamIsStream ==
    ASSUME SinkInv
    PROVE  /\ IsStream(stream)
           /\ \A n, target : IsStream(ReadShippedEvents(n, target))
  <1>1. IsStream(stream)
    BY DEF SinkInv, TypeOK, LinesInv, StreamAscending, IsStream, IsFile
  <1>2. ASSUME NEW n, NEW target PROVE IsStream(ReadShippedEvents(n, target))
    <2>1. ReadShippedEvents(n, target) \in SUBSET stream
      BY DEF ReadShippedEvents
    <2>2. IsFile(ReadShippedEvents(n, target))
      BY <1>1, <2>1, FileFacts DEF IsStream
    <2> QED
      BY <1>1, <2>1, <2>2 DEF IsStream
  <1> QED
    BY <1>1, <1>2

LEMMA RestoredFacts ==
    ASSUME SinkInv, NEW target, NEW o \in RestoreTo(target), o.ok
    PROVE  \E b \in Bases(target) : RestoredFrom(o, b, target)
  <1>1. o # Failed
    BY DEF Failed
  <1>2. PICK b \in Bases(target) : o = Replay(b.db, ReadShippedEvents(b.seq, target))
    BY <1>1 DEF RestoreTo
  <1>3. DbOK(b.db) /\ b.seq \in Nat
    BY BaseFacts
  <1>4. ReplayGood(b.db, ReadShippedEvents(b.seq, target))
    BY <1>3, StreamIsStream, ReplayIsGood
  <1> QED
    BY <1>2, <1>3, <1>4 DEF RestoredFrom

(* Whatever was purged, and however often the primary was restored, a      *)
(* restore from complete snapshots that their names describe succeeds.     *)
LEMMA SinkInvRestoreSucceeds ==
    ASSUME SinkInv
    PROVE  RestoreSucceeds
  <1> SUFFICES ASSUME NEW target \in Targets, ~torn,
                      \A s \in LatestSnapshots(target) : s.whole /\ NamedByHighWater(s),
                      NEW o \in RestoreTo(target)
               PROVE  o.ok
    BY DEF RestoreSucceeds
  <1>1. PICK b \in Bases(target) : o = Replay(b.db, ReadShippedEvents(b.seq, target))
    BY DEF RestoreTo
  <1> DEFINE R == ReadShippedEvents(b.seq, target)
  <1>2. DbOK(b.db) /\ b.seq \in Nat
    BY BaseFacts
  <1>3. ReplayGood(b.db, R)
    BY <1>2, StreamIsStream, ReplayIsGood
  <1>4. \A f \in b.db.events : f.seq \in Nat /\ f.seq <= b.seq
    <2>1. \A f \in b.db.events : f.seq \in Nat
      BY <1>2 DEF DbOK, Database, Event
    <2>2. CASE b.db = EmptyDB
      BY <2>2 DEF EmptyDB
    <2>3. ASSUME NEW s \in LatestSnapshots(target), b.seq = s.seq, b.db = s.db
          PROVE  \A f \in b.db.events : f.seq <= b.seq
      BY <2>3 DEF NamedByHighWater
    <2> QED
      BY <2>1, <2>2, <2>3, BaseFacts
  <1>5. \A l \in R : l.ev.seq \in Nat /\ l.ev.seq > b.seq
    BY Types DEF ReadShippedEvents
  <1>6. \A l \in R, f \in b.db.events : l.ev.seq # f.seq
    BY <1>2, <1>4, <1>5
  <1> HIDE DEF R
  <1> QED
    BY <1>1, <1>3, <1>6 DEF ReplayGood, R
-----------------------------------------------------------------------------
(* What a restore from complete snapshots gives back: of the commits up to *)
(* its last one it misses only what a PURGE reached, and it holds what was *)
(* shipped up to the target.  Cutting the stream at an instant relies on   *)
(* commit times following commit order.                                    *)
LEMMA RestoredIsImage ==
    ASSUME SinkInv, LogSideInv, NEW target \in Nat,
           target = ZeroTime \/ ~ClockStepsBack,
           \A s \in LatestSnapshots(target) : s.whole,
           NEW o \in RestoreTo(target), o.ok
    PROVE  /\ DbOK(o.db)
           /\ ImageIn(o.db, committed, purges)
           /\ \A l \in ReadShippedEvents(0, target) :
                  /\ l.ev.seq <= o.db.autoinc
                  /\ Unpurged(l.ev) => l.ev \in o.db.events
  <1> USE DEF UnpurgedBy, Unpurged
  <1>1. PICK b \in Bases(target) : RestoredFrom(o, b, target)
    BY RestoredFacts
  <1> DEFINE R == ReadShippedEvents(b.seq, target)
             a == o.db.autoinc
  <1>2. HistoryInv /\ ShippedInv /\ SkipInv /\ ImageInv
    BY DEF LogSideInv
  <1>3. b.seq <= b.db.autoinc /\ ImageIn(b.db, committed, purges)
    <2>1. CASE b.seq = 0 /\ b.db = EmptyDB
      <3>1. EmptyDB.autoinc = 0 /\ ImageIn(EmptyDB, committed, purges)
        BY Types, EmptyImage DEF EmptyDB
      <3> QED
        BY <2>1, <3>1
    <2>2. ASSUME NEW s \in LatestSnapshots(target), s \in snapshots,
                 b.seq = s.seq, b.db = s.db
          PROVE  b.seq <= b.db.autoinc /\ ImageIn(b.db, committed, purges)
      BY <1>2, <2>2 DEF SinkInv, DatabaseInv, ImageInv
    <2> QED
      BY <2>1, <2>2, BaseFacts
  <1>4. /\ DbOK(b.db) /\ b.seq \in Nat /\ DbOK(o.db)
        /\ o.db.events = b.db.events \cup Shipped(R)
        /\ b.db.autoinc <= a
        /\ a = b.db.autoinc \/ \E l \in R : l.ev.seq = a
        /\ b.db.live = LatestOf(b.db.events) => o.db.live = LatestOf(o.db.events)
    BY <1>1 DEF RestoredFrom, ReplayGood
  <1>5. a \in Nat /\ b.db.autoinc \in Nat
    BY <1>4 DEF DbOK, Database
  <1> HIDE DEF R, a
  <1>6. \A l \in stream : l \in R <=> /\ l.ev.seq > b.seq
                                      /\ target = ZeroTime \/ l.ev.txTime <= target
    BY DEF R, ReadShippedEvents
  <1>7. R \subseteq stream /\ Shipped(R) \subseteq Shipped(stream)
    BY DEF R, ReadShippedEvents, Shipped
  <1>8. o.db.events \subseteq committed
    BY <1>2, <1>3, <1>4, <1>7 DEF ImageIn, ShippedInv
  <1>9. ASSUME NEW e \in UpTo(committed, a), Unpurged(e) PROVE e \in o.db.events
    <2>1. e \in committed /\ e.seq <= a /\ e.seq \in Nat /\ e.txTime \in Nat
      BY Types DEF UpTo
    <2>2. CASE e.seq <= b.db.autoinc
      BY <1>3, <1>4, <1>9, <2>1, <2>2 DEF ImageIn, UpTo
    <2>3. CASE ~(e.seq <= b.db.autoinc)
      <3>1. PICK l \in R : l.ev.seq = a
        BY <1>4, <1>5, <2>1, <2>3
      <3>2. l \in stream /\ l.ev \in committed /\ l.ev.txTime \in Nat
        BY <1>2, <1>7, Types DEF ShippedInv, Shipped
      <3>3. e \in Shipped(stream)
        BY <1>2, <1>9, <2>1, <3>1, <3>2 DEF SkipInv
      <3>4. PICK m \in stream : m.ev = e
        BY <3>3 DEF Shipped
      <3>5. e.seq > b.seq
        BY <1>3, <1>4, <1>5, <2>1, <2>3
      <3>6. target = ZeroTime \/ e.txTime <= target
        <4> SUFFICES ASSUME target # ZeroTime PROVE e.txTime <= target
          OBVIOUS
        <4>1. l.ev.txTime <= target
          BY <1>6, <3>1, <3>2
        <4>2. e.txTime <= l.ev.txTime
          <5>1. CASE e.seq = a
            BY <1>2, <2>1, <3>1, <3>2, <5>1 DEF HistoryInv
          <5>2. CASE e.seq < a
            BY <1>2, <2>1, <3>1, <3>2, <5>2 DEF HistoryInv
          <5> QED
            BY <1>5, <2>1, <5>1, <5>2
        <4> QED
          BY <2>1, <3>2, <4>1, <4>2
      <3>7. m \in R
        BY <1>6, <3>4, <3>5, <3>6
      <3> QED
        BY <1>4, <3>4, <3>7 DEF Shipped
    <2> QED
      BY <2>2, <2>3
  <1>10. ASSUME \A e \in UpTo(committed, a) : Unpurged(e)
         PROVE  o.db.live = LatestOf(UpTo(committed, a))
    <2>1. UpTo(committed, b.db.autoinc) \subseteq UpTo(committed, a)
      BY <1>4, <1>5, Types DEF UpTo
    <2>2. b.db.events = UpTo(committed, b.db.autoinc)
      <3>1. b.db.events \subseteq UpTo(committed, b.db.autoinc)
        BY <1>3, <1>4 DEF ImageIn, DbOK, UpTo
      <3> QED
        BY <1>3, <1>10, <2>1, <3>1 DEF ImageIn
    <2>3. b.db.live = LatestOf(b.db.events)
      BY <1>3, <1>10, <2>1, <2>2 DEF ImageIn
    <2>4. o.db.events = UpTo(committed, a)
      <3>1. o.db.events \subseteq UpTo(committed, a)
        BY <1>4, <1>8 DEF DbOK, UpTo, a
      <3> QED
        BY <1>9, <1>10, <3>1
    <2> QED
      BY <1>4, <2>3, <2>4
  <1>11. ImageIn(o.db, committed, purges)
    BY <1>8, <1>9, <1>10 DEF ImageIn, a
  <1>12. ASSUME NEW l \in ReadShippedEvents(0, target)
         PROVE  /\ l.ev.seq <= a
                /\ Unpurged(l.ev) => l.ev \in o.db.events
    <2>1. l \in stream /\ l.ev \in Event /\ l.ev.seq \in Nat /\ l.ev \in committed
              /\ (target = ZeroTime \/ l.ev.txTime <= target)
      BY <1>2, Types DEF ReadShippedEvents, ShippedInv, Shipped
    <2>2. CASE l.ev.seq > b.seq
      <3>1. l.ev \in o.db.events
        BY <1>4, <1>6, <2>1, <2>2 DEF Shipped
      <3> QED
        BY <1>4, <3>1 DEF DbOK, a
    <2>3. CASE l.ev.seq <= b.seq
      <3>1. l.ev.seq <= a
        BY <1>3, <1>4, <1>5, <2>1, <2>3
      <3>2. l.ev \in UpTo(committed, a)
        BY <2>1, <3>1 DEF UpTo
      <3> QED
        BY <1>9, <3>1, <3>2
    <2> QED
      BY <1>4, <2>1, <2>2, <2>3
  <1> QED
    BY <1>4, <1>11, <1>12 DEF a

(* Without purges, such a restore is a prefix of the commits. *)
LEMMA IInvRestoreIsPrefix ==
    ASSUME IInv, ~ClockStepsBack
    PROVE  RestoreIsPrefix
  <1> SUFFICES ASSUME NEW target \in Targets, past.clean, purges = {},
                      \A s \in LatestSnapshots(target) : s.whole,
                      NEW o \in RestoreTo(target), o.ok
               PROVE  /\ IsPrefix(o.db)
                      /\ \A l \in ReadShippedEvents(0, target) : l.ev \in o.db.events
    BY DEF RestoreIsPrefix
  <1>1. SinkInv /\ LogSideInv /\ target \in Nat
    BY DEF IInv, Targets
  <1>2. /\ DbOK(o.db)
        /\ ImageIn(o.db, committed, purges)
        /\ \A l \in ReadShippedEvents(0, target) : Unpurged(l.ev) => l.ev \in o.db.events
    BY <1>1, RestoredIsImage
  <1>3. \A e : UnpurgedBy(e, purges) /\ Unpurged(e)
    BY DEF UnpurgedBy, Unpurged
  <1>4. o.db.events = UpTo(committed, o.db.autoinc)
    BY <1>2, <1>3 DEF ImageIn, DbOK, UpTo
  <1>5. o.db.live = LatestOf(UpTo(committed, o.db.autoinc))
    BY <1>2, <1>3 DEF ImageIn
  <1> QED
    BY <1>2, <1>3, <1>4, <1>5 DEF IsPrefix, UpTo
-----------------------------------------------------------------------------
(* The restored primary takes the old one's place: the goroutines start    *)
(* afresh, the shipper past every line of the old stream.                  *)
LEMMA RecoverKeepsIInv ==
    ASSUME IInv, NEW target \in Nat, Recover(target)
    PROVE  IInv'
  <1>1. /\ ~up /\ up' = TRUE
        /\ past' = [past EXCEPT !.clean = @ /\ Faithful(target, autoinc')]
        /\ UNCHANGED <<now, stream, torn, snapshots, sinkMu, snapper, purger,
                       sweep, purges>>
    BY DEF Recover, sinkVars
  <1>2. PICK o \in RestoreTo(target) :
            /\ o.ok
            /\ events' = o.db.events
            /\ live' = o.db.live
            /\ autoinc' = o.db.autoinc
            /\ committed' = {e \in committed : e.seq <= o.db.autoinc}
            /\ shipper' = IdleShipper(LastShippedSeq)
    BY DEF Recover
  <1>3. SinkInv
    BY DEF IInv
  <1>4. PICK b \in Bases(target) : RestoredFrom(o, b, target)
    BY <1>2, <1>3, RestoredFacts
  <1>5. /\ DbOK(o.db) /\ o.db \in Database
        /\ events' \in SUBSET Event /\ live' \in SUBSET Event /\ autoinc' \in Nat
        /\ autoinc' <= MaxSeq
    BY <1>2, <1>4 DEF RestoredFrom, ReplayGood, DbOK, Database
  <1>6. DB' = o.db
    BY <1>2, <1>5 DEF DB, Database
  <1>7. committed' = UpTo(committed, autoinc') /\ committed' \in SUBSET Event
    BY <1>2, <1>3, Types DEF UpTo
  <1>8. /\ LastShippedSeq \in Nat
        /\ \A l \in stream : l.ev.seq <= LastShippedSeq
        /\ stream = {} => LastShippedSeq = 0
        /\ stream # {} => \E l \in stream : l.ev.seq = LastShippedSeq
    BY <1>3, LastShippedSeqIsMax
  <1>9. /\ shipper' \in [pc : {"idle", "read", "writing", "stopped"},
                         lastSeq : Nat, batch : SUBSET Event, upto : Nat]
        /\ shipper'.pc = "idle"
        /\ shipper'.lastSeq = LastShippedSeq
    BY <1>2, <1>8 DEF IdleShipper
  <1>10. /\ sinkMu = "free"
         /\ shipper = IdleShipper(0)
         /\ snapper = IdleSnapper
         /\ purger = [p \in Purgers |-> IdlePurger]
    BY <1>1, <1>3 DEF SinkInv, DownInv
  <1>11. /\ past' \in [crashes : 0 .. MaxCrashes, clean : BOOLEAN]
         /\ past'.clean <=> past.clean /\ Faithful(target, autoinc')
    <2> DEFINE c == past.clean /\ Faithful(target, autoinc')
    <2>1. c \in BOOLEAN /\ (c <=> past.clean /\ Faithful(target, autoinc'))
      OBVIOUS
    <2>2. past' = [past EXCEPT !.clean = c]
      BY <1>1
    <2>3. past \in [crashes : 0 .. MaxCrashes, clean : BOOLEAN]
      BY <1>3 DEF SinkInv, TypeOK
    <2> HIDE DEF c
    <2>4. past' \in [crashes : 0 .. MaxCrashes, clean : BOOLEAN] /\ past'.clean = c
      BY <2>1, <2>2, <2>3
    <2> QED
      BY <2>1, <2>4
  <1>12. TypeOK'
    <2>1. LogTypeOK'
      BY <1>1, <1>3, <1>5, <1>7, BoundAssumption DEF SinkInv, TypeOK, LogTypeOK
    <2> QED
      BY <1>1, <1>3, <1>9, <1>11, <2>1 DEF SinkInv, TypeOK
  <1>13. DownInv'
    BY <1>1 DEF DownInv
  <1>14. SinkMutexInv'
    BY <1>1, <1>9, <1>10 DEF SinkMutexInv, IdleSnapper, IdlePurger, Purgers
  <1>15. PurgerInv' /\ CutoffInv'
    BY <1>1, <1>3, PurgesKept
  <1>16. snapper'.pc = "idle" /\ snapper'.db = EmptyDB
    BY <1>1, <1>10 DEF IdleSnapper
  <1>17. DatabaseInv'
    BY <1>1, <1>3, <1>5, <1>6, <1>16 DEF SinkInv, DatabaseInv
  <1>18. LinesInv' /\ ShipperInv'
    BY <1>1, <1>3, <1>8, <1>9 DEF SinkInv, LinesInv, StreamAscending, ShipperInv
  <1>19. ASSUME past'.clean PROVE LogSideInv'
    <2>1. LogSideInv /\ target = ZeroTime
              /\ (\A s \in LatestSnapshots(target) : s.whole)
              /\ (\A s \in snapshots : s.whole => s.db.autoinc <= autoinc')
      BY <1>11, <1>19 DEF IInv, Faithful, Sound
    <2>2. HistoryInv /\ ShippedInv /\ SkipInv /\ ImageInv
      BY <2>1 DEF LogSideInv
    <2>3. /\ ImageIn(o.db, committed, purges)
          /\ \A l \in ReadShippedEvents(0, target) : l.ev.seq <= autoinc'
      BY <1>2, <1>3, <2>1, RestoredIsImage
    <2>4. \A l \in stream : l.ev.seq <= autoinc'
      <3>1. \A l \in stream : l.ev.seq > 0
        BY <1>3, Types
      <3> QED
        BY <2>1, <2>3, <3>1 DEF ReadShippedEvents
    <2>5. HistoryInv'
      <3>1. events' \subseteq committed'
        BY <1>2, <1>5, <2>3 DEF ImageIn, DbOK
      <3> QED
        BY <1>2, <1>7, <2>2, <3>1 DEF HistoryInv, UpTo
    <2>6. ShippedInv'
      <3>1. Shipped(stream) \subseteq committed'
        BY <1>7, <2>2, <2>4 DEF ShippedInv, Shipped, UpTo
      <3>2. LastShippedSeq <= autoinc'
        BY <1>5, <1>8, <2>4
      <3> QED
        BY <1>1, <1>9, <3>1, <3>2 DEF ShippedInv
    <2>7. SkipInv'
      <3>1. \A e \in committed : ~(e.seq <= 0)
        BY <1>3, Types
      <3>2. \A e \in committed :
                Unpurged(e) => /\ \A l \in stream : e.seq <= l.ev.seq => e \in Shipped(stream)
                               /\ e.seq <= LastShippedSeq => e \in Shipped(stream)
        BY <1>8, <2>2, <3>1 DEF SkipInv
      <3>3. committed' \subseteq committed
        BY <1>7 DEF UpTo
      <3> QED
        BY <1>1, <1>9, <3>2, <3>3 DEF SkipInv, Unpurged
    <2>8. ASSUME NEW db, DbOK(db), ImageIn(db, committed, purges), db.autoinc <= autoinc'
          PROVE  ImageIn(db, committed', purges)
      <3>1. db.autoinc \in Nat
        BY <2>8 DEF DbOK, Database
      <3>2. UpTo(committed', db.autoinc) = UpTo(committed, db.autoinc)
        BY <1>3, <1>5, <1>7, <2>8, <3>1, Types DEF UpTo
      <3> QED
        BY <2>8, <3>2, ImageStays
    <2>9. ImageInv'
      <3>1. ImageIn(DB', committed', purges)
        BY <1>2, <1>5, <1>6, <2>3, <2>8
      <3>2. ImageIn(EmptyDB, committed', purges) /\ EmptyDB.autoinc = 0
        BY <1>7, EmptyImage DEF EmptyDB
      <3>3. \A s \in snapshots : s.whole => ImageIn(s.db, committed', purges)
        BY <1>3, <2>1, <2>2, <2>8 DEF SinkInv, DatabaseInv, ImageInv
      <3> QED
        BY <1>1, <1>5, <1>16, <2>1, <3>1, <3>2, <3>3 DEF ImageInv
    <2> QED
      BY <2>5, <2>6, <2>7, <2>9 DEF LogSideInv
  <1> QED
    BY <1>12, <1>13, <1>14, <1>15, <1>17, <1>18, <1>19 DEF IInv, SinkInv

LEMMA RecoveryNextIInv == IInv /\ [RecoveryNext]_vars => IInv'
  <1> SUFFICES ASSUME IInv, [RecoveryNext]_vars PROVE IInv'
    OBVIOUS
  <1>1. CASE [Next]_vars
    BY <1>1, NextIInv
  <1>2. ASSUME NEW target \in RecoverTo, Recover(target) PROVE IInv'
    <2>1. target \in Nat
      BY RecoveryAssumption DEF Targets
    <2> QED
      BY <1>2, <2>1, RecoverKeepsIInv
  <1> QED
    BY <1>1, <1>2 DEF RecoveryNext

(* IInv holds in every reachable state, recoveries included: after any     *)
(* number of them, to any instants, under any faults.                      *)
THEOREM RecoveryInductive == RecoverySpec => []IInv
  BY InitIInv, RecoveryNextIInv, PTL DEF RecoverySpec

(* Every variable keeps its type through recoveries. *)
THEOREM RecoveryTypeCorrect == RecoverySpec => []TypeOK
  <1>1. IInv => TypeOK
    BY DEF IInv, SinkInv
  <1> QED
    BY <1>1, RecoveryInductive, PTL

(* The stream is in commit order and holds no event twice, even where a    *)
(* recovery to an earlier instant gave seqs out again.                     *)
THEOREM RecoveredStreamAscends == RecoverySpec => []StreamAscending
  <1>1. IInv => StreamAscending
    BY DEF IInv, SinkInv, LinesInv
  <1> QED
    BY <1>1, RecoveryInductive, PTL

(* A restore from a decodable stream and from complete snapshots that      *)
(* their names describe meets no seq twice, so it succeeds.                *)
THEOREM RestoresSucceed == RecoverySpec => []RestoreSucceeds
  <1>1. IInv => RestoreSucceeds
    BY SinkInvRestoreSucceeds DEF IInv
  <1> QED
    BY <1>1, RecoveryInductive, PTL

(* After any number of faithful recoveries the new primary and the old     *)
(* stream fit together: the shipper has skipped nothing, and what no PURGE *)
(* reached is all there, in the log and in live.                           *)
THEOREM RecoveriesFitStream == RecoverySpec => []RecoveryFitsStream
  <1>1. ASSUME IInv PROVE RecoveryFitsStream
    <2> SUFFICES ASSUME past.clean
                 PROVE  /\ NothingSkipped
                        /\ (\A e \in committed : Unpurged(e)) =>
                               events = committed /\ live = LatestOf(committed)
      BY DEF RecoveryFitsStream
    <2>1. SinkInv /\ HistoryInv /\ SkipInv /\ ImageInv
      BY <1>1 DEF IInv, LogSideInv
    <2>2. NothingSkipped
      BY <1>1, IInvSkipsNothing
    <2>3. ASSUME \A e \in committed : Unpurged(e)
          PROVE  events = committed /\ live = LatestOf(committed)
      <3>1. UpTo(committed, autoinc) = committed
        BY <2>1 DEF HistoryInv, UpTo
      <3>2. DB.events = events /\ DB.live = live /\ DB.autoinc = autoinc
        BY DEF DB
      <3>3. \A e \in committed : UnpurgedBy(e, purges)
        BY <2>3 DEF Unpurged, UnpurgedBy
      <3> QED
        BY <2>1, <3>1, <3>2, <3>3 DEF ImageInv, ImageIn
    <2> QED
      BY <2>2, <2>3
  <1> QED
    BY <1>1, RecoveryInductive, PTL

(* Without purges, and if the clock is never set back, a restore from      *)
(* complete snapshots to any instant is a prefix of the commits with the   *)
(* live rows of that prefix, which misses no shipped event up to the       *)
(* target, however often the primary was itself restored.                  *)
THEOREM RestoresArePrefixes ==
    ~ClockStepsBack => (RecoverySpec => []RestoreIsPrefix)
  <1> SUFFICES ASSUME ~ClockStepsBack PROVE RecoverySpec => []RestoreIsPrefix
    OBVIOUS
  <1>1. IInv => RestoreIsPrefix
    BY IInvRestoreIsPrefix
  <1> QED
    BY <1>1, RecoveryInductive, PTL
=============================================================================
