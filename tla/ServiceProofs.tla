---------------------------- MODULE ServiceProofs ---------------------------
(***************************************************************************)
(* Theorems about Service for any number of clients, handlers and requests *)
(* and any batches: the store under requests is still EventStore, what a   *)
(* request leaves in the log is a prefix of its writes, and what callers   *)
(* are told of it is true.  SvcInv is the inductive invariant.             *)
(***************************************************************************)
EXTENDS Service, EventStoreProofs, FiniteSetTheorems

(* The rows that the first statements of request s committed, as their     *)
(* results R tell.                                                         *)
RowsOf(s, R) ==
    {[seq |-> R[i].seq, id |-> s.id, pos |-> i] :
         i \in WritesOf(s.batch) \cap DOMAIN R}

(* An id names one request, and a client's requests are numbered. *)
SentInv ==
    /\ IsFiniteSet(sent)
    /\ \A s, t \in sent : s.id = t.id => s = t
    /\ \A s \in sent : s.id[2] <= client[s.id[1]].n
    /\ \A c \in Clients : client[c].n <= Cardinality(sent)

(* A request is on its way, in one handler, answered or lost, never in two *)
(* of these; nothing of it is committed before a handler has it, and a     *)
(* waiting client has no answer to its last request yet.                   *)
PlaceInv ==
    /\ \A id \in net : (\E s \in sent : s.id = id) /\ Committed(id) = {}
    /\ \A w \in Writers :
           handler[w].id # NoId => /\ \E s \in sent : s.id = handler[w].id
                                   /\ handler[w].id \notin net
    /\ \A v, w \in Writers :
           handler[v].id # NoId /\ handler[v].id = handler[w].id => v = w
    /\ \A a \in answers : /\ \E s \in sent : s.id = a.id
                          /\ a.id \notin net
                          /\ \A w \in Writers : handler[w].id # a.id
                          /\ client[a.id[1]].waiting =>
                                 a.id[2] < client[a.id[1]].n

(* A handler's results and what it has still to run make up its batch, and *)
(* the request's commits are those its results tell of.                    *)
Progress(s, h) ==
    /\ Len(s.batch) = Len(h.resp.results) + Len(h.todo)
    /\ \A i \in 1 .. Len(h.todo) : h.todo[i] = s.batch[Len(h.resp.results) + i]
    /\ Committed(s.id) = RowsOf(s, h.resp.results)

(* A writer in Append works for its handler's next statement. *)
WorkInv ==
    \A w \in Writers :
        /\ handler[w].id = NoId => handler[w] = Free /\ pc[w] = "idle"
        /\ pc[w] # "idle" => /\ ~handler[w].resp.error
                             /\ handler[w].todo # <<>>
                             /\ Head(handler[w].todo).kind = "write"
                             /\ arg[w] = Head(handler[w].todo).req

ProgressInv ==
    \A w \in Writers, s \in sent :
        s.id = handler[w].id => Progress(s, handler[w])

(* A recorded commit is that statement's row. *)
OriginInv ==
    /\ \A o \in origin : o.seq <= autoinc /\ \E s \in sent : s.id = o.id
    /\ \A o \in origin, s \in sent : s.id = o.id =>
           /\ o.pos \in WritesOf(s.batch)
           /\ \E e \in committed : /\ e.seq = o.seq
                                   /\ Doc(e) = Doc(s.batch[o.pos].req)
                                   /\ e.op = s.batch[o.pos].req.op
    /\ BatchPrefix

(* An answer's results tell all that was and will be committed. *)
AnswerInv ==
    \A a \in answers, s \in sent : s.id = a.id =>
        /\ Committed(s.id) = RowsOf(s, a.resp.results)
        /\ Len(a.resp.results) <= Len(s.batch)
        /\ ~a.resp.error => Len(a.resp.results) = Len(s.batch)

(* A read that found row `read` has seen the put of row n, or a delete     *)
(* since.                                                                  *)
Seen(n, d, read) ==
    \/ read >= n
    \/ read = 0 /\ \E e \in committed : Doc(e) = d /\ e.op = OpDelete /\ e.seq > n

(* The reads among the results R of request s have seen the puts before    *)
(* them in the batch and those of the client's earlier answered requests.  *)
OwnReads(s, R) ==
    \A j \in DOMAIN R, o \in origin, t \in sent :
        /\ s.batch[j].kind = "read"
        /\ t.id = o.id
        /\ t.batch[o.pos].req.op = OpPut
        /\ Doc(t.batch[o.pos].req) = s.batch[j].doc
        /\ \/ o.id = s.id /\ o.pos < j
           \/ /\ o.id[1] = s.id[1] /\ o.id[2] < s.id[2]
              /\ \E a \in answers : a.id = o.id
        => Seen(o.seq, s.batch[j].doc, R[j].seq)

ReadInv ==
    /\ \A w \in Writers, s \in sent :
           s.id = handler[w].id => OwnReads(s, handler[w].resp.results)
    /\ \A a \in answers, s \in sent :
           s.id = a.id => OwnReads(s, a.resp.results)

SvcInv ==
    /\ ServiceTypeOK
    /\ IInv
    /\ SentInv
    /\ PlaceInv
    /\ WorkInv
    /\ ProgressInv
    /\ OriginInv
    /\ AnswerInv
    /\ ReadInv

-----------------------------------------------------------------------------
(* No request is called NoId. *)
LEMMA IdsAreNames == \A id \in Ids : id # NoId
  <1> SUFFICES ASSUME NEW id \in Ids, id = NoId PROVE FALSE
    OBVIOUS
  <1>1. PICK c \in Clients, n \in 1 .. MaxRequests : id = <<c, n>>
    BY DEF Ids
  <1>2. Len(<<c, n>>) = 2 /\ Len(<<>>) = 0
    OBVIOUS
  <1> QED
    BY <1>1, <1>2 DEF NoId

(* The text of a request is found under its id. *)
LEMMA BatchOfSent ==
    ASSUME SentInv, NEW s \in sent
    PROVE  BatchOf(s.id) = s.batch
  <1>1. (CHOOSE t \in sent : t.id = s.id) = s
    BY DEF SentInv
  <1> QED
    BY <1>1 DEF BatchOf

LEMMA StatementFacts ==
    ASSUME NEW q \in Statements
    PROVE  q.kind = "write" => q.req \in Requests
  BY DEF Statements, Write, Read, Unconfigured

(* What a handler holds. *)
LEMMA HandlerFacts ==
    ASSUME ServiceTypeOK, NEW w \in Writers
    PROVE  /\ handler[w] = [id |-> handler[w].id, todo |-> handler[w].todo,
                            resp |-> handler[w].resp]
           /\ handler[w].resp = [error |-> handler[w].resp.error,
                                 results |-> handler[w].resp.results]
           /\ handler[w].id \in Ids \cup {NoId}
           /\ handler[w].todo \in Seq(Statements)
           /\ handler[w].resp \in Response
           /\ handler[w].resp.error \in BOOLEAN
           /\ handler[w].resp.results \in Seq([seq : Nat])
  <1>1. handler[w] \in [id : Ids \cup {NoId}, todo : Seq(Statements),
                        resp : Response]
    BY DEF ServiceTypeOK
  <1>2. handler[w].resp \in Response
    BY <1>1
  <1> QED
    BY <1>1, <1>2 DEF Response

(* Every step of the service is a step of the store or leaves it alone. *)
LEMMA StoreStep ==
    ASSUME ServiceTypeOK, [ServiceNext]_allVars
    PROVE  [Next]_vars
  <1>1. ASSUME NEW w \in Writers, ExecWrite(w) PROVE Next
    <2>1. handler[w].todo \in Seq(Statements) /\ handler[w].todo # <<>>
      BY <1>1, HandlerFacts DEF ExecWrite, At
    <2>2. Head(handler[w].todo) \in Statements
      BY <2>1
    <2>3. Head(handler[w].todo).req \in Requests
      BY <1>1, <2>2, StatementFacts DEF ExecWrite, At
    <2> QED
      BY <1>1, <2>3 DEF ExecWrite, Next, WriterStep
  <1>2. ASSUME NEW w \in Writers, HandlerStep(w) PROVE [Next]_vars
    <2>1. CASE LockStore(w) \/ CommitWrite(w) \/ FailWrite(w)
      BY <2>1 DEF LockStore, CommitWrite, FailWrite, Next, WriterStep
    <2>2. CASE ExecRead(w) \/ FailRead(w) \/ Reply(w)
      BY <2>2 DEF ExecRead, FailRead, Reply
    <2> QED
      BY <1>1, <1>2, <2>1, <2>2 DEF HandlerStep
  <1>3. CASE Beside
    BY <1>3 DEF Beside, Next
  <1>4. CASE Die
    BY <1>4 DEF Die, Next
  <1>5. CASE UNCHANGED allVars
    BY <1>5 DEF allVars
  <1> QED
    BY <1>2, <1>3, <1>4, <1>5 DEF ServiceNext, Send, Timeout, Accept

(* The store only grows: no step takes a commit back. *)
LEMMA StoreGrows ==
    ASSUME IInv, [Next]_vars
    PROVE  committed \subseteq committed' /\ autoinc <= autoinc'
  <1>1. autoinc \in Nat
    BY BoundAssumption DEF IInv, TypeOK, LogTypeOK
  <1>2. CASE UNCHANGED logVars
    BY <1>1, <1>2 DEF logVars
  <1>3. ASSUME NEW w \in Writers, Commit(w)
        PROVE  committed \subseteq committed' /\ autoinc <= autoinc'
    BY <1>1, <1>3 DEF Commit, CommitRow, NextSeq
  <1>4. ASSUME NEW c \in Collections, NEW cutoff \in Cutoffs, ExecPurge(c, cutoff)
        PROVE  committed \subseteq committed' /\ autoinc <= autoinc'
    BY <1>1, <1>4 DEF ExecPurge, Purge
  <1>5. CASE PassTime
    BY <1>1, <1>5 DEF PassTime, Tick, StepBack
  <1> QED
    BY <1>2, <1>3, <1>4, <1>5
    DEF Next, WriterStep, Call, Lock, Fail, Crash, vars, logVars

-----------------------------------------------------------------------------
(* A step of the store alone, or of a handler that enters Append or waits  *)
(* for the mutex, keeps all but the writers' places.                       *)
LEMMA StoreAloneKeeps ==
    ASSUME SvcInv, UNCHANGED serviceVars, IInv',
           committed \subseteq committed', autoinc <= autoinc'
    PROVE  /\ ServiceTypeOK' /\ SentInv' /\ PlaceInv' /\ ProgressInv'
           /\ OriginInv' /\ AnswerInv' /\ ReadInv'
  <1> USE DEF SvcInv, serviceVars
  <1>1. ServiceTypeOK'
    BY DEF ServiceTypeOK, IInv
  <1>2. SentInv'
    BY DEF SentInv
  <1>3. PlaceInv'
    BY DEF PlaceInv, Committed
  <1>4. OriginInv'
    <2>1. BatchPrefix'
      BY DEF OriginInv, BatchPrefix, Committed
    <2>2. \A o \in origin : o.seq \in Nat
      BY DEF ServiceTypeOK
    <2>3. autoinc \in Nat /\ autoinc' \in Nat
      BY BoundAssumption DEF IInv, TypeOK, LogTypeOK
    <2> QED
      BY <2>1, <2>2, <2>3 DEF OriginInv
  <1>5. AnswerInv'
    BY DEF AnswerInv, Committed, RowsOf
  <1>6. ReadInv'
    BY DEF ReadInv, OwnReads, Seen
  <1>7. ProgressInv'
    BY DEF ProgressInv, Progress, Committed
  <1> QED
    BY <1>1, <1>2, <1>3, <1>4, <1>5, <1>6, <1>7

LEMMA ExecWriteKeeps ==
    ASSUME SvcInv, NEW w \in Writers, ExecWrite(w), IInv',
           committed \subseteq committed', autoinc <= autoinc'
    PROVE  SvcInv'
  <1>1. /\ ServiceTypeOK' /\ SentInv' /\ PlaceInv' /\ ProgressInv'
        /\ OriginInv' /\ AnswerInv' /\ ReadInv'
    BY StoreAloneKeeps DEF ExecWrite
  <1>2. handler[w].id # NoId
    BY DEF SvcInv, WorkInv, ExecWrite, At, Free
  <1>3. /\ pc \in [Writers -> {"idle", "waiting", "holding"}]
        /\ arg \in [Writers -> Requests]
    BY DEF SvcInv, IInv, TypeOK
  <1>4. WorkInv'
    BY <1>2, <1>3 DEF SvcInv, WorkInv, ExecWrite, At, Call, serviceVars
  <1> QED
    BY <1>1, <1>4 DEF SvcInv

LEMMA LockStoreKeeps ==
    ASSUME SvcInv, NEW w \in Writers, LockStore(w), IInv',
           committed \subseteq committed', autoinc <= autoinc'
    PROVE  SvcInv'
  <1>1. /\ ServiceTypeOK' /\ SentInv' /\ PlaceInv' /\ ProgressInv'
        /\ OriginInv' /\ AnswerInv' /\ ReadInv'
    BY StoreAloneKeeps DEF LockStore
  <1>2. pc \in [Writers -> {"idle", "waiting", "holding"}]
    BY DEF SvcInv, IInv, TypeOK
  <1>3. WorkInv'
    BY <1>2 DEF SvcInv, WorkInv, LockStore, Lock, serviceVars
  <1> QED
    BY <1>1, <1>3 DEF SvcInv

LEMMA BesideKeeps ==
    ASSUME SvcInv, Beside \/ UNCHANGED allVars, IInv',
           committed \subseteq committed', autoinc <= autoinc'
    PROVE  SvcInv'
  <1>1. /\ ServiceTypeOK' /\ SentInv' /\ PlaceInv' /\ ProgressInv'
        /\ OriginInv' /\ AnswerInv' /\ ReadInv'
    BY StoreAloneKeeps DEF Beside, allVars
  <1>2. UNCHANGED <<pc, arg, handler>>
    BY DEF Beside, allVars, serviceVars, vars, writerVars, ExecPurge, PassTime
  <1>3. WorkInv'
    BY <1>2 DEF SvcInv, WorkInv
  <1> QED
    BY <1>1, <1>3 DEF SvcInv

-----------------------------------------------------------------------------
LEMMA IdFacts ==
    ASSUME NEW id \in Ids
    PROVE  id[1] \in Clients /\ id[2] \in Nat /\ id = <<id[1], id[2]>>
  BY ServiceAssumption DEF Ids

(* Who committed, answers or works has sent. *)
LEMMA SentIds ==
    ASSUME SvcInv
    PROVE  /\ \A s \in sent : s.id \in Ids /\ s.batch \in Batches
           /\ \A o \in origin : \E s \in sent : s.id = o.id
           /\ \A a \in answers : \E s \in sent : s.id = a.id
           /\ \A id \in net : \E s \in sent : s.id = id
           /\ \A w \in Writers : handler[w].id = NoId
                                 \/ \E s \in sent : s.id = handler[w].id
  BY DEF SvcInv, ServiceTypeOK, OriginInv, PlaceInv

LEMMA SendKeeps ==
    ASSUME SvcInv, NEW c \in Clients, NEW b \in Batches, Send(c, b), IInv'
    PROVE  SvcInv'
  <1> DEFINE id == <<c, client[c].n + 1>>
             new == [id |-> id, batch |-> b]
  <1>1. /\ client' = [client EXCEPT ![c] = [n |-> client[c].n + 1, waiting |-> TRUE]]
        /\ net' = net \cup {id}
        /\ sent' = sent \cup {new}
        /\ UNCHANGED <<vars, handler, answers, origin>>
        /\ Cardinality(sent) < MaxRequests
    BY DEF Send
  <1>2. /\ client \in [Clients -> [n : 0 .. MaxRequests, waiting : BOOLEAN]]
        /\ IsFiniteSet(sent)
        /\ \A s \in sent : s.id[2] <= client[s.id[1]].n
        /\ \A k \in Clients : client[k].n <= Cardinality(sent)
    BY DEF SvcInv, SentInv, ServiceTypeOK
  <1>3. Cardinality(sent) \in Nat /\ client[c].n \in Nat
    BY <1>2, FS_CardinalityType, ServiceAssumption
  <1>4. client[c].n + 1 \in 1 .. MaxRequests /\ id \in Ids
    BY <1>1, <1>2, <1>3, ServiceAssumption DEF Ids
  <1>5. \A s \in sent : s.id # id
    <2> SUFFICES ASSUME NEW s \in sent, s.id = id PROVE FALSE
      OBVIOUS
    <2>1. s.id[1] = c /\ s.id[2] = client[c].n + 1
      OBVIOUS
    <2> QED
      BY <1>2, <1>3, <2>1
  <1>6. id # NoId
    BY <1>4, IdsAreNames
  <1>7. new \notin sent /\ new.id = id /\ new.batch = b
    BY <1>5
  <1>8. /\ \A o \in origin : o.id # id
        /\ \A a \in answers : a.id # id
        /\ id \notin net
        /\ \A w \in Writers : handler[w].id # id
    BY <1>5, <1>6, SentIds
  <1>9. IsFiniteSet(sent') /\ Cardinality(sent') = Cardinality(sent) + 1
    BY <1>1, <1>2, <1>7, FS_AddElement
  <1>10. /\ client'[c] = [n |-> client[c].n + 1, waiting |-> TRUE]
         /\ \A k \in Clients : k # c => client'[k] = client[k]
    BY <1>1, <1>2
  <1> HIDE DEF id, new
  <1>11. ServiceTypeOK'
    BY <1>1, <1>2, <1>4, ServiceAssumption DEF new, SvcInv, ServiceTypeOK, IInv
  <1>12. SentInv'
    <2>1. \A s, t \in sent' : s.id = t.id => s = t
      BY <1>1, <1>5, <1>7 DEF SvcInv, SentInv
    <2>2. ASSUME NEW s \in sent' PROVE s.id[2] <= client'[s.id[1]].n
      <3>1. CASE s = new
        BY <1>3, <1>7, <1>10, <3>1 DEF id
      <3>2. CASE s \in sent
        <4>1. s.id[1] \in Clients /\ s.id[2] \in Nat
          BY <3>2, SentIds, IdFacts
        <4> QED
          BY <1>2, <1>3, <1>10, <3>2, <4>1
      <3> QED
        BY <1>1, <2>2, <3>1, <3>2
    <2>3. \A k \in Clients : client'[k].n <= Cardinality(sent')
      BY <1>2, <1>3, <1>9, <1>10
    <2> QED
      BY <1>9, <2>1, <2>2, <2>3 DEF SentInv
  <1>13. PlaceInv'
    <2>1. \A i \in net' : (\E s \in sent' : s.id = i) /\ Committed(i)' = {}
      BY <1>1, <1>7, <1>8 DEF SvcInv, PlaceInv, Committed
    <2>2. \A w \in Writers :
              handler'[w].id # NoId => /\ \E s \in sent' : s.id = handler'[w].id
                                       /\ handler'[w].id \notin net'
      BY <1>1, <1>8 DEF SvcInv, PlaceInv
    <2>3. \A a \in answers' : /\ \E s \in sent' : s.id = a.id
                              /\ a.id \notin net'
      BY <1>1, <1>8 DEF SvcInv, PlaceInv
    <2>4. ASSUME NEW a \in answers', client'[a.id[1]].waiting
          PROVE  a.id[2] < client'[a.id[1]].n
      <3>1. PICK s \in sent : s.id = a.id
        BY <1>1, SentIds
      <3>2. a.id \in Ids /\ a.id[1] \in Clients /\ a.id[2] \in Nat
        BY <3>1, SentIds, IdFacts
      <3>3. CASE a.id[1] = c
        BY <1>2, <1>3, <1>10, <3>1, <3>2, <3>3
      <3>4. CASE a.id[1] # c
        BY <1>1, <1>10, <2>4, <3>2, <3>4 DEF SvcInv, PlaceInv
      <3> QED
        BY <3>3, <3>4
    <2> QED
      BY <1>1, <2>1, <2>2, <2>3, <2>4 DEF SvcInv, PlaceInv
  <1>14. WorkInv'
    BY <1>1 DEF SvcInv, WorkInv, vars, writerVars
  <1>15. ProgressInv'
    BY <1>1, <1>7, <1>8 DEF SvcInv, ProgressInv, Progress, Committed
  <1>16. OriginInv'
    <2>1. BatchPrefix'
      BY <1>1, <1>7, <1>8 DEF SvcInv, OriginInv, BatchPrefix, Committed
    <2> QED
      BY <1>1, <1>7, <1>8, <2>1 DEF SvcInv, OriginInv, vars, logVars
  <1>17. AnswerInv'
    BY <1>1, <1>7, <1>8 DEF SvcInv, AnswerInv, Committed
  <1>18. ReadInv'
    BY <1>1, <1>7, <1>8 DEF SvcInv, ReadInv, OwnReads, Seen, vars, logVars
  <1> QED
    BY <1>11, <1>12, <1>13, <1>14, <1>15, <1>16, <1>17, <1>18 DEF SvcInv

LEMMA TimeoutKeeps ==
    ASSUME SvcInv, NEW c \in Clients, Timeout(c), IInv'
    PROVE  SvcInv'
  <1>1. /\ client \in [Clients -> [n : 0 .. MaxRequests, waiting : BOOLEAN]]
        /\ client' = [client EXCEPT ![c].waiting = FALSE]
        /\ UNCHANGED <<vars, net, handler, sent, answers, origin>>
    BY DEF SvcInv, ServiceTypeOK, Timeout
  <1>2. /\ client' \in [Clients -> [n : 0 .. MaxRequests, waiting : BOOLEAN]]
        /\ \A k \in Clients : /\ client'[k].n = client[k].n
                              /\ client'[k].waiting => client[k].waiting
    BY <1>1
  <1>3. ServiceTypeOK'
    BY <1>1, <1>2 DEF SvcInv, ServiceTypeOK, IInv
  <1>4. \A s \in sent : s.id[1] \in Clients
    BY SentIds, IdFacts
  <1>5. SentInv'
    BY <1>1, <1>2, <1>4 DEF SvcInv, SentInv
  <1>6. PlaceInv'
    BY <1>1, <1>2, <1>4 DEF SvcInv, PlaceInv, Committed
  <1>7. WorkInv' /\ ProgressInv'
    BY <1>1 DEF SvcInv, WorkInv, ProgressInv, Progress, Committed, vars, writerVars
  <1>8. OriginInv'
    BY <1>1 DEF SvcInv, OriginInv, BatchPrefix, Committed, vars, logVars
  <1>9. AnswerInv' /\ ReadInv'
    BY <1>1 DEF SvcInv, AnswerInv, Committed, ReadInv, OwnReads, Seen, vars, logVars
  <1> QED
    BY <1>3, <1>5, <1>6, <1>7, <1>8, <1>9 DEF SvcInv

-----------------------------------------------------------------------------
LEMMA AcceptKeeps ==
    ASSUME SvcInv, NEW w \in Writers, NEW id \in Ids, Accept(w, id), IInv'
    PROVE  SvcInv'
  <1>1. PICK s \in sent : s.id = id
    BY SentIds DEF Accept
  <1> DEFINE h == [id |-> id, todo |-> s.batch,
                   resp |-> [error |-> s.batch = Malformed, results |-> <<>>]]
  <1>2. BatchOf(id) = s.batch
    BY <1>1, BatchOfSent DEF SvcInv
  <1>3. /\ handler[w] = Free /\ id \in net
        /\ net' = net \ {id}
        /\ handler' = [handler EXCEPT ![w] = h]
        /\ UNCHANGED <<vars, client, sent, answers, origin>>
    BY <1>2 DEF Accept
  <1>4. handler \in [Writers -> [id : Ids \cup {NoId}, todo : Seq(Statements),
                                 resp : Response]]
    BY DEF SvcInv, ServiceTypeOK
  <1>5. /\ handler'[w] = h
        /\ \A v \in Writers : v # w => handler'[v] = handler[v]
    BY <1>3, <1>4
  <1>6. /\ id # NoId /\ Committed(id) = {}
        /\ \A v \in Writers : handler[v].id # id
        /\ \A a \in answers : a.id # id
        /\ pc[w] = "idle"
    BY <1>3, IdsAreNames DEF SvcInv, PlaceInv, WorkInv, Free
  <1>7. /\ s.batch \in Seq(Statements)
        /\ Len(<<>>) = 0 /\ DOMAIN <<>> = {}
    BY SentIds, ServiceAssumption
  <1>8. h.id = id /\ h.todo = s.batch /\ h.resp.results = <<>>
    OBVIOUS
  <1>9. h.resp \in Response
    <2>1. (s.batch = Malformed) \in BOOLEAN /\ <<>> \in Seq([seq : Nat])
      OBVIOUS
    <2> QED
      BY <2>1 DEF Response
  <1>10. h \in [id : Ids \cup {NoId}, todo : Seq(Statements), resp : Response]
    BY <1>7, <1>9
  <1> HIDE DEF h
  <1>11. ServiceTypeOK'
    BY <1>3, <1>4, <1>10 DEF SvcInv, ServiceTypeOK, IInv
  <1>12. SentInv'
    BY <1>3 DEF SvcInv, SentInv
  <1>13. PlaceInv'
    <2>1. \A i \in net' : (\E t \in sent' : t.id = i) /\ Committed(i)' = {}
      BY <1>3 DEF SvcInv, PlaceInv, Committed
    <2>2. \A v \in Writers :
              handler'[v].id # NoId => /\ \E t \in sent' : t.id = handler'[v].id
                                       /\ handler'[v].id \notin net'
      BY <1>1, <1>3, <1>5, <1>8 DEF SvcInv, PlaceInv
    <2>3. \A u, v \in Writers :
              handler'[u].id # NoId /\ handler'[u].id = handler'[v].id => u = v
      BY <1>5, <1>6, <1>8 DEF SvcInv, PlaceInv
    <2>4. \A a \in answers' : /\ \E t \in sent' : t.id = a.id
                              /\ a.id \notin net'
                              /\ \A v \in Writers : handler'[v].id # a.id
                              /\ client'[a.id[1]].waiting =>
                                     a.id[2] < client'[a.id[1]].n
      BY <1>3, <1>5, <1>6, <1>8 DEF SvcInv, PlaceInv
    <2> QED
      BY <2>1, <2>2, <2>3, <2>4 DEF PlaceInv
  <1>14. WorkInv'
    BY <1>3, <1>5, <1>6, <1>8 DEF SvcInv, WorkInv, vars, writerVars
  <1>15. ProgressInv'
    <2> SUFFICES ASSUME NEW v \in Writers, NEW t \in sent, t.id = handler'[v].id
                 PROVE  /\ Len(t.batch) = Len(handler'[v].resp.results)
                                            + Len(handler'[v].todo)
                        /\ \A i \in 1 .. Len(handler'[v].todo) :
                               handler'[v].todo[i]
                                   = t.batch[Len(handler'[v].resp.results) + i]
                        /\ Committed(t.id)' = RowsOf(t, handler'[v].resp.results)
      BY <1>3 DEF ProgressInv, Progress
    <2>1. CASE v # w
      <3>1. handler'[v] = handler[v] /\ Committed(t.id)' = Committed(t.id)
        BY <1>3, <1>5, <2>1 DEF Committed
      <3>2. Progress(t, handler[v])
        BY <3>1 DEF SvcInv, ProgressInv
      <3> QED
        BY <3>1, <3>2 DEF Progress
    <2>2. CASE v = w
      <3>1. t = s
        BY <1>1, <1>5, <1>8, <2>2 DEF SvcInv, SentInv
      <3>2. RowsOf(s, <<>>) = {}
        BY <1>7 DEF RowsOf
      <3>3. Committed(s.id)' = {}
        BY <1>1, <1>3, <1>6 DEF Committed
      <3>4. handler'[v].resp.results = <<>> /\ handler'[v].todo = t.batch
        BY <1>5, <1>8, <2>2, <3>1
      <3>5. Len(t.batch) \in Nat
        BY <1>7, <3>1
      <3>6. /\ Len(t.batch) = 0 + Len(t.batch)
            /\ \A i \in 1 .. Len(t.batch) : 0 + i = i
        BY <3>5
      <3> QED
        BY <1>7, <3>1, <3>2, <3>3, <3>4, <3>6
    <2> QED
      BY <2>1, <2>2
  <1>16. OriginInv'
    BY <1>3 DEF SvcInv, OriginInv, BatchPrefix, Committed, vars, logVars
  <1>17. AnswerInv'
    BY <1>3 DEF SvcInv, AnswerInv, Committed
  <1>18. ReadInv'
    BY <1>3, <1>5, <1>7, <1>8 DEF SvcInv, ReadInv, OwnReads, Seen, vars, logVars
  <1> QED
    BY <1>11, <1>12, <1>13, <1>14, <1>15, <1>16, <1>17, <1>18 DEF SvcInv

LEMMA FreeFacts ==
    /\ Free \in [id : Ids \cup {NoId}, todo : Seq(Statements), resp : Response]
    /\ Free.id = NoId
  <1>1. /\ <<>> \in Seq([seq : Nat])
        /\ <<>> \in Seq(Statements)
    OBVIOUS
  <1>2. [error |-> FALSE, results |-> <<>>] \in Response
    BY <1>1 DEF Response
  <1> QED
    BY <1>1, <1>2 DEF Free

LEMMA DieKeeps ==
    ASSUME SvcInv, Die, IInv'
    PROVE  SvcInv'
  <1>1. /\ net' = {}
        /\ handler' = [w \in Writers |-> Free]
        /\ pc' = [w \in Writers |-> "idle"]
        /\ UNCHANGED <<logVars, client, sent, answers, origin>>
    BY DEF Die, Crash
  <1>2. \A w \in Writers : /\ handler'[w] = Free
                           /\ handler'[w].id = NoId
                           /\ \A s \in sent : s.id # handler'[w].id
    BY <1>1, FreeFacts, IdsAreNames, SentIds
  <1>3. ServiceTypeOK'
    BY <1>1, FreeFacts DEF SvcInv, ServiceTypeOK, IInv
  <1>4. SentInv'
    BY <1>1 DEF SvcInv, SentInv
  <1>5. PlaceInv'
    <2>1. \A a \in answers' : /\ \E t \in sent' : t.id = a.id
                              /\ a.id \notin net'
                              /\ \A v \in Writers : handler'[v].id # a.id
                              /\ client'[a.id[1]].waiting =>
                                     a.id[2] < client'[a.id[1]].n
      BY <1>1, <1>2 DEF SvcInv, PlaceInv
    <2> QED
      BY <1>1, <1>2, <2>1 DEF PlaceInv
  <1>6. WorkInv'
    BY <1>1, <1>2 DEF WorkInv
  <1>7. ProgressInv'
    BY <1>1, <1>2 DEF ProgressInv
  <1>8. OriginInv'
    BY <1>1 DEF SvcInv, OriginInv, BatchPrefix, Committed, logVars
  <1>9. AnswerInv'
    BY <1>1 DEF SvcInv, AnswerInv, Committed
  <1>10. ReadInv'
    BY <1>1, <1>2 DEF SvcInv, ReadInv, OwnReads, Seen, logVars
  <1> QED
    BY <1>3, <1>4, <1>5, <1>6, <1>7, <1>8, <1>9, <1>10 DEF SvcInv

-----------------------------------------------------------------------------
(* A handler whose statements and results are left alone keeps its place   *)
(* in the batch while nothing commits.                                     *)
LEMMA SameProgress ==
    ASSUME ProgressInv, UNCHANGED <<sent, origin>>,
           \A v \in Writers, t \in sent : t.id = handler'[v].id =>
               /\ handler'[v].id = handler[v].id
               /\ handler'[v].todo = handler[v].todo
               /\ handler'[v].resp.results = handler[v].resp.results
    PROVE  ProgressInv'
  <1> SUFFICES ASSUME NEW v \in Writers, NEW t \in sent, t.id = handler'[v].id
               PROVE  /\ Len(t.batch) = Len(handler'[v].resp.results)
                                          + Len(handler'[v].todo)
                      /\ \A i \in 1 .. Len(handler'[v].todo) :
                             handler'[v].todo[i]
                                 = t.batch[Len(handler'[v].resp.results) + i]
                      /\ Committed(t.id)' = RowsOf(t, handler'[v].resp.results)
    BY DEF ProgressInv, Progress
  <1>1. Progress(t, handler[v])
    BY DEF ProgressInv
  <1>2. Committed(t.id)' = Committed(t.id)
    BY DEF Committed
  <1> QED
    BY <1>1, <1>2 DEF Progress

(* A statement that fails ends its batch: what the request has committed   *)
(* stays what its results tell.                                            *)
LEMMA StopKeeps ==
    ASSUME SvcInv, NEW w \in Writers, Stop(w), handler[w].id # NoId, IInv',
           UNCHANGED <<logVars, client, net, sent, answers, origin>>,
           pc' = [pc EXCEPT ![w] = "idle"],
           \A v \in Writers : v # w => arg'[v] = arg[v]
    PROVE  SvcInv'
  <1>1. /\ handler \in [Writers -> [id : Ids \cup {NoId}, todo : Seq(Statements),
                                    resp : Response]]
        /\ pc \in [Writers -> {"idle", "waiting", "holding"}]
    BY DEF SvcInv, ServiceTypeOK, TypeOK
  <1>2. /\ handler[w].resp \in [error : BOOLEAN, results : Seq([seq : Nat])]
        /\ handler' = [handler EXCEPT ![w].resp.error = TRUE]
    BY HandlerFacts DEF SvcInv, Stop, Response
  <1>3. [handler[w].resp EXCEPT !.error = TRUE]
            \in [error : BOOLEAN, results : Seq([seq : Nat])]
    BY <1>2
  <1>4. handler' \in [Writers -> [id : Ids \cup {NoId}, todo : Seq(Statements),
                                  resp : Response]]
    BY <1>1, <1>2, <1>3 DEF Response
  <1>5. /\ handler'[w].id = handler[w].id
        /\ handler'[w].todo = handler[w].todo
        /\ handler'[w].resp.results = handler[w].resp.results
    BY <1>1, <1>2
  <1>6. \A v \in Writers : v # w => handler'[v] = handler[v]
    BY <1>1, <1>2
  <1>7. \A v \in Writers : /\ handler'[v].id = handler[v].id
                           /\ handler'[v].todo = handler[v].todo
                           /\ handler'[v].resp.results = handler[v].resp.results
    BY <1>5, <1>6
  <1>8. ServiceTypeOK'
    BY <1>4 DEF SvcInv, ServiceTypeOK, IInv
  <1>9. SentInv'
    BY DEF SvcInv, SentInv
  <1>10. PlaceInv'
    BY <1>7 DEF SvcInv, PlaceInv, Committed
  <1>11. WorkInv'
    BY <1>1, <1>5, <1>6 DEF SvcInv, WorkInv
  <1>12. ProgressInv'
    BY <1>7, SameProgress DEF SvcInv
  <1>13. OriginInv'
    BY DEF SvcInv, OriginInv, BatchPrefix, Committed, logVars
  <1>14. AnswerInv'
    BY DEF SvcInv, AnswerInv, Committed
  <1>15. ReadInv'
    BY <1>7 DEF SvcInv, ReadInv, OwnReads, Seen, logVars
  <1> QED
    BY <1>8, <1>9, <1>10, <1>11, <1>12, <1>13, <1>14, <1>15 DEF SvcInv

LEMMA FailKeeps ==
    ASSUME SvcInv, NEW w \in Writers, FailWrite(w) \/ FailRead(w), IInv'
    PROVE  SvcInv'
  <1>1. /\ pc \in [Writers -> {"idle", "waiting", "holding"}]
        /\ arg \in [Writers -> Requests]
    BY DEF SvcInv, ServiceTypeOK, TypeOK
  <1>2. CASE FailWrite(w)
    <2>1. handler[w].id # NoId
      BY <1>2 DEF SvcInv, WorkInv, FailWrite, Fail
    <2> QED
      BY <1>1, <1>2, <2>1, StopKeeps DEF FailWrite, Fail, Unlock
  <1>3. CASE FailRead(w)
    <2>1. pc[w] = "idle" /\ handler[w].id # NoId
      BY <1>3 DEF SvcInv, WorkInv, FailRead, At, Free
    <2>2. pc' = [pc EXCEPT ![w] = "idle"]
      BY <1>1, <1>3, <2>1 DEF FailRead, vars, writerVars
    <2> QED
      BY <1>3, <2>1, <2>2, StopKeeps DEF FailRead, vars, writerVars
  <1> QED
    BY <1>2, <1>3

(* A finished handler tells a client that still waits, and nobody else:    *)
(* its last request is the newest the client has sent.                     *)
LEMMA ReplyKeeps ==
    ASSUME SvcInv, NEW w \in Writers, Reply(w), IInv'
    PROVE  SvcInv'
  <1> DEFINE id == handler[w].id
             c == id[1]
             a == [id |-> id, resp |-> handler[w].resp]
             awaited == client[c] = [n |-> id[2], waiting |-> TRUE]
  <1>1. /\ handler \in [Writers -> [id : Ids \cup {NoId}, todo : Seq(Statements),
                                    resp : Response]]
        /\ client \in [Clients -> [n : 0 .. MaxRequests, waiting : BOOLEAN]]
    BY DEF SvcInv, ServiceTypeOK
  <1>2. /\ handler[w].resp.error \/ handler[w].todo = <<>>
        /\ client' = IF awaited THEN [client EXCEPT ![c].waiting = FALSE] ELSE client
        /\ answers' = IF awaited THEN answers \cup {a} ELSE answers
        /\ handler' = [handler EXCEPT ![w] = Free]
        /\ UNCHANGED <<vars, net, sent, origin>>
    BY DEF Reply
  <1>3. id \in Ids /\ c \in Clients /\ id[2] \in Nat
    BY <1>1, IdFacts DEF Reply
  <1>4. /\ \A k \in Clients : /\ client'[k].n = client[k].n
                              /\ client'[k].waiting => client[k].waiting
        /\ client' \in [Clients -> [n : 0 .. MaxRequests, waiting : BOOLEAN]]
    <2>1. CASE awaited
      BY <1>1, <1>2, <1>3, <2>1
    <2>2. CASE ~awaited
      BY <1>1, <1>2, <2>2
    <2> QED
      BY <2>1, <2>2
  <1>told. ASSUME awaited PROVE ~client'[c].waiting /\ client[c].n = id[2]
    BY <1>1, <1>2, <1>3, <1>told
  <1>5. /\ handler'[w] = Free
        /\ \A v \in Writers : v # w => handler'[v] = handler[v]
        /\ handler'[w].id = NoId
    BY <1>1, <1>2, FreeFacts
  <1>6. PICK s \in sent : s.id = id
    BY SentIds DEF Reply
  <1>7. a.id = id /\ a.resp = handler[w].resp /\ a \in [id : Ids, resp : Response]
    BY <1>1, <1>3
  <1>8. \A t \in sent : t.id[1] \in Clients
    BY SentIds, IdFacts
  <1>9. \A t \in sent : t.id # NoId
    BY SentIds, IdsAreNames
  <1>10. \A v \in Writers : v # w => handler[v].id # id
    BY DEF SvcInv, PlaceInv, Reply
  <1> HIDE DEF a, awaited, id
  <1>11. ServiceTypeOK'
    BY <1>1, <1>2, <1>4, <1>7, FreeFacts DEF SvcInv, ServiceTypeOK, IInv
  <1>12. SentInv'
    BY <1>2, <1>4, <1>8 DEF SvcInv, SentInv
  <1>13. PlaceInv'
    <2>1. \A i \in net' : (\E t \in sent' : t.id = i) /\ Committed(i)' = {}
      BY <1>2 DEF SvcInv, PlaceInv, Committed
    <2>2. \A v \in Writers :
              handler'[v].id # NoId => /\ \E t \in sent' : t.id = handler'[v].id
                                       /\ handler'[v].id \notin net'
      BY <1>2, <1>5 DEF SvcInv, PlaceInv
    <2>3. \A u, v \in Writers :
              handler'[u].id # NoId /\ handler'[u].id = handler'[v].id => u = v
      BY <1>5 DEF SvcInv, PlaceInv
    <2>4. ASSUME NEW b \in answers'
          PROVE  /\ \E t \in sent' : t.id = b.id
                 /\ b.id \notin net'
                 /\ \A v \in Writers : handler'[v].id # b.id
                 /\ client'[b.id[1]].waiting => b.id[2] < client'[b.id[1]].n
      <3>1. CASE b \in answers
        BY <1>2, <1>4, <1>5, <1>8, <1>9, <3>1 DEF SvcInv, PlaceInv
      <3>2. CASE awaited /\ b = a
        <4>1. id \notin net /\ handler[w].id = id /\ id # NoId
          BY <1>6, <1>9 DEF SvcInv, PlaceInv, id
        <4> QED
          BY <1>2, <1>5, <1>6, <1>7, <1>10, <1>told, <3>2, <4>1
      <3> QED
        BY <1>2, <2>4, <3>1, <3>2
    <2> QED
      BY <2>1, <2>2, <2>3, <2>4 DEF PlaceInv
  <1>14. pc[w] = "idle"
    BY <1>2 DEF SvcInv, WorkInv
  <1>15. WorkInv'
    BY <1>2, <1>5, <1>14 DEF SvcInv, WorkInv, vars, writerVars
  <1>16. \A v \in Writers, t \in sent : t.id = handler'[v].id =>
             v # w /\ handler'[v] = handler[v]
    BY <1>5, <1>9
  <1>17. ProgressInv'
    BY <1>2, <1>16, SameProgress DEF SvcInv
  <1>18. OriginInv'
    BY <1>2 DEF SvcInv, OriginInv, BatchPrefix, Committed, vars, logVars
  <1>19. AnswerInv'
    <2>1. Progress(s, handler[w])
      BY <1>6 DEF SvcInv, ProgressInv, id
    <2>2. /\ handler[w].resp.results \in Seq([seq : Nat])
          /\ handler[w].todo \in Seq(Statements)
      BY HandlerFacts DEF SvcInv
    <2>3. /\ Committed(s.id) = RowsOf(s, a.resp.results)
          /\ Len(a.resp.results) <= Len(s.batch)
          /\ ~a.resp.error => Len(a.resp.results) = Len(s.batch)
      <3> DEFINE n == Len(handler[w].resp.results)
                 m == Len(handler[w].todo)
      <3>1. n \in Nat /\ m \in Nat
        BY <2>2
      <3>2. Len(s.batch) = n + m
        BY <2>1 DEF Progress
      <3>3. ~handler[w].resp.error => m = 0
        BY <1>2
      <3> HIDE DEF n, m
      <3>4. n <= Len(s.batch)
        BY <3>1, <3>2
      <3>5. ~handler[w].resp.error => n = Len(s.batch)
        BY <3>1, <3>2, <3>3
      <3> QED
        BY <1>7, <2>1, <3>4, <3>5 DEF n, Progress
    <2>4. \A t \in sent : t.id = a.id => t = s
      BY <1>6, <1>7 DEF SvcInv, SentInv
    <2> QED
      BY <1>2, <2>3, <2>4 DEF SvcInv, AnswerInv, Committed
  <1>20. ASSUME NEW t \in sent, NEW R, OwnReads(t, R)
         PROVE  OwnReads(t, R)'
    <2>1. t.id[2] \in Nat
      BY SentIds, IdFacts
    <2>2. awaited /\ t.id[1] = id[1] => t.id[2] <= id[2]
      BY <1>6, <1>told DEF SvcInv, SentInv
    <2>3. ASSUME NEW o \in origin, o.id[1] = t.id[1], o.id[2] < t.id[2],
                 NEW b \in answers', b.id = o.id
          PROVE  b \in answers
      BY <1>2, <1>3, <1>7, <2>1, <2>2, <2>3
    <2> QED
      BY <1>2, <1>20, <2>3 DEF OwnReads, Seen, vars, logVars
  <1>21. ReadInv'
    <2>1. ASSUME NEW v \in Writers, NEW t \in sent, t.id = handler'[v].id
          PROVE  OwnReads(t, handler'[v].resp.results)
      BY <1>16, <2>1 DEF SvcInv, ReadInv
    <2>2. ASSUME NEW b \in answers', NEW t \in sent, t.id = b.id
          PROVE  OwnReads(t, b.resp.results)
      BY <1>2, <1>7, <2>2 DEF SvcInv, ReadInv, id
    <2> QED
      BY <1>2, <1>20, <2>1, <2>2 DEF ReadInv
  <1> QED
    BY <1>11, <1>12, <1>13, <1>15, <1>17, <1>18, <1>19, <1>21 DEF SvcInv

-----------------------------------------------------------------------------
(* A statement that returns a result moves the handler one place on. *)
LEMMA DoneFacts ==
    ASSUME ServiceTypeOK, NEW w \in Writers, NEW r \in [seq : Nat], Done(w, r),
           handler[w].todo # <<>>
    PROVE  /\ handler' \in [Writers -> [id : Ids \cup {NoId}, todo : Seq(Statements),
                                        resp : Response]]
           /\ handler'[w].id = handler[w].id
           /\ handler'[w].todo = Tail(handler[w].todo)
           /\ handler'[w].resp.results = Append(handler[w].resp.results, r)
           /\ \A v \in Writers : v # w => handler'[v] = handler[v]
  <1>1. /\ handler \in [Writers -> [id : Ids \cup {NoId}, todo : Seq(Statements),
                                    resp : Response]]
        /\ handler[w].resp \in [error : BOOLEAN, results : Seq([seq : Nat])]
        /\ handler[w].todo \in Seq(Statements)
        /\ handler[w].resp.results \in Seq([seq : Nat])
    BY HandlerFacts DEF ServiceTypeOK, Response
  <1> DEFINE R == Append(handler[w].resp.results, r)
             T == Tail(handler[w].todo)
  <1>2. R \in Seq([seq : Nat]) /\ T \in Seq(Statements)
    BY <1>1
  <1>3. handler' = [handler EXCEPT ![w].todo = T, ![w].resp.results = R]
    BY <1>1 DEF Done
  <1> HIDE DEF R, T
  <1>4. [handler[w].resp EXCEPT !.results = R]
            \in [error : BOOLEAN, results : Seq([seq : Nat])]
    BY <1>1, <1>2
  <1>5. handler' \in [Writers -> [id : Ids \cup {NoId}, todo : Seq(Statements),
                                  resp : Response]]
    BY <1>1, <1>2, <1>3, <1>4, ZenonT(30) DEF Response
  <1>6. /\ handler'[w].id = handler[w].id
        /\ handler'[w].todo = T
        /\ handler'[w].resp.results = R
        /\ \A v \in Writers : v # w => handler'[v] = handler[v]
    BY <1>1, <1>3
  <1> QED
    BY <1>5, <1>6 DEF R, T

(* Where the statement under way stands in its batch, and what its result  *)
(* adds to the rows the results tell of.                                   *)
LEMMA NextPlace ==
    ASSUME SvcInv, NEW w \in Writers, handler[w].todo # <<>>,
           NEW s \in sent, s.id = handler[w].id, NEW r \in [seq : Nat]
    PROVE  LET R == handler[w].resp.results
               n == Len(R)
               T == Tail(handler[w].todo)
           IN  /\ n \in Nat
               /\ DOMAIN R = 1 .. n
               /\ R \in Seq([seq : Nat])
               /\ n + 1 \in DOMAIN s.batch
               /\ s.batch[n + 1] = Head(handler[w].todo)
               /\ Len(s.batch) - Len(handler[w].todo) + 1 = n + 1
               /\ Len(Append(R, r)) = n + 1
               /\ Len(s.batch) = (n + 1) + Len(T)
               /\ \A i \in 1 .. Len(T) : T[i] = s.batch[(n + 1) + i]
               /\ s.batch[n + 1].kind # "write" =>
                      RowsOf(s, Append(R, r)) = RowsOf(s, R)
               /\ s.batch[n + 1].kind = "write" =>
                      RowsOf(s, Append(R, r)) = RowsOf(s, R) \cup
                          {[seq |-> r.seq, id |-> s.id, pos |-> n + 1]}
  <1> DEFINE R == handler[w].resp.results
             n == Len(R)
             H == handler[w].todo
             T == Tail(H)
  <1>1. R \in Seq([seq : Nat]) /\ H \in Seq(Statements) /\ H # <<>>
    BY HandlerFacts DEF SvcInv
  <1>2. /\ Len(s.batch) = n + Len(H)
        /\ \A i \in 1 .. Len(H) : H[i] = s.batch[n + i]
    BY DEF SvcInv, ProgressInv, Progress
  <1>3. s.batch \in Seq(Statements)
    BY SentIds, ServiceAssumption
  <1> HIDE DEF R, H
  <1>4. /\ n \in Nat /\ DOMAIN R = 1 .. n
        /\ Len(H) \in Nat \ {0} /\ Len(T) = Len(H) - 1
        /\ Head(H) = H[1]
        /\ \A i \in 1 .. Len(T) : T[i] = H[i + 1]
    BY <1>1
  <1>5. /\ Append(R, r) \in Seq([seq : Nat])
        /\ Len(Append(R, r)) = n + 1
        /\ DOMAIN Append(R, r) = 1 .. n + 1
        /\ Append(R, r)[n + 1] = r
        /\ \A i \in 1 .. n : Append(R, r)[i] = R[i]
    BY <1>1, <1>4
  <1>6. n + 1 \in DOMAIN s.batch
    BY <1>2, <1>3, <1>4
  <1>7. s.batch[n + 1] = Head(H)
    BY <1>2, <1>4
  <1>8. Len(s.batch) - Len(H) + 1 = n + 1 /\ Len(s.batch) = (n + 1) + Len(T)
    BY <1>2, <1>4
  <1>9. ASSUME NEW i \in 1 .. Len(T) PROVE T[i] = s.batch[(n + 1) + i]
    <2>1. i + 1 \in 1 .. Len(H) /\ n + (i + 1) = (n + 1) + i
      BY <1>4
    <2> QED
      BY <1>2, <1>4, <2>1
  <1> HIDE DEF n
  <1>10. CASE s.batch[n + 1].kind # "write"
    <2>1. WritesOf(s.batch) \cap DOMAIN Append(R, r) = WritesOf(s.batch) \cap DOMAIN R
      BY <1>4, <1>5, <1>10 DEF WritesOf
    <2>2. RowsOf(s, Append(R, r)) = RowsOf(s, R)
      BY <1>4, <1>5, <2>1 DEF RowsOf
    <2> QED
      BY <1>1, <1>4, <1>5, <1>6, <1>7, <1>8, <1>9, <1>10, <2>2 DEF R, n, H
  <1>11. CASE s.batch[n + 1].kind = "write"
    <2>1. WritesOf(s.batch) \cap DOMAIN Append(R, r)
              = (WritesOf(s.batch) \cap DOMAIN R) \cup {n + 1}
      BY <1>4, <1>5, <1>6, <1>11 DEF WritesOf
    <2>2. RowsOf(s, Append(R, r)) = RowsOf(s, R) \cup
                          {[seq |-> r.seq, id |-> s.id, pos |-> n + 1]}
      BY <1>4, <1>5, <2>1 DEF RowsOf
    <2> QED
      BY <1>1, <1>4, <1>5, <1>6, <1>7, <1>8, <1>9, <1>11, <2>2 DEF R, n, H
  <1> QED
    BY <1>10, <1>11

(* GET sees every put of its document, or a delete since. *)
LEMMA ReadSees ==
    ASSUME IInv, NEW e \in committed, e.op = OpPut
    PROVE  /\ HighWater(Get(live, Doc(e))) \in Nat
           /\ Seen(e.seq, Doc(e), HighWater(Get(live, Doc(e))))
  <1> DEFINE G == Get(live, Doc(e))
  <1>1. /\ committed \in SUBSET Event /\ live \in SUBSET Event
        /\ autoinc \in Nat
        /\ live = LatestOf(committed)
        /\ \A f \in committed : f.seq \in Nat /\ f.seq <= autoinc
        /\ \A f, g \in committed : f.seq = g.seq => f = g
    BY BoundAssumption DEF IInv, TypeOK, LogTypeOK, LiveIsLatest, HistoryInv,
                           SeqNamesOneEvent, Event
  <1>2. live \subseteq committed
    BY <1>1 DEF LatestOf
  <1>3. PICK r \in live : Doc(r) = Doc(e)
    BY DEF IInv, HistoryInv
  <1>4. e.seq <= r.seq
    BY <1>1, <1>3 DEF LatestOf
  <1>5. G \in SUBSET Event /\ \A g \in G : g.seq <= autoinc
    BY <1>1, <1>2 DEF Get
  <1>6. /\ HighWater(G) \in Nat
        /\ \A g \in G : g.seq <= HighWater(G)
        /\ G = {} => HighWater(G) = 0
    <2> HIDE DEF G
    <2> QED
      BY <1>1, <1>5, HighWaterIsMax
  <1>7. CASE r.op # OpDelete
    <2>1. r \in G
      BY <1>3, <1>7 DEF Get
    <2>2. HighWater(G) >= e.seq
      <3> HIDE DEF G
      <3> QED
        BY <1>1, <1>2, <1>4, <1>6, <2>1
    <2> QED
      BY <1>6, <2>2 DEF Seen
  <1>8. CASE r.op = OpDelete
    <2>1. ASSUME NEW g \in G PROVE FALSE
      <3>1. g \in live /\ Doc(g) = Doc(r) /\ g.op # OpDelete
        BY <1>3 DEF Get
      <3>2. g.seq <= r.seq /\ r.seq <= g.seq
        BY <1>1, <1>2, <1>3, <3>1 DEF LatestOf
      <3>3. g = r
        BY <1>1, <1>2, <3>1, <3>2
      <3> QED
        BY <1>8, <3>1, <3>3
    <2>2. HighWater(G) = 0
      BY <1>6, <2>1
    <2>3. r.seq > e.seq
      <3>1. r # e
        BY <1>8 DEF OpPut, OpDelete
      <3> QED
        BY <1>1, <1>2, <1>4, <3>1
    <2> QED
      BY <1>2, <1>3, <1>6, <1>8, <2>2, <2>3 DEF Seen
  <1> QED
    BY <1>7, <1>8

LEMMA ExecReadKeeps ==
    ASSUME SvcInv, NEW w \in Writers, ExecRead(w), IInv'
    PROVE  SvcInv'
  <1> DEFINE d == Head(handler[w].todo).doc
             r == [seq |-> HighWater(Get(live, d))]
             R == handler[w].resp.results
  <1>1. /\ pc[w] = "idle"
        /\ handler[w].todo # <<>>
        /\ Head(handler[w].todo).kind = "read"
        /\ Done(w, r)
        /\ UNCHANGED <<vars, client, net, sent, answers, origin>>
    BY DEF ExecRead, At
  <1>2. r \in [seq : Nat]
    <2>1. /\ Get(live, d) \in SUBSET Event /\ autoinc \in Nat
          /\ \A g \in Get(live, d) : g.seq <= autoinc
      BY BoundAssumption DEF SvcInv, IInv, TypeOK, LogTypeOK, LiveIsLatest,
                             LatestOf, HistoryInv, Get
    <2> QED
      BY <2>1, HighWaterIsMax
  <1>3. handler[w].id # NoId
    BY <1>1 DEF SvcInv, WorkInv, Free
  <1>4. PICK s \in sent : s.id = handler[w].id
    BY <1>3, SentIds
  <1>5. r.seq = HighWater(Get(live, d))
    OBVIOUS
  <1> HIDE DEF r
  <1>6. /\ handler' \in [Writers -> [id : Ids \cup {NoId}, todo : Seq(Statements),
                                     resp : Response]]
        /\ handler'[w].id = handler[w].id
        /\ handler'[w].todo = Tail(handler[w].todo)
        /\ handler'[w].resp.results = Append(R, r)
        /\ \A v \in Writers : v # w => handler'[v] = handler[v]
    BY <1>1, <1>2, DoneFacts DEF SvcInv
  <1> DEFINE n == Len(R)
             T == Tail(handler[w].todo)
  <1>7. /\ n \in Nat /\ DOMAIN R = 1 .. n /\ R \in Seq([seq : Nat])
        /\ s.batch[n + 1] = Head(handler[w].todo)
        /\ Len(Append(R, r)) = n + 1
        /\ Len(s.batch) = (n + 1) + Len(T)
        /\ \A i \in 1 .. Len(T) : T[i] = s.batch[(n + 1) + i]
        /\ s.batch[n + 1].kind # "write" => RowsOf(s, Append(R, r)) = RowsOf(s, R)
    BY <1>1, <1>2, <1>4, NextPlace
  <1>8. /\ DOMAIN Append(R, r) = 1 .. n + 1
        /\ Append(R, r)[n + 1] = r
        /\ \A i \in 1 .. n : Append(R, r)[i] = R[i]
    BY <1>2, <1>7, SMTT(30)
  <1>9. /\ \A v \in Writers : handler'[v].id = handler[v].id
        /\ \A t \in sent : t.id = s.id => t = s
        /\ \A v \in Writers : v # w => handler[v].id # s.id
    BY <1>3, <1>4, <1>6 DEF SvcInv, SentInv, PlaceInv
  <1> HIDE DEF n, T, R, d
  <1>10. ServiceTypeOK'
    BY <1>1, <1>6 DEF SvcInv, ServiceTypeOK, IInv
  <1>11. SentInv'
    BY <1>1 DEF SvcInv, SentInv
  <1>12. PlaceInv'
    BY <1>1, <1>9 DEF SvcInv, PlaceInv, Committed
  <1>13. WorkInv'
    BY <1>1, <1>3, <1>6 DEF SvcInv, WorkInv, vars, writerVars
  <1>14. ProgressInv'
    <2> SUFFICES ASSUME NEW v \in Writers, NEW t \in sent, t.id = handler'[v].id
                 PROVE  /\ Len(t.batch) = Len(handler'[v].resp.results)
                                            + Len(handler'[v].todo)
                        /\ \A i \in 1 .. Len(handler'[v].todo) :
                               handler'[v].todo[i]
                                   = t.batch[Len(handler'[v].resp.results) + i]
                        /\ Committed(t.id)' = RowsOf(t, handler'[v].resp.results)
      BY <1>1 DEF ProgressInv, Progress
    <2>1. Progress(t, handler[v]) /\ Committed(t.id)' = Committed(t.id)
      BY <1>1, <1>9 DEF SvcInv, ProgressInv, Committed
    <2>2. CASE v # w
      BY <1>6, <2>1, <2>2 DEF Progress
    <2>3. CASE v = w
      <3>1. t = s
        BY <1>4, <1>9, <2>3
      <3>2. RowsOf(s, Append(R, r)) = RowsOf(s, R)
        BY <1>1, <1>7
      <3>3. Committed(s.id)' = RowsOf(s, R)
        BY <2>1, <2>3, <3>1 DEF Progress, R
      <3> QED
        BY <1>6, <1>7, <2>3, <3>1, <3>2, <3>3, ZenonT(30) DEF T
    <2> QED
      BY <2>2, <2>3
  <1>15. OriginInv'
    BY <1>1 DEF SvcInv, OriginInv, BatchPrefix, Committed, vars, logVars
  <1>16. AnswerInv'
    BY <1>1 DEF SvcInv, AnswerInv, Committed
  <1>17. ReadInv'
    <2>1. ASSUME NEW v \in Writers, NEW t \in sent, t.id = handler'[v].id
          PROVE  OwnReads(t, handler'[v].resp.results)
      <3>1. OwnReads(t, handler[v].resp.results)
        BY <1>9, <2>1 DEF SvcInv, ReadInv
      <3>2. CASE v # w
        BY <1>6, <3>1, <3>2
      <3>3. CASE v = w
        <4>1. t = s /\ OwnReads(s, R)
          BY <1>4, <1>9, <2>1, <3>1, <3>3 DEF R
        <4>2. ASSUME NEW o \in origin, NEW u \in sent, u.id = o.id,
                     u.batch[o.pos].req.op = OpPut, Doc(u.batch[o.pos].req) = d
              PROVE  Seen(o.seq, d, r.seq)
          <5>1. PICK e \in committed : /\ e.seq = o.seq
                                       /\ Doc(e) = d
                                       /\ e.op = OpPut
            BY <4>2 DEF SvcInv, OriginInv
          <5> QED
            BY <1>5, <5>1, ReadSees DEF SvcInv
        <4>3. OwnReads(s, Append(R, r))
          <5> SUFFICES ASSUME NEW j \in 1 .. n + 1, NEW o \in origin, NEW u \in sent,
                              s.batch[j].kind = "read",
                              u.id = o.id,
                              u.batch[o.pos].req.op = OpPut,
                              Doc(u.batch[o.pos].req) = s.batch[j].doc,
                              \/ o.id = s.id /\ o.pos < j
                              \/ /\ o.id[1] = s.id[1] /\ o.id[2] < s.id[2]
                                 /\ \E a \in answers : a.id = o.id
                       PROVE  Seen(o.seq, s.batch[j].doc, Append(R, r)[j].seq)
            BY <1>8 DEF OwnReads
          <5>1. CASE j = n + 1
            BY <1>7, <1>8, <4>2, <5>1 DEF d
          <5>2. CASE j # n + 1
            <6>1. j \in 1 .. n
              BY <1>7, <5>2
            <6> QED
              BY <1>7, <1>8, <4>1, <6>1 DEF OwnReads
          <5> QED
            BY <5>1, <5>2
        <4> QED
          BY <1>6, <3>3, <4>1, <4>3
      <3> QED
        BY <3>2, <3>3
    <2>2. ASSUME NEW t \in sent, NEW Q, OwnReads(t, Q) PROVE OwnReads(t, Q)'
      BY <1>1, <2>2 DEF OwnReads, Seen, vars, logVars
    <2>3. \A a \in answers, t \in sent : t.id = a.id => OwnReads(t, a.resp.results)
      BY DEF SvcInv, ReadInv
    <2> QED
      BY <1>1, <2>1, <2>2, <2>3 DEF ReadInv
  <1> QED
    BY <1>10, <1>11, <1>12, <1>13, <1>14, <1>15, <1>16, <1>17 DEF SvcInv

-----------------------------------------------------------------------------
(* A commit belongs to the statement after those the handler has results   *)
(* of, and its seq is above that of every commit before it.                *)
LEMMA CommitWriteKeeps ==
    ASSUME SvcInv, NEW w \in Writers, CommitWrite(w), IInv'
    PROVE  SvcInv'
  <1> DEFINE q == autoinc + 1
             r == [seq |-> q]
             R == handler[w].resp.results
             n == Len(R)
             T == Tail(handler[w].todo)
             e == Row(arg[w], q, stamp[w])
  <1>1. /\ pc[w] = "holding"
        /\ autoinc < MaxSeq
        /\ autoinc' = q
        /\ committed' = committed \cup {e}
        /\ pc' = [pc EXCEPT ![w] = "idle"]
        /\ arg' = [arg EXCEPT ![w] = NoRequest]
        /\ Done(w, r)
        /\ origin' = origin \cup {[seq |-> q, id |-> handler[w].id, pos |-> Position(w)]}
        /\ UNCHANGED <<client, net, sent, answers>>
    BY DEF CommitWrite, Commit, CommitRow, Unlock, NextSeq
  <1>2. /\ handler[w].id # NoId
        /\ handler[w].todo # <<>>
        /\ Head(handler[w].todo).kind = "write"
        /\ arg[w] = Head(handler[w].todo).req
    BY <1>1 DEF SvcInv, WorkInv
  <1>3. PICK s \in sent : s.id = handler[w].id
    BY <1>2, SentIds
  <1>4. /\ autoinc \in Nat /\ q \in Nat /\ q \in 1 .. MaxSeq
        /\ pc \in [Writers -> {"idle", "waiting", "holding"}]
        /\ arg \in [Writers -> Requests]
    BY <1>1, BoundAssumption DEF SvcInv, ServiceTypeOK, TypeOK, LogTypeOK
  <1>5. r \in [seq : Nat] /\ r.seq = q
    BY <1>4
  <1>6. /\ e.seq = q /\ Doc(e) = Doc(arg[w]) /\ e.op = arg[w].op
    BY DEF Row, Doc
  <1> HIDE DEF r, e
  <1>7. /\ handler' \in [Writers -> [id : Ids \cup {NoId}, todo : Seq(Statements),
                                     resp : Response]]
        /\ handler'[w].id = handler[w].id
        /\ handler'[w].todo = T
        /\ handler'[w].resp.results = Append(R, r)
        /\ \A v \in Writers : v # w => handler'[v] = handler[v]
    BY <1>1, <1>2, <1>5, DoneFacts DEF SvcInv
  <1>8. /\ n \in Nat /\ DOMAIN R = 1 .. n /\ R \in Seq([seq : Nat])
        /\ n + 1 \in DOMAIN s.batch
        /\ s.batch[n + 1] = Head(handler[w].todo)
        /\ Len(s.batch) - Len(handler[w].todo) + 1 = n + 1
        /\ Len(Append(R, r)) = n + 1
        /\ Len(s.batch) = (n + 1) + Len(T)
        /\ \A i \in 1 .. Len(T) : T[i] = s.batch[(n + 1) + i]
        /\ s.batch[n + 1].kind = "write" =>
               RowsOf(s, Append(R, r)) = RowsOf(s, R) \cup
                   {[seq |-> r.seq, id |-> s.id, pos |-> n + 1]}
    BY <1>2, <1>3, <1>5, NextPlace
  <1>9. /\ DOMAIN Append(R, r) = 1 .. n + 1
        /\ \A i \in 1 .. n : Append(R, r)[i] = R[i]
    BY <1>5, <1>8
  <1> DEFINE o == [seq |-> q, id |-> s.id, pos |-> n + 1]
  <1>10. Position(w) = n + 1
    BY <1>3, <1>8, BatchOfSent DEF Position, SvcInv
  <1>11. origin' = origin \cup {o} /\ o.seq = q /\ o.id = s.id /\ o.pos = n + 1
    BY <1>1, <1>3, <1>10
  <1>12. RowsOf(s, Append(R, r)) = RowsOf(s, R) \cup {o}
    BY <1>2, <1>5, <1>8
  <1>13. n + 1 \in WritesOf(s.batch)
    BY <1>2, <1>8 DEF WritesOf
  <1>14. Committed(s.id) = RowsOf(s, R)
    BY <1>3 DEF SvcInv, ProgressInv, Progress
  <1>15. s.id \in Ids /\ s.id # NoId
    BY SentIds, IdsAreNames
  <1>16. o \in [seq : 1 .. MaxSeq, id : Ids, pos : Nat]
    BY <1>4, <1>8, <1>15
  <1> HIDE DEF o, n, T, R, q
  <1>17. /\ \A v \in Writers : handler'[v].id = handler[v].id
         /\ \A t \in sent : t.id = s.id => t = s
         /\ \A v \in Writers : v # w => handler[v].id # s.id
         /\ \A a \in answers : a.id # s.id
         /\ s.id \notin net
    <2>1. \A v \in Writers : handler'[v].id = handler[v].id
      BY <1>7
    <2>2. \A t \in sent : t.id = s.id => t = s
      BY DEF SvcInv, SentInv
    <2>3. \A v \in Writers : v # w => handler[v].id # s.id
      BY <1>2, <1>3 DEF SvcInv, PlaceInv
    <2>4. (\A a \in answers : a.id # s.id) /\ s.id \notin net
      BY <1>2, <1>3 DEF SvcInv, PlaceInv
    <2> QED
      BY <2>1, <2>2, <2>3, <2>4
  <1>18. /\ Committed(s.id)' = Committed(s.id) \cup {o}
         /\ \A id : id # s.id => Committed(id)' = Committed(id)
    BY <1>11 DEF Committed
  <1>19. ServiceTypeOK'
    BY <1>1, <1>7, <1>11, <1>16 DEF SvcInv, ServiceTypeOK, IInv
  <1>20. SentInv'
    BY <1>1 DEF SvcInv, SentInv
  <1>21. PlaceInv'
    <2>1. \A id \in net' : (\E t \in sent' : t.id = id) /\ Committed(id)' = {}
      BY <1>1, <1>17, <1>18 DEF SvcInv, PlaceInv
    <2> QED
      BY <1>1, <1>17, <2>1 DEF SvcInv, PlaceInv
  <1>22. WorkInv'
    BY <1>1, <1>2, <1>4, <1>7 DEF SvcInv, WorkInv
  <1>23. ProgressInv'
    <2> SUFFICES ASSUME NEW v \in Writers, NEW t \in sent, t.id = handler'[v].id
                 PROVE  /\ Len(t.batch) = Len(handler'[v].resp.results)
                                            + Len(handler'[v].todo)
                        /\ \A i \in 1 .. Len(handler'[v].todo) :
                               handler'[v].todo[i]
                                   = t.batch[Len(handler'[v].resp.results) + i]
                        /\ Committed(t.id)' = RowsOf(t, handler'[v].resp.results)
      BY <1>1 DEF ProgressInv, Progress
    <2>1. CASE v # w
      <3>1. Progress(t, handler[v]) /\ Committed(t.id)' = Committed(t.id)
        BY <1>17, <1>18, <2>1 DEF SvcInv, ProgressInv
      <3> QED
        BY <1>7, <2>1, <3>1 DEF Progress
    <2>2. CASE v = w
      <3>1. t = s
        BY <1>3, <1>17, <2>2
      <3>2. Committed(t.id)' = RowsOf(s, Append(R, r))
        BY <1>12, <1>14, <1>18, <3>1
      <3> QED
        BY <1>7, <1>8, <2>2, <3>1, <3>2
    <2> QED
      BY <2>1, <2>2
  <1>24. ASSUME NEW p \in Committed(s.id)
         PROVE  p.pos \in 1 .. n /\ p.seq \in Nat /\ p.seq < q
    <2>1. p.pos \in 1 .. n
      BY <1>8, <1>14 DEF RowsOf
    <2>2. p \in origin /\ p.seq \in Nat
      BY DEF SvcInv, ServiceTypeOK, Committed
    <2>3. p.seq <= autoinc
      BY <2>2 DEF SvcInv, OriginInv
    <2> QED
      BY <1>4, <2>1, <2>2, <2>3 DEF q
  <1>25. BatchPrefix'
    <2> SUFFICES ASSUME NEW t \in sent
                 PROVE  LET C == Committed(t.id)'
                        IN  /\ \A u, p \in C : u.pos < p.pos <=> u.seq < p.seq
                            /\ \A u \in C, i \in WritesOf(t.batch) :
                                   i < u.pos => \E p \in C : p.pos = i
      BY <1>1 DEF BatchPrefix
    <2>1. LET C == Committed(t.id)
          IN  /\ \A u, p \in C : u.pos < p.pos <=> u.seq < p.seq
              /\ \A u \in C, i \in WritesOf(t.batch) :
                     i < u.pos => \E p \in C : p.pos = i
      BY DEF SvcInv, OriginInv, BatchPrefix
    <2>2. CASE t.id # s.id
      BY <1>18, <2>1, <2>2
    <2>3. CASE t.id = s.id
      <3> DEFINE C == Committed(s.id)
      <3>1. t = s /\ Committed(t.id)' = C \cup {o}
        BY <1>17, <1>18, <2>3
      <3>2. /\ \A u, p \in C : u.pos < p.pos <=> u.seq < p.seq
            /\ \A u \in C, i \in WritesOf(s.batch) :
                   i < u.pos => \E p \in C : p.pos = i
        BY <2>1, <3>1
      <3>3. \A p \in C : p.pos \in 1 .. n /\ p.seq \in Nat /\ p.seq < q
        BY <1>24
      <3>4. ASSUME NEW i \in WritesOf(s.batch), i < n + 1
            PROVE  \E p \in C : p.pos = i
        <4>1. i \in Nat /\ i >= 1
          <5>1. s.batch \in Seq(Statements)
            BY SentIds, ServiceAssumption
          <5> QED
            BY <5>1 DEF WritesOf
        <4>2. i \in DOMAIN R
          BY <1>8, <3>4, <4>1
        <4>3. [seq |-> R[i].seq, id |-> s.id, pos |-> i] \in C
          BY <1>14, <4>2 DEF RowsOf
        <4> QED
          BY <4>3
      <3> HIDE DEF C
      <3>5. \A u, p \in C \cup {o} : u.pos < p.pos <=> u.seq < p.seq
        <4>1. \A p \in C : /\ p.pos < n + 1 /\ ~(n + 1 < p.pos)
                            /\ p.seq < q /\ ~(q < p.seq)
          <5> TAKE p \in C
          <5>1. p.pos < n + 1 /\ ~(n + 1 < p.pos)
            <6>1. n \in Nat
              BY <1>8
            <6>2. p.pos \in 1 .. n
              BY <3>3
            <6> HIDE DEF n
            <6> QED
              BY <6>1, <6>2
          <5>2. p.seq < q /\ ~(q < p.seq)
            BY <1>4, <3>3
          <5> QED
            BY <5>1, <5>2
        <4>2. ~(n + 1 < n + 1) /\ ~(q < q)
          BY <1>4, <1>8
        <4> QED
          BY <1>11, <3>2, <4>1, <4>2
      <3>6. \A u \in C \cup {o}, i \in WritesOf(s.batch) :
                i < u.pos => \E p \in C \cup {o} : p.pos = i
        BY <1>11, <3>2, <3>4
      <3> QED
        BY <3>1, <3>5, <3>6
    <2> QED
      BY <2>2, <2>3
  <1>26. OriginInv'
    <2>1. ASSUME NEW u \in origin'
          PROVE  u.seq <= autoinc' /\ \E t \in sent' : t.id = u.id
      <3>1. CASE u = o
        BY <1>1, <1>4, <1>11, <3>1
      <3>2. CASE u \in origin
        <4>1. u.seq \in Nat /\ u.seq <= autoinc /\ \E t \in sent : t.id = u.id
          BY <3>2 DEF SvcInv, ServiceTypeOK, OriginInv
        <4> QED
          BY <1>1, <1>4, <4>1 DEF q
      <3> QED
        BY <1>11, <2>1, <3>1, <3>2
    <2>2. ASSUME NEW u \in origin', NEW t \in sent', t.id = u.id
          PROVE  /\ u.pos \in WritesOf(t.batch)
                 /\ \E f \in committed' : /\ f.seq = u.seq
                                          /\ Doc(f) = Doc(t.batch[u.pos].req)
                                          /\ f.op = t.batch[u.pos].req.op
      <3>1. CASE u = o
        <4>1. t = s
          BY <1>1, <1>11, <1>17, <2>2, <3>1
        <4> QED
          BY <1>1, <1>2, <1>6, <1>8, <1>11, <1>13, <3>1, <4>1
      <3>2. CASE u \in origin
        BY <1>1, <2>2, <3>2 DEF SvcInv, OriginInv
      <3> QED
        BY <1>11, <2>2, <3>1, <3>2
    <2> QED
      BY <1>25, <2>1, <2>2 DEF OriginInv
  <1>27. AnswerInv'
    BY <1>1, <1>17, <1>18 DEF SvcInv, AnswerInv
  <1>28. ReadInv'
    <2>1. ASSUME NEW t \in sent, t # s, NEW Q, OwnReads(t, Q)
          PROVE  OwnReads(t, Q)'
      <3>1. t.id # s.id
        BY <1>17, <2>1
      <3> QED
        BY <1>1, <1>11, <1>17, <2>1, <3>1 DEF OwnReads, Seen
    <2>2. OwnReads(s, R)
      BY <1>3 DEF SvcInv, ReadInv, R
    <2>3. OwnReads(s, handler[w].resp.results)'
      <3> DEFINE Q == handler'[w].resp.results
      <3>0. Q = Append(R, r) /\ DOMAIN Q = 1 .. n + 1
        BY <1>7, <1>9
      <3> SUFFICES ASSUME NEW j \in DOMAIN Q, NEW u \in origin', NEW t \in sent',
                          s.batch[j].kind = "read",
                          t.id = u.id,
                          t.batch[u.pos].req.op = OpPut,
                          Doc(t.batch[u.pos].req) = s.batch[j].doc,
                          \/ u.id = s.id /\ u.pos < j
                          \/ /\ u.id[1] = s.id[1] /\ u.id[2] < s.id[2]
                             /\ \E a \in answers' : a.id = u.id
                   PROVE  \/ Q[j].seq >= u.seq
                          \/ /\ Q[j].seq = 0
                             /\ \E f \in committed' :
                                    /\ Doc(f) = s.batch[j].doc
                                    /\ f.op = OpDelete
                                    /\ f.seq > u.seq
        BY DEF OwnReads, Seen
      <3> HIDE DEF Q
      <3>1. j # n + 1
        BY <1>2, <1>8
      <3>2. j \in 1 .. n
        BY <1>8, <3>1, <3>0
      <3>3. u \in origin
        <4> SUFFICES ASSUME u = o PROVE FALSE
          BY <1>11
        <4>1. ~(u.id = s.id /\ u.pos < j)
          BY <1>8, <1>11, <3>2
        <4>2. ~(\E a \in answers' : a.id = u.id)
          BY <1>1, <1>11, <1>17
        <4> QED
          BY <4>1, <4>2
      <3>4. Seen(u.seq, s.batch[j].doc, R[j].seq)
        BY <1>1, <1>8, <2>2, <3>2, <3>3 DEF OwnReads
      <3> QED
        BY <1>1, <1>9, <3>0, <3>2, <3>4 DEF Seen
    <2>4. ASSUME NEW v \in Writers, NEW t \in sent, t.id = handler'[v].id, v # w
          PROVE  t # s /\ OwnReads(t, handler'[v].resp.results)
      BY <1>7, <1>17, <2>4 DEF SvcInv, ReadInv
    <2>5. ASSUME NEW t \in sent, t.id = handler'[w].id PROVE t = s
      BY <1>3, <1>17, <2>5
    <2>6. ASSUME NEW a \in answers, NEW t \in sent, t.id = a.id
          PROVE  t # s /\ OwnReads(t, a.resp.results)
      BY <1>17, <2>6 DEF SvcInv, ReadInv
    <2> QED
      BY <1>1, <2>1, <2>3, <2>4, <2>5, <2>6 DEF ReadInv
  <1> QED
    BY <1>19, <1>20, <1>21, <1>22, <1>23, <1>26, <1>27, <1>28 DEF SvcInv

-----------------------------------------------------------------------------
LEMMA ServiceInitSvcInv == ServiceInit => SvcInv
  <1> SUFFICES ASSUME ServiceInit PROVE SvcInv
    OBVIOUS
  <1> USE DEF ServiceInit
  <1>1. IInv
    BY InitIInv
  <1>2. 0 \in 0 .. MaxRequests
    BY ServiceAssumption
  <1>3. ServiceTypeOK
    BY <1>1, <1>2, FreeFacts DEF ServiceTypeOK, IInv
  <1>4. SentInv
    BY FS_EmptySet DEF SentInv
  <1>5. PlaceInv
    BY FreeFacts DEF PlaceInv
  <1>6. WorkInv
    BY FreeFacts DEF WorkInv, Init
  <1>7. ProgressInv /\ OriginInv /\ AnswerInv /\ ReadInv
    BY DEF ProgressInv, OriginInv, BatchPrefix, AnswerInv, ReadInv
  <1> QED
    BY <1>1, <1>3, <1>4, <1>5, <1>6, <1>7 DEF SvcInv

LEMMA ServiceNextSvcInv == SvcInv /\ [ServiceNext]_allVars => SvcInv'
  <1> SUFFICES ASSUME SvcInv, [ServiceNext]_allVars PROVE SvcInv'
    OBVIOUS
  <1>1. ServiceTypeOK /\ IInv /\ [Next]_vars
    BY StoreStep DEF SvcInv
  <1>2. IInv'
    BY <1>1, NextIInv
  <1>3. committed \subseteq committed' /\ autoinc <= autoinc'
    BY <1>1, StoreGrows
  <1>4. ASSUME NEW c \in Clients, NEW b \in Batches, Send(c, b) PROVE SvcInv'
    BY <1>2, <1>4, SendKeeps
  <1>5. ASSUME NEW c \in Clients, Timeout(c) PROVE SvcInv'
    BY <1>2, <1>5, TimeoutKeeps
  <1>6. ASSUME NEW w \in Writers, NEW id \in Ids, Accept(w, id) PROVE SvcInv'
    BY <1>2, <1>6, AcceptKeeps
  <1>7. ASSUME NEW w \in Writers, HandlerStep(w) PROVE SvcInv'
    <2>1. CASE ExecWrite(w)
      BY <1>2, <1>3, <2>1, ExecWriteKeeps
    <2>2. CASE LockStore(w)
      BY <1>2, <1>3, <2>2, LockStoreKeeps
    <2>3. CASE CommitWrite(w)
      BY <1>2, <2>3, CommitWriteKeeps
    <2>4. CASE FailWrite(w) \/ FailRead(w)
      BY <1>2, <2>4, FailKeeps
    <2>5. CASE ExecRead(w)
      BY <1>2, <2>5, ExecReadKeeps
    <2>6. CASE Reply(w)
      BY <1>2, <2>6, ReplyKeeps
    <2> QED
      BY <1>7, <2>1, <2>2, <2>3, <2>4, <2>5, <2>6 DEF HandlerStep
  <1>8. CASE Beside \/ UNCHANGED allVars
    BY <1>2, <1>3, <1>8, BesideKeeps
  <1>9. CASE Die
    BY <1>2, <1>9, DieKeeps
  <1> QED
    BY <1>4, <1>5, <1>6, <1>7, <1>8, <1>9 DEF ServiceNext

(* SvcInv holds whatever clients send, however often they give up, and     *)
(* whenever the server dies.                                               *)
THEOREM ServiceInductive == ServiceSpec => []SvcInv
  BY ServiceInitSvcInv, ServiceNextSvcInv, PTL DEF ServiceSpec

(* ServiceTypeOK: in every state of handleQuery, the client and the store  *)
(* under them, a handler works on a request that some client sent, and no  *)
(* client numbers more requests than were sent.                            *)
THEOREM ServiceTypeCorrect == ServiceSpec => []ServiceTypeOK
  <1>1. SvcInv => ServiceTypeOK
    BY DEF SvcInv
  <1> QED
    BY <1>1, ServiceInductive, PTL

(* Requests use the store as EventStore's writers do: Spec of EventStore,  *)
(* and with it every theorem about the store, holds under the HTTP server. *)
THEOREM ServiceUsesStore == ServiceSpec => Spec
  <1>1. ServiceInit => Init
    BY DEF ServiceInit
  <1>2. SvcInv /\ [ServiceNext]_allVars => [Next]_vars
    BY StoreStep DEF SvcInv
  <1> QED
    BY <1>1, <1>2, ServiceInductive, PTL DEF ServiceSpec, Spec

(* BatchPrefix: handleQuery's loop, each statement in a transaction of its *)
(* own, leaves the first writes of a batch in the log, in order and once   *)
(* each, whatever fails, times out or dies.                                *)
THEOREM RequestsCommitPrefixes == ServiceSpec => []BatchPrefix
  <1>1. SvcInv => BatchPrefix
    BY DEF SvcInv, OriginInv
  <1> QED
    BY <1>1, ServiceInductive, PTL

LEMMA SvcInvTellsTruth == SvcInv => AnswersTellTruth
  <1> SUFFICES ASSUME SvcInv, NEW a \in answers
               PROVE  AnswersTellTruth!(a)
    BY DEF AnswersTellTruth
  <1>1. PICK s \in sent : s.id = a.id
    BY SentIds
  <1> DEFINE b == BatchOf(a.id)
             Rows(R) == {[seq |-> R[i].seq, id |-> a.id, pos |-> i] :
                             i \in WritesOf(b) \cap DOMAIN R}
  <1>2. b = s.batch
    BY <1>1, BatchOfSent DEF SvcInv
  <1>3. /\ Committed(a.id) = RowsOf(s, a.resp.results)
        /\ ~a.resp.error => Len(a.resp.results) = Len(s.batch)
    BY <1>1 DEF SvcInv, AnswerInv
  <1>4. \A R : Rows(R) = RowsOf(s, R)
    BY <1>1, <1>2 DEF RowsOf
  <1>5. Rows(<<>>) = {}
    OBVIOUS
  <1> HIDE DEF Rows, b
  <1>6. ASSUME NEW view \in Views(b, a.resp)
        PROVE  /\ Rows(view.results) \subseteq Committed(a.id)
               /\ view.ok => /\ Len(view.results) = Len(b)
                             /\ Rows(view.results) = Committed(a.id)
    <2>1. \/ view.ok = (~a.resp.error) /\ view.results = a.resp.results
          \/ view.ok = FALSE /\ view.results = <<>>
      BY DEF Views, Query, TqlQuery, One, Failure
    <2>2. CASE view.ok = (~a.resp.error) /\ view.results = a.resp.results
      BY <1>2, <1>3, <1>4, <2>2
    <2>3. CASE view.ok = FALSE /\ view.results = <<>>
      BY <1>5, <2>3
    <2> QED
      BY <2>1, <2>2, <2>3
  <1>7. Rows(Query(a.resp).results) = Committed(a.id)
    BY <1>3, <1>4 DEF Query
  <1> QED
    BY <1>6, <1>7 DEF Rows, b

(* AnswersTellTruth: whatever a caller of Query, of the typed calls or of  *)
(* tql_query has in hand is what its statements committed, and a call that *)
(* reports no error has all of it.                                         *)
THEOREM AnswersAreTrue == ServiceSpec => []AnswersTellTruth
  BY SvcInvTellsTruth, ServiceInductive, PTL

LEMMA SvcInvReadsOwnWrites == SvcInv => ReadYourWrites
  <1> SUFFICES ASSUME SvcInv, NEW a \in answers, NEW z \in answers,
                      a.id[1] = z.id[1], a.id[2] <= z.id[2],
                      NEW i \in WritesOf(BatchOf(a.id)) \cap DOMAIN a.resp.results,
                      NEW j \in DOMAIN z.resp.results,
                      a.id = z.id => i < j,
                      BatchOf(a.id)[i].req.op = OpPut,
                      BatchOf(z.id)[j].kind = "read",
                      BatchOf(z.id)[j].doc = Doc(BatchOf(a.id)[i].req)
               PROVE  Seen(a.resp.results[i].seq, BatchOf(z.id)[j].doc,
                           z.resp.results[j].seq)
    BY DEF ReadYourWrites, Seen
  <1>1. PICK s \in sent : s.id = a.id
    BY SentIds
  <1>2. PICK t \in sent : t.id = z.id
    BY SentIds
  <1>3. BatchOf(a.id) = s.batch /\ BatchOf(z.id) = t.batch
    BY <1>1, <1>2, BatchOfSent DEF SvcInv
  <1> DEFINE o == [seq |-> a.resp.results[i].seq, id |-> s.id, pos |-> i]
  <1>4. o \in origin
    <2>1. o \in RowsOf(s, a.resp.results)
      BY <1>3 DEF RowsOf
    <2>2. Committed(s.id) = RowsOf(s, a.resp.results)
      BY <1>1 DEF SvcInv, AnswerInv
    <2> QED
      BY <2>1, <2>2 DEF Committed
  <1>5. o.seq = a.resp.results[i].seq /\ o.id = s.id /\ o.pos = i
    OBVIOUS
  <1> HIDE DEF o
  <1>6. \/ o.id = t.id /\ o.pos < j
        \/ /\ o.id[1] = t.id[1] /\ o.id[2] < t.id[2]
           /\ \E c \in answers : c.id = o.id
    <2>1. /\ a.id = <<a.id[1], a.id[2]>> /\ a.id[2] \in Nat
          /\ z.id = <<z.id[1], z.id[2]>> /\ z.id[2] \in Nat
      BY <1>1, <1>2, SentIds, IdFacts
    <2>2. CASE a.id[2] = z.id[2]
      BY <1>1, <1>2, <1>5, <2>1, <2>2
    <2>3. CASE a.id[2] < z.id[2]
      BY <1>1, <1>2, <1>5, <2>3
    <2> QED
      BY <2>1, <2>2, <2>3
  <1>7. OwnReads(t, z.resp.results)
    BY <1>2 DEF SvcInv, ReadInv
  <1> QED
    BY <1>3, <1>4, <1>5, <1>6, <1>7 DEF OwnReads

(* ReadYourWrites: handlers run in any order and the live table is read    *)
(* without the mutex, yet a caller that was told of its put sees it, or a  *)
(* newer row, or a delete since, in every later read.                      *)
THEOREM CallersReadTheirWrites == ServiceSpec => []ReadYourWrites
  BY SvcInvReadsOwnWrites, ServiceInductive, PTL
=============================================================================
