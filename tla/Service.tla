------------------------------ MODULE Service -------------------------------
(***************************************************************************)
(* The way from a caller to the store: client.Query over HTTP, the         *)
(* server's handleQuery, Executor.Exec and event.Store, and back through   *)
(* the front ends (the Go client's typed calls, the MCP tools).  A request *)
(* is a batch of statements.  Its handler is one of EventStore's writers:  *)
(* it runs the statements in turn, each in a transaction of its own, and   *)
(* answers once.  The client waits 30 s at most, and neither its giving up *)
(* nor a broken connection stops a handler at once; the server may die.    *)
(*                                                                         *)
(* sent, answers and origin are history: what was asked, what the caller   *)
(* was told, and which statement committed which row.                      *)
(***************************************************************************)
EXTENDS EventStore, Sequences, FiniteSets

CONSTANTS
    Clients,       \* callers, one request at a time each
    Batches,       \* the texts they may send, as parsed
    MaxRequests    \* bound: requests of all clients

(* A statement as the executor tells them apart: one that appends, one     *)
(* that reads a document, and SEARCH without a vector index, which parses  *)
(* but does not run.                                                       *)
Write(r) == [kind |-> "write", req |-> r]
Read(d) == [kind |-> "read", doc |-> d]
Unconfigured == [kind |-> "search"]

Statements ==
    {Write(r) : r \in Requests} \cup {Read(d) : d \in Docs} \cup {Unconfigured}

(* A text that ParseBatch rejects, or that holds no statement. *)
Malformed == <<>>

ASSUME ServiceAssumption ==
    /\ Batches \subseteq Seq(Statements)
    /\ MaxRequests \in Nat

VARIABLES
    client,    \* each client: its requests so far, and is it waiting?
    net,       \* requests that no handler has taken yet
    handler,   \* handleQuery's locals in each writer
    sent,      \* history: [id, batch]
    answers,   \* history: [id, resp]
    origin     \* history: [seq, id, pos]

serviceVars == <<client, net, handler, sent, answers, origin>>
allVars == <<vars, serviceVars>>

Ids == Clients \X (1 .. MaxRequests)

(* queryResponse, its Error reduced to whether there is one.  A result     *)
(* stands for the row it is about, 0 for none; the row of a DELETE is not  *)
(* in its Result, which only says that the statement ran.                  *)
Response == [error : BOOLEAN, results : Seq([seq : Nat])]

NoId == <<>>
Free == [id |-> NoId, todo |-> <<>>, resp |-> [error |-> FALSE, results |-> <<>>]]

ServiceInit ==
    /\ Init
    /\ client = [c \in Clients |-> [n |-> 0, waiting |-> FALSE]]
    /\ net = {}
    /\ handler = [w \in Writers |-> Free]
    /\ sent = {}
    /\ answers = {}
    /\ origin = {}
-----------------------------------------------------------------------------
(* The caller *)

(* client.Query.  Nothing stops a caller from sending again what it got no *)
(* answer to.                                                              *)
Send(c, b) ==
    /\ ~client[c].waiting
    /\ Cardinality(sent) < MaxRequests
    /\ LET id == <<c, client[c].n + 1>>
       IN  /\ client' = [client EXCEPT ![c] = [n |-> id[2], waiting |-> TRUE]]
           /\ net' = net \cup {id}
           /\ sent' = sent \cup {[id |-> id, batch |-> b]}
    /\ UNCHANGED <<vars, handler, answers, origin>>

(* http.Client.Timeout, a cancelled context or a broken connection: Query  *)
(* returns an error that says nothing about the request.                   *)
Timeout(c) ==
    /\ client[c].waiting
    /\ client' = [client EXCEPT ![c].waiting = FALSE]
    /\ UNCHANGED <<vars, net, handler, sent, answers, origin>>
-----------------------------------------------------------------------------
(* The handler *)

BatchOf(id) == (CHOOSE s \in sent : s.id = id).batch

(* net/http starts a handler.  A text that does not parse as a whole, or   *)
(* an empty one, is answered at once: nothing of it runs.                  *)
Accept(w, id) ==
    /\ handler[w] = Free
    /\ id \in net
    /\ net' = net \ {id}
    /\ handler' = [handler EXCEPT ![w] =
           [id |-> id, todo |-> BatchOf(id),
            resp |-> [error |-> BatchOf(id) = Malformed, results |-> <<>>]]]
    /\ UNCHANGED <<vars, client, sent, answers, origin>>

(* The loop of handleQuery is at a statement of this kind. *)
At(w, kind) ==
    /\ pc[w] = "idle"
    /\ ~handler[w].resp.error
    /\ handler[w].todo # <<>>
    /\ Head(handler[w].todo).kind = kind

(* The statement returned a result: on to the next one. *)
Done(w, result) ==
    handler' = [handler EXCEPT ![w].todo = Tail(@),
                               ![w].resp.results = Append(@, result)]

(* Mutant: the loop goes on after an error. *)
StopNever(w) ==
    handler' = [handler EXCEPT ![w].todo = Tail(@),
                               ![w].resp.error = Len(handler[w].todo) = 1]

(* The statement returned an error: the rest of the batch is not run. *)
Stop(w) == handler' = [handler EXCEPT ![w].resp.error = TRUE]

(* execPut or execDelete enters Append. *)
ExecWrite(w) ==
    /\ At(w, "write")
    /\ Call(w, Head(handler[w].todo).req)
    /\ UNCHANGED serviceVars

LockStore(w) ==
    /\ Lock(w)
    /\ UNCHANGED serviceVars

(* Where the statement under way stands in its batch. *)
Position(w) == Len(BatchOf(handler[w].id)) - Len(handler[w].todo) + 1

CommitWrite(w) ==
    /\ Commit(w)
    /\ Done(w, [seq |-> NextSeq])
    /\ origin' = origin \cup
           {[seq |-> NextSeq, id |-> handler[w].id, pos |-> Position(w)]}
    /\ UNCHANGED <<client, net, sent, answers>>

(* Append failed, for a reason of its own or because net/http noticed that *)
(* the client is gone and cancelled the request's context.                 *)
FailWrite(w) ==
    /\ Fail(w)
    /\ Stop(w)
    /\ UNCHANGED <<client, net, sent, answers, origin>>

(* execGet: the live row, or seq 0 for no row. *)
ExecRead(w) ==
    /\ At(w, "read")
    /\ Done(w, [seq |-> HighWater(Get(live, Head(handler[w].todo).doc))])
    /\ UNCHANGED <<vars, client, net, sent, answers, origin>>

FailRead(w) ==
    /\ At(w, "read") \/ At(w, "search")
    /\ Stop(w)
    /\ UNCHANGED <<vars, client, net, sent, answers, origin>>

(* writeJSON; a caller that has given up never sees it. *)
Reply(w) ==
    /\ handler[w].id # NoId
    /\ handler[w].resp.error \/ handler[w].todo = <<>>
    /\ LET id == handler[w].id
           c == id[1]
           awaited == client[c] = [n |-> id[2], waiting |-> TRUE]
       IN  /\ client' = IF awaited THEN [client EXCEPT ![c].waiting = FALSE]
                        ELSE client
           /\ answers' = IF awaited
                         THEN answers \cup
                              {[id |-> id, resp |-> handler[w].resp]}
                         ELSE answers
    /\ handler' = [handler EXCEPT ![w] = Free]
    /\ UNCHANGED <<vars, net, sent, origin>>
-----------------------------------------------------------------------------
(* What a caller makes of the answer *)

(* client.Query returns results and error, and the CLI prints both. *)
Query(resp) == [ok |-> ~resp.error, results |-> resp.results]

Failure == [ok |-> FALSE, results |-> <<>>]

(* client.one, behind the typed calls and the MCP tools made of them: no   *)
(* error and exactly one result.                                           *)
One(resp) ==
    IF resp.error \/ Len(resp.results) # 1 THEN Failure ELSE Query(resp)

(* Mutant: the tool looks at the results only. *)
TqlQueryUnchecked(resp) == [ok |-> TRUE, results |-> resp.results]

(* The MCP tool tql_query: an error replaces the results. *)
TqlQuery(resp) == IF resp.error THEN Failure ELSE Query(resp)

(* A typed call sends one statement, the others any batch. *)
Views(b, resp) ==
    {Query(resp), TqlQuery(resp)} \cup IF Len(b) = 1 THEN {One(resp)} ELSE {}
-----------------------------------------------------------------------------
(* A PURGE and the clock go on beside the requests. *)
Beside ==
    /\ (\E c \in Collections, cutoff \in Cutoffs : ExecPurge(c, cutoff))
       \/ PassTime
    /\ UNCHANGED serviceVars

(* The server dies with its handlers and the requests it had not taken. *)
Die ==
    /\ Crash
    /\ net' = {}
    /\ handler' = [w \in Writers |-> Free]
    /\ UNCHANGED <<client, sent, answers, origin>>

HandlerStep(w) ==
    \/ ExecWrite(w) \/ LockStore(w) \/ CommitWrite(w) \/ FailWrite(w)
    \/ ExecRead(w) \/ FailRead(w)
    \/ Reply(w)

ServiceNext ==
    \/ \E c \in Clients, b \in Batches : Send(c, b)
    \/ \E c \in Clients : Timeout(c)
    \/ \E w \in Writers, id \in Ids : Accept(w, id)
    \/ \E w \in Writers : HandlerStep(w)
    \/ Beside
    \/ Die

ServiceSpec == ServiceInit /\ [][ServiceNext]_allVars

(* A handler that can go on does; the mutex is handed to a waiter. *)
HandlerFairness ==
    \A w \in Writers :
        /\ SF_allVars(LockStore(w))
        /\ WF_allVars(HandlerStep(w))

FairService == ServiceSpec /\ HandlerFairness
-----------------------------------------------------------------------------
ServiceTypeOK ==
    /\ TypeOK
    /\ client \in [Clients -> [n : 0 .. MaxRequests, waiting : BOOLEAN]]
    /\ net \subseteq Ids
    /\ handler \in [Writers -> [id : Ids \cup {NoId}, todo : Seq(Statements),
                                resp : Response]]
    /\ sent \subseteq [id : Ids, batch : Batches]
    /\ answers \subseteq [id : Ids, resp : Response]
    /\ origin \subseteq [seq : 1 .. MaxSeq, id : Ids, pos : Nat]

WritesOf(b) == {i \in DOMAIN b : b[i].kind = "write"}

Committed(id) == {o \in origin : o.id = id}

(* Whatever fails, times out or dies, what a request leaves in the log is  *)
(* its first writes up to some point, once each and in their order: never  *)
(* a later statement without an earlier one.                               *)
BatchPrefix ==
    \A s \in sent :
        LET C == Committed(s.id)
        IN  /\ \A o, p \in C : o.pos < p.pos <=> o.seq < p.seq
            /\ \A o \in C, i \in WritesOf(s.batch) :
                   i < o.pos => \E p \in C : p.pos = i

(* However it called, the results a caller has in hand are those of the    *)
(* first statements of its batch, each write among them being the row that *)
(* statement committed, and a caller that is told of no error has them     *)
(* all.  Query's results with an error are all that ever commits of the    *)
(* request; one and tql_query keep none, so there an error tells nothing.  *)
AnswersTellTruth ==
    \A a \in answers :
        LET b == BatchOf(a.id)
            Rows(R) == {[seq |-> R[i].seq, id |-> a.id, pos |-> i] :
                            i \in WritesOf(b) \cap DOMAIN R}
        IN  /\ \A view \in Views(b, a.resp) :
                   /\ Rows(view.results) \subseteq Committed(a.id)
                   /\ view.ok => /\ Len(view.results) = Len(b)
                                 /\ Rows(view.results) = Committed(a.id)
            /\ Rows(Query(a.resp).results) = Committed(a.id)

(* A caller reads its own writes: once it was told that it put a row, a    *)
(* later read of that document, in the same batch or in a later request,   *)
(* returns that row or a newer one, or nothing because somebody deleted    *)
(* the document since.                                                     *)
ReadYourWrites ==
    \A a, z \in answers :
        a.id[1] = z.id[1] /\ a.id[2] <= z.id[2] =>
            \A i \in WritesOf(BatchOf(a.id)) \cap DOMAIN a.resp.results,
               j \in DOMAIN z.resp.results :
                LET r == BatchOf(a.id)[i].req
                    q == BatchOf(z.id)[j]
                    wrote == a.resp.results[i].seq
                    read == z.resp.results[j].seq
                IN  /\ a.id = z.id => i < j
                    /\ r.op = OpPut
                    /\ q.kind = "read" /\ q.doc = Doc(r)
                    => \/ read >= wrote
                       \/ read = 0 /\ \E e \in committed :
                              Doc(e) = q.doc /\ e.op = OpDelete /\ e.seq > wrote

(* Every handler ends, and the next request can have its place: no error   *)
(* path of Append or of the loop leaves it waiting.                        *)
HandlersEnd ==
    \A w \in Writers : handler[w] # Free ~> handler[w] = Free
=============================================================================
