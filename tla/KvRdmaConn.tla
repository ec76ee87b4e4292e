----------------------------- MODULE KvRdmaConn -----------------------------
(***************************************************************************)
(* The life of the connections of kv_rdma.c: connect, accept, establish,   *)
(* disconnect, as handled by the connection manager's poller of each       *)
(* process (rdma_cm_poller), while requests of these connections are on    *)
(* their way and their completions wait in a queue or in the array of a    *)
(* thread.  The data path is here only as far as it touches a connection;  *)
(* KvRdmaRpc has the rest of it.                                           *)
(*                                                                         *)
(* A connection manager's event is taken when it is handled: what the      *)
(* fabric may deliver follows from the state of the two sides.             *)
(***************************************************************************)
EXTENDS Naturals, Sequences, FiniteSets

CONSTANTS
  Conns,      \* calls of kv_rdma_connect, each with one object on each side
  Slots,      \* server_req_ctx array
  QpNums,     \* queue pair numbers of the server's adapter, reused
  CThreads,   \* client threads with a completion poller
  SThreads,   \* server threads with a completion poller
  ClientCm,   \* the client thread that runs rdma_cm_poller
  ServerCm,   \* the server thread that runs rdma_cm_poller
  MaxReq,     \* bound: outstanding requests of a connection
  Quiet,      \* TRUE: the client disconnects with no request outstanding
  Deferred,   \* TRUE: the handler leaves kv_rdma_make_resp to somebody else
  Purge,      \* TRUE: rdma_destroy_qp removes the queue pair's completions
  None

ASSUME ConnAssumption ==
  /\ ClientCm \in CThreads /\ ServerCm \in SThreads
  /\ MaxReq \in Nat
  /\ Quiet \in BOOLEAN /\ Deferred \in BOOLEAN /\ Purge \in BOOLEAN
  /\ None \notin Conns \cup Slots \cup QpNums

VARIABLES
  \* client process
  cst,       \* cst[c]: state of the client's rdma_connection
  pend,      \* pend[c]: requests whose callback has not run
  ccq,       \* the client's completion queue
  cwc,       \* cwc[t]: completions t has polled and not processed
  cput,      \* cput[t]: connection whose callback t has called and whose
             \* context it is about to put back, or None
  cloop,     \* client threads inside the loop of rdma_cq_poller
  \* client queue pairs and the wire
  qpErr,     \* connections whose client queue pair is in error
  rqPosted,  \* rqPosted[c]: receives posted and not consumed
  reqs,      \* reqs[c]: requests sent and not at the server
  resps,     \* resps[c]: slots whose response is on its way
  wacks,     \* wacks[c]: slots whose response has arrived unacknowledged
  \* server process
  sst,       \* sst[c]: state of the server's rdma_connection
  table,     \* self->connections
  qpn,       \* qpn[c]: number of the server's queue pair
  dying,     \* connection on_disconnect has removed and not yet freed
  srq,       \* slots posted to the shared receive queue
  reqConn,   \* reqConn[s]: server_req_ctx.conn
  from,      \* from[s]: connection whose request is in the slot's buffer
  found,     \* found[t]: slot whose handler on_recv_req is about to call
  handling,  \* slots whose handler has returned without a response
  scq,       \* the server's completion queue
  swc,       \* swc[t]: completions t has polled and not processed
  sloop,     \* server threads inside the loop of rdma_cq_poller
  fault      \* how a process died, "none" while both run

clientVars == <<cst, pend, cwc, cput, cloop>>
qpVars     == <<qpErr, rqPosted, reqs>>
respVars   == <<resps, wacks>>
connVars   == <<sst, table, qpn, dying>>
slotVars   == <<reqConn, from, found, handling, swc, sloop>>
clientSide == <<clientVars, ccq, qpVars>>
serverVars == <<connVars, srq, slotVars, scq>>
vars       == <<clientSide, respVars, serverVars, fault>>

ClientStates == {"none", "resolve", "route", "connect", "up", "closing",
                 "closed", "failed", "stuck"}
ClientCqe == [conn : Conns, recv : BOOLEAN, ok : BOOLEAN]
ServerCqe == [op : {"recv", "write", "error"}, conn : Conns, slot : Slots]

(* Every variable holds a value of its kind.                               *)
TypeOK ==
  /\ cst      \in [Conns -> ClientStates]
  /\ pend     \in [Conns -> 0..MaxReq]
  /\ ccq      \in Seq(ClientCqe)
  /\ cwc      \in [CThreads -> Seq(ClientCqe)]
  /\ cput     \in [CThreads -> Conns \cup {None}]
  /\ cloop    \in SUBSET CThreads
  /\ qpErr    \in SUBSET Conns
  /\ rqPosted \in [Conns -> Nat]
  /\ reqs     \in [Conns -> Nat]
  /\ resps    \in [Conns -> Seq(Slots)]
  /\ wacks    \in [Conns -> Seq(Slots)]
  /\ sst      \in [Conns -> {"none", "live", "freed"}]
  /\ table    \in SUBSET Conns
  /\ qpn      \in [Conns -> QpNums \cup {None}]
  /\ dying    \in Conns \cup {None}
  /\ srq      \in SUBSET Slots
  /\ reqConn  \in [Slots -> Conns \cup {None}]
  /\ from     \in [Slots -> Conns \cup {None}]
  /\ found    \in [SThreads -> Slots \cup {None}]
  /\ handling \in SUBSET Slots
  /\ scq      \in Seq(ServerCqe)
  /\ swc      \in [SThreads -> Seq(ServerCqe)]
  /\ sloop    \in SUBSET SThreads
  /\ fault    \in {"none", "assert_conn", "assert_imm", "assert_server",
                   "bad_opcode", "client_uaf", "server_uaf"}

(* The server listens; nothing is connected and no slot is posted.         *)
Init ==
  /\ cst      = [c \in Conns |-> "none"]
  /\ pend     = [c \in Conns |-> 0]
  /\ ccq      = <<>>
  /\ cwc      = [t \in CThreads |-> <<>>]
  /\ cput     = [t \in CThreads |-> None]
  /\ cloop    = {}
  /\ qpErr    = {}
  /\ rqPosted = [c \in Conns |-> 0]
  /\ reqs     = [c \in Conns |-> 0]
  /\ resps    = [c \in Conns |-> <<>>]
  /\ wacks    = [c \in Conns |-> <<>>]
  /\ sst      = [c \in Conns |-> "none"]
  /\ table    = {}
  /\ qpn      = [c \in Conns |-> None]
  /\ dying    = None
  /\ srq      = {}
  /\ reqConn  = [s \in Slots |-> None]
  /\ from     = [s \in Slots |-> None]
  /\ found    = [t \in SThreads |-> None]
  /\ handling = {}
  /\ scq      = <<>>
  /\ swc      = [t \in SThreads |-> <<>>]
  /\ sloop    = {}
  /\ fault    = "none"

-----------------------------------------------------------------------------
(* Client: the application.  A thread calls the library between two runs   *)
(* of its pollers or from a callback.  A run of rdma_cq_poller ends only   *)
(* when it finds the completion queue empty.                               *)

ArrayDone(t)  == cwc[t] = <<>> /\ cput[t] = None
ClientIdle(t) == ArrayDone(t) /\ t \notin cloop
MayCall(t)    == ClientIdle(t) \/ cput[t] # None

(* A queue pair that goes into error flushes what is posted to it: one     *)
(* completion with an error for each receive and each unsent request.      *)
Flushed(c, r, n) == [i \in 1..r + n |-> [conn |-> c, recv |-> i <= r, ok |-> FALSE]]

QpError(c) ==
  /\ qpErr'    = qpErr \cup {c}
  /\ ccq'      = ccq \o Flushed(c, rqPosted[c], reqs[c])
  /\ rqPosted' = [rqPosted EXCEPT ![c] = 0]
  /\ reqs'     = [reqs EXCEPT ![c] = 0]

(* kv_rdma_connect.                                                        *)
Connect(t, c) ==
  /\ MayCall(t) /\ cst[c] = "none"
  /\ cst' = [cst EXCEPT ![c] = "resolve"]
  /\ UNCHANGED <<pend, cwc, cput, cloop, ccq, qpVars, respVars, serverVars, fault>>

(* kv_rdma_send_req with the handle the connect callback was given: a      *)
(* receive and a send.  A queue pair in error takes both and flushes them. *)
SendReq(t, c) ==
  /\ MayCall(t) /\ cst[c] = "up" /\ pend[c] < MaxReq
  /\ pend' = [pend EXCEPT ![c] = @ + 1]
  /\ IF c \in qpErr
     THEN /\ ccq' = ccq \o Flushed(c, 1, 1)
          /\ UNCHANGED <<rqPosted, reqs>>
     ELSE /\ rqPosted' = [rqPosted EXCEPT ![c] = @ + 1]
          /\ reqs'     = [reqs EXCEPT ![c] = @ + 1]
          /\ UNCHANGED ccq
  /\ UNCHANGED <<cst, cwc, cput, cloop, qpErr, respVars, serverVars, fault>>

(* kv_rdma_disconnect: rdma_disconnect puts the queue pair in error.       *)
Disconnect(t, c) ==
  /\ MayCall(t) /\ cst[c] = "up" /\ (Quiet => pend[c] = 0)
  /\ cst' = [cst EXCEPT ![c] = "closing"]
  /\ QpError(c)
  /\ UNCHANGED <<pend, cwc, cput, cloop, respVars, serverVars, fault>>

-----------------------------------------------------------------------------
(* Client: rdma_cm_poller.                                                 *)

ClientEvent(c, old, new) ==
  /\ ClientIdle(ClientCm)
  /\ cst[c] = old
  /\ cst' = [cst EXCEPT ![c] = new]
  /\ UNCHANGED <<pend, cwc, cput, cloop, qpVars, respVars, serverVars, fault>>

OnAddrResolved(c)  == ClientEvent(c, "resolve", "route") /\ UNCHANGED ccq
OnRouteResolved(c) == ClientEvent(c, "route", "connect") /\ UNCHANGED ccq

(* on_connect_error: the callback is called with NULL and the connection   *)
(* is freed; its pool, queue pair and identifier are not.                  *)
OnConnectError(c) == ClientEvent(c, "connect", "failed") /\ UNCHANGED ccq

(* The default case: an error event that is only acknowledged.             *)
OnOtherEvent(c) ==
  /\ \E old \in {"resolve", "route", "connect"} : ClientEvent(c, old, "stuck")
  /\ UNCHANGED ccq

(* on_established: the server has accepted; the callback gets the handle.  *)
OnEstablished(c) ==
  /\ sst[c] # "none"
  /\ ClientEvent(c, "connect", "up")
  /\ UNCHANGED ccq

(* The completions of the other connections stay, in their order.          *)
PurgeCq(cq, c) ==
  LET kept   == {i \in DOMAIN cq : cq[i].conn # c}
      nth(n) == CHOOSE i \in kept : Cardinality({j \in kept : j <= i}) = n
  IN  IF Purge THEN [n \in 1..Cardinality(kept) |-> cq[nth(n)]] ELSE cq

(* Mutant: no case for the event.                                          *)
OnDisconnectedIgnored(c) ==
  /\ ClientIdle(ClientCm) /\ cst[c] = "closing"
  /\ UNCHANGED vars

(* on_disconnect at the client: pool, queue pair and connection are freed, *)
(* the disconnect callback is called.                                      *)
OnDisconnected(c) ==
  /\ ClientEvent(c, "closing", "closed")
  /\ ccq' = PurgeCq(ccq, c)

-----------------------------------------------------------------------------
(* Client: rdma_cq_poller.                                                 *)

ClientPoll(t) ==
  /\ ArrayDone(t) /\ ccq # <<>>
  /\ cwc'   = [cwc EXCEPT ![t] = ccq]
  /\ ccq'   = <<>>
  /\ cloop' = cloop \cup {t}
  /\ UNCHANGED <<cst, pend, cput, qpVars, respVars, serverVars, fault>>

(* ibv_poll_cq returns zero: back to the reactor.                          *)
ClientPollEmpty(t) ==
  /\ t \in cloop /\ ArrayDone(t) /\ ccq = <<>>
  /\ cloop' = cloop \ {t}
  /\ UNCHANGED <<cst, pend, cwc, cput, ccq, qpVars, respVars, serverVars, fault>>

AtClientCqe(t, ok) ==
  cput[t] = None /\ cwc[t] # <<>> /\ Head(cwc[t]).ok = ok

(* Mutant: the completion is processed again after its callback.           *)
OnRecvRespAgain(t) ==
  /\ AtClientCqe(t, TRUE)
  /\ LET c == Head(cwc[t]).conn IN
       /\ pend' = [pend EXCEPT ![c] = @ - 1]
       /\ cput' = [cput EXCEPT ![t] = c]
  /\ UNCHANGED <<cst, cwc, cloop, ccq, qpVars, respVars, serverVars, fault>>

(* on_recv_resp up to the callback: reads the connection's pool and the    *)
(* context in it.                                                          *)
OnRecvResp(t) ==
  /\ AtClientCqe(t, TRUE)
  /\ LET c == Head(cwc[t]).conn IN
     \/ /\ cst[c] = "closed"
        /\ fault' = "client_uaf"
        /\ UNCHANGED <<pend, cput, cwc>>
     \/ /\ cst[c] # "closed"
        /\ pend' = [pend EXCEPT ![c] = @ - 1]
        /\ cput' = [cput EXCEPT ![t] = c]
        /\ cwc'  = [cwc EXCEPT ![t] = Tail(@)]
        /\ UNCHANGED fault
  /\ UNCHANGED <<cst, cloop, ccq, qpVars, respVars, serverVars>>

(* The callback returns and the context goes back to the pool.             *)
MempoolPut(t) ==
  /\ cput[t] # None
  /\ fault' = IF cst[cput[t]] = "closed" THEN "client_uaf" ELSE fault
  /\ cput'  = [cput EXCEPT ![t] = None]
  /\ UNCHANGED <<cst, pend, cwc, cloop, ccq, qpVars, respVars, serverVars>>

(* A completion with an error has neither opcode nor immediate data: the   *)
(* dispatch may take it for a send or an unknown event and drop it, for a  *)
(* response that lacks its immediate data ("assert_imm"), for one of the   *)
(* server's completions or for a response with some old data that names no *)
(* context whose answer is still to come (both "bad_opcode") ...           *)
OnClientError(t) ==
  /\ AtClientCqe(t, FALSE)
  /\ cwc' = [cwc EXCEPT ![t] = Tail(@)]
  /\ fault' \in {"none", "assert_imm", "bad_opcode"}
  /\ UNCHANGED <<cst, pend, cput, cloop, ccq, qpVars, respVars, serverVars>>

(* The successful completions of a connection no thread has processed yet. *)
Successes(cq, c) == {i \in DOMAIN cq : cq[i].conn = c /\ cq[i].ok}

Unprocessed(c) ==
  {<<<<"ccq", None>>, i>> : i \in Successes(ccq, c)}
  \cup UNION {{<<<<"cwc", t>>, i>> : i \in Successes(cwc[t], c)} : t \in CThreads}

(* ... or a flushed receive, whose wr_id is the connection, for what it is *)
(* if the old data names the context of a flushed request: on_recv_resp    *)
(* calls back without success, whether or not the server has handled the   *)
(* request, and the context goes back.                                     *)
OnRecvRespFailed(t) ==
  /\ AtClientCqe(t, FALSE)
  /\ Head(cwc[t]).recv
  /\ LET c == Head(cwc[t]).conn IN
       /\ cst[c] # "closed"
       /\ Cardinality(Unprocessed(c)) + rqPosted[c] < pend[c]
       /\ pend' = [pend EXCEPT ![c] = @ - 1]
       /\ cput' = [cput EXCEPT ![t] = c]
  /\ cwc' = [cwc EXCEPT ![t] = Tail(@)]
  /\ UNCHANGED <<cst, cloop, ccq, qpVars, respVars, serverVars, fault>>
-----------------------------------------------------------------------------
(* The fabric (external).                                                  *)

(* An acknowledgement is not overtaken by a later request of its sender.   *)
DeliverReq(c) ==
  /\ c \notin qpErr /\ reqs[c] > 0 /\ sst[c] = "live" /\ wacks[c] = <<>>
  /\ \E s \in srq :
       /\ srq'  = srq \ {s}
       /\ from' = [from EXCEPT ![s] = c]
       /\ scq'  = Append(scq, [op |-> "recv", conn |-> c, slot |-> s])
  /\ reqs' = [reqs EXCEPT ![c] = @ - 1]
  /\ UNCHANGED <<clientVars, ccq, qpErr, rqPosted, respVars, connVars, reqConn,
                 found, handling, swc, sloop, fault>>

(* A request that finds no slot: rnr_retry_count is zero.                  *)
RnrNak(c) ==
  /\ c \notin qpErr /\ reqs[c] > 0 /\ sst[c] = "live" /\ wacks[c] = <<>>
  /\ srq = {}
  /\ QpError(c)
  /\ UNCHANGED <<clientVars, respVars, serverVars, fault>>

DeliverResp(c) ==
  /\ c \notin qpErr /\ resps[c] # <<>> /\ rqPosted[c] > 0
  /\ rqPosted' = [rqPosted EXCEPT ![c] = @ - 1]
  /\ resps'    = [resps EXCEPT ![c] = Tail(@)]
  /\ wacks'    = [wacks EXCEPT ![c] = Append(@, Head(resps[c]))]
  /\ ccq'      = Append(ccq, [conn |-> c, recv |-> TRUE, ok |-> TRUE])
  /\ UNCHANGED <<clientVars, qpErr, reqs, serverVars, fault>>

AckWrite(c) ==
  /\ wacks[c] # <<>>
  /\ wacks' = [wacks EXCEPT ![c] = Tail(@)]
  /\ scq'   = Append(scq, [op |-> "write", conn |-> c,
                           slot |-> Head(wacks[c])])
  /\ UNCHANGED <<clientSide, resps, connVars, srq, slotVars, fault>>

(* A response for a client whose queue pair is in error or gone.           *)
WriteError(c) ==
  /\ c \in qpErr /\ resps[c] # <<>>
  /\ resps' = [resps EXCEPT ![c] = Tail(@)]
  /\ scq'   = Append(scq, [op |-> "error", conn |-> c,
                           slot |-> Head(resps[c])])
  /\ UNCHANGED <<clientSide, wacks, connVars, srq, slotVars, fault>>

-----------------------------------------------------------------------------
(* Server: rdma_cm_poller.                                                 *)

SArrayDone(t) == swc[t] = <<>> /\ found[t] = None
ServerIdle(t) == SArrayDone(t) /\ t \notin sloop /\ (t = ServerCm => dying = None)

(* Mutant: the connection is not added to the table.                       *)
OnConnectRequestNoAdd(c) ==
  /\ ServerIdle(ServerCm) /\ cst[c] = "connect" /\ sst[c] = "none"
  /\ \E q \in QpNums \ {qpn[d] : d \in {e \in Conns : sst[e] = "live"}} :
       qpn' = [qpn EXCEPT ![c] = q]
  /\ sst' = [sst EXCEPT ![c] = "live"]
  /\ srq' = IF \A d \in Conns : sst[d] = "none" THEN Slots ELSE srq
  /\ UNCHANGED <<clientSide, respVars, table, dying, slotVars, scq, fault>>

(* on_connect_request with create_connetion: the first one posts every     *)
(* slot (server_data_init); the connection is in the table before it is    *)
(* accepted.                                                               *)
OnConnectRequest(c) ==
  /\ ServerIdle(ServerCm) /\ cst[c] = "connect" /\ sst[c] = "none"
  /\ \E q \in QpNums \ {qpn[d] : d \in {e \in Conns : sst[e] = "live"}} :
       qpn' = [qpn EXCEPT ![c] = q]
  /\ sst'   = [sst EXCEPT ![c] = "live"]
  /\ table' = table \cup {c}
  /\ srq'   = IF \A d \in Conns : sst[d] = "none" THEN Slots ELSE srq
  /\ UNCHANGED <<clientSide, respVars, dying, slotVars, scq, fault>>

(* Mutant: the connection stays in the table.                              *)
HashDeleteNot(c) ==
  /\ ServerIdle(ServerCm)
  /\ cst[c] \in {"closing", "closed"} /\ sst[c] = "live"
  /\ dying' = c
  /\ UNCHANGED <<clientSide, respVars, sst, table, qpn, srq, slotVars, scq,
                 fault>>

(* on_disconnect at the server: the client has called rdma_disconnect.     *)
(* The connection leaves the table under the lock ...                      *)
HashDelete(c) ==
  /\ ServerIdle(ServerCm)
  /\ cst[c] \in {"closing", "closed"} /\ sst[c] = "live"
  /\ table' = table \ {c}
  /\ dying' = c
  /\ UNCHANGED <<clientSide, respVars, sst, qpn, srq, slotVars, scq, fault>>

(* ... then its queue pair is destroyed, with the responses it had not     *)
(* completed, and the connection freed.                                    *)
DestroyAndFree ==
  /\ dying # None
  /\ sst'   = [sst EXCEPT ![dying] = "freed"]
  /\ resps' = [resps EXCEPT ![dying] = <<>>]
  /\ wacks' = [wacks EXCEPT ![dying] = <<>>]
  /\ scq'   = PurgeCq(scq, dying)
  /\ dying' = None
  /\ UNCHANGED <<clientSide, table, qpn, srq, slotVars, fault>>

-----------------------------------------------------------------------------
(* Server: rdma_cq_poller and the handler.                                 *)

ServerPoll(t) ==
  /\ SArrayDone(t) /\ scq # <<>>
  /\ t = ServerCm => dying = None
  /\ swc'   = [swc EXCEPT ![t] = scq]
  /\ scq'   = <<>>
  /\ sloop' = sloop \cup {t}
  /\ UNCHANGED <<clientSide, respVars, connVars, srq, reqConn, from, found,
                 handling, fault>>

(* ibv_poll_cq returns zero: back to the reactor.                          *)
ServerPollEmpty(t) ==
  /\ t \in sloop /\ SArrayDone(t) /\ scq = <<>>
  /\ sloop' = sloop \ {t}
  /\ UNCHANGED <<clientSide, respVars, connVars, srq, reqConn, from, found,
                 handling, swc, scq, fault>>

AtServerCqe(t, op) ==
  found[t] = None /\ swc[t] # <<>> /\ Head(swc[t]).op = op

InTable(q) == {d \in table : qpn[d] = q}

(* on_recv_req looks the connection up by queue pair number under the read *)
(* lock and asserts that there is one ...                                  *)
FindConn(t) ==
  /\ AtServerCqe(t, "recv")
  /\ LET wc == Head(swc[t])
         s  == wc.slot IN
     \/ /\ InTable(qpn[wc.conn]) = {}
        /\ reqConn' = [reqConn EXCEPT ![s] = None]
        /\ fault'   = "assert_conn"
        /\ UNCHANGED found
     \/ /\ \E d \in InTable(qpn[wc.conn]) :
             reqConn' = [reqConn EXCEPT ![s] = d]
        /\ found' = [found EXCEPT ![t] = s]
        /\ UNCHANGED fault
  /\ swc' = [swc EXCEPT ![t] = Tail(@)]
  /\ UNCHANGED <<clientSide, respVars, connVars, srq, from, handling, sloop, scq>>

(* kv_rdma_make_resp for the request in slot s.                            *)
Respond(s) ==
  LET c == reqConn[s] IN
  \/ sst[c] = "freed" /\ fault' = "server_uaf" /\ UNCHANGED resps
  \/ /\ sst[c] # "freed"
     /\ resps' = [resps EXCEPT ![c] = Append(@, s)]
     /\ UNCHANGED fault

(* ... and calls the handler, a field of the connection, without the lock. *)
CallHandler(t) ==
  /\ found[t] # None
  /\ \/ /\ ~Deferred
        /\ Respond(found[t])
        /\ UNCHANGED handling
     \/ /\ Deferred
        /\ fault' = IF sst[reqConn[found[t]]] = "freed" THEN "server_uaf" ELSE fault
        /\ handling' = handling \cup {found[t]}
        /\ UNCHANGED resps
  /\ found' = [found EXCEPT ![t] = None]
  /\ UNCHANGED <<clientSide, wacks, connVars, srq, reqConn, from, swc, sloop, scq>>

MakeResp(s) ==
  /\ s \in handling
  /\ Respond(s)
  /\ handling' = handling \ {s}
  /\ UNCHANGED <<clientSide, wacks, connVars, srq, reqConn, from, found, swc,
                 sloop, scq>>

(* Reposting a slot reads the flag of its context's connection first.      *)
Repost(s) ==
  \/ sst[reqConn[s]] = "freed" /\ fault' = "assert_server" /\ UNCHANGED srq
  \/ sst[reqConn[s]] # "freed" /\ srq' = srq \cup {s} /\ UNCHANGED fault

(* Mutant: a failed or successful response leaves its slot unposted.       *)
OnWriteRespDoneDrops(t) ==
  /\ AtServerCqe(t, "write")
  /\ swc' = [swc EXCEPT ![t] = Tail(@)]
  /\ UNCHANGED <<clientSide, respVars, connVars, srq, reqConn, from, found,
                 handling, sloop, scq, fault>>

(* on_write_resp_done.                                                     *)
OnWriteRespDone(t) ==
  /\ AtServerCqe(t, "write")
  /\ Repost(Head(swc[t]).slot)
  /\ swc' = [swc EXCEPT ![t] = Tail(@)]
  /\ UNCHANGED <<clientSide, respVars, connVars, reqConn, from, found,
                 handling, sloop, scq>>

(* A write that failed, dispatched on an opcode that is not defined: both  *)
(* of the server's handlers repost the slot, on_recv_resp takes the slot   *)
(* for a connection, the others drop the completion.                       *)
OnServerError(t) ==
  /\ AtServerCqe(t, "error")
  /\ \/ Repost(Head(swc[t]).slot)
     \/ fault' \in {"none", "bad_opcode"} /\ UNCHANGED srq
  /\ swc' = [swc EXCEPT ![t] = Tail(@)]
  /\ UNCHANGED <<clientSide, respVars, connVars, reqConn, from, found,
                 handling, sloop, scq>>

-----------------------------------------------------------------------------

Application ==
  \E t \in CThreads, c \in Conns :
    Connect(t, c) \/ SendReq(t, c) \/ Disconnect(t, c)

ClientProgress(c) ==
  OnAddrResolved(c) \/ OnRouteResolved(c) \/ OnEstablished(c) \/ OnDisconnected(c)

ClientCmStep(c) == ClientProgress(c) \/ OnConnectError(c) \/ OnOtherEvent(c)

ClientStep(t) ==
  \/ ClientPoll(t) \/ ClientPollEmpty(t) \/ OnRecvResp(t) \/ MempoolPut(t)
  \/ OnClientError(t) \/ OnRecvRespFailed(t)

WireStep(c) ==
  DeliverReq(c) \/ RnrNak(c) \/ DeliverResp(c) \/ AckWrite(c) \/ WriteError(c)

ServerCmStep(c) == OnConnectRequest(c) \/ HashDelete(c)

ServerStep(t) ==
  \/ ServerPoll(t) \/ ServerPollEmpty(t) \/ FindConn(t) \/ CallHandler(t)
  \/ OnWriteRespDone(t) \/ OnServerError(t)

Next ==
  /\ fault = "none"
  /\ \/ Application
     \/ \E c \in Conns : ClientCmStep(c) \/ WireStep(c) \/ ServerCmStep(c)
     \/ \E t \in CThreads : ClientStep(t)
     \/ \E t \in SThreads : ServerStep(t)
     \/ \E s \in Slots : MakeResp(s)
     \/ DestroyAndFree

Safety == Init /\ [][Next]_vars

(* The reactors keep calling their pollers, the fabric delivers events and *)
(* messages.  The connection manager's poller has its turn between two     *)
(* runs of rdma_cq_poller on its thread, hence strong fairness for the     *)
(* events: one that finds the thread in its reactor again and again is     *)
(* handled.  The application is free, and no error has to happen.          *)
Fairness ==
  /\ \A c \in Conns :
       /\ SF_vars(fault = "none" /\ ClientProgress(c))
       /\ SF_vars(fault = "none" /\ ServerCmStep(c))
       /\ WF_vars(fault = "none" /\ WireStep(c))
  /\ \A t \in CThreads : WF_vars(fault = "none" /\ ClientStep(t))
  /\ \A t \in SThreads : WF_vars(fault = "none" /\ ServerStep(t))
  /\ \A s \in Slots : WF_vars(fault = "none" /\ MakeResp(s))
  /\ WF_vars(fault = "none" /\ DestroyAndFree)

Spec == Safety /\ Fairness

-----------------------------------------------------------------------------
(* Properties.                                                             *)

(* No assertion of the pollers fails and no freed connection or pool is    *)
(* touched: what the pollers have in their arrays, what the handler was    *)
(* given and what the table holds fit together while connections end.      *)
NoFault == fault = "none"

(* assert(ctx->conn) in on_recv_req: a received request finds its          *)
(* connection.                                                             *)
AssertConn == fault # "assert_conn"

(* assert(wc->wc_flags & IBV_WC_WITH_IMM) in on_recv_resp: what it takes   *)
(* for a response carries the immediate data that names the request.       *)
AssertImm == fault # "assert_imm"

(* A callback may disconnect its connection, as the one of the client      *)
(* example does: what the library still does for this request when the     *)
(* callback has returned finds the connection and its pool in place.       *)
CallbackMayDisconnect == fault # "client_uaf"

(* A request is handled and answered on the connection it came in on, also *)
(* when the number of an old queue pair names a new one.                   *)
RightConnection ==
  /\ \A s \in handling \cup ({found[t] : t \in SThreads} \ {None}) :
       reqConn[s] = from[s]
  /\ \A c \in Conns : \A i \in DOMAIN resps[c] : from[resps[c][i]] = c

CqeSlots(cq) == {cq[i].slot : i \in DOMAIN cq}

SlotsInUse ==
  srq \cup handling \cup CqeSlots(scq)
  \cup (UNION {CqeSlots(swc[t]) : t \in SThreads})
  \cup ({found[t] : t \in SThreads} \ {None})
  \cup UNION {{q[c][i] : i \in DOMAIN q[c]} : q \in {resps, wacks}, c \in Conns}

(* A slot that is nowhere any more was last used by a connection that has  *)
(* been freed or whose queue pair is in error: only the end of a           *)
(* connection takes slots away for good.                                   *)
SlotLostOnlyByDisconnect ==
  fault = "none" => \A s \in Slots \ SlotsInUse :
    \/ \A c \in Conns : sst[c] = "none"   \* no slot has been posted
    \/ from[s] # None /\ (from[s] \in qpErr \/ sst[from[s]] = "freed")

(* The table and the connections that can deliver completions agree, up to *)
(* the one on_disconnect is removing, and a number names one connection.   *)
TableMatchesQps ==
  /\ table = {c \in Conns : sst[c] = "live"} \ {dying}
  /\ \A c, d \in table : qpn[c] = qpn[d] => c = d

(* A connect and a disconnect are under way, and over: the connect is      *)
(* answered, or an event the poller ignores has ended it ("stuck"); of a   *)
(* disconnect the client's callback has run, and the server has forgotten  *)
(* the connection.                                                         *)
InTransit(c) == cst[c] \in {"resolve", "route", "connect", "closing"}

Settled(c) ==
  \/ cst[c] \in {"up", "failed", "stuck"}
  \/ cst[c] = "closed" /\ sst[c] = "freed"

(* Each connection manager's thread leaves the loop of rdma_cq_poller      *)
(* again and again.  This takes an empty completion queue, and connections *)
(* that go on sending may see to it that there is none.                    *)
PollersReturn == []<>(ClientCm \notin cloop) /\ []<>(ServerCm \notin sloop)

(* A connect, and a disconnect at whatever time, with requests outstanding *)
(* or not, comes to its end among the completions of all connections,      *)
(* unless the process dies of a completion with an error.                  *)
ConnectionsSettle ==
  PollersReturn => \A c \in Conns : InTransit(c) ~> Settled(c) \/ fault # "none"
=============================================================================
