----------------------------- MODULE KvRdmaRpc -----------------------------
(***************************************************************************)
(* The data path of kv_rdma.c: requests sent with kv_rdma_send_req over    *)
(* established connections, handled by one server and answered with        *)
(* kv_rdma_make_resp, together with the completion pollers of both sides   *)
(* (rdma_cq_poller) and the request-context pool of kv_memory.c.           *)
(*                                                                         *)
(* The RDMA fabric is external: reliable connected queue pairs deliver in  *)
(* order and acknowledge later.  Connections do not come and go here, and  *)
(* the first that breaks ends the module: its queue pair then flushes what *)
(* was posted to it, and the pollers meet completions with an error, whose *)
(* opcode and immediate data are not defined.  These are in KvRdmaConn.    *)
(* Until then every completion is a successful one.                        *)
(***************************************************************************)
EXTENDS Naturals, Sequences, FiniteSets

CONSTANTS
  Conns,       \* connections of the client process to the server
  Mrs,         \* request/response buffer pairs the application owns
  Vals,        \* request payloads
  Ids,         \* elements of a connection's client_req_ctx pool (8191)
  Slots,       \* server_req_ctx array: con_req_num receive buffers
  CThreads,    \* client threads: each runs callbacks and one CQ poller
  SThreads,    \* server threads: each runs one CQ poller
  MaxQ,        \* MAX_Q_NUM, the depth of each send and receive queue
  PollBatch,   \* MAX_ENTRIES_PER_POLL
  AckInOrder,  \* TRUE: an acknowledgement overtakes no later message of
               \* the side that sends it, so its completion comes first
  None

ASSUME SizeAssumption ==
  /\ MaxQ \in Nat \ {0}
  /\ PollBatch \in Nat \ {0}
  /\ AckInOrder \in BOOLEAN

VARIABLES
  \* client process
  mp,        \* mp[c]: ids of the free elements of connection c's pool
  ctx,       \* ctx[c][i]: the buffer pair the element i was last used for
  reqHdr,    \* reqHdr[m]: the req_id written in front of the request
  reqBuf,    \* reqBuf[m]: the request payload
  respBuf,   \* respBuf[m]: the response buffer
  busy,      \* pairs handed to kv_rdma_send_req whose callback has not run
  call,      \* call[t]: the kv_rdma_send_req that t is executing, or None
  cbk,       \* cbk[t]: the context whose callback t is running, or None
  cwc,       \* cwc[t]: completions t has polled and not processed
  ccq,       \* the client's completion queue
  \* queue pairs and the wire
  rqPosted,  \* rqPosted[c]: client receives posted and not consumed
  sendQ,     \* sendQ[c]: requests posted and not yet at the server
  sendAck,   \* sendAck[c]: requests arrived whose ack is under way
  writeQ,    \* writeQ[c]: responses posted and not yet at the client
  writeAck,  \* writeAck[c]: responses arrived whose ack is under way
  \* server process
  srq,       \* slots posted to the shared receive queue
  srvBuf,    \* srvBuf[s]: what the last request left in the slot's buffer
  reqCtx,    \* reqCtx[s]: conn, resp_rkey and header of server_req_ctx
  handling,  \* slots handed to the handler, no kv_rdma_make_resp yet
  swc,       \* swc[t]: completions t has polled and not processed
  scq,       \* the server's completion queue
  fault      \* how a process died or a connection broke, else "none"

clientVars == <<mp, ctx, reqHdr, reqBuf, busy, call, cbk, cwc>>
wireVars   == <<sendQ, sendAck, writeQ, writeAck>>
serverVars == <<reqCtx, handling, swc>>
vars == <<clientVars, respBuf, ccq, rqPosted, wireVars, srq, srvBuf,
          serverVars, scq, fault>>

ClientCqe == [op : {"send"}, conn : Conns, id : {None}]
             \cup [op : {"recv"}, conn : Conns, id : Ids]
ServerCqe == [op : {"recv"}, conn : Conns, slot : Slots, imm : Mrs]
             \cup [op : {"write"}, conn : Conns, slot : Slots, imm : {None}]
Call      == [pc : {"post_recv", "post_send"}, conn : Conns, mr : Mrs, id : Ids]
Message   == [id : Ids, mr : Mrs, val : Vals]
ReqCtx    == [conn : Conns, rkey : Mrs, id : Ids, mr : Mrs]
Write     == [slot : Slots, id : Ids, mr : Mrs, rkey : Mrs]

(* "None" is a value of its own.                                           *)
ASSUME NoneAssumption ==
  None \notin Mrs \cup Vals \cup Ids \cup Slots \cup Conns
           \cup Call \cup Message \cup ReqCtx \cup [conn : Conns, id : Ids]

(* Every variable holds a value of its kind.                               *)
TypeOK ==
  /\ mp       \in [Conns -> SUBSET Ids]
  /\ ctx      \in [Conns -> [Ids -> Mrs \cup {None}]]
  /\ reqHdr   \in [Mrs -> Ids \cup {None}]
  /\ reqBuf   \in [Mrs -> Vals \cup {None}]
  /\ respBuf  \in [Mrs -> Vals \cup {None}]
  /\ busy     \in SUBSET Mrs
  /\ call     \in [CThreads -> Call \cup {None}]
  /\ cbk      \in [CThreads -> [conn : Conns, id : Ids] \cup {None}]
  /\ cwc      \in [CThreads -> Seq(ClientCqe)]
  /\ ccq      \in Seq(ClientCqe)
  /\ rqPosted \in [Conns -> Nat]
  /\ sendQ    \in [Conns -> Seq(Mrs)]
  /\ sendAck  \in [Conns -> Nat]
  /\ writeQ   \in [Conns -> Seq(Write)]
  /\ writeAck \in [Conns -> Seq(Write)]
  /\ srq      \in SUBSET Slots
  /\ srvBuf   \in [Slots -> Message \cup {None}]
  /\ reqCtx   \in [Slots -> ReqCtx \cup {None}]
  /\ handling \in SUBSET Slots
  /\ swc      \in [SThreads -> Seq(ServerCqe)]
  /\ scq      \in Seq(ServerCqe)
  /\ fault    \in {"none", "null_ctx", "bad_free", "server_exit", "conn_error"}

(* All connections are established: kv_mempool_create has put every        *)
(* element in the pool, server_data_init has posted every slot.            *)
Init ==
  /\ mp       = [c \in Conns |-> Ids]
  /\ ctx      = [c \in Conns |-> [i \in Ids |-> None]]
  /\ reqHdr   = [m \in Mrs |-> None]
  /\ reqBuf   = [m \in Mrs |-> None]
  /\ respBuf  = [m \in Mrs |-> None]
  /\ busy     = {}
  /\ call     = [t \in CThreads |-> None]
  /\ cbk      = [t \in CThreads |-> None]
  /\ cwc      = [t \in CThreads |-> <<>>]
  /\ ccq      = <<>>
  /\ rqPosted = [c \in Conns |-> 0]
  /\ sendQ    = [c \in Conns |-> <<>>]
  /\ sendAck  = [c \in Conns |-> 0]
  /\ writeQ   = [c \in Conns |-> <<>>]
  /\ writeAck = [c \in Conns |-> <<>>]
  /\ srq      = Slots
  /\ srvBuf   = [s \in Slots |-> None]
  /\ reqCtx   = [s \in Slots |-> None]
  /\ handling = {}
  /\ swc      = [t \in SThreads |-> <<>>]
  /\ scq      = <<>>
  /\ fault    = "none"

-----------------------------------------------------------------------------
(* Occupancy of the work queues: a work request keeps its entry until its  *)
(* completion is polled.                                                   *)

CqeCount(cq, op, c) ==
  Cardinality({i \in DOMAIN cq : cq[i].op = op /\ cq[i].conn = c})

RecvUsed(c)  == rqPosted[c] + CqeCount(ccq, "recv", c)
SendUsed(c)  == Len(sendQ[c]) + sendAck[c] + CqeCount(ccq, "send", c)
WriteUsed(c) == Len(writeQ[c]) + Len(writeAck[c]) + CqeCount(scq, "write", c)

(* ibv_poll_cq takes what is there, up to the size of the array.           *)
PollCount(cq) == IF Len(cq) < PollBatch THEN Len(cq) ELSE PollBatch
Polled(cq)    == SubSeq(cq, 1, PollCount(cq))
LeftInCq(cq)  == SubSeq(cq, PollCount(cq) + 1, Len(cq))

-----------------------------------------------------------------------------
(* Client: kv_rdma_send_req.  A thread calls it between two runs of its    *)
(* poller or from inside a callback the poller runs, and it runs to its    *)
(* end on that thread; the fabric and the other threads move meanwhile.    *)

MayCall(t) == call[t] = None /\ (cbk[t] # None \/ cwc[t] = <<>>)

(* Mutant: the header is left as the last use of the buffer wrote it.      *)
SendReqNoHeader(t, c, m, v) ==
  /\ MayCall(t) /\ m \notin busy
  /\ \E i \in mp[c] :
       /\ mp'   = [mp EXCEPT ![c] = @ \ {i}]
       /\ ctx'  = [ctx EXCEPT ![c][i] = m]
       /\ call' = [call EXCEPT ![t] = [pc |-> "post_recv", conn |-> c,
                                      mr |-> m, id |-> i]]
  /\ reqBuf' = [reqBuf EXCEPT ![m] = v]
  /\ busy'   = busy \cup {m}
  /\ UNCHANGED <<reqHdr, cbk, cwc, fault, respBuf, ccq, rqPosted, wireVars,
                 srq, srvBuf, serverVars, scq>>

(* kv_mempool_get, the context and the header.  The caller owns the pair:  *)
(* it is not outstanding.  An empty pool returns NULL, which is written    *)
(* through at once.                                                        *)
SendReq(t, c, m, v) ==
  /\ MayCall(t)
  /\ m \notin busy
  /\ \/ /\ mp[c] = {}
        /\ fault' = "null_ctx"
        /\ UNCHANGED clientVars
     \/ \E i \in mp[c] :
          /\ mp'     = [mp EXCEPT ![c] = @ \ {i}]
          /\ ctx'    = [ctx EXCEPT ![c][i] = m]
          /\ reqHdr' = [reqHdr EXCEPT ![m] = i]
          /\ reqBuf' = [reqBuf EXCEPT ![m] = v]
          /\ busy'   = busy \cup {m}
          /\ call'   = [call EXCEPT ![t] = [pc |-> "post_recv", conn |-> c,
                                            mr |-> m, id |-> i]]
          /\ UNCHANGED <<cbk, cwc, fault>>
  /\ UNCHANGED <<respBuf, ccq, rqPosted, wireVars, srq, srvBuf, serverVars, scq>>

(* The fail: label.  The callback gets the pair back, and kv_free is       *)
(* called on a pointer into the pool's buffer, which malloc did not        *)
(* return: the process dies.                                               *)
SendFail(t) ==
  /\ busy'  = busy \ {call[t].mr}
  /\ call'  = [call EXCEPT ![t] = None]
  /\ fault' = "bad_free"
  /\ UNCHANGED <<mp, ctx, reqHdr, reqBuf, cbk, cwc, respBuf, ccq, rqPosted,
                 wireVars, srq, srvBuf, serverVars, scq>>

Continue(k) == [pc |-> "post_send", conn |-> k.conn, mr |-> k.mr, id |-> k.id]

(* Mutant: no receive is posted.                                           *)
PostRecvNone(t) ==
  /\ call[t] # None /\ call[t].pc = "post_recv"
  /\ call' = [call EXCEPT ![t] = Continue(@)]
  /\ UNCHANGED <<mp, ctx, reqHdr, reqBuf, busy, cbk, cwc, respBuf, ccq,
                 rqPosted, wireVars, srq, srvBuf, serverVars, scq, fault>>

(* ibv_post_recv: the receive the response's immediate data will consume.  *)
PostRecv(t) ==
  /\ call[t] # None
  /\ call[t].pc = "post_recv"
  /\ LET c == call[t].conn IN
     \/ /\ RecvUsed(c) >= MaxQ
        /\ SendFail(t)
     \/ /\ RecvUsed(c) < MaxQ
        /\ rqPosted' = [rqPosted EXCEPT ![c] = @ + 1]
        /\ call'     = [call EXCEPT ![t] = Continue(@)]
        /\ UNCHANGED <<mp, ctx, reqHdr, reqBuf, busy, cbk, cwc, respBuf, ccq,
                       wireVars, srq, srvBuf, serverVars, scq, fault>>

(* Mutant: a full send queue makes the call return as if it had sent.      *)
PostSendUnchecked(t) ==
  /\ call[t] # None /\ call[t].pc = "post_send"
  /\ LET c == call[t].conn IN
       sendQ' = IF SendUsed(c) >= MaxQ THEN sendQ
                ELSE [sendQ EXCEPT ![c] = Append(@, call[t].mr)]
  /\ call' = [call EXCEPT ![t] = None]
  /\ UNCHANGED <<mp, ctx, reqHdr, reqBuf, busy, cbk, cwc, respBuf, ccq,
                 rqPosted, sendAck, writeQ, writeAck, srq, srvBuf, serverVars,
                 scq, fault>>

(* ibv_post_send: the buffer is read when the request goes out.            *)
PostSend(t) ==
  /\ call[t] # None
  /\ call[t].pc = "post_send"
  /\ LET c == call[t].conn IN
     \/ /\ SendUsed(c) >= MaxQ
        /\ SendFail(t)
     \/ /\ SendUsed(c) < MaxQ
        /\ sendQ' = [sendQ EXCEPT ![c] = Append(@, call[t].mr)]
        /\ call'  = [call EXCEPT ![t] = None]
        /\ UNCHANGED <<mp, ctx, reqHdr, reqBuf, busy, cbk, cwc, respBuf, ccq,
                       rqPosted, sendAck, writeQ, writeAck, srq, srvBuf,
                       serverVars, scq, fault>>

-----------------------------------------------------------------------------
(* Client: rdma_cq_poller.                                                 *)

ClientPoll(t) ==
  /\ call[t] = None /\ cbk[t] = None /\ cwc[t] = <<>>
  /\ ccq # <<>>
  /\ cwc' = [cwc EXCEPT ![t] = Polled(ccq)]
  /\ ccq' = LeftInCq(ccq)
  /\ UNCHANGED <<mp, ctx, reqHdr, reqBuf, busy, call, cbk, respBuf, rqPosted,
                 wireVars, srq, srvBuf, serverVars, scq, fault>>

(* The thread is at the top of the loop over its polled completions.       *)
AtClientCqe(t, op) ==
  /\ call[t] = None /\ cbk[t] = None /\ cwc[t] # <<>>
  /\ Head(cwc[t]).op = op

(* on_send_req: a successful send completion only frees its queue entry.   *)
OnSendReq(t) ==
  /\ AtClientCqe(t, "send")
  /\ cwc' = [cwc EXCEPT ![t] = Tail(@)]
  /\ UNCHANGED <<mp, ctx, reqHdr, reqBuf, busy, call, cbk, respBuf, ccq,
                 rqPosted, wireVars, srq, srvBuf, serverVars, scq, fault>>

(* on_recv_resp: the context is found by the immediate data, its callback  *)
(* is called, with success as the status is, and the application owns the  *)
(* pair again ...                                                          *)
OnRecvResp(t) ==
  /\ AtClientCqe(t, "recv")
  /\ LET wc == Head(cwc[t]) IN
       /\ busy' = busy \ {ctx[wc.conn][wc.id]}
       /\ cbk'  = [cbk EXCEPT ![t] = [conn |-> wc.conn, id |-> wc.id]]
  /\ cwc' = [cwc EXCEPT ![t] = Tail(@)]
  /\ UNCHANGED <<mp, ctx, reqHdr, reqBuf, call, respBuf, ccq, rqPosted,
                 wireVars, srq, srvBuf, serverVars, scq, fault>>

(* Mutant: the element is not put back.                                    *)
MempoolPutNever(t) ==
  /\ cbk[t] # None /\ call[t] = None
  /\ cbk' = [cbk EXCEPT ![t] = None]
  /\ UNCHANGED <<mp, ctx, reqHdr, reqBuf, busy, call, cwc, respBuf, ccq,
                 rqPosted, wireVars, srq, srvBuf, serverVars, scq, fault>>

(* Mutant: the poller returns after a callback, whatever it had polled.    *)
MempoolPutReturns(t) ==
  /\ cbk[t] # None /\ call[t] = None
  /\ mp'  = [mp EXCEPT ![cbk[t].conn] = @ \cup {cbk[t].id}]
  /\ cbk' = [cbk EXCEPT ![t] = None]
  /\ cwc' = [cwc EXCEPT ![t] = <<>>]
  /\ UNCHANGED <<ctx, reqHdr, reqBuf, busy, call, respBuf, ccq, rqPosted,
                 wireVars, srq, srvBuf, serverVars, scq, fault>>

(* ... and only when the callback returns does the element go back.        *)
MempoolPut(t) ==
  /\ cbk[t] # None
  /\ call[t] = None
  /\ mp'  = [mp EXCEPT ![cbk[t].conn] = @ \cup {cbk[t].id}]
  /\ cbk' = [cbk EXCEPT ![t] = None]
  /\ UNCHANGED <<ctx, reqHdr, reqBuf, busy, call, cwc, respBuf, ccq, rqPosted,
                 wireVars, srq, srvBuf, serverVars, scq, fault>>

-----------------------------------------------------------------------------
(* The fabric (external).                                                  *)

(* A request reaches the server: any receive of the shared queue takes     *)
(* header and payload as they are in the request buffer now.               *)
DeliverReq(c) ==
  /\ sendQ[c] # <<>>
  /\ AckInOrder => writeAck[c] = <<>>
  /\ LET m == Head(sendQ[c]) IN
     \E s \in srq :
       /\ srq'    = srq \ {s}
       /\ srvBuf' = [srvBuf EXCEPT ![s] = [id |-> reqHdr[m], mr |-> m,
                                           val |-> reqBuf[m]]]
       /\ scq'    = Append(scq, [op |-> "recv", conn |-> c, slot |-> s,
                                 imm |-> m])
  /\ sendQ'   = [sendQ EXCEPT ![c] = Tail(@)]
  /\ sendAck' = [sendAck EXCEPT ![c] = @ + 1]
  /\ UNCHANGED <<clientVars, respBuf, ccq, rqPosted, writeQ, writeAck,
                 serverVars, fault>>

(* on_route_resolved and on_connect_request leave rnr_retry_count at zero: *)
(* the first request that finds the shared receive queue empty puts the    *)
(* queue pair in error, which ends the module.  (So would a response that  *)
(* finds no receive; ResponseFindsRecv says that none does.)               *)
RnrNak(c) ==
  /\ sendQ[c] # <<>> /\ srq = {}
  /\ AckInOrder => writeAck[c] = <<>>
  /\ fault' = "conn_error"
  /\ UNCHANGED <<clientVars, respBuf, ccq, rqPosted, wireVars, srq, srvBuf,
                 serverVars, scq>>

AckReq(c) ==
  /\ sendAck[c] > 0
  /\ sendAck' = [sendAck EXCEPT ![c] = @ - 1]
  /\ ccq'     = Append(ccq, [op |-> "send", conn |-> c, id |-> None])
  /\ UNCHANGED <<clientVars, respBuf, rqPosted, sendQ, writeQ, writeAck, srq,
                 srvBuf, serverVars, scq, fault>>

(* A response reaches the client: written to the address and key the       *)
(* request carried, from the slot's buffer as it is now.                   *)
DeliverResp(c) ==
  /\ writeQ[c] # <<>> /\ rqPosted[c] > 0
  /\ AckInOrder => sendAck[c] = 0
  /\ LET w == Head(writeQ[c]) IN
       /\ respBuf'  = [respBuf EXCEPT ![w.mr] = srvBuf[w.slot].val]
       /\ ccq'      = Append(ccq, [op |-> "recv", conn |-> c, id |-> w.id])
       /\ writeAck' = [writeAck EXCEPT ![c] = Append(@, w)]
  /\ rqPosted' = [rqPosted EXCEPT ![c] = @ - 1]
  /\ writeQ'   = [writeQ EXCEPT ![c] = Tail(@)]
  /\ UNCHANGED <<clientVars, sendQ, sendAck, srq, srvBuf, serverVars,
                 scq, fault>>

AckWrite(c) ==
  /\ writeAck[c] # <<>>
  /\ writeAck' = [writeAck EXCEPT ![c] = Tail(@)]
  /\ scq'      = Append(scq, [op |-> "write", conn |-> c,
                              slot |-> Head(writeAck[c]).slot, imm |-> None])
  /\ UNCHANGED <<clientVars, respBuf, ccq, rqPosted, sendQ, sendAck, writeQ,
                 srq, srvBuf, serverVars, fault>>

-----------------------------------------------------------------------------
(* Server: rdma_cq_poller and the handler.                                 *)

ServerPoll(t) ==
  /\ swc[t] = <<>>
  /\ scq # <<>>
  /\ swc' = [swc EXCEPT ![t] = Polled(scq)]
  /\ scq' = LeftInCq(scq)
  /\ UNCHANGED <<clientVars, respBuf, ccq, rqPosted, wireVars, srq, srvBuf,
                 reqCtx, handling, fault>>

AtServerCqe(t, op) == swc[t] # <<>> /\ Head(swc[t]).op = op

(* Mutant: the header of the slot's first request is kept.                 *)
OnRecvReqStale(t) ==
  /\ AtServerCqe(t, "recv")
  /\ LET wc == Head(swc[t])
         msg == srvBuf[wc.slot] IN
       /\ reqCtx'   = [reqCtx EXCEPT ![wc.slot] =
                         IF @ = None
                         THEN [conn |-> wc.conn, rkey |-> wc.imm,
                               id |-> msg.id, mr |-> msg.mr]
                         ELSE [@ EXCEPT !.conn = wc.conn, !.rkey = wc.imm]]
       /\ handling' = handling \cup {wc.slot}
  /\ swc' = [swc EXCEPT ![t] = Tail(@)]
  /\ UNCHANGED <<clientVars, respBuf, ccq, rqPosted, wireVars, srq, srvBuf,
                 scq, fault>>

(* on_recv_req: connection by queue-pair number, key from the immediate    *)
(* data, header from the buffer, then the handler.                         *)
OnRecvReq(t) ==
  /\ AtServerCqe(t, "recv")
  /\ LET wc == Head(swc[t])
         msg == srvBuf[wc.slot] IN
       /\ reqCtx'   = [reqCtx EXCEPT ![wc.slot] =
                         [conn |-> wc.conn, rkey |-> wc.imm,
                          id |-> msg.id, mr |-> msg.mr]]
       /\ handling' = handling \cup {wc.slot}
  /\ swc' = [swc EXCEPT ![t] = Tail(@)]
  /\ UNCHANGED <<clientVars, respBuf, ccq, rqPosted, wireVars, srq, srvBuf,
                 scq, fault>>

(* Mutant: the slot is posted again as soon as the response is.            *)
MakeRespReposts(s) ==
  /\ s \in handling
  /\ LET r == reqCtx[s] IN
       writeQ' = [writeQ EXCEPT ![r.conn] =
                    Append(@, [slot |-> s, id |-> r.id, mr |-> r.mr,
                               rkey |-> r.rkey])]
  /\ handling' = handling \ {s}
  /\ srq'      = srq \cup {s}
  /\ UNCHANGED <<clientVars, respBuf, ccq, rqPosted, sendQ, sendAck, writeAck,
                 srvBuf, reqCtx, swc, scq, fault>>

(* kv_rdma_make_resp, by the handler itself or by whoever the handler      *)
(* passed the request to, with a response that lies in the slot's buffer.  *)
MakeResp(s) ==
  /\ s \in handling
  /\ LET r == reqCtx[s] IN
     \/ /\ WriteUsed(r.conn) >= MaxQ
        /\ fault' = "server_exit"
        /\ UNCHANGED <<handling, writeQ>>
     \/ /\ WriteUsed(r.conn) < MaxQ
        /\ writeQ'   = [writeQ EXCEPT ![r.conn] =
                          Append(@, [slot |-> s, id |-> r.id, mr |-> r.mr,
                                     rkey |-> r.rkey])]
        /\ handling' = handling \ {s}
        /\ UNCHANGED fault
  /\ UNCHANGED <<clientVars, respBuf, ccq, rqPosted, sendQ, sendAck, writeAck,
                 srq, srvBuf, reqCtx, swc, scq>>

(* Mutant: the slot is not posted again.                                   *)
OnWriteRespDoneDrops(t) ==
  /\ AtServerCqe(t, "write")
  /\ swc' = [swc EXCEPT ![t] = Tail(@)]
  /\ UNCHANGED <<clientVars, respBuf, ccq, rqPosted, wireVars, srq, srvBuf,
                 reqCtx, handling, scq, fault>>

(* on_write_resp_done: the slot goes back to the shared receive queue.     *)
OnWriteRespDone(t) ==
  /\ AtServerCqe(t, "write")
  /\ srq' = srq \cup {Head(swc[t]).slot}
  /\ swc' = [swc EXCEPT ![t] = Tail(@)]
  /\ UNCHANGED <<clientVars, respBuf, ccq, rqPosted, wireVars, srvBuf, reqCtx,
                 handling, scq, fault>>

-----------------------------------------------------------------------------

ClientStep(t) ==
  \/ \E c \in Conns, m \in Mrs, v \in Vals : SendReq(t, c, m, v)
  \/ PostRecv(t) \/ PostSend(t)
  \/ ClientPoll(t) \/ OnSendReq(t) \/ OnRecvResp(t) \/ MempoolPut(t)

WireStep(c) ==
  DeliverReq(c) \/ RnrNak(c) \/ AckReq(c) \/ DeliverResp(c) \/ AckWrite(c)

ServerStep(t) == ServerPoll(t) \/ OnRecvReq(t) \/ OnWriteRespDone(t)

Next ==
  /\ fault = "none"
  /\ \/ \E t \in CThreads : ClientStep(t)
     \/ \E c \in Conns : WireStep(c)
     \/ \E t \in SThreads : ServerStep(t)
     \/ \E s \in Slots : MakeResp(s)

Safety == Init /\ [][Next]_vars

(* Every thread keeps returning to its reactor loop, which calls its       *)
(* poller; a poller works off what it has polled; a call and a callback    *)
(* come to their end; the handler answers; the fabric delivers.            *)
Fairness ==
  /\ \A t \in CThreads :
       /\ WF_vars(fault = "none" /\ (PostRecv(t) \/ PostSend(t)))
       /\ WF_vars(fault = "none" /\ (OnSendReq(t) \/ OnRecvResp(t)))
       /\ SF_vars(fault = "none" /\ ClientPoll(t))
       /\ SF_vars(fault = "none" /\ MempoolPut(t))
  /\ \A c \in Conns :
       /\ WF_vars(fault = "none" /\ DeliverReq(c))
       /\ WF_vars(fault = "none" /\ AckReq(c))
       /\ WF_vars(fault = "none" /\ DeliverResp(c))
       /\ WF_vars(fault = "none" /\ AckWrite(c))
  /\ \A t \in SThreads : WF_vars(fault = "none" /\ ServerStep(t))
  /\ \A s \in Slots : WF_vars(fault = "none" /\ MakeResp(s))

Spec == Safety /\ Fairness

-----------------------------------------------------------------------------
(* Properties.                                                             *)

(* The places a slot can be in: the shared receive queue, the completion   *)
(* queue or a poller's batch (received, or response written), the handler, *)
(* a send queue, or on the wire waiting for its acknowledgement.           *)
Places == ({"srq", "handling", "scq"} \X {None}) \cup ({"swc"} \X SThreads)
          \cup ({"writeQ", "writeAck"} \X Conns)

SlotsOf(q) == {q[i].slot : i \in DOMAIN q}

SlotsAt(p) == CASE p[1] = "srq"      -> srq
                [] p[1] = "handling" -> handling
                [] p[1] = "scq"      -> SlotsOf(scq)
                [] p[1] = "swc"      -> SlotsOf(swc[p[2]])
                [] p[1] = "writeQ"   -> SlotsOf(writeQ[p[2]])
                [] p[1] = "writeAck" -> SlotsOf(writeAck[p[2]])

OncePerSlot(q) == \A i, j \in DOMAIN q : q[i].slot = q[j].slot => i = j

SlotInOnePlace ==
  \A s \in Slots : \E p \in Places :
    s \in SlotsAt(p) /\ \A q \in Places \ {p} : s \notin SlotsAt(q)

SlotQueuedOnce ==
  /\ OncePerSlot(scq)
  /\ \A t \in SThreads : OncePerSlot(swc[t])
  /\ \A c \in Conns : OncePerSlot(writeQ[c]) /\ OncePerSlot(writeAck[c])

(* A receive buffer of the server is in exactly one place, once: it is     *)
(* never posted for a new request while its old one is being handled or    *)
(* its response is being sent from it (server_req_ctx is reused through    *)
(* on_write_resp_done only), and it never gets lost.                       *)
SlotConserved == SlotInOnePlace /\ SlotQueuedOnce

RecvCqes(cq)  == {cq[i] : i \in {j \in DOMAIN cq : cq[j].op = "recv"}}
RecvSlots(cq) == {e.slot : e \in RecvCqes(cq)}

(* The slots whose request the handler has got and not seen answered yet,  *)
(* and those that hold an unanswered request.                              *)
ServedSlots ==
  handling \cup UNION {SlotsOf(writeQ[c]) : c \in Conns}

LiveSlots ==
  ServedSlots \cup RecvSlots(scq) \cup UNION {RecvSlots(swc[t]) : t \in SThreads}

(* What is sent has been written: the request of a call or of the send     *)
(* queue in its buffer, that of a slot in use in the slot's buffer, and    *)
(* what kv_rdma_make_resp needs in the context of a slot being handled.    *)
RequestFilled ==
  /\ \A t \in CThreads : call[t] # None =>
       reqHdr[call[t].mr] # None /\ reqBuf[call[t].mr] # None
  /\ \A c \in Conns : \A i \in DOMAIN sendQ[c] :
       reqHdr[sendQ[c][i]] # None /\ reqBuf[sendQ[c][i]] # None

SlotFilled ==
  /\ \A s \in LiveSlots : srvBuf[s] # None
  /\ \A s \in handling : reqCtx[s] # None

(* Where the request in the buffer pair m is.                              *)
RequestPlaces(m) ==
  {<<"call", t>> : t \in {u \in CThreads : call[u] # None /\ call[u].mr = m}}
  \cup (UNION {{<<"sendQ", c, i>> : i \in {j \in DOMAIN sendQ[c] :
                                            sendQ[c][j] = m}} : c \in Conns})
  \cup {<<"slot", s>> : s \in {r \in LiveSlots : srvBuf[r].mr = m}}
  \cup {<<"ccq", i>> : i \in {j \in DOMAIN ccq :
           ccq[j].op = "recv" /\ ctx[ccq[j].conn][ccq[j].id] = m}}
  \cup (UNION {{<<"cwc", t, i>> : i \in {j \in DOMAIN cwc[t] :
           cwc[t][j].op = "recv" /\ ctx[cwc[t][j].conn][cwc[t][j].id] = m}} :
               t \in CThreads})

(* A request that was submitted is in exactly one place between            *)
(* kv_rdma_send_req and its callback, and nothing is left of it            *)
(* afterwards: it is neither lost nor handled or called back twice.        *)
RequestConserved ==
  \A m \in Mrs : IF m \in busy
                 THEN \E p \in RequestPlaces(m) : RequestPlaces(m) = {p}
                 ELSE RequestPlaces(m) = {}

(* A response completion that is waiting to be processed names, by its     *)
(* immediate data alone, a context in use, of a request that is            *)
(* outstanding, and the answer to this request is in its response buffer.  *)
ResponseMatches ==
  \A e \in RecvCqes(ccq) \cup UNION {RecvCqes(cwc[t]) : t \in CThreads} :
    LET m == ctx[e.conn][e.id] IN
      /\ e.id \notin mp[e.conn]
      /\ m \in busy /\ reqHdr[m] = e.id
      /\ respBuf[m] = reqBuf[m]

(* Pool elements do not leak as long as nothing fails: one that is not in  *)
(* the pool belongs to an outstanding request or to a callback that has    *)
(* not returned.                                                           *)
PoolNoLeak ==
  fault = "none" => \A c \in Conns : \A i \in Ids \ mp[c] :
    \/ ctx[c][i] \in busy /\ reqHdr[ctx[c][i]] = i
    \/ \E t \in CThreads : cbk[t] = [conn |-> c, id |-> i]

(* A response that reaches the client finds a receive: kv_rdma_send_req    *)
(* posts one before each request, and no response takes another's.         *)
ResponseFindsRecv == \A c \in Conns : Len(writeQ[c]) <= rqPosted[c]

(* From the receive completion until the response is written the slot's    *)
(* buffer stays as it is, and so does its server_req_ctx from the call of  *)
(* the handler on: kv_rdma_make_resp, whenever it is called, uses the      *)
(* header, key and buffer of the request it answers.                       *)
HandlerViewKept ==
  \A s \in Slots :
    /\ s \in LiveSlots \cap LiveSlots' => srvBuf'[s] = srvBuf[s]
    /\ s \in ServedSlots \cap ServedSlots' => reqCtx'[s] = reqCtx[s]

HandlerViewStable == [][HandlerViewKept]_vars

(* With enough pool elements and queue entries, and acknowledgements that  *)
(* are not overtaken, no process dies before a connection breaks.          *)
NoFault == fault \in {"none", "conn_error"}

(* With enough slots, and acknowledgements that are not overtaken, no      *)
(* request finds the shared receive queue empty.                           *)
NoRnr == fault # "conn_error"

(* Every request submitted gets its callback, unless a connection breaks:  *)
(* also one whose response waits in a poller's array while the callback of *)
(* another sends again.                                                    *)
EveryRequestCompletes ==
  \A m \in Mrs : m \in busy ~> m \notin busy \/ fault = "conn_error"

(* Every slot taken from the shared receive queue returns to it, unless a  *)
(* connection breaks.                                                      *)
EverySlotReturns ==
  \A s \in Slots : s \notin srq ~> s \in srq \/ fault = "conn_error"

-----------------------------------------------------------------------------
(* Until a connection breaks the library implements RpcService, and if     *)
(* none does, with its liveness.  A request is served from the moment the  *)
(* handler has it.                                                         *)

Status(m) ==
  CASE m \notin busy -> "idle"
    [] m \in busy /\ \E p \in RequestPlaces(m) :
         p[1] \in {"ccq", "cwc"} \/ (p[1] = "slot" /\ p[2] \in ServedSlots) -> "served"
    [] OTHER -> "pending"

Service == INSTANCE RpcService WITH
  status <- [m \in Mrs |-> Status(m)],
  asked  <- reqBuf,
  answer <- [m \in Mrs |-> IF m \in busy THEN None ELSE respBuf[m]]

ServiceSafety == Service!Safety
ServiceSpec   == ServiceSafety /\ ([]NoRnr => Service!Liveness)
=============================================================================
