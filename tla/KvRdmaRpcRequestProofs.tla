----------------------- MODULE KvRdmaRpcRequestProofs -----------------------
(***************************************************************************)
(* Proofs about the requests of KvRdmaRpc, continued: what belongs to a    *)
(* request stays with it, it is in one place from kv_rdma_send_req to its  *)
(* callback, its response finds a receive, its context and the right       *)
(* answer, its pool element comes back, and the library implements         *)
(* RpcService.  Behind them, how many pool elements, queue entries and     *)
(* slots are enough for no process to die and no connection to break, and  *)
(* what the arithmetic of KvRdmaMr guarantees about their buffers.         *)
(***************************************************************************)
EXTENDS KvRdmaRpcProofs, KvRdmaMr, FiniteSetTheorems

-----------------------------------------------------------------------------
(* What belongs to a request stays with it while it is outstanding.        *)

Entries(q) == {q[i] : i \in DOMAIN q}

LEMMA EntriesMove ==
  ASSUME NEW S, NEW q \in Seq(S)
  PROVE  /\ q # <<>> => Entries(Tail(q)) \subseteq Entries(q) /\ Head(q) \in Entries(q)
         /\ \A e \in S : Entries(Append(q, e)) \subseteq Entries(q) \cup {e}
         /\ Entries(Polled(q)) \subseteq Entries(q)
         /\ Entries(LeftInCq(q)) \subseteq Entries(q)
<1>1. ASSUME q # <<>>
      PROVE  Entries(Tail(q)) \subseteq Entries(q) /\ Head(q) \in Entries(q)
  <2>1. /\ DOMAIN q = 1..Len(q) /\ Len(q) \in Nat \ {0}
        /\ DOMAIN Tail(q) = 1..(Len(q) - 1)
        /\ \A i \in 1..(Len(q) - 1) : Tail(q)[i] = q[i + 1]
        /\ Head(q) = q[1]
    BY <1>1, HeadTailProperties, EmptySeq, LenProperties
  <2>2. \A i \in DOMAIN Tail(q) : i + 1 \in DOMAIN q /\ Tail(q)[i] = q[i + 1]
    BY <2>1
  <2>3. 1 \in DOMAIN q
    BY <2>1
  <2> QED
    BY <2>1, <2>2, <2>3 DEF Entries
<1>2. ASSUME NEW e \in S PROVE Entries(Append(q, e)) \subseteq Entries(q) \cup {e}
  <2>1. /\ DOMAIN q = 1..Len(q) /\ Len(q) \in Nat
        /\ DOMAIN Append(q, e) = 1..(Len(q) + 1)
        /\ \A i \in 1..Len(q) : Append(q, e)[i] = q[i]
        /\ Append(q, e)[Len(q) + 1] = e
    BY AppendProperties, LenProperties
  <2>2. \A i \in DOMAIN Append(q, e) :
          Append(q, e)[i] = e \/ (i \in DOMAIN q /\ Append(q, e)[i] = q[i])
    BY <2>1
  <2> QED
    BY <2>2 DEF Entries
<1>3. Entries(Polled(q)) \subseteq Entries(q) /\ Entries(LeftInCq(q)) \subseteq Entries(q)
  <2> DEFINE n == PollCount(q)
             a == Polled(q)
             b == LeftInCq(q)
  <2>1. /\ DOMAIN q = 1..Len(q) /\ DOMAIN a = 1..n /\ DOMAIN b = 1..(Len(q) - n)
        /\ Len(q) \in Nat /\ n \in 0..Len(q)
        /\ \A i \in 1..n : a[i] = q[i]
        /\ \A i \in 1..(Len(q) - n) : b[i] = q[i + n]
    BY PollTypes, LenProperties
  <2> HIDE DEF n, a, b
  <2>2. \A i \in DOMAIN a : i \in DOMAIN q /\ a[i] = q[i]
    BY <2>1
  <2>3. \A i \in DOMAIN b : i + n \in DOMAIN q /\ b[i] = q[i + n]
    BY <2>1
  <2>4. Entries(a) \subseteq Entries(q) /\ Entries(b) \subseteq Entries(q)
    BY <2>2, <2>3 DEF Entries
  <2> QED
    BY <2>4 DEF a, b
<1> QED
  BY <1>1, <1>2, <1>3

LEMMA EntriesEmpty == Entries(<<>>) = {}
BY DEF Entries

LEMMA RecvCqesAre ==
  ASSUME NEW q PROVE RecvCqes(q) = {e \in Entries(q) : e.op = "recv"}
BY DEF RecvCqes, Entries

LEMMA EntriesTypes ==
  ASSUME NEW S, NEW q \in Seq(S) PROVE Entries(q) \subseteq S
BY ElementOfSeq, LenProperties DEF Entries

LEMMA LiveAreSlots == TypeOK => LiveSlots \subseteq Slots
<1> SUFFICES ASSUME TypeOK PROVE LiveSlots \subseteq Slots
  OBVIOUS
<1>1. /\ scq \in Seq(ServerCqe) /\ \A t \in SThreads : swc[t] \in Seq(ServerCqe)
      /\ \A c \in Conns : writeQ[c] \in Seq(Write)
      /\ handling \subseteq Slots
  BY DEF TypeOK
<1>2. ASSUME NEW q \in Seq(ServerCqe), NEW s \in SlotsOf(q) PROVE s \in Slots
  <2>1. PICK i \in DOMAIN q : s = q[i].slot
    BY DEF SlotsOf
  <2>2. q[i] \in ServerCqe
    BY ElementOfSeq, LenProperties
  <2> QED
    BY <2>1, <2>2 DEF ServerCqe
<1>3. ASSUME NEW q \in Seq(Write), NEW s \in SlotsOf(q) PROVE s \in Slots
  <2>1. PICK i \in DOMAIN q : s = q[i].slot
    BY DEF SlotsOf
  <2>2. q[i] \in Write
    BY ElementOfSeq, LenProperties
  <2> QED
    BY <2>1, <2>2 DEF Write
<1> QED
  BY <1>1, <1>2, <1>3, LiveIs, RecvSlotsQueued

(* The pair of a request that is somewhere is outstanding.                 *)
FlightsBusy ==
  /\ \A t \in CThreads : call[t] # None => call[t].mr \in busy
  /\ \A c \in Conns : Entries(sendQ[c]) \subseteq busy
  /\ \A s \in LiveSlots : srvBuf[s].mr \in busy
  /\ \A e \in RecvCqes(ccq) : ctx[e.conn][e.id] # None => ctx[e.conn][e.id] \in busy
  /\ \A t \in CThreads : \A e \in RecvCqes(cwc[t]) :
       ctx[e.conn][e.id] # None => ctx[e.conn][e.id] \in busy

LEMMA SitedBusy == Typed /\ RequestsSited => FlightsBusy
<1> SUFFICES ASSUME Typed, RequestsSited PROVE FlightsBusy
  OBVIOUS
<1>1. \A p \in RequestSites : \A m \in Mrs : m \in MrsAt(p) => m \in busy
  BY DEF RequestsSited, RequestInOneSite
<1>2. ASSUME NEW t \in CThreads, call[t] # None PROVE call[t].mr \in busy
  <2>1. call[t].mr \in Mrs
    BY <1>2 DEF Typed, TypeOK, Call
  <2>2. call[t].mr \in MrsAt(Call_(t))
    BY <1>2, MrsAtSites
  <2> QED
    BY <1>1, <2>1, <2>2, SitesAre
<1>3. ASSUME NEW c \in Conns, NEW m \in Entries(sendQ[c]) PROVE m \in busy
  <2>1. m \in Mrs
    BY EntriesTypes DEF Typed, TypeOK
  <2>2. Itself[m] = m /\ m # None
    BY <2>1, NoneIsNew DEF Itself
  <2>3. m \in MrsAt(SendQ_(c))
    <3>1. PICK i \in DOMAIN sendQ[c] : m = sendQ[c][i]
      BY DEF Entries
    <3>2. m \in Keys(sendQ[c], Itself)
      BY <2>2, <3>1 DEF Keys
    <3> QED
      BY <3>2, MrsAtSites
  <2> QED
    BY <1>1, <2>1, <2>3, SitesAre
<1>4. ASSUME NEW s \in LiveSlots PROVE srvBuf[s].mr \in busy
  <2>1. s \in Slots
    BY LiveAreSlots DEF Typed
  <2>2. srvBuf[s].mr \in Mrs
    BY <2>1 DEF Typed, TypeOK, SlotFilled, Message
  <2>3. srvBuf[s].mr \in MrsAt(Slot_(s))
    BY MrsAtSites
  <2> QED
    BY <1>1, <2>1, <2>2, <2>3, SitesAre
<1>5. ASSUME NEW q \in Seq(ClientCqe), NEW p \in RequestSites,
             MrsAt(p) = Keys(q, Answers), NEW e \in RecvCqes(q),
             ctx[e.conn][e.id] # None
      PROVE  ctx[e.conn][e.id] \in busy
  <2>1. PICK i \in DOMAIN q : e = q[i] /\ e.op = "recv"
    BY DEF RecvCqes
  <2>2. e \in ClientCqe
    BY <2>1, ElementOfSeq, LenProperties
  <2>3. /\ e.conn \in Conns /\ e.id \in Ids /\ Answers[e] = ctx[e.conn][e.id]
    BY <2>1, <2>2, RecvTypes
  <2>4. ctx[e.conn][e.id] \in Mrs
    BY <1>5, <2>3 DEF Typed, TypeOK
  <2>5. ctx[e.conn][e.id] \in Keys(q, Answers)
    BY <1>5, <2>1, <2>3 DEF Keys
  <2> QED
    BY <1>1, <1>5, <2>4, <2>5
<1>6. ASSUME NEW e \in RecvCqes(ccq), ctx[e.conn][e.id] # None
      PROVE  ctx[e.conn][e.id] \in busy
  BY <1>5, <1>6, MrsAtSites, SitesAre DEF Typed, TypeOK
<1>7. ASSUME NEW t \in CThreads, NEW e \in RecvCqes(cwc[t]), ctx[e.conn][e.id] # None
      PROVE  ctx[e.conn][e.id] \in busy
  BY <1>5, <1>7, MrsAtSites, SitesAre DEF Typed, TypeOK
<1> QED
  BY <1>2, <1>3, <1>4, <1>6, <1>7 DEF FlightsBusy

LEMMA SitedBusyNext == Typed' /\ RequestsSited' => FlightsBusy'
BY SitedBusy, PTL

LEMMA HoldsSame ==
  ASSUME UNCHANGED <<ctx, reqHdr, mp, cbk>>, NEW c, NEW i, NEW m, Holds(c, i, m)
  PROVE  Holds(c, i, m)'
BY DEF Holds

(* A pool element that an outstanding request holds is not taken from it:  *)
(* kv_rdma_send_req takes another, a callback puts its own back.           *)
LEMMA HoldsKept ==
  ASSUME RequestInv, [Next]_vars, NEW c \in Conns, NEW i \in Ids, NEW m \in Mrs,
         Holds(c, i, m), m \in busy, m \in busy'
  PROVE  Holds(c, i, m)'
<1>1. /\ mp \in [Conns -> SUBSET Ids] /\ reqHdr \in [Mrs -> Ids \cup {None}]
      /\ ctx \in [Conns -> [Ids -> Mrs \cup {None}]]
      /\ cbk \in [CThreads -> [conn : Conns, id : Ids] \cup {None}]
  BY DEF RequestInv, Typed, TypeOK
<1>2. CASE UNCHANGED <<ctx, reqHdr, mp, cbk>>
  BY <1>2, HoldsSame
<1>3. ASSUME NEW t \in CThreads, NEW d \in Conns, NEW n \in Mrs, NEW v \in Vals,
             SendReq(t, d, n, v)
      PROVE  Holds(c, i, m)'
  <2>1. CASE UNCHANGED clientVars
    BY <2>1, HoldsSame DEF clientVars
  <2>2. ASSUME NEW j \in mp[d],
               mp' = [mp EXCEPT ![d] = @ \ {j}], ctx' = [ctx EXCEPT ![d][j] = n],
               reqHdr' = [reqHdr EXCEPT ![n] = j], UNCHANGED cbk
        PROVE  Holds(c, i, m)'
    <3>1. n # m
      BY <1>3 DEF SendReq
    <3>2. j \in Ids /\ (c # d \/ i # j)
      BY <1>1 DEF Holds
    <3>3. ctx'[c][i] = ctx[c][i]
      BY <1>1, <2>2, <3>2
    <3>4. reqHdr'[m] = reqHdr[m] /\ i \notin mp'[c]
      BY <1>1, <2>2, <3>1 DEF Holds
    <3> QED
      BY <2>2, <3>3, <3>4 DEF Holds
  <2> QED
    BY <1>3, <2>1, <2>2 DEF SendReq
<1>4. ASSUME NEW t \in CThreads, OnRecvResp(t) PROVE Holds(c, i, m)'
  <2> DEFINE e == Head(cwc[t])
  <2>1. /\ busy' = busy \ {ctx[e.conn][e.id]}
        /\ cbk' = [cbk EXCEPT ![t] = [conn |-> e.conn, id |-> e.id]]
        /\ UNCHANGED <<ctx, reqHdr, mp>>
    BY <1>4 DEF OnRecvResp
  <2> HIDE DEF e
  <2>2. [conn |-> c, id |-> i] # [conn |-> e.conn, id |-> e.id]
    BY <2>1 DEF Holds
  <2>3. \A u \in CThreads : cbk'[u] # [conn |-> c, id |-> i]
    BY <1>1, <2>1, <2>2 DEF Holds
  <2> QED
    BY <2>1, <2>3 DEF Holds
<1>5. ASSUME NEW t \in CThreads, MempoolPut(t) PROVE Holds(c, i, m)'
  <2>1. /\ cbk[t] # None
        /\ mp' = [mp EXCEPT ![cbk[t].conn] = @ \cup {cbk[t].id}]
        /\ cbk' = [cbk EXCEPT ![t] = None]
        /\ UNCHANGED <<ctx, reqHdr>>
    BY <1>5 DEF MempoolPut
  <2>2. cbk[t] \in [conn : Conns, id : Ids] /\ cbk[t] # [conn |-> c, id |-> i]
    BY <1>1, <2>1 DEF Holds
  <2>3. PICK d \in Conns, j \in Ids : d = cbk[t].conn /\ j = cbk[t].id
    BY <2>2
  <2>4. d # c \/ j # i
    BY <2>2, <2>3
  <2>5. i \notin mp'[c]
    BY <1>1, <2>1, <2>3, <2>4 DEF Holds
  <2>6. None # [conn |-> c, id |-> i]
    BY NoneIsNew
  <2>7. \A u \in CThreads : cbk'[u] # [conn |-> c, id |-> i]
    BY <1>1, <2>1, <2>6 DEF Holds
  <2> QED
    BY <2>1, <2>5, <2>7 DEF Holds
<1>6. ASSUME NEW t \in CThreads, ClientStep(t) PROVE Holds(c, i, m)'
  <2>1. CASE PostRecv(t) \/ PostSend(t) \/ ClientPoll(t) \/ OnSendReq(t)
    BY <1>2, <2>1 DEF PostRecv, PostSend, SendFail, ClientPoll, OnSendReq
  <2> QED
    BY <1>3, <1>4, <1>5, <1>6, <2>1 DEF ClientStep
<1>7. ASSUME NEW d \in Conns, WireStep(d) PROVE Holds(c, i, m)'
  BY <1>2, <1>7 DEF WireStep, DeliverReq, RnrNak, AckReq, DeliverResp, AckWrite,
     clientVars
<1>8. ASSUME NEW t \in SThreads, ServerStep(t) PROVE Holds(c, i, m)'
  BY <1>2, <1>8 DEF ServerStep, ServerPoll, OnRecvReq, OnWriteRespDone, clientVars
<1>9. ASSUME NEW s \in Slots, MakeResp(s) PROVE Holds(c, i, m)'
  BY <1>2, <1>9 DEF MakeResp, clientVars
<1>10. CASE UNCHANGED vars
  BY <1>2, <1>10 DEF vars, clientVars
<1> QED
  BY <1>6, <1>7, <1>8, <1>9, <1>10 DEF Next

(* The payload of an outstanding request stays, and its answer, once it is *)
(* there.                                                                  *)
LEMMA PayloadKept ==
  ASSUME RequestInv, [Next]_vars, NEW m \in busy
  PROVE  /\ reqBuf'[m] = reqBuf[m]
         /\ respBuf[m] = reqBuf[m] => respBuf'[m] = reqBuf[m]
<1>1. /\ reqBuf \in [Mrs -> Vals \cup {None}] /\ respBuf \in [Mrs -> Vals \cup {None}]
      /\ m \in Mrs
  BY DEF RequestInv, Typed, TypeOK
<1>2. CASE UNCHANGED <<reqBuf, respBuf>>
  BY <1>2
<1>3. ASSUME NEW t \in CThreads, ClientStep(t)
      PROVE  reqBuf'[m] = reqBuf[m] /\ UNCHANGED respBuf
  <2>1. ASSUME NEW c \in Conns, NEW n \in Mrs, NEW v \in Vals, SendReq(t, c, n, v)
        PROVE  reqBuf'[m] = reqBuf[m] /\ UNCHANGED respBuf
    <3>1. n # m /\ UNCHANGED respBuf
      BY <2>1 DEF SendReq
    <3>2. UNCHANGED reqBuf \/ reqBuf' = [reqBuf EXCEPT ![n] = v]
      BY <2>1 DEF SendReq, clientVars
    <3> QED
      BY <1>1, <3>1, <3>2
  <2>2. CASE ~ \E c \in Conns, n \in Mrs, v \in Vals : SendReq(t, c, n, v)
    BY <1>3, <2>2 DEF ClientStep, PostRecv, PostSend, SendFail, ClientPoll,
       OnSendReq, OnRecvResp, MempoolPut
  <2> QED
    BY <1>3, <2>1, <2>2
<1>4. ASSUME NEW c \in Conns, DeliverResp(c)
      PROVE  /\ UNCHANGED reqBuf
             /\ respBuf[m] = reqBuf[m] => respBuf'[m] = reqBuf[m]
  <2>1. writeQ[c] # <<>> /\ UNCHANGED reqBuf
    BY <1>4 DEF DeliverResp, clientVars
  <2>2. PICK w \in Write, s \in Slots, n \in Mrs :
          /\ w = Head(writeQ[c]) /\ s = w.slot /\ n = w.mr
          /\ n = srvBuf[s].mr /\ Carries(c, s)
    BY <2>1, NextWrite
  <2>3. respBuf' = [respBuf EXCEPT ![n] = srvBuf[s].val]
    BY <1>4, <2>2 DEF DeliverResp
  <2>4. srvBuf[s].val = reqBuf[n]
    BY <2>2 DEF Carries
  <2> QED
    BY <1>1, <2>1, <2>3, <2>4
<1>5. ASSUME NEW c \in Conns, WireStep(c), ~ DeliverResp(c)
      PROVE  UNCHANGED <<reqBuf, respBuf>>
  BY <1>5 DEF WireStep, DeliverReq, RnrNak, AckReq, AckWrite, clientVars
<1>6. ASSUME NEW t \in SThreads, ServerStep(t) PROVE UNCHANGED <<reqBuf, respBuf>>
  BY <1>6 DEF ServerStep, ServerPoll, OnRecvReq, OnWriteRespDone, clientVars
<1>7. ASSUME NEW s \in Slots, MakeResp(s) PROVE UNCHANGED <<reqBuf, respBuf>>
  BY <1>7 DEF MakeResp, clientVars
<1>8. CASE UNCHANGED vars
  BY <1>8 DEF vars, clientVars
<1> QED
  BY <1>2, <1>3, <1>4, <1>5, <1>6, <1>7, <1>8 DEF Next

LEMMA ViewKept ==
  ASSUME RequestInv, [Next]_vars, NEW s \in Slots
  PROVE  /\ s \in LiveSlots /\ s \in LiveSlots' => srvBuf'[s] = srvBuf[s]
         /\ s \in ServedSlots /\ s \in ServedSlots' => reqCtx'[s] = reqCtx[s]
<1>1. CASE UNCHANGED vars
  BY <1>1 DEF vars, serverVars
<1>2. CASE HandlerViewKept
  BY <1>2 DEF HandlerViewKept
<1> QED
  BY <1>1, <1>2, HandlerViewStep DEF RequestInv

LEMMA CarriesKept ==
  ASSUME RequestInv, [Next]_vars, FlightsBusy, FlightsBusy',
         NEW c \in Conns, NEW s \in Slots, s \in LiveSlots, s \in LiveSlots',
         Carries(c, s)
  PROVE  Carries(c, s)'
<1>1. srvBuf'[s] = srvBuf[s] /\ srvBuf[s] \in Message
  BY ViewKept DEF RequestInv, Typed, TypeOK, SlotFilled
<1>2. PICK i \in Ids, m \in Mrs, v \in Vals :
        i = srvBuf[s].id /\ m = srvBuf[s].mr /\ v = srvBuf[s].val
  BY <1>1 DEF Message
<1>3. i = srvBuf'[s].id /\ m = srvBuf'[s].mr /\ v = srvBuf'[s].val
  BY <1>1, <1>2
<1>4. m \in busy /\ m \in busy'
  BY <1>2, <1>3 DEF FlightsBusy
<1>5. Holds(c, i, m) /\ v = reqBuf[m]
  BY <1>2 DEF Carries
<1>6. Holds(c, i, m)' /\ reqBuf'[m] = v
  BY <1>4, <1>5, HoldsKept, PayloadKept
<1> QED
  BY <1>3, <1>6 DEF Carries, Holds

LEMMA AnsweredKept ==
  ASSUME RequestInv, [Next]_vars, NEW e \in ClientCqe, e.op = "recv", Answered(e),
         ctx[e.conn][e.id] \in busy,
         ctx'[e.conn][e.id] # None => ctx'[e.conn][e.id] \in busy'
  PROVE  Answered(e)'
<1>1. PICK c \in Conns, i \in Ids : c = e.conn /\ i = e.id
  BY RecvTypes
<1>2. PICK m \in Mrs : m = ctx[c][i] /\ Holds(c, i, m) /\ respBuf[m] = reqBuf[m]
  BY <1>1 DEF Answered
<1>3. m \in busy /\ i \notin mp[c]
  BY <1>1, <1>2 DEF Holds
<1>4. ctx'[c][i] = m
  <2>1. /\ mp \in [Conns -> SUBSET Ids] /\ ctx \in [Conns -> [Ids -> Mrs \cup {None}]]
    BY DEF RequestInv, Typed, TypeOK
  <2>2. ASSUME NEW t \in CThreads, NEW d \in Conns, NEW n \in Mrs, NEW v \in Vals,
               SendReq(t, d, n, v)
        PROVE  ctx'[c][i] = ctx[c][i]
    <3>1. CASE UNCHANGED clientVars
      BY <3>1 DEF clientVars
    <3>2. ASSUME NEW j \in mp[d], ctx' = [ctx EXCEPT ![d][j] = n]
          PROVE  ctx'[c][i] = ctx[c][i]
      BY <1>3, <2>1, <3>2
    <3> QED
      BY <2>2, <3>1, <3>2 DEF SendReq
  <2>3. CASE UNCHANGED ctx
    BY <1>2, <2>3
  <2>4. ASSUME NEW t \in CThreads, ClientStep(t) PROVE ctx'[c][i] = ctx[c][i]
    <3>1. CASE ~ \E d \in Conns, n \in Mrs, v \in Vals : SendReq(t, d, n, v)
      BY <2>4, <3>1 DEF ClientStep, PostRecv, PostSend, SendFail, ClientPoll,
         OnSendReq, OnRecvResp, MempoolPut
    <3> QED
      BY <2>2, <2>4, <3>1
  <2>5. ASSUME NEW d \in Conns, WireStep(d) PROVE UNCHANGED ctx
    BY <2>5 DEF WireStep, DeliverReq, RnrNak, AckReq, DeliverResp, AckWrite, clientVars
  <2>6. ASSUME NEW t \in SThreads, ServerStep(t) PROVE UNCHANGED ctx
    BY <2>6 DEF ServerStep, ServerPoll, OnRecvReq, OnWriteRespDone, clientVars
  <2>7. ASSUME NEW s \in Slots, MakeResp(s) PROVE UNCHANGED ctx
    BY <2>7 DEF MakeResp, clientVars
  <2>8. CASE UNCHANGED vars
    BY <1>2, <2>8 DEF vars, clientVars
  <2> QED
    BY <1>2, <2>3, <2>4, <2>5, <2>6, <2>7, <2>8 DEF Next
<1>5. m \in busy'
  BY <1>1, <1>4, NoneIsNew
<1>6. Holds(c, i, m)' /\ respBuf'[m] = reqBuf'[m]
  BY <1>2, <1>3, <1>5, HoldsKept, PayloadKept
<1> QED
  BY <1>1, <1>4, <1>6 DEF Answered

-----------------------------------------------------------------------------
(* Every request holds what belongs to it, wherever it is.                 *)

LEMMA RequestHoldsInit == Init => RequestHolds /\ CallbackHolds
<1> SUFFICES ASSUME Init PROVE RequestHolds /\ CallbackHolds
  OBVIOUS
<1>1. /\ RecvCqes(scq) = {} /\ RecvCqes(ccq) = {}
      /\ \A t \in SThreads : RecvCqes(swc[t]) = {}
      /\ \A t \in CThreads : RecvCqes(cwc[t]) = {}
  BY RecvCqesAre, EntriesEmpty DEF Init
<1>2. /\ \A t \in CThreads : call[t] = None /\ cbk[t] = None
      /\ \A c \in Conns : DOMAIN sendQ[c] = {} /\ DOMAIN writeQ[c] = {}
      /\ handling = {}
  BY DEF Init
<1> QED
  BY <1>1, <1>2 DEF RequestHolds, CallHolds, SendQHolds, ReceivedHolds, HandledHolds,
     WriteHolds, AnswerHolds, CallbackHolds

(* Whose call it is after a step.                                          *)
CallGoesOn(t) ==
  /\ call[t] # None /\ call'[t].conn = call[t].conn
  /\ call'[t].mr = call[t].mr /\ call'[t].id = call[t].id

CallBegins(t, c, m, i) ==
  /\ i \in mp[c]
  /\ mp' = [mp EXCEPT ![c] = @ \ {i}]
  /\ ctx' = [ctx EXCEPT ![c][i] = m]
  /\ reqHdr' = [reqHdr EXCEPT ![m] = i]
  /\ UNCHANGED cbk
  /\ call'[t] = [pc |-> "post_recv", conn |-> c, mr |-> m, id |-> i]

LEMMA CallsAfter ==
  ASSUME RequestInv, [Next]_vars, NEW t \in CThreads, call'[t] # None
  PROVE  \/ CallGoesOn(t)
         \/ \E c \in Conns, m \in Mrs, i \in Ids : CallBegins(t, c, m, i)
<1> DEFINE Same == CallGoesOn(t)
           New == \E c \in Conns, m \in Mrs, i \in Ids : CallBegins(t, c, m, i)
<1>1. call \in [CThreads -> Call \cup {None}]
  BY DEF RequestInv, Typed, TypeOK
<1>2. call'[t] = call[t] => Same
  BY DEF CallGoesOn
<1>3. ASSUME NEW u \in CThreads, NEW c \in Conns, NEW m \in Mrs, NEW v \in Vals,
             SendReq(u, c, m, v)
      PROVE  call'[t] = call[t] \/ New
  <2>1. CASE UNCHANGED clientVars
    BY <2>1 DEF clientVars
  <2>2. ASSUME NEW i \in mp[c],
               mp' = [mp EXCEPT ![c] = @ \ {i}], ctx' = [ctx EXCEPT ![c][i] = m],
               reqHdr' = [reqHdr EXCEPT ![m] = i], UNCHANGED cbk,
               call' = [call EXCEPT ![u] = [pc |-> "post_recv", conn |-> c,
                                            mr |-> m, id |-> i]]
        PROVE  call'[t] = call[t] \/ New
    <3>1. CASE u # t
      BY <1>1, <2>2, <3>1
    <3>2. CASE u = t
      <4>1. call'[t] = [pc |-> "post_recv", conn |-> c, mr |-> m, id |-> i]
        BY <1>1, <2>2, <3>2
      <4>2. i \in Ids
        BY <2>2 DEF RequestInv, Typed, TypeOK
      <4>3. CallBegins(t, c, m, i)
        BY <2>2, <4>1 DEF CallBegins
      <4> QED
        BY <4>2, <4>3
    <3> QED
      BY <3>1, <3>2
  <2> QED
    BY <1>3, <2>1, <2>2 DEF SendReq
<1>4. ASSUME NEW u \in CThreads, PostRecv(u) PROVE Same
  BY <1>1, <1>4 DEF PostRecv, SendFail, Continue, CallGoesOn
<1>5. ASSUME NEW u \in CThreads, PostSend(u) PROVE Same
  BY <1>1, <1>5 DEF PostSend, SendFail, CallGoesOn
<1>6. ASSUME NEW u \in CThreads,
             ClientPoll(u) \/ OnSendReq(u) \/ OnRecvResp(u) \/ MempoolPut(u)
      PROVE  call'[t] = call[t]
  BY <1>6 DEF ClientPoll, OnSendReq, OnRecvResp, MempoolPut
<1>7. ASSUME NEW c \in Conns, WireStep(c) PROVE call'[t] = call[t]
  BY <1>7 DEF WireStep, DeliverReq, RnrNak, AckReq, DeliverResp, AckWrite, clientVars
<1>8. ASSUME NEW u \in SThreads, ServerStep(u) PROVE call'[t] = call[t]
  BY <1>8 DEF ServerStep, ServerPoll, OnRecvReq, OnWriteRespDone, clientVars
<1>9. ASSUME NEW s \in Slots, MakeResp(s) PROVE call'[t] = call[t]
  BY <1>9 DEF MakeResp, clientVars
<1>10. ASSUME UNCHANGED vars PROVE call'[t] = call[t]
  BY <1>10 DEF vars, clientVars
<1> HIDE DEF Same, New
<1>11. Same \/ New
  <2>1. ASSUME NEW u \in CThreads, ClientStep(u) PROVE Same \/ New
    BY <1>2, <1>3, <1>4, <1>5, <1>6, <2>1 DEF ClientStep
  <2> QED
    BY <2>1, <1>2, <1>7, <1>8, <1>9, <1>10 DEF Next
<1> QED
  BY <1>11 DEF Same, New

LEMMA CallHoldsStep ==
  ASSUME RequestInv, [Next]_vars, FlightsBusy, FlightsBusy'
  PROVE  CallHolds'
<1> SUFFICES ASSUME NEW t \in CThreads, call'[t] # None
             PROVE  Holds(call[t].conn, call[t].id, call[t].mr)'
  BY DEF CallHolds
<1>1. CASE CallGoesOn(t)
  <2>1. /\ call[t] \in Call /\ call'[t].conn = call[t].conn
        /\ call'[t].mr = call[t].mr /\ call'[t].id = call[t].id
    BY <1>1 DEF CallGoesOn, RequestInv, Typed, TypeOK
  <2>2. PICK c \in Conns, i \in Ids, m \in Mrs :
          c = call[t].conn /\ i = call[t].id /\ m = call[t].mr
    BY <2>1 DEF Call
  <2>3. Holds(c, i, m)
    BY <1>1, <2>2 DEF CallGoesOn, RequestInv, RequestHolds, CallHolds
  <2>4. m \in busy /\ m \in busy'
    BY <1>1, <2>2 DEF CallGoesOn, FlightsBusy
  <2>5. Holds(c, i, m)'
    BY <2>3, <2>4, HoldsKept
  <2> QED
    BY <2>1, <2>2, <2>5 DEF Holds
<1>2. ASSUME NEW c \in Conns, NEW m \in Mrs, NEW i \in Ids, CallBegins(t, c, m, i)
      PROVE  Holds(call[t].conn, call[t].id, call[t].mr)'
  <2>1. /\ mp \in [Conns -> SUBSET Ids] /\ reqHdr \in [Mrs -> Ids \cup {None}]
        /\ ctx \in [Conns -> [Ids -> Mrs \cup {None}]]
    BY DEF RequestInv, Typed, TypeOK
  <2>2. ctx'[c][i] = m /\ reqHdr'[m] = i /\ i \notin mp'[c]
    BY <1>2, <2>1 DEF CallBegins
  <2>3. ASSUME NEW u \in CThreads PROVE cbk'[u] # [conn |-> c, id |-> i]
    <3>1. [conn |-> c, id |-> i] # None
      BY NoneIsNew
    <3> QED
      BY <1>2, <3>1 DEF CallBegins, RequestInv, CallbackHolds
  <2> QED
    BY <1>2, <2>2, <2>3 DEF CallBegins, Holds
<1> QED
  BY <1>1, <1>2, CallsAfter

LEMMA SendQAfter ==
  ASSUME RequestInv, [Next]_vars, NEW c \in Conns, NEW m \in Entries(sendQ'[c])
  PROVE  \/ m \in Entries(sendQ[c])
         \/ \E t \in CThreads : /\ call[t] # None /\ call[t].pc = "post_send"
                                /\ call[t].conn = c /\ call[t].mr = m
<1>1. sendQ[c] \in Seq(Mrs)
  BY DEF RequestInv, Typed, TypeOK
<1>2. CASE UNCHANGED sendQ
  BY <1>2
<1>3. ASSUME NEW t \in CThreads, PostSend(t), ~ UNCHANGED sendQ
      PROVE  m \in Entries(sendQ[c]) \/ (call[t].conn = c /\ call[t].mr = m)
  <2>1. call[t] \in Call /\ sendQ' = [sendQ EXCEPT ![call[t].conn] = Append(@, call[t].mr)]
    BY <1>3 DEF PostSend, SendFail, wireVars, RequestInv, Typed, TypeOK
  <2>2. PICK d \in Conns, n \in Mrs : d = call[t].conn /\ n = call[t].mr
    BY <2>1 DEF Call
  <2>3. sendQ' = [sendQ EXCEPT ![d] = Append(sendQ[d], n)]
    BY <2>1, <2>2
  <2>4. CASE d = c
    <3>1. sendQ'[c] = Append(sendQ[c], n)
      BY <2>3, <2>4 DEF RequestInv, Typed, TypeOK
    <3> QED
      BY <1>1, <2>2, <2>4, <3>1, EntriesMove
  <2>5. CASE d # c
    BY <2>3, <2>5 DEF RequestInv, Typed, TypeOK
  <2> QED
    BY <2>4, <2>5
<1>4. ASSUME NEW d \in Conns, DeliverReq(d) PROVE m \in Entries(sendQ[c])
  <2>1. sendQ' = [sendQ EXCEPT ![d] = Tail(sendQ[d])] /\ sendQ[d] # <<>>
    BY <1>4 DEF DeliverReq
  <2>2. CASE d = c
    <3>1. sendQ'[c] = Tail(sendQ[c])
      BY <2>1, <2>2 DEF RequestInv, Typed, TypeOK
    <3> QED
      BY <1>1, <2>1, <2>2, <3>1, EntriesMove
  <2>3. CASE d # c
    BY <2>1, <2>3 DEF RequestInv, Typed, TypeOK
  <2> QED
    BY <2>2, <2>3
<1>5. ASSUME NEW t \in CThreads, ClientStep(t), ~ PostSend(t) PROVE UNCHANGED sendQ
  BY <1>5 DEF ClientStep, SendReq, PostRecv, SendFail, ClientPoll, OnSendReq,
     OnRecvResp, MempoolPut, wireVars
<1>6. ASSUME NEW d \in Conns, WireStep(d), ~ DeliverReq(d) PROVE UNCHANGED sendQ
  BY <1>6 DEF WireStep, RnrNak, AckReq, DeliverResp, AckWrite, wireVars
<1>7. ASSUME NEW t \in SThreads, ServerStep(t) PROVE UNCHANGED sendQ
  BY <1>7 DEF ServerStep, ServerPoll, OnRecvReq, OnWriteRespDone, wireVars
<1>8. ASSUME NEW s \in Slots, MakeResp(s) PROVE UNCHANGED sendQ
  BY <1>8 DEF MakeResp
<1>9. CASE UNCHANGED vars
  BY <1>9, <1>2 DEF vars, wireVars
<1>10. \A t \in CThreads : PostSend(t) => call[t] # None /\ call[t].pc = "post_send"
  BY DEF PostSend
<1> QED
  BY <1>2, <1>3, <1>4, <1>5, <1>6, <1>7, <1>8, <1>9, <1>10 DEF Next

LEMMA SendQHoldsStep ==
  ASSUME RequestInv, [Next]_vars, FlightsBusy, FlightsBusy', RequestFilled', TypeOK'
  PROVE  SendQHolds'
<1> SUFFICES ASSUME NEW c \in Conns, NEW k \in DOMAIN sendQ'[c]
             PROVE  Holds(c, reqHdr[sendQ[c][k]], sendQ[c][k])'
  BY DEF SendQHolds
<1>1. sendQ'[c] \in Seq(Mrs)
  BY DEF TypeOK
<1>2. PICK m \in Mrs : m = sendQ'[c][k] /\ m \in Entries(sendQ'[c])
  BY <1>1, EntriesTypes DEF Entries
<1>3. m \in busy'
  BY <1>2 DEF FlightsBusy
<1>4. \E i \in Ids : Holds(c, i, m) /\ m \in busy
  <2>1. CASE m \in Entries(sendQ[c])
    <3>1. PICK j \in DOMAIN sendQ[c] : m = sendQ[c][j]
      BY <2>1 DEF Entries
    <3>2. Holds(c, reqHdr[m], m)
      BY <3>1 DEF RequestInv, RequestHolds, SendQHolds
    <3>3. reqHdr[m] \in Ids
      BY <3>1 DEF RequestInv, Typed, TypeOK, RequestFilled
    <3>4. m \in busy
      BY <2>1 DEF FlightsBusy
    <3> QED
      BY <3>2, <3>3, <3>4
  <2>2. ASSUME NEW t \in CThreads, call[t] # None, call[t].conn = c, call[t].mr = m
        PROVE  \E i \in Ids : Holds(c, i, m) /\ m \in busy
    <3>1. call[t].id \in Ids
      BY <2>2 DEF RequestInv, Typed, TypeOK, Call
    <3>2. Holds(c, call[t].id, m) /\ m \in busy
      BY <2>2 DEF RequestInv, RequestHolds, CallHolds, FlightsBusy
    <3> QED
      BY <3>1, <3>2
  <2> QED
    BY <1>2, <2>1, <2>2, SendQAfter
<1>5. PICK i \in Ids : Holds(c, i, m) /\ m \in busy
  BY <1>4
<1>6. Holds(c, i, m)'
  BY <1>3, <1>5, HoldsKept
<1> QED
  BY <1>2, <1>6 DEF Holds


(* The completions that are queued or polled at the server, at the client. *)
ServerEntries == Entries(scq) \cup UNION {Entries(swc[t]) : t \in SThreads}
ClientEntries == Entries(ccq) \cup UNION {Entries(cwc[t]) : t \in CThreads}

LEMMA EntriesTyped ==
  TypeOK => ServerEntries \subseteq ServerCqe /\ ClientEntries \subseteq ClientCqe
BY EntriesTypes DEF TypeOK, ServerEntries, ClientEntries

LEMMA ServerEntriesAre ==
  /\ \A e : e \in ServerEntries <=> e \in Entries(scq) \/ \E t \in SThreads : e \in Entries(swc[t])
  /\ \A e : e \in ServerEntries' <=> e \in Entries(scq') \/ \E t \in SThreads : e \in Entries(swc'[t])
BY DEF ServerEntries, Entries

LEMMA ClientEntriesAre ==
  /\ \A e : e \in ClientEntries <=> e \in Entries(ccq) \/ \E t \in CThreads : e \in Entries(cwc[t])
  /\ \A e : e \in ClientEntries' <=> e \in Entries(ccq') \/ \E t \in CThreads : e \in Entries(cwc'[t])
BY DEF ClientEntries, Entries

LEMMA ReceivedIsLive ==
  ASSUME NEW e \in ServerEntries, e.op = "recv"
  PROVE  e.slot \in LiveSlots
BY ServerEntriesAre, RecvCqesAre, LiveIs DEF RecvSlots

(* The request c delivers now, in slot s.                                  *)
ReceivedNow(c, m, s, e) ==
  /\ e.conn = c /\ e.slot = s /\ m \in Entries(sendQ[c])
  /\ srvBuf'[s] = [id |-> reqHdr[m], mr |-> m, val |-> reqBuf[m]]
  /\ UNCHANGED <<ctx, reqHdr, mp, cbk, reqBuf>>

LEMMA ReceivedAfter ==
  ASSUME RequestInv, [Next]_vars, NEW e \in ServerEntries', e.op = "recv"
  PROVE  \/ e \in ServerEntries
         \/ \E c \in Conns, m \in Mrs, s \in Slots : ReceivedNow(c, m, s, e)
<1>1. /\ scq \in Seq(ServerCqe) /\ swc \in [SThreads -> Seq(ServerCqe)]
  BY DEF RequestInv, Typed, TypeOK
<1>2. UNCHANGED <<scq, swc>> => e \in ServerEntries
  BY ServerEntriesAre
<1>3. ASSUME NEW t \in CThreads, ClientStep(t) PROVE UNCHANGED <<scq, swc>>
  BY <1>3 DEF ClientStep, SendReq, PostRecv, PostSend, SendFail, ClientPoll, OnSendReq,
     OnRecvResp, MempoolPut, serverVars
<1>4. ASSUME NEW c \in Conns, DeliverReq(c)
      PROVE  \/ e \in ServerEntries
             \/ \E m \in Mrs, s \in Slots : ReceivedNow(c, m, s, e)
  <2>1. sendQ[c] # <<>> /\ sendQ[c] \in Seq(Mrs)
    BY <1>4 DEF DeliverReq, RequestInv, Typed, TypeOK
  <2>2. PICK m \in Mrs : m = Head(sendQ[c]) /\ m \in Entries(sendQ[c])
    BY <2>1, EntriesMove, HeadTailProperties
  <2>3. PICK s \in Slots :
          /\ srvBuf' = [srvBuf EXCEPT ![s] = [id |-> reqHdr[m], mr |-> m,
                                              val |-> reqBuf[m]]]
          /\ scq' = Append(scq, [op |-> "recv", conn |-> c, slot |-> s, imm |-> m])
    BY <1>4, <2>2, DeliverReqLive DEF RequestInv
  <2> DEFINE x == [op |-> "recv", conn |-> c, slot |-> s, imm |-> m]
  <2>4. x \in ServerCqe /\ x.conn = c /\ x.slot = s /\ scq' = Append(scq, x)
    BY <2>3 DEF ServerCqe
  <2> HIDE DEF x
  <2>5. Entries(scq') \subseteq Entries(scq) \cup {x}
    BY <1>1, <2>4, EntriesMove
  <2>6. UNCHANGED <<swc, ctx, reqHdr, mp, cbk, reqBuf>>
    BY <1>4 DEF DeliverReq, clientVars, serverVars
  <2>7. srvBuf'[s] = [id |-> reqHdr[m], mr |-> m, val |-> reqBuf[m]]
    BY <2>3 DEF RequestInv, Typed, TypeOK
  <2>8. CASE e = x
    BY <2>2, <2>4, <2>6, <2>7, <2>8 DEF ReceivedNow
  <2>9. CASE e # x
    BY <2>5, <2>6, <2>9, ServerEntriesAre
  <2> QED
    BY <2>8, <2>9
<1>5. ASSUME NEW c \in Conns, AckWrite(c) PROVE e \in ServerEntries
  <2>1. writeAck[c] \in Seq(Write) /\ writeAck[c] # <<>>
    BY <1>5 DEF AckWrite, RequestInv, Typed, TypeOK
  <2>2. Head(writeAck[c]) \in Write
    BY <2>1, HeadTailProperties
  <2> DEFINE x == [op |-> "write", conn |-> c, slot |-> Head(writeAck[c]).slot, imm |-> None]
  <2>3. x \in ServerCqe /\ x.op # "recv" /\ scq' = Append(scq, x) /\ UNCHANGED swc
    BY <1>5, <2>2 DEF AckWrite, ServerCqe, Write, serverVars
  <2> HIDE DEF x
  <2>4. Entries(scq') \subseteq Entries(scq) \cup {x}
    BY <1>1, <2>3, EntriesMove
  <2> QED
    BY <2>3, <2>4, ServerEntriesAre
<1>6. ASSUME NEW c \in Conns, RnrNak(c) \/ AckReq(c) \/ DeliverResp(c)
      PROVE  UNCHANGED <<scq, swc>>
  BY <1>6 DEF RnrNak, AckReq, DeliverResp, serverVars
<1>7. ASSUME NEW t \in SThreads, ServerPoll(t) PROVE e \in ServerEntries
  <2>1. /\ swc'[t] = Polled(scq) /\ scq' = LeftInCq(scq)
        /\ \A u \in SThreads \ {t} : swc'[u] = swc[u]
    BY <1>1, <1>7 DEF ServerPoll
  <2>2. Entries(Polled(scq)) \subseteq Entries(scq) /\ Entries(LeftInCq(scq)) \subseteq Entries(scq)
    BY <1>1, EntriesMove
  <2> QED
    BY <2>1, <2>2, ServerEntriesAre
<1>8. ASSUME NEW t \in SThreads, OnRecvReq(t) \/ OnWriteRespDone(t)
      PROVE  e \in ServerEntries
  <2>1. /\ swc'[t] = Tail(swc[t]) /\ scq' = scq /\ swc[t] # <<>>
        /\ \A u \in SThreads \ {t} : swc'[u] = swc[u]
    BY <1>1, <1>8 DEF OnRecvReq, OnWriteRespDone, AtServerCqe
  <2>2. Entries(Tail(swc[t])) \subseteq Entries(swc[t])
    BY <1>1, <2>1, EntriesMove
  <2> QED
    BY <2>1, <2>2, ServerEntriesAre
<1>9. ASSUME NEW s \in Slots, MakeResp(s) PROVE UNCHANGED <<scq, swc>>
  BY <1>9 DEF MakeResp
<1>10. CASE UNCHANGED vars
  BY <1>10, <1>2 DEF vars, serverVars
<1> QED
  BY <1>2, <1>3, <1>4, <1>5, <1>6, <1>7, <1>8, <1>9, <1>10 DEF Next, WireStep, ServerStep

LEMMA ReceivedHoldsIs ==
  ReceivedHolds <=> \A e \in ServerEntries : e.op = "recv" => Carries(e.conn, e.slot)
BY RecvCqesAre, ServerEntriesAre DEF ReceivedHolds

LEMMA ReceivedHoldsStep ==
  ASSUME RequestInv, [Next]_vars, FlightsBusy, FlightsBusy', TypeOK'
  PROVE  ReceivedHolds'
<1>1. ASSUME NEW e \in ServerEntries', e.op = "recv" PROVE Carries(e.conn, e.slot)'
  <2>1. e \in ServerCqe
    <3>1. scq' \in Seq(ServerCqe) /\ \A t \in SThreads : swc'[t] \in Seq(ServerCqe)
      BY DEF TypeOK
    <3> QED
      BY <1>1, <3>1, ServerEntriesAre, EntriesTypes
  <2>2. PICK c \in Conns, s \in Slots : c = e.conn /\ s = e.slot
    BY <2>1 DEF ServerCqe
  <2>3. CASE e \in ServerEntries
    <3>1. s \in LiveSlots /\ Carries(c, s)
      BY <1>1, <2>2, <2>3, ReceivedIsLive, ReceivedHoldsIs DEF RequestInv, RequestHolds
    <3>2. s \in LiveSlots'
      BY <1>1, <2>2, ServerEntriesAre, RecvCqesAre, LiveIsNext DEF RecvSlots
    <3>3. Carries(c, s)'
      BY <3>1, <3>2, CarriesKept
    <3> QED
      BY <2>2, <3>3
  <2>4. ASSUME NEW m \in Mrs, ReceivedNow(c, m, s, e) PROVE Carries(c, s)'
    <3>1. PICK k \in DOMAIN sendQ[c] : m = sendQ[c][k]
      BY <2>4 DEF ReceivedNow, Entries
    <3>2. Holds(c, reqHdr[m], m)
      BY <3>1 DEF RequestInv, RequestHolds, SendQHolds
    <3>3. /\ srvBuf'[s].id = reqHdr[m] /\ srvBuf'[s].mr = m
          /\ srvBuf'[s].val = reqBuf[m]
          /\ UNCHANGED <<ctx, reqHdr, mp, cbk, reqBuf>>
      BY <2>4 DEF ReceivedNow
    <3> QED
      BY <3>2, <3>3 DEF Carries, Holds
  <2>5. \A d \in Conns, m \in Mrs, r \in Slots : ReceivedNow(d, m, r, e) => d = c /\ r = s
    BY <2>2 DEF ReceivedNow
  <2> QED
    BY <1>1, <2>2, <2>3, <2>4, <2>5, ReceivedAfter
<1>2. /\ \A e \in RecvCqes(scq') : e \in ServerEntries' /\ e.op = "recv"
      /\ \A t \in SThreads : \A e \in RecvCqes(swc'[t]) :
           e \in ServerEntries' /\ e.op = "recv"
  BY ServerEntriesAre, RecvCqesAre
<1> QED
  BY <1>1, <1>2 DEF ReceivedHolds, RecvCqes

LEMMA HandledAfter ==
  ASSUME RequestInv, [Next]_vars, NEW s \in handling'
  PROVE  s \in handling \/ \E t \in SThreads : OnRecvReq(t) /\ s = Head(swc[t]).slot
<1>1. ASSUME NEW t \in CThreads, ClientStep(t) PROVE UNCHANGED handling
  BY <1>1 DEF ClientStep, SendReq, PostRecv, PostSend, SendFail, ClientPoll, OnSendReq,
     OnRecvResp, MempoolPut, serverVars
<1>2. ASSUME NEW c \in Conns, WireStep(c) PROVE UNCHANGED handling
  BY <1>2 DEF WireStep, DeliverReq, RnrNak, AckReq, DeliverResp, AckWrite, serverVars
<1>3. ASSUME NEW t \in SThreads, ServerStep(t)
      PROVE  UNCHANGED handling \/ (OnRecvReq(t) /\ handling' = handling \cup {Head(swc[t]).slot})
  BY <1>3 DEF ServerStep, ServerPoll, OnRecvReq, OnWriteRespDone
<1>4. ASSUME NEW r \in Slots, MakeResp(r) PROVE handling' \subseteq handling
  BY <1>4 DEF MakeResp
<1>5. CASE UNCHANGED vars
  BY <1>5 DEF vars, serverVars
<1> QED
  BY <1>1, <1>2, <1>3, <1>4, <1>5 DEF Next

(* The completion at the head of a server thread's batch.                  *)
LEMMA NextReceived ==
  ASSUME RequestInv, NEW t \in SThreads, swc[t] # <<>>, Head(swc[t]).op = "recv"
  PROVE  \E e \in ServerCqe : \E c \in Conns : \E s \in Slots :
           /\ e = Head(swc[t]) /\ c = e.conn /\ s = e.slot
           /\ e \in ServerEntries /\ Carries(c, s)
<1>1. swc[t] \in Seq(ServerCqe)
  BY DEF RequestInv, Typed, TypeOK
<1>2. PICK e \in ServerCqe : e = Head(swc[t]) /\ e \in Entries(swc[t])
  BY <1>1, HeadTailProperties, EntriesMove
<1>3. PICK c \in Conns, s \in Slots : c = e.conn /\ s = e.slot
  BY <1>2 DEF ServerCqe
<1>4. e \in ServerEntries
  BY <1>2, ServerEntriesAre
<1>5. Carries(c, s)
  BY <1>2, <1>3, <1>4, ReceivedHoldsIs DEF RequestInv, RequestHolds
<1> QED
  BY <1>2, <1>3, <1>4, <1>5

LEMMA HandledHoldsStep ==
  ASSUME RequestInv, [Next]_vars, FlightsBusy, FlightsBusy', TypeOK'
  PROVE  HandledHolds'
<1> SUFFICES ASSUME NEW s \in handling'
             PROVE  /\ reqCtx'[s].id = srvBuf'[s].id /\ reqCtx'[s].mr = srvBuf'[s].mr
                    /\ Carries(reqCtx[s].conn, s)'
  BY DEF HandledHolds
<1>1. s \in Slots
  BY DEF TypeOK
<1>2. CASE s \in handling
  <2>1. /\ s \in ServedSlots /\ s \in ServedSlots'
        /\ s \in LiveSlots /\ s \in LiveSlots'
    BY <1>2, LiveIs, LiveIsNext
  <2>2. srvBuf'[s] = srvBuf[s] /\ reqCtx'[s] = reqCtx[s]
    BY <1>1, <2>1, ViewKept
  <2>3. reqCtx[s] \in ReqCtx
    BY <1>1, <1>2 DEF RequestInv, Typed, TypeOK, SlotFilled
  <2>4. PICK c \in Conns : c = reqCtx[s].conn
    BY <2>3 DEF ReqCtx
  <2>5. /\ reqCtx[s].id = srvBuf[s].id /\ reqCtx[s].mr = srvBuf[s].mr
        /\ Carries(c, s)
    BY <1>2, <2>4 DEF RequestInv, RequestHolds, HandledHolds
  <2>6. Carries(c, s)'
    BY <1>1, <2>1, <2>5, CarriesKept
  <2> QED
    BY <2>2, <2>4, <2>5, <2>6
<1>3. ASSUME NEW t \in SThreads, OnRecvReq(t), s = Head(swc[t]).slot
      PROVE  /\ reqCtx'[s].id = srvBuf'[s].id /\ reqCtx'[s].mr = srvBuf'[s].mr
             /\ Carries(reqCtx[s].conn, s)'
  <2>1. swc[t] # <<>> /\ Head(swc[t]).op = "recv"
    BY <1>3 DEF OnRecvReq, AtServerCqe
  <2>2. PICK c \in Conns : c = Head(swc[t]).conn /\ Carries(c, s)
    BY <1>3, <2>1, NextReceived
  <2>3. /\ reqCtx'[s] = [conn |-> c, rkey |-> Head(swc[t]).imm,
                         id |-> srvBuf[s].id, mr |-> srvBuf[s].mr]
        /\ UNCHANGED <<srvBuf, ctx, reqHdr, mp, cbk, reqBuf>>
    BY <1>1, <1>3, <2>2 DEF OnRecvReq, clientVars, RequestInv, Typed, TypeOK
  <2>4. Carries(c, s)'
    BY <2>2, <2>3 DEF Carries, Holds
  <2>5. /\ reqCtx'[s].conn = c /\ reqCtx'[s].id = srvBuf'[s].id
        /\ reqCtx'[s].mr = srvBuf'[s].mr
    BY <2>3
  <2> QED
    BY <2>4, <2>5
<1> QED
  BY <1>2, <1>3, HandledAfter

LEMMA WriteAfter ==
  ASSUME RequestInv, [Next]_vars, NEW c \in Conns, NEW w \in Entries(writeQ'[c])
  PROVE  \/ w \in Entries(writeQ[c])
         \/ \E s \in handling :
              /\ reqCtx[s].conn = c /\ w.slot = s
              /\ w.id = reqCtx[s].id /\ w.mr = reqCtx[s].mr
<1>1. writeQ \in [Conns -> Seq(Write)]
  BY DEF RequestInv, Typed, TypeOK
<1>2. ASSUME UNCHANGED writeQ PROVE w \in Entries(writeQ[c])
  BY <1>2
<1>3. ASSUME NEW t \in CThreads, ClientStep(t) PROVE UNCHANGED writeQ
  BY <1>3 DEF ClientStep, SendReq, PostRecv, PostSend, SendFail, ClientPoll, OnSendReq,
     OnRecvResp, MempoolPut, wireVars
<1>4. ASSUME NEW d \in Conns, DeliverResp(d) PROVE w \in Entries(writeQ[c])
  <2>1. writeQ' = [writeQ EXCEPT ![d] = Tail(writeQ[d])] /\ writeQ[d] # <<>>
    BY <1>4 DEF DeliverResp
  <2>2. d # c => writeQ'[c] = writeQ[c]
    BY <1>1, <2>1
  <2>3. d = c => writeQ'[c] = Tail(writeQ[c]) /\ writeQ[c] # <<>>
    BY <1>1, <2>1
  <2>4. writeQ[c] \in Seq(Write)
    BY <1>1
  <2> QED
    BY <2>2, <2>3, <2>4, EntriesMove
<1>5. ASSUME NEW d \in Conns, WireStep(d), ~ DeliverResp(d) PROVE UNCHANGED writeQ
  BY <1>5 DEF WireStep, DeliverReq, RnrNak, AckReq, AckWrite, wireVars
<1>6. ASSUME NEW t \in SThreads, ServerStep(t) PROVE UNCHANGED writeQ
  BY <1>6 DEF ServerStep, ServerPoll, OnRecvReq, OnWriteRespDone, wireVars
<1>7. ASSUME NEW s \in Slots, MakeResp(s), ~ UNCHANGED writeQ
      PROVE  \/ w \in Entries(writeQ[c])
             \/ /\ s \in handling /\ reqCtx[s].conn = c /\ w.slot = s
                /\ w.id = reqCtx[s].id /\ w.mr = reqCtx[s].mr
  <2> DEFINE x == [slot |-> s, id |-> reqCtx[s].id, mr |-> reqCtx[s].mr,
                   rkey |-> reqCtx[s].rkey]
  <2>1. /\ s \in handling
        /\ writeQ' = [writeQ EXCEPT ![reqCtx[s].conn] = Append(@, x)]
    BY <1>7 DEF MakeResp
  <2>2. reqCtx[s] \in ReqCtx
    BY <2>1 DEF RequestInv, Typed, TypeOK, SlotFilled
  <2>3. x \in Write /\ x.slot = s /\ x.id = reqCtx[s].id /\ x.mr = reqCtx[s].mr
    BY <2>2 DEF ReqCtx, Write
  <2>4. PICK d \in Conns : d = reqCtx[s].conn
    BY <2>2 DEF ReqCtx
  <2> HIDE DEF x
  <2>5. d # c => writeQ'[c] = writeQ[c]
    BY <1>1, <2>1, <2>4
  <2>6. d = c => writeQ'[c] = Append(writeQ[c], x) /\ writeQ[c] \in Seq(Write)
    BY <1>1, <2>1, <2>4
  <2>7. d = c => w \in Entries(writeQ[c]) \cup {x}
    BY <2>3, <2>6, EntriesMove
  <2> QED
    BY <2>1, <2>3, <2>4, <2>5, <2>7
<1>8. CASE UNCHANGED vars
  BY <1>8, <1>2 DEF vars, wireVars
<1> QED
  BY <1>2, <1>3, <1>4, <1>5, <1>6, <1>7, <1>8 DEF Next

LEMMA WriteHoldsStep ==
  ASSUME RequestInv, [Next]_vars, FlightsBusy, FlightsBusy', TypeOK'
  PROVE  WriteHolds'
<1> SUFFICES ASSUME NEW c \in Conns, NEW k \in DOMAIN writeQ'[c]
             PROVE  /\ writeQ'[c][k].id = srvBuf'[writeQ'[c][k].slot].id
                    /\ writeQ'[c][k].mr = srvBuf'[writeQ'[c][k].slot].mr
                    /\ Carries(c, writeQ[c][k].slot)'
  BY DEF WriteHolds
<1>1. writeQ'[c] \in Seq(Write)
  BY DEF TypeOK
<1>2. PICK w \in Write : w = writeQ'[c][k] /\ w \in Entries(writeQ'[c])
  BY <1>1, EntriesTypes DEF Entries
<1>3. PICK s \in Slots : s = w.slot
  BY <1>2 DEF Write
<1>4. s \in LiveSlots'
  <2>1. s \in SlotsOf(writeQ'[c])
    BY <1>2, <1>3 DEF SlotsOf
  <2> QED
    BY <2>1, LiveIsNext
<1>5. s \in LiveSlots /\ w.id = srvBuf[s].id /\ w.mr = srvBuf[s].mr /\ Carries(c, s)
  <2>1. CASE w \in Entries(writeQ[c])
    <3>1. PICK j \in DOMAIN writeQ[c] : w = writeQ[c][j]
      BY <2>1 DEF Entries
    <3>2. s \in SlotsOf(writeQ[c])
      BY <1>3, <3>1 DEF SlotsOf
    <3> QED
      BY <1>3, <3>1, <3>2, LiveIs DEF RequestInv, RequestHolds, WriteHolds
  <2>2. ASSUME NEW r \in handling, reqCtx[r].conn = c, w.slot = r,
               w.id = reqCtx[r].id, w.mr = reqCtx[r].mr
        PROVE  s \in LiveSlots /\ w.id = srvBuf[s].id /\ w.mr = srvBuf[s].mr /\ Carries(c, s)
    <3>1. r = s /\ s \in LiveSlots
      BY <1>3, <2>2, LiveIs
    <3>2. /\ reqCtx[s].id = srvBuf[s].id /\ reqCtx[s].mr = srvBuf[s].mr
          /\ Carries(c, s)
      BY <2>2, <3>1 DEF RequestInv, RequestHolds, HandledHolds
    <3> QED
      BY <2>2, <3>1, <3>2
  <2> QED
    BY <1>2, <2>1, <2>2, WriteAfter
<1>6. srvBuf'[s] = srvBuf[s]
  BY <1>4, <1>5, ViewKept
<1>7. Carries(c, s)'
  BY <1>4, <1>5, CarriesKept
<1> QED
  BY <1>2, <1>3, <1>5, <1>6, <1>7

(* The response c delivers now, with which the client will call back.      *)
AnsweredNow(c, e) ==
  \E i \in Ids, m \in Mrs :
    /\ e.conn = c /\ e.id = i /\ Holds(c, i, m)
    /\ respBuf'[m] = reqBuf[m]
    /\ UNCHANGED <<ctx, reqHdr, mp, cbk, reqBuf>>

LEMMA AnswerAfter ==
  ASSUME RequestInv, [Next]_vars, NEW e \in ClientEntries', e.op = "recv"
  PROVE  e \in ClientEntries \/ \E c \in Conns : AnsweredNow(c, e)
<1>1. ccq \in Seq(ClientCqe) /\ cwc \in [CThreads -> Seq(ClientCqe)]
  BY DEF RequestInv, Typed, TypeOK
<1>2. UNCHANGED <<ccq, cwc>> => e \in ClientEntries
  BY ClientEntriesAre
<1>3. ASSUME NEW t \in CThreads, ClientPoll(t) PROVE e \in ClientEntries
  <2>1. /\ cwc'[t] = Polled(ccq) /\ ccq' = LeftInCq(ccq)
        /\ \A u \in CThreads \ {t} : cwc'[u] = cwc[u]
    BY <1>1, <1>3 DEF ClientPoll
  <2>2. Entries(Polled(ccq)) \subseteq Entries(ccq) /\ Entries(LeftInCq(ccq)) \subseteq Entries(ccq)
    BY <1>1, EntriesMove
  <2> QED
    BY <2>1, <2>2, ClientEntriesAre
<1>4. ASSUME NEW t \in CThreads, OnSendReq(t) \/ OnRecvResp(t)
      PROVE  e \in ClientEntries
  <2>1. /\ cwc'[t] = Tail(cwc[t]) /\ ccq' = ccq /\ cwc[t] # <<>>
        /\ \A u \in CThreads \ {t} : cwc'[u] = cwc[u]
    BY <1>1, <1>4 DEF OnSendReq, OnRecvResp, AtClientCqe
  <2>2. Entries(Tail(cwc[t])) \subseteq Entries(cwc[t])
    BY <1>1, <2>1, EntriesMove
  <2> QED
    BY <2>1, <2>2, ClientEntriesAre
<1>5. ASSUME NEW t \in CThreads, ClientStep(t) PROVE e \in ClientEntries
  <2>1. CASE ~ (ClientPoll(t) \/ OnSendReq(t) \/ OnRecvResp(t))
    <3>1. UNCHANGED <<ccq, cwc>>
      BY <1>5, <2>1 DEF ClientStep, SendReq, PostRecv, PostSend, SendFail, MempoolPut,
         clientVars
    <3> QED
      BY <1>2, <3>1
  <2> QED
    BY <1>3, <1>4, <2>1
<1>6. ASSUME NEW c \in Conns, DeliverResp(c)
      PROVE  e \in ClientEntries \/ AnsweredNow(c, e)
  <2>1. writeQ[c] # <<>>
    BY <1>6 DEF DeliverResp
  <2>2. PICK w \in Write, s \in Slots, m \in Mrs :
          /\ w = Head(writeQ[c]) /\ s = w.slot /\ m = w.mr
          /\ m = srvBuf[s].mr /\ w.id = srvBuf[s].id
          /\ Carries(c, s) /\ ctx[c][w.id] = m
    BY <2>1, NextWrite
  <2>3. PICK i \in Ids : i = w.id
    BY DEF Write
  <2> DEFINE x == [op |-> "recv", conn |-> c, id |-> i]
  <2>4. x \in ClientCqe /\ x.conn = c /\ x.id = i /\ ccq' = Append(ccq, x)
    BY <1>6, <2>2, <2>3 DEF DeliverResp, ClientCqe
  <2> HIDE DEF x
  <2>5. Entries(ccq') \subseteq Entries(ccq) \cup {x}
    BY <1>1, <2>4, EntriesMove
  <2>6. UNCHANGED <<cwc, ctx, reqHdr, mp, cbk, reqBuf>>
    BY <1>6 DEF DeliverResp, clientVars
  <2>7. respBuf' = [respBuf EXCEPT ![m] = srvBuf[s].val]
    BY <1>6, <2>2 DEF DeliverResp
  <2>8. respBuf'[m] = reqBuf[m] /\ Holds(c, i, m)
    BY <2>2, <2>3, <2>7 DEF Carries, RequestInv, Typed, TypeOK
  <2>9. CASE e = x
    BY <2>3, <2>4, <2>6, <2>8, <2>9 DEF AnsweredNow
  <2>10. CASE e # x
    BY <2>5, <2>6, <2>10, ClientEntriesAre
  <2> QED
    BY <2>9, <2>10
<1>7. ASSUME NEW c \in Conns, AckReq(c) PROVE e \in ClientEntries
  <2> DEFINE x == [op |-> "send", conn |-> c, id |-> None]
  <2>1. x \in ClientCqe /\ x.op # "recv" /\ ccq' = Append(ccq, x) /\ UNCHANGED cwc
    BY <1>7 DEF AckReq, ClientCqe, clientVars
  <2> HIDE DEF x
  <2>2. Entries(ccq') \subseteq Entries(ccq) \cup {x}
    BY <1>1, <2>1, EntriesMove
  <2> QED
    BY <2>1, <2>2, ClientEntriesAre
<1>8. ASSUME NEW c \in Conns, DeliverReq(c) \/ RnrNak(c) \/ AckWrite(c)
      PROVE  UNCHANGED <<ccq, cwc>>
  BY <1>8 DEF DeliverReq, RnrNak, AckWrite, clientVars
<1>9. ASSUME NEW t \in SThreads, ServerStep(t) PROVE UNCHANGED <<ccq, cwc>>
  BY <1>9 DEF ServerStep, ServerPoll, OnRecvReq, OnWriteRespDone, clientVars
<1>10. ASSUME NEW s \in Slots, MakeResp(s) PROVE UNCHANGED <<ccq, cwc>>
  BY <1>10 DEF MakeResp, clientVars
<1>11. CASE UNCHANGED vars
  BY <1>11, <1>2 DEF vars, clientVars
<1> QED
  BY <1>2, <1>5, <1>6, <1>7, <1>8, <1>9, <1>10, <1>11 DEF Next, WireStep

LEMMA AnswerHoldsIs ==
  AnswerHolds <=> \A e \in ClientEntries : e.op = "recv" => Answered(e)
BY RecvCqesAre, ClientEntriesAre DEF AnswerHolds

(* A completion of the client and the buffer pair its context leads to.    *)
LEMMA AnswersBusy ==
  ASSUME FlightsBusy, NEW e \in ClientEntries, e.op = "recv", ctx[e.conn][e.id] # None
  PROVE  ctx[e.conn][e.id] \in busy
BY ClientEntriesAre, RecvCqesAre DEF FlightsBusy

LEMMA AnswersBusyNext ==
  ASSUME FlightsBusy', NEW e \in ClientEntries', e.op = "recv", ctx'[e.conn][e.id] # None
  PROVE  ctx'[e.conn][e.id] \in busy'
<1>1. \/ e \in RecvCqes(ccq')
      \/ \E t \in CThreads : e \in RecvCqes(cwc'[t])
  BY ClientEntriesAre, RecvCqesAre
<1> QED
  BY <1>1 DEF FlightsBusy, RecvCqes

LEMMA AnswerHoldsStep ==
  ASSUME RequestInv, [Next]_vars, FlightsBusy, FlightsBusy', TypeOK'
  PROVE  AnswerHolds'
<1>1. ASSUME NEW e \in ClientEntries', e.op = "recv" PROVE Answered(e)'
  <2>1. e \in ClientCqe
    <3>1. ccq' \in Seq(ClientCqe) /\ \A t \in CThreads : cwc'[t] \in Seq(ClientCqe)
      BY DEF TypeOK
    <3> QED
      BY <1>1, <3>1, ClientEntriesAre, EntriesTypes
  <2>2. CASE e \in ClientEntries
    <3>1. Answered(e)
      BY <1>1, <2>2, AnswerHoldsIs DEF RequestInv, RequestHolds
    <3>2. ctx[e.conn][e.id] \in busy
      <4>1. ctx[e.conn][e.id] # None
        BY <3>1, NoneIsNew DEF Answered
      <4> QED
        BY <1>1, <2>2, <4>1, AnswersBusy
    <3>3. ctx'[e.conn][e.id] # None => ctx'[e.conn][e.id] \in busy'
      BY <1>1, AnswersBusyNext
    <3> QED
      BY <1>1, <2>1, <3>1, <3>2, <3>3, AnsweredKept
  <2>3. ASSUME NEW c \in Conns, AnsweredNow(c, e) PROVE Answered(e)'
    <3>1. PICK i \in Ids, m \in Mrs :
            /\ e.conn = c /\ e.id = i /\ Holds(c, i, m)
            /\ respBuf'[m] = reqBuf[m]
            /\ UNCHANGED <<ctx, reqHdr, mp, cbk, reqBuf>>
      BY <2>3 DEF AnsweredNow
    <3>2. ctx'[c][i] = m /\ Holds(c, i, m)'
      BY <3>1 DEF Holds
    <3>3. respBuf'[m] = reqBuf'[m]
      BY <3>1
    <3> QED
      BY <3>1, <3>2, <3>3 DEF Answered
  <2> QED
    BY <1>1, <2>2, <2>3, AnswerAfter
<1>2. /\ \A e \in RecvCqes(ccq') : e \in ClientEntries' /\ e.op = "recv"
      /\ \A t \in CThreads : \A e \in RecvCqes(cwc'[t]) :
           e \in ClientEntries' /\ e.op = "recv"
  BY ClientEntriesAre, RecvCqesAre
<1> QED
  BY <1>1, <1>2 DEF AnswerHolds, RecvCqes

LEMMA CallbackHoldsStep ==
  ASSUME RequestInv, [Next]_vars
  PROVE  CallbackHolds'
<1>1. /\ mp \in [Conns -> SUBSET Ids]
      /\ cbk \in [CThreads -> [conn : Conns, id : Ids] \cup {None}]
  BY DEF RequestInv, Typed, TypeOK
<1>2. CASE UNCHANGED <<mp, cbk>>
  BY <1>2 DEF RequestInv, CallbackHolds
<1>3. ASSUME NEW t \in CThreads, NEW c \in Conns, NEW m \in Mrs, NEW v \in Vals,
             SendReq(t, c, m, v)
      PROVE  CallbackHolds'
  <2>1. /\ UNCHANGED cbk /\ \A d \in Conns : mp'[d] \subseteq mp[d]
    BY <1>1, <1>3 DEF SendReq, clientVars
  <2>2. \A u \in CThreads : cbk[u] # None => cbk[u].conn \in Conns
    BY <1>1
  <2> QED
    BY <2>1, <2>2 DEF RequestInv, CallbackHolds
<1>4. ASSUME NEW t \in CThreads, OnRecvResp(t) PROVE CallbackHolds'
  <2>1. Head(cwc[t]) \in ClientCqe /\ Head(cwc[t]).op = "recv" /\ Answered(Head(cwc[t]))
    BY <1>4, OnRecvRespSited
  <2>2. PICK c \in Conns, i \in Ids : c = Head(cwc[t]).conn /\ i = Head(cwc[t]).id
    BY <2>1, RecvTypes
  <2> DEFINE k == [conn |-> c, id |-> i]
  <2>3. /\ i \notin mp[c] /\ \A u \in CThreads : cbk[u] # k
    BY <2>1, <2>2 DEF Answered, Holds
  <2>4. cbk' = [cbk EXCEPT ![t] = k] /\ UNCHANGED mp
    BY <1>4, <2>2 DEF OnRecvResp
  <2>5. k.conn = c /\ k.id = i
    OBVIOUS
  <2> HIDE DEF k
  <2>6. cbk'[t] = k /\ \A u \in CThreads \ {t} : cbk'[u] = cbk[u]
    BY <1>1, <2>4
  <2> QED
    BY <2>3, <2>4, <2>5, <2>6 DEF RequestInv, CallbackHolds
<1>5. ASSUME NEW t \in CThreads, MempoolPut(t) PROVE CallbackHolds'
  <2>1. cbk[t] # None /\ cbk[t] \in [conn : Conns, id : Ids]
    BY <1>1, <1>5 DEF MempoolPut
  <2>2. PICK c \in Conns, i \in Ids : c = cbk[t].conn /\ i = cbk[t].id
    BY <2>1
  <2>3. /\ mp' = [mp EXCEPT ![c] = @ \cup {i}] /\ cbk' = [cbk EXCEPT ![t] = None]
    BY <1>5, <2>2 DEF MempoolPut
  <2>4. /\ mp'[c] = mp[c] \cup {i} /\ \A d \in Conns \ {c} : mp'[d] = mp[d]
        /\ cbk'[t] = None /\ \A u \in CThreads \ {t} : cbk'[u] = cbk[u]
    BY <1>1, <2>3
  <2>5. ASSUME NEW u \in CThreads \ {t}, cbk[u] # None
        PROVE  /\ cbk[u].id \notin mp'[cbk[u].conn]
               /\ \A x \in CThreads \ {u} : cbk'[x] # cbk[u]
    <3>1. cbk[u] \in [conn : Conns, id : Ids] /\ cbk[u] # cbk[t]
      BY <1>1, <2>1, <2>5 DEF RequestInv, CallbackHolds
    <3>2. cbk[u].conn # c \/ cbk[u].id # i
      BY <2>1, <2>2, <3>1
    <3>3. cbk[u].id \notin mp[cbk[u].conn] /\ \A x \in CThreads \ {u} : cbk[x] # cbk[u]
      BY <2>5 DEF RequestInv, CallbackHolds
    <3> QED
      BY <2>4, <2>5, <3>1, <3>2, <3>3
  <2> QED
    BY <2>4, <2>5 DEF CallbackHolds
<1>6. ASSUME NEW t \in CThreads, ClientStep(t) PROVE CallbackHolds'
  <2>1. CASE PostRecv(t) \/ PostSend(t) \/ ClientPoll(t) \/ OnSendReq(t)
    BY <1>2, <2>1 DEF PostRecv, PostSend, SendFail, ClientPoll, OnSendReq
  <2> QED
    BY <1>3, <1>4, <1>5, <1>6, <2>1 DEF ClientStep
<1>7. ASSUME NEW c \in Conns, WireStep(c) PROVE UNCHANGED <<mp, cbk>>
  BY <1>7 DEF WireStep, DeliverReq, RnrNak, AckReq, DeliverResp, AckWrite, clientVars
<1>8. ASSUME NEW t \in SThreads, ServerStep(t) PROVE UNCHANGED <<mp, cbk>>
  BY <1>8 DEF ServerStep, ServerPoll, OnRecvReq, OnWriteRespDone, clientVars
<1>9. ASSUME NEW s \in Slots, MakeResp(s) PROVE UNCHANGED <<mp, cbk>>
  BY <1>9 DEF MakeResp, clientVars
<1>10. CASE UNCHANGED vars
  BY <1>2, <1>10 DEF vars, clientVars
<1> QED
  BY <1>2, <1>6, <1>7, <1>8, <1>9, <1>10 DEF Next

-----------------------------------------------------------------------------
(* The invariant holds.                                                    *)

LEMMA RequestInvInit == Init => RequestInv
BY TypedInit, SlotsInit, RequestsSitedInit, RequestHoldsInit DEF RequestInv

LEMMA RequestInvStep == RequestInv /\ [Next]_vars => RequestInv'
<1> SUFFICES ASSUME RequestInv, [Next]_vars PROVE RequestInv'
  OBVIOUS
<1>1. Typed' /\ SlotConserved' /\ RequestsSited'
  BY TypedStep, SlotsStep, RequestsSitedStep DEF RequestInv
<1>2. FlightsBusy /\ FlightsBusy'
  BY <1>1, SitedBusy, SitedBusyNext DEF RequestInv
<1>3. TypeOK' /\ RequestFilled'
  BY <1>1 DEF Typed
<1>4. RequestHolds'
  BY <1>2, <1>3, CallHoldsStep, SendQHoldsStep, ReceivedHoldsStep, HandledHoldsStep,
     WriteHoldsStep, AnswerHoldsStep DEF RequestHolds
<1> QED
  BY <1>1, <1>4, CallbackHoldsStep DEF RequestInv

(* The inductive invariant of the requests: where they are, what is with   *)
(* them there, and what a callback finds.                                  *)
THEOREM AlwaysRequestInv == Safety => []RequestInv
BY RequestInvInit, RequestInvStep, PTL DEF Safety

-----------------------------------------------------------------------------
(* What it says of the responses.                                          *)

LEMMA InvMatches == RequestInv => ResponseMatches
<1> SUFFICES ASSUME RequestInv,
                    NEW e \in RecvCqes(ccq) \cup UNION {RecvCqes(cwc[t]) : t \in CThreads}
             PROVE  LET m == ctx[e.conn][e.id] IN
                      /\ e.id \notin mp[e.conn]
                      /\ m \in busy /\ reqHdr[m] = e.id
                      /\ respBuf[m] = reqBuf[m]
  BY DEF ResponseMatches
<1>1. e \in ClientEntries /\ e.op = "recv"
  BY RecvCqesAre, ClientEntriesAre
<1>2. Answered(e)
  BY <1>1, AnswerHoldsIs DEF RequestInv, RequestHolds
<1>3. ctx[e.conn][e.id] # None
  BY <1>2, NoneIsNew DEF Answered
<1>4. ctx[e.conn][e.id] \in busy
  BY <1>1, <1>3, AnswersBusy, SitedBusy DEF RequestInv
<1> QED
  BY <1>2, <1>4 DEF Answered, Holds

(* The immediate data of a response names a context in use, of a request   *)
(* that is outstanding and whose answer is in its buffer, however many     *)
(* connections, buffers, threads and slots there are.                      *)
THEOREM ResponsesMatch == Safety => []ResponseMatches
BY AlwaysRequestInv, InvMatches, PTL

(* x is the place of the request in m at the site p.                       *)
PlaceAt(x, p, m) ==
  \/ \E t \in CThreads : /\ p = Call_(t) /\ x = <<"call", t>>
                         /\ call[t] # None /\ call[t].mr = m
  \/ \E c \in Conns : \E i \in DOMAIN sendQ[c] :
       p = SendQ_(c) /\ x = <<"sendQ", c, i>> /\ sendQ[c][i] = m
  \/ \E s \in LiveSlots : p = Slot_(s) /\ x = <<"slot", s>> /\ srvBuf[s].mr = m
  \/ \E i \in DOMAIN ccq : p = Ccq_ /\ x = <<"ccq", i>> /\ Answers[ccq[i]] = m
  \/ \E t \in CThreads : \E i \in DOMAIN cwc[t] :
       p = Cwc_(t) /\ x = <<"cwc", t, i>> /\ Answers[cwc[t][i]] = m

LEMMA PlacesAreAt ==
  ASSUME TypeOK, NEW m \in Mrs, NEW x
  PROVE  x \in RequestPlaces(m) <=> \E p \in RequestSites : PlaceAt(x, p, m)
<1>1. m # None
  BY NoneIsNew
<1>2. \A e \in ClientCqe : Answers[e] = m <=> e.op = "recv" /\ ctx[e.conn][e.id] = m
  BY <1>1, RecvTypes
<1>3. /\ \A i \in DOMAIN ccq : Answers[ccq[i]] = m <=>
           ccq[i].op = "recv" /\ ctx[ccq[i].conn][ccq[i].id] = m
      /\ \A t \in CThreads : \A i \in DOMAIN cwc[t] : Answers[cwc[t][i]] = m <=>
           cwc[t][i].op = "recv" /\ ctx[cwc[t][i].conn][cwc[t][i].id] = m
  BY <1>2, ClientCqes
<1>4. x \in RequestPlaces(m) <=>
        \/ \E t \in CThreads : x = <<"call", t>> /\ call[t] # None /\ call[t].mr = m
        \/ \E c \in Conns : \E i \in DOMAIN sendQ[c] :
             x = <<"sendQ", c, i>> /\ sendQ[c][i] = m
        \/ \E s \in LiveSlots : x = <<"slot", s>> /\ srvBuf[s].mr = m
        \/ \E i \in DOMAIN ccq : x = <<"ccq", i>> /\ Answers[ccq[i]] = m
        \/ \E t \in CThreads : \E i \in DOMAIN cwc[t] :
             x = <<"cwc", t, i>> /\ Answers[cwc[t][i]] = m
  <2> DEFINE
        inCall  == {<<"call", t>> : t \in {u \in CThreads : call[u] # None /\ call[u].mr = m}}
        inSendQ == UNION {{<<"sendQ", c, i>> : i \in {j \in DOMAIN sendQ[c] :
                                                      sendQ[c][j] = m}} : c \in Conns}
        inSlot  == {<<"slot", s>> : s \in {r \in LiveSlots : srvBuf[r].mr = m}}
        inCcq   == {<<"ccq", i>> : i \in {j \in DOMAIN ccq :
                      ccq[j].op = "recv" /\ ctx[ccq[j].conn][ccq[j].id] = m}}
        inCwc   == UNION {{<<"cwc", t, i>> : i \in {j \in DOMAIN cwc[t] :
                      cwc[t][j].op = "recv" /\ ctx[cwc[t][j].conn][cwc[t][j].id] = m}} :
                          t \in CThreads}
  <2>1. x \in inCall <=>
          \E t \in CThreads : x = <<"call", t>> /\ call[t] # None /\ call[t].mr = m
    OBVIOUS
  <2>2. x \in inSendQ <=> \E c \in Conns : \E i \in DOMAIN sendQ[c] :
                            x = <<"sendQ", c, i>> /\ sendQ[c][i] = m
    OBVIOUS
  <2>3. x \in inSlot <=> \E s \in LiveSlots : x = <<"slot", s>> /\ srvBuf[s].mr = m
    OBVIOUS
  <2>4. x \in inCcq <=> \E i \in DOMAIN ccq : x = <<"ccq", i>> /\ Answers[ccq[i]] = m
    BY <1>3
  <2>5. x \in inCwc <=> \E t \in CThreads : \E i \in DOMAIN cwc[t] :
                          x = <<"cwc", t, i>> /\ Answers[cwc[t][i]] = m
    BY <1>3
  <2>6. RequestPlaces(m) = inCall \cup inSendQ \cup inSlot \cup inCcq \cup inCwc
    BY DEF RequestPlaces
  <2> HIDE DEF inCall, inSendQ, inSlot, inCcq, inCwc
  <2>7. x \in RequestPlaces(m) <=> \/ x \in inCall \/ x \in inSendQ \/ x \in inSlot
                                  \/ x \in inCcq \/ x \in inCwc
    BY <2>6
  <2> QED
    BY <2>1, <2>2, <2>3, <2>4, <2>5, <2>7
<1>5. \A s \in LiveSlots : s \in Slots
  BY LiveAreSlots
<1> QED
  BY <1>4, <1>5, SitesAre DEF PlaceAt

LEMMA PlaceOfSite ==
  ASSUME Typed, NEW m \in Mrs, NEW p \in RequestSites
  PROVE  m \in MrsAt(p) <=> \E x : PlaceAt(x, p, m)
<1>1. m # None
  BY NoneIsNew
<1>2. ASSUME NEW q, NEW key PROVE m \in Keys(q, key) <=> \E i \in DOMAIN q : key[q[i]] = m
  BY <1>1 DEF Keys
<1>3. ASSUME NEW t \in CThreads, p = Call_(t)
      PROVE  m \in MrsAt(p) <=> \E x : PlaceAt(x, p, m)
  <2>1. m \in MrsAt(p) <=> call[t] # None /\ call[t].mr = m
    BY <1>3, MrsAtSites
  <2>2. \A x : PlaceAt(x, p, m) => call[t] # None /\ call[t].mr = m
    BY <1>3 DEF PlaceAt, Call_, SendQ_, Slot_, Ccq_, Cwc_
  <2>3. call[t] # None /\ call[t].mr = m => PlaceAt(<<"call", t>>, p, m)
    BY <1>3 DEF PlaceAt
  <2> QED
    BY <2>1, <2>2, <2>3
<1>4. ASSUME NEW c \in Conns, p = SendQ_(c)
      PROVE  m \in MrsAt(p) <=> \E x : PlaceAt(x, p, m)
  <2>1. \A i \in DOMAIN sendQ[c] : Itself[sendQ[c][i]] = sendQ[c][i]
    BY ElementOfSeq, LenProperties DEF Itself, Typed, TypeOK
  <2>2. m \in MrsAt(p) <=> \E i \in DOMAIN sendQ[c] : sendQ[c][i] = m
    BY <1>2, <1>4, <2>1, MrsAtSites
  <2>3. \A x : PlaceAt(x, p, m) => \E i \in DOMAIN sendQ[c] : sendQ[c][i] = m
    BY <1>4 DEF PlaceAt, Call_, SendQ_, Slot_, Ccq_, Cwc_
  <2>4. \A i \in DOMAIN sendQ[c] : sendQ[c][i] = m => PlaceAt(<<"sendQ", c, i>>, p, m)
    BY <1>4 DEF PlaceAt
  <2> QED
    BY <2>2, <2>3, <2>4
<1>5. ASSUME NEW s \in Slots, p = Slot_(s)
      PROVE  m \in MrsAt(p) <=> \E x : PlaceAt(x, p, m)
  <2>1. m \in MrsAt(p) <=> s \in LiveSlots /\ srvBuf[s].mr = m
    BY <1>5, MrsAtSites
  <2>2. \A x : PlaceAt(x, p, m) => s \in LiveSlots /\ srvBuf[s].mr = m
    BY <1>5 DEF PlaceAt, Call_, SendQ_, Slot_, Ccq_, Cwc_
  <2>3. s \in LiveSlots /\ srvBuf[s].mr = m => PlaceAt(<<"slot", s>>, p, m)
    BY <1>5 DEF PlaceAt
  <2> QED
    BY <2>1, <2>2, <2>3
<1>6. ASSUME p = Ccq_ PROVE m \in MrsAt(p) <=> \E x : PlaceAt(x, p, m)
  <2>1. m \in MrsAt(p) <=> \E i \in DOMAIN ccq : Answers[ccq[i]] = m
    BY <1>2, <1>6, MrsAtSites
  <2>2. \A x : PlaceAt(x, p, m) => \E i \in DOMAIN ccq : Answers[ccq[i]] = m
    BY <1>6 DEF PlaceAt, Call_, SendQ_, Slot_, Ccq_, Cwc_
  <2>3. \A i \in DOMAIN ccq : Answers[ccq[i]] = m => PlaceAt(<<"ccq", i>>, p, m)
    BY <1>6 DEF PlaceAt
  <2> QED
    BY <2>1, <2>2, <2>3
<1>7. ASSUME NEW t \in CThreads, p = Cwc_(t)
      PROVE  m \in MrsAt(p) <=> \E x : PlaceAt(x, p, m)
  <2>1. m \in MrsAt(p) <=> \E i \in DOMAIN cwc[t] : Answers[cwc[t][i]] = m
    BY <1>2, <1>7, MrsAtSites
  <2>2. \A x : PlaceAt(x, p, m) => \E i \in DOMAIN cwc[t] : Answers[cwc[t][i]] = m
    BY <1>7 DEF PlaceAt, Call_, SendQ_, Slot_, Ccq_, Cwc_
  <2>3. \A i \in DOMAIN cwc[t] : Answers[cwc[t][i]] = m => PlaceAt(<<"cwc", t, i>>, p, m)
    BY <1>7 DEF PlaceAt
  <2> QED
    BY <2>1, <2>2, <2>3
<1> QED
  BY <1>3, <1>4, <1>5, <1>6, <1>7, SiteKinds

(* At a site the request is once.                                          *)
LEMMA PlaceOnce ==
  ASSUME RequestQueuedOnce, TypeOK, NEW m \in Mrs, NEW p \in RequestSites,
         NEW x, NEW y, PlaceAt(x, p, m), PlaceAt(y, p, m)
  PROVE  x = y
<1>1. m # None
  BY NoneIsNew
<1>2. \A c \in Conns : \A i \in DOMAIN sendQ[c] : Itself[sendQ[c][i]] = sendQ[c][i]
  BY ElementOfSeq, LenProperties DEF Itself, TypeOK
<1>3. \A c \in Conns : \A i, j \in DOMAIN sendQ[c] :
        sendQ[c][i] = m /\ sendQ[c][j] = m => i = j
  BY <1>1, <1>2 DEF RequestQueuedOnce, KeyedOnce
<1>4. \A i, j \in DOMAIN ccq : Answers[ccq[i]] = m /\ Answers[ccq[j]] = m => i = j
  BY <1>1 DEF RequestQueuedOnce, KeyedOnce
<1>5. \A t \in CThreads : \A i, j \in DOMAIN cwc[t] :
        Answers[cwc[t][i]] = m /\ Answers[cwc[t][j]] = m => i = j
  BY <1>1 DEF RequestQueuedOnce, KeyedOnce
<1>6. ASSUME NEW t \in CThreads, p = Call_(t), x = <<"call", t>> PROVE x = y
  BY <1>6 DEF PlaceAt, Call_, SendQ_, Slot_, Ccq_, Cwc_
<1>7. ASSUME NEW c \in Conns, NEW i \in DOMAIN sendQ[c], p = SendQ_(c),
             x = <<"sendQ", c, i>>, sendQ[c][i] = m
      PROVE  x = y
  BY <1>3, <1>7 DEF PlaceAt, Call_, SendQ_, Slot_, Ccq_, Cwc_
<1>8. ASSUME NEW s \in LiveSlots, p = Slot_(s), x = <<"slot", s>> PROVE x = y
  BY <1>8 DEF PlaceAt, Call_, SendQ_, Slot_, Ccq_, Cwc_
<1>9. ASSUME NEW i \in DOMAIN ccq, p = Ccq_, x = <<"ccq", i>>, Answers[ccq[i]] = m
      PROVE  x = y
  BY <1>4, <1>9 DEF PlaceAt, Call_, SendQ_, Slot_, Ccq_, Cwc_
<1>10. ASSUME NEW t \in CThreads, NEW i \in DOMAIN cwc[t], p = Cwc_(t),
              x = <<"cwc", t, i>>, Answers[cwc[t][i]] = m
       PROVE  x = y
  BY <1>5, <1>10 DEF PlaceAt, Call_, SendQ_, Slot_, Ccq_, Cwc_
<1> QED
  BY <1>6, <1>7, <1>8, <1>9, <1>10 DEF PlaceAt

LEMMA InvConserved == RequestInv => RequestConserved
<1> SUFFICES ASSUME RequestInv, NEW m \in Mrs
             PROVE  IF m \in busy
                    THEN \E p \in RequestPlaces(m) : RequestPlaces(m) = {p}
                    ELSE RequestPlaces(m) = {}
  BY DEF RequestConserved
<1>1. Typed /\ TypeOK /\ RequestQueuedOnce /\ RequestInOneSite
  BY DEF RequestInv, Typed, RequestsSited
<1>2. CASE m \in busy
  <2>1. PICK p \in RequestSites :
          m \in MrsAt(p) /\ \A q \in RequestSites \ {p} : m \notin MrsAt(q)
    BY <1>1, <1>2 DEF RequestInOneSite
  <2>2. PICK x : PlaceAt(x, p, m)
    BY <1>1, <2>1, PlaceOfSite
  <2>3. x \in RequestPlaces(m)
    BY <1>1, <2>2, PlacesAreAt
  <2>4. ASSUME NEW y \in RequestPlaces(m) PROVE y = x
    <3>1. PICK q \in RequestSites : PlaceAt(y, q, m)
      BY <1>1, PlacesAreAt
    <3>2. q = p
      BY <1>1, <2>1, <3>1, PlaceOfSite
    <3> QED
      BY <1>1, <2>2, <3>1, <3>2, PlaceOnce
  <2>5. RequestPlaces(m) = {x}
    BY <2>3, <2>4
  <2> QED
    BY <1>2, <2>3, <2>5
<1>3. CASE m \notin busy
  <2>1. \A p \in RequestSites : m \notin MrsAt(p)
    BY <1>1, <1>3 DEF RequestInOneSite
  <2>2. \A x : x \notin RequestPlaces(m)
    BY <1>1, <2>1, PlacesAreAt, PlaceOfSite
  <2> QED
    BY <1>3, <2>2
<1> QED
  BY <1>2, <1>3

(* A request submitted is in exactly one place until its callback, once,   *)
(* and in none afterwards, for every number of connections, buffers,       *)
(* threads and slots.                                                      *)
THEOREM RequestsConserved == Safety => []RequestConserved
BY AlwaysRequestInv, InvConserved, PTL

-----------------------------------------------------------------------------
(* The pool does not leak.  That a callback puts the element back which    *)
(* the request took needs more: no two connections have an element in use  *)
(* for the same request.                                                   *)

OneElement ==
  \A m \in busy : \A c, d \in Conns : \A i \in Ids :
    Holds(c, i, m) /\ Holds(d, i, m) => c = d

(* The element i of c is accounted for.                                    *)
Kept(c, i) ==
  \/ ctx[c][i] \in busy /\ reqHdr[ctx[c][i]] = i
  \/ \E t \in CThreads : cbk[t] = [conn |-> c, id |-> i]

PoolKept == \A c \in Conns : \A i \in Ids \ mp[c] : Kept(c, i)

PoolInv == RequestInv /\ OneElement /\ PoolNoLeak

LEMMA PoolNoLeakIs == PoolNoLeak <=> (fault = "none" => PoolKept)
BY DEF PoolNoLeak, PoolKept, Kept

LEMMA SendReqPool ==
  ASSUME PoolInv, PoolKept, NEW t \in CThreads, NEW c \in Conns, NEW m \in Mrs,
         NEW v \in Vals, SendReq(t, c, m, v), fault' = "none"
  PROVE  OneElement' /\ PoolKept'
<1>1. /\ mp \in [Conns -> SUBSET Ids] /\ reqHdr \in [Mrs -> Ids \cup {None}]
      /\ ctx \in [Conns -> [Ids -> Mrs \cup {None}]] /\ busy \subseteq Mrs
  BY DEF PoolInv, RequestInv, Typed, TypeOK
<1>2. m \notin busy
  BY DEF SendReq
<1>3. PICK i \in mp[c] :
        /\ mp' = [mp EXCEPT ![c] = @ \ {i}] /\ ctx' = [ctx EXCEPT ![c][i] = m]
        /\ reqHdr' = [reqHdr EXCEPT ![m] = i] /\ busy' = busy \cup {m}
        /\ UNCHANGED cbk
  BY DEF SendReq
<1>4. i \in Ids
  BY <1>1
<1>5. /\ ctx'[c][i] = m /\ reqHdr'[m] = i
      /\ \A d \in Conns, j \in Ids : d # c \/ j # i => ctx'[d][j] = ctx[d][j]
      /\ \A n \in Mrs \ {m} : reqHdr'[n] = reqHdr[n]
      /\ \A d \in Conns, j \in Ids : d # c \/ j # i => (j \in mp'[d] <=> j \in mp[d])
  BY <1>1, <1>3, <1>4
<1>6. ASSUME NEW d \in Conns, NEW j \in Ids \ mp'[d] PROVE Kept(d, j)'
  <2>1. CASE d = c /\ j = i
    BY <1>3, <1>5, <2>1 DEF Kept
  <2>2. CASE d # c \/ j # i
    <3>1. Kept(d, j)
      BY <1>5, <1>6, <2>2 DEF PoolKept
    <3>2. CASE \E u \in CThreads : cbk[u] = [conn |-> d, id |-> j]
      BY <1>3, <3>2 DEF Kept
    <3>3. CASE ctx[d][j] \in busy /\ reqHdr[ctx[d][j]] = j
      BY <1>1, <1>2, <1>3, <1>5, <2>2, <3>3 DEF Kept
    <3> QED
      BY <3>1, <3>2, <3>3 DEF Kept
  <2> QED
    BY <2>1, <2>2
<1>7. ASSUME NEW n \in busy', NEW d \in Conns, NEW b \in Conns, NEW j \in Ids,
             Holds(d, j, n)', Holds(b, j, n)'
      PROVE  d = b
  <2>1. CASE n = m
    <3>1. j = i
      BY <1>5, <1>7, <2>1 DEF Holds
    <3>2. ASSUME NEW a \in Conns, Holds(a, i, m)' PROVE a = c
      <4>1. SUFFICES ASSUME a # c PROVE FALSE
        OBVIOUS
      <4>2. /\ ctx[a][i] = m /\ i \notin mp[a]
            /\ \A u \in CThreads : cbk[u] # [conn |-> a, id |-> i]
        BY <1>3, <1>4, <1>5, <3>2, <4>1 DEF Holds
      <4>3. Kept(a, i)
        BY <1>4, <4>2 DEF PoolKept
      <4> QED
        BY <1>2, <4>2, <4>3 DEF Kept
    <3> QED
      BY <1>7, <2>1, <3>1, <3>2
  <2>2. CASE n # m
    <3>1. n \in busy /\ reqHdr[n] = j /\ n \in Mrs
      BY <1>1, <1>3, <1>5, <1>7, <2>2 DEF Holds
    <3>2. ASSUME NEW a \in Conns, Holds(a, j, n)' PROVE Holds(a, j, n)
      <4>1. a # c \/ j # i
        BY <1>5, <2>2, <3>2 DEF Holds
      <4> QED
        BY <1>3, <1>5, <3>1, <3>2, <4>1 DEF Holds
    <3> QED
      BY <1>7, <3>1, <3>2 DEF PoolInv, OneElement
  <2> QED
    BY <2>1, <2>2
<1> QED
  BY <1>6, <1>7 DEF PoolKept, OneElement

LEMMA OnRecvRespPool ==
  ASSUME PoolInv, PoolKept, NEW t \in CThreads, OnRecvResp(t)
  PROVE  OneElement' /\ PoolKept'
<1>1. /\ Head(cwc[t]) \in ClientCqe /\ Head(cwc[t]).op = "recv" /\ Answered(Head(cwc[t]))
      /\ cbk[t] = None
  BY OnRecvRespSited DEF PoolInv, OnRecvResp, AtClientCqe
<1>2. PICK c \in Conns, i \in Ids : c = Head(cwc[t]).conn /\ i = Head(cwc[t]).id
  BY <1>1, RecvTypes
<1>3. PICK m \in Mrs : m = ctx[c][i] /\ Holds(c, i, m)
  BY <1>1, <1>2 DEF Answered
<1> DEFINE k == [conn |-> c, id |-> i]
<1>4. /\ busy' = busy \ {m} /\ cbk' = [cbk EXCEPT ![t] = k]
      /\ UNCHANGED <<mp, ctx, reqHdr>>
  BY <1>2, <1>3 DEF OnRecvResp
<1>5. \A d \in Conns, j \in Ids : k = [conn |-> d, id |-> j] => d = c /\ j = i
  OBVIOUS
<1>6. k = [conn |-> c, id |-> i]
  OBVIOUS
<1> HIDE DEF k
<1>7. cbk'[t] = k /\ \A u \in CThreads \ {t} : cbk'[u] = cbk[u]
  BY <1>4 DEF PoolInv, RequestInv, Typed, TypeOK
<1>8. \A d, j : None # [conn |-> d, id |-> j] \/ d \notin Conns \/ j \notin Ids
  BY NoneIsNew
<1>9. ASSUME NEW d \in Conns, NEW j \in Ids, NEW n, Holds(d, j, n)' PROVE Holds(d, j, n)
  <2>1. \A u \in CThreads : cbk[u] # [conn |-> d, id |-> j]
    BY <1>1, <1>7, <1>8, <1>9 DEF Holds
  <2> QED
    BY <1>4, <1>9, <2>1 DEF Holds
<1>10. OneElement'
  BY <1>4, <1>9 DEF PoolInv, OneElement
<1>11. ASSUME NEW d \in Conns, NEW j \in Ids \ mp'[d] PROVE Kept(d, j)'
  <2>1. Kept(d, j)
    BY <1>4, <1>11 DEF PoolKept
  <2>2. CASE \E u \in CThreads : cbk[u] = [conn |-> d, id |-> j]
    <3>1. PICK u \in CThreads : cbk[u] = [conn |-> d, id |-> j]
      BY <2>2
    <3>2. u # t
      BY <1>1, <1>8, <3>1
    <3>3. cbk'[u] = [conn |-> d, id |-> j]
      BY <1>7, <3>1, <3>2
    <3> QED
      BY <3>3 DEF Kept
  <2>3. CASE /\ ctx[d][j] \in busy /\ reqHdr[ctx[d][j]] = j
             /\ \A u \in CThreads : cbk[u] # [conn |-> d, id |-> j]
    <3>1. CASE ctx[d][j] = m
      <4>1. Holds(d, j, m)
        BY <1>4, <1>11, <2>3, <3>1 DEF Holds
      <4>2. j = i /\ m \in busy
        BY <1>3, <2>3, <3>1 DEF Holds
      <4>3. d = c
        BY <1>3, <4>1, <4>2 DEF PoolInv, OneElement
      <4> QED
        BY <1>6, <1>7, <4>2, <4>3 DEF Kept
    <3>2. CASE ctx[d][j] # m
      BY <1>4, <2>3, <3>2 DEF Kept
    <3> QED
      BY <3>1, <3>2
  <2> QED
    BY <2>1, <2>2, <2>3 DEF Kept
<1> QED
  BY <1>10, <1>11 DEF PoolKept

LEMMA MempoolPutPool ==
  ASSUME PoolInv, PoolKept, NEW t \in CThreads, MempoolPut(t)
  PROVE  OneElement' /\ PoolKept'
<1>1. /\ mp \in [Conns -> SUBSET Ids]
      /\ cbk \in [CThreads -> [conn : Conns, id : Ids] \cup {None}]
  BY DEF PoolInv, RequestInv, Typed, TypeOK
<1>2. cbk[t] # None /\ cbk[t] \in [conn : Conns, id : Ids]
  BY <1>1 DEF MempoolPut
<1>3. PICK c \in Conns, i \in Ids : c = cbk[t].conn /\ i = cbk[t].id
  BY <1>2
<1>4. cbk[t] = [conn |-> c, id |-> i]
  BY <1>2, <1>3
<1>5. /\ mp' = [mp EXCEPT ![c] = @ \cup {i}] /\ cbk' = [cbk EXCEPT ![t] = None]
      /\ UNCHANGED <<ctx, reqHdr, busy>>
  BY <1>3 DEF MempoolPut
<1>6. /\ mp'[c] = mp[c] \cup {i} /\ \A d \in Conns \ {c} : mp'[d] = mp[d]
      /\ cbk'[t] = None /\ \A u \in CThreads \ {t} : cbk'[u] = cbk[u]
  BY <1>1, <1>5
<1>7. ASSUME NEW d \in Conns, NEW j \in Ids, NEW n, Holds(d, j, n)' PROVE Holds(d, j, n)
  <2>1. d # c \/ j # i
    BY <1>6, <1>7 DEF Holds
  <2>2. cbk[t] # [conn |-> d, id |-> j]
    BY <1>4, <2>1
  <2>3. j \notin mp[d]
    BY <1>6, <1>7 DEF Holds
  <2> QED
    BY <1>5, <1>6, <1>7, <2>2, <2>3 DEF Holds
<1>8. OneElement'
  BY <1>5, <1>7 DEF PoolInv, OneElement
<1>9. ASSUME NEW d \in Conns, NEW j \in Ids \ mp'[d] PROVE Kept(d, j)'
  <2>1. (d # c \/ j # i) /\ j \notin mp[d]
    BY <1>6, <1>9
  <2>2. Kept(d, j)
    BY <2>1 DEF PoolKept
  <2>3. ASSUME NEW u \in CThreads, cbk[u] = [conn |-> d, id |-> j] PROVE Kept(d, j)'
    <3>1. u # t
      BY <1>4, <2>1, <2>3
    <3>2. cbk'[u] = [conn |-> d, id |-> j]
      BY <1>6, <2>3, <3>1
    <3> QED
      BY <3>2 DEF Kept
  <2>4. CASE ctx[d][j] \in busy /\ reqHdr[ctx[d][j]] = j
    BY <1>5, <2>4 DEF Kept
  <2> QED
    BY <2>2, <2>3, <2>4 DEF Kept
<1> QED
  BY <1>8, <1>9 DEF PoolKept

LEMMA PoolSame ==
  ASSUME PoolInv, UNCHANGED <<mp, ctx, reqHdr, busy, cbk>>
  PROVE  OneElement' /\ (PoolKept => PoolKept')
<1>1. OneElement'
  BY DEF PoolInv, OneElement, Holds
<1>2. PoolKept => PoolKept'
  BY DEF PoolKept, Kept
<1> QED
  BY <1>1, <1>2

LEMMA SendFailPool ==
  ASSUME PoolInv, NEW t \in CThreads, SendFail(t)
  PROVE  OneElement' /\ fault' # "none"
BY DEF PoolInv, SendFail, OneElement, Holds

LEMMA PoolStep == PoolInv /\ [Next]_vars => PoolInv'
<1> SUFFICES ASSUME PoolInv, [Next]_vars PROVE OneElement' /\ (fault' = "none" => PoolKept')
  <2>1. PoolNoLeak' <=> (fault' = "none" => PoolKept')
    BY DEF PoolNoLeak, PoolKept, Kept
  <2> QED
    BY <2>1, RequestInvStep DEF PoolInv
<1> DEFINE Goal == OneElement' /\ (fault' = "none" => PoolKept')
<1>1. CASE UNCHANGED vars
  BY <1>1, PoolSame, PoolNoLeakIs DEF vars, clientVars, PoolInv
<1>2. ASSUME Next PROVE PoolKept
  BY <1>2, PoolNoLeakIs DEF Next, PoolInv
<1>3. ASSUME Next, UNCHANGED <<mp, ctx, reqHdr, busy, cbk>> PROVE Goal
  BY <1>2, <1>3, PoolSame
<1>4. ASSUME Next, NEW t \in CThreads, NEW c \in Conns, NEW m \in Mrs, NEW v \in Vals,
             SendReq(t, c, m, v)
      PROVE  Goal
  <2>1. CASE fault' = "none"
    BY <1>2, <1>4, <2>1, SendReqPool
  <2>2. CASE fault' # "none"
    <3>1. CASE UNCHANGED clientVars
      BY <1>3, <1>4, <3>1 DEF clientVars
    <3>2. CASE ~ UNCHANGED clientVars
      BY <1>4, <2>2, <3>2 DEF SendReq, Next
    <3> QED
      BY <3>1, <3>2
  <2> QED
    BY <2>1, <2>2
<1>5. ASSUME NEW t \in CThreads, PostRecv(t), Next PROVE Goal
  <2>1. CASE SendFail(t)
    BY <2>1, SendFailPool
  <2>2. CASE ~ SendFail(t)
    BY <1>3, <1>5, <2>2 DEF PostRecv
  <2> QED
    BY <2>1, <2>2
<1>6. ASSUME NEW t \in CThreads, PostSend(t), Next PROVE Goal
  <2>1. CASE SendFail(t)
    BY <2>1, SendFailPool
  <2>2. CASE ~ SendFail(t)
    BY <1>3, <1>6, <2>2 DEF PostSend
  <2> QED
    BY <2>1, <2>2
<1>7. ASSUME NEW t \in CThreads, ClientPoll(t) \/ OnSendReq(t), Next PROVE Goal
  BY <1>3, <1>7 DEF ClientPoll, OnSendReq
<1>8. ASSUME NEW t \in CThreads, OnRecvResp(t) \/ MempoolPut(t), Next PROVE Goal
  BY <1>2, <1>8, OnRecvRespPool, MempoolPutPool
<1>9. ASSUME NEW c \in Conns, WireStep(c) PROVE UNCHANGED <<mp, ctx, reqHdr, busy, cbk>>
  BY <1>9 DEF WireStep, DeliverReq, RnrNak, AckReq, DeliverResp, AckWrite, clientVars
<1>10. ASSUME NEW t \in SThreads, ServerStep(t) PROVE UNCHANGED <<mp, ctx, reqHdr, busy, cbk>>
  BY <1>10 DEF ServerStep, ServerPoll, OnRecvReq, OnWriteRespDone, clientVars
<1>11. ASSUME NEW s \in Slots, MakeResp(s) PROVE UNCHANGED <<mp, ctx, reqHdr, busy, cbk>>
  BY <1>11 DEF MakeResp, clientVars
<1> HIDE DEF Goal
<1>12. ASSUME Next PROVE Goal
  BY <1>3, <1>4, <1>5, <1>6, <1>7, <1>8, <1>9, <1>10, <1>11, <1>12 DEF Next, ClientStep
<1> QED
  BY <1>1, <1>12 DEF Goal

LEMMA PoolInit == Init => PoolInv
<1> SUFFICES ASSUME Init PROVE PoolInv
  OBVIOUS
<1>1. OneElement
  BY DEF Init, OneElement
<1>2. PoolNoLeak
  BY DEF Init, PoolNoLeak
<1> QED
  BY <1>1, <1>2, RequestInvInit DEF PoolInv

(* As long as nothing fails and no connection breaks no pool element is    *)
(* lost: what is not in the pool belongs to an outstanding request or a    *)
(* running callback.  A post that fails does lose one (kv_rdma.c:408); the *)
(* model ends there.                                                       *)
THEOREM PoolNeverLeaks == Safety => []PoolNoLeak
<1>1. PoolInv => PoolNoLeak
  BY DEF PoolInv
<1> QED
  BY <1>1, PoolInit, PoolStep, PTL DEF Safety

-----------------------------------------------------------------------------
(* A response finds a receive: there is one for each request whose receive *)
(* has been posted and whose response has not arrived.                     *)

SlotsOn(c) ==
  {e.slot : e \in {x \in ServerEntries : x.op = "recv" /\ x.conn = c}}
  \cup {s \in handling : reqCtx[s].conn = c} \cup SlotsOf(writeQ[c])

Awaiting(c) ==
  {call[t].mr : t \in {u \in CThreads : /\ call[u] # None /\ call[u].conn = c
                                        /\ call[u].pc = "post_send"}}
  \cup Entries(sendQ[c]) \cup {srvBuf[s].mr : s \in SlotsOn(c)}

RecvPerRequest ==
  \A c \in Conns : IsFiniteSet(Awaiting(c)) /\ Cardinality(Awaiting(c)) <= rqPosted[c]

(* The call of t has its receive posted.                                   *)
InSend(t, c, m) ==
  /\ call[t] # None /\ call[t].pc = "post_send"
  /\ call[t].conn = c /\ call[t].mr = m

LEMMA SlotsOnAre ==
  ASSUME NEW c, NEW s
  PROVE  /\ s \in SlotsOn(c) <=>
              \/ \E e \in ServerEntries : e.op = "recv" /\ e.conn = c /\ e.slot = s
              \/ s \in handling /\ reqCtx[s].conn = c
              \/ \E w \in Entries(writeQ[c]) : w.slot = s
         /\ s \in SlotsOn(c)' <=>
              \/ \E e \in ServerEntries' : e.op = "recv" /\ e.conn = c /\ e.slot = s
              \/ s \in handling' /\ reqCtx'[s].conn = c
              \/ \E w \in Entries(writeQ'[c]) : w.slot = s
BY DEF SlotsOn, SlotsOf, Entries

LEMMA AwaitingAre ==
  ASSUME NEW c, NEW m
  PROVE  /\ m \in Awaiting(c) <=> \/ \E t \in CThreads : InSend(t, c, m)
                                  \/ m \in Entries(sendQ[c])
                                  \/ \E s \in SlotsOn(c) : m = srvBuf[s].mr
         /\ m \in Awaiting(c)' <=> \/ \E t \in CThreads : InSend(t, c, m)'
                                   \/ m \in Entries(sendQ'[c])
                                   \/ \E s \in SlotsOn(c)' : m = srvBuf'[s].mr
BY DEF Awaiting, InSend, Entries

LEMMA SlotsOnLive ==
  ASSUME NEW c \in Conns, NEW s \in SlotsOn(c)
  PROVE  s \in LiveSlots
<1>1. \A w \in Entries(writeQ[c]) : w.slot \in SlotsOf(writeQ[c])
  BY DEF Entries, SlotsOf
<1> QED
  BY <1>1, SlotsOnAre, ReceivedIsLive, LiveIs

LEMMA SlotsOnLiveNext ==
  ASSUME NEW c \in Conns, NEW s \in SlotsOn(c)'
  PROVE  s \in LiveSlots'
<1>1. \A w \in Entries(writeQ'[c]) : w.slot \in SlotsOf(writeQ'[c])
  BY DEF Entries, SlotsOf
<1>2. ASSUME NEW e \in ServerEntries', e.op = "recv" PROVE e.slot \in LiveSlots'
  BY <1>2, ServerEntriesAre, RecvCqesAre, LiveIsNext DEF RecvSlots
<1> QED
  BY <1>1, <1>2, SlotsOnAre, LiveIsNext

(* A slot gets to a connection with a request of its send queue only.      *)
LEMMA SlotsOnAfter ==
  ASSUME RequestInv, [Next]_vars, TypeOK', NEW c \in Conns, NEW s \in SlotsOn(c)'
  PROVE  \/ s \in SlotsOn(c) /\ srvBuf'[s] = srvBuf[s]
         \/ srvBuf'[s].mr \in Entries(sendQ[c])
<1>1. s \in LiveSlots' /\ s \in Slots
  <2>1. s \in LiveSlots'
    BY SlotsOnLiveNext
  <2>2. TypeOK' => (LiveSlots \subseteq Slots)'
    BY LiveAreSlots, PTL
  <2> QED
    BY <2>1, <2>2
<1>2. s \in SlotsOn(c) \/ srvBuf'[s].mr \in Entries(sendQ[c])
  <2>1. ASSUME NEW e \in ServerEntries', e.op = "recv", e.conn = c, e.slot = s
        PROVE  s \in SlotsOn(c) \/ srvBuf'[s].mr \in Entries(sendQ[c])
    <3>1. CASE e \in ServerEntries
      BY <2>1, <3>1, SlotsOnAre
    <3>2. ASSUME NEW d \in Conns, NEW m \in Mrs, NEW r \in Slots, ReceivedNow(d, m, r, e)
          PROVE  srvBuf'[s].mr \in Entries(sendQ[c])
      BY <2>1, <3>2 DEF ReceivedNow
    <3> QED
      BY <2>1, <3>1, <3>2, ReceivedAfter
  <2>2. ASSUME s \in handling', reqCtx'[s].conn = c PROVE s \in SlotsOn(c)
    <3>1. CASE s \in handling
      <4>1. reqCtx'[s] = reqCtx[s]
        BY <1>1, <2>2, <3>1, ViewKept, LiveIs, LiveIsNext
      <4> QED
        BY <2>2, <3>1, <4>1, SlotsOnAre
    <3>2. ASSUME NEW t \in SThreads, OnRecvReq(t), s = Head(swc[t]).slot
          PROVE  s \in SlotsOn(c)
      <4>1. swc[t] # <<>> /\ Head(swc[t]).op = "recv"
        BY <3>2 DEF OnRecvReq, AtServerCqe
      <4>2. PICK e \in ServerEntries : e = Head(swc[t])
        BY <4>1, NextReceived
      <4>3. reqCtx'[s].conn = e.conn
        BY <1>1, <3>2, <4>2 DEF OnRecvReq, RequestInv, Typed, TypeOK
      <4> QED
        BY <2>2, <3>2, <4>1, <4>2, <4>3, SlotsOnAre
    <3> QED
      BY <2>2, <3>1, <3>2, HandledAfter
  <2>3. ASSUME NEW w \in Entries(writeQ'[c]), w.slot = s PROVE s \in SlotsOn(c)
    BY <2>3, WriteAfter, SlotsOnAre
  <2> QED
    BY <2>1, <2>2, <2>3, SlotsOnAre
<1>3. CASE s \in SlotsOn(c)
  BY <1>1, <1>3, SlotsOnLive, ViewKept
<1> QED
  BY <1>2, <1>3

LEMMA InSendAfter ==
  ASSUME RequestInv, [Next]_vars, NEW t \in CThreads, ~ PostRecv(t),
         call'[t] # None, call'[t].pc = "post_send"
  PROVE  call'[t] = call[t]
<1>1. call \in [CThreads -> Call \cup {None}]
  BY DEF RequestInv, Typed, TypeOK
<1>2. ASSUME NEW u \in CThreads, NEW c \in Conns, NEW m \in Mrs, NEW v \in Vals,
             SendReq(u, c, m, v)
      PROVE  call'[t] = call[t]
  <2>1. CASE UNCHANGED clientVars
    BY <2>1 DEF clientVars
  <2>2. ASSUME NEW i, call' = [call EXCEPT ![u] = [pc |-> "post_recv", conn |-> c,
                                                   mr |-> m, id |-> i]]
        PROVE  call'[t] = call[t]
    <3>1. u = t => call'[t].pc = "post_recv"
      BY <1>1, <2>2
    <3> QED
      BY <1>1, <2>2, <3>1
  <2> QED
    BY <1>2, <2>1, <2>2 DEF SendReq
<1>3. ASSUME NEW u \in CThreads, PostRecv(u) PROVE call'[t] = call[t]
  BY <1>1, <1>3 DEF PostRecv, SendFail
<1>4. ASSUME NEW u \in CThreads, PostSend(u) PROVE call'[t] = call[t]
  BY <1>1, <1>4 DEF PostSend, SendFail
<1>5. ASSUME NEW u \in CThreads,
             ClientPoll(u) \/ OnSendReq(u) \/ OnRecvResp(u) \/ MempoolPut(u)
      PROVE  call'[t] = call[t]
  BY <1>5 DEF ClientPoll, OnSendReq, OnRecvResp, MempoolPut
<1>6. ASSUME NEW c \in Conns, WireStep(c) PROVE call'[t] = call[t]
  BY <1>6 DEF WireStep, DeliverReq, RnrNak, AckReq, DeliverResp, AckWrite, clientVars
<1>7. ASSUME NEW u \in SThreads, ServerStep(u) PROVE call'[t] = call[t]
  BY <1>7 DEF ServerStep, ServerPoll, OnRecvReq, OnWriteRespDone, clientVars
<1>8. ASSUME NEW s \in Slots, MakeResp(s) PROVE call'[t] = call[t]
  BY <1>8 DEF MakeResp, clientVars
<1>9. CASE UNCHANGED vars
  BY <1>9 DEF vars, clientVars
<1> QED
  BY <1>2, <1>3, <1>4, <1>5, <1>6, <1>7, <1>8, <1>9 DEF Next, ClientStep

(* Who awaits a response after a step.                                     *)
LEMMA AwaitingAfter ==
  ASSUME RequestInv, [Next]_vars, TypeOK', NEW c \in Conns, NEW m \in Awaiting(c)'
  PROVE  \/ m \in Awaiting(c)
         \/ \E t \in CThreads : PostRecv(t) /\ InSend(t, c, m)'
<1>1. ASSUME NEW t \in CThreads, InSend(t, c, m)', ~ PostRecv(t) PROVE m \in Awaiting(c)
  <2>1. call'[t] = call[t]
    BY <1>1, InSendAfter DEF InSend
  <2>2. InSend(t, c, m)
    BY <1>1, <2>1 DEF InSend
  <2> QED
    BY <2>2, AwaitingAre
<1>2. ASSUME m \in Entries(sendQ'[c]) PROVE m \in Awaiting(c)
  BY <1>2, SendQAfter, AwaitingAre DEF InSend
<1>3. ASSUME NEW s \in SlotsOn(c)', m = srvBuf'[s].mr PROVE m \in Awaiting(c)
  BY <1>3, SlotsOnAfter, AwaitingAre
<1> QED
  BY <1>1, <1>2, <1>3, AwaitingAre

(* One whose response is here awaits none.                                 *)
AnsweredAwaitNone == \A c \in Conns : Awaiting(c) \cap MrsAt(Ccq_) = {}

LEMMA SitedAwaits == Typed /\ RequestsSited => AnsweredAwaitNone
<1> SUFFICES ASSUME Typed, RequestsSited, NEW c \in Conns, NEW m \in Awaiting(c)
             PROVE  m \notin MrsAt(Ccq_)
  BY DEF AnsweredAwaitNone
<1>1. \A p \in RequestSites \ {Ccq_} : \A n \in Mrs : n \in MrsAt(p) => n \notin MrsAt(Ccq_)
  BY SitesAre, SiteElsewhere DEF RequestsSited
<1>2. ASSUME NEW t \in CThreads, InSend(t, c, m) PROVE m \notin MrsAt(Ccq_)
  <2>1. m \in Mrs /\ m \in MrsAt(Call_(t))
    BY <1>2, MrsAtSites DEF InSend, Typed, TypeOK, Call
  <2> QED
    BY <1>1, <2>1, SitesAre, SitesDiffer
<1>3. ASSUME m \in Entries(sendQ[c]) PROVE m \notin MrsAt(Ccq_)
  <2>1. m \in Mrs /\ Itself[m] = m /\ m # None
    BY <1>3, EntriesTypes, NoneIsNew DEF Typed, TypeOK, Itself
  <2>2. m \in Keys(sendQ[c], Itself)
    BY <1>3, <2>1 DEF Keys, Entries
  <2> QED
    BY <1>1, <2>1, <2>2, MrsAtSites, SitesAre, SitesDiffer
<1>4. ASSUME NEW s \in SlotsOn(c), m = srvBuf[s].mr PROVE m \notin MrsAt(Ccq_)
  <2>1. s \in LiveSlots /\ s \in Slots
    BY <1>4, SlotsOnLive, LiveAreSlots DEF Typed
  <2>2. m \in Mrs /\ m \in MrsAt(Slot_(s))
    BY <1>4, <2>1, MrsAtSites DEF Typed, TypeOK, SlotFilled, Message
  <2> QED
    BY <1>1, <2>1, <2>2, SitesAre, SitesDiffer
<1> QED
  BY <1>2, <1>3, <1>4, AwaitingAre

LEMMA SitedAwaitsNext == Typed' /\ RequestsSited' => AnsweredAwaitNone'
BY SitedAwaits, PTL

RecvInv == RequestInv /\ RecvPerRequest

LEMMA RecvInit == Init => RecvInv
<1> SUFFICES ASSUME Init, NEW c \in Conns
             PROVE  IsFiniteSet(Awaiting(c)) /\ Cardinality(Awaiting(c)) <= rqPosted[c]
  BY RequestInvInit DEF RecvInv, RecvPerRequest
<1>1. \A m : m \notin Awaiting(c)
  <2>1. Entries(sendQ[c]) = {} /\ Entries(writeQ[c]) = {} /\ Entries(scq) = {}
    BY EntriesEmpty DEF Init
  <2>2. \A t \in SThreads : Entries(swc[t]) = {}
    BY EntriesEmpty DEF Init
  <2>3. \A s : s \notin SlotsOn(c)
    BY <2>1, <2>2, SlotsOnAre, ServerEntriesAre DEF Init
  <2> QED
    BY <2>1, <2>3, AwaitingAre DEF Init, InSend
<1>2. Awaiting(c) = {}
  BY <1>1
<1> QED
  BY <1>2, FS_EmptySet DEF Init

LEMMA RecvStep == RecvInv /\ [Next]_vars => RecvInv'
<1> SUFFICES ASSUME RecvInv, [Next]_vars, NEW c \in Conns
             PROVE  /\ IsFiniteSet(Awaiting(c)')
                    /\ Cardinality(Awaiting(c)') <= rqPosted'[c]
  BY RequestInvStep DEF RecvInv, RecvPerRequest
<1> DEFINE A == Awaiting(c)
           B == Awaiting(c)'
<1>1. RequestInv /\ RequestInv' /\ TypeOK' /\ rqPosted \in [Conns -> Nat]
  BY RequestInvStep DEF RecvInv, RequestInv, Typed, TypeOK
<1>2. IsFiniteSet(A) /\ Cardinality(A) <= rqPosted[c] /\ Cardinality(A) \in Nat
  BY FS_CardinalityType DEF RecvInv, RecvPerRequest
<1>3. \A m \in B : m \in A \/ \E t \in CThreads : PostRecv(t) /\ InSend(t, c, m)'
  BY <1>1, AwaitingAfter
<1> HIDE DEF A, B
<1>4. ASSUME B \subseteq A, UNCHANGED rqPosted
      PROVE  IsFiniteSet(B) /\ Cardinality(B) <= rqPosted'[c]
  <2>1. IsFiniteSet(B) /\ Cardinality(B) <= Cardinality(A) /\ Cardinality(B) \in Nat
    BY <1>2, <1>4, FS_Subset, FS_CardinalityType
  <2> QED
    BY <1>1, <1>2, <1>4, <2>1
<1>5. ASSUME NEW t \in CThreads, PostRecv(t)
      PROVE  IsFiniteSet(B) /\ Cardinality(B) <= rqPosted'[c]
  <2>1. CASE SendFail(t)
    <3>1. call'[t] = None /\ \A u \in CThreads \ {t} : call'[u] = call[u]
      BY <1>1, <2>1 DEF SendFail, RequestInv, Typed, TypeOK
    <3>2. ASSUME NEW m \in B PROVE m \in A
      <4>1. ASSUME NEW u \in CThreads, PostRecv(u), InSend(u, c, m)' PROVE FALSE
        <5>1. u # t /\ call'[u] = call[u]
          BY <3>1, <4>1 DEF InSend
        <5> QED
          BY <4>1, <5>1 DEF InSend, PostRecv
      <4> QED
        BY <1>3, <4>1
    <3>3. UNCHANGED rqPosted
      BY <2>1 DEF SendFail
    <3> QED
      BY <1>4, <3>2, <3>3
  <2>2. CASE ~ SendFail(t)
    <3>1. /\ call[t] \in Call /\ rqPosted' = [rqPosted EXCEPT ![call[t].conn] = @ + 1]
          /\ call' = [call EXCEPT ![t] = Continue(call[t])]
      BY <1>1, <1>5, <2>2 DEF PostRecv, RequestInv, Typed, TypeOK
    <3>2. PICK d \in Conns, n \in Mrs : d = call[t].conn /\ n = call[t].mr
      BY <3>1 DEF Call
    <3>3. /\ call'[t].conn = d /\ call'[t].mr = n
          /\ \A u \in CThreads \ {t} : call'[u] = call[u]
      BY <1>1, <3>1, <3>2 DEF Continue, RequestInv, Typed, TypeOK
    <3>4. ASSUME NEW m \in B PROVE m \in A \/ (c = d /\ m = n)
      <4>1. ASSUME NEW u \in CThreads, PostRecv(u), InSend(u, c, m)'
            PROVE  c = d /\ m = n
        <5>1. CASE u = t
          BY <3>3, <4>1, <5>1 DEF InSend
        <5>2. CASE u # t
          BY <3>3, <4>1, <5>2 DEF InSend, PostRecv
        <5> QED
          BY <5>1, <5>2
      <4> QED
        BY <1>3, <4>1
    <3>5. CASE c # d
      <4>1. B \subseteq A /\ rqPosted'[c] = rqPosted[c]
        BY <1>1, <3>1, <3>2, <3>4, <3>5
      <4>2. IsFiniteSet(B) /\ Cardinality(B) <= Cardinality(A) /\ Cardinality(B) \in Nat
        BY <1>2, <4>1, FS_Subset, FS_CardinalityType
      <4> QED
        BY <1>1, <1>2, <4>1, <4>2
    <3>6. CASE c = d
      <4>1. B \subseteq A \cup {n} /\ rqPosted'[c] = rqPosted[c] + 1 /\ rqPosted[c] \in Nat
        BY <1>1, <3>1, <3>2, <3>4, <3>6
      <4>2. /\ IsFiniteSet(A \cup {n})
            /\ Cardinality(A \cup {n}) <= Cardinality(A) + 1
            /\ Cardinality(A \cup {n}) \in Nat
        <5>1. /\ IsFiniteSet(A \cup {n})
              /\ \/ Cardinality(A \cup {n}) = Cardinality(A)
                 \/ Cardinality(A \cup {n}) = Cardinality(A) + 1
          BY <1>2, FS_AddElement
        <5> QED
          BY <1>2, <5>1
      <4>3. IsFiniteSet(B) /\ Cardinality(B) <= Cardinality(A \cup {n}) /\ Cardinality(B) \in Nat
        BY <4>1, <4>2, FS_Subset, FS_CardinalityType
      <4> QED
        BY <1>2, <4>1, <4>2, <4>3
    <3> QED
      BY <3>5, <3>6
  <2> QED
    BY <2>1, <2>2
<1>6. ASSUME NEW d \in Conns, DeliverResp(d)
      PROVE  IsFiniteSet(B) /\ Cardinality(B) <= rqPosted'[c]
  <2>1. UNCHANGED call
    BY <1>6 DEF DeliverResp, clientVars
  <2>2. B \subseteq A
    BY <1>3, <2>1 DEF InSend, PostRecv
  <2>3. rqPosted' = [rqPosted EXCEPT ![d] = rqPosted[d] - 1] /\ rqPosted[d] > 0
    BY <1>6 DEF DeliverResp
  <2>4. IsFiniteSet(B) /\ Cardinality(B) <= Cardinality(A) /\ Cardinality(B) \in Nat
    BY <1>2, <2>2, FS_Subset, FS_CardinalityType
  <2>5. CASE c # d
    BY <1>1, <1>2, <2>3, <2>4, <2>5
  <2>6. CASE c = d
    <3>1. writeQ[c] # <<>>
      BY <1>6, <2>6 DEF DeliverResp
    <3>2. PICK w \in Write, s \in Slots, m \in Mrs :
            w = Head(writeQ[c]) /\ s = w.slot /\ m = w.mr /\ m = srvBuf[s].mr
      BY <1>1, <3>1, NextWrite
    <3>3. m \in A
      <4>1. writeQ[c] \in Seq(Write)
        BY <1>1 DEF RequestInv, Typed, TypeOK
      <4>2. w \in Entries(writeQ[c])
        BY <3>1, <3>2, <4>1, EntriesMove
      <4>3. s \in SlotsOn(c)
        BY <3>2, <4>2, SlotsOnAre
      <4> QED
        BY <3>2, <4>3, AwaitingAre DEF A
    <3>4. m \notin B
      <4>1. m \in MrsAt(Ccq_)'
        BY <1>1, <1>6, <2>6, <3>2, DeliverRespSited
      <4>2. AnsweredAwaitNone'
        BY <1>1, SitedAwaitsNext DEF RequestInv
      <4> QED
        BY <4>1, <4>2 DEF AnsweredAwaitNone, B
    <3>5. /\ IsFiniteSet(A \ {m}) /\ Cardinality(A \ {m}) = Cardinality(A) - 1
          /\ B \subseteq A \ {m}
      BY <1>2, <2>2, <3>3, <3>4, FS_RemoveElement
    <3>6. Cardinality(B) <= Cardinality(A \ {m})
      BY <3>5, FS_Subset
    <3> QED
      BY <1>1, <1>2, <2>3, <2>4, <2>6, <3>5, <3>6
  <2> QED
    BY <2>5, <2>6
<1>7. ASSUME \A t \in CThreads : ~ PostRecv(t) PROVE B \subseteq A
  BY <1>3, <1>7
<1>8. ASSUME NEW t \in CThreads, ClientStep(t), ~ PostRecv(t) PROVE UNCHANGED rqPosted
  BY <1>8 DEF ClientStep, SendReq, PostSend, SendFail, ClientPoll, OnSendReq, OnRecvResp,
     MempoolPut
<1>9. ASSUME NEW d \in Conns, WireStep(d), ~ DeliverResp(d) PROVE UNCHANGED rqPosted
  BY <1>9 DEF WireStep, DeliverReq, RnrNak, AckReq, AckWrite
<1>10. ASSUME NEW t \in SThreads, ServerStep(t) PROVE UNCHANGED rqPosted
  BY <1>10 DEF ServerStep, ServerPoll, OnRecvReq, OnWriteRespDone
<1>11. ASSUME NEW s \in Slots, MakeResp(s) PROVE UNCHANGED rqPosted
  BY <1>11 DEF MakeResp
<1>12. ASSUME UNCHANGED vars PROVE UNCHANGED rqPosted
  BY <1>12 DEF vars
<1>13. IsFiniteSet(B) /\ Cardinality(B) <= rqPosted'[c]
  <2>1. CASE \E t \in CThreads : PostRecv(t)
    BY <1>5, <2>1
  <2>2. CASE \E d \in Conns : DeliverResp(d)
    BY <1>6, <2>2
  <2>3. CASE /\ \A t \in CThreads : ~ PostRecv(t)
             /\ \A d \in Conns : ~ DeliverResp(d)
    <3>1. UNCHANGED rqPosted
      BY <2>3, <1>8, <1>9, <1>10, <1>11, <1>12 DEF Next
    <3> QED
      BY <1>4, <1>7, <2>3, <3>1
  <2> QED
    BY <2>1, <2>2, <2>3
<1> QED
  BY <1>13 DEF B

(* The responses under way to a client are distinct requests that await    *)
(* one.                                                                    *)
LEMMA InvFindsRecv == RecvInv => ResponseFindsRecv
<1> SUFFICES ASSUME RecvInv, NEW c \in Conns PROVE Len(writeQ[c]) <= rqPosted[c]
  BY DEF ResponseFindsRecv
<1> DEFINE q == writeQ[c]
           A == Awaiting(c)
           f == [i \in 1..Len(q) |-> q[i].mr]
<1>1. /\ RequestInv /\ Typed /\ TypeOK /\ SlotConserved /\ RequestInOneSite
      /\ IsFiniteSet(A) /\ Cardinality(A) <= rqPosted[c] /\ rqPosted[c] \in Nat
      /\ q \in Seq(Write)
  BY DEF RecvInv, RecvPerRequest, RequestInv, RequestsSited, Typed, TypeOK
<1>2. Len(q) \in Nat /\ DOMAIN q = 1..Len(q)
  BY <1>1, LenProperties
<1>3. ASSUME NEW i \in 1..Len(q)
      PROVE  /\ q[i].mr = srvBuf[q[i].slot].mr /\ q[i].mr \in A /\ q[i].mr \in Mrs
             /\ q[i].slot \in Slots /\ q[i].mr \in MrsAt(Slot_(q[i].slot))
  <2>1. q[i] \in Write /\ q[i] \in Entries(q)
    BY <1>1, <1>2, ElementOfSeq DEF Entries
  <2>2. q[i].mr = srvBuf[q[i].slot].mr
    BY <1>1, <1>2 DEF RequestInv, RequestHolds, WriteHolds
  <2>3. q[i].slot \in SlotsOn(c)
    BY <2>1, SlotsOnAre
  <2>4. q[i].slot \in LiveSlots
    BY <2>3, SlotsOnLive
  <2> QED
    BY <2>1, <2>2, <2>3, <2>4, AwaitingAre, MrsAtSites DEF Write
<1>4. ASSUME NEW i \in 1..Len(q), NEW j \in 1..Len(q), q[i].mr = q[j].mr PROVE i = j
  <2>1. /\ q[i].slot \in Slots /\ q[j].slot \in Slots /\ q[i].mr \in Mrs
        /\ q[i].mr \in MrsAt(Slot_(q[i].slot)) /\ q[i].mr \in MrsAt(Slot_(q[j].slot))
    BY <1>3, <1>4
  <2> HIDE DEF q
  <2>2. q[i].slot = q[j].slot
    BY <1>1, <2>1, SitesAre, SitesDiffer, SiteElsewhere
  <2>3. OncePerSlot(q)
    BY <1>1 DEF SlotConserved, SlotQueuedOnce, q
  <2> QED
    BY <1>2, <2>2, <2>3 DEF OncePerSlot
<1> HIDE DEF q, A
<1>5. f \in [1..Len(q) -> A]
  BY <1>3
<1>6. /\ IsFiniteSet(1..Len(q)) /\ Cardinality(1..Len(q)) = Len(q)
  <2>1. PICK n \in Nat : n = Len(q)
    BY <1>2
  <2>2. /\ IsFiniteSet(1..n)
        /\ Cardinality(1..n) = IF 1 > n THEN 0 ELSE n - 1 + 1
    BY FS_Interval
  <2>3. Cardinality(1..n) = n
    BY <2>2
  <2> QED
    BY <2>1, <2>2, <2>3
<1>7. ~ (Cardinality(A) < Cardinality(1..Len(q)))
  <2>1. \A i, j \in 1..Len(q) : f[i] = f[j] => i = j
    BY <1>4
  <2> HIDE DEF f
  <2> QED
    BY <1>1, <1>5, <1>6, <2>1, FS_PigeonHole
<1>8. Cardinality(A) \in Nat
  BY <1>1, FS_CardinalityType
<1>9. Len(q) <= rqPosted[c]
  BY <1>1, <1>2, <1>6, <1>7, <1>8
<1> QED
  BY <1>9 DEF q

(* A response that reaches a client finds a receive, for every number of   *)
(* connections, buffers, threads and slots and every depth of the queues:  *)
(* no response ever breaks a connection.                                   *)
THEOREM ResponsesFindRecv == Safety => []ResponseFindsRecv
BY RecvInit, RecvStep, InvFindsRecv, PTL DEF Safety

-----------------------------------------------------------------------------
(* KvRdmaRpc implements RpcService: every step of the data path is a step  *)
(* of the service, or one it does not see.                                 *)


(* A request that the handler has not got: in the call, in the send queue, *)
(* or in a slot.                                                           *)
Unserved(m) ==
  \/ \E t \in CThreads : call[t] # None /\ call[t].mr = m
  \/ \E c \in Conns : m \in Entries(sendQ[c])
  \/ \E s \in LiveSlots : s \notin ServedSlots /\ srvBuf[s].mr = m

LEMMA UnservedNext ==
  ASSUME NEW m
  PROVE  Unserved(m)' <=>
           \/ \E t \in CThreads : call'[t] # None /\ call'[t].mr = m
           \/ \E c \in Conns : m \in Entries(sendQ'[c])
           \/ \E s \in LiveSlots' : s \notin ServedSlots' /\ srvBuf'[s].mr = m
BY DEF Unserved, Entries

LEMMA PlaceKindsAre ==
  ASSUME TypeOK, NEW m \in Mrs, NEW x \in RequestPlaces(m)
  PROVE  x[1] \in {"call", "sendQ", "slot", "ccq", "cwc"}
BY PlacesAreAt DEF PlaceAt

LEMMA UnservedPlace ==
  ASSUME TypeOK, NEW m \in Mrs
  PROVE  Unserved(m) <=> \E x \in RequestPlaces(m) :
                           \/ x[1] \in {"call", "sendQ"}
                           \/ x[1] = "slot" /\ x[2] \notin ServedSlots
<1>1. ASSUME Unserved(m)
      PROVE  \E x \in RequestPlaces(m) : \/ x[1] \in {"call", "sendQ"}
                                         \/ x[1] = "slot" /\ x[2] \notin ServedSlots
  <2>1. ASSUME NEW t \in CThreads, call[t] # None, call[t].mr = m
        PROVE  <<"call", t>> \in RequestPlaces(m)
    BY <2>1, PlacesAreAt, SitesAre DEF PlaceAt
  <2>2. ASSUME NEW c \in Conns, m \in Entries(sendQ[c])
        PROVE  \E i : <<"sendQ", c, i>> \in RequestPlaces(m)
    <3>1. PICK i \in DOMAIN sendQ[c] : sendQ[c][i] = m
      BY <2>2 DEF Entries
    <3>2. PlaceAt(<<"sendQ", c, i>>, SendQ_(c), m)
      BY <3>1 DEF PlaceAt
    <3> QED
      BY <3>2, PlacesAreAt, SitesAre
  <2>3. ASSUME NEW s \in LiveSlots, srvBuf[s].mr = m
        PROVE  <<"slot", s>> \in RequestPlaces(m)
    <3>1. Slot_(s) \in RequestSites
      BY LiveAreSlots, SitesAre
    <3> QED
      BY <2>3, <3>1, PlacesAreAt DEF PlaceAt
  <2>4. /\ \A t : <<"call", t>>[1] = "call"
        /\ \A c, i : <<"sendQ", c, i>>[1] = "sendQ"
        /\ \A s : <<"slot", s>>[1] = "slot" /\ <<"slot", s>>[2] = s
    OBVIOUS
  <2> QED
    BY <1>1, <2>1, <2>2, <2>3, <2>4 DEF Unserved
<1>2. ASSUME NEW x \in RequestPlaces(m), x[1] \in {"call", "sendQ"}
      PROVE  Unserved(m)
  BY <1>2, PlacesAreAt DEF PlaceAt, Unserved, Entries
<1>3. ASSUME NEW x \in RequestPlaces(m), x[1] = "slot", x[2] \notin ServedSlots
      PROVE  Unserved(m)
  BY <1>3, PlacesAreAt DEF PlaceAt, Unserved
<1> QED
  BY <1>1, <1>2, <1>3

StatusKnown ==
  \A m \in Mrs : Status(m) = IF m \notin busy THEN "idle"
                             ELSE IF Unserved(m) THEN "pending" ELSE "served"

LEMMA StatusIs == RequestInv => StatusKnown
<1> SUFFICES ASSUME RequestInv, NEW m \in Mrs
             PROVE  Status(m) = IF m \notin busy THEN "idle"
                                ELSE IF Unserved(m) THEN "pending" ELSE "served"
  BY DEF StatusKnown
<1>1. TypeOK /\ RequestConserved
  BY InvConserved DEF RequestInv, Typed
<1>2. CASE m \notin busy
  BY <1>2 DEF Status
<1>3. CASE m \in busy
  <2>1. PICK x : RequestPlaces(m) = {x}
    BY <1>1, <1>3 DEF RequestConserved
  <2>2. x[1] \in {"call", "sendQ", "slot", "ccq", "cwc"}
    BY <1>1, <2>1, PlaceKindsAre
  <2>3. Unserved(m) <=> \/ x[1] \in {"call", "sendQ"}
                        \/ x[1] = "slot" /\ x[2] \notin ServedSlots
    BY <1>1, <2>1, UnservedPlace
  <2>4. (\E p \in RequestPlaces(m) :
           p[1] \in {"ccq", "cwc"} \/ (p[1] = "slot" /\ p[2] \in ServedSlots))
          <=> ~ Unserved(m)
    BY <2>1, <2>2, <2>3
  <2> QED
    BY <1>3, <2>4 DEF Status
<1> QED
  BY <1>2, <1>3

LEMMA StatusIsNext == RequestInv' => StatusKnown'
BY StatusIs, PTL

LEMMA UnservedSites ==
  ASSUME RequestInv, NEW m \in Mrs
  PROVE  /\ Unserved(m) => m \in busy
         /\ \A t \in CThreads : m \in MrsAt(Cwc_(t)) => m \in busy /\ ~ Unserved(m)
         /\ \A s \in Slots : s \in ServedSlots /\ srvBuf[s].mr = m => ~ Unserved(m)
<1>1. RequestInOneSite /\ Typed /\ TypeOK /\ FlightsBusy
  BY SitedBusy DEF RequestInv, RequestsSited, Typed
<1>2. Unserved(m) => m \in busy
  BY <1>1 DEF Unserved, FlightsBusy
<1>3. ASSUME Unserved(m)
      PROVE  \E p \in RequestSites : /\ m \in MrsAt(p)
                                     /\ \A t \in CThreads : p # Cwc_(t)
                                     /\ \A s \in ServedSlots : p # Slot_(s)
  <2>1. ASSUME NEW t \in CThreads, call[t] # None, call[t].mr = m
        PROVE  m \in MrsAt(Call_(t))
    BY <2>1, MrsAtSites
  <2>2. ASSUME NEW c \in Conns, m \in Entries(sendQ[c]) PROVE m \in MrsAt(SendQ_(c))
    <3>1. Itself[m] = m /\ m # None
      BY NoneIsNew DEF Itself
    <3>2. m \in Keys(sendQ[c], Itself)
      BY <2>2, <3>1 DEF Keys, Entries
    <3> QED
      BY <3>2, MrsAtSites
  <2>3. ASSUME NEW s \in LiveSlots, s \notin ServedSlots, srvBuf[s].mr = m
        PROVE  /\ m \in MrsAt(Slot_(s)) /\ s \in Slots
    BY <1>1, <2>3, MrsAtSites, LiveAreSlots
  <2>4. \A s \in ServedSlots : s \in Slots
    BY <1>1, LiveAreSlots, LiveIs
  <2>5. CASE \E t \in CThreads : call[t] # None /\ call[t].mr = m
    BY <2>1, <2>4, <2>5, SitesAre, SitesDiffer
  <2>6. CASE \E c \in Conns : m \in Entries(sendQ[c])
    BY <2>2, <2>4, <2>6, SitesAre, SitesDiffer
  <2>7. CASE \E s \in LiveSlots : s \notin ServedSlots /\ srvBuf[s].mr = m
    <3>1. PICK s \in LiveSlots : s \notin ServedSlots /\ srvBuf[s].mr = m
      BY <2>7
    <3>2. m \in MrsAt(Slot_(s)) /\ s \in Slots
      BY <2>3, <3>1
    <3> QED
      BY <2>4, <3>1, <3>2, SitesAre, SitesDiffer
  <2> QED
    BY <1>3, <2>5, <2>6, <2>7 DEF Unserved
<1>4. ASSUME NEW t \in CThreads, m \in MrsAt(Cwc_(t)) PROVE m \in busy /\ ~ Unserved(m)
  <2>1. Cwc_(t) \in RequestSites
    BY SitesAre
  <2> QED
    BY <1>1, <1>3, <1>4, <2>1, SiteElsewhere DEF RequestInOneSite
<1>5. ASSUME NEW s \in Slots, s \in ServedSlots, srvBuf[s].mr = m PROVE ~ Unserved(m)
  <2>1. Slot_(s) \in RequestSites /\ m \in MrsAt(Slot_(s))
    BY <1>5, SitesAre, MrsAtSites, LiveIs
  <2> QED
    BY <1>1, <1>3, <1>5, <2>1, SiteElsewhere
<1> QED
  BY <1>2, <1>4, <1>5

ServedApart ==
  \A m \in Mrs :
    /\ Unserved(m) => m \in busy
    /\ \A s \in Slots : s \in ServedSlots /\ srvBuf[s].mr = m => ~ Unserved(m)

LEMMA ServedApartIs == RequestInv => ServedApart
BY UnservedSites DEF ServedApart

LEMMA ServedApartNext == RequestInv' => ServedApart'
BY ServedApartIs, PTL

-----------------------------------------------------------------------------
(* How the service moves when a request does.                              *)

LEMMA StatusStays ==
  ASSUME StatusKnown, StatusKnown', NEW n \in Mrs, n \in busy' <=> n \in busy,
         Unserved(n)' <=> Unserved(n)
  PROVE  Status(n)' = Status(n)
BY DEF StatusKnown

LEMMA ServiceStutters ==
  ASSUME StatusKnown, StatusKnown', UNCHANGED <<busy, reqBuf>>,
         \A n \in Mrs : Unserved(n)' <=> Unserved(n),
         \A n \in Mrs \ busy : respBuf'[n] = respBuf[n]
  PROVE  UNCHANGED Service!vars
<1>1. \A n \in Mrs : Status(n)' = Status(n)
  BY StatusStays
<1>2. [n \in Mrs |-> Status(n)]' = [n \in Mrs |-> Status(n)]
  BY <1>1
<1>3. [n \in Mrs |-> IF n \in busy THEN None ELSE respBuf[n]]'
        = [n \in Mrs |-> IF n \in busy THEN None ELSE respBuf[n]]
  OBVIOUS
<1> QED
  BY <1>2, <1>3 DEF Service!vars

LEMMA ServiceIssues ==
  ASSUME StatusKnown, StatusKnown', NEW m \in Mrs, NEW v \in Vals,
         m \notin busy, busy' = busy \cup {m}, Unserved(m)',
         reqBuf' = [reqBuf EXCEPT ![m] = v], UNCHANGED respBuf,
         \A n \in Mrs \ {m} : Unserved(n)' <=> Unserved(n)
  PROVE  Service!Issue(m, v)
<1> DEFINE f == [n \in Mrs |-> Status(n)]
           g == [n \in Mrs |-> IF n \in busy THEN None ELSE respBuf[n]]
<1>1. \A n \in Mrs \ {m} : Status(n)' = Status(n)
  BY StatusStays
<1>2. Status(m) = "idle" /\ Status(m)' = "pending"
  BY DEF StatusKnown
<1>3. f' = [f EXCEPT ![m] = "pending"] /\ f[m] = "idle"
  BY <1>1, <1>2
<1>4. g' = [g EXCEPT ![m] = None]
  OBVIOUS
<1> QED
  BY <1>3, <1>4 DEF Service!Issue

LEMMA ServiceServes ==
  ASSUME StatusKnown, StatusKnown', NEW m \in Mrs,
         m \in busy, Unserved(m), ~ Unserved(m)', UNCHANGED <<busy, reqBuf, respBuf>>,
         \A n \in Mrs \ {m} : Unserved(n)' <=> Unserved(n)
  PROVE  Service!Serve(m)
<1> DEFINE f == [n \in Mrs |-> Status(n)]
           g == [n \in Mrs |-> IF n \in busy THEN None ELSE respBuf[n]]
<1>1. \A n \in Mrs \ {m} : Status(n)' = Status(n)
  BY StatusStays
<1>2. Status(m) = "pending" /\ Status(m)' = "served"
  BY DEF StatusKnown
<1>3. f' = [f EXCEPT ![m] = "served"] /\ f[m] = "pending"
  BY <1>1, <1>2
<1>4. g' = g
  OBVIOUS
<1> QED
  BY <1>3, <1>4 DEF Service!Serve

LEMMA ServiceCompletes ==
  ASSUME StatusKnown, StatusKnown', NEW m \in Mrs,
         m \in busy, ~ Unserved(m), busy' = busy \ {m}, respBuf[m] = reqBuf[m],
         UNCHANGED <<reqBuf, respBuf>>,
         \A n \in Mrs \ {m} : Unserved(n)' <=> Unserved(n)
  PROVE  Service!Complete(m)
<1> DEFINE f == [n \in Mrs |-> Status(n)]
           g == [n \in Mrs |-> IF n \in busy THEN None ELSE respBuf[n]]
<1>1. \A n \in Mrs \ {m} : Status(n)' = Status(n)
  BY StatusStays
<1>2. Status(m) = "served" /\ Status(m)' = "idle"
  BY DEF StatusKnown
<1>3. f' = [f EXCEPT ![m] = "idle"] /\ f[m] = "served"
  BY <1>1, <1>2
<1>4. g' = [g EXCEPT ![m] = reqBuf[m]]
  OBVIOUS
<1> QED
  BY <1>3, <1>4 DEF Service!Complete

LEMMA ServiceRejects ==
  ASSUME StatusKnown, StatusKnown', TypeOK, NEW m \in Mrs,
         m \in busy, Unserved(m), busy' = busy \ {m},
         UNCHANGED <<reqBuf, respBuf>>,
         \A n \in Mrs \ {m} : Unserved(n)' <=> Unserved(n)
  PROVE  Service!Reject(m)
<1> DEFINE f == [n \in Mrs |-> Status(n)]
           g == [n \in Mrs |-> IF n \in busy THEN None ELSE respBuf[n]]
<1>1. \A n \in Mrs \ {m} : Status(n)' = Status(n)
  BY StatusStays
<1>2. Status(m) = "pending" /\ Status(m)' = "idle"
  BY DEF StatusKnown
<1>3. f' = [f EXCEPT ![m] = "idle"] /\ f[m] = "pending"
  BY <1>1, <1>2
<1>4. g' = [g EXCEPT ![m] = respBuf[m]]
  OBVIOUS
<1>5. respBuf[m] \in Vals \cup {None}
  BY DEF TypeOK
<1> QED
  BY <1>3, <1>4, <1>5 DEF Service!Reject

-----------------------------------------------------------------------------
(* What the steps do to the requests the handler has not got.              *)

LEMMA UnservedStays ==
  ASSUME UNCHANGED <<sendQ, srvBuf>>, LiveSlots' = LiveSlots, ServedSlots' = ServedSlots,
         \A t \in CThreads : /\ call'[t] # None <=> call[t] # None
                             /\ call[t] # None => call'[t].mr = call[t].mr,
         NEW n
  PROVE  Unserved(n)' <=> Unserved(n)
BY UnservedNext DEF Unserved

LEMMA QuietStep ==
  ASSUME RequestInv, RequestInv', UNCHANGED <<busy, reqBuf, respBuf, sendQ, srvBuf>>,
         LiveSlots' = LiveSlots, ServedSlots' = ServedSlots,
         \A t \in CThreads : /\ call'[t] # None <=> call[t] # None
                             /\ call[t] # None => call'[t].mr = call[t].mr
  PROVE  UNCHANGED Service!vars
<1>1. StatusKnown /\ StatusKnown'
  BY StatusIs, StatusIsNext
<1>2. \A n \in Mrs : Unserved(n)' <=> Unserved(n)
  BY UnservedStays
<1> QED
  BY <1>1, <1>2, ServiceStutters

LEMMA SendReqService ==
  ASSUME RequestInv, RequestInv', NEW t \in CThreads, NEW c \in Conns, NEW m \in Mrs,
         NEW v \in Vals, SendReq(t, c, m, v)
  PROVE  UNCHANGED Service!vars \/ Service!Issue(m, v)
<1>1. LiveSlots' = LiveSlots /\ ServedSlots' = ServedSlots
  BY LiveSame DEF SendReq, serverVars, wireVars
<1>2. UNCHANGED <<respBuf, sendQ, srvBuf>> /\ m \notin busy
  BY DEF SendReq, wireVars
<1>3. CASE UNCHANGED clientVars
  BY <1>1, <1>2, <1>3, QuietStep DEF clientVars
<1>4. ASSUME NEW i \in mp[c], reqBuf' = [reqBuf EXCEPT ![m] = v], busy' = busy \cup {m},
             call' = [call EXCEPT ![t] = [pc |-> "post_recv", conn |-> c,
                                          mr |-> m, id |-> i]]
      PROVE  Service!Issue(m, v)
  <2>1. call \in [CThreads -> Call \cup {None}] /\ i \in Ids
    BY <1>4 DEF RequestInv, Typed, TypeOK
  <2> DEFINE k == [pc |-> "post_recv", conn |-> c, mr |-> m, id |-> i]
  <2>2. k \in Call /\ k.mr = m
    BY <2>1 DEF Call
  <2>3. k # None
    BY <2>2, NoneAssumption
  <2>4. /\ call'[t] = k
        /\ \A u \in CThreads \ {t} : call'[u] = call[u]
    BY <1>4, <2>1
  <2> HIDE DEF k
  <2>5. call[t] = None
    BY DEF SendReq, MayCall
  <2>6. Unserved(m)'
    BY <2>2, <2>3, <2>4, UnservedNext
  <2>7. ASSUME NEW n \in Mrs \ {m} PROVE Unserved(n)' <=> Unserved(n)
    <3>1. (\E u \in CThreads : call'[u] # None /\ call'[u].mr = n)
            <=> \E u \in CThreads : call[u] # None /\ call[u].mr = n
      BY <2>2, <2>4, <2>5
    <3> QED
      BY <1>1, <1>2, <3>1, UnservedNext DEF Unserved
  <2> QED
    BY <1>2, <1>4, <2>6, <2>7, StatusIs, StatusIsNext, ServiceIssues
<1> QED
  BY <1>3, <1>4 DEF SendReq

LEMMA SendFailService ==
  ASSUME RequestInv, RequestInv', NEW t \in CThreads, call[t] # None, SendFail(t)
  PROVE  \E m \in Mrs : Service!Reject(m)
<1>1. /\ call \in [CThreads -> Call \cup {None}] /\ TypeOK
  BY DEF RequestInv, Typed, TypeOK
<1>2. PICK m \in Mrs : m = call[t].mr
  BY <1>1 DEF Call
<1>3. /\ busy' = busy \ {m} /\ call'[t] = None
      /\ \A u \in CThreads \ {t} : call'[u] = call[u]
      /\ UNCHANGED <<reqBuf, respBuf, sendQ, srvBuf>>
  BY <1>1, <1>2 DEF SendFail, wireVars
<1>4. LiveSlots' = LiveSlots /\ ServedSlots' = ServedSlots
  BY LiveSame DEF SendFail, serverVars, wireVars
<1>5. Unserved(m) /\ m \in busy
  BY <1>2, ServedApartIs DEF Unserved, ServedApart
<1>6. ASSUME NEW n \in Mrs \ {m} PROVE Unserved(n)' <=> Unserved(n)
  <2>1. (\E u \in CThreads : call'[u] # None /\ call'[u].mr = n)
          <=> \E u \in CThreads : call[u] # None /\ call[u].mr = n
    BY <1>2, <1>3
  <2> QED
    BY <1>3, <1>4, <2>1, UnservedNext DEF Unserved
<1> QED
  BY <1>1, <1>3, <1>5, <1>6, StatusIs, StatusIsNext, ServiceRejects

LEMMA PostRecvService ==
  ASSUME RequestInv, RequestInv', NEW t \in CThreads, PostRecv(t)
  PROVE  UNCHANGED Service!vars \/ \E m \in Mrs : Service!Reject(m)
<1>1. call[t] # None
  BY DEF PostRecv
<1>2. CASE SendFail(t)
  BY <1>1, <1>2, SendFailService
<1>3. CASE ~ SendFail(t)
  <2>1. /\ call' = [call EXCEPT ![t] = Continue(@)]
        /\ UNCHANGED <<busy, reqBuf, respBuf, sendQ, srvBuf, handling, writeQ, scq, swc>>
    BY <1>3 DEF PostRecv, wireVars, serverVars
  <2>2. call \in [CThreads -> Call \cup {None}]
    BY DEF RequestInv, Typed, TypeOK
  <2>3. Continue(call[t]) # None /\ Continue(call[t]).mr = call[t].mr
    <3>1. Continue(call[t]) \in Call
      BY <1>1, <2>2 DEF Call, Continue
    <3> QED
      BY <3>1, NoneAssumption DEF Continue
  <2>4. call'[t] = Continue(call[t]) /\ \A u \in CThreads \ {t} : call'[u] = call[u]
    BY <2>1, <2>2
  <2>5. LiveSlots' = LiveSlots /\ ServedSlots' = ServedSlots
    BY <2>1, LiveSame
  <2>6. \A u \in CThreads : /\ call'[u] # None <=> call[u] # None
                            /\ call[u] # None => call'[u].mr = call[u].mr
    BY <1>1, <2>3, <2>4
  <2> QED
    BY <2>1, <2>5, <2>6, QuietStep
<1> QED
  BY <1>2, <1>3

LEMMA EntriesAppend ==
  ASSUME NEW S, NEW q \in Seq(S), NEW e \in S
  PROVE  Entries(Append(q, e)) = Entries(q) \cup {e}
<1>1. /\ DOMAIN q = 1..Len(q) /\ Len(q) \in Nat
      /\ DOMAIN Append(q, e) = 1..(Len(q) + 1)
      /\ \A i \in 1..Len(q) : Append(q, e)[i] = q[i]
      /\ Append(q, e)[Len(q) + 1] = e
  BY AppendProperties, LenProperties
<1>2. /\ \A i \in DOMAIN q : i \in DOMAIN Append(q, e) /\ Append(q, e)[i] = q[i]
      /\ Len(q) + 1 \in DOMAIN Append(q, e)
  BY <1>1
<1>3. Entries(q) \cup {e} \subseteq Entries(Append(q, e))
  BY <1>1, <1>2 DEF Entries
<1> QED
  BY <1>3, EntriesMove

LEMMA EntriesTail ==
  ASSUME NEW S, NEW q \in Seq(S), q # <<>>
  PROVE  Entries(q) = Entries(Tail(q)) \cup {Head(q)}
<1>1. /\ DOMAIN q = 1..Len(q) /\ Len(q) \in Nat \ {0}
      /\ DOMAIN Tail(q) = 1..(Len(q) - 1)
      /\ \A i \in 1..(Len(q) - 1) : Tail(q)[i] = q[i + 1]
      /\ Head(q) = q[1]
  BY HeadTailProperties, EmptySeq, LenProperties
<1>2. \A i \in DOMAIN q : i = 1 \/ (i - 1 \in DOMAIN Tail(q) /\ Tail(q)[i - 1] = q[i])
  BY <1>1
<1>3. Entries(q) \subseteq Entries(Tail(q)) \cup {Head(q)}
  BY <1>1, <1>2 DEF Entries
<1> QED
  BY <1>3, EntriesMove

LEMMA PostSendService ==
  ASSUME RequestInv, RequestInv', NEW t \in CThreads, PostSend(t)
  PROVE  UNCHANGED Service!vars \/ \E m \in Mrs : Service!Reject(m)
<1>1. call[t] # None
  BY DEF PostSend
<1>2. CASE SendFail(t)
  BY <1>1, <1>2, SendFailService
<1>3. CASE ~ SendFail(t)
  <2>1. /\ call \in [CThreads -> Call \cup {None}] /\ sendQ \in [Conns -> Seq(Mrs)]
    BY DEF RequestInv, Typed, TypeOK
  <2>2. PICK m \in Mrs, c \in Conns : m = call[t].mr /\ c = call[t].conn
    BY <1>1, <2>1 DEF Call
  <2>3. /\ sendQ' = [sendQ EXCEPT ![c] = Append(@, m)]
        /\ call' = [call EXCEPT ![t] = None]
        /\ UNCHANGED <<busy, reqBuf, respBuf, srvBuf, handling, writeQ, scq, swc>>
    BY <1>3, <2>2 DEF PostSend, serverVars
  <2>4. /\ call'[t] = None /\ \A u \in CThreads \ {t} : call'[u] = call[u]
        /\ sendQ'[c] = Append(sendQ[c], m) /\ \A d \in Conns \ {c} : sendQ'[d] = sendQ[d]
    BY <2>1, <2>3
  <2>5. LiveSlots' = LiveSlots /\ ServedSlots' = ServedSlots
    BY <2>3, LiveSame
  <2>6. Entries(sendQ'[c]) = Entries(sendQ[c]) \cup {m}
    BY <2>1, <2>4, EntriesAppend
  <2>7. ASSUME NEW n \in Mrs PROVE Unserved(n)' <=> Unserved(n)
    <3>1. \A d \in Conns : n \in Entries(sendQ'[d]) <=>
             n \in Entries(sendQ[d]) \/ (d = c /\ n = m)
      BY <2>4, <2>6
    <3>2. \A u \in CThreads : call[u] # None /\ call[u].mr = n <=>
             \/ call'[u] # None /\ call'[u].mr = n
             \/ u = t /\ n = m
      BY <1>1, <2>2, <2>4
    <3> QED
      BY <2>2, <2>3, <2>5, <3>1, <3>2, UnservedNext DEF Unserved
  <2> QED
    BY <2>3, <2>7, StatusIs, StatusIsNext, ServiceStutters
<1> QED
  BY <1>2, <1>3

LEMMA OnRecvRespService ==
  ASSUME RequestInv, RequestInv', NEW t \in CThreads, OnRecvResp(t)
  PROVE  \E m \in Mrs : Service!Complete(m)
<1> DEFINE e == Head(cwc[t])
<1>1. /\ e \in ClientCqe /\ e.op = "recv" /\ Answered(e)
      /\ ctx[e.conn][e.id] \in MrsAt(Cwc_(t))
  BY OnRecvRespSited DEF OnRecvResp, AtClientCqe
<1>2. PICK m \in Mrs : m = ctx[e.conn][e.id] /\ respBuf[m] = reqBuf[m]
  BY <1>1 DEF Answered
<1>3. busy' = busy \ {m} /\ UNCHANGED <<reqBuf, respBuf, sendQ, srvBuf, call>>
  BY <1>2 DEF OnRecvResp, wireVars
<1>4. LiveSlots' = LiveSlots /\ ServedSlots' = ServedSlots
  BY LiveSame DEF OnRecvResp, serverVars, wireVars
<1> HIDE DEF e
<1>5. m \in busy /\ ~ Unserved(m)
  BY <1>1, <1>2, UnservedSites
<1>6. \A n \in Mrs : Unserved(n)' <=> Unserved(n)
  BY <1>3, <1>4, UnservedStays
<1> QED
  BY <1>2, <1>3, <1>5, <1>6, StatusIs, StatusIsNext, ServiceCompletes

LEMMA DeliverReqService ==
  ASSUME RequestInv, RequestInv', NEW c \in Conns, DeliverReq(c)
  PROVE  UNCHANGED Service!vars
<1>1. /\ sendQ \in [Conns -> Seq(Mrs)] /\ sendQ[c] # <<>>
      /\ srvBuf \in [Slots -> Message \cup {None}] /\ Typed /\ TypeOK /\ SlotConserved
  BY DEF DeliverReq, RequestInv, Typed, TypeOK
<1>2. PICK m \in Mrs : m = Head(sendQ[c])
  BY <1>1, HeadTailProperties
<1>3. PICK s \in Slots :
        /\ srvBuf' = [srvBuf EXCEPT ![s] = [id |-> reqHdr[m], mr |-> m, val |-> reqBuf[m]]]
        /\ s \notin LiveSlots /\ LiveSlots' = LiveSlots \cup {s}
        /\ ServedSlots' = ServedSlots
  BY <1>1, <1>2, DeliverReqLive
<1>4. /\ sendQ'[c] = Tail(sendQ[c]) /\ \A d \in Conns \ {c} : sendQ'[d] = sendQ[d]
      /\ UNCHANGED <<call, busy, reqBuf, respBuf>>
  BY <1>1 DEF DeliverReq, clientVars
<1>5. Entries(sendQ[c]) = Entries(sendQ'[c]) \cup {m}
  BY <1>1, <1>2, <1>4, EntriesTail
<1>6. /\ srvBuf'[s].mr = m /\ \A r \in Slots \ {s} : srvBuf'[r] = srvBuf[r]
      /\ LiveSlots \subseteq Slots /\ s \notin ServedSlots
  BY <1>1, <1>3, LiveAreSlots, LiveIs
<1>7. ASSUME NEW n \in Mrs PROVE Unserved(n)' <=> Unserved(n)
  <2>1. \A d \in Conns : n \in Entries(sendQ[d]) <=>
           n \in Entries(sendQ'[d]) \/ (d = c /\ n = m)
    BY <1>4, <1>5
  <2>2. \A r : r \in LiveSlots' /\ r \notin ServedSlots' /\ srvBuf'[r].mr = n <=>
           \/ r \in LiveSlots /\ r \notin ServedSlots /\ srvBuf[r].mr = n
           \/ r = s /\ n = m
    BY <1>3, <1>6
  <2> QED
    BY <1>4, <2>1, <2>2, UnservedNext DEF Unserved
<1> QED
  BY <1>4, <1>7, StatusIs, StatusIsNext, ServiceStutters

LEMMA DeliverRespService ==
  ASSUME RequestInv, RequestInv', NEW c \in Conns, DeliverResp(c)
  PROVE  UNCHANGED Service!vars
<1>1. writeQ[c] # <<>> /\ Typed /\ SlotConserved /\ FlightsBusy
  BY SitedBusy DEF DeliverResp, RequestInv
<1>2. PICK w \in Write, s \in Slots, m \in Mrs :
        /\ w = Head(writeQ[c]) /\ s = w.slot /\ m = w.mr
        /\ m = srvBuf[s].mr /\ s \in LiveSlots
  BY <1>1, NextWrite
<1>3. /\ LiveSlots' = LiveSlots \ {s} /\ ServedSlots' = ServedSlots \ {s}
      /\ s \in ServedSlots
  BY <1>1, <1>2, DeliverRespLive
<1>4. /\ respBuf' = [respBuf EXCEPT ![m] = srvBuf[s].val]
      /\ UNCHANGED <<call, busy, reqBuf, sendQ, srvBuf>>
  BY <1>2 DEF DeliverResp, clientVars
<1>5. m \in busy
  BY <1>1, <1>2 DEF FlightsBusy
<1>6. \A n \in Mrs \ busy : respBuf'[n] = respBuf[n]
  BY <1>4, <1>5, <1>1 DEF Typed, TypeOK
<1>7. \A n \in Mrs : Unserved(n)' <=> Unserved(n)
  BY <1>3, <1>4, UnservedNext DEF Unserved
<1> QED
  BY <1>4, <1>6, <1>7, StatusIs, StatusIsNext, ServiceStutters

LEMMA OnRecvReqService ==
  ASSUME RequestInv, RequestInv', NEW t \in SThreads, OnRecvReq(t)
  PROVE  \E m \in Mrs : Service!Serve(m)
<1>1. Typed /\ SlotConserved
  BY DEF RequestInv
<1>2. PICK s \in Slots : /\ s \in LiveSlots /\ s \notin ServedSlots
                         /\ LiveSlots' = LiveSlots
                         /\ ServedSlots' = ServedSlots \cup {s}
  BY <1>1, OnRecvReqLive
<1>3. PICK m \in Mrs : m = srvBuf[s].mr
  BY <1>1, <1>2 DEF Typed, TypeOK, SlotFilled, Message
<1>4. UNCHANGED <<call, busy, reqBuf, respBuf, sendQ, srvBuf>>
  BY DEF OnRecvReq, clientVars, wireVars
<1>5. Unserved(m) /\ m \in busy
  BY <1>2, <1>3, ServedApartIs DEF Unserved, ServedApart
<1>6. ~ Unserved(m)'
  BY <1>2, <1>3, <1>4, ServedApartNext DEF ServedApart
<1>7. \A n \in Mrs \ {m} : Unserved(n)' <=> Unserved(n)
  BY <1>2, <1>3, <1>4, UnservedNext DEF Unserved
<1> QED
  BY <1>4, <1>5, <1>6, <1>7, StatusIs, StatusIsNext, ServiceServes

-----------------------------------------------------------------------------

LEMMA ServiceInit == Init => Service!Init
<1> SUFFICES ASSUME Init PROVE Service!Init
  OBVIOUS
<1>1. \A m \in Mrs : Status(m) = "idle"
  BY DEF Init, Status
<1>2. [m \in Mrs |-> Status(m)] = [m \in Mrs |-> "idle"]
  BY <1>1
<1> QED
  BY <1>2 DEF Init, Service!Init

LEMMA ServiceStep ==
  RequestInv /\ RequestInv' /\ [Next]_vars => [Service!Next]_(Service!vars)
<1> SUFFICES ASSUME RequestInv, RequestInv', [Next]_vars
             PROVE  Service!Next \/ UNCHANGED Service!vars
  OBVIOUS
<1>1. Typed /\ SlotConserved
  BY DEF RequestInv
<1>2. ASSUME UNCHANGED <<busy, reqBuf, respBuf, sendQ, srvBuf, call>>,
             LiveSlots' = LiveSlots, ServedSlots' = ServedSlots
      PROVE  UNCHANGED Service!vars
  BY <1>2, QuietStep
<1>3. CASE UNCHANGED vars
  BY <1>2, <1>3, LiveSame DEF vars, clientVars, wireVars, serverVars
<1>4. ASSUME NEW t \in CThreads, ClientStep(t)
      PROVE  Service!Next \/ UNCHANGED Service!vars
  <2>1. ASSUME NEW c \in Conns, NEW m \in Mrs, NEW v \in Vals, SendReq(t, c, m, v)
        PROVE  Service!Next \/ UNCHANGED Service!vars
    BY <2>1, SendReqService DEF Service!Next
  <2>2. CASE PostRecv(t) \/ PostSend(t)
    BY <2>2, PostRecvService, PostSendService DEF Service!Next
  <2>3. CASE OnRecvResp(t)
    BY <2>3, OnRecvRespService DEF Service!Next
  <2>4. CASE ClientPoll(t) \/ OnSendReq(t) \/ MempoolPut(t)
    BY <1>2, <2>4, LiveSame
       DEF ClientPoll, OnSendReq, MempoolPut, wireVars, serverVars
  <2> QED
    BY <1>4, <2>1, <2>2, <2>3, <2>4 DEF ClientStep
<1>5. ASSUME NEW c \in Conns, WireStep(c) PROVE UNCHANGED Service!vars
  <2>1. CASE RnrNak(c) \/ AckReq(c)
    BY <1>2, <2>1, LiveSame DEF RnrNak, AckReq, clientVars, serverVars, wireVars
  <2>2. CASE AckWrite(c)
    BY <1>1, <1>2, <2>2, AckWriteLive DEF AckWrite, clientVars
  <2> QED
    BY <1>5, <2>1, <2>2, DeliverReqService, DeliverRespService DEF WireStep
<1>6. ASSUME NEW t \in SThreads, ServerStep(t)
      PROVE  Service!Next \/ UNCHANGED Service!vars
  <2>1. CASE OnRecvReq(t)
    BY <2>1, OnRecvReqService DEF Service!Next
  <2>2. CASE ServerPoll(t) \/ OnWriteRespDone(t)
    <3>1. UNCHANGED <<busy, reqBuf, respBuf, sendQ, srvBuf, call>>
      BY <2>2 DEF ServerPoll, OnWriteRespDone, clientVars, wireVars
    <3> QED
      BY <1>1, <1>2, <2>2, <3>1, ServerPollLive, OnWriteRespDoneLive
  <2> QED
    BY <1>6, <2>1, <2>2 DEF ServerStep
<1>7. ASSUME NEW s \in Slots, MakeResp(s) PROVE UNCHANGED Service!vars
  <2>1. UNCHANGED <<busy, reqBuf, respBuf, sendQ, srvBuf, call>>
    BY <1>7 DEF MakeResp, clientVars
  <2> QED
    BY <1>1, <1>2, <1>7, <2>1, MakeRespLive
<1> QED
  BY <1>3, <1>4, <1>5, <1>6, <1>7 DEF Next

(* Up to the first connection that breaks, kv_rdma.c keeps the promise of  *)
(* RpcService: the handler runs once for a request, the callback runs once *)
(* and finds the answer to that request, and a request whose callback      *)
(* reports failure was never handled.  After the break the last part is    *)
(* not promised: a flushed receive calls back for a request that may have  *)
(* been handled.                                                           *)
THEOREM ImplementsService == Safety => ServiceSafety
<1>1. RequestInv /\ RequestInv' /\ [Next]_vars => [Service!Next]_(Service!vars)
  BY ServiceStep
<1> QED
  BY <1>1, ServiceInit, AlwaysRequestInv, PTL DEF Safety, ServiceSafety, Service!Safety

-----------------------------------------------------------------------------
(* Sizing: each entry of a queue that is in use belongs to a buffer pair   *)
(* of its own.  Counting.                                                  *)

(* f gives each member of I a member of K of its own.                      *)
OwnIn(I, f, K) ==
  f \in [I -> K] /\ \A x, y \in I : f[x] = f[y] => x = y

ImageOf(I, f) == {f[x] : x \in I}

LEMMA OwnCount ==
  ASSUME NEW I, NEW K, NEW f, OwnIn(I, f, K), IsFiniteSet(K)
  PROVE  /\ IsFiniteSet(I) /\ Cardinality(I) \in Nat /\ Cardinality(K) \in Nat
         /\ Cardinality(I) <= Cardinality(K)
<1>1. f \in Injection(I, K)
  BY DEF OwnIn, Injection, IsInjective
<1> QED
  BY <1>1, FS_Injection, FS_CardinalityType

LEMMA ImageCount ==
  ASSUME NEW I, NEW K, NEW f, OwnIn(I, f, K), IsFiniteSet(K)
  PROVE  /\ IsFiniteSet(ImageOf(I, f)) /\ ImageOf(I, f) \subseteq K
         /\ Cardinality(ImageOf(I, f)) \in Nat
         /\ Cardinality(I) \in Nat
         /\ Cardinality(I) <= Cardinality(ImageOf(I, f))
<1>1. ImageOf(I, f) \subseteq K
  BY DEF OwnIn, ImageOf
<1>2. IsFiniteSet(ImageOf(I, f))
  BY <1>1, FS_Subset
<1>3. OwnIn(I, f, ImageOf(I, f))
  BY DEF OwnIn, ImageOf
<1> QED
  BY <1>1, <1>2, <1>3, OwnCount

LEMMA DisjointCount ==
  ASSUME NEW A, NEW B, IsFiniteSet(A), IsFiniteSet(B), A \cap B = {}
  PROVE  /\ IsFiniteSet(A \cup B)
         /\ Cardinality(A \cup B) = Cardinality(A) + Cardinality(B)
<1>1. /\ IsFiniteSet(A \cup B)
      /\ Cardinality(A \cup B) = Cardinality(A) + Cardinality(B) - Cardinality(A \cap B)
  BY FS_Union
<1>2. Cardinality(A \cap B) = 0
  BY FS_EmptySet
<1>3. Cardinality(A) \in Nat /\ Cardinality(B) \in Nat
  BY FS_CardinalityType
<1> QED
  BY <1>1, <1>2, <1>3

(* Three families of members of K that have none in common.                *)
LEMMA ThreeCount ==
  ASSUME NEW I, NEW J, NEW L, NEW f, NEW g, NEW h, NEW K, IsFiniteSet(K),
         OwnIn(I, f, K), OwnIn(J, g, K), OwnIn(L, h, K),
         ImageOf(I, f) \cap ImageOf(J, g) = {},
         ImageOf(I, f) \cap ImageOf(L, h) = {},
         ImageOf(J, g) \cap ImageOf(L, h) = {}
  PROVE  /\ Cardinality(I) \in Nat /\ Cardinality(J) \in Nat /\ Cardinality(L) \in Nat
         /\ Cardinality(K) \in Nat
         /\ Cardinality(I) + Cardinality(J) + Cardinality(L) <= Cardinality(K)
<1> DEFINE A == ImageOf(I, f)
           B == ImageOf(J, g)
           C == ImageOf(L, h)
<1>1. /\ IsFiniteSet(A) /\ IsFiniteSet(B) /\ IsFiniteSet(C)
      /\ A \cup B \cup C \subseteq K
      /\ Cardinality(A) \in Nat /\ Cardinality(B) \in Nat /\ Cardinality(C) \in Nat
      /\ Cardinality(I) \in Nat /\ Cardinality(J) \in Nat /\ Cardinality(L) \in Nat
      /\ Cardinality(I) <= Cardinality(A) /\ Cardinality(J) <= Cardinality(B)
      /\ Cardinality(L) <= Cardinality(C)
  BY ImageCount
<1>2. A \cap B = {} /\ (A \cup B) \cap C = {}
  OBVIOUS
<1> HIDE DEF A, B, C
<1> DEFINE D == A \cup B
<1>3. IsFiniteSet(D) /\ Cardinality(D) = Cardinality(A) + Cardinality(B)
  BY <1>1, <1>2, DisjointCount
<1>6. D \cup C \subseteq K /\ D \cap C = {}
  BY <1>1, <1>2
<1> HIDE DEF D
<1>4. IsFiniteSet(D \cup C) /\ Cardinality(D \cup C) = Cardinality(D) + Cardinality(C)
  BY <1>1, <1>3, <1>6, DisjointCount
<1>5. Cardinality(D \cup C) <= Cardinality(K) /\ Cardinality(K) \in Nat
  BY <1>6, FS_Subset, FS_CardinalityType
<1> QED
  BY <1>1, <1>3, <1>4, <1>5

(* The places of a queue that pass a test are finitely many.               *)
LEMMA PlacesCount ==
  ASSUME NEW S, NEW q \in Seq(S)
  PROVE  /\ Len(q) \in Nat /\ DOMAIN q = 1..Len(q)
         /\ IsFiniteSet(DOMAIN q) /\ Cardinality(DOMAIN q) = Len(q)
<1>1. PICK n \in Nat : n = Len(q)
  BY LenProperties
<1>2. IsFiniteSet(1..n) /\ Cardinality(1..n) = IF 1 > n THEN 0 ELSE n - 1 + 1
  BY FS_Interval
<1>3. Cardinality(1..n) = n
  BY <1>2
<1>4. DOMAIN q = 1..Len(q)
  BY LenProperties
<1> QED
  BY <1>1, <1>2, <1>3, <1>4

-----------------------------------------------------------------------------
(* The slots of a connection: exactly what a step does to them.            *)

LEMMA EntriesPoll ==
  ASSUME NEW S, NEW q \in Seq(S)
  PROVE  Entries(q) \subseteq Entries(Polled(q)) \cup Entries(LeftInCq(q))
<1> DEFINE n == PollCount(q)
           a == Polled(q)
           b == LeftInCq(q)
<1>1. /\ DOMAIN q = 1..Len(q) /\ DOMAIN a = 1..n /\ DOMAIN b = 1..(Len(q) - n)
      /\ Len(q) \in Nat /\ n \in 0..Len(q)
      /\ \A i \in 1..n : a[i] = q[i]
      /\ \A i \in 1..(Len(q) - n) : b[i] = q[i + n]
  BY PollTypes, LenProperties
<1> HIDE DEF n, a, b
<1>2. \A i \in DOMAIN q : \/ i \in DOMAIN a /\ a[i] = q[i]
                          \/ i - n \in DOMAIN b /\ b[i - n] = q[i]
  BY <1>1
<1>3. Entries(q) \subseteq Entries(a) \cup Entries(b)
  BY <1>2 DEF Entries
<1> QED
  BY <1>3 DEF a, b

(* A request that is at the server stays on its connection until its       *)
(* response is delivered.                                                  *)
LEMMA SlotsOnStay ==
  ASSUME RequestInv, [Next]_vars, NEW c \in Conns, NEW s \in SlotsOn(c)
  PROVE  \/ s \in SlotsOn(c)'
         \/ DeliverResp(c) /\ s = Head(writeQ[c]).slot
<1>1. /\ scq \in Seq(ServerCqe) /\ swc \in [SThreads -> Seq(ServerCqe)]
      /\ writeQ \in [Conns -> Seq(Write)] /\ writeAck \in [Conns -> Seq(Write)]
      /\ sendQ \in [Conns -> Seq(Mrs)]
  BY DEF RequestInv, Typed, TypeOK
<1>2. s \in LiveSlots /\ s \in Slots
  BY SlotsOnLive, LiveAreSlots DEF RequestInv, Typed
<1>3. \/ \E e \in ServerEntries : e.op = "recv" /\ e.conn = c /\ e.slot = s
      \/ s \in handling /\ reqCtx[s].conn = c
      \/ \E w \in Entries(writeQ[c]) : w.slot = s
  BY SlotsOnAre
<1>4. ASSUME UNCHANGED <<handling, reqCtx, writeQ>>, ServerEntries \subseteq ServerEntries'
      PROVE  s \in SlotsOn(c)'
  BY <1>3, <1>4, SlotsOnAre
<1>5. ASSUME UNCHANGED <<scq, swc, handling, reqCtx, writeQ>> PROVE s \in SlotsOn(c)'
  <2>1. ServerEntries \subseteq ServerEntries'
    BY <1>5, ServerEntriesAre
  <2> QED
    BY <1>4, <1>5, <2>1
<1>6. ASSUME NEW e \in ServerCqe, scq' = Append(scq, e),
             UNCHANGED <<swc, handling, reqCtx, writeQ>>
      PROVE  s \in SlotsOn(c)'
  <2>1. Entries(scq) \subseteq Entries(scq')
    BY <1>1, <1>6, EntriesAppend
  <2>2. ServerEntries \subseteq ServerEntries'
    BY <1>6, <2>1, ServerEntriesAre
  <2> QED
    BY <1>4, <1>6, <2>2
<1>7. ASSUME NEW t \in CThreads, ClientStep(t)
      PROVE  UNCHANGED <<scq, swc, handling, reqCtx, writeQ>>
  BY <1>7 DEF ClientStep, SendReq, PostRecv, PostSend, SendFail, ClientPoll, OnSendReq,
     OnRecvResp, MempoolPut, serverVars, wireVars
<1>8. ASSUME NEW d \in Conns, DeliverReq(d) PROVE s \in SlotsOn(c)'
  <2>1. PICK r \in Slots :
          scq' = Append(scq, [op |-> "recv", conn |-> d, slot |-> r,
                              imm |-> Head(sendQ[d])])
    BY <1>8, DeliverReqLive DEF RequestInv
  <2>2. Head(sendQ[d]) \in Mrs
    BY <1>1, <1>8, HeadTailProperties DEF DeliverReq
  <2>3. [op |-> "recv", conn |-> d, slot |-> r, imm |-> Head(sendQ[d])] \in ServerCqe
    BY <2>2 DEF ServerCqe
  <2>4. UNCHANGED <<swc, handling, reqCtx, writeQ>>
    BY <1>8 DEF DeliverReq, serverVars
  <2> QED
    BY <1>6, <2>1, <2>3, <2>4
<1>9. ASSUME NEW d \in Conns, AckWrite(d) PROVE s \in SlotsOn(c)'
  <2>1. writeAck[d] \in Seq(Write) /\ writeAck[d] # <<>>
    BY <1>1, <1>9 DEF AckWrite
  <2>2. Head(writeAck[d]) \in Write
    BY <2>1, HeadTailProperties
  <2>3. /\ [op |-> "write", conn |-> d, slot |-> Head(writeAck[d]).slot,
            imm |-> None] \in ServerCqe
        /\ UNCHANGED <<swc, handling, reqCtx, writeQ>>
    BY <1>9, <2>2 DEF AckWrite, ServerCqe, Write, serverVars
  <2> QED
    BY <1>6, <1>9, <2>3 DEF AckWrite
<1>10. ASSUME NEW d \in Conns, RnrNak(d) \/ AckReq(d)
       PROVE  UNCHANGED <<scq, swc, handling, reqCtx, writeQ>>
  BY <1>10 DEF RnrNak, AckReq, serverVars, wireVars
<1>11. ASSUME NEW d \in Conns, DeliverResp(d)
       PROVE  s \in SlotsOn(c)' \/ (c = d /\ s = Head(writeQ[c]).slot)
  <2>1. /\ writeQ' = [writeQ EXCEPT ![d] = Tail(@)] /\ writeQ[d] # <<>>
        /\ UNCHANGED <<scq, swc, handling, reqCtx>>
    BY <1>11 DEF DeliverResp, serverVars
  <2>2. CASE c # d
    <3>1. writeQ'[c] = writeQ[c]
      BY <1>1, <2>1, <2>2
    <3> QED
      BY <1>3, <2>1, <3>1, SlotsOnAre, ServerEntriesAre
  <2>3. CASE c = d
    <3>1. writeQ'[c] = Tail(writeQ[c]) /\ writeQ[c] \in Seq(Write) /\ writeQ[c] # <<>>
      BY <1>1, <2>1, <2>3
    <3>2. Entries(writeQ[c]) = Entries(writeQ'[c]) \cup {Head(writeQ[c])}
      BY <3>1, EntriesTail
    <3> QED
      BY <1>3, <2>1, <2>3, <3>2, SlotsOnAre, ServerEntriesAre
  <2> QED
    BY <2>2, <2>3
<1>12. ASSUME NEW t \in SThreads, ServerPoll(t) PROVE s \in SlotsOn(c)'
  <2>1. /\ swc'[t] = Polled(scq) /\ scq' = LeftInCq(scq) /\ swc[t] = <<>>
        /\ \A u \in SThreads \ {t} : swc'[u] = swc[u]
        /\ UNCHANGED <<handling, reqCtx, writeQ>>
    BY <1>1, <1>12 DEF ServerPoll, wireVars
  <2>2. Entries(scq) \subseteq Entries(Polled(scq)) \cup Entries(LeftInCq(scq))
    BY <1>1, EntriesPoll
  <2>3. ServerEntries \subseteq ServerEntries'
    BY <2>1, <2>2, EntriesEmpty, ServerEntriesAre
  <2> QED
    BY <1>4, <2>1, <2>3
<1>13. ASSUME NEW t \in SThreads, OnRecvReq(t) \/ OnWriteRespDone(t)
       PROVE  s \in SlotsOn(c)'
  <2>1. /\ swc'[t] = Tail(swc[t]) /\ scq' = scq /\ swc[t] # <<>>
        /\ \A u \in SThreads \ {t} : swc'[u] = swc[u]
        /\ UNCHANGED writeQ
    BY <1>1, <1>13 DEF OnRecvReq, OnWriteRespDone, AtServerCqe, wireVars
  <2>2. Entries(swc[t]) = Entries(Tail(swc[t])) \cup {Head(swc[t])}
    BY <1>1, <2>1, EntriesTail
  <2>3. \A e \in ServerEntries : e \in ServerEntries' \/ e = Head(swc[t])
    BY <2>1, <2>2, ServerEntriesAre
  <2>4. CASE \E w \in Entries(writeQ[c]) : w.slot = s
    BY <2>1, <2>4, SlotsOnAre
  <2>5. CASE s \in handling /\ reqCtx[s].conn = c
    <3>1. s \in handling' /\ s \in ServedSlots /\ s \in ServedSlots'
      BY <1>13, <2>5, LiveIs, LiveIsNext DEF OnRecvReq, OnWriteRespDone
    <3>2. reqCtx'[s] = reqCtx[s]
      BY <1>2, <3>1, ViewKept
    <3> QED
      BY <2>5, <3>1, <3>2, SlotsOnAre
  <2>6. ASSUME NEW e \in ServerEntries, e.op = "recv", e.conn = c, e.slot = s
        PROVE  s \in SlotsOn(c)'
    <3>1. CASE e \in ServerEntries'
      BY <2>6, <3>1, SlotsOnAre
    <3>2. CASE e = Head(swc[t])
      <4>1. OnRecvReq(t)
        BY <1>13, <2>6, <3>2 DEF OnWriteRespDone, AtServerCqe
      <4>2. s \in handling' /\ reqCtx'[s].conn = c
        BY <1>2, <2>6, <3>2, <4>1 DEF OnRecvReq, RequestInv, Typed, TypeOK
      <4> QED
        BY <4>2, SlotsOnAre
    <3> QED
      BY <2>3, <3>1, <3>2
  <2> QED
    BY <1>3, <2>4, <2>5, <2>6
<1>14. ASSUME NEW r \in Slots, MakeResp(r) PROVE s \in SlotsOn(c)'
  <2>1. CASE UNCHANGED <<handling, writeQ>>
    <3>1. UNCHANGED <<scq, swc, reqCtx>>
      BY <1>14 DEF MakeResp
    <3> QED
      BY <1>5, <2>1, <3>1
  <2>2. CASE ~ UNCHANGED <<handling, writeQ>>
    <3> DEFINE x == [slot |-> r, id |-> reqCtx[r].id, mr |-> reqCtx[r].mr,
                     rkey |-> reqCtx[r].rkey]
    <3>1. /\ r \in handling /\ handling' = handling \ {r}
          /\ writeQ' = [writeQ EXCEPT ![reqCtx[r].conn] = Append(@, x)]
          /\ UNCHANGED <<scq, swc, reqCtx>>
      BY <1>14, <2>2 DEF MakeResp
    <3>2. reqCtx[r] \in ReqCtx
      BY <3>1 DEF RequestInv, Typed, TypeOK, SlotFilled
    <3>3. x \in Write /\ x.slot = r
      BY <3>2 DEF ReqCtx, Write
    <3>4. PICK d \in Conns : d = reqCtx[r].conn
      BY <3>2 DEF ReqCtx
    <3> HIDE DEF x
    <3>5. writeQ'[d] = Append(writeQ[d], x) /\ writeQ[d] \in Seq(Write)
      BY <1>1, <3>1, <3>4
    <3>6. Entries(writeQ'[d]) = Entries(writeQ[d]) \cup {x}
      BY <3>3, <3>5, EntriesAppend
    <3>7. Entries(writeQ[c]) \subseteq Entries(writeQ'[c])
      <4>1. c # d => writeQ'[c] = writeQ[c]
        BY <1>1, <3>1, <3>4
      <4> QED
        BY <3>6, <4>1
    <3>8. ServerEntries \subseteq ServerEntries'
      BY <3>1, ServerEntriesAre
    <3>9. CASE s \in handling /\ reqCtx[s].conn = c
      BY <3>1, <3>3, <3>4, <3>6, <3>9, SlotsOnAre
    <3> QED
      BY <1>3, <3>7, <3>8, <3>9, SlotsOnAre
  <2> QED
    BY <2>1, <2>2
<1>15. CASE UNCHANGED vars
  BY <1>5, <1>15 DEF vars, serverVars, wireVars
<1> QED
  BY <1>5, <1>7, <1>8, <1>9, <1>10, <1>11, <1>12, <1>13, <1>14, <1>15
     DEF Next, WireStep, ServerStep

LEMMA TailDiffers ==
  ASSUME NEW S, NEW q \in Seq(S), q # <<>>
  PROVE  Tail(q) # q
<1>1. Len(Tail(q)) = Len(q) - 1 /\ Len(q) \in Nat
  BY HeadTailProperties, LenProperties
<1> QED
  BY HeadTailProperties, EmptySeq, LenProperties

(* Nothing but a request that arrives makes a slot live.                   *)
LEMMA LiveShrinks ==
  ASSUME RequestInv, [Next]_vars, \A d \in Conns : ~ DeliverReq(d)
  PROVE  LiveSlots' \subseteq LiveSlots /\ UNCHANGED srvBuf
<1>1. Typed /\ SlotConserved
  BY DEF RequestInv
<1>2. UNCHANGED <<handling, writeQ, scq, swc>> => LiveSlots' = LiveSlots
  BY LiveSame
<1>3. ASSUME NEW t \in CThreads, ClientStep(t)
      PROVE  UNCHANGED <<handling, writeQ, scq, swc, srvBuf>>
  BY <1>3 DEF ClientStep, SendReq, PostRecv, PostSend, SendFail, ClientPoll, OnSendReq,
     OnRecvResp, MempoolPut, serverVars, wireVars
<1>4. ASSUME NEW d \in Conns, WireStep(d) PROVE LiveSlots' \subseteq LiveSlots /\ UNCHANGED srvBuf
  <2>1. CASE RnrNak(d) \/ AckReq(d)
    <3>1. UNCHANGED <<handling, writeQ, scq, swc, srvBuf>>
      BY <2>1 DEF RnrNak, AckReq, serverVars, wireVars
    <3> QED
      BY <1>2, <3>1
  <2>2. CASE DeliverResp(d)
    <3>1. LiveSlots' = LiveSlots \ {Head(writeQ[d]).slot}
      BY <1>1, <2>2, DeliverRespLive
    <3> QED
      BY <2>2, <3>1 DEF DeliverResp
  <2>3. CASE AckWrite(d)
    BY <1>1, <2>3, AckWriteLive DEF AckWrite
  <2> QED
    BY <1>4, <2>1, <2>2, <2>3 DEF WireStep
<1>5. ASSUME NEW t \in SThreads, ServerStep(t) PROVE LiveSlots' = LiveSlots /\ UNCHANGED srvBuf
  <2>1. LiveSlots' = LiveSlots
    BY <1>1, <1>5, ServerPollLive, OnRecvReqLive, OnWriteRespDoneLive DEF ServerStep
  <2> QED
    BY <1>5, <2>1 DEF ServerStep, ServerPoll, OnRecvReq, OnWriteRespDone
<1>6. ASSUME NEW s \in Slots, MakeResp(s) PROVE LiveSlots' = LiveSlots /\ UNCHANGED srvBuf
  BY <1>1, <1>6, MakeRespLive DEF MakeResp
<1>7. CASE UNCHANGED vars
  BY <1>2, <1>7 DEF vars, serverVars, wireVars
<1> QED
  BY <1>2, <1>3, <1>4, <1>5, <1>6, <1>7 DEF Next

LEMMA SlotsOnOnly ==
  ASSUME RequestInv, [Next]_vars, TypeOK', \A d \in Conns : ~ DeliverReq(d),
         NEW c \in Conns, NEW s \in SlotsOn(c)'
  PROVE  s \in SlotsOn(c)
<1>1. s \in SlotsOn(c) \/ srvBuf'[s].mr \in Entries(sendQ[c])
  BY SlotsOnAfter
<1>2. s \in LiveSlots /\ srvBuf'[s] = srvBuf[s] /\ s \in Slots
  BY SlotsOnLiveNext, LiveShrinks, LiveAreSlots DEF RequestInv, Typed
<1>3. srvBuf[s].mr \notin Entries(sendQ[c])
  <2>1. srvBuf[s].mr \in Mrs /\ srvBuf[s].mr \in MrsAt(Slot_(s))
    BY <1>2, MrsAtSites DEF RequestInv, Typed, TypeOK, SlotFilled, Message
  <2>2. srvBuf[s].mr \notin MrsAt(SendQ_(c))
    BY <1>2, <2>1, SitesAre, SitesDiffer, SiteElsewhere DEF RequestInv, RequestsSited
  <2>3. Itself[srvBuf[s].mr] = srvBuf[s].mr /\ srvBuf[s].mr # None
    BY <2>1, NoneIsNew DEF Itself
  <2> QED
    BY <2>2, <2>3, MrsAtSites DEF Keys, Entries
<1> QED
  BY <1>1, <1>2, <1>3

(* The request m of d arrives in slot s.                                   *)
Arrives(d, m, s, e) ==
  /\ m = Head(sendQ[d]) /\ s \in srq /\ s \notin LiveSlots
  /\ srvBuf'[s].mr = m /\ \A r \in Slots \ {s} : srvBuf'[r] = srvBuf[r]
  /\ e.op = "recv" /\ e.conn = d /\ e.slot = s /\ scq' = Append(scq, e)
  /\ SlotsOn(d)' = SlotsOn(d) \cup {s}
  /\ \A c \in Conns \ {d} : SlotsOn(c)' = SlotsOn(c)

LEMMA DeliverReqOn ==
  ASSUME RequestInv, NEW d \in Conns, DeliverReq(d)
  PROVE  \E m \in Mrs, s \in Slots, e \in ServerCqe : Arrives(d, m, s, e)
<1>1. /\ scq \in Seq(ServerCqe) /\ swc \in [SThreads -> Seq(ServerCqe)]
      /\ sendQ[d] \in Seq(Mrs) /\ sendQ[d] # <<>> /\ srvBuf \in [Slots -> Message \cup {None}]
      /\ srq \subseteq Slots
  BY DEF DeliverReq, RequestInv, Typed, TypeOK
<1>2. PICK m \in Mrs : m = Head(sendQ[d])
  BY <1>1, HeadTailProperties
<1>3. PICK s \in Slots :
        /\ srvBuf' = [srvBuf EXCEPT ![s] = [id |-> reqHdr[m], mr |-> m, val |-> reqBuf[m]]]
        /\ scq' = Append(scq, [op |-> "recv", conn |-> d, slot |-> s, imm |-> m])
        /\ s \in srq /\ s \notin LiveSlots
  BY <1>2, DeliverReqLive DEF RequestInv
<1>4. PICK e \in ServerCqe : /\ e.op = "recv" /\ e.conn = d /\ e.slot = s
                             /\ scq' = Append(scq, e)
  <2>1. [op |-> "recv", conn |-> d, slot |-> s, imm |-> m] \in ServerCqe
    BY DEF ServerCqe
  <2> QED
    BY <1>3, <2>1
<1>5. srvBuf'[s].mr = m /\ \A r \in Slots \ {s} : srvBuf'[r] = srvBuf[r]
  BY <1>1, <1>3
<1>6. Entries(scq') = Entries(scq) \cup {e}
  BY <1>1, <1>4, EntriesAppend
<1>7. UNCHANGED <<swc, handling, reqCtx, writeQ>>
  BY DEF DeliverReq, serverVars
<1>8. \A x : x \in ServerEntries' <=> x \in ServerEntries \/ x = e
  BY <1>6, <1>7, ServerEntriesAre
<1>9. ASSUME NEW c \in Conns, NEW r
      PROVE  r \in SlotsOn(c)' <=> r \in SlotsOn(c) \/ (c = d /\ r = s)
  BY <1>4, <1>7, <1>8, SlotsOnAre
<1>10. SlotsOn(d)' = SlotsOn(d) \cup {s} /\ \A c \in Conns \ {d} : SlotsOn(c)' = SlotsOn(c)
  BY <1>9
<1> QED
  BY <1>2, <1>3, <1>4, <1>5, <1>10 DEF Arrives

(* The response of slot s reaches the client.                              *)
LEMMA DeliverRespOn ==
  ASSUME RequestInv, TypeOK', NEW d \in Conns, DeliverResp(d), [Next]_vars
  PROVE  \E s \in Slots :
           /\ s = Head(writeQ[d]).slot /\ s \in SlotsOn(d)
           /\ s \in SlotsOf(writeQ[d])
           /\ \A c \in Conns : SlotsOn(c)' = SlotsOn(c) \ {s}
<1>1. writeQ[d] \in Seq(Write) /\ writeQ[d] # <<>>
  BY DEF RequestInv, Typed, TypeOK, DeliverResp
<1>2. PICK w \in Write, s \in Slots : w = Head(writeQ[d]) /\ s = w.slot
  <2>1. Head(writeQ[d]) \in Write
    BY <1>1, HeadTailProperties
  <2>2. Head(writeQ[d]).slot \in Slots
    BY <2>1 DEF Write
  <2> QED
    BY <2>1, <2>2
<1>3. w \in Entries(writeQ[d])
  BY <1>1, <1>2, EntriesMove
<1>4. s \in SlotsOn(d) /\ s \in SlotsOf(writeQ[d])
  <2>1. s \in SlotsOf(writeQ[d])
    BY <1>2, <1>3 DEF Entries, SlotsOf
  <2> QED
    BY <1>2, <1>3, <2>1, SlotsOnAre
<1>5. s \notin LiveSlots'
  BY <1>2, DeliverRespLive DEF RequestInv
<1>6. \A c \in Conns : ~ DeliverReq(c)
  <2>1. UNCHANGED sendQ
    BY DEF DeliverResp
  <2>2. ASSUME NEW c \in Conns, DeliverReq(c) PROVE FALSE
    <3>1. sendQ[c] \in Seq(Mrs) /\ sendQ[c] # <<>> /\ sendQ'[c] = Tail(sendQ[c])
      BY <2>2 DEF DeliverReq, RequestInv, Typed, TypeOK
    <3>2. Tail(sendQ[c]) # sendQ[c]
      BY <3>1, TailDiffers
    <3> QED
      BY <2>1, <3>1, <3>2
  <2> QED
    BY <2>2
<1>7. ASSUME NEW c \in Conns, NEW r PROVE r \in SlotsOn(c)' <=> r \in SlotsOn(c) \ {s}
  <2>1. ASSUME r \in SlotsOn(c)' PROVE r \in SlotsOn(c) /\ r # s
    <3>1. r \in SlotsOn(c)
      BY <1>6, <2>1, SlotsOnOnly
    <3>2. r \in LiveSlots'
      BY <2>1, SlotsOnLiveNext
    <3> QED
      BY <1>5, <3>1, <3>2
  <2>2. r \in SlotsOn(c) /\ r # s => r \in SlotsOn(c)'
    <3>1. ASSUME r \in SlotsOn(c), DeliverResp(c), r = Head(writeQ[c]).slot PROVE r = s
      <4>1. writeQ[c] # <<>> /\ writeQ'[c] = Tail(writeQ[c]) /\ writeQ[c] \in Seq(Write)
        BY <3>1 DEF DeliverResp, RequestInv, Typed, TypeOK
      <4>2. c # d => writeQ'[c] = writeQ[c]
        BY DEF DeliverResp, RequestInv, Typed, TypeOK
      <4>3. Tail(writeQ[c]) # writeQ[c]
        BY <4>1, TailDiffers
      <4>4. c = d
        BY <4>1, <4>2, <4>3
      <4> QED
        BY <1>2, <3>1, <4>4
    <3> QED
      BY <3>1, SlotsOnStay
  <2> QED
    BY <2>1, <2>2
<1>8. \A c \in Conns : SlotsOn(c)' = SlotsOn(c) \ {s}
  BY <1>7
<1> QED
  BY <1>2, <1>4, <1>8

LEMMA SlotsOnSame ==
  ASSUME RequestInv, [Next]_vars, TypeOK',
         \A d \in Conns : ~ DeliverReq(d) /\ ~ DeliverResp(d)
  PROVE  /\ UNCHANGED srvBuf
         /\ \A c \in Conns : SlotsOn(c)' = SlotsOn(c)
<1>1. \A c \in Conns : \A s : s \in SlotsOn(c)' <=> s \in SlotsOn(c)
  BY SlotsOnStay, SlotsOnOnly
<1> QED
  BY <1>1, LiveShrinks

-----------------------------------------------------------------------------
(* Queues that grow at their end and shrink at their front.                *)

Added(q, r, e) ==
  /\ Len(q) \in Nat /\ DOMAIN q = 1..Len(q)
  /\ Len(r) = Len(q) + 1 /\ DOMAIN r = 1..Len(r)
  /\ r[Len(r)] = e /\ \A i \in 1..Len(q) : r[i] = q[i]

Dropped(q, r, n) ==
  /\ Len(q) \in Nat /\ DOMAIN q = 1..Len(q) /\ n \in 0..Len(q)
  /\ Len(r) = Len(q) - n /\ DOMAIN r = 1..Len(r)
  /\ \A i \in 1..Len(r) : r[i] = q[i + n]

LEMMA AppendAdds ==
  ASSUME NEW S, NEW q \in Seq(S), NEW e \in S
  PROVE  Added(q, Append(q, e), e)
BY AppendProperties, LenProperties DEF Added

LEMMA SameDrops ==
  ASSUME NEW S, NEW q \in Seq(S)
  PROVE  Dropped(q, q, 0)
BY LenProperties DEF Dropped

LEMMA TailDrops ==
  ASSUME NEW S, NEW q \in Seq(S), q # <<>>
  PROVE  Dropped(q, Tail(q), 1)
<1>1. /\ Len(q) \in Nat \ {0} /\ DOMAIN q = 1..Len(q)
      /\ Tail(q) \in Seq(S) /\ Len(Tail(q)) = Len(q) - 1
      /\ \A i \in 1..Len(Tail(q)) : Tail(q)[i] = q[i + 1]
  BY HeadTailProperties, EmptySeq, LenProperties
<1>2. DOMAIN Tail(q) = 1..Len(Tail(q))
  BY <1>1, LenProperties
<1> QED
  BY <1>1, <1>2 DEF Dropped

LEMMA PollDrops ==
  ASSUME NEW S, NEW q \in Seq(S)
  PROVE  \E n \in Nat : Dropped(q, LeftInCq(q), n)
<1> DEFINE n == PollCount(q)
           b == LeftInCq(q)
<1>1. /\ b \in Seq(S) /\ n \in 0..Len(q) /\ Len(b) = Len(q) - n
      /\ \A i \in 1..(Len(q) - n) : b[i] = q[i + n]
  BY PollTypes
<1>2. Len(q) \in Nat /\ DOMAIN q = 1..Len(q) /\ DOMAIN b = 1..Len(b)
  BY <1>1, LenProperties
<1> HIDE DEF n, b
<1>3. Dropped(q, b, n) /\ n \in Nat
  BY <1>1, <1>2 DEF Dropped
<1> QED
  BY <1>3 DEF b

(* The same behind a queue that comes first.                               *)
LEMMA BehindAdds ==
  ASSUME NEW S, NEW p \in Seq(S), NEW q \in Seq(S), NEW e \in S
  PROVE  Added(p \o q, p \o Append(q, e), e)
<1> DEFINE r == Append(q, e)
           a == p \o q
           b == p \o r
<1>1. /\ r \in Seq(S) /\ Len(r) = Len(q) + 1 /\ r[Len(q) + 1] = e
      /\ \A i \in 1..Len(q) : r[i] = q[i]
  BY AppendProperties
<1> HIDE DEF r
<1>2. /\ a \in Seq(S) /\ Len(a) = Len(p) + Len(q)
      /\ \A i \in 1..(Len(p) + Len(q)) : a[i] = IF i <= Len(p) THEN p[i] ELSE q[i - Len(p)]
  BY ConcatProperties
<1>3. /\ b \in Seq(S) /\ Len(b) = Len(p) + Len(r)
      /\ \A i \in 1..(Len(p) + Len(r)) : b[i] = IF i <= Len(p) THEN p[i] ELSE r[i - Len(p)]
  BY <1>1, ConcatProperties
<1>4. Len(p) \in Nat /\ Len(q) \in Nat /\ DOMAIN a = 1..Len(a) /\ DOMAIN b = 1..Len(b)
  BY <1>2, <1>3, LenProperties
<1> HIDE DEF a, b
<1>5. b[Len(b)] = e
  BY <1>1, <1>3, <1>4
<1>6. ASSUME NEW i \in 1..Len(a) PROVE b[i] = a[i]
  <2>1. i \in 1..(Len(p) + Len(q)) /\ i \in 1..(Len(p) + Len(r))
    BY <1>1, <1>2, <1>4
  <2>2. CASE i <= Len(p)
    BY <1>2, <1>3, <2>1, <2>2
  <2>3. CASE ~ (i <= Len(p))
    <3>1. i - Len(p) \in 1..Len(q)
      BY <1>4, <2>1, <2>3
    <3>2. a[i] = q[i - Len(p)] /\ b[i] = r[i - Len(p)]
      BY <1>2, <1>3, <2>1, <2>3
    <3> QED
      BY <1>1, <3>1, <3>2
  <2> QED
    BY <2>2, <2>3
<1>7. Added(a, b, e)
  BY <1>1, <1>2, <1>3, <1>4, <1>5, <1>6 DEF Added
<1> QED
  BY <1>7 DEF a, b, r

LEMMA FrontDrops ==
  ASSUME NEW S, NEW p \in Seq(S), p # <<>>, NEW q \in Seq(S)
  PROVE  Dropped(p \o q, Tail(p) \o q, 1)
<1> DEFINE r == Tail(p)
           a == p \o q
           b == r \o q
<1>1. /\ r \in Seq(S) /\ Len(r) = Len(p) - 1 /\ Len(p) \in Nat \ {0}
      /\ \A i \in 1..Len(r) : r[i] = p[i + 1]
  BY HeadTailProperties, EmptySeq
<1> HIDE DEF r
<1>2. /\ a \in Seq(S) /\ Len(a) = Len(p) + Len(q)
      /\ \A i \in 1..(Len(p) + Len(q)) : a[i] = IF i <= Len(p) THEN p[i] ELSE q[i - Len(p)]
  BY ConcatProperties
<1>3. /\ b \in Seq(S) /\ Len(b) = Len(r) + Len(q)
      /\ \A i \in 1..(Len(r) + Len(q)) : b[i] = IF i <= Len(r) THEN r[i] ELSE q[i - Len(r)]
  BY <1>1, ConcatProperties
<1>4. Len(p) \in Nat /\ Len(q) \in Nat /\ DOMAIN a = 1..Len(a) /\ DOMAIN b = 1..Len(b)
  BY <1>2, <1>3, LenProperties
<1> HIDE DEF a, b
<1>5. ASSUME NEW i \in 1..Len(b) PROVE b[i] = a[i + 1]
  <2>1. i \in 1..(Len(r) + Len(q)) /\ i + 1 \in 1..(Len(p) + Len(q)) /\ Len(p) = Len(r) + 1
    BY <1>1, <1>3, <1>4
  <2>2. CASE i <= Len(r)
    <3>1. b[i] = r[i] /\ i \in 1..Len(r)
      BY <1>3, <2>1, <2>2
    <3>2. a[i + 1] = p[i + 1]
      BY <1>2, <1>4, <2>1, <2>2
    <3> QED
      BY <1>1, <3>1, <3>2
  <2>3. CASE ~ (i <= Len(r))
    <3>1. b[i] = q[i - Len(r)]
      BY <1>3, <2>1, <2>3
    <3>2. a[i + 1] = q[(i + 1) - Len(p)]
      BY <1>2, <1>4, <2>1, <2>3
    <3>3. (i + 1) - Len(p) = i - Len(r)
      BY <1>1, <1>4, <2>1
    <3> QED
      BY <3>1, <3>2, <3>3
  <2> QED
    BY <2>2, <2>3
<1>6. Dropped(a, b, 1)
  BY <1>1, <1>2, <1>3, <1>4, <1>5 DEF Dropped
<1> QED
  BY <1>6 DEF a, b, r

LEMMA PollKeeps ==
  ASSUME NEW S, NEW q \in Seq(S), NEW p, p = <<>>
  PROVE  Dropped(p \o q, Polled(q) \o LeftInCq(q), 0)
<1> DEFINE n == PollCount(q)
           x == Polled(q)
           y == LeftInCq(q)
           b == x \o y
<1>1. /\ x \in Seq(S) /\ y \in Seq(S)
      /\ n \in 0..Len(q) /\ Len(x) = n /\ Len(y) = Len(q) - n
      /\ \A i \in 1..n : x[i] = q[i]
      /\ \A i \in 1..(Len(q) - n) : y[i] = q[i + n]
  BY PollTypes
<1>2. p \o q = q
  BY ConcatEmptySeq
<1> HIDE DEF n, x, y
<1>3. /\ b \in Seq(S) /\ Len(b) = Len(x) + Len(y)
      /\ \A i \in 1..(Len(x) + Len(y)) : b[i] = IF i <= Len(x) THEN x[i] ELSE y[i - Len(x)]
  BY <1>1, ConcatProperties
<1>4. Len(q) \in Nat /\ DOMAIN q = 1..Len(q) /\ DOMAIN b = 1..Len(b)
  BY <1>3, LenProperties
<1> HIDE DEF b
<1>5. ASSUME NEW i \in 1..Len(b) PROVE b[i] = q[i]
  <2>1. i \in 1..(Len(x) + Len(y)) /\ i \in Nat /\ n \in Nat
    BY <1>1, <1>3, <1>4
  <2>2. CASE i <= n
    <3>1. b[i] = x[i] /\ i \in 1..n
      BY <1>1, <1>3, <2>1, <2>2
    <3> QED
      BY <1>1, <3>1
  <2>3. CASE ~ (i <= n)
    <3>1. b[i] = y[i - n] /\ i - n \in 1..(Len(q) - n) /\ (i - n) + n = i
      BY <1>1, <1>3, <1>4, <2>1, <2>3
    <3> QED
      BY <1>1, <3>1
  <2> QED
    BY <2>2, <2>3
<1>6. Dropped(q, b, 0)
  BY <1>1, <1>3, <1>4, <1>5 DEF Dropped
<1> QED
  BY <1>2, <1>6 DEF b, x, y

-----------------------------------------------------------------------------
(* The completions of the server in the order in which they are processed. *)
(* Several threads process what they have polled in any order: what is     *)
(* still queued then counts.                                               *)

OneServer == \E u \in SThreads : SThreads = {u}

Line == IF OneServer THEN swc[CHOOSE u \in SThreads : TRUE] \o scq ELSE scq

LEMMA LineIs ==
  /\ \A u : SThreads = {u} => Line = swc[u] \o scq /\ Line' = swc'[u] \o scq'
  /\ ~ OneServer => Line = scq /\ Line' = scq'
<1>1. ASSUME NEW u, SThreads = {u} PROVE OneServer /\ (CHOOSE v \in SThreads : TRUE) = u
  BY <1>1 DEF OneServer
<1> QED
  BY <1>1 DEF Line

LEMMA LineHas ==
  ASSUME TypeOK
  PROVE  /\ Line \in Seq(ServerCqe) /\ DOMAIN Line = 1..Len(Line) /\ Len(Line) \in Nat
         /\ Entries(Line) \subseteq ServerEntries
         /\ Entries(scq) \subseteq Entries(Line)
         /\ OneServer => Entries(Line) = ServerEntries
<1>1. scq \in Seq(ServerCqe) /\ swc \in [SThreads -> Seq(ServerCqe)]
  BY DEF TypeOK
<1>2. CASE ~ OneServer
  <2>1. Line = scq
    BY <1>2, LineIs
  <2> QED
    BY <1>1, <1>2, <2>1, LenProperties, ServerEntriesAre
<1>3. ASSUME NEW u \in SThreads, SThreads = {u}
      PROVE  /\ Line \in Seq(ServerCqe) /\ DOMAIN Line = 1..Len(Line) /\ Len(Line) \in Nat
             /\ Entries(Line) = ServerEntries
             /\ Entries(scq) \subseteq Entries(Line)
  <2> DEFINE p == swc[u]
             q == scq
             a == p \o q
  <2>1. Line = a
    BY <1>3, LineIs
  <2>2. p \in Seq(ServerCqe) /\ q \in Seq(ServerCqe)
    BY <1>1
  <2>3. \A e : e \in ServerEntries <=> e \in Entries(p) \/ e \in Entries(q)
    BY <1>3, ServerEntriesAre
  <2> HIDE DEF p, q
  <2>4. /\ a \in Seq(ServerCqe) /\ Len(a) = Len(p) + Len(q)
        /\ \A i \in 1..(Len(p) + Len(q)) : a[i] = IF i <= Len(p) THEN p[i] ELSE q[i - Len(p)]
    BY <2>2, ConcatProperties
  <2>5. /\ Len(p) \in Nat /\ Len(q) \in Nat /\ DOMAIN a = 1..Len(a)
        /\ DOMAIN p = 1..Len(p) /\ DOMAIN q = 1..Len(q)
    BY <2>2, <2>4, LenProperties
  <2> HIDE DEF a
  <2>6. ASSUME NEW i \in DOMAIN a
        PROVE  \/ i \in DOMAIN p /\ a[i] = p[i]
               \/ i - Len(p) \in DOMAIN q /\ a[i] = q[i - Len(p)]
    BY <2>4, <2>5
  <2>7. ASSUME NEW i \in DOMAIN p PROVE i \in DOMAIN a /\ a[i] = p[i]
    BY <2>4, <2>5
  <2>8. ASSUME NEW i \in DOMAIN q PROVE i + Len(p) \in DOMAIN a /\ a[i + Len(p)] = q[i]
    BY <2>4, <2>5
  <2>9. Entries(a) \subseteq Entries(p) \cup Entries(q)
    BY <2>6 DEF Entries
  <2>10. Entries(p) \subseteq Entries(a) /\ Entries(q) \subseteq Entries(a)
    BY <2>7, <2>8 DEF Entries
  <2>11. Entries(a) = ServerEntries
    BY <2>3, <2>9, <2>10
  <2>12. Len(a) \in Nat
    BY <2>4, <2>5
  <2> QED
    BY <2>1, <2>4, <2>5, <2>10, <2>11, <2>12 DEF q
<1> QED
  BY <1>2, <1>3 DEF OneServer

LEMMA LineAdds ==
  ASSUME TypeOK, NEW e \in ServerCqe, scq' = Append(scq, e), UNCHANGED swc
  PROVE  Added(Line, Line', e)
<1>1. scq \in Seq(ServerCqe) /\ swc \in [SThreads -> Seq(ServerCqe)]
  BY DEF TypeOK
<1>2. CASE ~ OneServer
  <2>1. Line = scq /\ Line' = Append(scq, e)
    BY <1>2, LineIs
  <2> QED
    BY <1>1, <2>1, AppendAdds
<1>3. ASSUME NEW u \in SThreads, SThreads = {u} PROVE Added(Line, Line', e)
  <2>1. Line = swc[u] \o scq /\ Line' = swc[u] \o Append(scq, e)
    BY <1>3, LineIs
  <2> QED
    BY <1>1, <2>1, BehindAdds
<1> QED
  BY <1>2, <1>3 DEF OneServer

LEMMA LineDrops ==
  ASSUME TypeOK, [Next]_vars, \A d \in Conns : ~ DeliverReq(d) /\ ~ AckWrite(d)
  PROVE  \E n \in Nat : Dropped(Line, Line', n)
<1>1. scq \in Seq(ServerCqe) /\ swc \in [SThreads -> Seq(ServerCqe)]
  BY DEF TypeOK
<1>2. ASSUME UNCHANGED <<scq, swc>> PROVE \E n \in Nat : Dropped(Line, Line', n)
  <2>1. Line' = Line
    BY <1>2 DEF Line
  <2>2. Dropped(Line, Line, 0)
    BY LineHas, SameDrops
  <2> QED
    BY <2>1, <2>2
<1>3. ASSUME NEW t \in SThreads, ServerPoll(t) PROVE \E n \in Nat : Dropped(Line, Line', n)
  <2>1. /\ swc' = [swc EXCEPT ![t] = Polled(scq)] /\ scq' = LeftInCq(scq) /\ swc[t] = <<>>
    BY <1>3 DEF ServerPoll
  <2>2. CASE ~ OneServer
    <3>1. Line = scq /\ Line' = LeftInCq(scq)
      BY <2>1, <2>2, LineIs
    <3> QED
      BY <1>1, <3>1, PollDrops
  <2>3. ASSUME NEW u \in SThreads, SThreads = {u} PROVE \E n \in Nat : Dropped(Line, Line', n)
    <3>1. u = t /\ swc'[u] = Polled(scq)
      BY <1>1, <2>1, <2>3
    <3>2. Line = swc[u] \o scq /\ Line' = Polled(scq) \o LeftInCq(scq) /\ swc[u] = <<>>
      BY <2>1, <2>3, <3>1, LineIs
    <3>3. Dropped(Line, Line', 0)
      BY <1>1, <3>2, PollKeeps
    <3> QED
      BY <3>3
  <2> QED
    BY <2>2, <2>3 DEF OneServer
<1>4. ASSUME NEW t \in SThreads, OnRecvReq(t) \/ OnWriteRespDone(t)
      PROVE  \E n \in Nat : Dropped(Line, Line', n)
  <2>1. swc' = [swc EXCEPT ![t] = Tail(@)] /\ scq' = scq /\ swc[t] # <<>>
    BY <1>4 DEF OnRecvReq, OnWriteRespDone, AtServerCqe
  <2>2. CASE ~ OneServer
    <3>1. Line = scq /\ Line' = scq
      BY <2>1, <2>2, LineIs
    <3> QED
      BY <1>1, <3>1, SameDrops
  <2>3. ASSUME NEW u \in SThreads, SThreads = {u} PROVE \E n \in Nat : Dropped(Line, Line', n)
    <3>1. u = t /\ swc'[u] = Tail(swc[u]) /\ swc[u] # <<>>
      BY <1>1, <2>1, <2>3
    <3>2. Line = swc[u] \o scq /\ Line' = Tail(swc[u]) \o scq
      BY <2>1, <2>3, <3>1, LineIs
    <3>3. Dropped(Line, Line', 1)
      BY <1>1, <3>1, <3>2, FrontDrops
    <3> QED
      BY <3>3
  <2> QED
    BY <2>2, <2>3 DEF OneServer
<1>5. ASSUME NEW t \in CThreads, ClientStep(t) PROVE UNCHANGED <<scq, swc>>
  BY <1>5 DEF ClientStep, SendReq, PostRecv, PostSend, SendFail, ClientPoll, OnSendReq,
     OnRecvResp, MempoolPut, serverVars
<1>6. ASSUME NEW d \in Conns, RnrNak(d) \/ AckReq(d) \/ DeliverResp(d)
      PROVE  UNCHANGED <<scq, swc>>
  BY <1>6 DEF RnrNak, AckReq, DeliverResp, serverVars
<1>7. ASSUME NEW s \in Slots, MakeResp(s) PROVE UNCHANGED <<scq, swc>>
  BY <1>7 DEF MakeResp
<1>8. CASE UNCHANGED vars
  BY <1>2, <1>8 DEF vars, serverVars
<1> QED
  BY <1>2, <1>3, <1>4, <1>5, <1>6, <1>7, <1>8 DEF Next, WireStep, ServerStep

-----------------------------------------------------------------------------
(* Responses that are written: which of their slots have not come back.    *)

(* The completion of a response, of a request, at a place of a queue.      *)
WriteIn(q, i, c, r) == i \in DOMAIN q /\ q[i].op = "write" /\ q[i].conn = c /\ q[i].slot = r
RecvIn(q, j, s) == j \in DOMAIN q /\ q[j].op = "recv" /\ q[j].slot = s

(* The response in slot r has reached the client of c, its completion has  *)
(* not been processed.                                                     *)
WrittenOn(c, r) ==
  r \in SlotsOf(writeAck[c]) \/ \E i \in DOMAIN Line : WriteIn(Line, i, c, r)

(* No two of a connection are for the same pair.                           *)
WritesApart(c) ==
  \A r, s \in Slots :
    WrittenOn(c, r) /\ WrittenOn(c, s) /\ srvBuf[r].mr = srvBuf[s].mr => r = s

(* A pair that is used again is not at the server before the response to   *)
(* its last request is acknowledged ...                                    *)
AcksApart(c) ==
  \A r \in SlotsOf(writeAck[c]), s \in SlotsOn(c) : srvBuf[r].mr # srvBuf[s].mr

(* ... and not at the handler before that completion is processed.         *)
WriteFirst(c) ==
  \A i \in DOMAIN Line, r \in Slots, s \in SlotsOn(c) :
    WriteIn(Line, i, c, r) /\ srvBuf[r].mr = srvBuf[s].mr
      => \E j \in DOMAIN Line : j > i /\ RecvIn(Line, j, s)

WritesOrdered == \A c \in Conns : WritesApart(c) /\ AcksApart(c) /\ WriteFirst(c)

WriteInv == RequestInv /\ WritesOrdered

LEMMA LineElsewhere ==
  ASSUME TypeOK, SlotConserved, NEW i \in DOMAIN Line, NEW s, s = Line[i].slot
  PROVE  /\ Line[i] \in ServerCqe
         /\ s \in Slots /\ s \notin srq /\ s \notin handling
         /\ \A c \in Conns : s \notin SlotsOf(writeQ[c]) /\ s \notin SlotsOf(writeAck[c])
<1>1. Line[i] \in ServerEntries
  BY LineHas DEF Entries
<1>2. Line[i] \in ServerCqe
  BY <1>1, EntriesTyped
<1>3. s \in Slots
  BY <1>2 DEF ServerCqe
<1>4. \E p \in Places : /\ s \in SlotsAt(p)
                        /\ p # Srq /\ p # Handling
                        /\ \A c \in Conns : p # WriteQ(c) /\ p # WriteAck(c)
  <2>1. CASE Line[i] \in Entries(scq)
    <3>1. Scq \in Places /\ Scq # Srq /\ Scq # Handling
          /\ \A c \in Conns : Scq # WriteQ(c) /\ Scq # WriteAck(c)
      BY DEF Places, Scq, Srq, Handling, WriteQ, WriteAck
    <3>2. s \in SlotsAt(Scq)
      BY <2>1, SlotsAtPlaces DEF Entries, SlotsOf
    <3> QED
      BY <3>1, <3>2
  <2>2. ASSUME NEW t \in SThreads, Line[i] \in Entries(swc[t])
        PROVE  \E p \in Places : /\ s \in SlotsAt(p)
                                 /\ p # Srq /\ p # Handling
                                 /\ \A c \in Conns : p # WriteQ(c) /\ p # WriteAck(c)
    <3>1. Swc(t) \in Places /\ Swc(t) # Srq /\ Swc(t) # Handling
          /\ \A c \in Conns : Swc(t) # WriteQ(c) /\ Swc(t) # WriteAck(c)
      BY DEF Places, Swc, Srq, Handling, WriteQ, WriteAck
    <3>2. s \in SlotsAt(Swc(t))
      BY <2>2, SlotsAtPlaces DEF Entries, SlotsOf
    <3> QED
      BY <3>1, <3>2
  <2> QED
    BY <1>1, <2>1, <2>2, ServerEntriesAre
<1>5. /\ Srq \in Places /\ Handling \in Places
      /\ \A c \in Conns : WriteQ(c) \in Places /\ WriteAck(c) \in Places
  BY DEF Places, Srq, Handling, WriteQ, WriteAck
<1> QED
  BY <1>2, <1>3, <1>4, <1>5, Elsewhere, SlotsAtPlaces DEF SlotConserved

LEMMA AckedElsewhere ==
  ASSUME TypeOK, SlotConserved, NEW c \in Conns, NEW s \in SlotsOf(writeAck[c])
  PROVE  /\ s \in Slots /\ s \notin srq /\ s \notin handling
         /\ \A d \in Conns : s \notin SlotsOf(writeQ[d])
<1>1. PICK i \in DOMAIN writeAck[c] : s = writeAck[c][i].slot
  BY DEF SlotsOf
<1>2. writeAck[c] \in Seq(Write)
  BY DEF TypeOK
<1>3. writeAck[c][i] \in Write
  BY <1>1, <1>2, ElementOfSeq, LenProperties
<1>4. s \in Slots
  BY <1>1, <1>3 DEF Write
<1>5. /\ WriteAck(c) \in Places /\ Srq \in Places /\ Handling \in Places
      /\ \A d \in Conns : WriteQ(d) \in Places /\ WriteQ(d) # WriteAck(c)
      /\ WriteAck(c) # Srq /\ WriteAck(c) # Handling
  BY DEF Places, Srq, Handling, WriteQ, WriteAck
<1> QED
  BY <1>4, <1>5, Elsewhere, SlotsAtPlaces DEF SlotConserved

LEMMA WrittenElsewhere ==
  ASSUME TypeOK, SlotConserved, NEW c \in Conns, NEW r, WrittenOn(c, r)
  PROVE  /\ r \in Slots /\ r \notin srq /\ r \notin handling
         /\ \A d \in Conns : r \notin SlotsOf(writeQ[d])
BY LineElsewhere, AckedElsewhere DEF WrittenOn, WriteIn

(* A pair has one request at the server.                                   *)
LEMMA LivePairs ==
  ASSUME RequestInv, NEW r \in LiveSlots, NEW s \in LiveSlots, srvBuf[r].mr = srvBuf[s].mr
  PROVE  r = s
<1>1. r \in Slots /\ s \in Slots
  BY LiveAreSlots DEF RequestInv, Typed
<1>2. /\ srvBuf[r].mr \in Mrs
      /\ srvBuf[r].mr \in MrsAt(Slot_(r)) /\ srvBuf[r].mr \in MrsAt(Slot_(s))
  BY <1>1, MrsAtSites DEF RequestInv, Typed, TypeOK, SlotFilled, Message
<1> QED
  BY <1>1, <1>2, SitesAre, SitesDiffer, SiteElsewhere DEF RequestInv, RequestsSited

LEMMA WriteInit == Init => WriteInv
<1> SUFFICES ASSUME Init PROVE WritesOrdered
  BY RequestInvInit DEF WriteInv
<1>1. /\ scq = <<>> /\ (\A t \in SThreads : swc[t] = <<>>)
      /\ \A c \in Conns : writeAck[c] = <<>>
  BY DEF Init
<1>2. TypeOK
  BY TypedInit DEF Typed
<1>3. \A i : i \notin DOMAIN Line
  <2>1. ASSUME NEW i \in DOMAIN Line PROVE FALSE
    <3>1. Line[i] \in ServerEntries
      BY <1>2, LineHas DEF Entries
    <3> QED
      BY <1>1, <3>1, ServerEntriesAre, EntriesEmpty
  <2> QED
    BY <2>1
<1>4. \A c \in Conns : \A r : ~ WrittenOn(c, r)
  BY <1>1, <1>3, RecvSlotsEmpty DEF WrittenOn
<1> QED
  BY <1>1, <1>3, <1>4, RecvSlotsEmpty DEF WritesOrdered, WritesApart, AcksApart, WriteFirst

LEMMA WriteStepArrives ==
  ASSUME WriteInv, TypeOK', AckInOrder, NEW d \in Conns, DeliverReq(d)
  PROVE  WritesOrdered'
<1>1. PICK m \in Mrs, s \in Slots, e \in ServerCqe : Arrives(d, m, s, e)
  BY DeliverReqOn DEF WriteInv
<1>2. /\ TypeOK /\ SlotConserved /\ UNCHANGED <<writeAck, swc>> /\ writeAck[d] = <<>>
  BY DEF WriteInv, RequestInv, Typed, DeliverReq, serverVars
<1>3. Added(Line, Line', e)
  BY <1>1, <1>2, LineAdds DEF Arrives
<1>4. \A c \in Conns : \A i, r : WriteIn(Line', i, c, r) => WriteIn(Line, i, c, r)
  <2>1. \A i \in DOMAIN Line' : Line'[i] = e \/ (i \in DOMAIN Line /\ Line'[i] = Line[i])
    BY <1>3 DEF Added
  <2> QED
    BY <1>1, <2>1 DEF WriteIn, Arrives
<1>5. \A c \in Conns : \A r : WrittenOn(c, r)' => WrittenOn(c, r)
  <2>1. ASSUME NEW c \in Conns, NEW r, WrittenOn(c, r)' PROVE WrittenOn(c, r)
    <3>1. \/ r \in SlotsOf(writeAck[c])
          \/ \E i \in DOMAIN Line' : WriteIn(Line', i, c, r)
      BY <1>2, <2>1 DEF WrittenOn
    <3> QED
      BY <1>4, <3>1 DEF WrittenOn, WriteIn
  <2> QED
    BY <2>1
<1>6. \A c \in Conns : \A r \in Slots : WrittenOn(c, r) => srvBuf'[r] = srvBuf[r]
  BY <1>1, <1>2, WrittenElsewhere DEF Arrives
<1>7. \A c \in Conns : \A r \in SlotsOn(c)' :
        \/ r \in SlotsOn(c) /\ srvBuf'[r] = srvBuf[r]
        \/ c = d /\ r = s
  <2>1. \A c \in Conns : \A r \in SlotsOn(c) : r \in Slots /\ r # s
    BY <1>1, <1>2, SlotsOnLive, LiveAreSlots DEF Arrives
  <2> QED
    BY <1>1, <2>1 DEF Arrives
<1>8. ASSUME NEW c \in Conns PROVE WritesApart(c)'
  <2>1. \A r, q \in Slots : WrittenOn(c, r) /\ WrittenOn(c, q) /\ srvBuf[r].mr = srvBuf[q].mr
          => r = q
    BY DEF WriteInv, WritesOrdered, WritesApart
  <2> QED
    BY <1>5, <1>6, <2>1 DEF WritesApart
<1>9. ASSUME NEW c \in Conns PROVE AcksApart(c)'
  <2> SUFFICES ASSUME NEW r \in SlotsOf(writeAck[c]), NEW q \in SlotsOn(c)'
               PROVE  srvBuf'[r].mr # srvBuf'[q].mr
    BY <1>2 DEF AcksApart
  <2>1. r \in Slots /\ srvBuf'[r] = srvBuf[r]
    BY <1>2, <1>6, AckedElsewhere DEF WrittenOn
  <2>2. q \in SlotsOn(c) => srvBuf[r].mr # srvBuf[q].mr
    BY DEF WriteInv, WritesOrdered, AcksApart
  <2>3. c # d
    BY <1>2, RecvSlotsEmpty
  <2> QED
    BY <1>7, <2>1, <2>2, <2>3
<1>10. ASSUME NEW c \in Conns PROVE WriteFirst(c)'
  <2> SUFFICES ASSUME NEW i \in DOMAIN Line', NEW r \in Slots, NEW q \in SlotsOn(c)',
                      WriteIn(Line', i, c, r), srvBuf'[r].mr = srvBuf'[q].mr
               PROVE  \E j \in DOMAIN Line' : j > i /\ RecvIn(Line', j, q)
    BY DEF WriteFirst
  <2>1. WriteIn(Line, i, c, r) /\ i \in DOMAIN Line
    BY <1>4 DEF WriteIn
  <2>2. srvBuf'[r] = srvBuf[r]
    BY <1>6, <2>1 DEF WrittenOn
  <2>3. CASE q \in SlotsOn(c) /\ srvBuf'[q] = srvBuf[q]
    <3>1. PICK j \in DOMAIN Line : j > i /\ RecvIn(Line, j, q)
      BY <2>1, <2>2, <2>3 DEF WriteInv, WritesOrdered, WriteFirst
    <3>2. j \in DOMAIN Line' /\ Line'[j] = Line[j]
      BY <1>3 DEF Added
    <3> QED
      BY <3>1, <3>2 DEF RecvIn
  <2>4. CASE q = s
    <3>1. PICK j \in DOMAIN Line' : j > i /\ Line'[j] = e
      BY <1>3, <2>1 DEF Added
    <3> QED
      BY <1>1, <2>4, <3>1 DEF RecvIn, Arrives
  <2> QED
    BY <1>7, <2>3, <2>4
<1> QED
  BY <1>8, <1>9, <1>10 DEF WritesOrdered

LEMMA WriteStepAnswered ==
  ASSUME WriteInv, TypeOK', [Next]_vars, NEW d \in Conns, DeliverResp(d)
  PROVE  WritesOrdered'
<1>1. PICK s \in Slots : /\ s = Head(writeQ[d]).slot /\ s \in SlotsOn(d)
                         /\ s \in SlotsOf(writeQ[d])
                         /\ \A c \in Conns : SlotsOn(c)' = SlotsOn(c) \ {s}
  BY DeliverRespOn DEF WriteInv
<1>2. /\ TypeOK /\ SlotConserved /\ UNCHANGED <<srvBuf, scq, swc>>
      /\ writeQ[d] # <<>> /\ writeQ[d] \in Seq(Write) /\ writeAck[d] \in Seq(Write)
      /\ writeAck'[d] = Append(writeAck[d], Head(writeQ[d]))
      /\ \A c \in Conns \ {d} : writeAck'[c] = writeAck[c]
  BY DEF WriteInv, RequestInv, Typed, TypeOK, DeliverResp, serverVars
<1>3. Line' = Line
  BY <1>2 DEF Line
<1>4. SlotsOf(writeAck'[d]) = SlotsOf(writeAck[d]) \cup {s}
  BY <1>1, <1>2, HeadTailProperties, AppendSlots
<1>5. \A c \in Conns : \A r : WrittenOn(c, r)' => WrittenOn(c, r) \/ (c = d /\ r = s)
  <2>1. ASSUME NEW c \in Conns, NEW r, WrittenOn(c, r)', ~ (c = d /\ r = s)
        PROVE  WrittenOn(c, r)
    <3>1. \/ r \in SlotsOf(writeAck'[c])
          \/ \E i \in DOMAIN Line : WriteIn(Line, i, c, r)
      BY <1>3, <2>1 DEF WrittenOn
    <3>2. r \in SlotsOf(writeAck'[c]) => r \in SlotsOf(writeAck[c])
      BY <1>2, <1>4, <2>1
    <3> QED
      BY <3>1, <3>2 DEF WrittenOn
  <2> QED
    BY <2>1
<1>6. \A r \in Slots : WrittenOn(d, r) => srvBuf[r].mr # srvBuf[s].mr
  <2>1. ASSUME NEW r \in SlotsOf(writeAck[d]) PROVE srvBuf[r].mr # srvBuf[s].mr
    BY <1>1 DEF WriteInv, WritesOrdered, AcksApart
  <2>2. ASSUME NEW r \in Slots, NEW i \in DOMAIN Line, WriteIn(Line, i, d, r),
               srvBuf[r].mr = srvBuf[s].mr
        PROVE  FALSE
    <3>1. PICK j \in DOMAIN Line : RecvIn(Line, j, s)
      BY <1>1, <2>2 DEF WriteInv, WritesOrdered, WriteFirst
    <3> QED
      BY <1>1, <1>2, <3>1, LineElsewhere DEF RecvIn
  <2> QED
    BY <2>1, <2>2 DEF WrittenOn
<1>7. ASSUME NEW c \in Conns PROVE WritesApart(c)'
  <2>1. \A r, q \in Slots : WrittenOn(c, r) /\ WrittenOn(c, q) /\ srvBuf[r].mr = srvBuf[q].mr
          => r = q
    BY DEF WriteInv, WritesOrdered, WritesApart
  <2> SUFFICES ASSUME NEW r \in Slots, NEW q \in Slots, WrittenOn(c, r)', WrittenOn(c, q)',
                      srvBuf[r].mr = srvBuf[q].mr
               PROVE  r = q
    BY <1>2 DEF WritesApart
  <2> QED
    BY <1>5, <1>6, <2>1
<1>8. ASSUME NEW c \in Conns PROVE AcksApart(c)'
  <2> SUFFICES ASSUME NEW r \in SlotsOf(writeAck'[c]), NEW q \in SlotsOn(c)'
               PROVE  srvBuf[r].mr # srvBuf[q].mr
    BY <1>2 DEF AcksApart
  <2>1. q \in SlotsOn(c) /\ q # s
    BY <1>1
  <2>2. CASE r \in SlotsOf(writeAck[c])
    BY <2>1, <2>2 DEF WriteInv, WritesOrdered, AcksApart
  <2>3. CASE r \notin SlotsOf(writeAck[c])
    <3>1. r = s
      BY <1>2, <1>4, <2>3
    <3>2. s \in LiveSlots /\ q \in LiveSlots
      BY <1>1, <2>1, SlotsOnLive
    <3> QED
      BY <2>1, <3>1, <3>2, LivePairs DEF WriteInv
  <2> QED
    BY <2>2, <2>3
<1>9. ASSUME NEW c \in Conns PROVE WriteFirst(c)'
  <2>1. \A q \in SlotsOn(c)' : q \in SlotsOn(c)
    BY <1>1
  <2>2. \A i \in DOMAIN Line, r \in Slots, q \in SlotsOn(c) :
          WriteIn(Line, i, c, r) /\ srvBuf[r].mr = srvBuf[q].mr
            => \E j \in DOMAIN Line : j > i /\ RecvIn(Line, j, q)
    BY DEF WriteInv, WritesOrdered, WriteFirst
  <2> QED
    BY <1>2, <1>3, <2>1, <2>2 DEF WriteFirst
<1> QED
  BY <1>7, <1>8, <1>9 DEF WritesOrdered

LEMMA WriteStepAcked ==
  ASSUME WriteInv, TypeOK', [Next]_vars, NEW d \in Conns, AckWrite(d)
  PROVE  WritesOrdered'
<1>1. /\ TypeOK /\ SlotConserved /\ UNCHANGED <<srvBuf, swc, sendQ, writeQ>>
      /\ writeAck[d] # <<>> /\ writeAck[d] \in Seq(Write)
      /\ writeAck'[d] = Tail(writeAck[d])
      /\ \A c \in Conns \ {d} : writeAck'[c] = writeAck[c]
  BY DEF WriteInv, RequestInv, Typed, TypeOK, AckWrite, serverVars
<1>2. PICK s \in Slots : s = Head(writeAck[d]).slot
  <2>1. Head(writeAck[d]) \in Write
    BY <1>1, HeadTailProperties
  <2> QED
    BY <2>1 DEF Write
<1>3. PICK e \in ServerCqe : /\ e.op = "write" /\ e.conn = d /\ e.slot = s
                             /\ scq' = Append(scq, e)
  <2>1. [op |-> "write", conn |-> d, slot |-> s, imm |-> None] \in ServerCqe
    BY DEF ServerCqe
  <2>2. scq' = Append(scq, [op |-> "write", conn |-> d, slot |-> s, imm |-> None])
    BY <1>2 DEF AckWrite
  <2> QED
    BY <2>1, <2>2
<1>4. Added(Line, Line', e)
  BY <1>1, <1>3, LineAdds
<1>5. SlotsOf(writeAck[d]) = SlotsOf(writeAck'[d]) \cup {s}
  BY <1>1, <1>2, TailSlots
<1>6. \A c \in Conns : SlotsOn(c)' = SlotsOn(c)
  <2>1. \A c \in Conns : ~ DeliverReq(c) /\ ~ DeliverResp(c)
    <3>1. ASSUME NEW c \in Conns, DeliverReq(c) PROVE FALSE
      <4>1. sendQ[c] \in Seq(Mrs) /\ sendQ[c] # <<>> /\ sendQ'[c] = Tail(sendQ[c])
        BY <3>1 DEF DeliverReq, WriteInv, RequestInv, Typed, TypeOK
      <4> QED
        BY <1>1, <4>1, TailDiffers
    <3>2. ASSUME NEW c \in Conns, DeliverResp(c) PROVE FALSE
      <4>1. writeQ[c] \in Seq(Write) /\ writeQ[c] # <<>> /\ writeQ'[c] = Tail(writeQ[c])
        BY <3>2 DEF DeliverResp, WriteInv, RequestInv, Typed, TypeOK
      <4> QED
        BY <1>1, <4>1, TailDiffers
    <3> QED
      BY <3>1, <3>2
  <2> QED
    BY <2>1, SlotsOnSame DEF WriteInv
<1>7. \A i \in DOMAIN Line' : Line'[i] = e \/ (i \in DOMAIN Line /\ Line'[i] = Line[i])
  BY <1>4 DEF Added
<1>8. \A c \in Conns : \A i, r : WriteIn(Line', i, c, r) =>
        WriteIn(Line, i, c, r) \/ (c = d /\ r = s)
  BY <1>3, <1>7 DEF WriteIn
<1>9. \A c \in Conns : \A r \in SlotsOf(writeAck'[c]) : r \in SlotsOf(writeAck[c])
  BY <1>1, <1>5
<1>10. \A c \in Conns : \A r : WrittenOn(c, r)' => WrittenOn(c, r)
  <2>1. ASSUME NEW c \in Conns, NEW r, WrittenOn(c, r)' PROVE WrittenOn(c, r)
    <3>1. \/ r \in SlotsOf(writeAck'[c])
          \/ \E i \in DOMAIN Line' : WriteIn(Line', i, c, r)
      BY <2>1 DEF WrittenOn
    <3>2. ASSUME NEW i \in DOMAIN Line', WriteIn(Line', i, c, r) PROVE WrittenOn(c, r)
      <4>1. CASE WriteIn(Line, i, c, r)
        BY <4>1 DEF WrittenOn, WriteIn
      <4>2. CASE c = d /\ r = s
        BY <1>5, <4>2 DEF WrittenOn
      <4> QED
        BY <1>8, <3>2, <4>1, <4>2
    <3> QED
      BY <1>9, <3>1, <3>2 DEF WrittenOn
  <2> QED
    BY <2>1
<1>11. ASSUME NEW c \in Conns PROVE WritesApart(c)'
  <2>1. \A r, q \in Slots : WrittenOn(c, r) /\ WrittenOn(c, q) /\ srvBuf[r].mr = srvBuf[q].mr
          => r = q
    BY DEF WriteInv, WritesOrdered, WritesApart
  <2> QED
    BY <1>1, <1>10, <2>1 DEF WritesApart
<1>12. ASSUME NEW c \in Conns PROVE AcksApart(c)'
  <2>1. \A r \in SlotsOf(writeAck[c]), q \in SlotsOn(c) : srvBuf[r].mr # srvBuf[q].mr
    BY DEF WriteInv, WritesOrdered, AcksApart
  <2> QED
    BY <1>1, <1>6, <1>9, <2>1 DEF AcksApart
<1>13. ASSUME NEW c \in Conns PROVE WriteFirst(c)'
  <2> SUFFICES ASSUME NEW i \in DOMAIN Line', NEW r \in Slots, NEW q \in SlotsOn(c),
                      WriteIn(Line', i, c, r), srvBuf[r].mr = srvBuf[q].mr
               PROVE  \E j \in DOMAIN Line' : j > i /\ RecvIn(Line', j, q)
    BY <1>1, <1>6 DEF WriteFirst
  <2>1. ~ (c = d /\ r = s)
    <3>1. \A p \in SlotsOf(writeAck[c]) : srvBuf[p].mr # srvBuf[q].mr
      BY DEF WriteInv, WritesOrdered, AcksApart
    <3> QED
      BY <1>5, <3>1
  <2>2. WriteIn(Line, i, c, r) /\ i \in DOMAIN Line
    BY <1>8, <2>1 DEF WriteIn
  <2>3. PICK j \in DOMAIN Line : j > i /\ RecvIn(Line, j, q)
    BY <2>2 DEF WriteInv, WritesOrdered, WriteFirst
  <2>4. j \in DOMAIN Line' /\ Line'[j] = Line[j]
    BY <1>4 DEF Added
  <2> QED
    BY <2>3, <2>4 DEF RecvIn
<1> QED
  BY <1>11, <1>12, <1>13 DEF WritesOrdered

LEMMA WriteStepOther ==
  ASSUME WriteInv, TypeOK', [Next]_vars,
         \A d \in Conns : ~ DeliverReq(d) /\ ~ DeliverResp(d) /\ ~ AckWrite(d)
  PROVE  WritesOrdered'
<1>1. UNCHANGED srvBuf /\ \A c \in Conns : SlotsOn(c)' = SlotsOn(c)
  BY SlotsOnSame DEF WriteInv
<1>2. PICK n \in Nat : Dropped(Line, Line', n)
  BY LineDrops DEF WriteInv, RequestInv, Typed
<1>3. UNCHANGED writeAck
  BY DEF Next, ClientStep, SendReq, PostRecv, PostSend, SendFail, ClientPoll, OnSendReq,
     OnRecvResp, MempoolPut, WireStep, RnrNak, AckReq, ServerStep, ServerPoll, OnRecvReq,
     OnWriteRespDone, MakeResp, vars, wireVars
<1>4. /\ \A i \in DOMAIN Line' : i \in Nat /\ i + n \in DOMAIN Line /\ Line'[i] = Line[i + n]
      /\ \A i \in DOMAIN Line : i > n => i - n \in DOMAIN Line' /\ (i - n) + n = i
  BY <1>2 DEF Dropped
<1>5. \A c \in Conns : \A i, r : WriteIn(Line', i, c, r) => WriteIn(Line, i + n, c, r)
  BY <1>4 DEF WriteIn
<1>6. \A c \in Conns : \A r : WrittenOn(c, r)' => WrittenOn(c, r)
  <2>1. ASSUME NEW c \in Conns, NEW r, WrittenOn(c, r)' PROVE WrittenOn(c, r)
    <3>1. \/ r \in SlotsOf(writeAck[c])
          \/ \E i \in DOMAIN Line' : WriteIn(Line', i, c, r)
      BY <1>3, <2>1 DEF WrittenOn
    <3> QED
      BY <1>5, <3>1 DEF WrittenOn, WriteIn
  <2> QED
    BY <2>1
<1>7. ASSUME NEW c \in Conns PROVE WritesApart(c)'
  <2>1. \A r, q \in Slots : WrittenOn(c, r) /\ WrittenOn(c, q) /\ srvBuf[r].mr = srvBuf[q].mr
          => r = q
    BY DEF WriteInv, WritesOrdered, WritesApart
  <2> QED
    BY <1>1, <1>6, <2>1 DEF WritesApart
<1>8. ASSUME NEW c \in Conns PROVE AcksApart(c)'
  <2>1. \A r \in SlotsOf(writeAck[c]), q \in SlotsOn(c) : srvBuf[r].mr # srvBuf[q].mr
    BY DEF WriteInv, WritesOrdered, AcksApart
  <2> QED
    BY <1>1, <1>3, <2>1 DEF AcksApart
<1>9. ASSUME NEW c \in Conns PROVE WriteFirst(c)'
  <2> SUFFICES ASSUME NEW i \in DOMAIN Line', NEW r \in Slots, NEW q \in SlotsOn(c),
                      WriteIn(Line', i, c, r), srvBuf[r].mr = srvBuf[q].mr
               PROVE  \E j \in DOMAIN Line' : j > i /\ RecvIn(Line', j, q)
    BY <1>1 DEF WriteFirst
  <2>1. WriteIn(Line, i + n, c, r) /\ i + n \in DOMAIN Line /\ i \in Nat
    BY <1>4, <1>5
  <2>2. PICK j \in DOMAIN Line : j > i + n /\ RecvIn(Line, j, q)
    BY <2>1 DEF WriteInv, WritesOrdered, WriteFirst
  <2>3. j \in Nat
    BY <1>2 DEF Dropped
  <2>4. j > n /\ j - n > i
    BY <2>1, <2>2, <2>3
  <2>5. j - n \in DOMAIN Line' /\ Line'[j - n] = Line[j]
    BY <1>4, <2>4
  <2> QED
    BY <2>2, <2>4, <2>5 DEF RecvIn
<1> QED
  BY <1>7, <1>8, <1>9 DEF WritesOrdered

LEMMA WriteStep == AckInOrder /\ WriteInv /\ [Next]_vars => WriteInv'
<1> SUFFICES ASSUME AckInOrder, WriteInv, [Next]_vars PROVE WriteInv'
  OBVIOUS
<1>1. RequestInv'
  BY RequestInvStep DEF WriteInv
<1>2. TypeOK'
  BY <1>1 DEF RequestInv, Typed
<1>3. WritesOrdered'
  BY <1>2, WriteStepArrives, WriteStepAnswered, WriteStepAcked, WriteStepOther
<1> QED
  BY <1>1, <1>3 DEF WriteInv

-----------------------------------------------------------------------------
(* Completions of one kind behind a place of a queue.                      *)

PlacesAfter(q, op, c, k) == {i \in DOMAIN q : i > k /\ q[i].op = op /\ q[i].conn = c}
CountAfter(q, op, c, k) == Cardinality(PlacesAfter(q, op, c, k))

LEMMA CountTypes ==
  ASSUME NEW S, NEW q \in Seq(S), NEW op, NEW c, NEW k
  PROVE  IsFiniteSet(PlacesAfter(q, op, c, k)) /\ CountAfter(q, op, c, k) \in Nat
<1>1. IsFiniteSet(DOMAIN q)
  BY PlacesCount
<1>2. PlacesAfter(q, op, c, k) \subseteq DOMAIN q
  BY DEF PlacesAfter
<1> QED
  BY <1>1, <1>2, FS_Subset, FS_CardinalityType DEF CountAfter

LEMMA CountIsAfter ==
  ASSUME NEW S, NEW q \in Seq(S), NEW op, NEW c
  PROVE  /\ CqeCount(q, op, c) = CountAfter(q, op, c, 0)
         /\ CountAfter(q, op, c, Len(q)) = 0
<1>1. DOMAIN q = 1..Len(q) /\ Len(q) \in Nat
  BY LenProperties
<1>2. \A i \in DOMAIN q : i > 0 /\ ~ (i > Len(q))
  BY <1>1
<1>3. PlacesAfter(q, op, c, 0) = {i \in DOMAIN q : q[i].op = op /\ q[i].conn = c}
  BY <1>2 DEF PlacesAfter
<1>4. PlacesAfter(q, op, c, Len(q)) = {}
  BY <1>2 DEF PlacesAfter
<1> QED
  BY <1>3, <1>4, FS_EmptySet DEF CqeCount, CountAfter

LEMMA CountAdds ==
  ASSUME NEW S, NEW q \in Seq(S), NEW e \in S, NEW op, NEW c, NEW k \in 0..Len(q)
  PROVE  CountAfter(Append(q, e), op, c, k)
           = CountAfter(q, op, c, k) + (IF e.op = op /\ e.conn = c THEN 1 ELSE 0)
<1> DEFINE r == Append(q, e)
           A == PlacesAfter(q, op, c, k)
           B == PlacesAfter(r, op, c, k)
           n == Len(q) + 1
<1>1. Added(q, r, e)
  BY AppendAdds
<1> HIDE DEF r
<1>2. /\ n \in DOMAIN r /\ r[n] = e /\ n \notin DOMAIN q /\ n > k
      /\ \A i \in DOMAIN q : i \in DOMAIN r /\ r[i] = q[i]
      /\ \A i \in DOMAIN r : i \in DOMAIN q \/ i = n
  BY <1>1 DEF Added
<1> HIDE DEF n
<1>3. n \notin A
  BY <1>2 DEF PlacesAfter
<1>4. e.op = op /\ e.conn = c => B = A \cup {n}
  BY <1>2 DEF PlacesAfter
<1>5. ~ (e.op = op /\ e.conn = c) => B = A
  BY <1>2 DEF PlacesAfter
<1>6. IsFiniteSet(A) /\ Cardinality(A) \in Nat
  BY CountTypes DEF CountAfter
<1> HIDE DEF A, B
<1>7. Cardinality(A \cup {n}) = Cardinality(A) + 1
  BY <1>3, <1>6, FS_AddElement
<1>8. Cardinality(B) = Cardinality(A) + (IF e.op = op /\ e.conn = c THEN 1 ELSE 0)
  <2>1. CASE e.op = op /\ e.conn = c
    <3>1. Cardinality(B) = Cardinality(A) + 1
      BY <1>4, <1>7, <2>1
    <3> QED
      BY <2>1, <3>1
  <2>2. CASE ~ (e.op = op /\ e.conn = c)
    <3>1. B = A
      BY <1>5, <2>2
    <3>2. Cardinality(B) = Cardinality(A) + 0
      BY <1>6, <3>1
    <3> QED
      BY <2>2, <3>2
  <2> QED
    BY <2>1, <2>2
<1> QED
  BY <1>8 DEF A, B, r, CountAfter

LEMMA CountDrops ==
  ASSUME NEW S, NEW q \in Seq(S), NEW r \in Seq(S), NEW n \in Nat, Dropped(q, r, n),
         NEW op, NEW c, NEW k \in 0..Len(r)
  PROVE  k + n \in 0..Len(q) /\ CountAfter(r, op, c, k) = CountAfter(q, op, c, k + n)
<1> DEFINE A == PlacesAfter(q, op, c, k + n)
           B == PlacesAfter(r, op, c, k)
           f == [i \in B |-> i + n]
           g == [i \in A |-> i - n]
<1>1. /\ Len(q) \in Nat /\ DOMAIN q = 1..Len(q) /\ Len(r) \in Nat /\ Len(r) = Len(q) - n
      /\ DOMAIN r = 1..Len(r) /\ \A i \in 1..Len(r) : r[i] = q[i + n]
  BY LenProperties DEF Dropped
<1>2. k + n \in 0..Len(q)
  BY <1>1
<1>3. \A i \in DOMAIN r : i \in Nat /\ i + n \in DOMAIN q /\ r[i] = q[i + n]
  BY <1>1
<1>4. \A i \in DOMAIN q : i \in Nat /\ (i > k + n => i - n \in DOMAIN r /\ (i - n) + n = i)
  BY <1>1
<1>5. \A i \in B : i \in Nat /\ i + n \in A
  <2>1. \A i \in DOMAIN r : i > k => i + n > k + n
    BY <1>1
  <2> QED
    BY <1>3, <2>1 DEF PlacesAfter
<1>6. \A i \in A : i \in Nat /\ i - n \in B
  <2>1. \A i \in DOMAIN q : i > k + n => i - n > k
    BY <1>1
  <2>2. \A i \in DOMAIN q : i > k + n => r[i - n] = q[i]
    BY <1>3, <1>4
  <2> QED
    BY <1>4, <2>1, <2>2 DEF PlacesAfter
<1>7. IsFiniteSet(A) /\ IsFiniteSet(B)
  BY CountTypes
<1> HIDE DEF A, B
<1>8. OwnIn(B, f, A)
  <2>1. f \in [B -> A]
    BY <1>5
  <2>2. ASSUME NEW x \in B, NEW y \in B, f[x] = f[y] PROVE x = y
    BY <1>5, <2>2
  <2> QED
    BY <2>1, <2>2 DEF OwnIn
<1>9. OwnIn(A, g, B)
  <2>1. g \in [A -> B]
    BY <1>6
  <2>2. ASSUME NEW x \in A, NEW y \in A, g[x] = g[y] PROVE x = y
    BY <1>6, <2>2
  <2> QED
    BY <2>1, <2>2 DEF OwnIn
<1> HIDE DEF f, g
<1>10. /\ Cardinality(A) \in Nat /\ Cardinality(B) \in Nat
       /\ Cardinality(B) <= Cardinality(A) /\ Cardinality(A) <= Cardinality(B)
  BY <1>7, <1>8, <1>9, OwnCount
<1>11. Cardinality(A) = Cardinality(B)
  BY <1>10
<1> QED
  BY <1>2, <1>11 DEF A, B, CountAfter

-----------------------------------------------------------------------------
(* Requests that await a response: exactly as many as receives.            *)

LEMMA DeliverRespOnce ==
  ASSUME RequestInv, NEW c \in Conns, NEW d \in Conns, DeliverResp(c), DeliverResp(d)
  PROVE  c = d
<1>1. /\ writeQ[c] # <<>> /\ writeQ'[c] = Tail(writeQ[c]) /\ writeQ[c] \in Seq(Write)
      /\ c # d => writeQ'[c] = writeQ[c]
  BY DEF DeliverResp, RequestInv, Typed, TypeOK
<1> QED
  BY <1>1, TailDiffers

(* The pair of a call is nowhere else.                                     *)
LEMMA CallApart ==
  ASSUME RequestInv, NEW t \in CThreads, call[t] # None, NEW m, m = call[t].mr
  PROVE  /\ m \in Mrs /\ m \in busy
         /\ \A u \in CThreads \ {t} : call[u] = None \/ call[u].mr # m
         /\ \A c \in Conns : m \notin Entries(sendQ[c])
         /\ \A s \in LiveSlots : srvBuf[s].mr # m
         /\ m \notin MrsAt(Ccq_)
<1>1. m \in Mrs /\ m \in MrsAt(Call_(t))
  BY MrsAtSites DEF RequestInv, Typed, TypeOK, Call
<1>2. \A p \in RequestSites \ {Call_(t)} : m \in busy /\ m \notin MrsAt(p)
  BY <1>1, SitesAre, SiteElsewhere DEF RequestInv, RequestsSited
<1>3. m \in busy
  BY <1>1, SitesAre DEF RequestInv, RequestsSited, RequestInOneSite
<1>4. \A u \in CThreads \ {t} : call[u] = None \/ call[u].mr # m
  BY <1>2, SitesAre, SitesDiffer, MrsAtSites
<1>5. \A c \in Conns : m \notin Entries(sendQ[c])
  <2>1. Itself[m] = m /\ m # None
    BY <1>1, NoneIsNew DEF Itself
  <2>2. \A c \in Conns : m \notin Keys(sendQ[c], Itself)
    BY <1>2, SitesAre, SitesDiffer, MrsAtSites
  <2> QED
    BY <2>1, <2>2 DEF Keys, Entries
<1>6. \A s \in LiveSlots : s \in Slots
  BY LiveAreSlots DEF RequestInv, Typed
<1>7. \A s \in LiveSlots : srvBuf[s].mr # m
  BY <1>2, <1>6, SitesAre, SitesDiffer, MrsAtSites
<1>8. m \notin MrsAt(Ccq_)
  BY <1>2, SitesAre, SitesDiffer
<1> QED
  BY <1>1, <1>3, <1>4, <1>5, <1>7, <1>8

(* A call in its second half stays there or has its request in the queue.  *)
LEMMA InSendStays ==
  ASSUME RequestInv, [Next]_vars, fault' = "none",
         NEW c \in Conns, NEW t \in CThreads, NEW m, InSend(t, c, m)
  PROVE  InSend(t, c, m)' \/ m \in Entries(sendQ'[c])
<1>1. call \in [CThreads -> Call \cup {None}] /\ sendQ \in [Conns -> Seq(Mrs)]
  BY DEF RequestInv, Typed, TypeOK
<1>2. call[t] # None /\ call[t].pc = "post_send" /\ call[t].conn = c /\ call[t].mr = m
  BY DEF InSend
<1>3. m \in Mrs
  BY <1>2, CallApart
<1>4. ASSUME call'[t] = call[t] PROVE InSend(t, c, m)'
  BY <1>2, <1>4 DEF InSend
<1>5. ASSUME NEW u \in CThreads, NEW d \in Conns, NEW n \in Mrs, NEW v \in Vals,
             SendReq(u, d, n, v)
      PROVE  call'[t] = call[t]
  <2>1. u # t
    BY <1>2, <1>5 DEF SendReq, MayCall
  <2>2. UNCHANGED call \/ \E i : call' = [call EXCEPT ![u] = [pc |-> "post_recv",
                                             conn |-> d, mr |-> n, id |-> i]]
    BY <1>5 DEF SendReq, clientVars
  <2> QED
    BY <1>1, <2>1, <2>2
<1>6. ASSUME NEW u \in CThreads, PostRecv(u) PROVE call'[t] = call[t]
  BY <1>1, <1>2, <1>6 DEF PostRecv, SendFail
<1>7. ASSUME NEW u \in CThreads, PostSend(u)
      PROVE  call'[t] = call[t] \/ m \in Entries(sendQ'[c])
  <2>1. ~ SendFail(u)
    BY DEF SendFail
  <2>2. CASE u # t
    BY <1>1, <1>7, <2>1, <2>2 DEF PostSend
  <2>3. CASE u = t
    <3>1. sendQ' = [sendQ EXCEPT ![c] = Append(@, m)]
      BY <1>2, <1>7, <2>1, <2>3 DEF PostSend
    <3>2. sendQ'[c] = Append(sendQ[c], m) /\ sendQ[c] \in Seq(Mrs)
      BY <1>1, <3>1
    <3>3. Entries(sendQ'[c]) = Entries(sendQ[c]) \cup {m}
      BY <1>3, <3>2, EntriesAppend
    <3> QED
      BY <3>3
  <2> QED
    BY <2>2, <2>3
<1>8. ASSUME NEW u \in CThreads,
             ClientPoll(u) \/ OnSendReq(u) \/ OnRecvResp(u) \/ MempoolPut(u)
      PROVE  UNCHANGED call
  BY <1>8 DEF ClientPoll, OnSendReq, OnRecvResp, MempoolPut
<1>9. ASSUME NEW d \in Conns, WireStep(d) PROVE UNCHANGED call
  BY <1>9 DEF WireStep, DeliverReq, RnrNak, AckReq, DeliverResp, AckWrite, clientVars
<1>10. ASSUME NEW u \in SThreads, ServerStep(u) PROVE UNCHANGED call
  BY <1>10 DEF ServerStep, ServerPoll, OnRecvReq, OnWriteRespDone, clientVars
<1>11. ASSUME NEW s \in Slots, MakeResp(s) PROVE UNCHANGED call
  BY <1>11 DEF MakeResp, clientVars
<1>12. CASE UNCHANGED vars
  BY <1>4, <1>12 DEF vars, clientVars
<1> QED
  BY <1>4, <1>5, <1>6, <1>7, <1>8, <1>9, <1>10, <1>11, <1>12 DEF Next, ClientStep

(* A request in a send queue stays there until it is in a slot.            *)
LEMMA SendQStays ==
  ASSUME RequestInv, [Next]_vars, NEW c \in Conns, NEW m \in Entries(sendQ[c])
  PROVE  m \in Entries(sendQ'[c]) \/ \E s \in SlotsOn(c)' : m = srvBuf'[s].mr
<1>1. call \in [CThreads -> Call \cup {None}] /\ sendQ \in [Conns -> Seq(Mrs)]
  BY DEF RequestInv, Typed, TypeOK
<1>2. ASSUME UNCHANGED sendQ PROVE m \in Entries(sendQ'[c])
  BY <1>2
<1>3. ASSUME NEW t \in CThreads, PostSend(t), ~ UNCHANGED sendQ PROVE m \in Entries(sendQ'[c])
  <2>1. call[t] \in Call /\ sendQ' = [sendQ EXCEPT ![call[t].conn] = Append(@, call[t].mr)]
    BY <1>1, <1>3 DEF PostSend, SendFail, wireVars
  <2>2. PICK d \in Conns, n \in Mrs : d = call[t].conn /\ n = call[t].mr
    BY <2>1 DEF Call
  <2>3. sendQ'[d] = Append(sendQ[d], n) /\ (c # d => sendQ'[c] = sendQ[c])
    BY <1>1, <2>1, <2>2
  <2>4. sendQ[d] \in Seq(Mrs)
    BY <1>1
  <2>5. Entries(sendQ'[d]) = Entries(sendQ[d]) \cup {n}
    BY <2>3, <2>4, EntriesAppend
  <2> QED
    BY <2>3, <2>5
<1>4. ASSUME NEW t \in CThreads, ClientStep(t), ~ PostSend(t) PROVE UNCHANGED sendQ
  BY <1>4 DEF ClientStep, SendReq, PostRecv, SendFail, ClientPoll, OnSendReq, OnRecvResp,
     MempoolPut, wireVars
<1>5. ASSUME NEW d \in Conns, DeliverReq(d)
      PROVE  m \in Entries(sendQ'[c]) \/ \E s \in SlotsOn(c)' : m = srvBuf'[s].mr
  <2>1. sendQ' = [sendQ EXCEPT ![d] = Tail(@)] /\ sendQ[d] # <<>>
    BY <1>5 DEF DeliverReq
  <2>2. CASE c # d
    BY <1>1, <2>1, <2>2
  <2>3. CASE c = d
    <3>1. sendQ'[c] = Tail(sendQ[c]) /\ sendQ[c] \in Seq(Mrs) /\ sendQ[c] # <<>>
      BY <1>1, <2>1, <2>3
    <3>2. Entries(sendQ[c]) = Entries(sendQ'[c]) \cup {Head(sendQ[c])}
      BY <3>1, EntriesTail
    <3>3. PICK n \in Mrs, s \in Slots, e \in ServerCqe : Arrives(d, n, s, e)
      BY <1>5, DeliverReqOn
    <3>4. n = Head(sendQ[c]) /\ s \in SlotsOn(c)' /\ srvBuf'[s].mr = n
      BY <2>3, <3>3 DEF Arrives
    <3> QED
      BY <3>2, <3>4
  <2> QED
    BY <2>2, <2>3
<1>6. ASSUME NEW d \in Conns, WireStep(d), ~ DeliverReq(d) PROVE UNCHANGED sendQ
  BY <1>6 DEF WireStep, RnrNak, AckReq, DeliverResp, AckWrite, wireVars
<1>7. ASSUME NEW t \in SThreads, ServerStep(t) PROVE UNCHANGED sendQ
  BY <1>7 DEF ServerStep, ServerPoll, OnRecvReq, OnWriteRespDone, wireVars
<1>8. ASSUME NEW s \in Slots, MakeResp(s) PROVE UNCHANGED sendQ
  BY <1>8 DEF MakeResp
<1>9. CASE UNCHANGED vars
  BY <1>2, <1>9 DEF vars, wireVars
<1> QED
  BY <1>2, <1>3, <1>4, <1>5, <1>6, <1>7, <1>8, <1>9 DEF Next

LEMMA AwaitingStays ==
  ASSUME RequestInv, [Next]_vars, fault' = "none", NEW c \in Conns, NEW m \in Awaiting(c)
  PROVE  \/ m \in Awaiting(c)'
         \/ DeliverResp(c) /\ m = srvBuf[Head(writeQ[c]).slot].mr
<1>1. CASE \E t \in CThreads : InSend(t, c, m)
  BY <1>1, InSendStays, AwaitingAre
<1>2. CASE m \in Entries(sendQ[c])
  BY <1>2, SendQStays, AwaitingAre
<1>3. ASSUME NEW s \in SlotsOn(c), m = srvBuf[s].mr
      PROVE  \/ m \in Awaiting(c)'
             \/ DeliverResp(c) /\ m = srvBuf[Head(writeQ[c]).slot].mr
  <2>1. CASE s \in SlotsOn(c)'
    <3>1. s \in LiveSlots /\ s \in LiveSlots' /\ s \in Slots
      BY <2>1, SlotsOnLive, SlotsOnLiveNext, LiveAreSlots DEF RequestInv, Typed
    <3>2. srvBuf'[s] = srvBuf[s]
      BY <3>1, ViewKept
    <3> QED
      BY <1>3, <2>1, <3>2, AwaitingAre
  <2>2. CASE s \notin SlotsOn(c)'
    BY <1>3, <2>2, SlotsOnStay
  <2> QED
    BY <2>1, <2>2
<1> QED
  BY <1>1, <1>2, <1>3, AwaitingAre

RecvExact ==
  fault = "none" => \A c \in Conns : rqPosted[c] <= Cardinality(Awaiting(c))

LEMMA CallAwaitsNone ==
  ASSUME RequestInv, NEW t \in CThreads, call[t] # None, call[t].pc = "post_recv",
         NEW c \in Conns, NEW m, m = call[t].mr
  PROVE  m \notin Awaiting(c)
<1>1. ASSUME NEW u \in CThreads, InSend(u, c, m) PROVE FALSE
  BY <1>1, CallApart DEF InSend
<1>2. ASSUME NEW s \in SlotsOn(c), m = srvBuf[s].mr PROVE FALSE
  <2>1. s \in LiveSlots
    BY SlotsOnLive
  <2> QED
    BY <1>2, <2>1, CallApart
<1> QED
  BY <1>1, <1>2, CallApart, AwaitingAre

LEMMA RecvExactInit == Init => RecvExact
<1> SUFFICES ASSUME Init, NEW c \in Conns PROVE rqPosted[c] <= Cardinality(Awaiting(c))
  BY DEF RecvExact
<1>1. Cardinality(Awaiting(c)) \in Nat
  BY RecvInit, FS_CardinalityType DEF RecvInv, RecvPerRequest
<1> QED
  BY <1>1 DEF Init

LEMMA RecvExactStep == RecvInv /\ RecvExact /\ [Next]_vars => RecvExact'
<1> SUFFICES ASSUME RecvInv, RecvExact, [Next]_vars, fault' = "none", NEW c \in Conns
             PROVE  rqPosted'[c] <= Cardinality(Awaiting(c)')
  BY DEF RecvExact
<1> DEFINE A == Awaiting(c)
           B == Awaiting(c)'
<1>1. RequestInv /\ rqPosted \in [Conns -> Nat] /\ fault = "none"
  BY DEF RecvInv, RequestInv, Typed, TypeOK, Next, vars
<1>2. IsFiniteSet(A) /\ rqPosted[c] <= Cardinality(A) /\ Cardinality(A) \in Nat
  BY <1>1, FS_CardinalityType DEF RecvInv, RecvPerRequest, RecvExact
<1>3. IsFiniteSet(B) /\ Cardinality(B) \in Nat
  BY RecvStep, FS_CardinalityType DEF RecvInv, RecvPerRequest
<1>4. \A m \in A : m \in B \/ (DeliverResp(c) /\ m = srvBuf[Head(writeQ[c]).slot].mr)
  BY <1>1, AwaitingStays
<1> HIDE DEF A, B
<1>5. ASSUME A \subseteq B, rqPosted'[c] = rqPosted[c] PROVE rqPosted'[c] <= Cardinality(B)
  <2>1. Cardinality(A) <= Cardinality(B)
    BY <1>3, <1>5, FS_Subset
  <2> QED
    BY <1>1, <1>2, <1>3, <1>5, <2>1
<1>6. ASSUME NEW t \in CThreads, PostRecv(t) PROVE rqPosted'[c] <= Cardinality(B)
  <2>1. ~ SendFail(t)
    BY DEF SendFail
  <2>2. /\ call[t] \in Call /\ call[t] # None /\ call[t].pc = "post_recv"
        /\ rqPosted' = [rqPosted EXCEPT ![call[t].conn] = @ + 1]
        /\ call' = [call EXCEPT ![t] = Continue(call[t])]
    BY <1>1, <1>6, <2>1 DEF PostRecv, RequestInv, Typed, TypeOK
  <2>3. PICK d \in Conns, n \in Mrs : d = call[t].conn /\ n = call[t].mr
    BY <2>2 DEF Call
  <2>4. /\ call'[t].conn = d /\ call'[t].mr = n /\ call'[t].pc = "post_send"
        /\ call'[t] # None
    <3>1. call'[t] = Continue(call[t])
      BY <1>1, <2>2 DEF RequestInv, Typed, TypeOK
    <3>2. Continue(call[t]) \in Call
      BY <2>2 DEF Continue, Call
    <3>3. Continue(call[t]) # None
      BY <3>2, NoneAssumption
    <3> QED
      BY <2>3, <3>1, <3>3 DEF Continue
  <2>5. A \subseteq B
    <3>1. ~ DeliverResp(c)
      BY <2>2, <2>4 DEF DeliverResp, clientVars
    <3> QED
      BY <1>4, <3>1
  <2>6. CASE c # d
    <3>1. rqPosted'[c] = rqPosted[c]
      BY <1>1, <2>2, <2>3, <2>6
    <3> QED
      BY <1>5, <2>5, <3>1
  <2>7. CASE c = d
    <3>1. rqPosted'[c] = rqPosted[c] + 1
      BY <1>1, <2>2, <2>3, <2>7
    <3>2. n \notin A
      BY <1>1, <2>2, <2>3, CallAwaitsNone DEF A
    <3>3. n \in B
      <4>1. InSend(t, c, n)'
        BY <2>4, <2>7 DEF InSend
      <4> QED
        BY <4>1, AwaitingAre DEF B
    <3>4. Cardinality(A \cup {n}) = Cardinality(A) + 1 /\ A \cup {n} \subseteq B
      BY <1>2, <2>5, <3>2, <3>3, FS_AddElement
    <3>5. Cardinality(A \cup {n}) <= Cardinality(B)
      BY <1>3, <3>4, FS_Subset
    <3> QED
      BY <1>1, <1>2, <1>3, <3>1, <3>4, <3>5
  <2> QED
    BY <2>6, <2>7
<1>7. ASSUME NEW d \in Conns, DeliverResp(d) PROVE rqPosted'[c] <= Cardinality(B)
  <2>1. rqPosted' = [rqPosted EXCEPT ![d] = rqPosted[d] - 1] /\ rqPosted[d] > 0
    BY <1>7 DEF DeliverResp
  <2>2. CASE c # d
    <3>1. rqPosted'[c] = rqPosted[c]
      BY <1>1, <2>1, <2>2
    <3>2. ~ DeliverResp(c)
      BY <1>1, <1>7, <2>2, DeliverRespOnce
    <3> QED
      BY <1>4, <1>5, <3>1, <3>2
  <2>3. CASE c = d
    <3>1. rqPosted'[c] = rqPosted[c] - 1
      BY <1>1, <2>1, <2>3
    <3>2. PICK m : m = srvBuf[Head(writeQ[c]).slot].mr
      OBVIOUS
    <3>3. A \ {m} \subseteq B
      BY <1>4, <3>2
    <3>4. /\ IsFiniteSet(A \ {m})
          /\ Cardinality(A \ {m}) = IF m \in A THEN Cardinality(A) - 1 ELSE Cardinality(A)
      BY <1>2, FS_RemoveElement
    <3>5. Cardinality(A \ {m}) <= Cardinality(B)
      BY <1>3, <3>3, FS_Subset
    <3>6. Cardinality(A \ {m}) >= Cardinality(A) - 1 /\ Cardinality(A \ {m}) \in Nat
      BY <1>2, <3>4, FS_CardinalityType
    <3> QED
      BY <1>1, <1>2, <1>3, <3>1, <3>5, <3>6
  <2> QED
    BY <2>2, <2>3
<1>8. ASSUME NEW t \in CThreads, ClientStep(t), ~ PostRecv(t) PROVE UNCHANGED rqPosted
  BY <1>8 DEF ClientStep, SendReq, PostSend, SendFail, ClientPoll, OnSendReq, OnRecvResp,
     MempoolPut
<1>9. ASSUME NEW d \in Conns, WireStep(d), ~ DeliverResp(d) PROVE UNCHANGED rqPosted
  BY <1>9 DEF WireStep, DeliverReq, RnrNak, AckReq, AckWrite
<1>10. ASSUME NEW t \in SThreads, ServerStep(t) PROVE UNCHANGED rqPosted
  BY <1>10 DEF ServerStep, ServerPoll, OnRecvReq, OnWriteRespDone
<1>11. ASSUME NEW s \in Slots, MakeResp(s) PROVE UNCHANGED rqPosted
  BY <1>11 DEF MakeResp
<1>12. ASSUME UNCHANGED vars PROVE UNCHANGED rqPosted
  BY <1>12 DEF vars
<1>13. rqPosted'[c] <= Cardinality(B)
  <2>1. CASE \E t \in CThreads : PostRecv(t)
    BY <1>6, <2>1
  <2>2. CASE \E d \in Conns : DeliverResp(d)
    BY <1>7, <2>2
  <2>3. CASE /\ \A t \in CThreads : ~ PostRecv(t)
             /\ \A d \in Conns : ~ DeliverResp(d)
    <3>1. UNCHANGED rqPosted
      BY <2>3, <1>8, <1>9, <1>10, <1>11, <1>12 DEF Next
    <3>2. A \subseteq B
      BY <1>4, <2>3
    <3> QED
      BY <1>5, <3>1, <3>2
  <2> QED
    BY <2>1, <2>2, <2>3
<1> QED
  BY <1>13 DEF B

-----------------------------------------------------------------------------
(* Send completions: an acknowledgement of a request comes before the      *)
(* response to it, so whatever is polled from the client's completion      *)
(* queue, no more requests have their send entry in use than are at the    *)
(* server or answered by a later completion.                               *)

(* q is the completion queue, a the acknowledgements under way, S the      *)
(* slots with requests of the connection.                                  *)
SendHeld(q, a, S, c) ==
  /\ IsFiniteSet(S)
  /\ \A k \in 0..Len(q) :
       CountAfter(q, "send", c, k) + a <= CountAfter(q, "recv", c, k) + Cardinality(S)

SendInv ==
  /\ RequestInv
  /\ \A c \in Conns : SendHeld(ccq, sendAck[c], SlotsOn(c), c)

LEMMA HeldAppend ==
  ASSUME NEW q \in Seq(ClientCqe), NEW e \in ClientCqe, NEW c, NEW a \in Nat,
         NEW S, IsFiniteSet(S),
         \A k \in 0..Len(q) :
           CountAfter(Append(q, e), "send", c, k) + a
             <= CountAfter(Append(q, e), "recv", c, k) + Cardinality(S),
         a <= Cardinality(S)
  PROVE  SendHeld(Append(q, e), a, S, c)
<1> DEFINE r == Append(q, e)
<1>1. r \in Seq(ClientCqe) /\ Len(r) = Len(q) + 1 /\ Len(q) \in Nat
  BY AppendProperties, LenProperties
<1>2. CountAfter(r, "send", c, Len(r)) = 0 /\ CountAfter(r, "recv", c, Len(r)) = 0
  BY <1>1, CountIsAfter
<1> HIDE DEF r
<1>3. Cardinality(S) \in Nat
  BY FS_CardinalityType
<1>4. ASSUME NEW k \in 0..Len(r)
      PROVE  CountAfter(r, "send", c, k) + a <= CountAfter(r, "recv", c, k) + Cardinality(S)
  <2>1. CASE k = Len(r)
    <3>1. CountAfter(r, "send", c, k) = 0 /\ CountAfter(r, "recv", c, k) = 0
      BY <1>2, <2>1
    <3> QED
      BY <1>3, <3>1
  <2>2. CASE k # Len(r)
    <3>1. k \in 0..Len(q)
      BY <1>1, <2>2
    <3> QED
      BY <3>1 DEF r
  <2> QED
    BY <2>1, <2>2
<1> QED
  BY <1>4 DEF SendHeld, r

LEMMA HeldAtEnd ==
  ASSUME NEW q \in Seq(ClientCqe), NEW c, NEW a \in Nat, NEW S, SendHeld(q, a, S, c)
  PROVE  a <= Cardinality(S)
<1>1. Len(q) \in 0..Len(q) /\ Cardinality(S) \in Nat
  BY LenProperties, FS_CardinalityType DEF SendHeld
<1>2. CountAfter(q, "send", c, Len(q)) = 0 /\ CountAfter(q, "recv", c, Len(q)) = 0
  BY CountIsAfter
<1>3. CountAfter(q, "send", c, Len(q)) + a
        <= CountAfter(q, "recv", c, Len(q)) + Cardinality(S)
  BY <1>1 DEF SendHeld
<1>4. 0 + a <= 0 + Cardinality(S)
  BY <1>2, <1>3
<1> QED
  BY <1>1, <1>4

LEMMA HeldAcked ==
  ASSUME NEW q \in Seq(ClientCqe), NEW e \in ClientCqe, NEW c, NEW a \in Nat, NEW S,
         SendHeld(q, a, S, c), e.op = "send", e.conn = c, a > 0
  PROVE  SendHeld(Append(q, e), a - 1, S, c)
<1>1. IsFiniteSet(S) /\ Cardinality(S) \in Nat /\ a <= Cardinality(S) /\ a - 1 \in Nat
  BY FS_CardinalityType, HeldAtEnd DEF SendHeld
<1>2. ASSUME NEW k \in 0..Len(q)
      PROVE  CountAfter(Append(q, e), "send", c, k) + (a - 1)
               <= CountAfter(Append(q, e), "recv", c, k) + Cardinality(S)
  <2>1. PICK x \in Nat, y \in Nat :
          x = CountAfter(q, "send", c, k) /\ y = CountAfter(q, "recv", c, k)
    BY CountTypes
  <2>2. CountAfter(Append(q, e), "send", c, k) = x + 1
    BY <2>1, CountAdds
  <2>3. CountAfter(Append(q, e), "recv", c, k) = y
    BY <2>1, CountAdds
  <2>4. x + a <= y + Cardinality(S)
    BY <2>1 DEF SendHeld
  <2> QED
    BY <1>1, <2>2, <2>3, <2>4
<1>3. a - 1 <= Cardinality(S)
  BY <1>1
<1> QED
  BY <1>1, <1>2, <1>3, HeldAppend

LEMMA HeldAnswered ==
  ASSUME NEW q \in Seq(ClientCqe), NEW e \in ClientCqe, NEW c, NEW S, NEW s \in S,
         SendHeld(q, 0, S, c), e.op = "recv", e.conn = c
  PROVE  SendHeld(Append(q, e), 0, S \ {s}, c)
<1>1. /\ IsFiniteSet(S \ {s}) /\ Cardinality(S \ {s}) = Cardinality(S) - 1
      /\ Cardinality(S) \in Nat /\ Cardinality(S \ {s}) \in Nat
  BY FS_RemoveElement, FS_CardinalityType DEF SendHeld
<1>2. ASSUME NEW k \in 0..Len(q)
      PROVE  CountAfter(Append(q, e), "send", c, k) + 0
               <= CountAfter(Append(q, e), "recv", c, k) + Cardinality(S \ {s})
  <2>1. PICK x \in Nat, y \in Nat :
          x = CountAfter(q, "send", c, k) /\ y = CountAfter(q, "recv", c, k)
    BY CountTypes
  <2>2. CountAfter(Append(q, e), "send", c, k) = x
    BY <2>1, CountAdds
  <2>3. CountAfter(Append(q, e), "recv", c, k) = y + 1
    BY <2>1, CountAdds
  <2>4. x + 0 <= y + Cardinality(S)
    BY <2>1 DEF SendHeld
  <2> QED
    BY <1>1, <2>2, <2>3, <2>4
<1>3. 0 <= Cardinality(S \ {s})
  BY <1>1
<1> QED
  BY <1>1, <1>2, <1>3, HeldAppend

LEMMA HeldOther ==
  ASSUME NEW q \in Seq(ClientCqe), NEW e \in ClientCqe, NEW c, NEW a \in Nat, NEW S,
         SendHeld(q, a, S, c), e.conn # c
  PROVE  SendHeld(Append(q, e), a, S, c)
<1>1. IsFiniteSet(S) /\ a <= Cardinality(S)
  BY HeldAtEnd DEF SendHeld
<1>2. ASSUME NEW k \in 0..Len(q)
      PROVE  CountAfter(Append(q, e), "send", c, k) + a
               <= CountAfter(Append(q, e), "recv", c, k) + Cardinality(S)
  <2>1. PICK x \in Nat, y \in Nat :
          x = CountAfter(q, "send", c, k) /\ y = CountAfter(q, "recv", c, k)
    BY CountTypes
  <2>2. CountAfter(Append(q, e), "send", c, k) = x
    BY <2>1, CountAdds
  <2>3. CountAfter(Append(q, e), "recv", c, k) = y
    BY <2>1, CountAdds
  <2>4. x + a <= y + Cardinality(S)
    BY <2>1 DEF SendHeld
  <2> QED
    BY <2>2, <2>3, <2>4
<1> QED
  BY <1>1, <1>2, HeldAppend

LEMMA HeldDrops ==
  ASSUME NEW q \in Seq(ClientCqe), NEW r \in Seq(ClientCqe), NEW n \in Nat,
         Dropped(q, r, n), NEW c, NEW a, NEW S, SendHeld(q, a, S, c)
  PROVE  SendHeld(r, a, S, c)
<1>1. ASSUME NEW k \in 0..Len(r)
      PROVE  CountAfter(r, "send", c, k) + a <= CountAfter(r, "recv", c, k) + Cardinality(S)
  <2>1. /\ k + n \in 0..Len(q)
        /\ CountAfter(r, "send", c, k) = CountAfter(q, "send", c, k + n)
        /\ CountAfter(r, "recv", c, k) = CountAfter(q, "recv", c, k + n)
    BY CountDrops
  <2> QED
    BY <2>1 DEF SendHeld
<1> QED
  BY <1>1 DEF SendHeld

LEMMA HeldArrives ==
  ASSUME NEW q \in Seq(ClientCqe), NEW c, NEW a \in Nat, NEW S, NEW s, s \notin S,
         SendHeld(q, a, S, c)
  PROVE  SendHeld(q, a + 1, S \cup {s}, c)
<1>1. /\ IsFiniteSet(S \cup {s}) /\ Cardinality(S \cup {s}) = Cardinality(S) + 1
      /\ Cardinality(S) \in Nat
  BY FS_AddElement, FS_CardinalityType DEF SendHeld
<1>2. ASSUME NEW k \in 0..Len(q)
      PROVE  CountAfter(q, "send", c, k) + (a + 1)
               <= CountAfter(q, "recv", c, k) + Cardinality(S \cup {s})
  <2>1. PICK x \in Nat, y \in Nat :
          x = CountAfter(q, "send", c, k) /\ y = CountAfter(q, "recv", c, k)
    BY CountTypes
  <2>2. x + a <= y + Cardinality(S)
    BY <2>1 DEF SendHeld
  <2>3. x + (a + 1) <= y + Cardinality(S \cup {s})
    BY <1>1, <2>2
  <2> QED
    BY <2>1, <2>3
<1> QED
  BY <1>1, <1>2 DEF SendHeld

LEMMA SendInit == Init => SendInv
<1> SUFFICES ASSUME Init, NEW c \in Conns
             PROVE  SendHeld(ccq, sendAck[c], SlotsOn(c), c)
  BY RequestInvInit DEF SendInv
<1>1. SlotsOn(c) = {}
  <2>1. Entries(writeQ[c]) = {} /\ Entries(scq) = {}
    BY EntriesEmpty DEF Init
  <2>2. \A t \in SThreads : Entries(swc[t]) = {}
    BY EntriesEmpty DEF Init
  <2>3. \A s : s \notin SlotsOn(c)
    BY <2>1, <2>2, SlotsOnAre, ServerEntriesAre DEF Init
  <2> QED
    BY <2>3
<1>2. ccq \in Seq(ClientCqe) /\ Len(ccq) = 0 /\ sendAck[c] = 0
  BY EmptySeq DEF Init
<1>3. IsFiniteSet(SlotsOn(c)) /\ Cardinality(SlotsOn(c)) = 0
  BY <1>1, FS_EmptySet
<1>4. CountAfter(ccq, "send", c, 0) = 0 /\ CountAfter(ccq, "recv", c, 0) = 0
  BY <1>2, CountIsAfter
<1> QED
  BY <1>2, <1>3, <1>4 DEF SendHeld

(* What a step does to the client's completion queue.                      *)
LEMMA CcqAfter ==
  ASSUME TypeOK, [Next]_vars, \A d \in Conns : ~ AckReq(d) /\ ~ DeliverResp(d)
  PROVE  \E n \in Nat : Dropped(ccq, ccq', n)
<1>1. ccq \in Seq(ClientCqe)
  BY DEF TypeOK
<1>2. ASSUME UNCHANGED ccq PROVE \E n \in Nat : Dropped(ccq, ccq', n)
  BY <1>1, <1>2, SameDrops
<1>3. ASSUME NEW t \in CThreads, ClientPoll(t) PROVE \E n \in Nat : Dropped(ccq, ccq', n)
  <2>1. ccq' = LeftInCq(ccq)
    BY <1>3 DEF ClientPoll
  <2> QED
    BY <1>1, <2>1, PollDrops
<1>4. ASSUME NEW t \in CThreads, ClientStep(t), ~ ClientPoll(t) PROVE UNCHANGED ccq
  BY <1>4 DEF ClientStep, SendReq, PostRecv, PostSend, SendFail, OnSendReq, OnRecvResp,
     MempoolPut
<1>5. ASSUME NEW d \in Conns, DeliverReq(d) \/ RnrNak(d) \/ AckWrite(d) PROVE UNCHANGED ccq
  BY <1>5 DEF DeliverReq, RnrNak, AckWrite
<1>6. ASSUME NEW t \in SThreads, ServerStep(t) PROVE UNCHANGED ccq
  BY <1>6 DEF ServerStep, ServerPoll, OnRecvReq, OnWriteRespDone
<1>7. ASSUME NEW s \in Slots, MakeResp(s) PROVE UNCHANGED ccq
  BY <1>7 DEF MakeResp
<1>8. CASE UNCHANGED vars
  BY <1>2, <1>8 DEF vars
<1> QED
  BY <1>2, <1>3, <1>4, <1>5, <1>6, <1>7, <1>8 DEF Next, WireStep

LEMMA SendAckSame ==
  ASSUME [Next]_vars, \A d \in Conns : ~ AckReq(d) /\ ~ DeliverReq(d)
  PROVE  UNCHANGED sendAck
BY DEF Next, ClientStep, SendReq, PostRecv, PostSend, SendFail, ClientPoll, OnSendReq,
   OnRecvResp, MempoolPut, WireStep, RnrNak, DeliverResp, AckWrite, ServerStep, ServerPoll,
   OnRecvReq, OnWriteRespDone, MakeResp, vars, wireVars

LEMMA SendStep == AckInOrder /\ SendInv /\ [Next]_vars => SendInv'
<1> SUFFICES ASSUME AckInOrder, SendInv, [Next]_vars, NEW c \in Conns
             PROVE  SendHeld(ccq', sendAck'[c], SlotsOn(c)', c)
  BY RequestInvStep DEF SendInv
<1>1. /\ RequestInv /\ TypeOK /\ TypeOK' /\ ccq \in Seq(ClientCqe)
      /\ ccq' \in Seq(ClientCqe) /\ sendAck \in [Conns -> Nat]
      /\ SendHeld(ccq, sendAck[c], SlotsOn(c), c)
  BY RequestInvStep DEF SendInv, RequestInv, Typed, TypeOK
<1>2. ASSUME NEW d \in Conns, DeliverReq(d)
      PROVE  SendHeld(ccq', sendAck'[c], SlotsOn(c)', c)
  <2>1. PICK m \in Mrs, s \in Slots, e \in ServerCqe : Arrives(d, m, s, e)
    BY <1>1, <1>2, DeliverReqOn
  <2>2. UNCHANGED ccq /\ sendAck' = [sendAck EXCEPT ![d] = sendAck[d] + 1]
    BY <1>2 DEF DeliverReq
  <2>3. CASE c # d
    <3>1. sendAck'[c] = sendAck[c] /\ SlotsOn(c)' = SlotsOn(c)
      BY <1>1, <2>1, <2>2, <2>3 DEF Arrives
    <3> QED
      BY <1>1, <2>2, <3>1
  <2>4. CASE c = d
    <3>1. sendAck'[c] = sendAck[c] + 1 /\ SlotsOn(c)' = SlotsOn(c) \cup {s}
      BY <1>1, <2>1, <2>2, <2>4 DEF Arrives
    <3>2. s \notin SlotsOn(c)
      BY <2>1, SlotsOnLive DEF Arrives
    <3>3. SendHeld(ccq, sendAck[c] + 1, SlotsOn(c) \cup {s}, c)
      BY <1>1, <3>2, HeldArrives
    <3> QED
      BY <2>2, <3>1, <3>3
  <2> QED
    BY <2>3, <2>4
<1>3. ASSUME NEW d \in Conns, AckReq(d)
      PROVE  SendHeld(ccq', sendAck'[c], SlotsOn(c)', c)
  <2>1. PICK e \in ClientCqe : e.op = "send" /\ e.conn = d /\ ccq' = Append(ccq, e)
    <3>1. [op |-> "send", conn |-> d, id |-> None] \in ClientCqe
      BY DEF ClientCqe
    <3>2. ccq' = Append(ccq, [op |-> "send", conn |-> d, id |-> None])
      BY <1>3 DEF AckReq
    <3> QED
      BY <3>1, <3>2
  <2>2. sendAck' = [sendAck EXCEPT ![d] = sendAck[d] - 1] /\ sendAck[d] > 0
    BY <1>3 DEF AckReq
  <2>3. SlotsOn(c)' = SlotsOn(c)
    <3>1. UNCHANGED <<sendQ, rqPosted>>
      BY <1>3 DEF AckReq
    <3>2. ASSUME NEW b \in Conns, DeliverReq(b) PROVE FALSE
      <4>1. sendQ[b] \in Seq(Mrs) /\ sendQ[b] # <<>> /\ sendQ'[b] = Tail(sendQ[b])
        BY <1>1, <3>2 DEF DeliverReq, TypeOK
      <4> QED
        BY <3>1, <4>1, TailDiffers
    <3>3. ASSUME NEW b \in Conns, DeliverResp(b) PROVE FALSE
      <4>1. rqPosted[b] \in Nat /\ rqPosted'[b] = rqPosted[b] - 1
        BY <1>1, <3>3 DEF DeliverResp, TypeOK
      <4> QED
        BY <3>1, <4>1
    <3> QED
      BY <1>1, <3>2, <3>3, SlotsOnSame
  <2>4. CASE c # d
    <3>1. sendAck'[c] = sendAck[c]
      BY <1>1, <2>2, <2>4
    <3>2. sendAck[c] \in Nat
      BY <1>1
    <3>3. SendHeld(Append(ccq, e), sendAck[c], SlotsOn(c), c)
      BY <1>1, <2>1, <2>4, <3>2, HeldOther
    <3> QED
      BY <2>1, <2>3, <3>1, <3>3
  <2>5. CASE c = d
    <3>1. sendAck'[c] = sendAck[c] - 1
      BY <1>1, <2>2, <2>5
    <3>2. sendAck[c] \in Nat /\ sendAck[c] > 0
      BY <1>1, <2>2, <2>5
    <3>3. SendHeld(Append(ccq, e), sendAck[c] - 1, SlotsOn(c), c)
      BY <1>1, <2>1, <2>5, <3>2, HeldAcked
    <3> QED
      BY <2>1, <2>3, <3>1, <3>3
  <2> QED
    BY <2>4, <2>5
<1>4. ASSUME NEW d \in Conns, DeliverResp(d)
      PROVE  SendHeld(ccq', sendAck'[c], SlotsOn(c)', c)
  <2>1. PICK s \in Slots : s \in SlotsOn(d) /\ s = Head(writeQ[d]).slot
                           /\ \A b \in Conns : SlotsOn(b)' = SlotsOn(b) \ {s}
    BY <1>1, <1>4, DeliverRespOn
  <2>2. PICK e \in ClientCqe : e.op = "recv" /\ e.conn = d /\ ccq' = Append(ccq, e)
    <3>1. writeQ[d] # <<>>
      BY <1>4 DEF DeliverResp
    <3>2. PICK w \in Write : w = Head(writeQ[d])
      BY <1>1, <3>1, NextWrite
    <3>3. w.id \in Ids
      BY DEF Write
    <3>4. [op |-> "recv", conn |-> d, id |-> w.id] \in ClientCqe
      BY <3>3 DEF ClientCqe
    <3>5. ccq' = Append(ccq, [op |-> "recv", conn |-> d, id |-> w.id])
      BY <1>4, <3>2 DEF DeliverResp
    <3> QED
      BY <3>4, <3>5
  <2>3. UNCHANGED sendAck /\ sendAck[d] = 0
    BY <1>4 DEF DeliverResp
  <2>4. CASE c # d
    <3>1. s \notin SlotsOn(c)
      <4>1. ~ DeliverResp(c)
        BY <1>1, <1>4, <2>4, DeliverRespOnce
      <4>2. s \in SlotsOn(c) => s \in SlotsOn(c)'
        BY <1>1, <4>1, SlotsOnStay
      <4> QED
        BY <2>1, <4>2
    <3>2. SlotsOn(c)' = SlotsOn(c)
      BY <2>1, <3>1
    <3>3. sendAck[c] \in Nat
      BY <1>1
    <3>4. SendHeld(Append(ccq, e), sendAck[c], SlotsOn(c), c)
      BY <1>1, <2>2, <2>4, <3>3, HeldOther
    <3> QED
      BY <2>2, <2>3, <3>2, <3>4
  <2>5. CASE c = d
    <3>1. s \in SlotsOn(c) /\ SlotsOn(c)' = SlotsOn(c) \ {s} /\ sendAck[c] = 0
      BY <2>1, <2>3, <2>5
    <3>2. SendHeld(ccq, 0, SlotsOn(c), c)
      BY <1>1, <3>1
    <3>3. SendHeld(Append(ccq, e), 0, SlotsOn(c) \ {s}, c)
      BY <1>1, <2>2, <2>5, <3>1, <3>2, HeldAnswered
    <3> QED
      BY <2>2, <2>3, <3>1, <3>3
  <2> QED
    BY <2>4, <2>5
<1>5. ASSUME \A d \in Conns : ~ DeliverReq(d) /\ ~ AckReq(d) /\ ~ DeliverResp(d)
      PROVE  SendHeld(ccq', sendAck'[c], SlotsOn(c)', c)
  <2>1. UNCHANGED sendAck
    BY <1>5, SendAckSame
  <2>2. SlotsOn(c)' = SlotsOn(c)
    BY <1>1, <1>5, SlotsOnSame
  <2>3. PICK n \in Nat : Dropped(ccq, ccq', n)
    BY <1>1, <1>5, CcqAfter
  <2>4. SendHeld(ccq', sendAck[c], SlotsOn(c), c)
    BY <1>1, <2>3, HeldDrops
  <2> QED
    BY <2>1, <2>2, <2>4
<1> QED
  BY <1>2, <1>3, <1>4, <1>5

-----------------------------------------------------------------------------
(* The sizes that are enough: a queue has an entry for every buffer pair   *)
(* of the client, a pool an element for every pair and for every callback  *)
(* that runs.                                                              *)
Sized ==
  /\ AckInOrder
  /\ IsFiniteSet(Mrs) /\ Cardinality(Mrs) <= MaxQ
  /\ IsFiniteSet(CThreads) /\ IsFiniteSet(Ids)
  /\ Cardinality(Mrs) + Cardinality(CThreads) <= Cardinality(Ids)

(* A slot that has been used keeps its last request in the buffer.         *)
SlotsUsed == \A s \in Slots \ srq : srvBuf[s] # None

LEMMA SlotsUsedStep == RequestInv /\ SlotsUsed /\ [Next]_vars => SlotsUsed'
<1> SUFFICES ASSUME RequestInv, SlotsUsed, [Next]_vars, NEW s \in Slots, s \notin srq'
             PROVE  srvBuf'[s] # None
  BY DEF SlotsUsed
<1>1. ASSUME NEW d \in Conns, DeliverReq(d) PROVE srvBuf'[s] # None
  <2>1. PICK m \in Mrs, r \in Slots, e \in ServerCqe : Arrives(d, m, r, e)
    BY <1>1, DeliverReqOn
  <2>2. CASE s = r
    <3>1. s \in SlotsOn(d)'
      BY <2>1, <2>2 DEF Arrives
    <3>2. s \in LiveSlots'
      BY <3>1, SlotsOnLiveNext
    <3> QED
      BY <3>2, RequestInvStep DEF RequestInv, Typed, SlotFilled
  <2>3. CASE s # r
    <3>1. srvBuf'[s] = srvBuf[s]
      BY <2>1, <2>3 DEF Arrives
    <3>2. s \notin srq
      <4>1. PICK x \in srq : /\ srq' = srq \ {x}
                             /\ srvBuf' = [srvBuf EXCEPT ![x] =
                                   [id |-> reqHdr[Head(sendQ[d])], mr |-> Head(sendQ[d]),
                                    val |-> reqBuf[Head(sendQ[d])]]]
                             /\ scq' = Append(scq, [op |-> "recv", conn |-> d, slot |-> x,
                                                    imm |-> Head(sendQ[d])])
        BY <1>1 DEF DeliverReq
      <4>2. x = r
        <5>1. scq \in Seq(ServerCqe) /\ scq' = Append(scq, e) /\ e.slot = r
          BY <2>1 DEF Arrives, RequestInv, Typed, TypeOK
        <5> DEFINE y == [op |-> "recv", conn |-> d, slot |-> x, imm |-> Head(sendQ[d])]
        <5>2. y \in ServerCqe
          <6>1. Head(sendQ[d]) \in Mrs /\ x \in Slots
            BY <2>1 DEF Arrives, RequestInv, Typed, TypeOK
          <6> QED
            BY <6>1 DEF ServerCqe
        <5>3. y.slot = x /\ scq' = Append(scq, y)
          BY <4>1
        <5> HIDE DEF y
        <5>4. Append(scq, e)[Len(scq) + 1] = e /\ Append(scq, y)[Len(scq) + 1] = y
          BY <5>1, <5>2, AppendProperties
        <5> QED
          BY <5>1, <5>3, <5>4
      <4> QED
        BY <2>3, <4>1, <4>2
    <3> QED
      BY <3>1, <3>2 DEF SlotsUsed
  <2> QED
    BY <2>2, <2>3
<1>2. ASSUME \A d \in Conns : ~ DeliverReq(d) PROVE srvBuf'[s] # None
  <2>1. UNCHANGED srvBuf
    BY <1>2, LiveShrinks
  <2>2. srq \subseteq srq'
    BY <1>2 DEF Next, ClientStep, SendReq, PostRecv, PostSend, SendFail, ClientPoll,
       OnSendReq, OnRecvResp, MempoolPut, WireStep, RnrNak, AckReq, DeliverResp, AckWrite,
       ServerStep, ServerPoll, OnRecvReq, OnWriteRespDone, MakeResp, vars
  <2> QED
    BY <2>1, <2>2 DEF SlotsUsed
<1> QED
  BY <1>1, <1>2

SizingInv ==
  /\ PoolInv /\ RecvInv /\ RecvExact /\ WriteInv /\ SendInv /\ SlotsUsed

LEMMA SizingInit == Init => SizingInv
<1>1. Init => SlotsUsed
  BY DEF Init, SlotsUsed
<1> QED
  BY <1>1, PoolInit, RecvInit, RecvExactInit, WriteInit, SendInit DEF SizingInv

LEMMA SizingStep == AckInOrder /\ SizingInv /\ [Next]_vars => SizingInv'
BY PoolStep, RecvStep, RecvExactStep, WriteStep, SendStep, SlotsUsedStep
   DEF SizingInv, WriteInv

(* The pairs other than m are one fewer.                                   *)
LEMMA OtherPairs ==
  ASSUME Sized, NEW m \in Mrs
  PROVE  /\ IsFiniteSet(Mrs \ {m}) /\ Cardinality(Mrs \ {m}) \in Nat
         /\ Cardinality(Mrs \ {m}) < MaxQ
         /\ Cardinality(Mrs) \in Nat /\ Cardinality(Mrs \ {m}) = Cardinality(Mrs) - 1
<1>1. /\ IsFiniteSet(Mrs \ {m}) /\ Cardinality(Mrs \ {m}) \in Nat
      /\ Cardinality(Mrs) \in Nat /\ Cardinality(Mrs \ {m}) = Cardinality(Mrs) - 1
  BY FS_RemoveElement, FS_CardinalityType DEF Sized
<1>2. MaxQ \in Nat /\ Cardinality(Mrs) <= MaxQ
  BY SizeAssumption DEF Sized
<1> QED
  BY <1>1, <1>2

(* The completions of responses that the client has not polled are for     *)
(* distinct pairs.                                                         *)
RecvsAt(c) == {i \in DOMAIN ccq : ccq[i].op = "recv" /\ ccq[i].conn = c}
RecvPair   == [i \in DOMAIN ccq |-> Answers[ccq[i]]]

LEMMA RecvPairs ==
  ASSUME RequestInv, NEW c \in Conns, NEW m, m \notin MrsAt(Ccq_)
  PROVE  /\ OwnIn(RecvsAt(c), [i \in RecvsAt(c) |-> RecvPair[i]], Mrs \ {m})
         /\ ImageOf(RecvsAt(c), [i \in RecvsAt(c) |-> RecvPair[i]]) \subseteq MrsAt(Ccq_)
<1> DEFINE f == [i \in RecvsAt(c) |-> RecvPair[i]]
<1>1. KeyedOnce(ccq, Answers)
  BY DEF RequestInv, RequestsSited, RequestQueuedOnce
<1>2. ASSUME NEW i \in RecvsAt(c)
      PROVE  /\ i \in DOMAIN ccq /\ f[i] = Answers[ccq[i]]
             /\ f[i] \in Mrs /\ f[i] # None /\ f[i] \in MrsAt(Ccq_)
  <2>1. i \in DOMAIN ccq /\ ccq[i].op = "recv" /\ f[i] = Answers[ccq[i]]
    BY DEF RecvsAt, RecvPair
  <2>2. ccq[i] \in ClientCqe
    BY <2>1, ClientCqes DEF RequestInv, Typed
  <2>3. ccq[i] \in RecvCqes(ccq)
    BY <2>1 DEF RecvCqes
  <2>4. Answered(ccq[i])
    BY <2>3 DEF RequestInv, RequestHolds, AnswerHolds
  <2>5. f[i] \in Mrs
    BY <2>1, <2>2, <2>4 DEF Answered, Answers
  <2>6. f[i] # None
    BY <2>5, NoneAssumption
  <2>7. f[i] \in Keys(ccq, Answers)
    BY <2>1, <2>6 DEF Keys
  <2> QED
    BY <2>1, <2>5, <2>6, <2>7, MrsAtSites
<1>3. f \in [RecvsAt(c) -> Mrs \ {m}]
  BY <1>2
<1>4. ASSUME NEW x \in RecvsAt(c), NEW y \in RecvsAt(c), f[x] = f[y] PROVE x = y
  BY <1>1, <1>2, <1>4 DEF KeyedOnce
<1> HIDE DEF f
<1>5. OwnIn(RecvsAt(c), f, Mrs \ {m})
  BY <1>3, <1>4 DEF OwnIn
<1>6. ImageOf(RecvsAt(c), f) \subseteq MrsAt(Ccq_)
  BY <1>2 DEF ImageOf
<1> QED
  BY <1>5, <1>6 DEF f

LEMMA AwaitingTyped ==
  ASSUME RequestInv, NEW c \in Conns
  PROVE  Awaiting(c) \subseteq Mrs
<1>1. /\ call \in [CThreads -> Call \cup {None}] /\ sendQ[c] \in Seq(Mrs)
      /\ srvBuf \in [Slots -> Message \cup {None}]
  BY DEF RequestInv, Typed, TypeOK
<1>2. \A t \in CThreads : \A m : InSend(t, c, m) => m \in Mrs
  BY <1>1 DEF InSend, Call
<1>3. Entries(sendQ[c]) \subseteq Mrs
  BY <1>1, EntriesTypes
<1>4. \A s \in SlotsOn(c) : s \in Slots /\ srvBuf[s].mr \in Mrs
  BY <1>1, SlotsOnLive, LiveAreSlots DEF RequestInv, Typed, SlotFilled, Message
<1> QED
  BY <1>2, <1>3, <1>4, AwaitingAre

(* A call finds an entry for its receive ...                               *)
LEMMA RecvRoom ==
  ASSUME Sized, SizingInv, fault = "none", NEW t \in CThreads, call[t] # None,
         call[t].pc = "post_recv", NEW c \in Conns
  PROVE  RecvUsed(c) < MaxQ
<1>1. RequestInv /\ RecvPerRequest /\ RecvExact
  BY DEF SizingInv, RecvInv
<1>2. PICK m : m = call[t].mr
  OBVIOUS
<1>3. m \in Mrs /\ m \notin MrsAt(Ccq_) /\ m \notin Awaiting(c)
  BY <1>1, <1>2, CallApart, CallAwaitsNone
<1> DEFINE K == Mrs \ {m}
           I == Awaiting(c)
           f == [n \in I |-> n]
           J == RecvsAt(c)
           g == [i \in J |-> RecvPair[i]]
<1>4. IsFiniteSet(K) /\ Cardinality(K) < MaxQ /\ Cardinality(K) \in Nat
  BY <1>3, OtherPairs
<1>5. OwnIn(I, f, K) /\ ImageOf(I, f) = I
  <2>1. I \subseteq K
    BY <1>1, <1>3, AwaitingTyped
  <2> QED
    BY <2>1 DEF OwnIn, ImageOf
<1>6. OwnIn(J, g, K) /\ ImageOf(J, g) \subseteq MrsAt(Ccq_)
  BY <1>1, <1>3, RecvPairs
<1>7. I \cap MrsAt(Ccq_) = {}
  BY <1>1, SitedAwaits DEF RequestInv, AnsweredAwaitNone
<1>8. OwnIn({}, <<>>, K) /\ ImageOf({}, <<>>) = {}
  BY DEF OwnIn, ImageOf
<1>9. CqeCount(ccq, "recv", c) = Cardinality(J)
  BY DEF CqeCount, RecvsAt
<1>10. rqPosted[c] <= Cardinality(I) /\ rqPosted[c] \in Nat
  BY <1>1 DEF RecvExact, RequestInv, Typed, TypeOK
<1> HIDE DEF I, J, f, g, K
<1>11. /\ Cardinality(I) \in Nat /\ Cardinality(J) \in Nat /\ Cardinality({}) \in Nat
       /\ Cardinality(I) + Cardinality(J) + Cardinality({}) <= Cardinality(K)
  <2>1. /\ ImageOf(I, f) \cap ImageOf(J, g) = {}
        /\ ImageOf(I, f) \cap ImageOf({}, <<>>) = {}
        /\ ImageOf(J, g) \cap ImageOf({}, <<>>) = {}
    BY <1>5, <1>6, <1>7, <1>8
  <2> QED
    BY <1>4, <1>5, <1>6, <1>8, <2>1, ThreeCount
<1>12. rqPosted[c] + Cardinality(J) < MaxQ
  <2>1. PICK i \in Nat, j \in Nat, k \in Nat, r \in Nat, b \in Nat :
          /\ i = Cardinality(I) /\ j = Cardinality(J) /\ k = Cardinality(K)
          /\ r = rqPosted[c] /\ b = MaxQ
    BY <1>4, <1>10, <1>11, SizeAssumption
  <2>2. i + j <= k /\ k < b /\ r <= i
    BY <1>4, <1>10, <1>11, <1>8, <2>1, FS_EmptySet
  <2>3. r + j < b
    BY <2>2
  <2> QED
    BY <2>1, <2>3
<1> QED
  BY <1>9, <1>12 DEF RecvUsed

(* ... and for its request.                                                *)
LEMMA SendRoom ==
  ASSUME Sized, SizingInv, NEW t \in CThreads, call[t] # None, NEW c \in Conns
  PROVE  SendUsed(c) < MaxQ
<1>1. /\ RequestInv /\ TypeOK /\ sendQ[c] \in Seq(Mrs) /\ sendAck[c] \in Nat
      /\ ccq \in Seq(ClientCqe)
      /\ srvBuf \in [Slots -> Message \cup {None}]
  BY DEF SizingInv, RecvInv, RequestInv, Typed, TypeOK
<1>2. PICK m : m = call[t].mr
  OBVIOUS
<1>3. /\ m \in Mrs /\ m \notin MrsAt(Ccq_) /\ m \notin Entries(sendQ[c])
      /\ \A s \in LiveSlots : srvBuf[s].mr # m
  BY <1>1, <1>2, CallApart
<1> DEFINE K == Mrs \ {m}
           I == DOMAIN sendQ[c]
           f == [i \in I |-> sendQ[c][i]]
           J == RecvsAt(c)
           g == [i \in J |-> RecvPair[i]]
           L == SlotsOn(c)
           h == [s \in L |-> srvBuf[s].mr]
<1>4. IsFiniteSet(K) /\ Cardinality(K) < MaxQ /\ Cardinality(K) \in Nat
  BY <1>3, OtherPairs
<1>5. OwnIn(I, f, K) /\ ImageOf(I, f) = Entries(sendQ[c])
  <2>1. Entries(sendQ[c]) \subseteq K
    BY <1>1, <1>3, EntriesTypes
  <2>2. \A i \in I : f[i] = sendQ[c][i] /\ sendQ[c][i] \in K
    BY <2>1 DEF Entries
  <2>3. \A i \in I : Itself[sendQ[c][i]] = sendQ[c][i] /\ sendQ[c][i] # None
    BY <2>2, NoneIsNew DEF Itself
  <2>4. KeyedOnce(sendQ[c], Itself)
    BY <1>1 DEF RequestInv, RequestsSited, RequestQueuedOnce
  <2>5. \A x, y \in I : f[x] = f[y] => x = y
    BY <2>2, <2>3, <2>4 DEF KeyedOnce
  <2>6. f \in [I -> K]
    BY <2>2
  <2> QED
    BY <2>5, <2>6 DEF OwnIn, ImageOf, Entries
<1>6. OwnIn(J, g, K) /\ ImageOf(J, g) \subseteq MrsAt(Ccq_)
  BY <1>1, <1>3, RecvPairs
<1>7. OwnIn(L, h, K)
  <2>1. \A s \in L : s \in LiveSlots /\ s \in Slots
    BY <1>1, SlotsOnLive, LiveAreSlots
  <2>2. \A s \in L : h[s] = srvBuf[s].mr /\ h[s] \in K
    BY <1>1, <1>3, <2>1 DEF RequestInv, Typed, SlotFilled, Message
  <2>3. \A x, y \in L : h[x] = h[y] => x = y
    BY <1>1, <2>1, <2>2, LivePairs
  <2>4. h \in [L -> K]
    BY <2>2
  <2> QED
    BY <2>3, <2>4 DEF OwnIn
<1>8. /\ \A n \in Entries(sendQ[c]) : n \in Awaiting(c)
      /\ \A n \in ImageOf(L, h) : n \in Awaiting(c)
  BY AwaitingAre DEF ImageOf
<1>9. Awaiting(c) \cap MrsAt(Ccq_) = {}
  BY <1>1, SitedAwaits DEF RequestInv, AnsweredAwaitNone
<1>10. Entries(sendQ[c]) \cap ImageOf(L, h) = {}
  <2>1. ASSUME NEW s \in L, srvBuf[s].mr \in Entries(sendQ[c]) PROVE FALSE
    <3>1. s \in LiveSlots /\ s \in Slots
      BY <1>1, SlotsOnLive, LiveAreSlots
    <3>2. srvBuf[s].mr \in Mrs /\ srvBuf[s].mr \in MrsAt(Slot_(s))
      BY <1>1, <3>1, MrsAtSites DEF RequestInv, Typed, SlotFilled, Message
    <3>3. srvBuf[s].mr \notin MrsAt(SendQ_(c))
      BY <1>1, <3>1, <3>2, SitesAre, SitesDiffer, SiteElsewhere DEF RequestInv, RequestsSited
    <3>4. Itself[srvBuf[s].mr] = srvBuf[s].mr /\ srvBuf[s].mr # None
      BY <3>2, NoneIsNew DEF Itself
    <3> QED
      BY <2>1, <3>3, <3>4, MrsAtSites DEF Keys, Entries
  <2> QED
    BY <2>1 DEF ImageOf
<1>11. Cardinality(I) = Len(sendQ[c]) /\ Len(sendQ[c]) \in Nat
  BY <1>1, PlacesCount
<1>12. CqeCount(ccq, "recv", c) = Cardinality(J)
  BY DEF CqeCount, RecvsAt
<1>13. PICK x \in Nat : x = CqeCount(ccq, "send", c)
  BY <1>1, CountTypes, CountIsAfter
<1>14. x + sendAck[c] <= Cardinality(J) + Cardinality(L)
  <2>1. SendHeld(ccq, sendAck[c], L, c)
    BY DEF SizingInv, SendInv
  <2>2. 0 \in 0..Len(ccq)
    BY <1>1, LenProperties
  <2>3. CountAfter(ccq, "send", c, 0) + sendAck[c]
          <= CountAfter(ccq, "recv", c, 0) + Cardinality(L)
    BY <2>1, <2>2 DEF SendHeld
  <2>4. CountAfter(ccq, "send", c, 0) = x /\ CountAfter(ccq, "recv", c, 0) = Cardinality(J)
    BY <1>1, <1>12, <1>13, CountIsAfter
  <2> QED
    BY <2>3, <2>4
<1> HIDE DEF I, J, L, f, g, h, K
<1>15. /\ Cardinality(I) \in Nat /\ Cardinality(J) \in Nat /\ Cardinality(L) \in Nat
       /\ Cardinality(I) + Cardinality(J) + Cardinality(L) <= Cardinality(K)
  <2>1. /\ ImageOf(I, f) \cap ImageOf(J, g) = {}
        /\ ImageOf(I, f) \cap ImageOf(L, h) = {}
        /\ ImageOf(J, g) \cap ImageOf(L, h) = {}
    BY <1>5, <1>6, <1>8, <1>9, <1>10
  <2> QED
    BY <1>4, <1>5, <1>6, <1>7, <2>1, ThreeCount
<1>16. Len(sendQ[c]) + sendAck[c] + x < MaxQ
  <2>1. PICK i \in Nat, j \in Nat, l \in Nat, k \in Nat :
          /\ i = Cardinality(I) /\ j = Cardinality(J)
          /\ l = Cardinality(L) /\ k = Cardinality(K)
    BY <1>4, <1>15
  <2>2. PICK a \in Nat, b \in Nat : a = sendAck[c] /\ b = MaxQ
    BY <1>1, SizeAssumption
  <2>3. i + j + l <= k /\ k < b /\ x + a <= j + l
    BY <1>4, <1>14, <1>15, <2>1, <2>2
  <2>4. i + a + x < b
    BY <2>3
  <2> QED
    BY <1>11, <2>1, <2>2, <2>4
<1> QED
  BY <1>13, <1>16 DEF SendUsed

(* A response finds an entry in the server's send queue.                   *)
WritesAt(c) == {i \in DOMAIN scq : scq[i].op = "write" /\ scq[i].conn = c}

LEMMA WrittenAt ==
  ASSUME TypeOK, NEW c \in Conns, NEW i \in WritesAt(c)
  PROVE  \E j \in DOMAIN Line : WriteIn(Line, j, c, scq[i].slot)
<1>1. scq[i] \in Entries(scq) /\ scq[i].op = "write" /\ scq[i].conn = c
  BY DEF WritesAt, Entries
<1>2. scq[i] \in Entries(Line)
  BY <1>1, LineHas
<1>3. PICK j \in DOMAIN Line : Line[j] = scq[i]
  BY <1>2 DEF Entries
<1> QED
  BY <1>1, <1>3 DEF WriteIn

(* A slot whose response is written holds a pair that no slot of the       *)
(* connection has, but for one whose request is to be processed later.     *)
LEMMA WrittenApart ==
  ASSUME WriteInv, NEW c \in Conns, NEW r, WrittenOn(c, r), NEW s \in SlotsOn(c),
         s \in handling \/ s \in SlotsOf(writeQ[c])
  PROVE  srvBuf[r].mr # srvBuf[s].mr
<1>1. TypeOK /\ SlotConserved /\ AcksApart(c) /\ WriteFirst(c)
  BY DEF WriteInv, WritesOrdered, RequestInv, Typed
<1>2. r \in Slots
  BY <1>1, WrittenElsewhere
<1>3. CASE r \in SlotsOf(writeAck[c])
  BY <1>1, <1>3 DEF AcksApart
<1>4. ASSUME NEW i \in DOMAIN Line, WriteIn(Line, i, c, r), srvBuf[r].mr = srvBuf[s].mr
      PROVE  FALSE
  <2>1. PICK j \in DOMAIN Line : RecvIn(Line, j, s)
    BY <1>1, <1>2, <1>4 DEF WriteFirst
  <2>2. s \notin handling /\ s \notin SlotsOf(writeQ[c])
    BY <1>1, <2>1, LineElsewhere DEF RecvIn
  <2> QED
    BY <2>2
<1> QED
  BY <1>3, <1>4 DEF WrittenOn

LEMMA WriteRoom ==
  ASSUME Sized, SizingInv, NEW s \in handling, NEW c \in Conns, reqCtx[s].conn = c
  PROVE  WriteUsed(c) < MaxQ
<1>1. /\ WriteInv /\ RequestInv /\ TypeOK /\ SlotConserved /\ SlotsUsed
      /\ writeQ[c] \in Seq(Write) /\ writeAck[c] \in Seq(Write) /\ scq \in Seq(ServerCqe)
      /\ srvBuf \in [Slots -> Message \cup {None}] /\ s \in Slots
  BY DEF SizingInv, WriteInv, RequestInv, Typed, TypeOK
<1>2. PICK m : m = srvBuf[s].mr
  OBVIOUS
<1>3. s \in SlotsOn(c) /\ s \in LiveSlots
  BY SlotsOnAre, SlotsOnLive
<1>4. m \in Mrs
  BY <1>1, <1>2, <1>3 DEF RequestInv, Typed, SlotFilled, Message
<1> DEFINE K == Mrs \ {m}
           I == DOMAIN writeQ[c]
           f == [i \in I |-> srvBuf[writeQ[c][i].slot].mr]
           J == DOMAIN writeAck[c]
           g == [i \in J |-> srvBuf[writeAck[c][i].slot].mr]
           L == WritesAt(c)
           h == [i \in L |-> srvBuf[scq[i].slot].mr]
<1>5. IsFiniteSet(K) /\ Cardinality(K) < MaxQ /\ Cardinality(K) \in Nat
  BY <1>4, OtherPairs
<1>6. \A i \in I : /\ f[i] = srvBuf[writeQ[c][i].slot].mr
                   /\ writeQ[c][i].slot \in SlotsOf(writeQ[c])
                   /\ writeQ[c][i].slot \in SlotsOn(c)
                   /\ writeQ[c][i].slot \in LiveSlots
                   /\ writeQ[c][i].slot \in Slots /\ writeQ[c][i].slot # s
  <2>1. ASSUME NEW r \in SlotsOf(writeQ[c])
        PROVE  r \in SlotsOn(c) /\ r \in LiveSlots /\ r \in Slots /\ r # s
    <3>1. r \in SlotsOn(c)
      BY DEF SlotsOn
    <3>2. r \in LiveSlots /\ r \in Slots
      BY <1>1, <3>1, SlotsOnLive, LiveAreSlots
    <3>3. WriteQ(c) \in Places /\ Handling \in Places /\ WriteQ(c) # Handling
      BY DEF Places, Handling, WriteQ
    <3>4. r \notin handling
      BY <1>1, <3>2, <3>3, Elsewhere, SlotsAtPlaces DEF SlotConserved
    <3> QED
      BY <3>1, <3>2, <3>4
  <2> QED
    BY <2>1 DEF SlotsOf
<1>7. \A i \in J : /\ g[i] = srvBuf[writeAck[c][i].slot].mr
                   /\ WrittenOn(c, writeAck[c][i].slot)
                   /\ writeAck[c][i].slot \in SlotsOf(writeAck[c])
  BY DEF WrittenOn, SlotsOf
<1>8. \A i \in L : /\ h[i] = srvBuf[scq[i].slot].mr
                   /\ WrittenOn(c, scq[i].slot)
                   /\ \A d \in Conns : scq[i].slot \notin SlotsOf(writeAck[d])
  <2>1. ASSUME NEW i \in L
        PROVE  /\ WrittenOn(c, scq[i].slot)
               /\ \A d \in Conns : scq[i].slot \notin SlotsOf(writeAck[d])
    <3>1. PICK j \in DOMAIN Line : WriteIn(Line, j, c, scq[i].slot)
      BY <1>1, <2>1, WrittenAt
    <3> QED
      BY <1>1, <3>1, LineElsewhere DEF WrittenOn, WriteIn
  <2> QED
    BY <2>1
<1>9. ASSUME NEW r, WrittenOn(c, r)
      PROVE  r \in Slots /\ srvBuf[r].mr \in K
  <2>1. r \in Slots /\ r \notin srq
    BY <1>1, <1>9, WrittenElsewhere
  <2>2. srvBuf[r].mr \in Mrs
    BY <1>1, <2>1 DEF SlotsUsed, Message
  <2>3. srvBuf[r].mr # m
    BY <1>1, <1>2, <1>3, <1>9, WrittenApart
  <2> QED
    BY <2>1, <2>2, <2>3
<1>10. OwnIn(I, f, K)
  <2>1. \A i \in I : f[i] \in K
    <3>1. ASSUME NEW r \in LiveSlots, r # s, r \in Slots PROVE srvBuf[r].mr \in K
      <4>1. srvBuf[r].mr \in Mrs
        BY <1>1, <3>1 DEF RequestInv, Typed, SlotFilled, Message
      <4>2. srvBuf[r].mr # m
        BY <1>1, <1>2, <1>3, <3>1, LivePairs
      <4> QED
        BY <4>1, <4>2
    <3> QED
      BY <1>6, <3>1
  <2>2. OncePerSlot(writeQ[c])
    BY <1>1 DEF SlotConserved, SlotQueuedOnce
  <2>3. ASSUME NEW x \in I, NEW y \in I, f[x] = f[y] PROVE x = y
    <3>1. writeQ[c][x].slot = writeQ[c][y].slot
      BY <1>1, <1>6, <2>3, LivePairs
    <3> QED
      BY <2>2, <3>1 DEF OncePerSlot
  <2>4. f \in [I -> K]
    BY <2>1
  <2> QED
    BY <2>3, <2>4 DEF OwnIn
<1>11. \A r, q \in Slots : WrittenOn(c, r) /\ WrittenOn(c, q) /\ srvBuf[r].mr = srvBuf[q].mr
         => r = q
  BY <1>1 DEF WriteInv, WritesOrdered, WritesApart
<1>12. OwnIn(J, g, K)
  <2>1. \A i \in J : g[i] \in K
    BY <1>7, <1>9
  <2>2. OncePerSlot(writeAck[c])
    BY <1>1 DEF SlotConserved, SlotQueuedOnce
  <2>3. ASSUME NEW x \in J, NEW y \in J, g[x] = g[y] PROVE x = y
    <3>1. writeAck[c][x].slot = writeAck[c][y].slot
      BY <1>7, <1>9, <1>11, <2>3
    <3> QED
      BY <2>2, <3>1 DEF OncePerSlot
  <2>4. g \in [J -> K]
    BY <2>1
  <2> QED
    BY <2>3, <2>4 DEF OwnIn
<1>13. OwnIn(L, h, K)
  <2>1. \A i \in L : h[i] \in K
    BY <1>8, <1>9
  <2>2. OncePerSlot(scq) /\ L \subseteq DOMAIN scq
    BY <1>1 DEF SlotConserved, SlotQueuedOnce, WritesAt
  <2>3. ASSUME NEW x \in L, NEW y \in L, h[x] = h[y] PROVE x = y
    <3>1. scq[x].slot = scq[y].slot
      BY <1>8, <1>9, <1>11, <2>3
    <3> QED
      BY <2>2, <3>1 DEF OncePerSlot
  <2>4. h \in [L -> K]
    BY <2>1
  <2> QED
    BY <2>3, <2>4 DEF OwnIn
<1>14. ASSUME NEW i \in I, NEW r, WrittenOn(c, r) PROVE f[i] # srvBuf[r].mr
  <2>1. PICK q \in SlotsOn(c) : q = writeQ[c][i].slot /\ q \in SlotsOf(writeQ[c])
    BY <1>6
  <2>2. f[i] = srvBuf[q].mr
    BY <1>6, <2>1
  <2>3. srvBuf[r].mr # srvBuf[q].mr
    BY <1>1, <1>14, <2>1, WrittenApart
  <2> QED
    BY <2>2, <2>3
<1>15. \A i \in I : \A j \in J : f[i] # g[j]
  <2>1. ASSUME NEW i \in I, NEW j \in J PROVE f[i] # g[j]
    <3>1. PICK r : r = writeAck[c][j].slot
      OBVIOUS
    <3>2. WrittenOn(c, r) /\ g[j] = srvBuf[r].mr
      BY <1>7, <2>1, <3>1
    <3> QED
      BY <1>14, <2>1, <3>2
  <2> QED
    BY <2>1
<1>16. \A i \in I : \A j \in L : f[i] # h[j]
  BY <1>8, <1>14
<1>17. \A i \in J : \A j \in L : g[i] # h[j]
  <2>1. ASSUME NEW i \in J, NEW j \in L, g[i] = h[j] PROVE FALSE
    <3>1. writeAck[c][i].slot = scq[j].slot
      BY <1>7, <1>8, <1>9, <1>11, <2>1
    <3> QED
      BY <1>7, <1>8, <3>1
  <2> QED
    BY <2>1
<1>18. /\ Cardinality(I) = Len(writeQ[c]) /\ Cardinality(J) = Len(writeAck[c])
  BY <1>1, PlacesCount
<1>19. CqeCount(scq, "write", c) = Cardinality(L)
  BY DEF CqeCount, WritesAt
<1> HIDE DEF I, J, L, f, g, h, K
<1>20. /\ Cardinality(I) \in Nat /\ Cardinality(J) \in Nat /\ Cardinality(L) \in Nat
       /\ Cardinality(I) + Cardinality(J) + Cardinality(L) <= Cardinality(K)
  <2>1. /\ ImageOf(I, f) \cap ImageOf(J, g) = {}
        /\ ImageOf(I, f) \cap ImageOf(L, h) = {}
        /\ ImageOf(J, g) \cap ImageOf(L, h) = {}
    BY <1>15, <1>16, <1>17 DEF ImageOf
  <2> QED
    BY <1>5, <1>10, <1>12, <1>13, <2>1, ThreeCount
<1>21. Cardinality(I) + Cardinality(J) + Cardinality(L) < MaxQ
  BY <1>5, <1>20, SizeAssumption
<1> QED
  BY <1>18, <1>19, <1>21 DEF WriteUsed

(* A call finds an element in the pool: one that is not there belongs to   *)
(* another outstanding request or to a callback.                           *)
LEMMA PoolRoom ==
  ASSUME Sized, SizingInv, fault = "none", NEW c \in Conns, NEW m \in Mrs \ busy
  PROVE  mp[c] # {}
<1> SUFFICES ASSUME mp[c] = {} PROVE FALSE
  OBVIOUS
<1>1. PoolKept /\ TypeOK
  BY PoolNoLeakIs DEF SizingInv, PoolInv, RequestInv, Typed
<1> DEFINE I == {i \in Ids : ctx[c][i] \in busy /\ reqHdr[ctx[c][i]] = i}
           J == {i \in Ids : \E t \in CThreads : cbk[t] = [conn |-> c, id |-> i]}
           K == Mrs \ {m}
           f == [i \in I |-> ctx[c][i]]
           g == [i \in J |-> CHOOSE t \in CThreads : cbk[t] = [conn |-> c, id |-> i]]
<1>2. Ids \subseteq I \cup J
  BY <1>1 DEF PoolKept, Kept
<1>3. /\ IsFiniteSet(K) /\ Cardinality(K) \in Nat /\ Cardinality(K) = Cardinality(Mrs) - 1
      /\ Cardinality(Mrs) \in Nat
  BY OtherPairs
<1>4. OwnIn(I, f, K)
  <2>1. \A i \in I : f[i] = ctx[c][i] /\ f[i] \in K /\ reqHdr[f[i]] = i
    BY <1>1 DEF TypeOK
  <2>2. f \in [I -> K]
    BY <2>1
  <2>3. \A x, y \in I : f[x] = f[y] => x = y
    BY <2>1
  <2> QED
    BY <2>2, <2>3 DEF OwnIn
<1>5. OwnIn(J, g, CThreads)
  <2>1. \A i \in J : g[i] \in CThreads /\ cbk[g[i]] = [conn |-> c, id |-> i]
    OBVIOUS
  <2>2. g \in [J -> CThreads]
    BY <2>1
  <2>3. ASSUME NEW x \in J, NEW y \in J, g[x] = g[y] PROVE x = y
    <3>1. [conn |-> c, id |-> x] = [conn |-> c, id |-> y]
      BY <2>1, <2>3
    <3>2. [conn |-> c, id |-> x].id = [conn |-> c, id |-> y].id
      BY <3>1
    <3> QED
      BY <3>2
  <2> QED
    BY <2>2, <2>3 DEF OwnIn
<1> HIDE DEF I, J, K, f, g
<1>6. /\ IsFiniteSet(I) /\ Cardinality(I) \in Nat /\ Cardinality(I) <= Cardinality(K)
      /\ IsFiniteSet(J) /\ Cardinality(J) \in Nat /\ Cardinality(J) <= Cardinality(CThreads)
      /\ Cardinality(CThreads) \in Nat
  BY <1>3, <1>4, <1>5, OwnCount DEF Sized
<1>7. /\ IsFiniteSet(I \cup J)
      /\ Cardinality(I \cup J) = Cardinality(I) + Cardinality(J) - Cardinality(I \cap J)
      /\ Cardinality(I \cap J) \in Nat
  <2>1. IsFiniteSet(I \cap J)
    BY <1>6, FS_Intersection
  <2> QED
    BY <1>6, <2>1, FS_Union, FS_CardinalityType
<1>8. Cardinality(Ids) <= Cardinality(I \cup J) /\ Cardinality(Ids) \in Nat
  BY <1>2, <1>7, FS_Subset, FS_CardinalityType DEF Sized
<1>9. Cardinality(Mrs) + Cardinality(CThreads) <= Cardinality(Ids)
  BY DEF Sized
<1> QED
  BY <1>3, <1>6, <1>7, <1>8, <1>9

LEMMA NoFaultStep == Sized /\ SizingInv /\ NoFault /\ [Next]_vars => NoFault'
<1> SUFFICES ASSUME Sized, SizingInv, NoFault, [Next]_vars PROVE NoFault'
  OBVIOUS
<1>0. CASE UNCHANGED vars
  BY <1>0 DEF vars, NoFault
<1> SUFFICES ASSUME Next PROVE NoFault'
  BY <1>0
<1>1. RequestInv /\ TypeOK /\ fault = "none"
  BY DEF SizingInv, RecvInv, RequestInv, Typed, Next
<1>2. ASSUME NEW t \in CThreads, NEW c \in Conns, NEW m \in Mrs, NEW v \in Vals,
             SendReq(t, c, m, v)
      PROVE  fault' = "none"
  <2>1. m \notin busy
    BY <1>2 DEF SendReq
  <2>2. mp[c] # {}
    BY <1>1, <2>1, PoolRoom
  <2> QED
    BY <1>1, <1>2, <2>2 DEF SendReq
<1>3. ASSUME NEW t \in CThreads, PostRecv(t) PROVE fault' = "none"
  <2>1. call[t] # None /\ call[t].pc = "post_recv"
    BY <1>3 DEF PostRecv
  <2>2. PICK c \in Conns : c = call[t].conn
    BY <1>1, <2>1 DEF TypeOK, Call
  <2>3. RecvUsed(c) < MaxQ
    BY <1>1, <2>1, RecvRoom
  <2>4. ~ (RecvUsed(c) >= MaxQ)
    <3>1. PICK x \in Nat, y \in Nat : x = rqPosted[c] /\ y = CqeCount(ccq, "recv", c)
      BY <1>1, CountTypes, CountIsAfter DEF TypeOK
    <3> QED
      BY <2>3, <3>1, SizeAssumption DEF RecvUsed
  <2> QED
    BY <1>1, <1>3, <2>2, <2>4 DEF PostRecv
<1>4. ASSUME NEW t \in CThreads, PostSend(t) PROVE fault' = "none"
  <2>1. call[t] # None
    BY <1>4 DEF PostSend
  <2>2. PICK c \in Conns : c = call[t].conn
    BY <1>1, <2>1 DEF TypeOK, Call
  <2>3. SendUsed(c) < MaxQ
    BY <2>1, SendRoom
  <2>4. ~ (SendUsed(c) >= MaxQ)
    <3>1. PICK x \in Nat, y \in Nat, z \in Nat :
            x = Len(sendQ[c]) /\ y = sendAck[c] /\ z = CqeCount(ccq, "send", c)
      BY <1>1, CountTypes, CountIsAfter, LenProperties DEF TypeOK
    <3> QED
      BY <2>3, <3>1, SizeAssumption DEF SendUsed
  <2> QED
    BY <1>1, <1>4, <2>2, <2>4 DEF PostSend
<1>5. ASSUME NEW s \in Slots, MakeResp(s) PROVE fault' = "none"
  <2>1. s \in handling
    BY <1>5 DEF MakeResp
  <2>2. PICK c \in Conns : c = reqCtx[s].conn
    BY <1>1, <2>1 DEF RequestInv, Typed, TypeOK, SlotFilled, ReqCtx
  <2>3. WriteUsed(c) < MaxQ
    BY <2>1, <2>2, WriteRoom
  <2>4. ~ (WriteUsed(c) >= MaxQ)
    <3>1. PICK x \in Nat, y \in Nat, z \in Nat :
            x = Len(writeQ[c]) /\ y = Len(writeAck[c]) /\ z = CqeCount(scq, "write", c)
      <4>1. writeQ[c] \in Seq(Write) /\ writeAck[c] \in Seq(Write) /\ scq \in Seq(ServerCqe)
        BY <1>1 DEF TypeOK
      <4>2. CqeCount(scq, "write", c) \in Nat
        BY <4>1, CountTypes, CountIsAfter
      <4>3. Len(writeQ[c]) \in Nat /\ Len(writeAck[c]) \in Nat
        BY <4>1, LenProperties
      <4> QED
        BY <4>2, <4>3
    <3>2. WriteUsed(c) = x + y + z
      BY <3>1 DEF WriteUsed
    <3>3. \A k \in Nat : k < MaxQ => ~ (k >= MaxQ)
      BY SizeAssumption
    <3>4. x + y + z \in Nat
      OBVIOUS
    <3> QED
      BY <2>3, <3>2, <3>3, <3>4
  <2> QED
    BY <1>1, <1>5, <2>2, <2>4 DEF MakeResp
<1>6. ASSUME NEW t \in CThreads,
             ClientPoll(t) \/ OnSendReq(t) \/ OnRecvResp(t) \/ MempoolPut(t)
      PROVE  fault' = "none"
  BY <1>1, <1>6 DEF ClientPoll, OnSendReq, OnRecvResp, MempoolPut
<1>7. ASSUME NEW c \in Conns, WireStep(c) PROVE fault' \in {"none", "conn_error"}
  BY <1>1, <1>7 DEF WireStep, DeliverReq, RnrNak, AckReq, DeliverResp, AckWrite
<1>8. ASSUME NEW t \in SThreads, ServerStep(t) PROVE fault' = "none"
  BY <1>1, <1>8 DEF ServerStep, ServerPoll, OnRecvReq, OnWriteRespDone
<1> QED
  BY <1>2, <1>3, <1>4, <1>5, <1>6, <1>7, <1>8 DEF Next, ClientStep, NoFault

LEMMA AlwaysSizingInv == ASSUME AckInOrder PROVE Safety => []SizingInv
<1>1. SizingInv /\ [Next]_vars => SizingInv'
  BY SizingStep
<1> QED
  BY <1>1, SizingInit, PTL DEF Safety

(* Provided that an acknowledgement is not overtaken by what its sender    *)
(* posts later (AckInOrder, which the transport does not guarantee), and   *)
(* with an entry of each send and receive queue for every buffer pair of   *)
(* the client, and an element of each pool for every pair and every client *)
(* thread, no process dies up to the first connection that breaks: it is   *)
(* not that kv_mempool_get returns NULL to kv_rdma_send_req, an            *)
(* ibv_post_recv or ibv_post_send of either side fails, kv_free is called  *)
(* on an element, a response finds no receive, or the server exits.        *)
THEOREM NoProcessDies == ASSUME Sized PROVE Safety => []NoFault
<1>1. Init => NoFault
  BY DEF Init, NoFault
<1>2. SizingInv /\ NoFault /\ [Next]_vars => NoFault'
  BY NoFaultStep
<1>3. AckInOrder
  BY DEF Sized
<1> QED
  BY <1>1, <1>2, <1>3, AlwaysSizingInv, PTL DEF Safety

-----------------------------------------------------------------------------
(* Slots: one that is not in the shared receive queue has a request of a   *)
(* pair of its own, or its response is written and it is the only such one *)
(* of its connection and pair, or a poller that is not alone has polled    *)
(* its completion.                                                         *)
BatchRoom == IF OneServer THEN 0 ELSE Cardinality(SThreads) * PollBatch

SlotsSized ==
  /\ AckInOrder
  /\ IsFiniteSet(Mrs) /\ IsFiniteSet(Conns) /\ IsFiniteSet(SThreads) /\ IsFiniteSet(Slots)
  /\ Cardinality(Conns) * Cardinality(Mrs) + Cardinality(Mrs) + BatchRoom
       <= Cardinality(Slots)

(* What a poller has polled fits its array.                                *)
Batched == \A t \in SThreads : Len(swc[t]) <= PollBatch

LEMMA BatchedStep == TypeOK /\ Batched /\ [Next]_vars => Batched'
<1> SUFFICES ASSUME TypeOK, Batched, [Next]_vars, NEW t \in SThreads
             PROVE  Len(swc'[t]) <= PollBatch
  BY DEF Batched
<1>1. /\ scq \in Seq(ServerCqe) /\ swc \in [SThreads -> Seq(ServerCqe)]
      /\ Len(swc[t]) \in Nat /\ Len(swc[t]) <= PollBatch /\ PollBatch \in Nat
  BY SizeAssumption, LenProperties DEF TypeOK, Batched
<1>2. ASSUME NEW u \in SThreads, ServerPoll(u) PROVE Len(swc'[t]) <= PollBatch
  <2>1. swc' = [swc EXCEPT ![u] = Polled(scq)]
    BY <1>2 DEF ServerPoll
  <2>2. Len(Polled(scq)) = PollCount(scq)
    BY <1>1, PollTypes
  <2>3. PollCount(scq) <= PollBatch
    <3>1. Len(scq) \in Nat
      BY <1>1, LenProperties
    <3> QED
      BY <1>1, <3>1 DEF PollCount
  <2>4. CASE t = u
    BY <1>1, <2>1, <2>2, <2>3, <2>4
  <2>5. CASE t # u
    BY <1>1, <2>1, <2>5
  <2> QED
    BY <2>4, <2>5
<1>3. ASSUME NEW u \in SThreads, OnRecvReq(u) \/ OnWriteRespDone(u)
      PROVE  Len(swc'[t]) <= PollBatch
  <2>1. swc' = [swc EXCEPT ![u] = Tail(swc[u])] /\ swc[u] # <<>>
    BY <1>3 DEF OnRecvReq, OnWriteRespDone, AtServerCqe
  <2>2. CASE t = u
    <3>1. swc'[t] = Tail(swc[t]) /\ swc[t] \in Seq(ServerCqe) /\ swc[t] # <<>>
      BY <1>1, <2>1, <2>2
    <3>2. Len(Tail(swc[t])) = Len(swc[t]) - 1
      BY <3>1, HeadTailProperties
    <3> QED
      BY <1>1, <3>1, <3>2
  <2>3. CASE t # u
    BY <1>1, <2>1, <2>3
  <2> QED
    BY <2>2, <2>3
<1>4. ASSUME UNCHANGED swc PROVE Len(swc'[t]) <= PollBatch
  BY <1>1, <1>4
<1>5. ASSUME NEW u \in CThreads, ClientStep(u) PROVE UNCHANGED swc
  BY <1>5 DEF ClientStep, SendReq, PostRecv, PostSend, SendFail, ClientPoll, OnSendReq,
     OnRecvResp, MempoolPut, serverVars
<1>6. ASSUME NEW c \in Conns, WireStep(c) PROVE UNCHANGED swc
  BY <1>6 DEF WireStep, DeliverReq, RnrNak, AckReq, DeliverResp, AckWrite, serverVars
<1>7. ASSUME NEW s \in Slots, MakeResp(s) PROVE UNCHANGED swc
  BY <1>7 DEF MakeResp
<1>8. CASE UNCHANGED vars
  BY <1>4, <1>8 DEF vars, serverVars
<1> QED
  BY <1>2, <1>3, <1>4, <1>5, <1>6, <1>7, <1>8 DEF Next, ServerStep

Written == {s \in Slots : \E d \in Conns : WrittenOn(d, s)}

(* Where a poller's batch names the slot of a response that was written.   *)
BatchedAt(s, p) ==
  p[2] \in DOMAIN swc[p[1]] /\ swc[p[1]][p[2]].slot = s

Late ==
  {s \in Slots : ~ OneServer /\ \E p \in SThreads \X (1..PollBatch) : BatchedAt(s, p)}

LEMMA SlotIsSomewhere ==
  ASSUME WriteInv, Batched, NEW s \in Slots
  PROVE  s \in srq \/ s \in LiveSlots \/ s \in Written \/ s \in Late
<1>1. /\ TypeOK /\ SlotConserved
      /\ scq \in Seq(ServerCqe) /\ swc \in [SThreads -> Seq(ServerCqe)]
  BY DEF WriteInv, RequestInv, Typed, TypeOK
<1>2. ASSUME NEW e \in ServerEntries, e.slot = s, e.op # "recv", e \in Entries(Line)
      PROVE  s \in Written
  <2>1. e \in ServerCqe
    BY <1>1, EntriesTyped
  <2>2. e.op = "write" /\ e.conn \in Conns
    BY <1>2, <2>1 DEF ServerCqe
  <2>3. PICK i \in DOMAIN Line : Line[i] = e
    BY <1>2 DEF Entries
  <2>4. WriteIn(Line, i, e.conn, s)
    BY <1>2, <2>2, <2>3 DEF WriteIn
  <2> QED
    BY <2>2, <2>4 DEF Written, WrittenOn
<1>3. \A e \in ServerEntries : e.op = "recv" /\ e.slot = s => s \in LiveSlots
  BY ReceivedIsLive
<1>4. CASE s \in SlotsOf(scq)
  <2>1. PICK e \in Entries(scq) : e.slot = s
    BY <1>4 DEF SlotsOf, Entries
  <2>2. e \in ServerEntries /\ e \in Entries(Line)
    BY <1>1, <2>1, ServerEntriesAre, LineHas
  <2> QED
    BY <1>2, <1>3, <2>1, <2>2
<1>5. ASSUME NEW t \in SThreads, s \in SlotsOf(swc[t])
      PROVE  s \in LiveSlots \/ s \in Written \/ s \in Late
  <2>1. PICK i \in DOMAIN swc[t] : swc[t][i].slot = s
    BY <1>5 DEF SlotsOf
  <2>2. swc[t][i] \in ServerEntries
    BY <2>1, ServerEntriesAre DEF Entries
  <2>3. CASE OneServer
    <3>1. swc[t][i] \in Entries(Line)
      BY <1>1, <2>2, <2>3, LineHas
    <3> QED
      BY <1>2, <1>3, <2>1, <2>2, <3>1
  <2>4. CASE ~ OneServer
    <3>1. /\ DOMAIN swc[t] = 1..Len(swc[t]) /\ Len(swc[t]) \in Nat
          /\ Len(swc[t]) <= PollBatch /\ PollBatch \in Nat
      BY <1>1, LenProperties, SizeAssumption DEF Batched
    <3>2. i \in 1..PollBatch
      BY <2>1, <3>1
    <3>3. <<t, i>> \in SThreads \X (1..PollBatch) /\ BatchedAt(s, <<t, i>>)
      BY <2>1, <3>2 DEF BatchedAt
    <3> QED
      BY <2>4, <3>3 DEF Late
  <2> QED
    BY <2>3, <2>4
<1>6. PICK p \in Places : s \in SlotsAt(p)
  BY <1>1 DEF SlotConserved, SlotInOnePlace
<1>7. \/ p = Srq \/ p = Handling \/ p = Scq
      \/ \E t \in SThreads : p = Swc(t)
      \/ \E c \in Conns : p = WriteQ(c) \/ p = WriteAck(c)
  BY DEF Places, Srq, Handling, Scq, Swc, WriteQ, WriteAck
<1>8. \/ s \in srq \/ s \in handling \/ s \in SlotsOf(scq)
      \/ \E t \in SThreads : s \in SlotsOf(swc[t])
      \/ \E c \in Conns : s \in SlotsOf(writeQ[c]) \/ s \in SlotsOf(writeAck[c])
  BY <1>6, <1>7, SlotsAtPlaces
<1>9. s \in handling \/ (\E c \in Conns : s \in SlotsOf(writeQ[c])) => s \in LiveSlots
  BY LiveIs
<1>10. (\E c \in Conns : s \in SlotsOf(writeAck[c])) => s \in Written
  BY DEF Written, WrittenOn
<1> QED
  BY <1>4, <1>5, <1>8, <1>9, <1>10

LEMMA LiveCount ==
  ASSUME SlotsSized, RequestInv, NEW c \in Conns, sendQ[c] # <<>>
  PROVE  /\ IsFiniteSet(LiveSlots) /\ Cardinality(LiveSlots) \in Nat
         /\ Cardinality(LiveSlots) < Cardinality(Mrs) /\ Cardinality(Mrs) \in Nat
<1>1. sendQ[c] \in Seq(Mrs) /\ TypeOK
  BY DEF RequestInv, Typed, TypeOK
<1>2. PICK m \in Mrs : m = Head(sendQ[c])
  BY <1>1, HeadTailProperties
<1>3. m \in MrsAt(SendQ_(c))
  <2>1. m \in Entries(sendQ[c])
    BY <1>1, <1>2, EntriesMove
  <2>2. Itself[m] = m /\ m # None
    BY NoneIsNew DEF Itself
  <2> QED
    BY <2>1, <2>2, MrsAtSites DEF Keys, Entries
<1> DEFINE K == Mrs \ {m}
           f == [s \in LiveSlots |-> srvBuf[s].mr]
<1>4. ASSUME NEW s \in LiveSlots PROVE f[s] = srvBuf[s].mr /\ f[s] \in K
  <2>1. s \in Slots
    BY <1>1, LiveAreSlots
  <2>2. srvBuf[s].mr \in Mrs /\ srvBuf[s].mr \in MrsAt(Slot_(s))
    BY <2>1, MrsAtSites DEF RequestInv, Typed, TypeOK, SlotFilled, Message
  <2>3. m \notin MrsAt(Slot_(s))
    BY <1>3, <2>1, SitesAre, SitesDiffer, SiteElsewhere DEF RequestInv, RequestsSited
  <2> QED
    BY <2>2, <2>3
<1>5. OwnIn(LiveSlots, f, K)
  <2>1. f \in [LiveSlots -> K]
    BY <1>4
  <2>2. \A x, y \in LiveSlots : f[x] = f[y] => x = y
    BY <1>4, LivePairs
  <2> QED
    BY <2>1, <2>2 DEF OwnIn
<1> HIDE DEF f
<1>6. /\ IsFiniteSet(K) /\ Cardinality(K) = Cardinality(Mrs) - 1
      /\ Cardinality(Mrs) \in Nat
  BY FS_RemoveElement, FS_CardinalityType DEF SlotsSized
<1> HIDE DEF K
<1>7. /\ IsFiniteSet(LiveSlots) /\ Cardinality(LiveSlots) \in Nat
      /\ Cardinality(LiveSlots) <= Cardinality(K)
  BY <1>5, <1>6, OwnCount
<1> QED
  BY <1>6, <1>7

LEMMA WrittenCount ==
  ASSUME SlotsSized, WriteInv, SlotsUsed
  PROVE  /\ IsFiniteSet(Written) /\ Cardinality(Written) \in Nat
         /\ Cardinality(Written) <= Cardinality(Conns) * Cardinality(Mrs)
         /\ Cardinality(Conns) * Cardinality(Mrs) \in Nat
<1> DEFINE K == Conns \X Mrs
           at(s) == CHOOSE d \in Conns : WrittenOn(d, s)
           f == [s \in Written |-> <<at(s), srvBuf[s].mr>>]
<1>1. TypeOK /\ SlotConserved
  BY DEF WriteInv, RequestInv, Typed
<1>2. ASSUME NEW s \in Written
      PROVE  /\ s \in Slots /\ at(s) \in Conns /\ WrittenOn(at(s), s)
             /\ srvBuf[s].mr \in Mrs
  <2>1. s \in Slots /\ at(s) \in Conns /\ WrittenOn(at(s), s)
    BY <1>2 DEF Written
  <2>2. s \notin srq
    BY <1>1, <2>1, WrittenElsewhere
  <2>3. srvBuf[s].mr \in Mrs
    BY <1>1, <2>1, <2>2 DEF SlotsUsed, TypeOK, Message
  <2> QED
    BY <2>1, <2>3
<1> HIDE DEF at
<1>3. OwnIn(Written, f, K)
  <2>1. f \in [Written -> K]
    BY <1>2
  <2>2. ASSUME NEW x \in Written, NEW y \in Written, f[x] = f[y] PROVE x = y
    <3>1. at(x) = at(y) /\ srvBuf[x].mr = srvBuf[y].mr
      BY <2>2
    <3>2. PICK d \in Conns : WrittenOn(d, x) /\ WrittenOn(d, y)
      BY <1>2, <3>1
    <3>3. WritesApart(d)
      BY DEF WriteInv, WritesOrdered
    <3> QED
      BY <1>2, <3>1, <3>2, <3>3 DEF WritesApart
  <2> QED
    BY <2>1, <2>2 DEF OwnIn
<1> HIDE DEF f
<1>4. IsFiniteSet(K) /\ Cardinality(K) = Cardinality(Conns) * Cardinality(Mrs)
  BY FS_Product DEF SlotsSized
<1> HIDE DEF K
<1>5. /\ IsFiniteSet(Written) /\ Cardinality(Written) \in Nat
      /\ Cardinality(Written) <= Cardinality(K) /\ Cardinality(K) \in Nat
  BY <1>3, <1>4, OwnCount
<1> QED
  BY <1>4, <1>5

LEMMA LateCount ==
  ASSUME SlotsSized
  PROVE  /\ IsFiniteSet(Late) /\ Cardinality(Late) \in Nat
         /\ BatchRoom \in Nat /\ Cardinality(Late) <= BatchRoom
<1>1. CASE OneServer
  <2>1. Late = {} /\ BatchRoom = 0
    BY <1>1 DEF Late, BatchRoom
  <2> QED
    BY <2>1, FS_EmptySet
<1>2. CASE ~ OneServer
  <2> DEFINE P == 1..PollBatch
             K == SThreads \X P
             f == [s \in Late |-> CHOOSE p \in K : BatchedAt(s, p)]
  <2>1. \A s \in Late : f[s] \in K /\ BatchedAt(s, f[s])
    BY DEF Late
  <2> HIDE DEF f
  <2>2. OwnIn(Late, f, K)
    <3>1. f \in [Late -> K]
      BY <2>1 DEF f
    <3>2. \A x, y \in Late : f[x] = f[y] => x = y
      BY <2>1 DEF BatchedAt
    <3> QED
      BY <3>1, <3>2 DEF OwnIn
  <2>3. IsFiniteSet(P) /\ Cardinality(P) = PollBatch
    <3>1. PICK n \in Nat : n = PollBatch /\ n > 0
      BY SizeAssumption
    <3>2. IsFiniteSet(1..n) /\ Cardinality(1..n) = IF 1 > n THEN 0 ELSE n - 1 + 1
      BY FS_Interval
    <3> QED
      BY <3>1, <3>2
  <2> HIDE DEF P
  <2>4. IsFiniteSet(K) /\ Cardinality(K) = Cardinality(SThreads) * PollBatch
    BY <2>3, FS_Product DEF SlotsSized
  <2> HIDE DEF K
  <2>5. /\ IsFiniteSet(Late) /\ Cardinality(Late) \in Nat
        /\ Cardinality(Late) <= Cardinality(K) /\ Cardinality(K) \in Nat
    BY <2>2, <2>4, OwnCount
  <2> QED
    BY <1>2, <2>4, <2>5 DEF BatchRoom
<1> QED
  BY <1>1, <1>2

(* A request that arrives finds a slot.                                    *)
LEMMA SlotRoom ==
  ASSUME SlotsSized, WriteInv, SlotsUsed, Batched, NEW c \in Conns, sendQ[c] # <<>>
  PROVE  srq # {}
<1> SUFFICES ASSUME srq = {} PROVE FALSE
  OBVIOUS
<1> DEFINE A == LiveSlots
           B == Written
           C == Late
<1>1. Slots \subseteq (A \cup B) \cup C
  BY SlotIsSomewhere
<1>2. /\ IsFiniteSet(A) /\ Cardinality(A) \in Nat /\ Cardinality(A) < Cardinality(Mrs)
      /\ Cardinality(Mrs) \in Nat
  BY LiveCount DEF WriteInv
<1>3. PICK w \in Nat : /\ w = Cardinality(Conns) * Cardinality(Mrs)
                       /\ IsFiniteSet(B) /\ Cardinality(B) \in Nat /\ Cardinality(B) <= w
  BY WrittenCount
<1>4. IsFiniteSet(C) /\ Cardinality(C) \in Nat /\ BatchRoom \in Nat
      /\ Cardinality(C) <= BatchRoom
  BY LateCount
<1>5. IsFiniteSet(Slots) /\ w + Cardinality(Mrs) + BatchRoom <= Cardinality(Slots)
      /\ Cardinality(Slots) \in Nat
  BY <1>3, FS_CardinalityType DEF SlotsSized
<1> HIDE DEF A, B, C
<1> DEFINE D == A \cup B
<1>6. /\ IsFiniteSet(D)
      /\ Cardinality(D) = Cardinality(A) + Cardinality(B) - Cardinality(A \cap B)
      /\ Cardinality(A \cap B) \in Nat /\ Cardinality(D) \in Nat
  <2>1. IsFiniteSet(A \cap B)
    BY <1>2, FS_Intersection
  <2> QED
    BY <1>2, <1>3, <2>1, FS_Union, FS_CardinalityType
<1> HIDE DEF D
<1>7. /\ IsFiniteSet(D \cup C)
      /\ Cardinality(D \cup C) = Cardinality(D) + Cardinality(C) - Cardinality(D \cap C)
      /\ Cardinality(D \cap C) \in Nat /\ Cardinality(D \cup C) \in Nat
  <2>1. IsFiniteSet(D \cap C)
    BY <1>6, FS_Intersection
  <2> QED
    BY <1>4, <1>6, <2>1, FS_Union, FS_CardinalityType
<1>8. Cardinality(Slots) <= Cardinality(D \cup C)
  <2>1. Slots \subseteq D \cup C
    BY <1>1 DEF D
  <2> QED
    BY <1>7, <2>1, FS_Subset
<1>9. Cardinality(D) <= Cardinality(A) + Cardinality(B)
  BY <1>2, <1>3, <1>6
<1>10. Cardinality(D \cup C) <= Cardinality(D) + Cardinality(C)
  BY <1>4, <1>6, <1>7
<1>11. PICK a \in Nat, b \in Nat, x \in Nat, y \in Nat, n \in Nat, k \in Nat, r \in Nat :
         /\ a = Cardinality(A) /\ b = Cardinality(B) /\ x = Cardinality(C)
         /\ y = Cardinality(D) /\ n = Cardinality(Slots) /\ k = Cardinality(Mrs)
         /\ r = BatchRoom
  BY <1>2, <1>3, <1>4, <1>5, <1>6
<1>12. PICK z \in Nat : z = Cardinality(D \cup C)
  BY <1>7
<1>13. /\ n <= z /\ z <= y + x /\ y <= a + b
       /\ a < k /\ b <= w /\ x <= r /\ w + k + r <= n
  BY <1>2, <1>3, <1>4, <1>5, <1>8, <1>9, <1>10, <1>11, <1>12
<1> QED
  BY <1>13

SlotsInv == WriteInv /\ SlotsUsed /\ Batched

LEMMA SlotsInvInit == Init => SlotsInv
<1>1. Init => SlotsUsed
  BY DEF Init, SlotsUsed
<1>2. Init => Batched
  BY SizeAssumption, EmptySeq DEF Init, Batched
<1> QED
  BY <1>1, <1>2, WriteInit DEF SlotsInv

LEMMA SlotsInvStep == AckInOrder /\ SlotsInv /\ [Next]_vars => SlotsInv'
<1>1. SlotsInv => RequestInv /\ TypeOK
  BY DEF SlotsInv, WriteInv, RequestInv, Typed
<1> QED
  BY <1>1, WriteStep, SlotsUsedStep, BatchedStep DEF SlotsInv

LEMMA NoRnrStep == SlotsSized /\ SlotsInv /\ NoRnr /\ [Next]_vars => NoRnr'
<1> SUFFICES ASSUME SlotsSized, SlotsInv, NoRnr, [Next]_vars PROVE NoRnr'
  OBVIOUS
<1>1. ASSUME NEW c \in Conns, RnrNak(c) PROVE FALSE
  BY <1>1, SlotRoom DEF RnrNak, SlotsInv
<1>2. ASSUME NEW t \in CThreads, ClientStep(t) PROVE NoRnr'
  BY <1>2 DEF ClientStep, SendReq, PostRecv, PostSend, SendFail, ClientPoll, OnSendReq,
     OnRecvResp, MempoolPut, NoRnr
<1>3. ASSUME NEW c \in Conns, WireStep(c) PROVE NoRnr'
  BY <1>1, <1>3 DEF WireStep, DeliverReq, AckReq, DeliverResp, AckWrite, NoRnr
<1>4. ASSUME NEW t \in SThreads, ServerStep(t) PROVE NoRnr'
  BY <1>4 DEF ServerStep, ServerPoll, OnRecvReq, OnWriteRespDone, NoRnr
<1>5. ASSUME NEW s \in Slots, MakeResp(s) PROVE NoRnr'
  BY <1>5 DEF MakeResp, NoRnr
<1>6. CASE UNCHANGED vars
  BY <1>6 DEF vars, NoRnr
<1> QED
  BY <1>2, <1>3, <1>4, <1>5, <1>6 DEF Next

(* Provided that acknowledgements are not overtaken (AckInOrder), and with *)
(* a slot for every buffer pair of the client on every connection and as   *)
(* many more as there are pairs, no request finds the shared receive queue *)
(* empty and no connection breaks, for every number of client threads and  *)
(* every depth of the queues.  With several server threads each adds the   *)
(* size of its poll array, as they put slots back late and in any order.   *)
THEOREM NoConnectionBreaks == ASSUME SlotsSized PROVE Safety => []NoRnr
<1>1. Init => NoRnr
  BY DEF Init, NoRnr
<1>2. SlotsInv /\ NoRnr /\ [Next]_vars => NoRnr'
  BY NoRnrStep
<1>3. SlotsInv /\ [Next]_vars => SlotsInv'
  BY SlotsInvStep DEF SlotsSized
<1> QED
  BY <1>1, <1>2, <1>3, SlotsInvInit, PTL DEF Safety

-----------------------------------------------------------------------------
(* Memory regions, for all sizes.                                         *)

(* Multiples of a size keep their distance.                                *)
LEMMA Multiples ==
  ASSUME NEW s \in Nat, NEW i \in Nat, NEW j \in Nat, i < j
  PROVE  i * s + s <= j * s
<1>1. PICK d \in Nat : j = i + 1 + d
  <2>1. j - i - 1 \in Nat /\ j = i + 1 + (j - i - 1)  OBVIOUS
  <2>2. QED  BY <2>1
<1>2. j * s = i * s + s + d * s  BY <1>1
<1>3. d * s \in Nat /\ i * s \in Nat /\ j * s \in Nat  OBVIOUS
<1>4. QED  BY <1>2, <1>3

LEMMA SliceSizeType ==
  ASSUME NEW type \in MrTypes, NEW size \in Nat
  PROVE  SliceSize(type, size) \in Nat /\ size <= SliceSize(type, size)
BY DEF SliceSize, HeaderSize

(* kv_rdma_alloc_bulk: no two slices have a byte in common, and all of     *)
(* them lie in the registered region.                                      *)
THEOREM SlicesDisjoint ==
  ASSUME NEW buf \in Nat, NEW type \in MrTypes, NEW size \in Nat, NEW count \in Nat,
         NEW i \in 0..(count - 1), NEW j \in 0..(count - 1)
  PROVE  /\ Bytes(MrsGet(buf, type, size, i)) \subseteq Bytes(AllocBulk(buf, type, size, count))
         /\ i # j => Bytes(MrsGet(buf, type, size, i))
                       \cap Bytes(MrsGet(buf, type, size, j)) = {}
<1> DEFINE s == SliceSize(type, size)
<1>1. s \in Nat  BY SliceSizeType
<1> HIDE DEF s
<1>2. ASSUME NEW a \in Nat, NEW b \in Nat, a < b  PROVE  a * s + s <= b * s
  BY <1>1, <1>2, Multiples
<1>3. ASSUME NEW a \in Nat  PROVE  a * s \in Nat  BY <1>1
<1>4. Bytes(MrsGet(buf, type, size, i)) = (buf + i * s)..(buf + i * s + s - 1)
  BY DEF Bytes, MrsGet, Mr, s
<1>5. Bytes(MrsGet(buf, type, size, j)) = (buf + j * s)..(buf + j * s + s - 1)
  BY DEF Bytes, MrsGet, Mr, s
<1>6. Bytes(AllocBulk(buf, type, size, count)) = buf..(buf + s * count - 1)
  BY DEF Bytes, AllocBulk, Mr, s
<1>7. i * s + s <= count * s /\ s * count = count * s /\ count * s \in Nat
  BY <1>1, <1>2
<1>8. i * s \in Nat /\ j * s \in Nat  BY <1>3
<1>9. Bytes(MrsGet(buf, type, size, i)) \subseteq Bytes(AllocBulk(buf, type, size, count))
  BY <1>1, <1>4, <1>6, <1>7, <1>8
<1>10. ASSUME i # j  PROVE  i * s + s <= j * s \/ j * s + s <= i * s
  <2>1. i < j \/ j < i  BY <1>10
  <2>2. QED  BY <2>1, <1>2
<1>11. i # j => Bytes(MrsGet(buf, type, size, i)) \cap Bytes(MrsGet(buf, type, size, j)) = {}
  BY <1>1, <1>4, <1>5, <1>8, <1>10
<1>12. QED  BY <1>9, <1>11

(* kv_rdma_send_req: a request of the size its buffer was allocated for is *)
(* sent from inside the buffer, behind its header.  The size must leave    *)
(* room for the header in 32 bits.                                         *)
THEOREM RequestInside ==
  ASSUME NEW buf \in Nat, NEW size \in Nat, size + HeaderSize < Word,
         NEW req_sz \in 0..size
  PROVE  LET req == AllocReq(buf, size) IN
         /\ SendAsserted(req, req_sz)
         /\ Bytes(SendSge(req, req_sz)) \subseteq Bytes(req)
         /\ ReqBuf(req)..(ReqBuf(req) + req_sz - 1) \subseteq Bytes(SendSge(req, req_sz))
<1>1. (size + HeaderSize) % Word = size + HeaderSize
  BY WordAssumption DEF HeaderSize
<1>2. (req_sz + HeaderSize) % Word = req_sz + HeaderSize
  BY WordAssumption DEF HeaderSize
<1>3. QED  BY <1>1, <1>2 DEF AllocReq, SendAsserted, SendSge, ReqBuf, Bytes, Mr, Sge, HeaderSize

(* The assertion alone does not say so: it is HEADER_SIZE too weak.        *)
THEOREM AssertionTooWeak ==
  ASSUME NEW buf \in Nat, NEW size \in Nat, size + 2 * HeaderSize < Word
  PROVE  LET req == AllocReq(buf, size) IN
         \A req_sz \in (size + 1)..(size + HeaderSize) :
           SendAsserted(req, req_sz) /\ ~(Bytes(SendSge(req, req_sz)) \subseteq Bytes(req))
<1>1. (size + HeaderSize) % Word = size + HeaderSize
  BY WordAssumption DEF HeaderSize
<1> SUFFICES ASSUME NEW req_sz \in (size + 1)..(size + HeaderSize)
             PROVE  LET req == AllocReq(buf, size) IN
                    SendAsserted(req, req_sz) /\ ~(Bytes(SendSge(req, req_sz)) \subseteq Bytes(req))
  OBVIOUS
<1>2. (req_sz + HeaderSize) % Word = req_sz + HeaderSize
  BY WordAssumption DEF HeaderSize
<1>3. SendAsserted(AllocReq(buf, size), req_sz)
  BY <1>1 DEF SendAsserted, AllocReq, Mr, HeaderSize
<1>4. /\ buf + req_sz + HeaderSize - 1 \in Bytes(SendSge(AllocReq(buf, size), req_sz))
      /\ buf + req_sz + HeaderSize - 1 \notin Bytes(AllocReq(buf, size))
  BY <1>1, <1>2 DEF SendSge, AllocReq, Bytes, Mr, Sge, HeaderSize
<1>5. QED  BY <1>3, <1>4

(* A request of at most max_msg_sz bytes fits into a slot, is written to   *)
(* that slot alone, and reaches the handler with its size, whichever of    *)
(* the two receives was posted for the slot.                               *)
THEOREM RequestInOwnSlot ==
  ASSUME NEW buf \in Nat, NEW max_msg_sz \in Nat, NEW count \in Nat \ {0},
         (max_msg_sz + HeaderSize) * count < Word,
         NEW i \in 0..(count - 1), NEW req_sz \in 1..max_msg_sz,
         NEW sge \in {FirstRecv(buf, max_msg_sz, count, i), NextRecv(buf, max_msg_sz, i)}
  PROVE  LET byte_len == req_sz + HeaderSize IN
         /\ Fits(sge, byte_len)
         /\ Placed(sge, byte_len) \subseteq Bytes(MrsGet(buf, "SERVER", max_msg_sz, i))
         /\ RecvAsserted(byte_len) /\ ReqSize(byte_len) = req_sz
<1> DEFINE s == max_msg_sz + HeaderSize
           byte_len == req_sz + HeaderSize
<1>1. s \in Nat /\ byte_len \in Nat /\ byte_len <= s  BY DEF HeaderSize
<1>2. SliceSize("SERVER", max_msg_sz) = s  BY DEF SliceSize
<1>3. s <= s * count /\ s * count \in Nat
  <2>1. 0 * s + s <= count * s  BY <1>1, Multiples
  <2>2. QED  BY <1>1, <2>1
<1>4. s * count < Word  OBVIOUS
<1>5. (s * count) % Word = s * count /\ s % Word = s
  BY <1>1, <1>3, <1>4, WordAssumption
<1>6. sge.addr = buf + i * s /\ sge.length \in {s, s * count}
  <2>1. CASE sge = FirstRecv(buf, max_msg_sz, count, i)
    BY <2>1, <1>2, <1>5 DEF FirstRecv, MrsGet, AllocBulk, Mr, Sge
  <2>2. CASE sge = NextRecv(buf, max_msg_sz, i)
    BY <2>2, <1>2, <1>5 DEF NextRecv, MrsGet, Mr, Sge
  <2>3. QED  BY <2>1, <2>2
<1>7. Bytes(MrsGet(buf, "SERVER", max_msg_sz, i)) = (buf + i * s)..(buf + i * s + s - 1)
  BY <1>2 DEF Bytes, MrsGet, Mr
<1>8. i * s \in Nat  BY <1>1
<1> HIDE DEF s
<1>9. Fits(sge, byte_len)  BY <1>1, <1>3, <1>6 DEF Fits
<1>10. Placed(sge, byte_len) \subseteq Bytes(MrsGet(buf, "SERVER", max_msg_sz, i))
  BY <1>1, <1>6, <1>7, <1>8 DEF Placed
<1>11. RecvAsserted(byte_len) /\ ReqSize(byte_len) = req_sz
  BY DEF RecvAsserted, ReqSize, HeaderSize
<1>12. QED  BY <1>9, <1>10, <1>11

(* The two receives differ: a message longer than a slot is refused by the *)
(* later one and accepted by the first, into the slot behind.              *)
THEOREM FirstReceiveTooLong ==
  ASSUME NEW buf \in Nat, NEW max_msg_sz \in Nat, NEW count \in Nat \ {0, 1},
         (max_msg_sz + HeaderSize) * count < Word,
         NEW i \in 0..(count - 2)
  PROVE  LET byte_len == max_msg_sz + HeaderSize + 1 IN
         /\ ~Fits(NextRecv(buf, max_msg_sz, i), byte_len)
         /\ Fits(FirstRecv(buf, max_msg_sz, count, i), byte_len)
         /\ MrsGet(buf, "SERVER", max_msg_sz, i + 1).addr
              \in Placed(FirstRecv(buf, max_msg_sz, count, i), byte_len)
<1> DEFINE s == max_msg_sz + HeaderSize
<1>1. s \in Nat /\ s >= 1  BY DEF HeaderSize
<1>2. SliceSize("SERVER", max_msg_sz) = s  BY DEF SliceSize
<1>3. 2 * s <= s * count /\ s * count \in Nat
  <2>1. 1 * s + s <= count * s  BY <1>1, Multiples
  <2>2. QED  BY <1>1, <2>1
<1>4. s * count < Word  OBVIOUS
<1>5. (s * count) % Word = s * count /\ s % Word = s
  BY <1>1, <1>3, <1>4, WordAssumption
<1>6. i * s \in Nat /\ (i + 1) * s = i * s + s  BY <1>1
<1>7. NextRecv(buf, max_msg_sz, i).length = s
  BY <1>2, <1>5 DEF NextRecv, MrsGet, Mr, Sge
<1>8. /\ FirstRecv(buf, max_msg_sz, count, i).addr = buf + i * s
      /\ FirstRecv(buf, max_msg_sz, count, i).length = s * count
  BY <1>2, <1>5 DEF FirstRecv, MrsGet, AllocBulk, Mr, Sge
<1>9. MrsGet(buf, "SERVER", max_msg_sz, i + 1).addr = buf + i * s + s
  <2>1. MrsGet(buf, "SERVER", max_msg_sz, i + 1).addr = buf + (i + 1) * s
    BY <1>2 DEF MrsGet, Mr
  <2> HIDE DEF s
  <2>2. QED  BY <1>1, <1>6, <2>1
<1> HIDE DEF s
<1>10. ~Fits(NextRecv(buf, max_msg_sz, i), s + 1)  BY <1>1, <1>7 DEF Fits
<1>11. Fits(FirstRecv(buf, max_msg_sz, count, i), s + 1)  BY <1>1, <1>3, <1>8 DEF Fits
<1>12. buf + i * s + s \in (buf + i * s)..(buf + i * s + (s + 1) - 1)  BY <1>1, <1>6
<1>13. QED  BY <1>8, <1>9, <1>10, <1>11, <1>12 DEF Placed, s

(* kv_mempool_get_id and kv_mempool_get_ele: the number that a request     *)
(* carries names its context, and no other of the pool, as long as the     *)
(* pool has less than 2^31 bytes.                                          *)
THEOREM IdNamesElement ==
  ASSUME NEW buf \in Nat, NEW ele_size \in Nat \ {0}, NEW count \in Nat,
         2 * (count * ele_size) <= Word,
         NEW i \in 0..(count - 1), NEW j \in 0..(count - 1)
  PROVE  LET id(k) == GetId(buf, Element(buf, ele_size, k)) IN
         /\ GetEle(buf, id(i)) = Element(buf, ele_size, i)
         /\ i # j => id(i) # id(j)
<1>1. ASSUME NEW k \in 0..(count - 1)
      PROVE  /\ k * ele_size \in Nat
             /\ 2 * (k * ele_size) < Word
             /\ GetId(buf, Element(buf, ele_size, k)) = k * ele_size
  <2>1. k * ele_size + ele_size <= count * ele_size  BY Multiples
  <2>2. k * ele_size \in Nat /\ count * ele_size \in Nat  OBVIOUS
  <2>3. 2 * (k * ele_size) < Word  BY <2>1, <2>2, WordAssumption
  <2>4. (buf + k * ele_size) - buf = k * ele_size  BY <2>2
  <2>5. (k * ele_size) % Word = k * ele_size  BY <2>2, <2>3, WordAssumption
  <2>6. QED  BY <2>2, <2>3, <2>4, <2>5 DEF GetId, Element
<1>2. GetEle(buf, GetId(buf, Element(buf, ele_size, i))) = Element(buf, ele_size, i)
  <2>1. i * ele_size < Word \div 2 \/ (i * ele_size >= Word \div 2 /\ 2 * (i * ele_size) < Word)
    BY <1>1, WordAssumption
  <2>2. QED  BY <1>1, <2>1, WordAssumption DEF GetEle, AsInt32, Element
<1>3. ASSUME i # j  PROVE  i * ele_size # j * ele_size
  <2>1. i < j \/ j < i  BY <1>3
  <2>2. i * ele_size + ele_size <= j * ele_size \/ j * ele_size + ele_size <= i * ele_size
    BY <2>1, Multiples
  <2>3. i * ele_size \in Nat /\ j * ele_size \in Nat  OBVIOUS
  <2>4. QED  BY <2>2, <2>3
<1>4. QED  BY <1>1, <1>2, <1>3

=============================================================================
