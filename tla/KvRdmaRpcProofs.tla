--------------------------- MODULE KvRdmaRpcProofs ---------------------------
(***************************************************************************)
(* Proofs about KvRdmaRpc, for every number of connections, buffer pairs,  *)
(* pool elements, slots and threads and every queue depth: types, where    *)
(* the slots are and where the requests are.                               *)
(***************************************************************************)
EXTENDS KvRdmaRpc, SequenceTheorems, TLAPS

-----------------------------------------------------------------------------
(* Queues.                                                                 *)

(* What ibv_poll_cq hands to the poller and what it leaves are sequences   *)
(* of the same completions.                                                *)
LEMMA PollTypes ==
  ASSUME NEW S, NEW q \in Seq(S)
  PROVE  /\ Polled(q) \in Seq(S)
         /\ LeftInCq(q) \in Seq(S)
         /\ PollCount(q) \in 0..Len(q)
         /\ Len(Polled(q)) = PollCount(q)
         /\ Len(LeftInCq(q)) = Len(q) - PollCount(q)
         /\ \A i \in 1..PollCount(q) : Polled(q)[i] = q[i]
         /\ \A i \in 1..(Len(q) - PollCount(q)) :
              LeftInCq(q)[i] = q[i + PollCount(q)]
<1> DEFINE n == PollCount(q)
<1>1. Len(q) \in Nat /\ \A i \in 1..Len(q) : q[i] \in S
  BY ElementOfSeq, LenProperties
<1>2. n \in 0..Len(q)
  BY <1>1, SizeAssumption DEF PollCount
<1>3. Polled(q) = SubSeq(q, 1, n) /\ LeftInCq(q) = SubSeq(q, n + 1, Len(q))
  BY DEF Polled, LeftInCq
<1> HIDE DEF n
<1>4. /\ SubSeq(q, 1, n) \in Seq(S)
      /\ Len(SubSeq(q, 1, n)) = n
      /\ \A i \in 1..n : SubSeq(q, 1, n)[i] = q[i]
  <2>1. \A i \in 1..n : q[i] \in S
    BY <1>1, <1>2
  <2>2. n \in Int
    BY <1>2, <1>1
  <2>3. /\ SubSeq(q, 1, n) \in Seq(S)
        /\ Len(SubSeq(q, 1, n)) = IF 1 <= n THEN n - 1 + 1 ELSE 0
        /\ \A i \in 1..(n - 1 + 1) : SubSeq(q, 1, n)[i] = q[1 + i - 1]
    BY <2>1, <2>2, SubSeqProperties
  <2> QED
    BY <2>3, <1>1, <1>2
<1>5. /\ SubSeq(q, n + 1, Len(q)) \in Seq(S)
      /\ Len(SubSeq(q, n + 1, Len(q))) = Len(q) - n
      /\ \A i \in 1..(Len(q) - n) : SubSeq(q, n + 1, Len(q))[i] = q[i + n]
  <2>1. \A i \in (n + 1)..Len(q) : q[i] \in S
    BY <1>1, <1>2
  <2>2. n + 1 \in Int /\ Len(q) \in Int
    BY <1>2, <1>1
  <2>3. /\ SubSeq(q, n + 1, Len(q)) \in Seq(S)
        /\ Len(SubSeq(q, n + 1, Len(q)))
             = IF n + 1 <= Len(q) THEN Len(q) - (n + 1) + 1 ELSE 0
        /\ \A i \in 1..(Len(q) - (n + 1) + 1) :
             SubSeq(q, n + 1, Len(q))[i] = q[(n + 1) + i - 1]
    BY <2>1, <2>2, SubSeqProperties
  <2> QED
    BY <2>3, <1>1, <1>2
<1> QED
  BY <1>2, <1>3, <1>4, <1>5 DEF n

(* Taking the head of a queue takes its slot away, once.                   *)
LEMMA TailSlots ==
  ASSUME NEW S, NEW q \in Seq(S), q # <<>>
  PROVE  /\ SlotsOf(q) = SlotsOf(Tail(q)) \cup {Head(q).slot}
         /\ OncePerSlot(q) => /\ OncePerSlot(Tail(q))
                              /\ Head(q).slot \notin SlotsOf(Tail(q))
<1>1. /\ Tail(q) \in Seq(S)
      /\ Len(q) \in Nat \ {0}
      /\ Len(Tail(q)) = Len(q) - 1
      /\ \A i \in 1..Len(Tail(q)) : Tail(q)[i] = q[i + 1]
      /\ Head(q) = q[1]
  BY HeadTailProperties, EmptySeq, LenProperties
<1>2. DOMAIN q = 1..Len(q) /\ DOMAIN Tail(q) = 1..(Len(q) - 1)
  BY <1>1, LenProperties
<1>3. \A i \in 2..Len(q) : i - 1 \in DOMAIN Tail(q) /\ Tail(q)[i - 1] = q[i]
  BY <1>1, <1>2
<1>4. \A i \in DOMAIN Tail(q) : i + 1 \in 2..Len(q) /\ Tail(q)[i] = q[i + 1]
  BY <1>1, <1>2
<1>5. ASSUME NEW x PROVE x \in SlotsOf(q) <=> x \in SlotsOf(Tail(q)) \cup {Head(q).slot}
  <2>1. ASSUME x \in SlotsOf(q) PROVE x \in SlotsOf(Tail(q)) \cup {Head(q).slot}
    <3>1. PICK i \in 1..Len(q) : x = q[i].slot
      BY <2>1, <1>2 DEF SlotsOf
    <3>2. CASE i = 1
      BY <3>1, <3>2, <1>1
    <3>3. CASE i \in 2..Len(q)
      BY <3>1, <3>3, <1>3 DEF SlotsOf
    <3> QED
      BY <3>2, <3>3, <1>1
  <2>2. ASSUME x \in SlotsOf(Tail(q)) PROVE x \in SlotsOf(q)
    <3>1. PICK i \in DOMAIN Tail(q) : x = Tail(q)[i].slot
      BY <2>2 DEF SlotsOf
    <3> QED
      BY <3>1, <1>4, <1>2, <1>1 DEF SlotsOf
  <2>3. Head(q).slot \in SlotsOf(q)
    BY <1>1, <1>2 DEF SlotsOf
  <2> QED
    BY <2>1, <2>2, <2>3
<1>6. ASSUME OncePerSlot(q) PROVE OncePerSlot(Tail(q))
  <2> SUFFICES ASSUME NEW i \in DOMAIN Tail(q), NEW j \in DOMAIN Tail(q),
                      Tail(q)[i].slot = Tail(q)[j].slot
               PROVE  i = j
    BY DEF OncePerSlot
  <2>1. i + 1 \in DOMAIN q /\ j + 1 \in DOMAIN q /\ q[i + 1].slot = q[j + 1].slot
    BY <1>4, <1>2, <1>1
  <2>2. i + 1 = j + 1
    BY <2>1, <1>6 DEF OncePerSlot
  <2> QED
    BY <2>2, <1>1, <1>2
<1>7. ASSUME OncePerSlot(q) PROVE Head(q).slot \notin SlotsOf(Tail(q))
  <2> SUFFICES ASSUME NEW i \in DOMAIN Tail(q), Tail(q)[i].slot = q[1].slot
               PROVE  FALSE
    BY <1>1 DEF SlotsOf
  <2>1. i + 1 \in DOMAIN q /\ 1 \in DOMAIN q /\ q[i + 1].slot = q[1].slot
    BY <1>4, <1>2, <1>1
  <2>2. i + 1 = 1
    BY <2>1, <1>7 DEF OncePerSlot
  <2> QED
    BY <2>2, <1>1, <1>2
<1> QED
  BY <1>5, <1>6, <1>7

(* Appending a completion or a work request adds its slot.                 *)
LEMMA AppendSlots ==
  ASSUME NEW S, NEW q \in Seq(S), NEW e \in S
  PROVE  /\ SlotsOf(Append(q, e)) = SlotsOf(q) \cup {e.slot}
         /\ OncePerSlot(q) /\ e.slot \notin SlotsOf(q) => OncePerSlot(Append(q, e))
<1>1. /\ DOMAIN q = 1..Len(q)
      /\ DOMAIN Append(q, e) = 1..(Len(q) + 1)
      /\ Len(q) \in Nat
      /\ \A i \in 1..Len(q) : Append(q, e)[i] = q[i]
      /\ Append(q, e)[Len(q) + 1] = e
  BY AppendProperties, LenProperties
<1>2. \A i \in DOMAIN Append(q, e) :
        \/ i \in DOMAIN q /\ Append(q, e)[i] = q[i]
        \/ i = Len(q) + 1 /\ Append(q, e)[i] = e
  BY <1>1
<1>3. SlotsOf(Append(q, e)) = SlotsOf(q) \cup {e.slot}
  <2>1. ASSUME NEW x \in SlotsOf(Append(q, e)) PROVE x \in SlotsOf(q) \cup {e.slot}
    BY <1>2 DEF SlotsOf
  <2>2. SlotsOf(q) \subseteq SlotsOf(Append(q, e))
    BY <1>1 DEF SlotsOf
  <2>3. e.slot \in SlotsOf(Append(q, e))
    BY <1>1 DEF SlotsOf
  <2> QED
    BY <2>1, <2>2, <2>3
<1>4. ASSUME OncePerSlot(q), e.slot \notin SlotsOf(q) PROVE OncePerSlot(Append(q, e))
  <2> SUFFICES ASSUME NEW i \in DOMAIN Append(q, e), NEW j \in DOMAIN Append(q, e),
                      Append(q, e)[i].slot = Append(q, e)[j].slot
               PROVE  i = j
    BY DEF OncePerSlot
  <2> QED
    BY <1>2, <1>4 DEF OncePerSlot, SlotsOf
<1> QED
  BY <1>3, <1>4

(* Polling splits the slots of a completion queue in two.                  *)
LEMMA PollSlots ==
  ASSUME NEW S, NEW q \in Seq(S)
  PROVE  /\ SlotsOf(q) = SlotsOf(Polled(q)) \cup SlotsOf(LeftInCq(q))
         /\ OncePerSlot(q) =>
              /\ OncePerSlot(Polled(q)) /\ OncePerSlot(LeftInCq(q))
              /\ SlotsOf(Polled(q)) \cap SlotsOf(LeftInCq(q)) = {}
<1> DEFINE n == PollCount(q)
           a == Polled(q)
           b == LeftInCq(q)
<1>1. /\ DOMAIN q = 1..Len(q) /\ DOMAIN a = 1..n /\ DOMAIN b = 1..(Len(q) - n)
      /\ Len(q) \in Nat /\ n \in 0..Len(q)
      /\ \A i \in 1..n : a[i] = q[i]
      /\ \A i \in 1..(Len(q) - n) : b[i] = q[i + n]
  BY PollTypes, LenProperties
<1> HIDE DEF n, a, b
<1>2. /\ \A i \in DOMAIN a : i \in DOMAIN q /\ i <= n /\ i \in Int /\ a[i] = q[i]
      /\ \A i \in DOMAIN b : /\ i + n \in DOMAIN q /\ i + n > n /\ i \in Int
                             /\ b[i] = q[i + n]
  BY <1>1
<1>3. \A i \in DOMAIN q : \/ i \in DOMAIN a /\ a[i] = q[i]
                          \/ i - n \in DOMAIN b /\ b[i - n] = q[i]
  BY <1>1
<1>4. SlotsOf(q) = SlotsOf(a) \cup SlotsOf(b)
  <2>1. SlotsOf(q) \subseteq SlotsOf(a) \cup SlotsOf(b)
    BY <1>3 DEF SlotsOf
  <2>2. SlotsOf(a) \subseteq SlotsOf(q)
    BY <1>2 DEF SlotsOf
  <2>3. SlotsOf(b) \subseteq SlotsOf(q)
    BY <1>2 DEF SlotsOf
  <2> QED
    BY <2>1, <2>2, <2>3
<1>5. ASSUME OncePerSlot(q)
      PROVE  OncePerSlot(a) /\ OncePerSlot(b) /\ SlotsOf(a) \cap SlotsOf(b) = {}
  <2>1. OncePerSlot(a)
    BY <1>2, <1>5 DEF OncePerSlot
  <2>2. OncePerSlot(b)
    <3> SUFFICES ASSUME NEW i \in DOMAIN b, NEW j \in DOMAIN b, b[i].slot = b[j].slot
                 PROVE  i = j
      BY DEF OncePerSlot
    <3>1. i + n = j + n
      BY <1>2, <1>5 DEF OncePerSlot
    <3> QED
      BY <3>1, <1>1, <1>2
  <2>3. ASSUME NEW i \in DOMAIN a, NEW j \in DOMAIN b, a[i].slot = b[j].slot
        PROVE  FALSE
    <3>1. i = j + n
      BY <2>3, <1>2, <1>5 DEF OncePerSlot
    <3> QED
      BY <3>1, <1>1, <1>2
  <2> QED
    BY <2>1, <2>2, <2>3 DEF SlotsOf
<1> QED
  BY <1>4, <1>5 DEF a, b

(* The slots of the receive completions of a queue.                        *)
LEMMA RecvSlotsTail ==
  ASSUME NEW S, NEW q \in Seq(S), q # <<>>
  PROVE  /\ RecvSlots(Tail(q)) \subseteq RecvSlots(q)
         /\ Head(q).op = "recv" => Head(q).slot \in RecvSlots(q)
<1>1. /\ DOMAIN q = 1..Len(q) /\ Len(q) \in Nat \ {0}
      /\ DOMAIN Tail(q) = 1..(Len(q) - 1)
      /\ \A i \in 1..(Len(q) - 1) : Tail(q)[i] = q[i + 1]
      /\ Head(q) = q[1]
  BY HeadTailProperties, EmptySeq, LenProperties
<1>2. \A i \in DOMAIN Tail(q) : i + 1 \in DOMAIN q /\ Tail(q)[i] = q[i + 1]
  BY <1>1
<1>3. RecvSlots(Tail(q)) \subseteq RecvSlots(q)
  BY <1>2 DEF RecvSlots, RecvCqes
<1>4. Head(q).op = "recv" => Head(q).slot \in RecvSlots(q)
  BY <1>1 DEF RecvSlots, RecvCqes
<1> QED
  BY <1>3, <1>4

LEMMA RecvSlotsAppend ==
  ASSUME NEW S, NEW q \in Seq(S), NEW e \in S
  PROVE  /\ e.op = "recv" => RecvSlots(Append(q, e)) = RecvSlots(q) \cup {e.slot}
         /\ e.op # "recv" => RecvSlots(Append(q, e)) = RecvSlots(q)
<1>1. /\ DOMAIN q = 1..Len(q) /\ Len(q) \in Nat
      /\ DOMAIN Append(q, e) = 1..(Len(q) + 1)
      /\ \A i \in 1..Len(q) : Append(q, e)[i] = q[i]
      /\ Append(q, e)[Len(q) + 1] = e
  BY AppendProperties, LenProperties
<1>2. \A i \in DOMAIN Append(q, e) :
        \/ i \in DOMAIN q /\ Append(q, e)[i] = q[i]
        \/ i = Len(q) + 1 /\ Append(q, e)[i] = e
  BY <1>1
<1>3. RecvSlots(q) \subseteq RecvSlots(Append(q, e))
  <2>1. \A i \in DOMAIN q : i \in DOMAIN Append(q, e) /\ Append(q, e)[i] = q[i]
    BY <1>1
  <2> QED
    BY <2>1 DEF RecvSlots, RecvCqes
<1>4. RecvSlots(Append(q, e)) \subseteq RecvSlots(q) \cup {e.slot}
  BY <1>2 DEF RecvSlots, RecvCqes
<1>5. e.op = "recv" => e.slot \in RecvSlots(Append(q, e))
  <2>1. Len(q) + 1 \in DOMAIN Append(q, e) /\ Append(q, e)[Len(q) + 1] = e
    BY <1>1
  <2> QED
    BY <2>1 DEF RecvSlots, RecvCqes
<1>6. e.op # "recv" => RecvSlots(Append(q, e)) \subseteq RecvSlots(q)
  BY <1>2 DEF RecvSlots, RecvCqes
<1> QED
  BY <1>3, <1>4, <1>5, <1>6

LEMMA RecvSlotsPoll ==
  ASSUME NEW S, NEW q \in Seq(S)
  PROVE  RecvSlots(q) = RecvSlots(Polled(q)) \cup RecvSlots(LeftInCq(q))
<1> DEFINE n == PollCount(q)
           a == Polled(q)
           b == LeftInCq(q)
<1>1. /\ DOMAIN q = 1..Len(q) /\ DOMAIN a = 1..n /\ DOMAIN b = 1..(Len(q) - n)
      /\ Len(q) \in Nat /\ n \in 0..Len(q)
      /\ \A i \in 1..n : a[i] = q[i]
      /\ \A i \in 1..(Len(q) - n) : b[i] = q[i + n]
  BY PollTypes, LenProperties
<1> HIDE DEF n, a, b
<1>2. /\ \A i \in DOMAIN a : i \in DOMAIN q /\ a[i] = q[i]
      /\ \A i \in DOMAIN b : i + n \in DOMAIN q /\ b[i] = q[i + n]
  BY <1>1
<1>3. \A i \in DOMAIN q : \/ i \in DOMAIN a /\ a[i] = q[i]
                          \/ i - n \in DOMAIN b /\ b[i - n] = q[i]
  BY <1>1
<1>4. RecvSlots(q) \subseteq RecvSlots(a) \cup RecvSlots(b)
  BY <1>3 DEF RecvSlots, RecvCqes
<1>5. RecvSlots(a) \subseteq RecvSlots(q)
  BY <1>2 DEF RecvSlots, RecvCqes
<1>6. RecvSlots(b) \subseteq RecvSlots(q)
  BY <1>2 DEF RecvSlots, RecvCqes
<1> QED
  BY <1>4, <1>5, <1>6 DEF a, b

LEMMA RecvSlotsEmpty == RecvSlots(<<>>) = {} /\ SlotsOf(<<>>) = {}
BY DEF RecvSlots, RecvCqes, SlotsOf

-----------------------------------------------------------------------------
(* Type correctness.                                                       *)

LEMMA NoneIsNew ==
  /\ None \notin Mrs /\ None \notin Vals /\ None \notin Ids /\ None \notin Slots
  /\ None \notin Call /\ None \notin Message /\ None \notin ReqCtx
  /\ None \notin [conn : Conns, id : Ids]
BY NoneAssumption

Typed == TypeOK /\ RequestFilled /\ SlotFilled

LEMMA TypedInit == Init => Typed
BY NoneIsNew DEF Init, Typed, TypeOK, RequestFilled, SlotFilled, LiveSlots,
   ServedSlots, SlotsOf, RecvSlots, RecvCqes

LEMMA SendReqTyped ==
  ASSUME Typed, NEW t \in CThreads, NEW c \in Conns, NEW m \in Mrs,
         NEW v \in Vals, SendReq(t, c, m, v)
  PROVE  Typed'
<1>1. TypeOK'
  <2>1. CASE UNCHANGED clientVars /\ fault' = "null_ctx"
    BY <2>1 DEF SendReq, Typed, TypeOK, clientVars, wireVars, serverVars
  <2>2. ASSUME NEW i \in mp[c],
               mp'     = [mp EXCEPT ![c] = @ \ {i}],
               ctx'    = [ctx EXCEPT ![c][i] = m],
               reqHdr' = [reqHdr EXCEPT ![m] = i],
               reqBuf' = [reqBuf EXCEPT ![m] = v],
               busy'   = busy \cup {m},
               call'   = [call EXCEPT ![t] = [pc |-> "post_recv", conn |-> c,
                                              mr |-> m, id |-> i]],
               UNCHANGED <<cbk, cwc, fault>>
        PROVE  TypeOK'
    <3>1. i \in Ids
      BY DEF Typed, TypeOK
    <3>2. /\ mp' \in [Conns -> SUBSET Ids]
          /\ ctx' \in [Conns -> [Ids -> Mrs \cup {None}]]
      BY <2>2, <3>1 DEF Typed, TypeOK
    <3>3. /\ reqHdr' \in [Mrs -> Ids \cup {None}]
          /\ reqBuf' \in [Mrs -> Vals \cup {None}]
          /\ busy' \in SUBSET Mrs
      BY <2>2, <3>1 DEF Typed, TypeOK
    <3>4. call' \in [CThreads -> Call \cup {None}]
      BY <2>2, <3>1 DEF Typed, TypeOK, Call
    <3> QED
      BY <2>2, <3>2, <3>3, <3>4
      DEF SendReq, Typed, TypeOK, wireVars, serverVars
  <2> QED
    BY <2>1, <2>2 DEF SendReq
<1>2. RequestFilled'
  <2>1. CASE UNCHANGED clientVars
    BY <2>1 DEF SendReq, Typed, RequestFilled, clientVars, wireVars
  <2>2. ASSUME NEW i \in mp[c],
               reqHdr' = [reqHdr EXCEPT ![m] = i],
               reqBuf' = [reqBuf EXCEPT ![m] = v],
               call' = [call EXCEPT ![t] = [pc |-> "post_recv", conn |-> c,
                                            mr |-> m, id |-> i]]
        PROVE  RequestFilled'
    <3>1. /\ reqHdr'[m] # None /\ reqBuf'[m] # None
          /\ \A n \in Mrs \ {m} : reqHdr'[n] = reqHdr[n] /\ reqBuf'[n] = reqBuf[n]
      BY <2>2, NoneIsNew DEF Typed, TypeOK
    <3>2. ASSUME NEW u \in CThreads, call'[u] # None
          PROVE  reqHdr'[call'[u].mr] # None /\ reqBuf'[call'[u].mr] # None
      <4>1. CASE u = t
        BY <4>1, <3>1, <2>2 DEF Typed, TypeOK
      <4>2. CASE u # t
        <5>1. call'[u] = call[u] /\ call[u] # None
          BY <4>2, <3>2, <2>2 DEF Typed, TypeOK
        <5>2. call[u].mr \in Mrs
          BY <5>1 DEF Typed, TypeOK, Call
        <5> QED
          BY <5>1, <5>2, <3>1 DEF Typed, RequestFilled
      <4> QED
        BY <4>1, <4>2
    <3>3. ASSUME NEW d \in Conns, NEW j \in DOMAIN sendQ[d]
          PROVE  reqHdr'[sendQ[d][j]] # None /\ reqBuf'[sendQ[d][j]] # None
      <4>1. sendQ[d][j] \in Mrs
        BY ElementOfSeq, LenProperties DEF Typed, TypeOK
      <4> QED
        BY <4>1, <3>1 DEF Typed, RequestFilled
    <3> QED
      BY <3>2, <3>3 DEF SendReq, RequestFilled, wireVars
  <2> QED
    BY <2>1, <2>2 DEF SendReq
<1>3. SlotFilled'
  BY DEF SendReq, Typed, SlotFilled, LiveSlots, ServedSlots, serverVars, wireVars
<1> QED
  BY <1>1, <1>2, <1>3 DEF Typed

LEMMA SendFailTyped ==
  ASSUME Typed, NEW t \in CThreads, SendFail(t)
  PROVE  Typed'
<1>1. TypeOK'
  BY DEF SendFail, Typed, TypeOK, wireVars, serverVars
<1>2. RequestFilled'
  BY DEF SendFail, Typed, TypeOK, RequestFilled, wireVars
<1>3. SlotFilled'
  BY DEF SendFail, Typed, SlotFilled, LiveSlots, ServedSlots, serverVars, wireVars
<1> QED
  BY <1>1, <1>2, <1>3 DEF Typed

LEMMA PostRecvTyped ==
  ASSUME Typed, NEW t \in CThreads, PostRecv(t)
  PROVE  Typed'
<1> DEFINE c == call[t].conn
<1>1. CASE SendFail(t)
  BY <1>1, SendFailTyped
<1>2. CASE /\ call[t] # None
           /\ rqPosted' = [rqPosted EXCEPT ![c] = @ + 1]
           /\ call'     = [call EXCEPT ![t] = Continue(@)]
           /\ UNCHANGED <<mp, ctx, reqHdr, reqBuf, busy, cbk, cwc, respBuf, ccq,
                          wireVars, srq, srvBuf, serverVars, scq, fault>>
  <2>1. TypeOK'
    BY <1>2, NoneIsNew DEF Typed, TypeOK, Call, Continue, wireVars, serverVars
  <2>2. RequestFilled'
    BY <1>2, NoneIsNew
    DEF Typed, TypeOK, RequestFilled, Call, Continue, wireVars
  <2>3. SlotFilled'
    BY <1>2 DEF Typed, SlotFilled, LiveSlots, ServedSlots, serverVars, wireVars
  <2> QED
    BY <2>1, <2>2, <2>3 DEF Typed
<1> QED
  BY <1>1, <1>2 DEF PostRecv

LEMMA PostSendTyped ==
  ASSUME Typed, NEW t \in CThreads, PostSend(t)
  PROVE  Typed'
<1> DEFINE c == call[t].conn
<1>1. CASE SendFail(t)
  BY <1>1, SendFailTyped
<1>2. CASE /\ call[t] # None
           /\ sendQ' = [sendQ EXCEPT ![c] = Append(@, call[t].mr)]
           /\ call'  = [call EXCEPT ![t] = None]
           /\ UNCHANGED <<mp, ctx, reqHdr, reqBuf, busy, cbk, cwc, respBuf, ccq,
                          rqPosted, sendAck, writeQ, writeAck, srq,
                          srvBuf, serverVars, scq, fault>>
  <2>1. call[t].conn \in Conns /\ call[t].mr \in Mrs
    BY <1>2 DEF Typed, TypeOK, Call
  <2>2. sendQ' \in [Conns -> Seq(Mrs)]
    BY <1>2, <2>1, AppendProperties DEF Typed, TypeOK
  <2>3. TypeOK'
    BY <1>2, <2>2 DEF Typed, TypeOK, serverVars
  <2>4. RequestFilled'
    <3>1. \A u \in CThreads : call'[u] # None => call'[u] = call[u]
      BY <1>2 DEF Typed, TypeOK
    <3>2. ASSUME NEW d \in Conns, NEW j \in DOMAIN sendQ'[d]
          PROVE  reqHdr[sendQ'[d][j]] # None /\ reqBuf[sendQ'[d][j]] # None
      <4>1. CASE d # c
        BY <4>1, <1>2 DEF Typed, TypeOK, RequestFilled
      <4>2. CASE d = c
        <5>1. /\ sendQ'[d] = Append(sendQ[d], call[t].mr)
              /\ sendQ[d] \in Seq(Mrs)
          BY <4>2, <2>1, <1>2 DEF Typed, TypeOK
        <5>2. \/ j \in DOMAIN sendQ[d] /\ sendQ'[d][j] = sendQ[d][j]
              \/ sendQ'[d][j] = call[t].mr
          BY <5>1, <2>1, AppendProperties, LenProperties
        <5> QED
          BY <5>2, <1>2 DEF Typed, RequestFilled
      <4> QED
        BY <4>1, <4>2
    <3> QED
      BY <1>2, <3>1, <3>2 DEF Typed, RequestFilled
  <2>5. SlotFilled'
    BY <1>2 DEF Typed, SlotFilled, LiveSlots, ServedSlots, serverVars
  <2> QED
    BY <2>3, <2>4, <2>5 DEF Typed
<1> QED
  BY <1>1, <1>2 DEF PostSend

(* The client's steps below leave buffers, calls and slots alone.          *)
LEMMA FilledUnchanged ==
  ASSUME Typed, UNCHANGED <<call, reqHdr, reqBuf, sendQ, writeQ, srvBuf,
                            serverVars, scq>>
  PROVE  RequestFilled' /\ SlotFilled'
BY DEF Typed, RequestFilled, SlotFilled, LiveSlots, ServedSlots, serverVars

LEMMA ClientPollTyped ==
  ASSUME Typed, NEW t \in CThreads, ClientPoll(t)
  PROVE  Typed'
<1>1. Polled(ccq) \in Seq(ClientCqe) /\ LeftInCq(ccq) \in Seq(ClientCqe)
  BY PollTypes DEF Typed, TypeOK
<1>2. TypeOK'
  BY <1>1 DEF ClientPoll, Typed, TypeOK, wireVars, serverVars
<1> QED
  BY <1>2, FilledUnchanged DEF Typed, ClientPoll, wireVars

LEMMA OnSendReqTyped ==
  ASSUME Typed, NEW t \in CThreads, OnSendReq(t)
  PROVE  Typed'
<1>1. Tail(cwc[t]) \in Seq(ClientCqe)
  BY HeadTailProperties DEF OnSendReq, AtClientCqe, Typed, TypeOK
<1>2. TypeOK'
  BY <1>1 DEF OnSendReq, Typed, TypeOK, wireVars, serverVars
<1> QED
  BY <1>2, FilledUnchanged DEF Typed, OnSendReq, wireVars

LEMMA OnRecvRespTyped ==
  ASSUME Typed, NEW t \in CThreads, OnRecvResp(t)
  PROVE  Typed'
<1> DEFINE wc == Head(cwc[t])
<1>1. Tail(cwc[t]) \in Seq(ClientCqe) /\ wc \in ClientCqe /\ wc.op = "recv"
  BY HeadTailProperties DEF OnRecvResp, AtClientCqe, Typed, TypeOK
<1>2. wc.conn \in Conns /\ wc.id \in Ids
  BY <1>1 DEF ClientCqe
<1> HIDE DEF wc
<1>3. cbk' \in [CThreads -> [conn : Conns, id : Ids] \cup {None}]
  BY <1>2 DEF OnRecvResp, Typed, TypeOK, wc
<1>4. TypeOK'
  BY <1>1, <1>3 DEF OnRecvResp, Typed, TypeOK, wireVars, serverVars
<1> QED
  BY <1>4, FilledUnchanged DEF Typed, OnRecvResp, wireVars

LEMMA MempoolPutTyped ==
  ASSUME Typed, NEW t \in CThreads, MempoolPut(t)
  PROVE  Typed'
<1>1. cbk[t].conn \in Conns /\ cbk[t].id \in Ids
  BY DEF MempoolPut, Typed, TypeOK
<1>2. mp' \in [Conns -> SUBSET Ids]
  BY <1>1 DEF MempoolPut, Typed, TypeOK
<1>3. TypeOK'
  BY <1>2 DEF MempoolPut, Typed, TypeOK, wireVars, serverVars
<1> QED
  BY <1>3, FilledUnchanged DEF Typed, MempoolPut, wireVars

LEMMA DeliverReqTyped ==
  ASSUME Typed, NEW c \in Conns, DeliverReq(c)
  PROVE  Typed'
<1> DEFINE m == Head(sendQ[c])
<1>1. /\ sendQ[c] \in Seq(Mrs) /\ sendQ[c] # <<>>
      /\ m \in Mrs /\ Tail(sendQ[c]) \in Seq(Mrs)
  BY HeadTailProperties DEF DeliverReq, Typed, TypeOK
<1>2. 1 \in DOMAIN sendQ[c] /\ m = sendQ[c][1]
  BY <1>1, EmptySeq, LenProperties, HeadTailProperties
<1>3. reqHdr[m] \in Ids /\ reqBuf[m] \in Vals
  BY <1>1, <1>2 DEF Typed, TypeOK, RequestFilled
<1> HIDE DEF m
<1>4. PICK s \in srq :
        /\ srq'    = srq \ {s}
        /\ srvBuf' = [srvBuf EXCEPT ![s] = [id |-> reqHdr[m], mr |-> m,
                                            val |-> reqBuf[m]]]
        /\ scq'    = Append(scq, [op |-> "recv", conn |-> c, slot |-> s,
                                  imm |-> m])
  BY DEF DeliverReq, m
<1> DEFINE e == [op |-> "recv", conn |-> c, slot |-> s, imm |-> m]
           msg == [id |-> reqHdr[m], mr |-> m, val |-> reqBuf[m]]
<1>5. s \in Slots /\ msg \in Message /\ msg # None
  BY <1>1, <1>3, NoneIsNew DEF Typed, TypeOK, Message
<1>6. e \in ServerCqe /\ e.op = "recv" /\ e.slot = s
  BY <1>1, <1>5 DEF ServerCqe
<1> HIDE DEF e, msg
<1>7. srvBuf' = [srvBuf EXCEPT ![s] = msg] /\ scq' = Append(scq, e)
  BY <1>4 DEF e, msg
<1>8. TypeOK'
  <2>1. scq' \in Seq(ServerCqe)
    BY <1>6, <1>7, AppendProperties DEF Typed, TypeOK
  <2>2. srvBuf' \in [Slots -> Message \cup {None}]
    BY <1>5, <1>7 DEF Typed, TypeOK
  <2>3. sendQ' \in [Conns -> Seq(Mrs)] /\ sendAck' \in [Conns -> Nat]
    BY <1>1 DEF DeliverReq, Typed, TypeOK
  <2> QED
    BY <2>1, <2>2, <2>3, <1>4 DEF DeliverReq, Typed, TypeOK, clientVars, serverVars
<1>9. RequestFilled'
  <2>1. ASSUME NEW d \in Conns, NEW j \in DOMAIN sendQ'[d]
        PROVE  \E k \in DOMAIN sendQ[d] : sendQ'[d][j] = sendQ[d][k]
    <3>1. CASE d # c
      BY <3>1 DEF DeliverReq, Typed, TypeOK
    <3>2. CASE d = c
      <4>1. sendQ'[d] = Tail(sendQ[d])
        BY <3>2, <1>1 DEF DeliverReq, Typed, TypeOK
      <4>2. j + 1 \in DOMAIN sendQ[d] /\ sendQ'[d][j] = sendQ[d][j + 1]
        BY <4>1, <3>2, <1>1, HeadTailProperties, LenProperties
      <4> QED
        BY <4>2
    <3> QED
      BY <3>1, <3>2
  <2> QED
    BY <2>1 DEF DeliverReq, Typed, RequestFilled, clientVars
<1>10. SlotFilled'
  <2>1. RecvSlots(scq') = RecvSlots(scq) \cup {s}
    BY <1>6, <1>7, RecvSlotsAppend DEF Typed, TypeOK
  <2>2. LiveSlots' = LiveSlots \cup {s}
    BY <2>1 DEF DeliverReq, LiveSlots, ServedSlots, serverVars
  <2>3. \A r \in LiveSlots' : srvBuf'[r] # None
    BY <2>2, <1>5, <1>7 DEF Typed, TypeOK, SlotFilled
  <2> QED
    BY <2>3 DEF DeliverReq, Typed, SlotFilled, serverVars
<1> QED
  BY <1>8, <1>9, <1>10 DEF Typed

LEMMA RnrNakTyped ==
  ASSUME Typed, NEW c \in Conns, RnrNak(c)
  PROVE  Typed'
<1>1. TypeOK'
  BY DEF RnrNak, Typed, TypeOK, clientVars, serverVars, wireVars
<1> QED
  BY <1>1, FilledUnchanged DEF Typed, RnrNak, clientVars, wireVars

LEMMA AckReqTyped ==
  ASSUME Typed, NEW c \in Conns, AckReq(c)
  PROVE  Typed'
<1>1. [op |-> "send", conn |-> c, id |-> None] \in ClientCqe
  BY DEF ClientCqe
<1>2. ccq' \in Seq(ClientCqe)
  BY <1>1, AppendProperties DEF AckReq, Typed, TypeOK
<1>3. sendAck' \in [Conns -> Nat]
  BY DEF AckReq, Typed, TypeOK
<1>4. TypeOK'
  BY <1>2, <1>3 DEF AckReq, Typed, TypeOK, clientVars, serverVars
<1> QED
  BY <1>4, FilledUnchanged DEF Typed, AckReq, clientVars

(* The two halves of a step of the server or of the fabric after the       *)
(* server: no slot comes alive and no buffer or context is emptied.        *)
LEMMA SlotFilledKept ==
  ASSUME SlotFilled, LiveSlots' \subseteq LiveSlots, UNCHANGED srvBuf,
         \A s \in handling' : reqCtx'[s] # None
  PROVE  SlotFilled'
BY DEF SlotFilled

LEMMA DeliverRespTyped ==
  ASSUME Typed, NEW c \in Conns, DeliverResp(c)
  PROVE  Typed'
<1> DEFINE w == Head(writeQ[c])
<1>1. /\ writeQ[c] \in Seq(Write) /\ writeQ[c] # <<>>
      /\ w \in Write /\ Tail(writeQ[c]) \in Seq(Write)
  BY HeadTailProperties DEF DeliverResp, Typed, TypeOK
<1>2. w.slot \in Slots /\ w.id \in Ids /\ w.mr \in Mrs
  BY <1>1 DEF Write
<1>3. SlotsOf(writeQ[c]) = SlotsOf(Tail(writeQ[c])) \cup {w.slot}
  BY <1>1, TailSlots
<1>4. srvBuf[w.slot] \in Message
  <2>1. w.slot \in LiveSlots
    BY <1>3 DEF LiveSlots, ServedSlots
  <2> QED
    BY <2>1, <1>2 DEF Typed, TypeOK, SlotFilled
<1> HIDE DEF w
<1>5. /\ respBuf'  = [respBuf EXCEPT ![w.mr] = srvBuf[w.slot].val]
      /\ ccq'      = Append(ccq, [op |-> "recv", conn |-> c, id |-> w.id])
      /\ writeAck' = [writeAck EXCEPT ![c] = Append(@, w)]
  BY DEF DeliverResp, w
<1>6. TypeOK'
  <2>1. respBuf' \in [Mrs -> Vals \cup {None}]
    BY <1>2, <1>4, <1>5 DEF Typed, TypeOK, Message
  <2>2. ccq' \in Seq(ClientCqe)
    <3>1. [op |-> "recv", conn |-> c, id |-> w.id] \in ClientCqe
      BY <1>2 DEF ClientCqe
    <3> QED
      BY <3>1, <1>5, AppendProperties DEF Typed, TypeOK
  <2>3. writeAck' \in [Conns -> Seq(Write)]
    BY <1>1, <1>5, AppendProperties DEF Typed, TypeOK, w
  <2>4. writeQ' \in [Conns -> Seq(Write)]
    BY <1>1 DEF DeliverResp, Typed, TypeOK
  <2>5. rqPosted' \in [Conns -> Nat]
    BY DEF DeliverResp, Typed, TypeOK
  <2> QED
    BY <2>1, <2>2, <2>3, <2>4, <2>5
    DEF DeliverResp, Typed, TypeOK, clientVars, serverVars
<1>7. RequestFilled'
  BY DEF DeliverResp, Typed, RequestFilled, clientVars
<1>8. SlotFilled'
  <2>1. \A d \in Conns : SlotsOf(writeQ'[d]) \subseteq SlotsOf(writeQ[d])
    BY <1>3, <1>1 DEF DeliverResp, Typed, TypeOK
  <2>2. LiveSlots' \subseteq LiveSlots
    <3>1. handling' = handling /\ swc' = swc /\ scq' = scq
      BY DEF DeliverResp, serverVars
    <3>2. ServedSlots' \subseteq ServedSlots
      BY <2>1, <3>1 DEF ServedSlots
    <3> QED
      BY <3>1, <3>2 DEF LiveSlots
  <2> QED
    BY <2>2, SlotFilledKept DEF DeliverResp, Typed, SlotFilled, serverVars
<1> QED
  BY <1>6, <1>7, <1>8 DEF Typed

LEMMA AckWriteTyped ==
  ASSUME Typed, NEW c \in Conns, AckWrite(c)
  PROVE  Typed'
<1> DEFINE w == Head(writeAck[c])
           e == [op |-> "write", conn |-> c, slot |-> w.slot, imm |-> None]
<1>1. w \in Write /\ Tail(writeAck[c]) \in Seq(Write)
  BY HeadTailProperties DEF AckWrite, Typed, TypeOK
<1>2. e \in ServerCqe /\ e.op # "recv"
  BY <1>1 DEF ServerCqe, Write
<1>3. scq' = Append(scq, e)
  BY DEF AckWrite
<1> HIDE DEF e
<1>4. TypeOK'
  <2>1. scq' \in Seq(ServerCqe)
    BY <1>2, <1>3, AppendProperties DEF Typed, TypeOK
  <2>2. writeAck' \in [Conns -> Seq(Write)]
    BY <1>1 DEF AckWrite, Typed, TypeOK
  <2> QED
    BY <2>1, <2>2 DEF AckWrite, Typed, TypeOK, clientVars, serverVars
<1>5. RequestFilled'
  BY DEF AckWrite, Typed, RequestFilled, clientVars
<1>6. SlotFilled'
  <2>1. RecvSlots(scq') = RecvSlots(scq)
    BY <1>2, <1>3, RecvSlotsAppend DEF Typed, TypeOK
  <2>2. LiveSlots' \subseteq LiveSlots
    BY <2>1 DEF AckWrite, LiveSlots, ServedSlots, serverVars
  <2> QED
    BY <2>2, SlotFilledKept DEF AckWrite, Typed, SlotFilled, serverVars
<1> QED
  BY <1>4, <1>5, <1>6 DEF Typed

LEMMA ServerPollTyped ==
  ASSUME Typed, NEW t \in SThreads, ServerPoll(t)
  PROVE  Typed'
<1>1. Polled(scq) \in Seq(ServerCqe) /\ LeftInCq(scq) \in Seq(ServerCqe)
  BY PollTypes DEF Typed, TypeOK
<1>2. TypeOK'
  BY <1>1 DEF ServerPoll, Typed, TypeOK, clientVars, wireVars
<1>3. RequestFilled'
  BY DEF ServerPoll, Typed, RequestFilled, clientVars, wireVars
<1>4. SlotFilled'
  <2>1. /\ RecvSlots(scq) = RecvSlots(Polled(scq)) \cup RecvSlots(LeftInCq(scq))
        /\ scq' = LeftInCq(scq)
        /\ \A u \in SThreads : swc'[u] = IF u = t THEN Polled(scq) ELSE swc[u]
    BY RecvSlotsPoll DEF ServerPoll, Typed, TypeOK
  <2>2. LiveSlots' \subseteq LiveSlots
    BY <2>1 DEF ServerPoll, LiveSlots, ServedSlots, wireVars
  <2> QED
    BY <2>2, SlotFilledKept DEF ServerPoll, Typed, SlotFilled
<1> QED
  BY <1>2, <1>3, <1>4 DEF Typed

LEMMA OnRecvReqTyped ==
  ASSUME Typed, NEW t \in SThreads, OnRecvReq(t)
  PROVE  Typed'
<1> DEFINE wc == Head(swc[t])
           x  == [conn |-> wc.conn, rkey |-> wc.imm,
                  id |-> srvBuf[wc.slot].id, mr |-> srvBuf[wc.slot].mr]
<1>1. /\ swc[t] \in Seq(ServerCqe) /\ swc[t] # <<>>
      /\ wc \in ServerCqe /\ wc.op = "recv" /\ Tail(swc[t]) \in Seq(ServerCqe)
  BY HeadTailProperties DEF OnRecvReq, AtServerCqe, Typed, TypeOK
<1>2. wc.slot \in Slots /\ wc.conn \in Conns /\ wc.imm \in Mrs
  BY <1>1 DEF ServerCqe
<1>3. /\ RecvSlots(Tail(swc[t])) \subseteq RecvSlots(swc[t])
      /\ wc.slot \in RecvSlots(swc[t])
  BY <1>1, RecvSlotsTail
<1>4. wc.slot \in LiveSlots
  BY <1>3 DEF LiveSlots
<1>5. srvBuf[wc.slot] \in Message
  BY <1>2, <1>4 DEF Typed, TypeOK, SlotFilled
<1>6. x \in ReqCtx /\ x # None
  BY <1>2, <1>5, NoneIsNew DEF ReqCtx, Message
<1>7. /\ reqCtx' = [reqCtx EXCEPT ![wc.slot] = x]
      /\ handling' = handling \cup {wc.slot}
      /\ swc' = [swc EXCEPT ![t] = Tail(@)]
  BY DEF OnRecvReq
<1> HIDE DEF wc, x
<1>8. TypeOK'
  <2>1. /\ reqCtx' \in [Slots -> ReqCtx \cup {None}]
        /\ handling' \in SUBSET Slots
        /\ swc' \in [SThreads -> Seq(ServerCqe)]
    BY <1>1, <1>2, <1>6, <1>7 DEF Typed, TypeOK
  <2> QED
    BY <2>1 DEF OnRecvReq, Typed, TypeOK, clientVars, wireVars
<1>9. RequestFilled'
  BY DEF OnRecvReq, Typed, RequestFilled, clientVars, wireVars
<1>10. SlotFilled'
  <2>1. \A u \in SThreads : swc'[u] = IF u = t THEN Tail(swc[t]) ELSE swc[u]
    BY <1>7 DEF Typed, TypeOK
  <2>2. LiveSlots' \subseteq LiveSlots
    BY <2>1, <1>3, <1>4, <1>7 DEF OnRecvReq, LiveSlots, ServedSlots, wireVars
  <2>3. \A s \in handling' : reqCtx'[s] # None
    BY <1>2, <1>6, <1>7 DEF Typed, TypeOK, SlotFilled
  <2> QED
    BY <2>2, <2>3, SlotFilledKept DEF OnRecvReq, Typed
<1> QED
  BY <1>8, <1>9, <1>10 DEF Typed

LEMMA MakeRespTyped ==
  ASSUME Typed, NEW s \in Slots, MakeResp(s)
  PROVE  Typed'
<1> DEFINE r == reqCtx[s]
           w == [slot |-> s, id |-> r.id, mr |-> r.mr, rkey |-> r.rkey]
<1>1. r \in ReqCtx
  BY DEF MakeResp, Typed, TypeOK, SlotFilled
<1>2. w \in Write /\ r.conn \in Conns /\ w.slot = s
  BY <1>1 DEF ReqCtx, Write
<1> HIDE DEF w, r
<1>3. CASE fault' = "server_exit" /\ UNCHANGED <<handling, writeQ>>
  <2>1. TypeOK'
    BY <1>3 DEF MakeResp, Typed, TypeOK, clientVars
  <2> QED
    BY <2>1, <1>3, FilledUnchanged DEF MakeResp, Typed, clientVars, serverVars
<1>4. CASE /\ writeQ' = [writeQ EXCEPT ![r.conn] = Append(@, w)]
           /\ handling' = handling \ {s} /\ UNCHANGED fault
  <2>1. /\ writeQ' \in [Conns -> Seq(Write)]
        /\ \A d \in Conns : SlotsOf(writeQ'[d]) \subseteq SlotsOf(writeQ[d]) \cup {s}
    BY <1>2, <1>4, AppendSlots, AppendProperties DEF Typed, TypeOK
  <2>2. TypeOK'
    BY <2>1, <1>4 DEF MakeResp, Typed, TypeOK, clientVars
  <2>3. RequestFilled'
    BY DEF MakeResp, Typed, RequestFilled, clientVars
  <2>4. LiveSlots' \subseteq LiveSlots
    BY <2>1, <1>4 DEF MakeResp, LiveSlots, ServedSlots
  <2>5. SlotFilled'
    BY <2>4, <1>4, SlotFilledKept DEF MakeResp, Typed, SlotFilled
  <2> QED
    BY <2>2, <2>3, <2>5 DEF Typed
<1> QED
  BY <1>3, <1>4 DEF MakeResp, w, r

LEMMA OnWriteRespDoneTyped ==
  ASSUME Typed, NEW t \in SThreads, OnWriteRespDone(t)
  PROVE  Typed'
<1>1. /\ swc[t] \in Seq(ServerCqe) /\ swc[t] # <<>>
      /\ Head(swc[t]) \in ServerCqe /\ Tail(swc[t]) \in Seq(ServerCqe)
  BY HeadTailProperties DEF OnWriteRespDone, AtServerCqe, Typed, TypeOK
<1>2. Head(swc[t]).slot \in Slots
  BY <1>1 DEF ServerCqe
<1>3. RecvSlots(Tail(swc[t])) \subseteq RecvSlots(swc[t])
  BY <1>1, RecvSlotsTail
<1>4. TypeOK'
  BY <1>1, <1>2 DEF OnWriteRespDone, Typed, TypeOK, clientVars, wireVars
<1>5. RequestFilled'
  BY DEF OnWriteRespDone, Typed, RequestFilled, clientVars, wireVars
<1>6. SlotFilled'
  <2>1. \A u \in SThreads : swc'[u] = IF u = t THEN Tail(swc[t]) ELSE swc[u]
    BY DEF OnWriteRespDone, Typed, TypeOK
  <2>2. LiveSlots' \subseteq LiveSlots
    BY <2>1, <1>3 DEF OnWriteRespDone, LiveSlots, ServedSlots, wireVars
  <2> QED
    BY <2>2, SlotFilledKept DEF OnWriteRespDone, Typed, SlotFilled
<1> QED
  BY <1>4, <1>5, <1>6 DEF Typed

LEMMA TypedStep == Typed /\ [Next]_vars => Typed'
<1> SUFFICES ASSUME Typed, [Next]_vars PROVE Typed'
  OBVIOUS
<1>1. CASE UNCHANGED vars
  <2>1. TypeOK'
    BY <1>1 DEF Typed, TypeOK, vars, clientVars, wireVars, serverVars
  <2> QED
    BY <1>1, <2>1, FilledUnchanged DEF Typed, vars, clientVars, wireVars, serverVars
<1>2. ASSUME NEW t \in CThreads, ClientStep(t) PROVE Typed'
  BY <1>2, SendReqTyped, PostRecvTyped, PostSendTyped, ClientPollTyped,
     OnSendReqTyped, OnRecvRespTyped, MempoolPutTyped DEF ClientStep
<1>3. ASSUME NEW c \in Conns, WireStep(c) PROVE Typed'
  BY <1>3, DeliverReqTyped, RnrNakTyped, AckReqTyped, DeliverRespTyped,
     AckWriteTyped DEF WireStep
<1>4. ASSUME NEW t \in SThreads, ServerStep(t) PROVE Typed'
  BY <1>4, ServerPollTyped, OnRecvReqTyped, OnWriteRespDoneTyped DEF ServerStep
<1>5. ASSUME NEW s \in Slots, MakeResp(s) PROVE Typed'
  BY <1>5, MakeRespTyped
<1> QED
  BY <1>1, <1>2, <1>3, <1>4, <1>5 DEF Next

(* Every step of kv_rdma.c keeps every variable's type, and what is sent   *)
(* has been written.                                                       *)
THEOREM AlwaysTyped == Safety => []Typed
BY TypedInit, TypedStep, PTL DEF Safety

THEOREM TypeCorrect == Safety => []TypeOK
BY AlwaysTyped, PTL DEF Typed

-----------------------------------------------------------------------------
(* Slots are conserved.                                                    *)

Srq == <<"srq", None>>
Handling == <<"handling", None>>
Scq == <<"scq", None>>
Swc(t) == <<"swc", t>>
WriteQ(c) == <<"writeQ", c>>
WriteAck(c) == <<"writeAck", c>>

LEMMA PlaceKinds ==
  ASSUME NEW p \in Places
  PROVE  \/ p \in {Srq, Handling, Scq}
         \/ \E t \in SThreads : p = Swc(t)
         \/ \E c \in Conns : p = WriteQ(c) \/ p = WriteAck(c)
BY DEF Places, Srq, Handling, Scq, Swc, WriteQ, WriteAck

LEMMA SlotsAtPlaces ==
  /\ SlotsAt(Srq) = srq /\ SlotsAt(Handling) = handling
  /\ SlotsAt(Scq) = SlotsOf(scq)
  /\ \A t \in SThreads : SlotsAt(Swc(t)) = SlotsOf(swc[t])
  /\ \A c \in Conns : /\ SlotsAt(WriteQ(c)) = SlotsOf(writeQ[c])
                      /\ SlotsAt(WriteAck(c)) = SlotsOf(writeAck[c])
BY DEF SlotsAt, Srq, Handling, Scq, Swc, WriteQ, WriteAck

LEMMA SlotsAtPlacesNext ==
  /\ SlotsAt(Srq)' = srq' /\ SlotsAt(Handling)' = handling'
  /\ SlotsAt(Scq)' = SlotsOf(scq')
  /\ \A t \in SThreads : SlotsAt(Swc(t))' = SlotsOf(swc'[t])
  /\ \A c \in Conns : /\ SlotsAt(WriteQ(c))' = SlotsOf(writeQ'[c])
                      /\ SlotsAt(WriteAck(c))' = SlotsOf(writeAck'[c])
BY DEF SlotsAt, Srq, Handling, Scq, Swc, WriteQ, WriteAck

(* A slot that is in one place is in no other.                             *)
LEMMA Elsewhere ==
  ASSUME SlotInOnePlace, NEW a \in Places, NEW b \in Places, a # b,
         NEW s \in Slots, s \in SlotsAt(a)
  PROVE  s \notin SlotsAt(b)
BY DEF SlotInOnePlace

(* A step that moves some slots from one place to another keeps every slot *)
(* in exactly one place.                                                   *)
LEMMA SlotsMove ==
  ASSUME SlotInOnePlace, NEW a \in Places, NEW b \in Places, a # b,
         NEW X, X \subseteq SlotsAt(a),
         SlotsAt(a)' = SlotsAt(a) \ X, SlotsAt(b)' = SlotsAt(b) \cup X,
         \A p \in Places \ {a, b} : SlotsAt(p)' = SlotsAt(p)
  PROVE  SlotInOnePlace'
<1> SUFFICES ASSUME NEW s \in Slots
             PROVE  \E p \in Places : /\ s \in SlotsAt(p)'
                                    /\ \A q \in Places \ {p} : s \notin SlotsAt(q)'
  BY DEF SlotInOnePlace, Places
<1>1. PICK p \in Places : s \in SlotsAt(p) /\ \A q \in Places \ {p} : s \notin SlotsAt(q)
  BY DEF SlotInOnePlace
<1>2. CASE s \in X
  <2>1. p = a
    BY <1>1, <1>2
  <2> QED
    BY <1>1, <1>2, <2>1
<1>3. CASE s \notin X
  BY <1>1, <1>3
<1> QED
  BY <1>2, <1>3

LEMMA SlotMoves ==
  ASSUME SlotInOnePlace, NEW a \in Places, NEW b \in Places, a # b,
         NEW s, s \in SlotsAt(a),
         SlotsAt(a)' = SlotsAt(a) \ {s}, SlotsAt(b)' = SlotsAt(b) \cup {s},
         \A p \in Places \ {a, b} : SlotsAt(p)' = SlotsAt(p)
  PROVE  SlotInOnePlace'
<1> DEFINE X == {s}
<1>1. /\ X \subseteq SlotsAt(a)
      /\ SlotsAt(a)' = SlotsAt(a) \ X /\ SlotsAt(b)' = SlotsAt(b) \cup X
  OBVIOUS
<1> HIDE DEF X
<1> QED
  BY <1>1, SlotsMove

LEMMA SlotsStay ==
  ASSUME SlotConserved, UNCHANGED <<srq, handling, scq, swc, writeQ, writeAck>>
  PROVE  SlotConserved'
<1>1. \A p : SlotsAt(p)' = SlotsAt(p)
  BY DEF SlotsAt
<1>2. SlotInOnePlace'
  BY <1>1 DEF SlotConserved, SlotInOnePlace, Places
<1>3. SlotQueuedOnce'
  BY DEF SlotConserved, SlotQueuedOnce
<1> QED
  BY <1>2, <1>3 DEF SlotConserved

LEMMA SlotsInit == Init => SlotConserved
<1> SUFFICES ASSUME Init PROVE SlotConserved
  OBVIOUS
<1>1. /\ SlotsAt(Srq) = Slots
      /\ \A p \in Places \ {Srq} : SlotsAt(p) = {}
  BY SlotsAtPlaces, PlaceKinds, RecvSlotsEmpty DEF Init
<1>2. Srq \in Places
  BY DEF Srq, Places
<1>3. SlotInOnePlace
  BY <1>1, <1>2 DEF SlotInOnePlace
<1>4. SlotQueuedOnce
  BY DEF Init, SlotQueuedOnce, OncePerSlot
<1> QED
  BY <1>3, <1>4 DEF SlotConserved

LEMMA DeliverReqSlots ==
  ASSUME Typed, SlotConserved, NEW c \in Conns, DeliverReq(c)
  PROVE  SlotConserved'
<1>1. PICK s \in srq, e \in ServerCqe :
        e.slot = s /\ srq' = srq \ {s} /\ scq' = Append(scq, e)
  <2>1. Head(sendQ[c]) \in Mrs
    BY HeadTailProperties DEF DeliverReq, Typed, TypeOK
  <2>2. PICK s \in srq :
          /\ srq' = srq \ {s}
          /\ scq' = Append(scq, [op |-> "recv", conn |-> c, slot |-> s,
                                 imm |-> Head(sendQ[c])])
    BY DEF DeliverReq
  <2>3. s \in Slots
    BY DEF Typed, TypeOK
  <2>4. [op |-> "recv", conn |-> c, slot |-> s, imm |-> Head(sendQ[c])] \in ServerCqe
    BY <2>1, <2>3 DEF ServerCqe
  <2> QED
    BY <2>2, <2>4
<1>2. s \in Slots /\ scq \in Seq(ServerCqe)
  BY DEF Typed, TypeOK
<1>3. Srq \in Places /\ Scq \in Places /\ Srq # Scq
  BY DEF Places, Srq, Scq
<1>4. s \notin SlotsOf(scq)
  BY <1>2, <1>3, Elsewhere, SlotsAtPlaces DEF SlotConserved
<1>5. /\ SlotsOf(scq') = SlotsOf(scq) \cup {s}
      /\ OncePerSlot(scq')
  BY <1>1, <1>2, <1>4, AppendSlots DEF SlotConserved, SlotQueuedOnce
<1>6. UNCHANGED <<handling, swc, writeQ, writeAck>>
  BY DEF DeliverReq, serverVars
<1>7. SlotInOnePlace'
  <2>1. /\ SlotsAt(Srq)' = SlotsAt(Srq) \ {s}
        /\ SlotsAt(Scq)' = SlotsAt(Scq) \cup {s}
    BY <1>1, <1>5, SlotsAtPlaces, SlotsAtPlacesNext
  <2>2. \A p \in Places \ {Srq, Scq} : SlotsAt(p)' = SlotsAt(p)
    BY <1>6, PlaceKinds, SlotsAtPlaces, SlotsAtPlacesNext
  <2>3. s \in SlotsAt(Srq)
    BY <1>1, SlotsAtPlaces
  <2> QED
    BY <1>3, <2>1, <2>2, <2>3, SlotMoves DEF SlotConserved
<1>8. SlotQueuedOnce'
  BY <1>5, <1>6 DEF SlotConserved, SlotQueuedOnce
<1> QED
  BY <1>7, <1>8 DEF SlotConserved

LEMMA DeliverRespSlots ==
  ASSUME Typed, SlotConserved, NEW c \in Conns, DeliverResp(c)
  PROVE  SlotConserved'
<1>1. /\ writeQ[c] \in Seq(Write) /\ writeQ[c] # <<>>
      /\ Head(writeQ[c]) \in Write /\ writeAck[c] \in Seq(Write)
  BY HeadTailProperties DEF DeliverResp, Typed, TypeOK
<1>2. PICK w \in Write : w = Head(writeQ[c]) /\ w.slot \in Slots
  BY <1>1 DEF Write
<1>3. /\ writeQ' = [writeQ EXCEPT ![c] = Tail(writeQ[c])]
      /\ writeAck' = [writeAck EXCEPT ![c] = Append(writeAck[c], w)]
      /\ UNCHANGED <<srq, handling, scq, swc>>
  BY <1>2 DEF DeliverResp, serverVars
<1>4. /\ SlotsOf(writeQ[c]) = SlotsOf(Tail(writeQ[c])) \cup {w.slot}
      /\ w.slot \notin SlotsOf(Tail(writeQ[c]))
      /\ OncePerSlot(Tail(writeQ[c]))
  BY <1>1, <1>2, TailSlots DEF SlotConserved, SlotQueuedOnce
<1>5. WriteQ(c) \in Places /\ WriteAck(c) \in Places /\ WriteQ(c) # WriteAck(c)
  BY DEF Places, WriteQ, WriteAck
<1>6. w.slot \notin SlotsOf(writeAck[c])
  BY <1>2, <1>4, <1>5, Elsewhere, SlotsAtPlaces DEF SlotConserved
<1>7. /\ SlotsOf(Append(writeAck[c], w)) = SlotsOf(writeAck[c]) \cup {w.slot}
      /\ OncePerSlot(Append(writeAck[c], w))
  BY <1>1, <1>2, <1>6, AppendSlots DEF SlotConserved, SlotQueuedOnce
<1>8. /\ writeQ'[c] = Tail(writeQ[c]) /\ writeAck'[c] = Append(writeAck[c], w)
      /\ \A d \in Conns \ {c} : writeQ'[d] = writeQ[d] /\ writeAck'[d] = writeAck[d]
  BY <1>3 DEF Typed, TypeOK
<1>9. SlotInOnePlace'
  <2>1. /\ SlotsAt(WriteQ(c))' = SlotsAt(WriteQ(c)) \ {w.slot}
        /\ SlotsAt(WriteAck(c))' = SlotsAt(WriteAck(c)) \cup {w.slot}
        /\ w.slot \in SlotsAt(WriteQ(c))
    BY <1>4, <1>7, <1>8, SlotsAtPlaces, SlotsAtPlacesNext
  <2>2. \A p \in Places \ {WriteQ(c), WriteAck(c)} : SlotsAt(p)' = SlotsAt(p)
    BY <1>3, <1>8, PlaceKinds, SlotsAtPlaces, SlotsAtPlacesNext
  <2> QED
    BY <1>5, <2>1, <2>2, SlotMoves DEF SlotConserved
<1>10. SlotQueuedOnce'
  BY <1>3, <1>4, <1>7, <1>8 DEF SlotConserved, SlotQueuedOnce
<1> QED
  BY <1>9, <1>10 DEF SlotConserved

LEMMA AckWriteSlots ==
  ASSUME Typed, SlotConserved, NEW c \in Conns, AckWrite(c)
  PROVE  SlotConserved'
<1>1. /\ writeAck[c] \in Seq(Write) /\ writeAck[c] # <<>>
      /\ Head(writeAck[c]) \in Write /\ scq \in Seq(ServerCqe)
  BY HeadTailProperties DEF AckWrite, Typed, TypeOK
<1>2. PICK s \in Slots, e \in ServerCqe :
        /\ s = Head(writeAck[c]).slot /\ e.slot = s
        /\ e = [op |-> "write", conn |-> c, slot |-> s, imm |-> None]
  BY <1>1 DEF Write, ServerCqe
<1>3. /\ writeAck' = [writeAck EXCEPT ![c] = Tail(writeAck[c])]
      /\ scq' = Append(scq, e)
      /\ UNCHANGED <<srq, handling, swc, writeQ>>
  BY <1>2 DEF AckWrite, serverVars
<1>4. /\ SlotsOf(writeAck[c]) = SlotsOf(Tail(writeAck[c])) \cup {s}
      /\ s \notin SlotsOf(Tail(writeAck[c]))
      /\ OncePerSlot(Tail(writeAck[c]))
  BY <1>1, <1>2, TailSlots DEF SlotConserved, SlotQueuedOnce
<1>5. WriteAck(c) \in Places /\ Scq \in Places /\ WriteAck(c) # Scq
  BY DEF Places, Scq, WriteAck
<1>6. s \notin SlotsOf(scq)
  BY <1>2, <1>4, <1>5, Elsewhere, SlotsAtPlaces DEF SlotConserved
<1>7. /\ SlotsOf(scq') = SlotsOf(scq) \cup {s}
      /\ OncePerSlot(scq')
  BY <1>1, <1>2, <1>3, <1>6, AppendSlots DEF SlotConserved, SlotQueuedOnce
<1>8. /\ writeAck'[c] = Tail(writeAck[c])
      /\ \A d \in Conns \ {c} : writeAck'[d] = writeAck[d]
  BY <1>3 DEF Typed, TypeOK
<1>9. SlotInOnePlace'
  <2>1. /\ SlotsAt(WriteAck(c))' = SlotsAt(WriteAck(c)) \ {s}
        /\ SlotsAt(Scq)' = SlotsAt(Scq) \cup {s}
        /\ s \in SlotsAt(WriteAck(c))
    BY <1>4, <1>7, <1>8, SlotsAtPlaces, SlotsAtPlacesNext
  <2>2. \A p \in Places \ {WriteAck(c), Scq} : SlotsAt(p)' = SlotsAt(p)
    BY <1>3, <1>8, PlaceKinds, SlotsAtPlaces, SlotsAtPlacesNext
  <2> QED
    BY <1>5, <2>1, <2>2, SlotMoves DEF SlotConserved
<1>10. SlotQueuedOnce'
  BY <1>3, <1>4, <1>7, <1>8 DEF SlotConserved, SlotQueuedOnce
<1> QED
  BY <1>9, <1>10 DEF SlotConserved

LEMMA ServerPollSlots ==
  ASSUME Typed, SlotConserved, NEW t \in SThreads, ServerPoll(t)
  PROVE  SlotConserved'
<1>1. /\ swc[t] = <<>> /\ swc' = [swc EXCEPT ![t] = Polled(scq)]
      /\ scq' = LeftInCq(scq)
      /\ UNCHANGED <<srq, handling, writeQ, writeAck>>
  BY DEF ServerPoll, wireVars
<1>2. /\ SlotsOf(scq) = SlotsOf(Polled(scq)) \cup SlotsOf(scq')
      /\ OncePerSlot(Polled(scq)) /\ OncePerSlot(scq')
      /\ SlotsOf(Polled(scq)) \cap SlotsOf(scq') = {}
  BY <1>1, PollSlots DEF Typed, TypeOK, SlotConserved, SlotQueuedOnce
<1>3. swc'[t] = Polled(scq) /\ \A u \in SThreads \ {t} : swc'[u] = swc[u]
  BY <1>1 DEF Typed, TypeOK
<1>4. SlotInOnePlace'
  <2>1. Scq \in Places /\ Swc(t) \in Places /\ Scq # Swc(t)
    BY DEF Places, Scq, Swc
  <2>2. /\ SlotsAt(Scq)' = SlotsAt(Scq) \ SlotsOf(Polled(scq))
        /\ SlotsAt(Swc(t))' = SlotsAt(Swc(t)) \cup SlotsOf(Polled(scq))
        /\ SlotsOf(Polled(scq)) \subseteq SlotsAt(Scq)
    BY <1>1, <1>2, <1>3, RecvSlotsEmpty, SlotsAtPlaces, SlotsAtPlacesNext
  <2>3. \A p \in Places \ {Scq, Swc(t)} : SlotsAt(p)' = SlotsAt(p)
    BY <1>1, <1>3, PlaceKinds, SlotsAtPlaces, SlotsAtPlacesNext
  <2> QED
    BY <2>1, <2>2, <2>3, SlotsMove DEF SlotConserved
<1>5. SlotQueuedOnce'
  BY <1>1, <1>2, <1>3 DEF SlotConserved, SlotQueuedOnce
<1> QED
  BY <1>4, <1>5 DEF SlotConserved

(* A poller's next completion: its slot is nowhere else.                   *)
LEMMA NextServerCqe ==
  ASSUME Typed, SlotConserved, NEW t \in SThreads, swc[t] # <<>>
  PROVE  \E s \in Slots :
           /\ s = Head(swc[t]).slot /\ s \in SlotsAt(Swc(t))
           /\ SlotsOf(Tail(swc[t])) = SlotsAt(Swc(t)) \ {s}
           /\ OncePerSlot(Tail(swc[t]))
<1>1. swc[t] \in Seq(ServerCqe) /\ Head(swc[t]) \in ServerCqe
  BY HeadTailProperties DEF Typed, TypeOK
<1>2. Head(swc[t]).slot \in Slots
  BY <1>1 DEF ServerCqe
<1>3. /\ SlotsOf(swc[t]) = SlotsOf(Tail(swc[t])) \cup {Head(swc[t]).slot}
      /\ Head(swc[t]).slot \notin SlotsOf(Tail(swc[t]))
      /\ OncePerSlot(Tail(swc[t]))
  BY <1>1, TailSlots DEF SlotConserved, SlotQueuedOnce
<1> QED
  BY <1>2, <1>3, SlotsAtPlaces

LEMMA OnRecvReqSlots ==
  ASSUME Typed, SlotConserved, NEW t \in SThreads, OnRecvReq(t)
  PROVE  SlotConserved'
<1>1. swc[t] # <<>>
  BY DEF OnRecvReq, AtServerCqe
<1>2. PICK s \in Slots :
        /\ s = Head(swc[t]).slot /\ s \in SlotsAt(Swc(t))
        /\ SlotsOf(Tail(swc[t])) = SlotsAt(Swc(t)) \ {s}
        /\ OncePerSlot(Tail(swc[t]))
  BY <1>1, NextServerCqe
<1>3. /\ handling' = handling \cup {s} /\ swc' = [swc EXCEPT ![t] = Tail(swc[t])]
      /\ UNCHANGED <<srq, scq, writeQ, writeAck>>
  BY <1>2 DEF OnRecvReq, wireVars
<1>4. swc'[t] = Tail(swc[t]) /\ \A u \in SThreads \ {t} : swc'[u] = swc[u]
  BY <1>3 DEF Typed, TypeOK
<1>5. SlotInOnePlace'
  <2>1. Handling \in Places /\ Swc(t) \in Places /\ Handling # Swc(t)
    BY DEF Places, Handling, Swc
  <2>2. /\ SlotsAt(Swc(t))' = SlotsAt(Swc(t)) \ {s}
        /\ SlotsAt(Handling)' = SlotsAt(Handling) \cup {s}
    BY <1>2, <1>3, <1>4, SlotsAtPlaces, SlotsAtPlacesNext
  <2>3. \A p \in Places \ {Swc(t), Handling} : SlotsAt(p)' = SlotsAt(p)
    BY <1>3, <1>4, PlaceKinds, SlotsAtPlaces, SlotsAtPlacesNext
  <2> QED
    BY <1>2, <2>1, <2>2, <2>3, SlotMoves DEF SlotConserved
<1>6. SlotQueuedOnce'
  BY <1>2, <1>3, <1>4 DEF SlotConserved, SlotQueuedOnce
<1> QED
  BY <1>5, <1>6 DEF SlotConserved

LEMMA OnWriteRespDoneSlots ==
  ASSUME Typed, SlotConserved, NEW t \in SThreads, OnWriteRespDone(t)
  PROVE  SlotConserved'
<1>1. swc[t] # <<>>
  BY DEF OnWriteRespDone, AtServerCqe
<1>2. PICK s \in Slots :
        /\ s = Head(swc[t]).slot /\ s \in SlotsAt(Swc(t))
        /\ SlotsOf(Tail(swc[t])) = SlotsAt(Swc(t)) \ {s}
        /\ OncePerSlot(Tail(swc[t]))
  BY <1>1, NextServerCqe
<1>3. /\ srq' = srq \cup {s} /\ swc' = [swc EXCEPT ![t] = Tail(swc[t])]
      /\ UNCHANGED <<handling, scq, writeQ, writeAck>>
  BY <1>2 DEF OnWriteRespDone, wireVars
<1>4. swc'[t] = Tail(swc[t]) /\ \A u \in SThreads \ {t} : swc'[u] = swc[u]
  BY <1>3 DEF Typed, TypeOK
<1>5. SlotInOnePlace'
  <2>1. Srq \in Places /\ Swc(t) \in Places /\ Srq # Swc(t)
    BY DEF Places, Srq, Swc
  <2>2. /\ SlotsAt(Swc(t))' = SlotsAt(Swc(t)) \ {s}
        /\ SlotsAt(Srq)' = SlotsAt(Srq) \cup {s}
    BY <1>2, <1>3, <1>4, SlotsAtPlaces, SlotsAtPlacesNext
  <2>3. \A p \in Places \ {Swc(t), Srq} : SlotsAt(p)' = SlotsAt(p)
    BY <1>3, <1>4, PlaceKinds, SlotsAtPlaces, SlotsAtPlacesNext
  <2> QED
    BY <1>2, <2>1, <2>2, <2>3, SlotMoves DEF SlotConserved
<1>6. SlotQueuedOnce'
  BY <1>2, <1>3, <1>4 DEF SlotConserved, SlotQueuedOnce
<1> QED
  BY <1>5, <1>6 DEF SlotConserved

LEMMA MakeRespSlots ==
  ASSUME Typed, SlotConserved, NEW s \in Slots, MakeResp(s)
  PROVE  SlotConserved'
<1>1. reqCtx[s] \in ReqCtx
  BY DEF MakeResp, Typed, TypeOK, SlotFilled
<1>2. PICK c \in Conns, w \in Write :
        /\ w.slot = s /\ c = reqCtx[s].conn
        /\ w = [slot |-> s, id |-> reqCtx[s].id, mr |-> reqCtx[s].mr,
                rkey |-> reqCtx[s].rkey]
  BY <1>1 DEF ReqCtx, Write
<1>3. CASE UNCHANGED <<handling, writeQ>>
  BY <1>3, SlotsStay DEF MakeResp
<1>4. CASE handling' = handling \ {s} /\ writeQ' = [writeQ EXCEPT ![c] = Append(@, w)]
  <2>1. s \in handling /\ UNCHANGED <<srq, scq, swc, writeAck>>
    BY DEF MakeResp
  <2>2. Handling \in Places /\ WriteQ(c) \in Places /\ Handling # WriteQ(c)
    BY <1>2 DEF Places, Handling, WriteQ
  <2>3. s \notin SlotsOf(writeQ[c])
    BY <1>2, <2>1, <2>2, Elsewhere, SlotsAtPlaces DEF SlotConserved
  <2>4. writeQ'[c] = Append(writeQ[c], w) /\ \A d \in Conns \ {c} : writeQ'[d] = writeQ[d]
    BY <1>2, <1>4 DEF Typed, TypeOK
  <2>5. SlotsOf(writeQ'[c]) = SlotsOf(writeQ[c]) \cup {s} /\ OncePerSlot(writeQ'[c])
    BY <1>2, <2>3, <2>4, AppendSlots DEF Typed, TypeOK, SlotConserved, SlotQueuedOnce
  <2>6. SlotInOnePlace'
    <3>1. /\ SlotsAt(Handling)' = SlotsAt(Handling) \ {s}
          /\ SlotsAt(WriteQ(c))' = SlotsAt(WriteQ(c)) \cup {s}
          /\ s \in SlotsAt(Handling)
      BY <1>2, <1>4, <2>1, <2>5, SlotsAtPlaces, SlotsAtPlacesNext
    <3>2. \A p \in Places \ {Handling, WriteQ(c)} : SlotsAt(p)' = SlotsAt(p)
      BY <2>1, <2>4, PlaceKinds, SlotsAtPlaces, SlotsAtPlacesNext
    <3> QED
      BY <2>2, <3>1, <3>2, SlotMoves DEF SlotConserved
  <2>7. SlotQueuedOnce'
    BY <2>1, <2>4, <2>5 DEF SlotConserved, SlotQueuedOnce
  <2> QED
    BY <2>6, <2>7 DEF SlotConserved
<1> QED
  BY <1>2, <1>3, <1>4 DEF MakeResp

LEMMA SlotsStep == Typed /\ SlotConserved /\ [Next]_vars => SlotConserved'
<1> SUFFICES ASSUME Typed, SlotConserved, [Next]_vars PROVE SlotConserved'
  OBVIOUS
<1>1. CASE UNCHANGED vars
  BY <1>1, SlotsStay DEF vars, wireVars, serverVars
<1>2. ASSUME NEW t \in CThreads, ClientStep(t) PROVE SlotConserved'
  <2>1. UNCHANGED <<srq, handling, scq, swc, writeQ, writeAck>>
    BY <1>2 DEF ClientStep, SendReq, PostRecv, PostSend, SendFail, ClientPoll,
       OnSendReq, OnRecvResp, MempoolPut, wireVars, serverVars
  <2> QED
    BY <2>1, SlotsStay
<1>3. ASSUME NEW c \in Conns, WireStep(c) PROVE SlotConserved'
  <2>1. CASE RnrNak(c) \/ AckReq(c)
    BY <2>1, SlotsStay DEF RnrNak, AckReq, serverVars, wireVars
  <2> QED
    BY <1>3, <2>1, DeliverReqSlots, DeliverRespSlots, AckWriteSlots DEF WireStep
<1>4. ASSUME NEW t \in SThreads, ServerStep(t) PROVE SlotConserved'
  BY <1>4, ServerPollSlots, OnRecvReqSlots, OnWriteRespDoneSlots DEF ServerStep
<1>5. ASSUME NEW s \in Slots, MakeResp(s) PROVE SlotConserved'
  BY <1>5, MakeRespSlots
<1> QED
  BY <1>1, <1>2, <1>3, <1>4, <1>5 DEF Next

(* A slot of the server is always in exactly one place, once: handled,     *)
(* answered and posted again without being lost or used twice.             *)
THEOREM SlotsConserved == Safety => []SlotConserved
<1>1. Init => Typed /\ SlotConserved
  BY TypedInit, SlotsInit
<1>2. (Typed /\ SlotConserved) /\ [Next]_vars => (Typed /\ SlotConserved)'
  BY TypedStep, SlotsStep
<1> QED
  BY <1>1, <1>2, PTL DEF Safety

-----------------------------------------------------------------------------
(* What a handler sees does not change under it.                           *)

LEMMA RecvSlotsQueued == ASSUME NEW q PROVE RecvSlots(q) \subseteq SlotsOf(q)
BY DEF RecvSlots, RecvCqes, SlotsOf

(* A live slot is not posted, a served one is in no poller's batch.        *)
LEMMA LiveNotPosted ==
  ASSUME SlotConserved, NEW s \in Slots, s \in LiveSlots
  PROVE  s \notin srq
<1>1. \E p \in Places \ {Srq} : s \in SlotsAt(p)
  <2>1. CASE s \in ServedSlots
    <3>1. CASE s \in handling
      BY <3>1, SlotsAtPlaces DEF Places, Srq, Handling
    <3>2. ASSUME NEW c \in Conns, s \in SlotsOf(writeQ[c])
          PROVE  \E p \in Places \ {Srq} : s \in SlotsAt(p)
      <4>1. WriteQ(c) \in Places \ {Srq}
        BY DEF Places, Srq, WriteQ
      <4> QED
        BY <3>2, <4>1, SlotsAtPlaces
    <3> QED
      BY <2>1, <3>1, <3>2 DEF ServedSlots
  <2>2. CASE s \in RecvSlots(scq)
    <3>1. Scq \in Places \ {Srq}
      BY DEF Places, Srq, Scq
    <3> QED
      BY <2>2, <3>1, RecvSlotsQueued, SlotsAtPlaces
  <2>3. ASSUME NEW t \in SThreads, s \in RecvSlots(swc[t])
        PROVE  \E p \in Places \ {Srq} : s \in SlotsAt(p)
    <3>1. Swc(t) \in Places \ {Srq}
      BY DEF Places, Srq, Swc
    <3> QED
      BY <2>3, <3>1, RecvSlotsQueued, SlotsAtPlaces
  <2> QED
    BY <2>1, <2>2, <2>3 DEF LiveSlots
<1>2. Srq \in Places
  BY DEF Places, Srq
<1> QED
  BY <1>1, <1>2, Elsewhere, SlotsAtPlaces DEF SlotConserved

LEMMA ServedNotPolled ==
  ASSUME SlotConserved, NEW s \in Slots, s \in ServedSlots, NEW t \in SThreads
  PROVE  s \notin SlotsAt(Swc(t))
<1>1. Swc(t) \in Places
  BY DEF Places, Swc
<1>2. CASE s \in handling
  <2>1. Handling \in Places /\ Handling # Swc(t)
    BY DEF Places, Handling, Swc
  <2> QED
    BY <1>1, <1>2, <2>1, Elsewhere, SlotsAtPlaces DEF SlotConserved
<1>3. ASSUME NEW c \in Conns, s \in SlotsOf(writeQ[c])
      PROVE  s \notin SlotsAt(Swc(t))
  <2>1. WriteQ(c) \in Places /\ WriteQ(c) # Swc(t)
    BY DEF Places, WriteQ, Swc
  <2> QED
    BY <1>1, <1>3, <2>1, Elsewhere, SlotsAtPlaces DEF SlotConserved
<1> QED
  BY <1>2, <1>3 DEF ServedSlots

LEMMA HandlerViewStep ==
  Typed /\ SlotConserved /\ [Next]_vars => [HandlerViewKept]_vars
<1> SUFFICES ASSUME Typed, SlotConserved, Next PROVE HandlerViewKept
  OBVIOUS
<1>1. CASE UNCHANGED <<srvBuf, reqCtx>>
  BY <1>1 DEF HandlerViewKept
<1>2. ASSUME NEW c \in Conns, DeliverReq(c) PROVE HandlerViewKept
  <2>1. UNCHANGED reqCtx
    BY <1>2 DEF DeliverReq, serverVars
  <2>2. ASSUME NEW s \in Slots, s \in LiveSlots PROVE srvBuf'[s] = srvBuf[s]
    <3>1. s \notin srq
      BY <2>2, LiveNotPosted
    <3> QED
      BY <1>2, <3>1 DEF DeliverReq, Typed, TypeOK
  <2> QED
    BY <2>1, <2>2 DEF HandlerViewKept
<1>3. ASSUME NEW t \in SThreads, OnRecvReq(t) PROVE HandlerViewKept
  <2>1. UNCHANGED srvBuf /\ swc[t] # <<>>
    BY <1>3 DEF OnRecvReq, AtServerCqe
  <2>2. PICK r \in Slots : r = Head(swc[t]).slot /\ r \in SlotsAt(Swc(t))
    BY <2>1, NextServerCqe
  <2>3. ASSUME NEW s \in Slots, s \in ServedSlots PROVE reqCtx'[s] = reqCtx[s]
    <3>1. s # r
      BY <2>2, <2>3, ServedNotPolled
    <3> QED
      BY <1>3, <2>2, <3>1 DEF OnRecvReq, Typed, TypeOK
  <2> QED
    BY <2>1, <2>3 DEF HandlerViewKept
<1>4. ASSUME NEW t \in CThreads, ClientStep(t) PROVE UNCHANGED <<srvBuf, reqCtx>>
  BY <1>4 DEF ClientStep, SendReq, PostRecv, PostSend, SendFail, ClientPoll,
     OnSendReq, OnRecvResp, MempoolPut, serverVars
<1>5. ASSUME NEW c \in Conns, WireStep(c), ~DeliverReq(c)
      PROVE  UNCHANGED <<srvBuf, reqCtx>>
  BY <1>5 DEF WireStep, RnrNak, AckReq, DeliverResp, AckWrite, serverVars
<1>6. ASSUME NEW t \in SThreads, ServerStep(t), ~OnRecvReq(t)
      PROVE  UNCHANGED <<srvBuf, reqCtx>>
  BY <1>6 DEF ServerStep, ServerPoll, OnWriteRespDone
<1>7. ASSUME NEW s \in Slots, MakeResp(s) PROVE UNCHANGED <<srvBuf, reqCtx>>
  BY <1>7 DEF MakeResp
<1> QED
  BY <1>1, <1>2, <1>3, <1>4, <1>5, <1>6, <1>7 DEF Next

(* From the receive completion to the response neither the buffer nor the  *)
(* context of a slot changes, however the pollers, the handler's own       *)
(* threads and the wire interleave.                                        *)
THEOREM HandlerViewIsStable == Safety => HandlerViewStable
<1>1. Safety => [](Typed /\ SlotConserved)
  BY AlwaysTyped, SlotsConserved, PTL
<1> QED
  BY <1>1, HandlerViewStep, PTL DEF Safety, HandlerViewStable

-----------------------------------------------------------------------------
(* The requests, on top of the slots: the places a request can be in, and  *)
(* that each step moves a request from one place to another or leaves all  *)
(* where they are.                                                         *)

(* Queues of things that have a key, or None.                              *)

Keys(q, key) == {key[q[i]] : i \in DOMAIN q} \ {None}

KeyedOnce(q, key) ==
  \A i, j \in DOMAIN q : key[q[i]] # None /\ key[q[i]] = key[q[j]] => i = j

LEMMA KeysEmpty ==
  ASSUME NEW key PROVE Keys(<<>>, key) = {} /\ KeyedOnce(<<>>, key)
BY DEF Keys, KeyedOnce

(* Two keys that agree on what is in the queue.                            *)
LEMMA KeysAgree ==
  ASSUME NEW q, NEW key, NEW other, \A i \in DOMAIN q : key[q[i]] = other[q[i]]
  PROVE  Keys(q, key) = Keys(q, other) /\ (KeyedOnce(q, key) => KeyedOnce(q, other))
BY DEF Keys, KeyedOnce

LEMMA KeysTail ==
  ASSUME NEW S, NEW q \in Seq(S), NEW key, q # <<>>
  PROVE  /\ Keys(q, key) = Keys(Tail(q), key) \cup ({key[Head(q)]} \ {None})
         /\ KeyedOnce(q, key) => /\ KeyedOnce(Tail(q), key)
                                 /\ key[Head(q)] \notin Keys(Tail(q), key)
<1> DEFINE r == Tail(q)
<1>1. /\ DOMAIN q = 1..Len(q) /\ Len(q) \in Nat \ {0}
      /\ DOMAIN r = 1..(Len(q) - 1)
      /\ \A i \in 1..(Len(q) - 1) : r[i] = q[i + 1]
      /\ Head(q) = q[1]
  BY HeadTailProperties, EmptySeq, LenProperties
<1> HIDE DEF r
<1>2. \A i \in DOMAIN r : i + 1 \in DOMAIN q /\ i + 1 # 1 /\ r[i] = q[i + 1]
  BY <1>1
<1>3. \A i \in DOMAIN q : i = 1 \/ (i - 1 \in DOMAIN r /\ r[i - 1] = q[i])
  BY <1>1
<1>4. 1 \in DOMAIN q
  BY <1>1
<1>5. Keys(q, key) \subseteq Keys(r, key) \cup ({key[q[1]]} \ {None})
  BY <1>3 DEF Keys
<1>6. Keys(r, key) \subseteq Keys(q, key)
  BY <1>2 DEF Keys
<1>7. {key[q[1]]} \ {None} \subseteq Keys(q, key)
  BY <1>4 DEF Keys
<1>8. ASSUME KeyedOnce(q, key) PROVE KeyedOnce(r, key)
  <2> SUFFICES ASSUME NEW i \in DOMAIN r, NEW j \in DOMAIN r,
                      key[r[i]] # None, key[r[i]] = key[r[j]]
               PROVE  i = j
    BY DEF KeyedOnce
  <2>1. i + 1 = j + 1
    BY <1>2, <1>8 DEF KeyedOnce
  <2> QED
    BY <2>1, <1>1
<1>9. ASSUME KeyedOnce(q, key) PROVE key[q[1]] \notin Keys(r, key)
  BY <1>2, <1>4, <1>9 DEF Keys, KeyedOnce
<1> QED
  BY <1>1, <1>5, <1>6, <1>7, <1>8, <1>9 DEF r

LEMMA KeysAppend ==
  ASSUME NEW S, NEW q \in Seq(S), NEW e \in S, NEW key
  PROVE  /\ Keys(Append(q, e), key) = Keys(q, key) \cup ({key[e]} \ {None})
         /\ KeyedOnce(q, key) /\ key[e] \notin Keys(q, key)
              => KeyedOnce(Append(q, e), key)
<1> DEFINE r == Append(q, e)
           n == Len(q) + 1
<1>1. /\ DOMAIN q = 1..Len(q) /\ Len(q) \in Nat
      /\ DOMAIN r = 1..n
      /\ \A i \in 1..Len(q) : r[i] = q[i]
      /\ r[n] = e
  BY AppendProperties, LenProperties
<1>2. n = Len(q) + 1
  OBVIOUS
<1> HIDE DEF r, n
<1>3. /\ \A i \in DOMAIN r : (i \in DOMAIN q /\ r[i] = q[i]) \/ i = n
      /\ \A i \in DOMAIN q : i \in DOMAIN r /\ r[i] = q[i]
      /\ n \in DOMAIN r
  BY <1>1, <1>2
<1>4. Keys(r, key) \subseteq Keys(q, key) \cup ({key[e]} \ {None})
  BY <1>1, <1>3 DEF Keys
<1>5. Keys(q, key) \cup ({key[e]} \ {None}) \subseteq Keys(r, key)
  BY <1>1, <1>3 DEF Keys
<1>6. ASSUME KeyedOnce(q, key), key[e] \notin Keys(q, key) PROVE KeyedOnce(r, key)
  BY <1>1, <1>3, <1>6 DEF Keys, KeyedOnce
<1> QED
  BY <1>4, <1>5, <1>6 DEF r

(* ibv_poll_cq splits the keys of a completion queue.                      *)
LEMMA KeysPoll ==
  ASSUME NEW S, NEW q \in Seq(S), NEW key
  PROVE  /\ Keys(q, key) = Keys(Polled(q), key) \cup Keys(LeftInCq(q), key)
         /\ KeyedOnce(q, key) =>
              /\ KeyedOnce(Polled(q), key) /\ KeyedOnce(LeftInCq(q), key)
              /\ Keys(Polled(q), key) \cap Keys(LeftInCq(q), key) = {}
<1> DEFINE n == PollCount(q)
           a == Polled(q)
           b == LeftInCq(q)
<1>1. /\ DOMAIN q = 1..Len(q) /\ DOMAIN a = 1..n /\ DOMAIN b = 1..(Len(q) - n)
      /\ Len(q) \in Nat /\ n \in 0..Len(q)
      /\ \A i \in 1..n : a[i] = q[i]
      /\ \A i \in 1..(Len(q) - n) : b[i] = q[i + n]
  BY PollTypes, LenProperties
<1> HIDE DEF n, a, b
<1>2. \A i \in DOMAIN a : i \in DOMAIN q /\ a[i] = q[i]
  BY <1>1
<1>3. \A i \in DOMAIN b : i + n \in DOMAIN q /\ b[i] = q[i + n]
  BY <1>1
<1>4. \A i \in DOMAIN q : \/ i \in DOMAIN a /\ a[i] = q[i]
                          \/ i - n \in DOMAIN b /\ b[i - n] = q[i]
  BY <1>1
<1>5. \A i \in DOMAIN a, j \in DOMAIN b : i # j + n
  BY <1>1
<1>6. \A i, j \in DOMAIN b : i + n = j + n => i = j
  BY <1>1
<1>7. Keys(q, key) \subseteq Keys(a, key) \cup Keys(b, key)
  BY <1>4 DEF Keys
<1>8. Keys(a, key) \subseteq Keys(q, key) /\ Keys(b, key) \subseteq Keys(q, key)
  BY <1>2, <1>3 DEF Keys
<1>9. ASSUME KeyedOnce(q, key)
      PROVE  /\ KeyedOnce(a, key) /\ KeyedOnce(b, key)
             /\ Keys(a, key) \cap Keys(b, key) = {}
  <2>1. KeyedOnce(a, key)
    BY <1>2, <1>9 DEF KeyedOnce
  <2>2. KeyedOnce(b, key)
    BY <1>3, <1>6, <1>9 DEF KeyedOnce
  <2>3. Keys(a, key) \cap Keys(b, key) = {}
    BY <1>2, <1>3, <1>5, <1>9 DEF KeyedOnce, Keys
  <2> QED
    BY <2>1, <2>2, <2>3
<1> QED
  BY <1>7, <1>8, <1>9 DEF a, b

-----------------------------------------------------------------------------
(* Where the requests are: in a call of kv_rdma_send_req, in a send queue, *)
(* in a slot, or answered and named by a completion of the client.         *)

(* The buffer pair whose request a completion at the client answers.       *)
Answers == [e \in ClientCqe |-> IF e.op = "recv" THEN ctx[e.conn][e.id] ELSE None]
Itself  == [m \in Mrs |-> m]

Call_(t)  == <<"call", t>>
SendQ_(c) == <<"sendQ", c>>
Slot_(s)  == <<"slot", s>>
Ccq_      == <<"ccq", None>>
Cwc_(t)   == <<"cwc", t>>

RequestSites ==
  {Call_(t) : t \in CThreads} \cup {SendQ_(c) : c \in Conns}
  \cup {Slot_(s) : s \in Slots} \cup {Ccq_} \cup {Cwc_(t) : t \in CThreads}

MrsAt(p) ==
  CASE p[1] = "call"  -> IF call[p[2]] = None THEN {} ELSE {call[p[2]].mr}
    [] p[1] = "sendQ" -> Keys(sendQ[p[2]], Itself)
    [] p[1] = "slot"  -> IF p[2] \in LiveSlots THEN {srvBuf[p[2]].mr} ELSE {}
    [] p[1] = "ccq"   -> Keys(ccq, Answers)
    [] p[1] = "cwc"   -> Keys(cwc[p[2]], Answers)

RequestInOneSite ==
  /\ \A m \in busy : \E p \in RequestSites :
       m \in MrsAt(p) /\ \A q \in RequestSites \ {p} : m \notin MrsAt(q)
  /\ \A m \in Mrs \ busy : \A p \in RequestSites : m \notin MrsAt(p)

RequestQueuedOnce ==
  /\ \A c \in Conns : KeyedOnce(sendQ[c], Itself)
  /\ KeyedOnce(ccq, Answers)
  /\ \A t \in CThreads : KeyedOnce(cwc[t], Answers)

RequestsSited == RequestInOneSite /\ RequestQueuedOnce

LEMMA SitesDiffer ==
  /\ \A t, u \in CThreads : Call_(t) # Cwc_(u)
  /\ \A t, u \in CThreads : t # u => Call_(t) # Call_(u) /\ Cwc_(t) # Cwc_(u)
  /\ \A c, d \in Conns : c # d => SendQ_(c) # SendQ_(d)
  /\ \A s, r \in Slots : s # r => Slot_(s) # Slot_(r)
  /\ \A t \in CThreads, c \in Conns : Call_(t) # SendQ_(c) /\ Cwc_(t) # SendQ_(c)
  /\ \A t \in CThreads, s \in Slots : Call_(t) # Slot_(s) /\ Cwc_(t) # Slot_(s)
  /\ \A t \in CThreads : Call_(t) # Ccq_ /\ Cwc_(t) # Ccq_
  /\ \A c \in Conns, s \in Slots : SendQ_(c) # Slot_(s)
  /\ \A c \in Conns : SendQ_(c) # Ccq_
  /\ \A s \in Slots : Slot_(s) # Ccq_
BY DEF Call_, Cwc_, SendQ_, Slot_, Ccq_

LEMMA SiteKinds ==
  ASSUME NEW p \in RequestSites
  PROVE  \/ p = Ccq_
         \/ \E t \in CThreads : p = Call_(t) \/ p = Cwc_(t)
         \/ \E c \in Conns : p = SendQ_(c)
         \/ \E s \in Slots : p = Slot_(s)
BY DEF RequestSites

LEMMA SitesAre ==
  /\ Ccq_ \in RequestSites
  /\ \A t \in CThreads : Call_(t) \in RequestSites /\ Cwc_(t) \in RequestSites
  /\ \A c \in Conns : SendQ_(c) \in RequestSites
  /\ \A s \in Slots : Slot_(s) \in RequestSites
BY DEF RequestSites

LEMMA MrsAtSites ==
  /\ MrsAt(Ccq_) = Keys(ccq, Answers)
  /\ \A t : MrsAt(Call_(t)) = IF call[t] = None THEN {} ELSE {call[t].mr}
  /\ \A t : MrsAt(Cwc_(t)) = Keys(cwc[t], Answers)
  /\ \A c : MrsAt(SendQ_(c)) = Keys(sendQ[c], Itself)
  /\ \A s : MrsAt(Slot_(s)) = IF s \in LiveSlots THEN {srvBuf[s].mr} ELSE {}
BY DEF MrsAt, Call_, Cwc_, SendQ_, Slot_, Ccq_

LEMMA MrsAtSitesNext ==
  /\ MrsAt(Ccq_)' = Keys(ccq', Answers')
  /\ \A t : MrsAt(Call_(t))' = IF call'[t] = None THEN {} ELSE {call'[t].mr}
  /\ \A t : MrsAt(Cwc_(t))' = Keys(cwc'[t], Answers')
  /\ \A c : MrsAt(SendQ_(c))' = Keys(sendQ'[c], Itself)
  /\ \A s : MrsAt(Slot_(s))' = IF s \in LiveSlots' THEN {srvBuf'[s].mr} ELSE {}
BY DEF MrsAt, Call_, Cwc_, SendQ_, Slot_, Ccq_, Keys, Itself

(* What a step does to one kind of site.                                   *)
LEMMA CallsSame ==
  ASSUME NEW t, call'[t] = call[t] PROVE MrsAt(Call_(t))' = MrsAt(Call_(t))
BY MrsAtSites, MrsAtSitesNext

LEMMA SendQSame ==
  ASSUME NEW c, sendQ'[c] = sendQ[c] PROVE MrsAt(SendQ_(c))' = MrsAt(SendQ_(c))
BY MrsAtSites, MrsAtSitesNext

LEMMA SlotsSame ==
  ASSUME UNCHANGED srvBuf, LiveSlots' = LiveSlots
  PROVE  \A s : MrsAt(Slot_(s))' = MrsAt(Slot_(s))
BY MrsAtSites, MrsAtSitesNext

LEMMA AnswersSame == ASSUME UNCHANGED ctx PROVE Answers' = Answers
BY DEF Answers

LEMMA CcqSame ==
  ASSUME UNCHANGED <<ccq, ctx>> PROVE MrsAt(Ccq_)' = MrsAt(Ccq_)
BY MrsAtSites, MrsAtSitesNext, AnswersSame

LEMMA CwcSame ==
  ASSUME NEW t, cwc'[t] = cwc[t], UNCHANGED ctx PROVE MrsAt(Cwc_(t))' = MrsAt(Cwc_(t))
BY MrsAtSites, MrsAtSitesNext, AnswersSame

LEMMA SiteElsewhere ==
  ASSUME RequestInOneSite, NEW a \in RequestSites, NEW b \in RequestSites, a # b,
         NEW m \in Mrs, m \in MrsAt(a)
  PROVE  m \in busy /\ m \notin MrsAt(b)
BY DEF RequestInOneSite

(* A step that moves requests from a site to another, one that lets a      *)
(* request in, one that lets it go, and one that does none of these.       *)
LEMMA RequestsMove ==
  ASSUME RequestInOneSite, NEW a \in RequestSites, NEW b \in RequestSites, a # b,
         NEW X, X \subseteq MrsAt(a), UNCHANGED busy,
         MrsAt(a)' = MrsAt(a) \ X, MrsAt(b)' = MrsAt(b) \cup X,
         \A p \in RequestSites \ {a, b} : MrsAt(p)' = MrsAt(p)
  PROVE  RequestInOneSite'
<1>1. ASSUME NEW m \in busy'
      PROVE  \E p \in RequestSites :
               m \in MrsAt(p)' /\ \A q \in RequestSites \ {p} : m \notin MrsAt(q)'
  <2>1. PICK p \in RequestSites :
          m \in MrsAt(p) /\ \A q \in RequestSites \ {p} : m \notin MrsAt(q)
    BY <1>1 DEF RequestInOneSite
  <2>2. CASE m \in X
    BY <2>1, <2>2
  <2>3. CASE m \notin X
    BY <2>1, <2>3
  <2> QED
    BY <2>2, <2>3
<1>2. ASSUME NEW m \in Mrs \ busy', NEW p \in RequestSites PROVE m \notin MrsAt(p)'
  BY <1>2 DEF RequestInOneSite
<1> QED
  BY <1>1, <1>2 DEF RequestInOneSite, RequestSites, Call_, SendQ_, Slot_, Ccq_, Cwc_

LEMMA RequestEnters ==
  ASSUME RequestInOneSite, NEW b \in RequestSites, NEW m \in Mrs \ busy,
         busy' = busy \cup {m}, MrsAt(b)' = MrsAt(b) \cup {m},
         \A p \in RequestSites \ {b} : MrsAt(p)' = MrsAt(p)
  PROVE  RequestInOneSite'
<1>1. ASSUME NEW n \in busy'
      PROVE  \E p \in RequestSites :
               n \in MrsAt(p)' /\ \A q \in RequestSites \ {p} : n \notin MrsAt(q)'
  <2>1. CASE n = m
    BY <2>1 DEF RequestInOneSite
  <2>2. CASE n # m
    <3>1. PICK p \in RequestSites :
            n \in MrsAt(p) /\ \A q \in RequestSites \ {p} : n \notin MrsAt(q)
      BY <1>1, <2>2 DEF RequestInOneSite
    <3> QED
      BY <3>1, <2>2
  <2> QED
    BY <2>1, <2>2
<1>2. ASSUME NEW n \in Mrs \ busy', NEW p \in RequestSites PROVE n \notin MrsAt(p)'
  BY <1>2 DEF RequestInOneSite
<1> QED
  BY <1>1, <1>2 DEF RequestInOneSite, RequestSites, Call_, SendQ_, Slot_, Ccq_, Cwc_

LEMMA RequestLeaves ==
  ASSUME RequestInOneSite, NEW a \in RequestSites, NEW m \in Mrs, m \in MrsAt(a),
         busy' = busy \ {m}, MrsAt(a)' = MrsAt(a) \ {m},
         \A p \in RequestSites \ {a} : MrsAt(p)' = MrsAt(p)
  PROVE  RequestInOneSite'
<1>1. ASSUME NEW n \in busy'
      PROVE  \E p \in RequestSites :
               n \in MrsAt(p)' /\ \A q \in RequestSites \ {p} : n \notin MrsAt(q)'
  <2>1. PICK p \in RequestSites :
          n \in MrsAt(p) /\ \A q \in RequestSites \ {p} : n \notin MrsAt(q)
    BY <1>1 DEF RequestInOneSite
  <2> QED
    BY <2>1, <1>1
<1>2. ASSUME NEW n \in Mrs \ busy', NEW p \in RequestSites PROVE n \notin MrsAt(p)'
  <2>1. CASE n = m
    BY <2>1, SiteElsewhere
  <2>2. CASE n # m
    BY <1>2, <2>2 DEF RequestInOneSite
  <2> QED
    BY <2>1, <2>2
<1> QED
  BY <1>1, <1>2 DEF RequestInOneSite, RequestSites, Call_, SendQ_, Slot_, Ccq_, Cwc_

LEMMA RequestsStay ==
  ASSUME RequestInOneSite, UNCHANGED busy,
         \A p \in RequestSites : MrsAt(p)' = MrsAt(p)
  PROVE  RequestInOneSite'
BY DEF RequestInOneSite, RequestSites, Call_, SendQ_, Slot_, Ccq_, Cwc_

-----------------------------------------------------------------------------
(* The slots that hold an unanswered request.                              *)

LEMMA RecvSlotsHead ==
  ASSUME NEW S, NEW q \in Seq(S), q # <<>>
  PROVE  /\ Head(q).op = "recv" => RecvSlots(q) = RecvSlots(Tail(q)) \cup {Head(q).slot}
         /\ Head(q).op # "recv" => RecvSlots(q) = RecvSlots(Tail(q))
<1> DEFINE r == Tail(q)
<1>1. /\ DOMAIN q = 1..Len(q) /\ Len(q) \in Nat \ {0}
      /\ DOMAIN r = 1..(Len(q) - 1)
      /\ \A i \in 1..(Len(q) - 1) : r[i] = q[i + 1]
      /\ Head(q) = q[1]
  BY HeadTailProperties, EmptySeq, LenProperties
<1> HIDE DEF r
<1>2. \A i \in DOMAIN q : i = 1 \/ (i - 1 \in DOMAIN r /\ r[i - 1] = q[i])
  BY <1>1
<1>3. RecvSlots(q) \subseteq RecvSlots(r) \cup {q[1].slot}
  BY <1>2 DEF RecvSlots, RecvCqes
<1>4. q[1].op # "recv" => RecvSlots(q) \subseteq RecvSlots(r)
  BY <1>2 DEF RecvSlots, RecvCqes
<1>5. RecvSlots(r) \subseteq RecvSlots(q) /\ (q[1].op = "recv" => q[1].slot \in RecvSlots(q))
  BY <1>1, RecvSlotsTail DEF r
<1> QED
  BY <1>1, <1>3, <1>4, <1>5 DEF r

LEMMA LiveIs ==
  /\ \A s : s \in LiveSlots <=> \/ s \in ServedSlots
                                \/ s \in RecvSlots(scq)
                                \/ \E t \in SThreads : s \in RecvSlots(swc[t])
  /\ \A s : s \in ServedSlots <=> \/ s \in handling
                                  \/ \E c \in Conns : s \in SlotsOf(writeQ[c])
BY DEF LiveSlots, ServedSlots

LEMMA LiveIsNext ==
  /\ \A s : s \in LiveSlots' <=> \/ s \in ServedSlots'
                                 \/ s \in RecvSlots(scq')
                                 \/ \E t \in SThreads : s \in RecvSlots(swc'[t])
  /\ \A s : s \in ServedSlots' <=> \/ s \in handling'
                                   \/ \E c \in Conns : s \in SlotsOf(writeQ'[c])
BY DEF LiveSlots, ServedSlots, RecvSlots, RecvCqes, SlotsOf

LEMMA LiveSame ==
  ASSUME UNCHANGED <<handling, writeQ, scq, swc>>
  PROVE  LiveSlots' = LiveSlots /\ ServedSlots' = ServedSlots
BY DEF LiveSlots, ServedSlots

(* A slot that is in one place only holds one request.                     *)
LEMMA LiveOnce ==
  ASSUME SlotConserved, NEW s \in Slots
  PROVE  /\ s \in handling => \A c \in Conns : s \notin SlotsOf(writeQ[c])
         /\ \A c, d \in Conns :
              s \in SlotsOf(writeQ[c]) /\ s \in SlotsOf(writeQ[d]) => c = d
         /\ s \in ServedSlots => /\ s \notin SlotsOf(scq)
                                 /\ \A t \in SThreads : s \notin SlotsOf(swc[t])
         /\ s \in SlotsOf(scq) => \A t \in SThreads : s \notin SlotsOf(swc[t])
         /\ \A t, u \in SThreads :
              s \in SlotsOf(swc[t]) /\ s \in SlotsOf(swc[u]) => t = u
<1>1. /\ Handling \in Places /\ Scq \in Places
      /\ \A t \in SThreads : Swc(t) \in Places
      /\ \A c \in Conns : WriteQ(c) \in Places
  BY DEF Places, Handling, Scq, Swc, WriteQ
<1>2. /\ Handling # Scq
      /\ \A t \in SThreads : Handling # Swc(t) /\ Scq # Swc(t)
      /\ \A c \in Conns : Handling # WriteQ(c) /\ Scq # WriteQ(c)
      /\ \A t \in SThreads, c \in Conns : Swc(t) # WriteQ(c)
      /\ \A t, u \in SThreads : t # u => Swc(t) # Swc(u)
      /\ \A c, d \in Conns : c # d => WriteQ(c) # WriteQ(d)
  BY DEF Handling, Scq, Swc, WriteQ
<1>3. \A a, b \in Places : a # b /\ s \in SlotsAt(a) => s \notin SlotsAt(b)
  BY Elsewhere DEF SlotConserved
<1>4. s \in handling => \A c \in Conns : s \notin SlotsOf(writeQ[c])
  BY <1>1, <1>2, <1>3, SlotsAtPlaces
<1>5. \A c, d \in Conns : s \in SlotsOf(writeQ[c]) /\ s \in SlotsOf(writeQ[d]) => c = d
  BY <1>1, <1>2, <1>3, SlotsAtPlaces
<1>6. ASSUME s \in ServedSlots
      PROVE  s \notin SlotsOf(scq) /\ \A t \in SThreads : s \notin SlotsOf(swc[t])
  BY <1>1, <1>2, <1>3, <1>6, SlotsAtPlaces, LiveIs
<1>7. s \in SlotsOf(scq) => \A t \in SThreads : s \notin SlotsOf(swc[t])
  BY <1>1, <1>2, <1>3, SlotsAtPlaces
<1>8. \A t, u \in SThreads : s \in SlotsOf(swc[t]) /\ s \in SlotsOf(swc[u]) => t = u
  BY <1>1, <1>2, <1>3, SlotsAtPlaces
<1> QED
  BY <1>4, <1>5, <1>6, <1>7, <1>8

LEMMA DeliverReqLive ==
  ASSUME Typed, SlotConserved, NEW c \in Conns, DeliverReq(c)
  PROVE  \E s \in Slots :
           LET m == Head(sendQ[c]) IN
             /\ srvBuf' = [srvBuf EXCEPT ![s] = [id |-> reqHdr[m], mr |-> m,
                                                 val |-> reqBuf[m]]]
             /\ scq' = Append(scq, [op |-> "recv", conn |-> c, slot |-> s, imm |-> m])
             /\ s \in srq /\ s \notin LiveSlots
             /\ LiveSlots' = LiveSlots \cup {s}
             /\ ServedSlots' = ServedSlots
<1> DEFINE m == Head(sendQ[c])
<1>1. PICK s \in srq :
        /\ srvBuf' = [srvBuf EXCEPT ![s] = [id |-> reqHdr[m], mr |-> m,
                                            val |-> reqBuf[m]]]
        /\ scq' = Append(scq, [op |-> "recv", conn |-> c, slot |-> s, imm |-> m])
  BY DEF DeliverReq
<1>2. s \in Slots /\ m \in Mrs /\ scq \in Seq(ServerCqe)
  BY HeadTailProperties DEF Typed, TypeOK, DeliverReq
<1>3. s \notin LiveSlots
  BY <1>2, LiveNotPosted
<1>4. UNCHANGED <<handling, writeQ, swc>>
  BY DEF DeliverReq, serverVars
<1> DEFINE e == [op |-> "recv", conn |-> c, slot |-> s, imm |-> m]
<1>5. e \in ServerCqe /\ e.op = "recv" /\ e.slot = s /\ scq' = Append(scq, e)
  BY <1>1, <1>2 DEF ServerCqe
<1> HIDE DEF e
<1>6. RecvSlots(scq') = RecvSlots(scq) \cup {s}
  BY <1>2, <1>5, RecvSlotsAppend
<1>7. ServedSlots' = ServedSlots
  BY <1>4 DEF ServedSlots
<1>8. LiveSlots' = LiveSlots \cup {s}
  BY <1>4, <1>6, <1>7 DEF LiveSlots, RecvSlots, RecvCqes
<1> QED
  BY <1>1, <1>2, <1>3, <1>7, <1>8

LEMMA DeliverRespLive ==
  ASSUME Typed, SlotConserved, NEW c \in Conns, DeliverResp(c)
  PROVE  LET s == Head(writeQ[c]).slot IN
           /\ s \in Slots /\ s \in ServedSlots /\ s \in LiveSlots
           /\ LiveSlots' = LiveSlots \ {s}
           /\ ServedSlots' = ServedSlots \ {s}
<1> DEFINE s == Head(writeQ[c]).slot
<1>1. writeQ[c] \in Seq(Write) /\ writeQ[c] # <<>> /\ Head(writeQ[c]) \in Write
  BY HeadTailProperties DEF Typed, TypeOK, DeliverResp
<1>2. s \in Slots
  BY <1>1 DEF Write
<1>3. /\ SlotsOf(writeQ[c]) = SlotsOf(Tail(writeQ[c])) \cup {s}
      /\ s \notin SlotsOf(Tail(writeQ[c]))
  BY <1>1, TailSlots DEF SlotConserved, SlotQueuedOnce
<1>4. /\ writeQ'[c] = Tail(writeQ[c])
      /\ \A d \in Conns \ {c} : writeQ'[d] = writeQ[d]
      /\ UNCHANGED <<handling, scq, swc>>
  BY DEF Typed, TypeOK, DeliverResp, serverVars
<1> HIDE DEF s
<1>5. s \in ServedSlots /\ s \in LiveSlots
  BY <1>3, LiveIs
<1>6. /\ s \notin handling
      /\ \A d \in Conns \ {c} : s \notin SlotsOf(writeQ[d])
      /\ s \notin SlotsOf(scq)
      /\ \A t \in SThreads : s \notin SlotsOf(swc[t])
  BY <1>2, <1>3, <1>5, LiveOnce
<1>7. /\ s \notin RecvSlots(scq)
      /\ \A t \in SThreads : s \notin RecvSlots(swc[t])
  BY <1>6, RecvSlotsQueued
<1>8. ASSUME NEW r PROVE r \in ServedSlots' <=> r \in ServedSlots \ {s}
  BY <1>3, <1>4, <1>6, LiveIs, LiveIsNext
<1>9. ASSUME NEW r PROVE r \in LiveSlots' <=> r \in LiveSlots \ {s}
  BY <1>4, <1>7, <1>8, LiveIs, LiveIsNext
<1> QED
  BY <1>2, <1>5, <1>8, <1>9 DEF s

LEMMA AckWriteLive ==
  ASSUME Typed, SlotConserved, NEW c \in Conns, AckWrite(c)
  PROVE  LiveSlots' = LiveSlots /\ ServedSlots' = ServedSlots
<1>1. writeAck[c] \in Seq(Write) /\ writeAck[c] # <<>> /\ scq \in Seq(ServerCqe)
  BY DEF Typed, TypeOK, AckWrite
<1>2. Head(writeAck[c]) \in Write
  BY <1>1, HeadTailProperties
<1>3. Head(writeAck[c]).slot \in Slots
  BY <1>2 DEF Write
<1> DEFINE e == [op |-> "write", conn |-> c, slot |-> Head(writeAck[c]).slot, imm |-> None]
<1>4. e \in ServerCqe /\ e.op = "write" /\ scq' = Append(scq, e)
  BY <1>3 DEF ServerCqe, AckWrite
<1> HIDE DEF e
<1>5. RecvSlots(scq') = RecvSlots(scq)
  BY <1>1, <1>4, RecvSlotsAppend
<1>6. UNCHANGED <<handling, writeQ, swc>>
  BY DEF AckWrite, serverVars
<1> QED
  BY <1>5, <1>6 DEF LiveSlots, ServedSlots, RecvSlots, RecvCqes

LEMMA ServerPollLive ==
  ASSUME Typed, NEW t \in SThreads, ServerPoll(t)
  PROVE  LiveSlots' = LiveSlots /\ ServedSlots' = ServedSlots
<1>1. RecvSlots(scq) = RecvSlots(Polled(scq)) \cup RecvSlots(LeftInCq(scq))
  BY RecvSlotsPoll DEF Typed, TypeOK
<1>2. /\ scq' = LeftInCq(scq)
      /\ swc[t] = <<>> /\ swc'[t] = Polled(scq)
      /\ \A u \in SThreads \ {t} : swc'[u] = swc[u]
      /\ UNCHANGED <<handling, writeQ>>
  BY DEF Typed, TypeOK, ServerPoll, wireVars
<1>3. ServedSlots' = ServedSlots
  BY <1>2 DEF ServedSlots
<1>4. ASSUME NEW r PROVE r \in LiveSlots' <=> r \in LiveSlots
  BY <1>1, <1>2, <1>3, RecvSlotsEmpty, LiveIs, LiveIsNext
<1> QED
  BY <1>3, <1>4

LEMMA OnRecvReqLive ==
  ASSUME Typed, SlotConserved, NEW t \in SThreads, OnRecvReq(t)
  PROVE  LET s == Head(swc[t]).slot IN
           /\ s \in Slots /\ s \in LiveSlots /\ s \notin ServedSlots
           /\ s \notin RecvSlots(Tail(swc[t]))
           /\ LiveSlots' = LiveSlots
           /\ ServedSlots' = ServedSlots \cup {s}
<1> DEFINE s == Head(swc[t]).slot
<1>1. /\ swc[t] \in Seq(ServerCqe) /\ swc[t] # <<>> /\ Head(swc[t]) \in ServerCqe
      /\ Head(swc[t]).op = "recv"
  BY HeadTailProperties DEF Typed, TypeOK, OnRecvReq, AtServerCqe
<1>2. s \in Slots
  BY <1>1 DEF ServerCqe
<1>3. RecvSlots(swc[t]) = RecvSlots(Tail(swc[t])) \cup {s}
  BY <1>1, RecvSlotsHead
<1>4. s \notin SlotsOf(Tail(swc[t])) /\ s \in SlotsOf(swc[t])
  BY <1>1, TailSlots DEF SlotConserved, SlotQueuedOnce
<1>5. /\ handling' = handling \cup {s}
      /\ swc'[t] = Tail(swc[t])
      /\ \A u \in SThreads \ {t} : swc'[u] = swc[u]
      /\ UNCHANGED <<scq, writeQ>>
  BY DEF Typed, TypeOK, OnRecvReq, wireVars
<1> HIDE DEF s
<1>6. s \in LiveSlots /\ s \notin ServedSlots
  BY <1>2, <1>3, <1>4, LiveIs, LiveOnce
<1>7. ASSUME NEW r PROVE r \in ServedSlots' <=> r \in ServedSlots \cup {s}
  BY <1>5, LiveIs, LiveIsNext
<1>8. ASSUME NEW r PROVE r \in LiveSlots' <=> r \in LiveSlots
  BY <1>3, <1>5, <1>7, LiveIs, LiveIsNext
<1> QED
  BY <1>2, <1>4, <1>6, <1>7, <1>8, RecvSlotsQueued DEF s

LEMMA OnWriteRespDoneLive ==
  ASSUME Typed, NEW t \in SThreads, OnWriteRespDone(t)
  PROVE  LiveSlots' = LiveSlots /\ ServedSlots' = ServedSlots
<1>1. /\ swc[t] \in Seq(ServerCqe) /\ swc[t] # <<>> /\ Head(swc[t]).op = "write"
  BY DEF Typed, TypeOK, OnWriteRespDone, AtServerCqe
<1>2. RecvSlots(swc[t]) = RecvSlots(Tail(swc[t]))
  BY <1>1, RecvSlotsHead
<1>3. /\ swc'[t] = Tail(swc[t])
      /\ \A u \in SThreads \ {t} : swc'[u] = swc[u]
      /\ UNCHANGED <<scq, writeQ, handling>>
  BY DEF Typed, TypeOK, OnWriteRespDone, wireVars
<1>4. ServedSlots' = ServedSlots
  BY <1>3 DEF ServedSlots
<1>5. ASSUME NEW r PROVE r \in LiveSlots' <=> r \in LiveSlots
  BY <1>2, <1>3, <1>4, LiveIs, LiveIsNext
<1> QED
  BY <1>4, <1>5

LEMMA MakeRespLive ==
  ASSUME Typed, NEW s \in Slots, MakeResp(s)
  PROVE  LiveSlots' = LiveSlots /\ ServedSlots' = ServedSlots
<1>1. reqCtx[s] \in ReqCtx
  BY DEF MakeResp, Typed, TypeOK, SlotFilled
<1>2. CASE UNCHANGED <<handling, writeQ>>
  BY <1>2, LiveSame DEF MakeResp
<1>3. CASE ~ UNCHANGED <<handling, writeQ>>
  <2> DEFINE r == reqCtx[s]
             w == [slot |-> s, id |-> r.id, mr |-> r.mr, rkey |-> r.rkey]
  <2>1. /\ handling' = handling \ {s} /\ s \in handling
        /\ writeQ' = [writeQ EXCEPT ![r.conn] = Append(@, w)]
        /\ UNCHANGED <<scq, swc>>
    BY <1>3 DEF MakeResp
  <2>2. w \in Write /\ w.slot = s /\ r.conn \in Conns
    BY <1>1 DEF Write, ReqCtx
  <2>3. PICK c \in Conns : c = r.conn
    BY <2>2
  <2> HIDE DEF w, r
  <2>4. SlotsOf(writeQ'[c]) = SlotsOf(writeQ[c]) \cup {s}
    BY <2>1, <2>2, <2>3, AppendSlots DEF Typed, TypeOK
  <2>5. \A d \in Conns \ {c} : writeQ'[d] = writeQ[d]
    BY <2>1, <2>3 DEF Typed, TypeOK
  <2>6. ASSUME NEW x PROVE x \in ServedSlots' <=> x \in ServedSlots
    BY <2>1, <2>4, <2>5, LiveIs, LiveIsNext
  <2>7. LiveSlots' = LiveSlots
    BY <2>1, <2>6 DEF LiveSlots
  <2> QED
    BY <2>6, <2>7
<1> QED
  BY <1>2, <1>3

-----------------------------------------------------------------------------
(* What belongs to a request: the pool element in its header, which is in  *)
(* no callback and whose context leads back to it, and the payload.        *)

Holds(c, i, m) ==
  /\ ctx[c][i] = m /\ reqHdr[m] = i
  /\ i \notin mp[c]
  /\ \A t \in CThreads : cbk[t] # [conn |-> c, id |-> i]

Carries(c, s) ==
  /\ Holds(c, srvBuf[s].id, srvBuf[s].mr)
  /\ srvBuf[s].val = reqBuf[srvBuf[s].mr]

Answered(e) ==
  LET m == ctx[e.conn][e.id] IN
    m \in Mrs /\ Holds(e.conn, e.id, m) /\ respBuf[m] = reqBuf[m]

CallHolds ==
  \A t \in CThreads : call[t] # None => Holds(call[t].conn, call[t].id, call[t].mr)

SendQHolds ==
  \A c \in Conns : \A i \in DOMAIN sendQ[c] :
    Holds(c, reqHdr[sendQ[c][i]], sendQ[c][i])

ReceivedHolds ==
  /\ \A e \in RecvCqes(scq) : Carries(e.conn, e.slot)
  /\ \A t \in SThreads : \A e \in RecvCqes(swc[t]) : Carries(e.conn, e.slot)

HandledHolds ==
  \A s \in handling :
    /\ reqCtx[s].id = srvBuf[s].id /\ reqCtx[s].mr = srvBuf[s].mr
    /\ Carries(reqCtx[s].conn, s)

WriteHolds ==
  \A c \in Conns : \A i \in DOMAIN writeQ[c] :
    LET w == writeQ[c][i] IN
      /\ w.id = srvBuf[w.slot].id /\ w.mr = srvBuf[w.slot].mr
      /\ Carries(c, w.slot)

AnswerHolds ==
  /\ \A e \in RecvCqes(ccq) : Answered(e)
  /\ \A t \in CThreads : \A e \in RecvCqes(cwc[t]) : Answered(e)

RequestHolds ==
  /\ CallHolds /\ SendQHolds /\ ReceivedHolds
  /\ HandledHolds /\ WriteHolds /\ AnswerHolds

(* A callback that runs has its element for itself.                        *)
CallbackHolds ==
  \A t \in CThreads : cbk[t] # None =>
    /\ cbk[t].id \notin mp[cbk[t].conn]
    /\ \A u \in CThreads \ {t} : cbk[u] # cbk[t]

RequestInv ==
  /\ Typed /\ SlotConserved
  /\ RequestsSited /\ RequestHolds /\ CallbackHolds

LEMMA ClientCqes ==
  ASSUME TypeOK
  PROVE  /\ \A i \in DOMAIN ccq : ccq[i] \in ClientCqe
         /\ \A t \in CThreads : \A i \in DOMAIN cwc[t] : cwc[t][i] \in ClientCqe
<1>1. ccq \in Seq(ClientCqe) /\ \A t \in CThreads : cwc[t] \in Seq(ClientCqe)
  BY DEF TypeOK
<1>2. \A q \in Seq(ClientCqe) : \A i \in DOMAIN q : q[i] \in ClientCqe
  BY ElementOfSeq, LenProperties
<1> QED
  BY <1>1, <1>2

LEMMA RecvTypes ==
  ASSUME NEW e \in ClientCqe
  PROVE  /\ e.conn \in Conns
         /\ e.op = "recv" => e.id \in Ids /\ Answers[e] = ctx[e.conn][e.id]
         /\ e.op # "recv" => e.op = "send" /\ Answers[e] = None
BY DEF ClientCqe, Answers

(* The element of an answered request is not in the pool, so that the next *)
(* kv_rdma_send_req leaves its context alone.                              *)
LEMMA AnswersKept ==
  ASSUME TypeOK, AnswerHolds, NEW c \in Conns, NEW i \in mp[c], NEW m \in Mrs,
         ctx' = [ctx EXCEPT ![c][i] = m]
  PROVE  /\ \A k \in DOMAIN ccq : Answers'[ccq[k]] = Answers[ccq[k]]
         /\ \A t \in CThreads : \A k \in DOMAIN cwc[t] :
              Answers'[cwc[t][k]] = Answers[cwc[t][k]]
<1>1. i \in Ids /\ ctx \in [Conns -> [Ids -> Mrs \cup {None}]]
  BY DEF TypeOK
<1>2. \A d \in Conns, j \in Ids : j \notin mp[d] => ctx'[d][j] = ctx[d][j]
  BY <1>1
<1>3. ASSUME NEW e \in ClientCqe, e.op = "recv" => Answered(e)
      PROVE  Answers'[e] = Answers[e]
  <2>1. Answers'[e] = IF e.op = "recv" THEN ctx'[e.conn][e.id] ELSE None
    BY DEF Answers, ClientCqe
  <2>2. CASE e.op = "recv"
    <3>1. e.conn \in Conns /\ e.id \in Ids /\ Answers[e] = ctx[e.conn][e.id]
      BY <2>2, RecvTypes
    <3>2. e.id \notin mp[e.conn]
      BY <1>3, <2>2 DEF Answered, Holds
    <3> QED
      BY <1>2, <2>1, <2>2, <3>1, <3>2
  <2> QED
    BY <2>1, <2>2, RecvTypes
<1>4. ASSUME NEW k \in DOMAIN ccq PROVE Answers'[ccq[k]] = Answers[ccq[k]]
  <2>1. ccq[k] \in ClientCqe
    BY ClientCqes
  <2>2. ccq[k].op = "recv" => Answered(ccq[k])
    BY DEF AnswerHolds, RecvCqes
  <2> QED
    BY <1>3, <2>1, <2>2
<1>5. ASSUME NEW t \in CThreads, NEW k \in DOMAIN cwc[t]
      PROVE  Answers'[cwc[t][k]] = Answers[cwc[t][k]]
  <2>1. cwc[t][k] \in ClientCqe
    BY ClientCqes
  <2>2. cwc[t][k].op = "recv" => Answered(cwc[t][k])
    BY DEF AnswerHolds, RecvCqes
  <2> QED
    BY <1>3, <2>1, <2>2
<1> QED
  BY <1>4, <1>5

-----------------------------------------------------------------------------
(* Every step keeps a request in one site.                                 *)

LEMMA RequestsSitedInit == Init => RequestsSited
<1> SUFFICES ASSUME Init PROVE RequestsSited
  OBVIOUS
<1>1. LiveSlots = {}
  BY RecvSlotsEmpty DEF Init, LiveSlots, ServedSlots
<1>2. \A p \in RequestSites : MrsAt(p) = {}
  BY <1>1, KeysEmpty, SiteKinds, MrsAtSites DEF Init
<1>3. RequestQueuedOnce
  BY KeysEmpty DEF Init, RequestQueuedOnce
<1> QED
  BY <1>2, <1>3 DEF Init, RequestsSited, RequestInOneSite

LEMMA SitedSame ==
  ASSUME RequestsSited, UNCHANGED <<call, sendQ, ccq, cwc, ctx, srvBuf, busy>>,
         LiveSlots' = LiveSlots
  PROVE  RequestsSited'
<1>1. \A p \in RequestSites : MrsAt(p)' = MrsAt(p)
  BY SiteKinds, CallsSame, SendQSame, SlotsSame, CcqSame, CwcSame
<1>2. RequestInOneSite'
  BY <1>1, RequestsStay DEF RequestsSited
<1>3. RequestQueuedOnce'
  BY AnswersSame DEF RequestsSited, RequestQueuedOnce, KeyedOnce, Itself
<1> QED
  BY <1>2, <1>3 DEF RequestsSited

LEMMA SendReqSited ==
  ASSUME RequestInv, NEW t \in CThreads, NEW c \in Conns, NEW m \in Mrs, NEW v \in Vals,
         SendReq(t, c, m, v)
  PROVE  RequestsSited'
<1>1. LiveSlots' = LiveSlots
  BY LiveSame DEF SendReq, serverVars, wireVars
<1>2. CASE UNCHANGED clientVars
  BY <1>1, <1>2, SitedSame DEF SendReq, clientVars, wireVars, RequestInv
<1>3. ASSUME NEW i \in mp[c], ctx' = [ctx EXCEPT ![c][i] = m],
             busy' = busy \cup {m},
             call' = [call EXCEPT ![t] = [pc |-> "post_recv", conn |-> c,
                                          mr |-> m, id |-> i]],
             UNCHANGED cwc
      PROVE  RequestsSited'
  <2>1. m \in Mrs \ busy /\ call[t] = None
    BY DEF SendReq, MayCall
  <2>2. UNCHANGED <<sendQ, ccq, srvBuf>>
    BY DEF SendReq, wireVars
  <2>3. i \in Ids
    BY DEF RequestInv, Typed, TypeOK
  <2>4. call'[t] # None /\ call'[t].mr = m
    <3>1. [pc |-> "post_recv", conn |-> c, mr |-> m, id |-> i] \in Call
      BY <2>3 DEF Call
    <3> QED
      BY <1>3, <3>1, NoneIsNew DEF RequestInv, Typed, TypeOK
  <2>5. \A u \in CThreads \ {t} : call'[u] = call[u]
    BY <1>3 DEF RequestInv, Typed, TypeOK
  <2>6. /\ \A k \in DOMAIN ccq : Answers'[ccq[k]] = Answers[ccq[k]]
        /\ \A u \in CThreads : \A k \in DOMAIN cwc[u] :
             Answers'[cwc[u][k]] = Answers[cwc[u][k]]
    BY <1>3, AnswersKept DEF RequestInv, RequestHolds, Typed
  <2>7. /\ Keys(ccq, Answers') = Keys(ccq, Answers)
        /\ KeyedOnce(ccq, Answers) => KeyedOnce(ccq, Answers')
    BY <2>6, KeysAgree
  <2>8. \A u \in CThreads : /\ Keys(cwc[u], Answers') = Keys(cwc[u], Answers)
                            /\ KeyedOnce(cwc[u], Answers) => KeyedOnce(cwc[u], Answers')
    BY <2>6, KeysAgree
  <2>9. MrsAt(Call_(t))' = MrsAt(Call_(t)) \cup {m}
    BY <2>1, <2>4, MrsAtSites, MrsAtSitesNext
  <2>10. \A p \in RequestSites \ {Call_(t)} : MrsAt(p)' = MrsAt(p)
    <3>1. ASSUME NEW u \in CThreads
          PROVE  /\ MrsAt(Cwc_(u))' = MrsAt(Cwc_(u))
                 /\ u # t => MrsAt(Call_(u))' = MrsAt(Call_(u))
      <4>1. MrsAt(Cwc_(u))' = MrsAt(Cwc_(u))
        BY <1>3, <2>8, MrsAtSites, MrsAtSitesNext
      <4>2. u # t => MrsAt(Call_(u))' = MrsAt(Call_(u))
        BY <2>5, CallsSame
      <4> QED
        BY <4>1, <4>2
    <3>2. MrsAt(Ccq_)' = MrsAt(Ccq_)
      BY <2>2, <2>7, MrsAtSites, MrsAtSitesNext
    <3> QED
      BY <1>1, <2>2, <3>1, <3>2, SiteKinds, SendQSame, SlotsSame
  <2>11. RequestInOneSite'
    BY <1>3, <2>1, <2>9, <2>10, SitesAre, RequestEnters DEF RequestInv, RequestsSited
  <2>12. RequestQueuedOnce'
    <3>1. /\ KeyedOnce(ccq', Answers')
          /\ \A u \in CThreads : KeyedOnce(cwc'[u], Answers')
      BY <1>3, <2>2, <2>7, <2>8 DEF RequestInv, RequestsSited, RequestQueuedOnce
    <3>2. \A d \in Conns : KeyedOnce(sendQ'[d], Itself)
      BY <2>2 DEF RequestInv, RequestsSited, RequestQueuedOnce
    <3> QED
      BY <3>1, <3>2 DEF RequestQueuedOnce, KeyedOnce, Itself
  <2> QED
    BY <2>11, <2>12 DEF RequestsSited
<1> QED
  BY <1>2, <1>3 DEF SendReq

LEMMA SendFailSited ==
  ASSUME RequestInv, NEW t \in CThreads, call[t] # None, SendFail(t)
  PROVE  RequestsSited'
<1> DEFINE m == call[t].mr
<1>1. m \in Mrs
  BY DEF RequestInv, Typed, TypeOK, Call
<1>2. /\ busy' = busy \ {m} /\ call'[t] = None
      /\ \A u \in CThreads \ {t} : call'[u] = call[u]
      /\ UNCHANGED <<sendQ, ccq, cwc, ctx, srvBuf>>
  BY DEF SendFail, wireVars, RequestInv, Typed, TypeOK
<1>3. LiveSlots' = LiveSlots
  BY LiveSame DEF SendFail, serverVars, wireVars
<1> HIDE DEF m
<1>4. MrsAt(Call_(t)) = {m} /\ MrsAt(Call_(t))' = {}
  BY <1>2, MrsAtSites, MrsAtSitesNext DEF m
<1>5. \A p \in RequestSites \ {Call_(t)} : MrsAt(p)' = MrsAt(p)
  BY <1>2, <1>3, SiteKinds, CallsSame, SendQSame, SlotsSame, CcqSame, CwcSame
<1>6. RequestInOneSite'
  BY <1>1, <1>2, <1>4, <1>5, SitesAre, RequestLeaves DEF RequestInv, RequestsSited
<1>7. RequestQueuedOnce'
  BY <1>2, AnswersSame
  DEF RequestInv, RequestsSited, RequestQueuedOnce, KeyedOnce, Itself
<1> QED
  BY <1>6, <1>7 DEF RequestsSited

LEMMA PostRecvSited ==
  ASSUME RequestInv, NEW t \in CThreads, PostRecv(t)
  PROVE  RequestsSited'
<1>1. CASE SendFail(t)
  BY <1>1, SendFailSited DEF PostRecv
<1>2. CASE ~ SendFail(t)
  <2>1. /\ call[t] # None /\ call' = [call EXCEPT ![t] = Continue(call[t])]
        /\ UNCHANGED <<sendQ, ccq, cwc, ctx, srvBuf, busy>>
    BY <1>2 DEF PostRecv, wireVars
  <2>2. Continue(call[t]) \in Call /\ Continue(call[t]).mr = call[t].mr
    BY <2>1 DEF RequestInv, Typed, TypeOK, Call, Continue
  <2>3. /\ call'[t] # None /\ call'[t].mr = call[t].mr
        /\ \A u \in CThreads \ {t} : call'[u] = call[u]
    BY <2>1, <2>2, NoneIsNew DEF RequestInv, Typed, TypeOK
  <2>4. LiveSlots' = LiveSlots
    BY <1>2, LiveSame DEF PostRecv, serverVars, wireVars
  <2>5. MrsAt(Call_(t))' = MrsAt(Call_(t))
    <3>1. MrsAt(Call_(t)) = {call[t].mr}
      BY <2>1, MrsAtSites
    <3>2. MrsAt(Call_(t))' = {call'[t].mr}
      BY <2>3, MrsAtSitesNext
    <3> QED
      BY <2>3, <3>1, <3>2
  <2>6. \A p \in RequestSites : MrsAt(p)' = MrsAt(p)
    BY <2>1, <2>3, <2>4, <2>5, SiteKinds, CallsSame, SendQSame, SlotsSame, CcqSame, CwcSame
  <2>7. RequestInOneSite'
    BY <2>1, <2>6, RequestsStay DEF RequestInv, RequestsSited
  <2>8. RequestQueuedOnce'
    BY <2>1, AnswersSame
    DEF RequestInv, RequestsSited, RequestQueuedOnce, KeyedOnce, Itself
  <2> QED
    BY <2>7, <2>8 DEF RequestsSited
<1> QED
  BY <1>1, <1>2

LEMMA PostSendSited ==
  ASSUME RequestInv, NEW t \in CThreads, PostSend(t)
  PROVE  RequestsSited'
<1>1. CASE SendFail(t)
  BY <1>1, SendFailSited DEF PostSend
<1>2. CASE ~ SendFail(t)
  <2>1. call[t] # None /\ call[t] \in Call
    BY <1>2 DEF PostSend, RequestInv, Typed, TypeOK
  <2>2. PICK m \in Mrs, c \in Conns : m = call[t].mr /\ c = call[t].conn
    BY <2>1 DEF Call
  <2>3. /\ call[t] # None /\ call' = [call EXCEPT ![t] = None]
        /\ sendQ' = [sendQ EXCEPT ![c] = Append(@, m)]
        /\ UNCHANGED <<ccq, cwc, ctx, srvBuf, busy>>
    BY <1>2, <2>2 DEF PostSend
  <2>4. /\ call'[t] = None /\ sendQ'[c] = Append(sendQ[c], m)
        /\ \A u \in CThreads \ {t} : call'[u] = call[u]
        /\ \A d \in Conns \ {c} : sendQ'[d] = sendQ[d]
        /\ sendQ[c] \in Seq(Mrs)
    BY <2>3, <2>2 DEF RequestInv, Typed, TypeOK
  <2>5. LiveSlots' = LiveSlots
    BY <1>2, LiveSame DEF PostSend, serverVars
  <2>6. MrsAt(Call_(t)) = {m} /\ MrsAt(Call_(t))' = {}
    BY <2>3, <2>2, <2>4, MrsAtSites, MrsAtSitesNext
  <2>7. /\ Call_(t) \in RequestSites /\ SendQ_(c) \in RequestSites
        /\ Call_(t) # SendQ_(c)
    BY <2>2, SitesAre, SitesDiffer
  <2>8. m \notin Keys(sendQ[c], Itself)
    BY <2>2, <2>6, <2>7, SiteElsewhere, MrsAtSites DEF RequestInv, RequestsSited
  <2>9. Itself[m] = m /\ m # None
    BY <2>2, NoneIsNew DEF Itself
  <2>10. /\ Keys(sendQ'[c], Itself) = Keys(sendQ[c], Itself) \cup {m}
        /\ KeyedOnce(sendQ'[c], Itself)
    <3>1. KeyedOnce(sendQ[c], Itself)
      BY <2>2 DEF RequestInv, RequestsSited, RequestQueuedOnce
    <3>2. Keys(Append(sendQ[c], m), Itself) = Keys(sendQ[c], Itself) \cup ({Itself[m]} \ {None})
      BY <2>2, <2>4, KeysAppend
    <3>3. KeyedOnce(Append(sendQ[c], m), Itself)
      BY <2>2, <2>4, <2>8, <2>9, <3>1, KeysAppend
    <3> QED
      BY <2>4, <2>9, <3>2, <3>3
  <2>11. MrsAt(SendQ_(c))' = MrsAt(SendQ_(c)) \cup {m}
    BY <2>10, MrsAtSites, MrsAtSitesNext
  <2>12. \A p \in RequestSites \ {Call_(t), SendQ_(c)} : MrsAt(p)' = MrsAt(p)
    BY <2>3, <2>4, <2>5, SiteKinds, CallsSame, SendQSame, SlotsSame, CcqSame, CwcSame
  <2>13. RequestInOneSite'
    <3> DEFINE X == {m}
    <3>1. /\ X \subseteq MrsAt(Call_(t)) /\ MrsAt(Call_(t))' = MrsAt(Call_(t)) \ X
          /\ MrsAt(SendQ_(c))' = MrsAt(SendQ_(c)) \cup X
      BY <2>6, <2>11
    <3> HIDE DEF X
    <3>2. RequestInOneSite /\ UNCHANGED busy
      BY <2>3 DEF RequestInv, RequestsSited
    <3> QED
      BY <2>7, <2>12, <3>1, <3>2, RequestsMove
  <2>14. RequestQueuedOnce'
    <3>1. \A d \in Conns : KeyedOnce(sendQ'[d], Itself)
      BY <2>4, <2>10 DEF RequestInv, RequestsSited, RequestQueuedOnce
    <3>2. KeyedOnce(ccq', Answers') /\ \A u \in CThreads : KeyedOnce(cwc'[u], Answers')
      BY <2>3, AnswersSame DEF RequestInv, RequestsSited, RequestQueuedOnce
    <3> QED
      BY <3>1, <3>2 DEF RequestQueuedOnce, KeyedOnce, Itself
  <2> QED
    BY <2>13, <2>14 DEF RequestsSited
<1> QED
  BY <1>1, <1>2

LEMMA ClientPollSited ==
  ASSUME RequestInv, NEW t \in CThreads, ClientPoll(t)
  PROVE  RequestsSited'
<1>1. /\ cwc[t] = <<>> /\ cwc'[t] = Polled(ccq) /\ ccq' = LeftInCq(ccq)
      /\ \A u \in CThreads \ {t} : cwc'[u] = cwc[u]
      /\ UNCHANGED <<call, sendQ, ctx, srvBuf, busy>>
      /\ ccq \in Seq(ClientCqe)
  BY DEF ClientPoll, wireVars, RequestInv, Typed, TypeOK
<1>2. LiveSlots' = LiveSlots
  BY LiveSame DEF ClientPoll, serverVars, wireVars
<1> DEFINE X == Keys(Polled(ccq), Answers)
<1>3. /\ Keys(ccq, Answers) = X \cup Keys(ccq', Answers)
      /\ KeyedOnce(ccq, Answers) => /\ KeyedOnce(Polled(ccq), Answers)
                                    /\ KeyedOnce(ccq', Answers)
                                    /\ X \cap Keys(ccq', Answers) = {}
  BY <1>1, KeysPoll
<1>4. KeyedOnce(ccq, Answers)
  BY DEF RequestInv, RequestsSited, RequestQueuedOnce
<1>5. Answers' = Answers
  BY <1>1, AnswersSame
<1>6. X = Keys(Polled(ccq), Answers)
  OBVIOUS
<1> HIDE DEF X
<1>7. /\ X \subseteq MrsAt(Ccq_) /\ MrsAt(Ccq_)' = MrsAt(Ccq_) \ X
      /\ MrsAt(Cwc_(t))' = MrsAt(Cwc_(t)) \cup X
  <2>1. X \subseteq MrsAt(Ccq_) /\ MrsAt(Ccq_)' = MrsAt(Ccq_) \ X
    BY <1>3, <1>4, <1>5, MrsAtSites, MrsAtSitesNext
  <2>2. MrsAt(Cwc_(t))' = X /\ MrsAt(Cwc_(t)) = {}
    BY <1>1, <1>5, <1>6, KeysEmpty, MrsAtSites, MrsAtSitesNext
  <2> QED
    BY <2>1, <2>2
<1>8. \A p \in RequestSites \ {Ccq_, Cwc_(t)} : MrsAt(p)' = MrsAt(p)
  BY <1>1, <1>2, SiteKinds, CallsSame, SendQSame, SlotsSame, CwcSame
<1>9. RequestInOneSite'
  BY <1>1, <1>7, <1>8, SitesAre, SitesDiffer, RequestsMove DEF RequestInv, RequestsSited
<1>10. RequestQueuedOnce'
  <2>1. KeyedOnce(ccq', Answers') /\ \A u \in CThreads : KeyedOnce(cwc'[u], Answers')
    BY <1>1, <1>3, <1>4, <1>5 DEF RequestInv, RequestsSited, RequestQueuedOnce
  <2>2. \A d \in Conns : KeyedOnce(sendQ'[d], Itself)
    BY <1>1 DEF RequestInv, RequestsSited, RequestQueuedOnce
  <2> QED
    BY <2>1, <2>2 DEF RequestQueuedOnce, KeyedOnce, Itself
<1> QED
  BY <1>9, <1>10 DEF RequestsSited

(* A poller that works off its next completion.                            *)
LEMMA ClientCqeTaken ==
  ASSUME RequestInv, NEW t \in CThreads, cwc[t] # <<>>,
         cwc' = [cwc EXCEPT ![t] = Tail(@)],
         UNCHANGED <<call, sendQ, ccq, ctx, srvBuf>>, LiveSlots' = LiveSlots
  PROVE  LET k == Answers[Head(cwc[t])] IN
           /\ Head(cwc[t]) \in ClientCqe
           /\ MrsAt(Cwc_(t)) = MrsAt(Cwc_(t))' \cup ({k} \ {None})
           /\ k \notin MrsAt(Cwc_(t))'
           /\ \A p \in RequestSites \ {Cwc_(t)} : MrsAt(p)' = MrsAt(p)
           /\ RequestQueuedOnce'
<1> DEFINE k == Answers[Head(cwc[t])]
<1>1. /\ cwc[t] \in Seq(ClientCqe) /\ cwc'[t] = Tail(cwc[t])
      /\ \A u \in CThreads \ {t} : cwc'[u] = cwc[u]
      /\ KeyedOnce(cwc[t], Answers)
  BY DEF RequestInv, Typed, TypeOK, RequestsSited, RequestQueuedOnce
<1>2. Answers' = Answers
  BY AnswersSame
<1>3. /\ Keys(cwc[t], Answers) = Keys(cwc'[t], Answers) \cup ({k} \ {None})
      /\ KeyedOnce(cwc'[t], Answers)
      /\ k \notin Keys(cwc'[t], Answers)
  BY <1>1, KeysTail
<1>4. Head(cwc[t]) \in ClientCqe
  BY <1>1, HeadTailProperties
<1> HIDE DEF k
<1>5. /\ MrsAt(Cwc_(t)) = MrsAt(Cwc_(t))' \cup ({k} \ {None})
      /\ k \notin MrsAt(Cwc_(t))'
  BY <1>2, <1>3, MrsAtSites, MrsAtSitesNext
<1>6. \A p \in RequestSites \ {Cwc_(t)} : MrsAt(p)' = MrsAt(p)
  BY <1>1, SiteKinds, CallsSame, SendQSame, SlotsSame, CcqSame, CwcSame
<1>7. RequestQueuedOnce'
  <2>1. KeyedOnce(ccq', Answers') /\ \A u \in CThreads : KeyedOnce(cwc'[u], Answers')
    BY <1>1, <1>2, <1>3 DEF RequestInv, RequestsSited, RequestQueuedOnce
  <2>2. \A d \in Conns : KeyedOnce(sendQ'[d], Itself)
    BY DEF RequestInv, RequestsSited, RequestQueuedOnce
  <2> QED
    BY <2>1, <2>2 DEF RequestQueuedOnce, KeyedOnce, Itself
<1> QED
  BY <1>4, <1>5, <1>6, <1>7 DEF k

LEMMA OnSendReqSited ==
  ASSUME RequestInv, NEW t \in CThreads, OnSendReq(t)
  PROVE  RequestsSited'
<1>1. LiveSlots' = LiveSlots
  BY LiveSame DEF OnSendReq, serverVars, wireVars
<1>2. /\ cwc[t] # <<>> /\ Head(cwc[t]).op = "send"
      /\ cwc' = [cwc EXCEPT ![t] = Tail(@)]
      /\ UNCHANGED <<call, sendQ, ccq, ctx, srvBuf, busy>>
  BY DEF OnSendReq, AtClientCqe, wireVars
<1> DEFINE k == Answers[Head(cwc[t])]
<1>3. /\ Head(cwc[t]) \in ClientCqe
      /\ MrsAt(Cwc_(t)) = MrsAt(Cwc_(t))' \cup ({k} \ {None})
      /\ \A p \in RequestSites \ {Cwc_(t)} : MrsAt(p)' = MrsAt(p)
      /\ RequestQueuedOnce'
  BY <1>1, <1>2, ClientCqeTaken
<1>4. k = None
  BY <1>2, <1>3, RecvTypes
<1> HIDE DEF k
<1>5. \A p \in RequestSites : MrsAt(p)' = MrsAt(p)
  BY <1>3, <1>4
<1> QED
  BY <1>2, <1>3, <1>5, RequestsStay DEF RequestInv, RequestsSited

LEMMA OnRecvRespSited ==
  ASSUME RequestInv, NEW t \in CThreads, OnRecvResp(t)
  PROVE  /\ RequestsSited'
         /\ LET e == Head(cwc[t]) IN
              /\ e \in ClientCqe /\ e.op = "recv" /\ Answered(e)
              /\ ctx[e.conn][e.id] \in MrsAt(Cwc_(t))
<1> DEFINE e == Head(cwc[t])
           m == ctx[e.conn][e.id]
<1>1. LiveSlots' = LiveSlots
  BY LiveSame DEF OnRecvResp, serverVars, wireVars
<1>2. /\ cwc[t] # <<>> /\ e.op = "recv"
      /\ cwc' = [cwc EXCEPT ![t] = Tail(@)]
      /\ UNCHANGED <<call, sendQ, ccq, ctx, srvBuf>>
      /\ busy' = busy \ {m}
  BY DEF OnRecvResp, AtClientCqe, wireVars
<1>3. /\ e \in ClientCqe
      /\ MrsAt(Cwc_(t)) = MrsAt(Cwc_(t))' \cup ({Answers[e]} \ {None})
      /\ Answers[e] \notin MrsAt(Cwc_(t))'
      /\ \A p \in RequestSites \ {Cwc_(t)} : MrsAt(p)' = MrsAt(p)
      /\ RequestQueuedOnce'
  BY <1>1, <1>2, ClientCqeTaken
<1>4. Answered(e)
  <2>1. cwc[t] \in Seq(ClientCqe)
    BY DEF RequestInv, Typed, TypeOK
  <2>2. 1 \in DOMAIN cwc[t] /\ e = cwc[t][1]
    BY <1>2, <2>1, HeadTailProperties, EmptySeq, LenProperties
  <2>3. e \in RecvCqes(cwc[t])
    BY <1>2, <2>2 DEF RecvCqes
  <2> QED
    BY <2>3 DEF RequestInv, RequestHolds, AnswerHolds
<1>5. m \in Mrs /\ m # None /\ Answers[e] = m
  BY <1>2, <1>3, <1>4, RecvTypes, NoneIsNew DEF Answered
<1> HIDE DEF m, e
<1>6. m \in MrsAt(Cwc_(t)) /\ MrsAt(Cwc_(t))' = MrsAt(Cwc_(t)) \ {m}
  BY <1>3, <1>5
<1>7. RequestInOneSite'
  BY <1>2, <1>3, <1>5, <1>6, SitesAre, RequestLeaves DEF RequestInv, RequestsSited
<1>8. RequestsSited'
  BY <1>3, <1>7 DEF RequestsSited
<1> QED
  BY <1>2, <1>3, <1>4, <1>6, <1>8 DEF m, e

LEMMA MempoolPutSited ==
  ASSUME RequestInv, NEW t \in CThreads, MempoolPut(t)
  PROVE  RequestsSited'
BY SitedSame, LiveSame DEF MempoolPut, serverVars, wireVars, RequestInv

LEMMA DeliverReqSited ==
  ASSUME RequestInv, NEW c \in Conns, DeliverReq(c)
  PROVE  RequestsSited'
<1>1. sendQ[c] \in Seq(Mrs) /\ sendQ[c] # <<>>
  BY DEF DeliverReq, RequestInv, Typed, TypeOK
<1>2. PICK m \in Mrs : m = Head(sendQ[c])
  BY <1>1, HeadTailProperties
<1>3. PICK s \in Slots :
        /\ srvBuf' = [srvBuf EXCEPT ![s] = [id |-> reqHdr[m], mr |-> m,
                                            val |-> reqBuf[m]]]
        /\ s \notin LiveSlots /\ LiveSlots' = LiveSlots \cup {s}
  BY <1>2, DeliverReqLive DEF RequestInv
<1>4. /\ sendQ'[c] = Tail(sendQ[c])
      /\ \A d \in Conns \ {c} : sendQ'[d] = sendQ[d]
      /\ srvBuf'[s].mr = m
      /\ \A r \in Slots \ {s} : srvBuf'[r] = srvBuf[r]
      /\ UNCHANGED <<call, ccq, cwc, ctx, busy>>
  BY <1>3 DEF DeliverReq, clientVars, RequestInv, Typed, TypeOK
<1>5. Itself[m] = m /\ m # None
  BY NoneIsNew DEF Itself
<1>6. /\ Keys(sendQ[c], Itself) = Keys(sendQ'[c], Itself) \cup {m}
      /\ KeyedOnce(sendQ'[c], Itself)
      /\ m \notin Keys(sendQ'[c], Itself)
  <2>1. KeyedOnce(sendQ[c], Itself)
    BY DEF RequestInv, RequestsSited, RequestQueuedOnce
  <2>2. Keys(sendQ[c], Itself)
          = Keys(Tail(sendQ[c]), Itself) \cup ({Itself[Head(sendQ[c])]} \ {None})
    BY <1>1, KeysTail
  <2>3. /\ KeyedOnce(Tail(sendQ[c]), Itself)
        /\ Itself[Head(sendQ[c])] \notin Keys(Tail(sendQ[c]), Itself)
    BY <1>1, <2>1, KeysTail
  <2> QED
    BY <1>2, <1>4, <1>5, <2>2, <2>3
<1> DEFINE X == {m}
<1>7. X \subseteq MrsAt(SendQ_(c)) /\ MrsAt(SendQ_(c))' = MrsAt(SendQ_(c)) \ X
  BY <1>6, MrsAtSites, MrsAtSitesNext
<1>8. MrsAt(Slot_(s))' = MrsAt(Slot_(s)) \cup X
  BY <1>3, <1>4, MrsAtSites, MrsAtSitesNext
<1> HIDE DEF X
<1>9. \A p \in RequestSites \ {SendQ_(c), Slot_(s)} : MrsAt(p)' = MrsAt(p)
  <2>1. ASSUME NEW r \in Slots, r # s PROVE MrsAt(Slot_(r))' = MrsAt(Slot_(r))
    <3>1. srvBuf'[r] = srvBuf[r] /\ (r \in LiveSlots' <=> r \in LiveSlots)
      BY <1>3, <1>4, <2>1
    <3> QED
      BY <3>1, MrsAtSites, MrsAtSitesNext
  <2> QED
    BY <1>4, <2>1, SiteKinds, CallsSame, SendQSame, CcqSame, CwcSame
<1>10. RequestInOneSite'
  <2>1. RequestInOneSite /\ UNCHANGED busy
    BY <1>4 DEF RequestInv, RequestsSited
  <2> QED
    BY <1>7, <1>8, <1>9, <2>1, SitesAre, SitesDiffer, RequestsMove
<1>11. RequestQueuedOnce'
  <2>1. \A d \in Conns : KeyedOnce(sendQ'[d], Itself)
    BY <1>4, <1>6 DEF RequestInv, RequestsSited, RequestQueuedOnce
  <2>2. KeyedOnce(ccq', Answers') /\ \A u \in CThreads : KeyedOnce(cwc'[u], Answers')
    BY <1>4, AnswersSame DEF RequestInv, RequestsSited, RequestQueuedOnce
  <2> QED
    BY <2>1, <2>2 DEF RequestQueuedOnce, KeyedOnce, Itself
<1> QED
  BY <1>10, <1>11 DEF RequestsSited

LEMMA AckReqSited ==
  ASSUME RequestInv, NEW c \in Conns, AckReq(c)
  PROVE  RequestsSited'
<1> DEFINE e == [op |-> "send", conn |-> c, id |-> None]
<1>1. /\ e \in ClientCqe /\ e.op # "recv" /\ ccq' = Append(ccq, e)
      /\ ccq \in Seq(ClientCqe)
      /\ UNCHANGED <<call, sendQ, cwc, ctx, srvBuf, busy>>
  BY DEF AckReq, ClientCqe, clientVars, RequestInv, Typed, TypeOK
<1>2. LiveSlots' = LiveSlots
  BY LiveSame DEF AckReq, serverVars
<1> HIDE DEF e
<1>3. Answers[e] = None /\ Answers' = Answers
  BY <1>1, RecvTypes, AnswersSame
<1>4. KeyedOnce(ccq, Answers) /\ None \notin Keys(ccq, Answers)
  BY DEF RequestInv, RequestsSited, RequestQueuedOnce, Keys
<1>5. Keys(ccq', Answers) = Keys(ccq, Answers) /\ KeyedOnce(ccq', Answers)
  <2>1. Keys(ccq', Answers) = Keys(ccq, Answers) \cup ({Answers[e]} \ {None})
    BY <1>1, KeysAppend
  <2>2. KeyedOnce(ccq', Answers)
    <3>1. Answers[e] \notin Keys(ccq, Answers)
      BY <1>3, <1>4
    <3> QED
      BY <1>1, <1>4, <3>1, KeysAppend
  <2> QED
    BY <1>3, <2>1, <2>2
<1>6. \A p \in RequestSites : MrsAt(p)' = MrsAt(p)
  <2>1. MrsAt(Ccq_)' = MrsAt(Ccq_)
    BY <1>3, <1>5, MrsAtSites, MrsAtSitesNext
  <2> QED
    BY <1>1, <1>2, <2>1, SiteKinds, CallsSame, SendQSame, SlotsSame, CwcSame
<1>7. RequestInOneSite'
  BY <1>1, <1>6, RequestsStay DEF RequestInv, RequestsSited
<1>8. RequestQueuedOnce'
  <2>1. KeyedOnce(ccq', Answers') /\ \A u \in CThreads : KeyedOnce(cwc'[u], Answers')
    BY <1>1, <1>3, <1>5 DEF RequestInv, RequestsSited, RequestQueuedOnce
  <2>2. \A d \in Conns : KeyedOnce(sendQ'[d], Itself)
    BY <1>1 DEF RequestInv, RequestsSited, RequestQueuedOnce
  <2> QED
    BY <2>1, <2>2 DEF RequestQueuedOnce, KeyedOnce, Itself
<1> QED
  BY <1>7, <1>8 DEF RequestsSited

(* The response at the head of a send queue: what it carries.              *)
LEMMA NextWrite ==
  ASSUME RequestInv, NEW c \in Conns, writeQ[c] # <<>>
  PROVE  \E w \in Write : \E s \in Slots : \E m \in Mrs :
           /\ w = Head(writeQ[c]) /\ s = w.slot /\ m = w.mr
           /\ m = srvBuf[s].mr /\ w.id = srvBuf[s].id
           /\ Carries(c, s) /\ ctx[c][w.id] = m
           /\ s \in LiveSlots
<1>1. writeQ[c] \in Seq(Write)
  BY DEF RequestInv, Typed, TypeOK
<1>2. 1 \in DOMAIN writeQ[c] /\ Head(writeQ[c]) = writeQ[c][1] /\ Head(writeQ[c]) \in Write
  BY <1>1, HeadTailProperties, EmptySeq, LenProperties
<1>3. PICK w \in Write, s \in Slots, m \in Mrs :
        w = Head(writeQ[c]) /\ s = w.slot /\ m = w.mr
  BY <1>2 DEF Write
<1>4. w.id = srvBuf[s].id /\ w.mr = srvBuf[s].mr /\ Carries(c, s)
  BY <1>2, <1>3 DEF RequestInv, RequestHolds, WriteHolds
<1>5. ctx[c][w.id] = m
  BY <1>3, <1>4 DEF Carries, Holds
<1>6. s \in LiveSlots
  <2>1. s \in SlotsOf(writeQ[c])
    BY <1>2, <1>3 DEF SlotsOf
  <2> QED
    BY <2>1, LiveIs
<1> QED
  BY <1>3, <1>4, <1>5, <1>6

LEMMA DeliverRespSited ==
  ASSUME RequestInv, NEW c \in Conns, DeliverResp(c)
  PROVE  RequestsSited' /\ Head(writeQ[c]).mr \in MrsAt(Ccq_)'
<1>1. writeQ[c] # <<>>
  BY DEF DeliverResp
<1>2. PICK w \in Write, s \in Slots, m \in Mrs :
        /\ w = Head(writeQ[c]) /\ s = w.slot /\ m = w.mr /\ m = srvBuf[s].mr
        /\ ctx[c][w.id] = m /\ s \in LiveSlots
  BY <1>1, NextWrite
<1>3. LiveSlots' = LiveSlots \ {s}
  BY <1>2, DeliverRespLive DEF RequestInv
<1> DEFINE e == [op |-> "recv", conn |-> c, id |-> w.id]
<1>4. /\ e \in ClientCqe /\ e.op = "recv" /\ e.conn = c /\ e.id = w.id
      /\ ccq' = Append(ccq, e) /\ ccq \in Seq(ClientCqe)
      /\ UNCHANGED <<call, sendQ, cwc, ctx, srvBuf, busy>>
  BY <1>2 DEF DeliverResp, ClientCqe, Write, clientVars, RequestInv, Typed, TypeOK
<1> HIDE DEF e
<1>5. Answers[e] = m /\ m # None /\ Answers' = Answers
  BY <1>2, <1>4, RecvTypes, AnswersSame, NoneIsNew
<1>6. MrsAt(Slot_(s)) = {m} /\ MrsAt(Slot_(s))' = {}
  BY <1>2, <1>3, MrsAtSites, MrsAtSitesNext
<1>7. Slot_(s) \in RequestSites /\ Ccq_ \in RequestSites /\ Slot_(s) # Ccq_
  BY SitesAre, SitesDiffer
<1>8. m \notin Keys(ccq, Answers)
  BY <1>6, <1>7, SiteElsewhere, MrsAtSites DEF RequestInv, RequestsSited
<1>9. KeyedOnce(ccq, Answers)
  BY DEF RequestInv, RequestsSited, RequestQueuedOnce
<1>10. Keys(ccq', Answers) = Keys(ccq, Answers) \cup {m} /\ KeyedOnce(ccq', Answers)
  BY <1>4, <1>5, <1>8, <1>9, KeysAppend
<1>15. Head(writeQ[c]).mr \in MrsAt(Ccq_)'
  BY <1>2, <1>5, <1>10, MrsAtSitesNext
<1> DEFINE X == {m}
<1>11. /\ X \subseteq MrsAt(Slot_(s)) /\ MrsAt(Slot_(s))' = MrsAt(Slot_(s)) \ X
       /\ MrsAt(Ccq_)' = MrsAt(Ccq_) \cup X
  BY <1>5, <1>6, <1>10, MrsAtSites, MrsAtSitesNext
<1> HIDE DEF X
<1>12. \A p \in RequestSites \ {Slot_(s), Ccq_} : MrsAt(p)' = MrsAt(p)
  <2>1. ASSUME NEW r \in Slots, r # s PROVE MrsAt(Slot_(r))' = MrsAt(Slot_(r))
    <3>1. srvBuf'[r] = srvBuf[r] /\ (r \in LiveSlots' <=> r \in LiveSlots)
      BY <1>3, <1>4, <2>1
    <3> QED
      BY <3>1, MrsAtSites, MrsAtSitesNext
  <2> QED
    BY <1>4, <2>1, SiteKinds, CallsSame, SendQSame, CwcSame
<1>13. RequestInOneSite'
  <2>1. RequestInOneSite /\ UNCHANGED busy
    BY <1>4 DEF RequestInv, RequestsSited
  <2> QED
    BY <1>7, <1>11, <1>12, <2>1, RequestsMove
<1>14. RequestQueuedOnce'
  <2>1. KeyedOnce(ccq', Answers') /\ \A u \in CThreads : KeyedOnce(cwc'[u], Answers')
    BY <1>4, <1>5, <1>10 DEF RequestInv, RequestsSited, RequestQueuedOnce
  <2>2. \A d \in Conns : KeyedOnce(sendQ'[d], Itself)
    BY <1>4 DEF RequestInv, RequestsSited, RequestQueuedOnce
  <2> QED
    BY <2>1, <2>2 DEF RequestQueuedOnce, KeyedOnce, Itself
<1> QED
  BY <1>13, <1>14, <1>15 DEF RequestsSited

LEMMA RequestsSitedStep == RequestInv /\ [Next]_vars => RequestsSited'
<1> SUFFICES ASSUME RequestInv, [Next]_vars PROVE RequestsSited'
  OBVIOUS
<1>1. Typed /\ SlotConserved /\ RequestsSited
  BY DEF RequestInv
<1>2. CASE UNCHANGED vars
  BY <1>1, <1>2, SitedSame, LiveSame DEF vars, clientVars, wireVars, serverVars
<1>3. ASSUME NEW t \in CThreads, ClientStep(t) PROVE RequestsSited'
  BY <1>3, SendReqSited, PostRecvSited, PostSendSited, ClientPollSited,
     OnSendReqSited, OnRecvRespSited, MempoolPutSited DEF ClientStep
<1>4. ASSUME NEW c \in Conns, WireStep(c) PROVE RequestsSited'
  <2>1. CASE RnrNak(c)
    BY <1>1, <2>1, SitedSame, LiveSame DEF RnrNak, clientVars, serverVars, wireVars
  <2>2. CASE AckWrite(c)
    BY <1>1, <2>2, SitedSame, AckWriteLive DEF AckWrite, clientVars
  <2> QED
    BY <1>4, <2>1, <2>2, DeliverReqSited, AckReqSited, DeliverRespSited DEF WireStep
<1>5. ASSUME NEW t \in SThreads, ServerStep(t) PROVE RequestsSited'
  <2>1. LiveSlots' = LiveSlots
    BY <1>1, <1>5, ServerPollLive, OnRecvReqLive, OnWriteRespDoneLive DEF ServerStep
  <2>2. UNCHANGED <<call, sendQ, ccq, cwc, ctx, srvBuf, busy>>
    BY <1>5 DEF ServerStep, ServerPoll, OnRecvReq, OnWriteRespDone, clientVars, wireVars
  <2> QED
    BY <1>1, <2>1, <2>2, SitedSame
<1>6. ASSUME NEW s \in Slots, MakeResp(s) PROVE RequestsSited'
  <2>1. UNCHANGED <<call, sendQ, ccq, cwc, ctx, srvBuf, busy>>
    BY <1>6 DEF MakeResp, clientVars
  <2> QED
    BY <1>1, <1>6, <2>1, SitedSame, MakeRespLive
<1> QED
  BY <1>2, <1>3, <1>4, <1>5, <1>6 DEF Next

=============================================================================
