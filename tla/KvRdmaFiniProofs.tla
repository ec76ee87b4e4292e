-------------------------- MODULE KvRdmaFiniProofs ---------------------------
(***************************************************************************)
(* The end of a handle and of the application, for any number of threads,  *)
(* pollers and messages: kv_app_stop tells SPDK to stop at most once;      *)
(* io_cnt counts the pollers that have not reported; an orderly end frees  *)
(* the handle when nothing can use it any more; and the event pool lasts.  *)
(*                                                                         *)
(* A message is where it lies, so that a step of a thread is described by  *)
(* the messages that go and those that come (Moved), the others keeping    *)
(* their kind and their order; the invariant is about the numbers of       *)
(* messages of each kind and about which of two comes first.               *)
(***************************************************************************)
EXTENDS KvRdmaFini, FiniteSetTheorems, SequenceTheorems, TLAPS

stopVars == <<running, inStop, locker, stops>>

(* What the threads do in kv_app_stop.                                     *)
StopTyped ==
  /\ running \in SUBSET Threads
  /\ inStop  \in [Threads -> [pc : {"out", "lock", "write"}, rc : {0, 1}, mask : SUBSET Threads]]
  /\ stops   \in Nat

(* A thread that is to write the mask back has read it under the lock, it  *)
(* is as it was, and SPDK has not been told to stop.                       *)
Writer ==
  \A t \in Threads :
    inStop[t].pc = "write" => locker = t /\ inStop[t].mask = running /\ running # {}

(* SPDK is told when nobody is left in the mask.                           *)
ToldWhenEmpty == stops = 0 \/ (stops = 1 /\ running = {})

StopInv == StopTyped /\ Writer /\ ToldWhenEmpty

-----------------------------------------------------------------------------
LEMMA StopInvInit == Init => StopInv
  BY DEF Init, AppInit, StopInv, StopTyped, Writer, ToldWhenEmpty, Outside

LEMMA StopInvUnchanged == StopInv /\ UNCHANGED stopVars => StopInv'
  BY DEF stopVars, StopInv, StopTyped, Writer, ToldWhenEmpty

(* A call of kv_app_stop begins on a thread that is outside of it.         *)
LEMMA StopInvBegin ==
  ASSUME StopInv, NEW t \in Threads, NEW rc \in {0, 1}, StopBegin(t, rc)
  PROVE  StopInv'
<1>1. inStop' = [inStop EXCEPT ![t] = [pc |-> "lock", rc |-> rc, mask |-> {}]]
      /\ UNCHANGED <<running, locker, stops>>
  BY DEF StopBegin
<1>2. StopTyped'
  BY <1>1 DEF StopInv, StopTyped
<1>3. Writer'
  BY <1>1 DEF StopInv, StopTyped, Writer
<1>4. ToldWhenEmpty'
  BY <1>1 DEF StopInv, ToldWhenEmpty
<1> QED BY <1>2, <1>3, <1>4 DEF StopInv

(* The lock keeps others out between reading and writing the mask.         *)
LEMMA StopInvEnter ==
  ASSUME StopInv, NEW t \in Threads, StopEnter(t)
  PROVE  StopInv'
<1>1. \A u \in Threads : inStop[u].pc # "write"
  BY DEF StopInv, Writer, StopEnter, Threads
<1>2. CASE running = {}
  <2>1. inStop' = [inStop EXCEPT ![t] = Outside] /\ UNCHANGED <<running, locker, stops>>
    BY <1>2 DEF StopEnter
  <2> QED BY <1>1, <2>1 DEF StopInv, StopTyped, Writer, ToldWhenEmpty, Outside
<1>3. CASE running # {} /\ inStop[t].rc # 0
  <2>1. /\ inStop' = [inStop EXCEPT ![t] = Outside]
        /\ running' = {} /\ stops' = stops + 1
    BY <1>3 DEF StopEnter, SpdkAppStop
  <2>2. stops = 0
    BY <1>3 DEF StopInv, ToldWhenEmpty
  <2> QED BY <1>1, <2>1, <2>2 DEF StopInv, StopTyped, Writer, ToldWhenEmpty, Outside
<1>4. CASE running # {} /\ inStop[t].rc = 0
  <2>1. /\ inStop' = [inStop EXCEPT ![t].pc = "write", ![t].mask = running]
        /\ locker' = t /\ UNCHANGED <<running, stops>>
    BY <1>4 DEF StopEnter
  <2>2. StopTyped'
    BY <2>1 DEF StopInv, StopTyped
  <2>3. Writer'
    BY <1>1, <1>4, <2>1 DEF StopInv, StopTyped, Writer
  <2> QED BY <2>1, <2>2, <2>3 DEF StopInv, ToldWhenEmpty
<1> QED BY <1>2, <1>3, <1>4

LEMMA StopInvLeave ==
  ASSUME StopInv, NEW t \in Threads, StopLeave(t)
  PROVE  StopInv'
<1>1. /\ inStop[t].pc = "write"
      /\ running' = inStop[t].mask \ {t}
      /\ inStop' = [inStop EXCEPT ![t] = Outside]
      /\ stops' = IF running' = {} THEN stops + 1 ELSE stops
  BY DEF StopLeave, SpdkAppStop
<1>2. locker = t /\ running # {} /\ stops = 0
  BY <1>1 DEF StopInv, Writer, ToldWhenEmpty
<1>3. \A u \in Threads : u # t => inStop[u].pc # "write"
  BY <1>2 DEF StopInv, Writer
<1>4. StopTyped'
  BY <1>1 DEF StopInv, StopTyped, Outside
<1>5. Writer'
  BY <1>1, <1>3 DEF StopInv, StopTyped, Writer, Outside
<1>6. ToldWhenEmpty'
  BY <1>1, <1>2 DEF ToldWhenEmpty
<1> QED BY <1>4, <1>5, <1>6 DEF StopInv

-----------------------------------------------------------------------------
LEMMA StopInvStep == StopInv /\ [Next]_vars => StopInv'
<1> SUFFICES ASSUME StopInv, [Next]_vars PROVE StopInv'
  OBVIOUS
<1>1. CASE UNCHANGED vars
  BY <1>1, StopInvUnchanged DEF vars, appVars, lifeVars, stopVars
<1>2. CASE Start
  BY <1>2, StopInvUnchanged DEF Start, ThreadInit, AppStart, stopVars
<1>3. CASE End
  BY <1>3, StopInvUnchanged DEF End, AppEnd, stopVars
<1>4. CASE CreateContext \/ FiniCount \/ FiniSend
  BY <1>4, StopInvUnchanged DEF CreateContext, FiniCount, FiniSend, appVars, lifeVars, stopVars
<1>5. ASSUME NEW t \in Threads, Step(t) PROVE StopInv'
  <2>1. CASE Poll(t) \/ CqPoller(t) \/ Fini(t)
    BY <2>1, StopInvUnchanged
    DEF Poll, MsgPoller, CqPoller, Fini, appVars, lifeVars, stopVars
  <2>2. CASE RdmaInit(t) \/ PollerRegister(t) \/ CmPollerUnregister(t)
             \/ CqPollerUnregister(t) \/ PollerUnregisterDone(t)
    BY <2>2, StopInvUnchanged
    DEF RdmaInit, PollerRegister, CmPollerUnregister, CqPollerUnregister,
        PollerUnregisterDone, lifeVars, stopVars
  <2>3. CASE FiniCb(t)
    BY <1>5, <2>3, StopInvBegin DEF FiniCb
  <2>4. ASSUME NEW rc \in {0, 1}, AppStop(t, rc) PROVE StopInv'
    BY <1>5, <2>4, StopInvBegin DEF AppStop
  <2>5. CASE Stop(t)
    BY <1>5, <2>5, StopInvEnter, StopInvLeave DEF Stop
  <2> QED BY <1>5, <2>1, <2>2, <2>3, <2>4, <2>5 DEF Step, RunTask
<1> QED BY <1>1, <1>2, <1>3, <1>4, <1>5 DEF Next

(* On whichever threads kv_app_stop is called, at once or one after the    *)
(* other, with an error or without, spdk_app_stop is called at most once   *)
(* (kv_app.c:172-189): the lock makes reading and writing the mask one,    *)
(* and it is empty once SPDK has been told.                                *)
THEOREM StopsAtMostOnce == Spec => []StopsOnce
<1>1. StopInv => StopsOnce
  BY DEF StopInv, ToldWhenEmpty, StopsOnce
<1> QED BY StopInvInit, StopInvStep, <1>1, PTL DEF Spec
-----------------------------------------------------------------------------
(* The messages under way and the handle.                                  *)

Of(F)    == {m \in Messages : m[4] \in F}
Reports  == {"cm_poller_unregister", "cq_poller_unregister", "poller_unregister_done"}
Register == {"poller_register"}

Num(F)    == Cardinality(Of(F))
starts    == Num({"start"})
registers == Num(Register)
reports   == Num(Reports)
finals    == Num({"fini_cb"})

(* Of two messages to a thread, whether x is certain to be handled first.  *)
Before(x, y) ==
  \/ x[2] = ThreadNum /\ y[2] # ThreadNum
  \/ x[2] = y[2] /\ x[3] < y[3]

(* How far the application is, and the handle in it.                       *)
Started ==
  /\ phase = "starting" => pc = "none" /\ Messages = {}
  /\ phase # "starting" => ready = ThreadNum
  /\ pc = "none" => ctx = "none" /\ ~cm
  /\ pc # "none" => Of({"start"}) = {}
  /\ ctx = "none" => pollers = {} /\ Of(Register) = {}

(* Before the call of kv_rdma_fini, and from then on.                      *)
Called ==
  /\ pc \in {"none", "idle"} => caller = -1 /\ ~freed /\ ioCnt = 0 /\ ctx # "late" /\ Of(Reports) = {}
  /\ pc \notin {"none", "idle"} => caller \in Threads
  /\ pc \in {"none", "idle", "count"} => told = 0
  /\ pc = "count" /\ ~freed => ioCnt = 1

(* What is under way before and after the handle is freed.                 *)
Freed ==
  /\ fault => freed
  /\ freed => ioCnt = 0 /\ Of(Reports) = {}
  /\ ~freed => Of({"fini_cb"}) = {}

Addressed ==
  /\ \A m \in Of({"poller_unregister_done"}) : m[1] = LibThread
  /\ \A m \in Of(Register) : m[1] \in Pollers /\ m[2] \in {LibThread, ThreadNum}

Counted ==
  /\ IsFiniteSet(Messages)
  /\ starts <= 1
  /\ registers <= PollNum
  /\ finals <= 1
  /\ phase # "over" =>
       /\ events = Cardinality(Messages)
       /\ ~freed => ioCnt = reports + (IF pc = "send" THEN PollNum - told ELSE 0)

FiniInv == TypeOK /\ StopInv /\ Started /\ Called /\ Freed /\ Addressed /\ Counted

(* An end on the handle's own thread without a late first connection.  A   *)
(* poller that has been told to go is registered before it is told: the    *)
(* two messages keep their order.                                          *)
Ordered ==
  \A r \in Of(Register), u \in Of({"cq_poller_unregister"}) : r[1] = u[1] => Before(r, u)

Covered ==
  /\ \A t \in LibThread..(LibThread + told - 1) :
       t \in pollers \/ (\E r \in Of(Register) : r[1] = t)
         => \E u \in Of({"cq_poller_unregister"}) : u[1] = t
  /\ cm /\ pc \notin {"none", "idle"} => Of({"cm_poller_unregister"}) # {}

Quiet == pollers = {} /\ ~cm /\ Of(Register) = {}

InOrder ==
  /\ pc \in {"count", "send"} => ~freed
  /\ pc = "returned" /\ ctx = "early" => told = PollNum
  /\ \A u \in Of({"cq_poller_unregister"}) : u[2] \in {LibThread, ThreadNum}
  /\ Ordered
  /\ phase # "over" => Covered
  /\ freed => Quiet
  /\ ~fault

OrderlyInv == Orderly => InOrder
-----------------------------------------------------------------------------
(* The messages that lie in given queues and batches.  A message is known  *)
(* by its thread, the line it stands in there (a sender's or the batch),   *)
(* its place in the line and its function.                                 *)

Line(q, b, t, p) == IF p = ThreadNum THEN b[t] ELSE q[t][p]

On(q, b) ==
  UNION ({{<<t, p, i, Line(q, b, t, p)[i].func>> : i \in DOMAIN Line(q, b, t, p)} :
            t \in Threads, p \in 0..ThreadNum})

Queues  == [Threads -> [Threads -> Seq(Task)]]
Batches == [Threads -> Seq(Task)]

LEMMA ThreadsAre ==
  /\ ThreadNum \in Nat \ {0} /\ ThreadNum \notin Threads
  /\ Threads = (0..ThreadNum) \ {ThreadNum} /\ Threads \subseteq Nat
BY AppAssumption DEF Threads

LEMMA OnAre ==
  ASSUME NEW q, NEW b, NEW m
  PROVE  m \in On(q, b) <=>
           \E t \in Threads : \E p \in 0..ThreadNum : \E i \in DOMAIN Line(q, b, t, p) :
             m = <<t, p, i, Line(q, b, t, p)[i].func>>
<1> DEFINE part(t, p) == {<<t, p, i, Line(q, b, t, p)[i].func>> : i \in DOMAIN Line(q, b, t, p)}
           parts == {part(t, p) : t \in Threads, p \in 0..ThreadNum}
<1>1. On(q, b) = UNION parts
  BY DEF On
<1>2. \A t \in Threads, p \in 0..ThreadNum : part(t, p) \in parts
  OBVIOUS
<1>3. \A s \in parts : \E t \in Threads, p \in 0..ThreadNum : s = part(t, p)
  OBVIOUS
<1>4. \A t, p : m \in part(t, p) <=>
        \E i \in DOMAIN Line(q, b, t, p) : m = <<t, p, i, Line(q, b, t, p)[i].func>>
  OBVIOUS
<1> HIDE DEF part, parts
<1> QED
  BY <1>1, <1>2, <1>3, <1>4

LEMMA OnAt ==
  ASSUME NEW q, NEW b, NEW t, NEW p, NEW i, NEW f
  PROVE  <<t, p, i, f>> \in On(q, b) <=>
           /\ t \in Threads /\ p \in 0..ThreadNum
           /\ i \in DOMAIN Line(q, b, t, p) /\ f = Line(q, b, t, p)[i].func
BY OnAre

LEMMA MessagesOn == Messages = On(queue, batch)
<1>1. ASSUME NEW t \in Threads, NEW m
      PROVE  m \in Pending(t) <=> \E p \in 0..ThreadNum : \E i \in DOMAIN Line(queue, batch, t, p) :
                                    m = <<t, p, i, Line(queue, batch, t, p)[i].func>>
  <2> DEFINE own(p) == {<<t, p, i, queue[t][p][i].func>> : i \in DOMAIN queue[t][p]}
             sent == {own(p) : p \in Threads}
             held == {<<t, ThreadNum, i, batch[t][i].func>> : i \in DOMAIN batch[t]}
  <2>1. Pending(t) = (UNION sent) \cup held
    BY DEF Pending
  <2>2. \A p \in Threads : own(p) \in sent /\ Line(queue, batch, t, p) = queue[t][p]
    BY ThreadsAre DEF Line
  <2>3. Line(queue, batch, t, ThreadNum) = batch[t]
    BY DEF Line
  <2>4. m \in UNION sent <=> \E p \in Threads : m \in own(p)
    OBVIOUS
  <2>5. \A p \in Threads : m \in own(p) <=>
          \E i \in DOMAIN Line(queue, batch, t, p) : m = <<t, p, i, Line(queue, batch, t, p)[i].func>>
    BY <2>2
  <2>6. m \in held <=> \E i \in DOMAIN Line(queue, batch, t, ThreadNum) :
          m = <<t, ThreadNum, i, Line(queue, batch, t, ThreadNum)[i].func>>
    BY <2>3
  <2> DEFINE in(p) == \E i \in DOMAIN Line(queue, batch, t, p) :
                        m = <<t, p, i, Line(queue, batch, t, p)[i].func>>
  <2>7. (\A p \in Threads : m \in own(p) <=> in(p)) /\ (m \in held <=> in(ThreadNum))
    BY <2>5, <2>6
  <2> HIDE DEF own, sent, held, in
  <2>8. \A p : p \in 0..ThreadNum <=> p \in Threads \/ p = ThreadNum
    BY ThreadsAre
  <2>9. m \in Pending(t) <=> \E p \in 0..ThreadNum : in(p)
    <3>1. m \in Pending(t) <=> (\E p \in Threads : in(p)) \/ in(ThreadNum)
      <4>1. m \in Pending(t) <=> m \in UNION sent \/ m \in held
        BY <2>1
      <4>2. m \in UNION sent <=> \E p \in Threads : in(p)
        BY <2>4, <2>7
      <4> QED
        BY <4>1, <4>2, <2>7
    <3>2. (\E p \in 0..ThreadNum : in(p)) <=> (\E p \in Threads : in(p)) \/ in(ThreadNum)
      BY <2>8
    <3> QED
      BY <3>1, <3>2
  <2> QED
    BY <2>9 DEF in
<1>2. ASSUME NEW m PROVE m \in Messages <=> \E t \in Threads : m \in Pending(t)
  <2> DEFINE all == {Pending(t) : t \in Threads}
  <2>1. Messages = UNION all
    BY DEF Messages
  <2>2. \A t \in Threads : Pending(t) \in all
    OBVIOUS
  <2> QED
    BY <2>1, <2>2
<1>3. ASSUME NEW m PROVE m \in Messages <=> m \in On(queue, batch)
  BY <1>1, <1>2, OnAre
<1> QED
  BY <1>3

LEMMA OnTypes ==
  ASSUME NEW q \in Queues, NEW b \in Batches
  PROVE  /\ \A t \in Threads, p \in 0..ThreadNum :
              /\ Line(q, b, t, p) \in Seq(Task) /\ Len(Line(q, b, t, p)) \in Nat
              /\ DOMAIN Line(q, b, t, p) = 1..Len(Line(q, b, t, p))
         /\ \A m \in On(q, b) :
              /\ m = <<m[1], m[2], m[3], m[4]>>
              /\ m[1] \in Threads /\ m[2] \in 0..ThreadNum /\ m[3] \in Nat \ {0}
              /\ m[3] \in 1..Len(Line(q, b, m[1], m[2]))
              /\ m[4] = Line(q, b, m[1], m[2])[m[3]].func
<1>1. ASSUME NEW t \in Threads, NEW p \in 0..ThreadNum PROVE Line(q, b, t, p) \in Seq(Task)
  <2>1. CASE p = ThreadNum
    BY <2>1 DEF Line, Batches
  <2>2. CASE p # ThreadNum
    BY <2>2, ThreadsAre DEF Line, Queues
  <2> QED
    BY <2>1, <2>2
<1>2. \A t \in Threads, p \in 0..ThreadNum :
        /\ Line(q, b, t, p) \in Seq(Task) /\ Len(Line(q, b, t, p)) \in Nat
        /\ DOMAIN Line(q, b, t, p) = 1..Len(Line(q, b, t, p))
  BY <1>1, LenProperties
<1>3. ASSUME NEW m \in On(q, b)
      PROVE  /\ m = <<m[1], m[2], m[3], m[4]>>
             /\ m[1] \in Threads /\ m[2] \in 0..ThreadNum /\ m[3] \in Nat \ {0}
             /\ m[3] \in 1..Len(Line(q, b, m[1], m[2]))
             /\ m[4] = Line(q, b, m[1], m[2])[m[3]].func
  <2>1. PICK t \in Threads, p \in 0..ThreadNum : \E i \in DOMAIN Line(q, b, t, p) :
          m = <<t, p, i, Line(q, b, t, p)[i].func>>
    BY OnAre
  <2>2. PICK i \in DOMAIN Line(q, b, t, p) : m = <<t, p, i, Line(q, b, t, p)[i].func>>
    BY <2>1
  <2>3. m[1] = t /\ m[2] = p /\ m[3] = i /\ m[4] = Line(q, b, t, p)[i].func
    BY <2>2
  <2>4. i \in 1..Len(Line(q, b, t, p)) /\ i \in Nat \ {0}
    BY <1>2
  <2> QED
    BY <2>2, <2>3, <2>4
<1> QED
  BY <1>2, <1>3

(* The messages N are the messages M, each at a later place at its thread: *)
(* none overtakes another.                                                 *)
Carries(g, M, N) ==
  /\ g \in Bijection(M, N)
  /\ \A x \in M : g[x][1] = x[1] /\ g[x][4] = x[4] /\ x[2] \in {g[x][2], ThreadNum}
  /\ \A x, y \in M : x[1] = y[1] /\ Before(g[x], g[y]) => Before(x, y)

(* What is carried is counted again, all and by function.                  *)
LEMMA CarriedCount ==
  ASSUME NEW M, NEW N, NEW g, Carries(g, M, N), IsFiniteSet(N)
  PROVE  /\ IsFiniteSet(M) /\ Cardinality(M) = Cardinality(N)
         /\ \A F : /\ IsFiniteSet({m \in M : m[4] \in F}) /\ IsFiniteSet({m \in N : m[4] \in F})
                   /\ Cardinality({m \in M : m[4] \in F}) = Cardinality({m \in N : m[4] \in F})
<1>1. /\ g \in [M -> N]
      /\ \A x, y \in M : g[x] = g[y] => x = y
      /\ \A y \in N : \E x \in M : g[x] = y
  BY DEF Carries, Bijection, Injection, Surjection, IsInjective
<1>2. ASSUME NEW F
      PROVE  LET P == {m \in M : m[4] \in F}
                 Q == {m \in N : m[4] \in F}
             IN  IsFiniteSet(P) /\ IsFiniteSet(Q) /\ Cardinality(P) = Cardinality(Q)
  <2> DEFINE P == {m \in M : m[4] \in F}
             Q == {m \in N : m[4] \in F}
             h == [x \in P |-> g[x]]
  <2>1. \A x \in M : g[x][4] = x[4]
    BY DEF Carries
  <2>2. \A x \in P : g[x] \in Q
    BY <1>1, <2>1
  <2>3. \A y \in Q : \E x \in P : g[x] = y
    BY <1>1, <2>1
  <2>4. \A x, y \in P : g[x] = g[y] => x = y
    BY <1>1
  <2>5. IsFiniteSet(Q)
    BY FS_Subset
  <2> HIDE DEF P, Q
  <2>6. h \in Injection(P, Q) /\ h \in Surjection(P, Q)
    BY <2>2, <2>3, <2>4 DEF Injection, Surjection, IsInjective
  <2>7. IsFiniteSet(P)
    BY <2>5, <2>6, FS_Injection
  <2>8. Cardinality(P) = Cardinality(Q)
    BY <2>5, <2>6, FS_Injection
  <2> QED
    BY <2>5, <2>7, <2>8 DEF P, Q
<1>3. IsFiniteSet(M) /\ Cardinality(M) = Cardinality(N)
  <2>1. g \in Injection(M, N) /\ g \in Surjection(M, N)
    BY <1>1 DEF Injection, Surjection, IsInjective
  <2> QED
    BY <2>1, FS_Injection
<1> QED
  BY <1>2, <1>3

(* The task at the head of a batch is done.                                *)
LEMMA DoneCarries ==
  ASSUME NEW q \in Queues, NEW b \in Batches, NEW t \in Threads, b[t] # <<>>,
         NEW c, c = [b EXCEPT ![t] = Tail(@)]
  PROVE  /\ c \in Batches
         /\ <<t, ThreadNum, 1, Head(b[t]).func>> \in On(q, b)
         /\ \E g : Carries(g, On(q, c), On(q, b) \ {<<t, ThreadNum, 1, Head(b[t]).func>>})
<1> DEFINE h == <<t, ThreadNum, 1, Head(b[t]).func>>
           M == On(q, c)
           N == On(q, b) \ {h}
           g == [m \in M |-> IF m[1] = t /\ m[2] = ThreadNum
                             THEN <<t, ThreadNum, m[3] + 1, m[4]>> ELSE m]
<1>1. PICK s : s = b[t]
  OBVIOUS
<1>2. PICK r : r = Tail(s)
  OBVIOUS
<1>3. s \in Seq(Task) /\ s # <<>>
  BY <1>1 DEF Batches
<1>4. /\ Len(s) \in Nat \ {0} /\ r \in Seq(Task)
      /\ Len(r) = Len(s) - 1 /\ \A i \in 1..Len(r) : r[i] = s[i + 1]
      /\ Head(s) = s[1]
  BY <1>2, <1>3, HeadTailProperties, EmptySeq, LenProperties
<1>5. c \in Batches /\ c[t] = r /\ \A u \in Threads \ {t} : c[u] = b[u]
  BY <1>1, <1>2, <1>4 DEF Batches
<1>6. /\ Line(q, b, t, ThreadNum) = s /\ Line(q, c, t, ThreadNum) = r
      /\ \A u \in Threads, p \in 0..ThreadNum :
           u # t \/ p # ThreadNum => Line(q, c, u, p) = Line(q, b, u, p)
  BY <1>1, <1>5 DEF Line
<1>7. ThreadNum \in 0..ThreadNum
  BY ThreadsAre
<1>8. h \in On(q, b)
  <2>1. 1 \in DOMAIN s
    BY <1>3, <1>4, LenProperties
  <2> QED
    BY <1>1, <1>4, <1>6, <1>7, <2>1, OnAt
<1>9. \A m \in M : /\ m = <<m[1], m[2], m[3], m[4]>> /\ m[1] \in Threads /\ m[2] \in 0..ThreadNum
                   /\ m[3] \in Nat \ {0} /\ m[3] \in 1..Len(Line(q, c, m[1], m[2]))
                   /\ m[4] = Line(q, c, m[1], m[2])[m[3]].func
  BY <1>5, OnTypes
<1>10. \A m \in On(q, b) :
         /\ m = <<m[1], m[2], m[3], m[4]>> /\ m[1] \in Threads /\ m[2] \in 0..ThreadNum
         /\ m[3] \in Nat \ {0} /\ m[3] \in 1..Len(Line(q, b, m[1], m[2]))
         /\ m[4] = Line(q, b, m[1], m[2])[m[3]].func
  BY OnTypes
<1>11. /\ DOMAIN s = 1..Len(s) /\ DOMAIN r = 1..Len(r)
  BY <1>3, <1>4, LenProperties
<1>12. h[1] = t /\ h[2] = ThreadNum /\ h[3] = 1
  OBVIOUS
<1>13. ASSUME NEW m \in M PROVE g[m] \in N
  <2>1. CASE m[1] = t /\ m[2] = ThreadNum
    <3>1. m[3] \in 1..Len(r) /\ m[4] = r[m[3]].func
      BY <1>6, <1>9, <2>1
    <3>2. m[3] + 1 \in DOMAIN s /\ m[4] = s[m[3] + 1].func /\ m[3] + 1 # 1
      BY <1>4, <1>11, <3>1
    <3>3. <<t, ThreadNum, m[3] + 1, m[4]>> \in On(q, b)
      BY <1>6, <1>7, <3>2, OnAt
    <3> HIDE DEF h
    <3>4. <<t, ThreadNum, m[3] + 1, m[4]>> # h
      BY <1>12, <3>2
    <3> QED
      BY <2>1, <3>3, <3>4
  <2>2. CASE ~(m[1] = t /\ m[2] = ThreadNum)
    <3>1. Line(q, c, m[1], m[2]) = Line(q, b, m[1], m[2])
      BY <1>6, <1>9, <2>2
    <3>2. <<m[1], m[2], m[3], m[4]>> \in On(q, b)
      <4>1. <<m[1], m[2], m[3], m[4]>> \in On(q, c)
        BY <1>9
      <4> QED
        BY <3>1, <4>1, OnAt
    <3> HIDE DEF h
    <3>3. m # h
      BY <1>12, <2>2
    <3> QED
      BY <1>9, <2>2, <3>2, <3>3
  <2> QED
    BY <2>1, <2>2
<1>14. ASSUME NEW y \in N PROVE \E x \in M : g[x] = y
  <2>1. CASE y[1] = t /\ y[2] = ThreadNum
    <3>1. y[3] \in 1..Len(s) /\ y[4] = s[y[3]].func /\ y = <<t, ThreadNum, y[3], y[4]>>
      BY <1>6, <1>10, <2>1
    <3>2. y[3] # 1
      <4>1. y[3] = 1 => y = <<t, ThreadNum, 1, Head(b[t]).func>>
        BY <1>1, <1>4, <3>1
      <4>2. y # h
        OBVIOUS
      <4> QED
        BY <4>1, <4>2
    <3>3. y[3] - 1 \in DOMAIN r /\ y[4] = r[y[3] - 1].func /\ (y[3] - 1) + 1 = y[3]
      BY <1>4, <1>11, <3>1, <3>2
    <3>4. PICK x : x = <<t, ThreadNum, y[3] - 1, y[4]>>
      OBVIOUS
    <3>5. x \in M
      BY <1>6, <1>7, <3>3, <3>4, OnAt
    <3>6. g[x] = <<t, ThreadNum, y[3], y[4]>>
      BY <3>3, <3>4, <3>5
    <3> QED
      BY <3>1, <3>5, <3>6
  <2>2. CASE ~(y[1] = t /\ y[2] = ThreadNum)
    <3>1. Line(q, c, y[1], y[2]) = Line(q, b, y[1], y[2])
      BY <1>6, <1>10, <2>2
    <3>2. <<y[1], y[2], y[3], y[4]>> \in On(q, c)
      <4>1. <<y[1], y[2], y[3], y[4]>> \in On(q, b)
        BY <1>10
      <4> QED
        BY <3>1, <4>1, OnAt
    <3>3. y \in M
      BY <1>10, <3>2
    <3> QED
      BY <2>2, <3>3
  <2> QED
    BY <2>1, <2>2
<1>15. \A x \in M : /\ g[x][1] = x[1] /\ g[x][2] = x[2] /\ g[x][4] = x[4]
                    /\ g[x][3] = IF x[1] = t /\ x[2] = ThreadNum THEN x[3] + 1 ELSE x[3]
  BY <1>9
<1> HIDE DEF M, N, g
<1>16. \A x, y \in M : g[x] = g[y] => x = y
  <2> SUFFICES ASSUME NEW x \in M, NEW y \in M, g[x] = g[y] PROVE x = y
    OBVIOUS
  <2>1. x[1] = y[1] /\ x[2] = y[2] /\ x[4] = y[4] /\ x[3] = y[3]
    BY <1>9, <1>15
  <2> QED
    BY <1>9, <2>1
<1>17. g \in Bijection(M, N)
  <2>1. g \in [M -> N]
    <3>1. \A m \in M : g[m] \in N
      BY <1>13
    <3> QED
      BY <3>1 DEF g
  <2> QED
    BY <1>14, <1>16, <2>1 DEF Bijection, Injection, Surjection, IsInjective
<1>18. \A x, y \in M : x[1] = y[1] /\ Before(g[x], g[y]) => Before(x, y)
  BY <1>9, <1>15 DEF Before
<1>19. Carries(g, M, N)
  BY <1>15, <1>17, <1>18 DEF Carries
<1> QED
  BY <1>5, <1>8, <1>19 DEF M, N

(* Messages are sent: they come last in the sender's lines.                *)
Added(q, src, dsts, tasks) == {<<t, src, Len(q[t][src]) + 1, tasks[t].func>> : t \in dsts}

SentIn(q, src, dsts, tasks) ==
  [t \in Threads |->
     IF t \in dsts THEN [q[t] EXCEPT ![src] = Append(@, tasks[t])] ELSE q[t]]

Tasked(dsts, tasks) == \A t \in dsts : tasks[t] \in Task

Arrive(q, b, src, dsts, tasks, r) ==
  /\ r \in Queues
  /\ On(r, b) = On(q, b) \cup Added(q, src, dsts, tasks)
  /\ On(q, b) \cap Added(q, src, dsts, tasks) = {}
  /\ IsFiniteSet(dsts) /\ IsFiniteSet(Added(q, src, dsts, tasks))
  /\ Cardinality(Added(q, src, dsts, tasks)) = Cardinality(dsts)
  /\ \A x \in Added(q, src, dsts, tasks) :
       /\ x[1] \in dsts /\ x[2] = src /\ x[4] = tasks[x[1]].func
       /\ \A m \in On(q, b) : m[1] = x[1] /\ m[2] \in {src, ThreadNum} => Before(m, x)

LEMMA SentAdds ==
  ASSUME NEW q \in Queues, NEW b \in Batches, NEW src \in Threads,
         NEW dsts \in SUBSET Threads, NEW tasks, Tasked(dsts, tasks),
         NEW r, r = SentIn(q, src, dsts, tasks)
  PROVE  Arrive(q, b, src, dsts, tasks, r)
<1> DEFINE new == Added(q, src, dsts, tasks)
           at(t) == <<t, src, Len(q[t][src]) + 1, tasks[t].func>>
<1>1. \A t, p \in Threads : q[t][p] \in Seq(Task) /\ Len(q[t][p]) \in Nat
  BY LenProperties DEF Queues
<1>2. ASSUME NEW t \in dsts
      PROVE  /\ r[t] = [q[t] EXCEPT ![src] = Append(@, tasks[t])]
             /\ r[t] \in [Threads -> Seq(Task)]
             /\ r[t][src] = Append(q[t][src], tasks[t])
             /\ \A p \in Threads \ {src} : r[t][p] = q[t][p]
  <2>1. q[t] \in [Threads -> Seq(Task)]
    BY DEF Queues
  <2>2. r[t] = [q[t] EXCEPT ![src] = Append(@, tasks[t])]
    BY DEF SentIn
  <2>3. Append(q[t][src], tasks[t]) \in Seq(Task)
    BY <1>1, AppendProperties DEF Tasked
  <2> QED
    BY <2>1, <2>2, <2>3
<1>3. ASSUME NEW t \in Threads \ dsts PROVE r[t] = q[t] /\ r[t] \in [Threads -> Seq(Task)]
  BY DEF Queues, SentIn
<1>4. r \in Queues
  <2>1. \A t \in Threads : r[t] \in [Threads -> Seq(Task)]
    BY <1>2, <1>3
  <2> QED
    BY <2>1 DEF Queues, SentIn
<1>5. ASSUME NEW t \in Threads, NEW p \in 0..ThreadNum, t \notin dsts \/ p # src
      PROVE  Line(r, b, t, p) = Line(q, b, t, p)
  <2>1. CASE p = ThreadNum
    BY <2>1 DEF Line
  <2>2. CASE p # ThreadNum
    <3>1. p \in Threads
      BY <2>2, ThreadsAre
    <3>2. CASE t \in dsts
      <4>1. p \in Threads \ {src}
        BY <1>5, <3>1, <3>2
      <4>2. r[t][p] = q[t][p]
        BY <1>2, <3>2, <4>1
      <4> QED
        BY <2>2, <4>2 DEF Line
    <3>3. CASE t \notin dsts
      <4>1. r[t] = q[t]
        BY <1>3, <3>3
      <4> QED
        BY <2>2, <4>1 DEF Line
    <3> QED
      BY <3>2, <3>3
  <2> QED
    BY <2>1, <2>2
<1>6. src \in 0..ThreadNum /\ src # ThreadNum
  BY ThreadsAre
<1>7. ASSUME NEW t \in dsts
      PROVE  LET l == Line(q, b, t, src)
                 k == Line(r, b, t, src)
             IN  /\ l = q[t][src] /\ DOMAIN l = 1..Len(l) /\ Len(l) \in Nat
                 /\ DOMAIN k = 1..(Len(l) + 1)
                 /\ \A i \in DOMAIN l : i \in DOMAIN k /\ k[i] = l[i]
                 /\ \A i \in DOMAIN k : i \in DOMAIN l \/ i = Len(l) + 1
                 /\ Len(l) + 1 \in DOMAIN k /\ Len(l) + 1 \notin DOMAIN l
                 /\ k[Len(l) + 1] = tasks[t]
  <2>1. PICK l : l = q[t][src]
    OBVIOUS
  <2>2. PICK k : k = Append(l, tasks[t])
    OBVIOUS
  <2>3. Line(q, b, t, src) = l /\ Line(r, b, t, src) = k
    BY <1>2, <1>6, <2>1, <2>2 DEF Line
  <2>4. /\ l \in Seq(Task) /\ DOMAIN l = 1..Len(l) /\ Len(l) \in Nat
        /\ DOMAIN k = 1..(Len(l) + 1)
        /\ \A i \in 1..Len(l) : k[i] = l[i]
        /\ k[Len(l) + 1] = tasks[t]
    BY <1>1, <2>1, <2>2, AppendProperties, LenProperties
  <2>5. /\ l = q[t][src] /\ DOMAIN l = 1..Len(l) /\ Len(l) \in Nat
        /\ DOMAIN k = 1..(Len(l) + 1)
        /\ \A i \in DOMAIN l : i \in DOMAIN k /\ k[i] = l[i]
        /\ \A i \in DOMAIN k : i \in DOMAIN l \/ i = Len(l) + 1
        /\ Len(l) + 1 \in DOMAIN k /\ Len(l) + 1 \notin DOMAIN l
        /\ k[Len(l) + 1] = tasks[t]
    BY <2>1, <2>4
  <2> QED
    BY <2>3, <2>5
<1>8. ASSUME NEW m PROVE m \in new <=> \E t \in dsts : m = at(t)
  BY DEF Added
<1>9. ASSUME NEW t, NEW p, NEW i, NEW f
      PROVE  <<t, p, i, f>> \in On(r, b) <=> <<t, p, i, f>> \in On(q, b) \/ <<t, p, i, f>> \in new
  <2>1. CASE t \in dsts /\ p = src
    <3>1. PICK l : l = Line(q, b, t, src)
      OBVIOUS
    <3>2. PICK k : k = Line(r, b, t, src)
      OBVIOUS
    <3>3. /\ l = q[t][src] /\ Len(l) \in Nat
          /\ \A j \in DOMAIN l : j \in DOMAIN k /\ k[j] = l[j]
          /\ \A j \in DOMAIN k : j \in DOMAIN l \/ j = Len(l) + 1
          /\ Len(l) + 1 \in DOMAIN k
          /\ k[Len(l) + 1] = tasks[t]
      BY <1>7, <2>1, <3>1, <3>2
    <3>4. t \in Threads /\ p \in 0..ThreadNum
      BY <1>6, <2>1
    <3>5. <<t, p, i, f>> \in On(q, b) <=> i \in DOMAIN l /\ f = l[i].func
      BY <2>1, <3>1, <3>4, OnAt
    <3>6. <<t, p, i, f>> \in On(r, b) <=> i \in DOMAIN k /\ f = k[i].func
      BY <2>1, <3>2, <3>4, OnAt
    <3>7. <<t, p, i, f>> \in new <=> i = Len(l) + 1 /\ f = tasks[t].func
      BY <1>8, <2>1, <3>3
    <3> QED
      BY <3>3, <3>5, <3>6, <3>7
  <2>2. CASE ~(t \in dsts /\ p = src)
    <3>1. <<t, p, i, f>> \notin new
      BY <1>8, <2>2
    <3>2. t \in Threads /\ p \in 0..ThreadNum => Line(r, b, t, p) = Line(q, b, t, p)
      BY <1>5, <2>2
    <3> QED
      BY <3>1, <3>2, OnAt
  <2> QED
    BY <2>1, <2>2
<1>10. \A m \in On(r, b) \cup On(q, b) \cup new : m = <<m[1], m[2], m[3], m[4]>>
  <2>1. \A m \in On(r, b) \cup On(q, b) : m = <<m[1], m[2], m[3], m[4]>>
    BY <1>4, OnTypes
  <2>2. \A m \in new : m = <<m[1], m[2], m[3], m[4]>>
    BY <1>8
  <2> QED
    BY <2>1, <2>2
<1>11. On(r, b) = On(q, b) \cup new
  <2>1. \A m \in On(r, b) \cup On(q, b) \cup new : m \in On(r, b) <=> m \in On(q, b) \/ m \in new
    <3> SUFFICES ASSUME NEW m \in On(r, b) \cup On(q, b) \cup new
                 PROVE  m \in On(r, b) <=> m \in On(q, b) \/ m \in new
      OBVIOUS
    <3>1. PICK t, p, i, f : m = <<t, p, i, f>>
      BY <1>10
    <3> QED
      BY <1>9, <3>1
  <2> HIDE DEF new
  <2> QED
    BY <2>1
<1>12. ASSUME NEW t \in dsts PROVE at(t) \notin On(q, b)
  BY <1>7, OnAt
<1>13. On(q, b) \cap new = {}
  BY <1>8, <1>12
<1>14. IsFiniteSet(dsts)
  <2>1. ThreadNum - 1 \in Int
    BY ThreadsAre
  <2>2. IsFiniteSet(Threads)
    BY <2>1, FS_Interval DEF Threads
  <2> QED
    BY <2>2, FS_Subset
<1>15. IsFiniteSet(new) /\ Cardinality(new) = Cardinality(dsts)
  <2> DEFINE f == [t \in dsts |-> at(t)]
  <2>1. f \in Surjection(dsts, new) /\ f \in Injection(dsts, new)
    BY <1>8 DEF Surjection, Injection, IsInjective
  <2> HIDE DEF f, new
  <2> QED
    BY <1>14, <2>1, FS_Surjection
<1>16. ASSUME NEW x \in new
       PROVE  /\ x[1] \in dsts /\ x[2] = src /\ x[4] = tasks[x[1]].func
              /\ \A m \in On(q, b) : m[1] = x[1] /\ m[2] \in {src, ThreadNum} => Before(m, x)
  <2>1. PICK t \in dsts : x = at(t)
    BY <1>8
  <2>2. x[1] = t /\ x[2] = src /\ x[3] = Len(q[t][src]) + 1 /\ x[4] = tasks[t].func
    BY <2>1
  <2>3. ASSUME NEW m \in On(q, b), m[1] = t, m[2] = src PROVE m[3] < x[3]
    <3>1. m[3] \in 1..Len(Line(q, b, t, src))
      BY <2>3, OnTypes
    <3>2. Line(q, b, t, src) = q[t][src] /\ Len(q[t][src]) \in Nat
      BY <1>1, <1>6 DEF Line
    <3> QED
      BY <2>2, <3>1, <3>2
  <2> QED
    BY <1>6, <2>2, <2>3 DEF Before
<1> QED
  BY <1>4, <1>11, <1>13, <1>14, <1>15, <1>16 DEF Arrive

(* A bulk dequeue takes the tasks of each sender in their order: the i-th  *)
(* task taken is number Rank(from, i) + 1 of its sender.                   *)
Rank(from, i)     == Cardinality({j \in 1..(i - 1) : from[j] = from[i]})
Taken(from, n, p) == Cardinality({i \in 1..n : from[i] = p})

LEMMA Ranks ==
  ASSUME NEW n \in Nat, NEW from, NEW p
  PROVE  /\ Taken(from, n, p) \in Nat
         /\ \A i \in 1..n : from[i] = p =>
              Rank(from, i) \in Nat /\ Rank(from, i) + 1 \in 1..Taken(from, n, p)
         /\ \A i, j \in 1..n : from[i] = p /\ from[j] = p /\ i < j =>
              Rank(from, i) < Rank(from, j)
         /\ \A k \in 1..Taken(from, n, p) : \E i \in 1..n : from[i] = p /\ Rank(from, i) + 1 = k
<1> DEFINE all     == {i \in 1..n : from[i] = p}
           upTo(i) == {j \in 1..(i - 1) : from[j] = p}
           N       == Cardinality(all)
           rank    == [i \in all |-> Cardinality(upTo(i)) + 1]
<1>1. IsFiniteSet(1..n)
  BY FS_Interval
<1>2. all \in SUBSET (1..n)
  OBVIOUS
<1>3. IsFiniteSet(all) /\ N \in Nat
  BY <1>1, <1>2, FS_Subset, FS_CardinalityType
<1>4. ASSUME NEW i \in all
      PROVE  /\ upTo(i) \cup {i} \in SUBSET all /\ i \notin upTo(i)
             /\ IsFiniteSet(upTo(i)) /\ Cardinality(upTo(i)) \in Nat
             /\ Cardinality(upTo(i) \cup {i}) = Cardinality(upTo(i)) + 1
             /\ Cardinality(upTo(i)) = Rank(from, i)
             /\ i \in 1..n
  <2>1. upTo(i) \cup {i} \in SUBSET all /\ i \notin upTo(i)
    OBVIOUS
  <2>2. from[i] = p /\ i \in 1..n
    OBVIOUS
  <2>3. Cardinality(upTo(i)) = Rank(from, i)
    BY <2>2 DEF Rank
  <2> HIDE DEF all, upTo
  <2>4. upTo(i) \in SUBSET all
    BY <2>1
  <2>5. IsFiniteSet(upTo(i))
    BY <1>3, <2>4, FS_Subset
  <2>6. Cardinality(upTo(i)) \in Nat
    BY <2>5, FS_CardinalityType
  <2>7. Cardinality(upTo(i) \cup {i}) = Cardinality(upTo(i)) + 1
    BY <2>1, <2>5, FS_AddElement
  <2> QED
    BY <2>1, <2>2, <2>3, <2>5, <2>6, <2>7
<1>5. ASSUME NEW i \in all, NEW j \in all, i < j
      PROVE  Cardinality(upTo(i)) < Cardinality(upTo(j))
  <2>1. upTo(i) \cup {i} \in SUBSET upTo(j)
    BY <1>5
  <2> HIDE DEF all, upTo
  <2>2. Cardinality(upTo(i) \cup {i}) <= Cardinality(upTo(j))
    BY <1>4, <2>1, FS_Subset
  <2>3. /\ Cardinality(upTo(i) \cup {i}) = Cardinality(upTo(i)) + 1
        /\ Cardinality(upTo(i)) \in Nat
    BY <1>4
  <2>4. Cardinality(upTo(j)) \in Nat
    BY <1>4
  <2> QED
    BY <2>2, <2>3, <2>4
<1>6. ASSUME NEW i \in all PROVE Cardinality(upTo(i)) + 1 \in 1..N
  <2> HIDE DEF all, upTo, N
  <2>1. Cardinality(upTo(i) \cup {i}) <= N
    BY <1>3, <1>4, FS_Subset DEF N
  <2> QED
    BY <1>3, <1>4, <2>1
<1>7. \A i, j \in all : Cardinality(upTo(i)) + 1 = Cardinality(upTo(j)) + 1 => i = j
  <2> SUFFICES ASSUME NEW i \in all, NEW j \in all,
                      Cardinality(upTo(i)) + 1 = Cardinality(upTo(j)) + 1
               PROVE  i = j
    OBVIOUS
  <2>1. ~(i < j) /\ ~(j < i)
    <3> HIDE DEF all, upTo
    <3>1. Cardinality(upTo(i)) \in Nat /\ Cardinality(upTo(j)) \in Nat
      BY <1>4
    <3>2. i < j => Cardinality(upTo(i)) < Cardinality(upTo(j))
      BY <1>5
    <3>3. j < i => Cardinality(upTo(j)) < Cardinality(upTo(i))
      BY <1>5
    <3> QED
      BY <3>1, <3>2, <3>3
  <2>2. i \in Int /\ j \in Int
    OBVIOUS
  <2> QED
    BY <2>1, <2>2
<1>8. all = {i \in 1..n : from[i] = p} /\ N = Taken(from, n, p)
  BY DEF Taken
<1> HIDE DEF all, upTo, N
<1>9. rank \in Injection(all, 1..N)
  BY <1>6, <1>7 DEF Injection, IsInjective
<1>10. IsFiniteSet(1..N) /\ Cardinality(1..N) = N
  <2>1. N \in Int
    BY <1>3
  <2> QED
    BY <1>3, <2>1, FS_Interval
<1>11. rank \in Surjection(all, 1..N)
  BY <1>9, <1>10, FS_Injection DEF N
<1>12. \A k \in 1..N : \E i \in all : Cardinality(upTo(i)) + 1 = k
  BY <1>11 DEF Surjection
<1>13. \A i \in 1..n : from[i] = p => i \in all
  BY <1>8
<1>14. \A i \in all : i \in 1..n /\ from[i] = p
  BY <1>8
<1>15. \A i \in 1..n : from[i] = p => Rank(from, i) \in Nat /\ Rank(from, i) + 1 \in 1..N
  BY <1>4, <1>6, <1>13
<1>16. \A i, j \in 1..n : from[i] = p /\ from[j] = p /\ i < j => Rank(from, i) < Rank(from, j)
  BY <1>4, <1>5, <1>13
<1>17. \A k \in 1..N : \E i \in 1..n : from[i] = p /\ Rank(from, i) + 1 = k
  BY <1>4, <1>12, <1>14
<1> QED
  BY <1>3, <1>8, <1>15, <1>16, <1>17

LEMMA SubSeqFrom ==
  ASSUME NEW S, NEW s \in Seq(S), NEW k \in Nat, k <= Len(s)
  PROVE  /\ SubSeq(s, k + 1, Len(s)) \in Seq(S)
         /\ Len(SubSeq(s, k + 1, Len(s))) = Len(s) - k
         /\ \A i \in 1..(Len(s) - k) : SubSeq(s, k + 1, Len(s))[i] = s[i + k]
<1> DEFINE l == SubSeq(s, k + 1, Len(s))
<1>1. Len(s) \in Nat
  BY LenProperties
<1>2. \A i \in (k + 1)..Len(s) : s[i] \in S
  BY <1>1, ElementOfSeq
<1>3. k + 1 \in Int /\ Len(s) \in Int
  BY <1>1
<1>4. /\ l \in Seq(S)
      /\ Len(l) = IF k + 1 <= Len(s) THEN Len(s) - (k + 1) + 1 ELSE 0
      /\ \A i \in 1..(Len(s) - (k + 1) + 1) : l[i] = s[k + 1 + i - 1]
  BY <1>2, <1>3, SubSeqProperties
<1> HIDE DEF l
<1>5. Len(l) = Len(s) - k
  BY <1>1, <1>4
<1>6. ASSUME NEW i \in 1..(Len(s) - k) PROVE l[i] = s[i + k]
  <2>1. i \in 1..(Len(s) - (k + 1) + 1) /\ k + 1 + i - 1 = i + k
    BY <1>1
  <2>2. l[i] = s[k + 1 + i - 1]
    BY <1>4, <2>1
  <2> QED
    BY <2>1, <2>2
<1> QED
  BY <1>4, <1>5, <1>6 DEF l

(* The tasks d move from the lines of thread t, of which e is left, to its *)
(* batch.                                                                  *)
Moving(q, b, t, n, from, d, tk, e, c, r) ==
  /\ b[t] = <<>>
  /\ n \in Nat /\ from \in [1..n -> Threads]
  /\ d \in Seq(Task) /\ Len(d) = n
  /\ \A i \in 1..n : d[i] = q[t][from[i]][Rank(from, i) + 1]
  /\ tk \in [Threads -> Nat] /\ \A p \in Threads : tk[p] = Taken(from, n, p)
  /\ e \in [Threads -> Seq(Task)]
  /\ \A p \in Threads : /\ tk[p] <= Len(q[t][p]) /\ Len(e[p]) = Len(q[t][p]) - tk[p]
                         /\ \A i \in 1..Len(e[p]) : e[p][i] = q[t][p][i + tk[p]]
  /\ c = [b EXCEPT ![t] = d]
  /\ r = [q EXCEPT ![t] = e]

LEMMA MoveCarries ==
  ASSUME NEW q \in Queues, NEW b \in Batches, NEW t \in Threads, NEW n, NEW from,
         NEW d, NEW tk, NEW e, NEW c, NEW r, Moving(q, b, t, n, from, d, tk, e, c, r)
  PROVE  /\ c \in Batches /\ r \in Queues
         /\ \E g : Carries(g, On(r, c), On(q, b))
<1> DEFINE M == On(r, c)
           N == On(q, b)
           g == [m \in M |->
                   IF m[1] = t /\ m[2] = ThreadNum
                   THEN <<t, from[m[3]], Rank(from, m[3]) + 1, m[4]>>
                   ELSE IF m[1] = t THEN <<t, m[2], m[3] + tk[m[2]], m[4]>> ELSE m]
<1>1. \A u, p \in Threads : q[u][p] \in Seq(Task) /\ Len(q[u][p]) \in Nat
                            /\ DOMAIN q[u][p] = 1..Len(q[u][p])
  BY LenProperties DEF Queues
<1>2. /\ n \in Nat
      /\ \A p \in Threads : tk[p] \in Nat /\ tk[p] <= Len(q[t][p]) /\ tk[p] = Taken(from, n, p)
      /\ \A i \in 1..n : from[i] \in Threads
  BY DEF Moving
<1>3. ASSUME NEW i \in 1..n
      PROVE  /\ from[i] \in Threads /\ Rank(from, i) \in Nat
             /\ Rank(from, i) + 1 \in 1..tk[from[i]]
             /\ Rank(from, i) + 1 \in DOMAIN q[t][from[i]]
  <2>1. from[i] \in Threads /\ tk[from[i]] = Taken(from, n, from[i])
    BY <1>2 DEF Moving
  <2>2. Rank(from, i) \in Nat /\ Rank(from, i) + 1 \in 1..tk[from[i]]
    BY <1>2, <2>1, Ranks
  <2> QED
    BY <1>1, <1>2, <2>1, <2>2
<1>5. DOMAIN d = 1..n
  BY LenProperties DEF Moving
<1>4. \A i \in 1..n : d[i] = q[t][from[i]][Rank(from, i) + 1]
  BY DEF Moving
<1>6. c \in Batches /\ c[t] = d /\ \A u \in Threads \ {t} : c[u] = b[u]
  BY DEF Batches, Moving
<1>8. ASSUME NEW p \in Threads
      PROVE  /\ Len(e[p]) = Len(q[t][p]) - tk[p]
             /\ DOMAIN e[p] = 1..Len(e[p]) /\ Len(e[p]) \in Nat
             /\ \A i \in DOMAIN e[p] : i + tk[p] \in DOMAIN q[t][p] /\ e[p][i] = q[t][p][i + tk[p]]
  <2>1. /\ e[p] \in Seq(Task) /\ Len(e[p]) = Len(q[t][p]) - tk[p]
        /\ \A i \in 1..Len(e[p]) : e[p][i] = q[t][p][i + tk[p]]
    BY DEF Moving
  <2>2. DOMAIN e[p] = 1..Len(e[p]) /\ Len(e[p]) \in Nat
    BY <2>1, LenProperties
  <2>3. ASSUME NEW i \in 1..Len(e[p]) PROVE i + tk[p] \in 1..Len(q[t][p])
    BY <1>1, <1>2, <2>1, <2>2
  <2> QED
    BY <1>1, <2>1, <2>2, <2>3
<1>9. r \in Queues /\ r[t] = e /\ \A u \in Threads \ {t} : r[u] = q[u]
  BY DEF Queues, Moving
<1>10. /\ Line(q, b, t, ThreadNum) = <<>> /\ Line(r, c, t, ThreadNum) = d
       /\ \A p \in Threads : Line(q, b, t, p) = q[t][p] /\ Line(r, c, t, p) = e[p]
       /\ \A u \in Threads \ {t}, p \in 0..ThreadNum : Line(r, c, u, p) = Line(q, b, u, p)
  <2>1. Line(q, b, t, ThreadNum) = <<>> /\ Line(r, c, t, ThreadNum) = d
    BY <1>6 DEF Line, Moving
  <2>2. \A p \in Threads : Line(q, b, t, p) = q[t][p] /\ Line(r, c, t, p) = e[p]
    BY <1>9, ThreadsAre DEF Line
  <2>3. \A u \in Threads \ {t}, p \in 0..ThreadNum : Line(r, c, u, p) = Line(q, b, u, p)
    BY <1>6, <1>9 DEF Line
  <2> QED
    BY <2>1, <2>2, <2>3
<1>11. /\ ThreadNum \in 0..ThreadNum /\ ThreadNum \notin Threads /\ Threads \subseteq 0..ThreadNum
       /\ \A p \in 0..ThreadNum : p # ThreadNum => p \in Threads
  BY ThreadsAre
<1>12. \A m \in M : /\ m = <<m[1], m[2], m[3], m[4]>> /\ m[1] \in Threads /\ m[2] \in 0..ThreadNum
                    /\ m[3] \in Nat \ {0} /\ m[3] \in DOMAIN Line(r, c, m[1], m[2])
                    /\ m[4] = Line(r, c, m[1], m[2])[m[3]].func
  BY <1>6, <1>9, OnTypes
<1>13. \A m \in N : /\ m = <<m[1], m[2], m[3], m[4]>> /\ m[1] \in Threads /\ m[2] \in 0..ThreadNum
                    /\ m[3] \in Nat \ {0} /\ m[3] \in DOMAIN Line(q, b, m[1], m[2])
                    /\ m[4] = Line(q, b, m[1], m[2])[m[3]].func
  BY OnTypes
(* Where the messages of thread t were, and where they are.                *)
<1>14. ASSUME NEW m \in M, m[1] = t, m[2] = ThreadNum
       PROVE  /\ m[3] \in 1..n
              /\ g[m] = <<t, from[m[3]], Rank(from, m[3]) + 1, m[4]>>
              /\ g[m] \in N
  <2>1. m[3] \in 1..n /\ m[4] = d[m[3]].func
    BY <1>5, <1>10, <1>12, <1>14
  <2>2. m[4] = q[t][from[m[3]]][Rank(from, m[3]) + 1].func
    BY <1>4, <2>1
  <2>3. <<t, from[m[3]], Rank(from, m[3]) + 1, m[4]>> \in N
    <3>1. PICK p : p = from[m[3]]
      OBVIOUS
    <3>2. PICK k : k = Rank(from, m[3]) + 1
      OBVIOUS
    <3>3. p \in Threads /\ k \in DOMAIN q[t][p]
      BY <1>3, <2>1, <3>1, <3>2
    <3>4. p \in 0..ThreadNum /\ k \in DOMAIN Line(q, b, t, p) /\ m[4] = Line(q, b, t, p)[k].func
      BY <1>10, <1>11, <2>2, <3>1, <3>2, <3>3
    <3>5. <<t, p, k, m[4]>> \in N
      BY <3>4, OnAt
    <3> QED
      BY <3>1, <3>2, <3>5
  <2> QED
    BY <1>14, <2>1, <2>3
<1>15. ASSUME NEW m \in M, m[1] = t, m[2] # ThreadNum
       PROVE  /\ m[2] \in Threads
              /\ g[m] = <<t, m[2], m[3] + tk[m[2]], m[4]>>
              /\ g[m] \in N
  <2>1. m[2] \in Threads /\ m[3] \in DOMAIN e[m[2]] /\ m[4] = e[m[2]][m[3]].func
    BY <1>10, <1>11, <1>12, <1>15
  <2>2. m[3] + tk[m[2]] \in DOMAIN q[t][m[2]] /\ m[4] = q[t][m[2]][m[3] + tk[m[2]]].func
    BY <1>8, <2>1
  <2>3. <<t, m[2], m[3] + tk[m[2]], m[4]>> \in N
    <3>1. PICK p : p = m[2]
      OBVIOUS
    <3>2. PICK k : k = m[3] + tk[m[2]]
      OBVIOUS
    <3>3. /\ p \in 0..ThreadNum /\ k \in DOMAIN Line(q, b, t, p)
          /\ m[4] = Line(q, b, t, p)[k].func
      BY <1>10, <1>11, <2>1, <2>2, <3>1, <3>2
    <3>4. <<t, p, k, m[4]>> \in N
      BY <3>3, OnAt
    <3> QED
      BY <3>1, <3>2, <3>4
  <2> QED
    BY <1>15, <2>1, <2>3
<1>16. ASSUME NEW m \in M, m[1] # t PROVE g[m] = m /\ m \in N
  <2>1. Line(r, c, m[1], m[2]) = Line(q, b, m[1], m[2])
    BY <1>10, <1>12, <1>16
  <2>2. <<m[1], m[2], m[3], m[4]>> \in On(r, c)
    BY <1>12
  <2>3. <<m[1], m[2], m[3], m[4]>> \in On(q, b)
    BY <2>1, <2>2, OnAt
  <2> QED
    BY <1>12, <1>16, <2>3
<1>17. ASSUME NEW y \in N PROVE \E x \in M : g[x] = y
  <2>1. CASE y[1] # t
    <3>1. Line(r, c, y[1], y[2]) = Line(q, b, y[1], y[2])
      BY <1>10, <1>13, <2>1
    <3>2. <<y[1], y[2], y[3], y[4]>> \in On(q, b)
      BY <1>13
    <3>3. <<y[1], y[2], y[3], y[4]>> \in On(r, c)
      BY <3>1, <3>2, OnAt
    <3>4. y \in M
      BY <1>13, <3>3
    <3> QED
      BY <1>16, <2>1, <3>4
  <2>2. CASE y[1] = t
    <3>1. PICK p : p = y[2]
      OBVIOUS
    <3>2. y[2] # ThreadNum
      <4>1. DOMAIN <<>> = {}
        OBVIOUS
      <4> QED
        BY <1>10, <1>13, <2>2, <4>1
    <3>3. p \in Threads /\ y[3] \in DOMAIN q[t][p] /\ y[4] = q[t][p][y[3]].func
          /\ y = <<t, p, y[3], y[4]>>
      BY <1>10, <1>11, <1>13, <2>2, <3>1, <3>2
    <3>4. y[3] \in 1..Len(q[t][p]) /\ y[3] \in Nat /\ tk[p] \in Nat /\ tk[p] <= Len(q[t][p])
      BY <1>1, <1>2, <3>3
    <3>5. CASE y[3] <= tk[p]
      <4>1. y[3] \in 1..Taken(from, n, p)
        <5>1. y[3] # 0
          BY <1>13
        <5>2. tk[p] = Taken(from, n, p)
          BY <1>2, <3>3
        <5> QED
          BY <3>4, <3>5, <5>1, <5>2
      <4>2. PICK i \in 1..n : from[i] = p /\ Rank(from, i) + 1 = y[3]
        BY <1>2, <4>1, Ranks
      <4>3. i \in DOMAIN d /\ d[i] = q[t][p][y[3]]
        BY <1>4, <1>5, <4>2
      <4>4. PICK x : x = <<t, ThreadNum, i, y[4]>>
        OBVIOUS
      <4>5. x \in M
        BY <1>10, <1>11, <3>3, <4>3, <4>4, OnAt
      <4>6. x[1] = t /\ x[2] = ThreadNum /\ x[3] = i /\ x[4] = y[4]
        BY <4>4
      <4>7. g[x] = <<t, from[i], Rank(from, i) + 1, y[4]>>
        BY <1>14, <4>5, <4>6
      <4> QED
        BY <3>3, <4>2, <4>5, <4>7
    <3>6. CASE ~(y[3] <= tk[p])
      <4>1. PICK i : i = y[3] - tk[p]
        OBVIOUS
      <4>2. i \in 1..Len(e[p]) /\ i + tk[p] = y[3]
        <5>1. Len(e[p]) = Len(q[t][p]) - tk[p]
          BY <1>8, <3>3
        <5>2. Len(q[t][p]) \in Nat
          BY <1>1, <3>3
        <5> QED
          BY <3>4, <3>6, <4>1, <5>1, <5>2
      <4>3. i \in DOMAIN e[p] /\ e[p][i] = q[t][p][y[3]]
        BY <1>8, <3>3, <4>2
      <4>4. PICK x : x = <<t, p, i, y[4]>>
        OBVIOUS
      <4>5. x \in M
        BY <1>10, <1>11, <3>3, <4>3, <4>4, OnAt
      <4>6. x[1] = t /\ x[2] = p /\ x[3] = i /\ x[4] = y[4]
        BY <4>4
      <4>7. g[x] = <<t, p, i + tk[p], y[4]>>
        BY <1>15, <3>1, <3>2, <4>5, <4>6
      <4> QED
        BY <3>3, <4>2, <4>5, <4>7
    <3> QED
      BY <3>5, <3>6
  <2> QED
    BY <2>1, <2>2
<1>18. \A m \in M : g[m] \in N
  BY <1>14, <1>15, <1>16
<1>19. \A m \in M : /\ m[1] \in Threads /\ m[2] \in 0..ThreadNum /\ m[3] \in Nat
                    /\ m[2] # ThreadNum => m[2] \in Threads /\ tk[m[2]] \in Nat
                    /\ m = <<m[1], m[2], m[3], m[4]>>
  BY <1>2, <1>11, <1>12
<1>20. g \in [M -> N]
  BY <1>18
<1>21. \A m \in M : /\ m[1] = t /\ m[2] = ThreadNum =>
                         /\ m[3] \in 1..n /\ g[m][1] = t /\ g[m][2] = from[m[3]]
                         /\ g[m][3] = Rank(from, m[3]) + 1 /\ g[m][4] = m[4]
                    /\ m[1] = t /\ m[2] # ThreadNum =>
                         /\ g[m][1] = t /\ g[m][2] = m[2]
                         /\ g[m][3] = m[3] + tk[m[2]] /\ g[m][4] = m[4]
                    /\ m[1] # t => g[m] = m
  BY <1>14, <1>15, <1>16
<1> HIDE DEF M, N, g
<1>22. \A x \in M : g[x][1] = x[1] /\ g[x][4] = x[4] /\ x[2] \in {g[x][2], ThreadNum}
  BY <1>19, <1>21
<1>23. \A i, j \in 1..n : from[i] = from[j] /\ Rank(from, i) < Rank(from, j) => i < j
  <2> SUFFICES ASSUME NEW i \in 1..n, NEW j \in 1..n, from[i] = from[j],
                      Rank(from, i) < Rank(from, j)
               PROVE  i < j
    OBVIOUS
  <2>1. j < i => Rank(from, j) < Rank(from, i)
    BY <1>2, Ranks
  <2>2. Rank(from, i) \in Nat /\ Rank(from, j) \in Nat
    BY <1>3
  <2>3. i # j /\ ~(j < i)
    BY <2>1, <2>2
  <2> QED
    BY <2>3
<1>24. \A i, j \in 1..n : from[i] = from[j] /\ Rank(from, i) = Rank(from, j) => i = j
  <2> SUFFICES ASSUME NEW i \in 1..n, NEW j \in 1..n, from[i] = from[j],
                      Rank(from, i) = Rank(from, j)
               PROVE  i = j
    OBVIOUS
  <2>1. (j < i => Rank(from, j) < Rank(from, i)) /\ (i < j => Rank(from, i) < Rank(from, j))
    BY <1>2, Ranks
  <2>2. Rank(from, i) \in Nat /\ Rank(from, j) \in Nat
    BY <1>3
  <2> QED
    BY <2>1, <2>2
<1>25. \A i \in 1..n : from[i] \in Threads /\ Rank(from, i) \in Nat /\ Rank(from, i) + 1 <= tk[from[i]]
  <2> SUFFICES ASSUME NEW i \in 1..n
               PROVE  /\ from[i] \in Threads /\ Rank(from, i) \in Nat
                      /\ Rank(from, i) + 1 <= tk[from[i]]
    OBVIOUS
  <2>1. PICK p : p = from[i]
    OBVIOUS
  <2>2. p \in Threads /\ tk[p] \in Nat
    BY <1>2, <2>1
  <2>3. Rank(from, i) \in Nat /\ Rank(from, i) + 1 \in 1..tk[p]
    BY <1>3, <2>1
  <2> QED
    BY <2>1, <2>2, <2>3
<1>26. ASSUME NEW x \in M, NEW y \in M, g[x] = g[y] PROVE x = y
  <2>1. x[1] = y[1] /\ x[4] = y[4]
    BY <1>22, <1>26
  <2>2. CASE x[1] # t
    BY <1>21, <1>26, <2>1, <2>2
  <2>3. CASE x[1] = t
    <3>1. CASE x[2] = ThreadNum /\ y[2] = ThreadNum
      <4>1. x[3] \in 1..n /\ y[3] \in 1..n /\ from[x[3]] = from[y[3]]
            /\ Rank(from, x[3]) + 1 = Rank(from, y[3]) + 1
        BY <1>21, <1>26, <2>1, <2>3, <3>1
      <4>2. x[3] = y[3]
        BY <1>24, <1>25, <4>1
      <4> QED
        BY <1>19, <2>1, <3>1, <4>2
    <3>2. CASE x[2] # ThreadNum /\ y[2] # ThreadNum
      <4>1. x[2] = y[2] /\ x[3] + tk[x[2]] = y[3] + tk[x[2]]
        BY <1>21, <1>26, <2>1, <2>3, <3>2
      <4>2. x[3] = y[3]
        BY <1>19, <3>2, <4>1
      <4> QED
        BY <1>19, <2>1, <4>1, <4>2
    <3>3. ASSUME NEW v \in M, NEW w \in M, v[1] = t, w[1] = t, g[v] = g[w],
                 v[2] = ThreadNum, w[2] # ThreadNum
          PROVE  FALSE
      <4>1. v[3] \in 1..n /\ from[v[3]] = w[2] /\ Rank(from, v[3]) + 1 = w[3] + tk[w[2]]
        BY <1>21, <3>3
      <4>2. w[3] \in Nat \ {0} /\ tk[w[2]] \in Nat
        BY <1>12, <1>19, <3>3 DEF M
      <4>3. Rank(from, v[3]) \in Nat /\ Rank(from, v[3]) + 1 <= tk[w[2]]
        BY <1>25, <4>1
      <4> QED
        BY <4>1, <4>2, <4>3
    <3> QED
      BY <1>26, <2>1, <2>3, <3>1, <3>2, <3>3
  <2> QED
    BY <2>2, <2>3
<1>27. g \in Bijection(M, N)
  BY <1>17, <1>20, <1>26 DEF Bijection, Injection, Surjection, IsInjective
<1>28. ASSUME NEW x \in M, NEW y \in M, x[1] = y[1], Before(g[x], g[y]) PROVE Before(x, y)
  <2>1. CASE x[1] # t
    BY <1>21, <1>28, <2>1
  <2>2. CASE x[1] = t
    <3>1. g[x][2] # ThreadNum
      BY <1>11, <1>19, <1>21, <1>25, <2>2
    <3>2. g[x][2] = g[y][2] /\ g[x][3] < g[y][3]
      BY <1>28, <3>1 DEF Before
    <3>3. CASE x[2] = ThreadNum /\ y[2] = ThreadNum
      <4>1. x[3] \in 1..n /\ y[3] \in 1..n /\ from[x[3]] = from[y[3]]
            /\ Rank(from, x[3]) + 1 < Rank(from, y[3]) + 1
        BY <1>21, <1>28, <2>2, <3>2, <3>3
      <4>2. x[3] < y[3]
        BY <1>23, <1>25, <4>1
      <4> QED
        BY <3>3, <4>2 DEF Before
    <3>4. CASE x[2] = ThreadNum /\ y[2] # ThreadNum
      BY <3>4 DEF Before
    <3>5. CASE x[2] # ThreadNum /\ y[2] # ThreadNum
      <4>1. x[2] = y[2] /\ x[3] + tk[x[2]] < y[3] + tk[x[2]]
        <5>1. g[x][2] = x[2] /\ g[x][3] = x[3] + tk[x[2]]
          BY <1>21, <2>2, <3>5
        <5>2. g[y][2] = y[2] /\ g[y][3] = y[3] + tk[y[2]]
          BY <1>21, <1>28, <2>2, <3>5
        <5> QED
          BY <3>2, <5>1, <5>2
      <4>2. x[3] < y[3]
        BY <1>19, <3>5, <4>1
      <4> QED
        BY <4>1, <4>2 DEF Before
    <3>6. CASE x[2] # ThreadNum /\ y[2] = ThreadNum
      <4>1. y[3] \in 1..n /\ from[y[3]] = x[2] /\ x[3] + tk[x[2]] < Rank(from, y[3]) + 1
        BY <1>21, <1>28, <2>2, <3>2, <3>6
      <4>2. x[3] \in Nat /\ tk[x[2]] \in Nat
        BY <1>19, <3>6
      <4>3. Rank(from, y[3]) \in Nat /\ Rank(from, y[3]) + 1 <= tk[x[2]]
        BY <1>25, <4>1
      <4> QED
        BY <4>1, <4>2, <4>3
    <3> QED
      BY <3>3, <3>4, <3>5, <3>6
  <2> QED
    BY <2>1, <2>2
<1>29. Carries(g, M, N)
  BY <1>22, <1>27, <1>28 DEF Carries
<1> QED
  BY <1>6, <1>9, <1>29 DEF M, N

(* What msg_poller dequeues.                                               *)
PolledBatch(q, t, n, from) == [i \in 1..n |-> q[t][from[i]][Rank(from, i) + 1]]

PolledLines(q, t, n, from) ==
  [p \in Threads |-> SubSeq(q[t][p], Taken(from, n, p) + 1, Len(q[t][p]))]

LEMMA PollCarries ==
  ASSUME NEW q \in Queues, NEW b \in Batches, NEW t \in Threads, b[t] = <<>>,
         NEW n \in Nat, NEW from \in [1..n -> Threads],
         \A p \in Threads : Taken(from, n, p) <= Len(q[t][p]),
         NEW c, c = [b EXCEPT ![t] = PolledBatch(q, t, n, from)],
         NEW r, r = [q EXCEPT ![t] = PolledLines(q, t, n, from)]
  PROVE  /\ c \in Batches /\ r \in Queues
         /\ \E g : Carries(g, On(r, c), On(q, b))
<1>1. \A p \in Threads : q[t][p] \in Seq(Task) /\ Len(q[t][p]) \in Nat
                         /\ DOMAIN q[t][p] = 1..Len(q[t][p])
  BY LenProperties DEF Queues
<1>2. PICK d : d = [i \in 1..n |-> q[t][from[i]][Rank(from, i) + 1]]
  OBVIOUS
<1>3. d \in Seq(Task) /\ Len(d) = n
  <2>1. ASSUME NEW i \in 1..n PROVE q[t][from[i]][Rank(from, i) + 1] \in Task
    <3>1. PICK p : p = from[i]
      OBVIOUS
    <3>2. p \in Threads /\ Taken(from, n, p) \in Nat /\ Taken(from, n, p) <= Len(q[t][p])
      BY <3>1, Ranks
    <3>3. Rank(from, i) \in Nat /\ Rank(from, i) + 1 \in 1..Taken(from, n, p)
      BY <3>1, Ranks
    <3>4. Rank(from, i) + 1 \in 1..Len(q[t][p])
      BY <1>1, <3>2, <3>3
    <3>5. q[t][p] \in Seq(Task)
      BY <1>1, <3>2
    <3> QED
      BY <3>1, <3>4, <3>5, ElementOfSeq
  <2>2. d \in [1..n -> Task]
    BY <1>2, <2>1
  <2>3. d \in Seq(Task)
    BY <2>2, SeqDef
  <2> QED
    BY <1>2, <2>3, LenProperties
<1>4. PICK tk : tk = [p \in Threads |-> Taken(from, n, p)]
  OBVIOUS
<1>5. tk \in [Threads -> Nat] /\ \A p \in Threads : tk[p] = Taken(from, n, p)
  BY <1>4, Ranks
<1>6. PICK e : e = [p \in Threads |-> SubSeq(q[t][p], tk[p] + 1, Len(q[t][p]))]
  OBVIOUS
<1>7. ASSUME NEW p \in Threads
      PROVE  /\ e[p] \in Seq(Task)
             /\ tk[p] <= Len(q[t][p]) /\ Len(e[p]) = Len(q[t][p]) - tk[p]
             /\ \A i \in 1..Len(e[p]) : e[p][i] = q[t][p][i + tk[p]]
  <2>1. PICK s : s = q[t][p]
    OBVIOUS
  <2>2. PICK k : k = tk[p]
    OBVIOUS
  <2>3. k \in Nat /\ k <= Len(s)
    BY <1>5, <2>1, <2>2
  <2>4. s \in Seq(Task) /\ Len(s) \in Nat /\ DOMAIN s = 1..Len(s)
    BY <1>1, <2>1
  <2>5. e[p] = SubSeq(s, k + 1, Len(s))
    BY <1>6, <2>1, <2>2
  <2>6. /\ SubSeq(s, k + 1, Len(s)) \in Seq(Task)
        /\ Len(SubSeq(s, k + 1, Len(s))) = Len(s) - k
        /\ \A i \in 1..(Len(s) - k) : SubSeq(s, k + 1, Len(s))[i] = s[i + k]
    BY <2>3, <2>4, SubSeqFrom
  <2> QED
    BY <2>1, <2>2, <2>3, <2>5, <2>6
<1>8. e \in [Threads -> Seq(Task)]
  BY <1>6, <1>7
<1>9. r = [q EXCEPT ![t] = e]
  <2>1. e = [p \in Threads |-> SubSeq(q[t][p], Taken(from, n, p) + 1, Len(q[t][p]))]
    BY <1>5, <1>6
  <2> QED
    BY <2>1 DEF PolledLines
<1>10. c = [b EXCEPT ![t] = d]
  BY <1>2 DEF PolledBatch
<1>11. \A i \in 1..n : d[i] = q[t][from[i]][Rank(from, i) + 1]
  BY <1>2
<1>12. Moving(q, b, t, n, from, d, tk, e, c, r)
  BY <1>3, <1>5, <1>7, <1>8, <1>9, <1>10, <1>11 DEF Moving
<1> QED
  BY <1>12, MoveCarries

-----------------------------------------------------------------------------
(* A step takes the messages gone out and puts the messages new in; the    *)
(* others it carries.                                                      *)

MsgTyped == queue \in Queues /\ batch \in Batches

Moved(new, gone) ==
  /\ new \subseteq Messages' /\ gone \subseteq Messages
  /\ \E g : Carries(g, Messages' \ new, Messages \ gone)

LEMMA MessagesAfter == Messages' = On(queue', batch')
<1>1. (Messages = On(queue, batch))'
  BY MessagesOn, PTL
<1> QED
  BY <1>1 DEF On, Line

LEMMA SameCarries == ASSUME NEW M PROVE \E g : Carries(g, M, M)
<1> DEFINE g == [m \in M |-> m]
<1>1. Carries(g, M, M)
  BY DEF Carries, Bijection, Injection, Surjection, IsInjective
<1> QED
  BY <1>1

LEMMA StillMoved ==
  ASSUME UNCHANGED <<queue, batch>>
  PROVE  Moved({}, {}) /\ Messages' = Messages
<1>1. Messages' = Messages
  BY MessagesOn, MessagesAfter
<1>2. Messages \ {} = Messages
  OBVIOUS
<1> QED
  BY <1>1, <1>2, SameCarries DEF Moved

LEMMA PollMoved ==
  ASSUME MsgTyped, NEW t \in Threads, MsgPoller(t)
  PROVE  Moved({}, {}) /\ MsgTyped'
<1>1. batch[t] = <<>>
  BY DEF MsgPoller
<1>0. PICK n \in 1..MaxPoll : \E from \in [1..n -> Threads] :
        /\ \A p \in Threads : Taken(from, n, p) <= Len(queue[t][p])
        /\ batch' = [batch EXCEPT ![t] = [i \in 1..n |-> queue[t][from[i]][Rank(from, i) + 1]]]
        /\ queue' = [queue EXCEPT ![t] =
                       [p \in Threads |-> SubSeq(@[p], Taken(from, n, p) + 1, Len(@[p]))]]
  BY DEF MsgPoller, Taken, Rank
<1>2. PICK from \in [1..n -> Threads] :
        /\ \A p \in Threads : Taken(from, n, p) <= Len(queue[t][p])
        /\ batch' = [batch EXCEPT ![t] = [i \in 1..n |-> queue[t][from[i]][Rank(from, i) + 1]]]
        /\ queue' = [queue EXCEPT ![t] =
                       [p \in Threads |-> SubSeq(@[p], Taken(from, n, p) + 1, Len(@[p]))]]
  BY <1>0
<1>3. n \in Nat
  BY AppAssumption
<1>4. /\ MsgTyped'
      /\ \E g : Carries(g, On(queue', batch'), On(queue, batch))
  <2>1. queue \in Queues /\ batch \in Batches
    BY DEF MsgTyped
  <2>2. PICK c : c = batch'
    OBVIOUS
  <2>3. PICK r : r = queue'
    OBVIOUS
  <2>4. /\ c = [batch EXCEPT ![t] = PolledBatch(queue, t, n, from)]
        /\ r = [queue EXCEPT ![t] = PolledLines(queue, t, n, from)]
    BY <1>2, <2>2, <2>3 DEF PolledBatch, PolledLines
  <2>5. c \in Batches /\ r \in Queues /\ \E g : Carries(g, On(r, c), On(queue, batch))
    BY <1>1, <1>2, <1>3, <2>1, <2>4, PollCarries
  <2> QED
    BY <2>2, <2>3, <2>5 DEF MsgTyped
<1>5. Messages \ {} = Messages /\ Messages' \ {} = Messages'
  OBVIOUS
<1> QED
  BY <1>4, <1>5, MessagesOn, MessagesAfter DEF Moved

(* The task at the head of a batch.                                        *)
HeadOf(t) == <<t, ThreadNum, 1, Head(batch[t]).func>>

LEMMA DoneMoved ==
  ASSUME MsgTyped, NEW t \in Threads, batch[t] # <<>>,
         batch' = [batch EXCEPT ![t] = Tail(@)], UNCHANGED queue
  PROVE  Moved({}, {HeadOf(t)}) /\ MsgTyped'
<1>1. /\ batch' \in Batches
      /\ HeadOf(t) \in On(queue, batch)
      /\ \E g : Carries(g, On(queue, batch'), On(queue, batch) \ {HeadOf(t)})
  BY DoneCarries DEF MsgTyped, HeadOf
<1>2. Messages = On(queue, batch) /\ Messages' = On(queue, batch')
  BY MessagesOn, MessagesAfter
<1>3. Messages' \ {} = Messages'
  OBVIOUS
<1> QED
  BY <1>1, <1>2, <1>3 DEF Moved, MsgTyped

(* What thread src sends to the threads dsts.                              *)
Now(src, dsts, tasks) == Added(queue, src, dsts, tasks)

LEMMA SentMoved ==
  ASSUME MsgTyped, NEW src \in Threads, NEW dsts \in SUBSET Threads, NEW tasks,
         Tasked(dsts, tasks), UNCHANGED batch, queue' = Sent(src, dsts, tasks)
  PROVE  Moved(Now(src, dsts, tasks), {}) /\ MsgTyped'
<1> DEFINE new == Now(src, dsts, tasks)
<1>1. /\ queue' \in Queues /\ On(queue', batch) = On(queue, batch) \cup new
      /\ On(queue, batch) \cap new = {}
  <2>1. PICK r : r = queue'
    OBVIOUS
  <2>2. queue \in Queues /\ batch \in Batches
    BY DEF MsgTyped
  <2>3. r = SentIn(queue, src, dsts, tasks)
    BY <2>1 DEF Sent, SentIn
  <2>4. Arrive(queue, batch, src, dsts, tasks, r)
    BY <2>2, <2>3, SentAdds
  <2> QED
    BY <2>1, <2>4 DEF Now, Arrive
<1>2. Messages = On(queue, batch) /\ Messages' = On(queue', batch)
  BY MessagesOn, MessagesAfter
<1> HIDE DEF new
<1>3. Messages' \ new = Messages /\ new \subseteq Messages' /\ Messages \ {} = Messages
  BY <1>1, <1>2
<1>4. \E g : Carries(g, Messages' \ new, Messages \ {})
  BY <1>3, SameCarries
<1> QED
  BY <1>1, <1>3, <1>4 DEF Moved, MsgTyped, new

LEMMA PassedMoved ==
  ASSUME MsgTyped, NEW t \in Threads, batch[t] # <<>>,
         batch' = [batch EXCEPT ![t] = Tail(@)],
         NEW src \in Threads, NEW dsts \in SUBSET Threads, NEW tasks,
         Tasked(dsts, tasks), queue' = Sent(src, dsts, tasks)
  PROVE  Moved(Now(src, dsts, tasks), {HeadOf(t)}) /\ MsgTyped'
<1> DEFINE new == Now(src, dsts, tasks)
<1>1. /\ batch' \in Batches
      /\ HeadOf(t) \in On(queue, batch)
      /\ \E g : Carries(g, On(queue, batch'), On(queue, batch) \ {HeadOf(t)})
  BY DoneCarries DEF MsgTyped, HeadOf
<1>2. /\ queue' \in Queues /\ On(queue', batch') = On(queue, batch') \cup new
      /\ On(queue, batch') \cap new = {}
  <2>1. PICK r : r = queue'
    OBVIOUS
  <2>2. PICK c : c = batch'
    OBVIOUS
  <2>3. queue \in Queues /\ c \in Batches
    BY <1>1, <2>2 DEF MsgTyped
  <2>4. r = SentIn(queue, src, dsts, tasks)
    BY <2>1 DEF Sent, SentIn
  <2>5. Arrive(queue, c, src, dsts, tasks, r)
    BY <2>3, <2>4, SentAdds
  <2> QED
    BY <2>1, <2>2, <2>5 DEF Now, Arrive
<1>3. Messages = On(queue, batch) /\ Messages' = On(queue', batch')
  BY MessagesOn, MessagesAfter
<1> HIDE DEF new
<1>4. Messages' \ new = On(queue, batch') /\ new \subseteq Messages'
  BY <1>2, <1>3
<1> QED
  BY <1>1, <1>2, <1>3, <1>4 DEF Moved, MsgTyped, new

-----------------------------------------------------------------------------
(* What follows for the messages of a kind.                                *)

Kind(S, F) == {m \in S : m[4] \in F}

LEMMA MovedNum ==
  ASSUME NEW new, NEW gone, Moved(new, gone), IsFiniteSet(Messages), IsFiniteSet(new)
  PROVE  /\ IsFiniteSet(Messages') /\ IsFiniteSet(gone)
         /\ Cardinality(Messages') = Cardinality(Messages) - Cardinality(gone) + Cardinality(new)
         /\ \A F : Num(F)' = Num(F) - Cardinality(Kind(gone, F)) + Cardinality(Kind(new, F))
<1>1. PICK g : Carries(g, Messages' \ new, Messages \ gone)
  BY DEF Moved
<1>2. PICK M : M = Messages' \ new
  OBVIOUS
<1>3. PICK N : N = Messages \ gone
  OBVIOUS
<1>4. /\ gone \in SUBSET Messages /\ N = Messages \ gone
      /\ new \subseteq Messages' /\ M = Messages' \ new
  BY <1>2, <1>3 DEF Moved
<1>5. IsFiniteSet(gone) /\ IsFiniteSet(N)
  BY <1>4, FS_Subset, FS_Difference
<1>6. /\ IsFiniteSet(M) /\ Cardinality(M) = Cardinality(N)
      /\ \A F : /\ IsFiniteSet(Kind(M, F)) /\ IsFiniteSet(Kind(N, F))
                /\ Cardinality(Kind(M, F)) = Cardinality(Kind(N, F))
  <2>1. Carries(g, M, N)
    BY <1>1, <1>2, <1>3
  <2>2. /\ IsFiniteSet(M) /\ Cardinality(M) = Cardinality(N)
        /\ \A F : /\ IsFiniteSet({m \in M : m[4] \in F}) /\ IsFiniteSet({m \in N : m[4] \in F})
                  /\ Cardinality({m \in M : m[4] \in F}) = Cardinality({m \in N : m[4] \in F})
    BY <1>5, <2>1, CarriedCount
  <2> QED
    BY <2>2 DEF Kind
<1>7. /\ Messages' = M \cup new /\ M \cap new = {}
      /\ Messages = N \cup gone /\ N \cap gone = {}
  BY <1>4
<1>8. ASSUME NEW A, NEW B, NEW C, IsFiniteSet(A), IsFiniteSet(B), C = A \cup B, A \cap B = {}
      PROVE  IsFiniteSet(C) /\ Cardinality(C) = Cardinality(A) + Cardinality(B)
             /\ Cardinality(A) \in Nat /\ Cardinality(B) \in Nat
  <2>1. IsFiniteSet(A \cup B)
        /\ Cardinality(A \cup B) = Cardinality(A) + Cardinality(B) - Cardinality(A \cap B)
    BY <1>8, FS_Union
  <2>2. Cardinality(A) \in Nat /\ Cardinality(B) \in Nat /\ Cardinality(A \cap B) = 0
    BY <1>8, FS_EmptySet, FS_CardinalityType
  <2> QED
    BY <1>8, <2>1, <2>2
<1>9. IsFiniteSet(Messages') /\ Cardinality(Messages') = Cardinality(M) + Cardinality(new)
      /\ Cardinality(M) \in Nat /\ Cardinality(new) \in Nat
  BY <1>6, <1>7, <1>8
<1>10. Cardinality(Messages) = Cardinality(N) + Cardinality(gone)
       /\ Cardinality(N) \in Nat /\ Cardinality(gone) \in Nat
  BY <1>5, <1>7, <1>8
<1>11. ASSUME NEW F
       PROVE  Num(F)' = Num(F) - Cardinality(Kind(gone, F)) + Cardinality(Kind(new, F))
  <2>0. Of(F) = Kind(N, F) \cup Kind(gone, F) /\ Kind(N, F) \cap Kind(gone, F) = {}
    BY <1>7 DEF Of, Kind
  <2>1. Of(F)' = Kind(M, F) \cup Kind(new, F) /\ Kind(M, F) \cap Kind(new, F) = {}
    BY <1>7 DEF Of, Kind
  <2>2. Kind(gone, F) \in SUBSET gone /\ Kind(new, F) \in SUBSET new
    BY DEF Kind
  <2>3. IsFiniteSet(Kind(gone, F)) /\ IsFiniteSet(Kind(new, F))
    BY <1>5, <2>2, FS_Subset
  <2>4. IsFiniteSet(Kind(M, F)) /\ IsFiniteSet(Kind(N, F))
        /\ Cardinality(Kind(M, F)) = Cardinality(Kind(N, F))
    BY <1>6
  <2>5. /\ Cardinality(Of(F)) = Cardinality(Kind(N, F)) + Cardinality(Kind(gone, F))
        /\ Cardinality(Kind(N, F)) \in Nat /\ Cardinality(Kind(gone, F)) \in Nat
    <3>1. IsFiniteSet(Kind(N, F)) /\ IsFiniteSet(Kind(gone, F))
      BY <2>3, <2>4
    <3> QED
      BY <1>8, <2>0, <3>1
  <2>6. /\ Cardinality(Of(F)') = Cardinality(Kind(M, F)) + Cardinality(Kind(new, F))
        /\ Cardinality(Kind(M, F)) \in Nat /\ Cardinality(Kind(new, F)) \in Nat
    <3>1. IsFiniteSet(Kind(M, F)) /\ IsFiniteSet(Kind(new, F))
      BY <2>3, <2>4
    <3> QED
      BY <1>8, <2>1, <3>1
  <2> QED
    BY <2>4, <2>5, <2>6 DEF Num
<1> QED
  BY <1>5, <1>6, <1>9, <1>10, <1>11

LEMMA NumTypes ==
  ASSUME IsFiniteSet(Messages), NEW F
  PROVE  /\ IsFiniteSet(Of(F)) /\ Num(F) \in Nat /\ Num(F) <= Cardinality(Messages)
         /\ Num(F) = 0 <=> Of(F) = {}
<1>1. Of(F) \in SUBSET Messages
  BY DEF Of
<1> QED
  BY <1>1, FS_Subset, FS_CardinalityType, FS_EmptySet DEF Num

One(S, F) == IF \E m \in S : m[4] \in F THEN 1 ELSE 0

LEMMA KindOfOne ==
  ASSUME NEW S, NEW F, S = {} \/ \E m : S = {m}
  PROVE  Cardinality(Kind(S, F)) = One(S, F) /\ IsFiniteSet(S)
<1>1. Kind(S, F) = IF \E m \in S : m[4] \in F THEN S ELSE {}
  BY DEF Kind
<1>2. Cardinality({}) = 0 /\ IsFiniteSet({}) /\ \A m : IsFiniteSet({m}) /\ Cardinality({m}) = 1
  BY FS_EmptySet, FS_Singleton
<1> QED
  BY <1>1, <1>2 DEF One

(* At most one message goes, and at most one comes.                        *)
LEMMA MovedOne ==
  ASSUME NEW new, NEW gone, Moved(new, gone), IsFiniteSet(Messages),
         new = {} \/ \E m : new = {m}, gone = {} \/ \E m : gone = {m}
  PROVE  /\ IsFiniteSet(Messages')
         /\ Cardinality(Messages') = Cardinality(Messages) - Cardinality(gone) + Cardinality(new)
         /\ \A F : Num(F)' = Num(F) - One(gone, F) + One(new, F)
<1>1. IsFiniteSet(new)
  BY KindOfOne
<1>2. \A F : Cardinality(Kind(gone, F)) = One(gone, F) /\ Cardinality(Kind(new, F)) = One(new, F)
  BY KindOfOne
<1> QED
  BY <1>1, <1>2, MovedNum

(* A message that was carried was there before, and the others stay.       *)
LEMMA MovedFrom ==
  ASSUME NEW new, NEW gone, Moved(new, gone), NEW x \in Messages', x \notin new
  PROVE  \E y \in Messages : /\ y \notin gone
                             /\ x[1] = y[1] /\ x[4] = y[4] /\ x[2] \in {y[2], ThreadNum}
<1>1. PICK g : Carries(g, Messages' \ new, Messages \ gone)
  BY DEF Moved
<1>2. g[x] \in Messages \ gone
  BY <1>1 DEF Carries, Bijection, Injection, Surjection
<1> QED
  BY <1>1, <1>2 DEF Carries

LEMMA MovedTo ==
  ASSUME NEW new, NEW gone, Moved(new, gone), NEW y \in Messages, y \notin gone
  PROVE  \E x \in Messages' : x \notin new /\ x[1] = y[1] /\ x[4] = y[4]
<1>1. PICK g : Carries(g, Messages' \ new, Messages \ gone)
  BY DEF Moved
<1>2. PICK x \in Messages' \ new : g[x] = y
  BY <1>1 DEF Carries, Bijection, Surjection
<1> QED
  BY <1>1, <1>2 DEF Carries

LEMMA MovedOrder ==
  ASSUME NEW new, NEW gone, Moved(new, gone), Ordered,
         NEW r \in Of(Register)', r \notin new,
         NEW u \in Of({"cq_poller_unregister"})', u \notin new, r[1] = u[1]
  PROVE  Before(r, u)
<1>1. PICK g : Carries(g, Messages' \ new, Messages \ gone)
  BY DEF Moved
<1>2. r \in Messages' \ new /\ u \in Messages' \ new
  BY DEF Of
<1>3. g[r] \in Messages /\ g[u] \in Messages
  BY <1>1, <1>2 DEF Carries, Bijection, Injection, Surjection
<1>4. g[r][1] = g[u][1] /\ g[r][4] = r[4] /\ g[u][4] = u[4]
  BY <1>1, <1>2 DEF Carries
<1>5. g[r] \in Of(Register) /\ g[u] \in Of({"cq_poller_unregister"})
  BY <1>3, <1>4 DEF Of
<1>6. Before(g[r], g[u])
  BY <1>4, <1>5 DEF Ordered
<1> QED
  BY <1>1, <1>2, <1>6 DEF Carries

-----------------------------------------------------------------------------
(* The messages of each kind, as they are counted.                         *)

Counts ==
  /\ Cardinality(Messages) \in Nat
  /\ starts \in Nat /\ (starts = 0 <=> Of({"start"}) = {})
  /\ registers \in Nat /\ (registers = 0 <=> Of(Register) = {})
  /\ reports \in Nat /\ (reports = 0 <=> Of(Reports) = {})
  /\ finals \in Nat /\ (finals = 0 <=> Of({"fini_cb"}) = {})

LEMMA CountsHold == IsFiniteSet(Messages) => Counts
BY NumTypes, FS_CardinalityType DEF Counts, starts, registers, reports, finals

LEMMA CountsHoldAfter == IsFiniteSet(Messages') => Counts'
<1>1. (IsFiniteSet(Messages) => Counts)'
  BY CountsHold, PTL
<1> QED
  BY <1>1

(* A step takes a message with function f and sends one with function h;   *)
(* "none" where there is no such message.                                  *)
Hit(f, F) == IF f \in F THEN 1 ELSE 0
Size(f)   == IF f = "none" THEN 0 ELSE 1

Tally(f, h) ==
  /\ IsFiniteSet(Messages')
  /\ Cardinality(Messages') = Cardinality(Messages) - Size(f) + Size(h)
  /\ starts'    = starts - Hit(f, {"start"}) + Hit(h, {"start"})
  /\ registers' = registers - Hit(f, Register) + Hit(h, Register)
  /\ reports'   = reports - Hit(f, Reports) + Hit(h, Reports)
  /\ finals'    = finals - Hit(f, {"fini_cb"}) + Hit(h, {"fini_cb"})

LEMMA Tallied ==
  ASSUME NEW new, NEW gone, Moved(new, gone), IsFiniteSet(Messages), NEW f, NEW h,
         (gone = {} /\ f = "none") \/ (\E m : gone = {m} /\ m[4] = f /\ f # "none"),
         (new = {} /\ h = "none") \/ (\E m : new = {m} /\ m[4] = h /\ h # "none")
  PROVE  Tally(f, h)
<1>1. /\ IsFiniteSet(Messages')
      /\ Cardinality(Messages') = Cardinality(Messages) - Cardinality(gone) + Cardinality(new)
      /\ \A F : Num(F)' = Num(F) - One(gone, F) + One(new, F)
  BY MovedOne
<1>2. ASSUME NEW F, "none" \notin F PROVE One(gone, F) = Hit(f, F) /\ One(new, F) = Hit(h, F)
  BY <1>2 DEF One, Hit
<1>3. \A m : Cardinality({m}) = 1
  BY FS_Singleton
<1>4. Cardinality(gone) = Size(f) /\ Cardinality(new) = Size(h)
  BY <1>3, FS_EmptySet DEF Size
<1>5. "none" \notin {"start"} /\ "none" \notin Register /\ "none" \notin Reports /\ "none" \notin {"fini_cb"}
  BY DEF Register, Reports
<1>6. \A F : "none" \notin F => Num(F)' = Num(F) - Hit(f, F) + Hit(h, F)
  BY <1>1, <1>2
<1> QED
  BY <1>1, <1>4, <1>5, <1>6 DEF Tally, starts, registers, reports, finals

(* The messages are still addressed as they were.                          *)
LEMMA AddressedAfter ==
  ASSUME Addressed, NEW new, NEW gone, Moved(new, gone),
         \A x \in new : x[4] # "poller_register" /\ (x[4] = "poller_unregister_done" => x[1] = LibThread)
  PROVE  Addressed'
<1>1. ASSUME NEW m \in Of({"poller_unregister_done"})' PROVE m[1] = LibThread
  <2>1. m \in Messages' /\ m[4] = "poller_unregister_done"
    BY DEF Of
  <2>2. CASE m \notin new
    <3>1. PICK y \in Messages : m[1] = y[1] /\ m[4] = y[4]
      BY <2>1, <2>2, MovedFrom
    <3> QED
      BY <2>1, <3>1 DEF Addressed, Of
  <2> QED
    BY <2>1, <2>2
<1>2. ASSUME NEW m \in Of(Register)' PROVE m[1] \in Pollers /\ m[2] \in {LibThread, ThreadNum}
  <2>1. m \in Messages' /\ m[4] = "poller_register" /\ m \notin new
    BY DEF Of, Register
  <2>2. PICK y \in Messages : m[1] = y[1] /\ m[4] = y[4] /\ m[2] \in {y[2], ThreadNum}
    BY <2>1, MovedFrom
  <2>3. y \in Of(Register)
    BY <2>1, <2>2 DEF Of, Register
  <2> QED
    BY <2>2, <2>3 DEF Addressed
<1>3. Pollers' = Pollers
  BY DEF Pollers
<1> QED
  BY <1>1, <1>2 DEF Addressed, Register

LEMMA OrderAfter ==
  ASSUME Ordered, \A u \in Of({"cq_poller_unregister"}) : u[2] \in {LibThread, ThreadNum},
         NEW new, NEW gone, Moved(new, gone),
         \A x \in new : x[4] \notin {"poller_register", "cq_poller_unregister"}
  PROVE  /\ Ordered'
         /\ \A u \in Of({"cq_poller_unregister"})' : u[2] \in {LibThread, ThreadNum}
<1>1. \A x \in Of(Register)' : x \notin new
  BY DEF Of, Register
<1>2. \A x \in Of({"cq_poller_unregister"})' : x \notin new /\ x \in Messages' /\ x[4] = "cq_poller_unregister"
  BY DEF Of
<1>3. ASSUME NEW r \in Of(Register)', NEW u \in Of({"cq_poller_unregister"})', r[1] = u[1]
      PROVE  Before(r, u)
  BY <1>1, <1>2, <1>3, MovedOrder
<1>4. ASSUME NEW u \in Of({"cq_poller_unregister"})' PROVE u[2] \in {LibThread, ThreadNum}
  <2>1. PICK y \in Messages : u[4] = y[4] /\ u[2] \in {y[2], ThreadNum}
    BY <1>2, MovedFrom
  <2>2. y \in Of({"cq_poller_unregister"})
    BY <1>2, <2>1 DEF Of
  <2> QED
    BY <2>1, <2>2
<1>5. Ordered'
  BY <1>3 DEF Ordered, Before, Register
<1> QED
  BY <1>4, <1>5

LEMMA CoveredAfter ==
  ASSUME Covered, NEW new, NEW gone, Moved(new, gone), told' = told,
         \A x \in new : x[4] # "poller_register",
         \A x \in gone : x[4] # "cq_poller_unregister",
         \A t \in pollers' : t \in pollers \/ \E r \in Of(Register) : r[1] = t,
         cm' /\ pc' \notin {"none", "idle"} =>
           cm /\ pc \notin {"none", "idle"} /\ \A x \in gone : x[4] # "cm_poller_unregister"
  PROVE  Covered'
<1>1. ASSUME NEW t \in LibThread..(LibThread + told - 1),
             t \in pollers' \/ \E r \in Of(Register)' : r[1] = t
      PROVE  \E u \in Of({"cq_poller_unregister"})' : u[1] = t
  <2>1. ASSUME NEW r \in Of(Register)', r[1] = t PROVE \E y \in Of(Register) : y[1] = t
    <3>1. r \in Messages' /\ r[4] = "poller_register" /\ r \notin new
      BY DEF Of, Register
    <3>2. PICK y \in Messages : r[1] = y[1] /\ r[4] = y[4]
      BY <3>1, MovedFrom
    <3> QED
      BY <2>1, <3>1, <3>2 DEF Of, Register
  <2>2. t \in pollers \/ \E y \in Of(Register) : y[1] = t
    BY <1>1, <2>1
  <2>3. PICK u \in Of({"cq_poller_unregister"}) : u[1] = t
    BY <2>2 DEF Covered
  <2>4. u \in Messages /\ u[4] = "cq_poller_unregister" /\ u \notin gone
    BY <2>3 DEF Of
  <2>5. PICK x \in Messages' : x[1] = u[1] /\ x[4] = u[4]
    BY <2>4, MovedTo
  <2> QED
    BY <2>3, <2>4, <2>5 DEF Of
<1>2. ASSUME cm', pc' \notin {"none", "idle"} PROVE Of({"cm_poller_unregister"})' # {}
  <2>1. PICK u : u \in Of({"cm_poller_unregister"})
    BY <1>2 DEF Covered
  <2>2. u \in Messages /\ u[4] = "cm_poller_unregister" /\ u \notin gone
    BY <1>2, <2>1 DEF Of
  <2>3. PICK x \in Messages' : x[4] = u[4]
    BY <2>2, MovedTo
  <2> QED
    BY <2>2, <2>3 DEF Of
<1> QED
  BY <1>1, <1>2 DEF Covered, Register


-----------------------------------------------------------------------------
(* The state before a step of a thread, and what every step keeps.         *)

Alive == FiniInv /\ OrderlyInv /\ ~fault /\ phase \in {"up", "stopping"}
Kept  == TypeOK /\ Started /\ Called /\ Freed /\ Addressed /\ Counted /\ OrderlyInv

Functions == {"start", "poller_register", "cm_poller_unregister",
              "cq_poller_unregister", "poller_unregister_done", "fini_cb"}

LEMMA TypedNow == TypeOK => MsgTyped
BY DEF TypeOK, AppTypeOK, MsgTyped, Queues, Batches

LEMMA AliveFacts ==
  ASSUME Alive
  PROVE  /\ TypeOK /\ MsgTyped /\ IsFiniteSet(Messages) /\ Counts
         /\ ready = ThreadNum /\ events = Cardinality(Messages)
BY TypedNow, CountsHold DEF Alive, FiniInv, Started, Counted

LEMMA Heads ==
  ASSUME MsgTyped, NEW t \in Threads, NEW f, AtTask(t, f)
  PROVE  /\ batch[t] # <<>> /\ HeadOf(t) \in Messages
         /\ HeadOf(t)[1] = t /\ HeadOf(t)[2] = ThreadNum /\ HeadOf(t)[3] = 1 /\ HeadOf(t)[4] = f
         /\ \A F : f \in F => HeadOf(t) \in Of(F)
<1>1. batch[t] # <<>> /\ Head(batch[t]).func = f
  BY DEF AtTask
<1>2. HeadOf(t)[1] = t /\ HeadOf(t)[2] = ThreadNum /\ HeadOf(t)[3] = 1 /\ HeadOf(t)[4] = f
  BY <1>1 DEF HeadOf
<1>3. HeadOf(t) \in Messages
  <2>1. PICK c : c = [batch EXCEPT ![t] = Tail(@)]
    OBVIOUS
  <2>2. <<t, ThreadNum, 1, Head(batch[t]).func>> \in On(queue, batch)
    BY <1>1, <2>1, DoneCarries DEF MsgTyped
  <2> QED
    BY <2>2, MessagesOn DEF HeadOf
<1> QED
  BY <1>1, <1>2, <1>3 DEF Of

(* A task that sends nothing.                                              *)
LEMMA TaskOnly ==
  ASSUME Alive, NEW t \in Threads, NEW f \in Functions, AtTask(t, f),
         TaskDone(t, 0), UNCHANGED queue
  PROVE  /\ MsgTyped' /\ Moved({}, {HeadOf(t)}) /\ Tally(f, "none") /\ Counts'
         /\ events' = Cardinality(Messages')
<1>1. batch' = [batch EXCEPT ![t] = Tail(@)] /\ events' = events - 1
  <2>1. events \in Int
    BY AliveFacts DEF Counts
  <2> QED
    BY <2>1 DEF TaskDone
<1>2. Moved({}, {HeadOf(t)}) /\ MsgTyped'
  BY <1>1, AliveFacts, Heads, DoneMoved
<1>3. f # "none"
  BY DEF Functions
<1>4. Tally(f, "none")
  BY <1>2, <1>3, AliveFacts, Heads, Tallied
<1>5. events' = Cardinality(Messages')
  BY <1>1, <1>3, <1>4, AliveFacts DEF Tally, Size, Counts
<1> QED
  BY <1>2, <1>4, <1>5, CountsHoldAfter DEF Tally

LEMMA OneTasked ==
  ASSUME NEW dst \in Threads, NEW h \in Functions, NEW tasks, tasks[dst] = Msg(h)
  PROVE  {dst} \in SUBSET Threads /\ Tasked({dst}, tasks)
BY DEF Tasked, Msg, Functions, Task

LEMMA NowOne ==
  ASSUME NEW src, NEW dst, NEW h, NEW tasks, tasks[dst] = Msg(h)
  PROVE  \E x : /\ Now(src, {dst}, tasks) = {x}
                /\ x[1] = dst /\ x[2] = src /\ x[4] = h
<1> DEFINE x == <<dst, src, Len(queue[dst][src]) + 1, tasks[dst].func>>
<1>1. Now(src, {dst}, tasks) = {x}
  BY DEF Now, Added
<1>2. x[1] = dst /\ x[2] = src /\ x[4] = h
  BY DEF Msg
<1> QED
  BY <1>1, <1>2

(* A task that sends one message.                                          *)
Passes(t, f, dst, h) ==
  /\ MsgTyped' /\ Tally(f, h) /\ Counts' /\ events' = Cardinality(Messages')
  /\ \E x : Moved({x}, {HeadOf(t)}) /\ x[1] = dst /\ x[2] = t /\ x[4] = h

LEMMA TaskAndSend ==
  ASSUME Alive, NEW t \in Threads, NEW f \in Functions, AtTask(t, f), TaskDone(t, 1),
         NEW dst \in Threads, NEW h \in Functions, Send(t, dst, Msg(h))
  PROVE  Passes(t, f, dst, h)
<1>1. batch' = [batch EXCEPT ![t] = Tail(@)] /\ events' = events
  <2>1. events \in Int
    BY AliveFacts DEF Counts
  <2> QED
    BY <2>1 DEF TaskDone
<1>2. PICK tasks : tasks = [u \in {dst} |-> Msg(h)]
  OBVIOUS
<1>3. queue' = Sent(t, {dst}, tasks) /\ tasks[dst] = Msg(h)
  BY <1>2 DEF Send
<1>4. {dst} \in SUBSET Threads /\ Tasked({dst}, tasks)
  BY <1>3, OneTasked
<1>5. PICK x : /\ Now(t, {dst}, tasks) = {x}
               /\ x[1] = dst /\ x[2] = t /\ x[4] = h
  BY <1>3, NowOne
<1>6. Moved(Now(t, {dst}, tasks), {HeadOf(t)}) /\ MsgTyped'
  BY <1>1, <1>3, <1>4, AliveFacts, Heads, PassedMoved
<1>7. Moved({x}, {HeadOf(t)})
  BY <1>5, <1>6
<1>8. f # "none" /\ h # "none"
  BY DEF Functions
<1>9. Tally(f, h)
  BY <1>5, <1>7, <1>8, AliveFacts, Heads, Tallied
<1>10. events' = Cardinality(Messages')
  BY <1>1, <1>8, <1>9, AliveFacts DEF Tally, Size, Counts
<1> QED
  BY <1>5, <1>6, <1>7, <1>9, <1>10, CountsHoldAfter DEF Tally, Passes

(* A message sent outside of a task: it comes after what was sent on the   *)
(* same way.                                                               *)
Joins(src, dst, h) ==
  /\ MsgTyped' /\ Tally("none", h) /\ Counts' /\ events' = Cardinality(Messages')
  /\ \E x : /\ Moved({x}, {}) /\ Messages' = Messages \cup {x} /\ x \notin Messages
            /\ x[1] = dst /\ x[2] = src /\ x[4] = h
            /\ \A m \in Messages : m[1] = dst /\ m[2] \in {src, ThreadNum} => Before(m, x)

LEMMA SendOnly ==
  ASSUME MsgTyped, IsFiniteSet(Messages), events = Cardinality(Messages),
         NEW src \in Threads, NEW dst \in Threads, NEW h \in Functions,
         NEW tasks, tasks[dst] = Msg(h), UNCHANGED batch, SendAll(src, {dst}, tasks)
  PROVE  Joins(src, dst, h)
<1>1. queue' = Sent(src, {dst}, tasks) /\ events' = events + 1
  BY FS_Singleton DEF SendAll
<1>2. {dst} \in SUBSET Threads /\ Tasked({dst}, tasks)
  BY OneTasked
<1>3. Moved(Now(src, {dst}, tasks), {}) /\ MsgTyped'
  BY <1>1, <1>2, SentMoved
<1>4. PICK x : /\ Now(src, {dst}, tasks) = {x}
               /\ x[1] = dst /\ x[2] = src /\ x[4] = h
  BY NowOne
<1>5. Moved({x}, {})
  BY <1>3, <1>4
<1>6. h # "none"
  BY DEF Functions
<1>7. Tally("none", h)
  BY <1>4, <1>5, <1>6, Tallied
<1>8. events' = Cardinality(Messages')
  BY <1>1, <1>6, <1>7, FS_CardinalityType DEF Tally, Size
<1>9. /\ Messages' = Messages \cup {x} /\ x \notin Messages
      /\ \A m \in Messages : m[1] = dst /\ m[2] \in {src, ThreadNum} => Before(m, x)
  <2>1. PICK r : r = queue'
    OBVIOUS
  <2>2. queue \in Queues /\ batch \in Batches
    BY DEF MsgTyped
  <2>3. r = SentIn(queue, src, {dst}, tasks)
    BY <1>1, <2>1 DEF Sent, SentIn
  <2>4. Arrive(queue, batch, src, {dst}, tasks, r)
    BY <1>2, <2>2, <2>3, SentAdds
  <2>5. Added(queue, src, {dst}, tasks) = {x}
    BY <1>4 DEF Now
  <2>6. /\ On(r, batch) = On(queue, batch) \cup {x} /\ On(queue, batch) \cap {x} = {}
        /\ \A m \in On(queue, batch) : m[1] = x[1] /\ m[2] \in {src, ThreadNum} => Before(m, x)
    BY <2>4, <2>5 DEF Arrive
  <2>7. Messages = On(queue, batch) /\ Messages' = On(r, batch)
    BY <2>1, MessagesOn, MessagesAfter
  <2> HIDE DEF Before
  <2> QED
    BY <1>4, <2>6, <2>7
<1> QED
  BY <1>3, <1>4, <1>5, <1>7, <1>8, <1>9, CountsHoldAfter DEF Tally, Joins

(* The application's part of the state.                                    *)
LEMMA AppTyped ==
  ASSUME TypeOK, StopInv', MsgTyped', events' \in Nat, ready = ThreadNum, ready' = ready,
         phase' \in {"up", "stopping", "over"}, polling' \subseteq polling,
         locker' \in Threads \cup {-1}
  PROVE  AppTypeOK(Task)'
<1>1. /\ queue' \in [Threads -> [Threads -> Seq(Task)]]
      /\ batch' \in [Threads -> Seq(Task)]
  BY DEF MsgTyped, Queues, Batches
<1>2. /\ running' \in SUBSET Threads
      /\ inStop' \in [Threads -> [pc : {"out", "lock", "write"}, rc : {0, 1}, mask : SUBSET Threads]]
      /\ stops' \in Nat
  BY DEF StopInv, StopTyped
<1>3. polling' \in SUBSET (0..(ready' - 1)) /\ ready' \in 0..ThreadNum
  BY DEF TypeOK, AppTypeOK
<1>4. \A t \in Threads : ~(t >= ready')
  BY ThreadsAre DEF Threads
<1> QED
  BY <1>1, <1>2, <1>3, <1>4 DEF AppTypeOK, Threads

LEMMA AppTypedSame ==
  ASSUME Alive, StopInv', MsgTyped', events' \in Nat, UNCHANGED lifeVars
  PROVE  AppTypeOK(Task)'
<1>1. /\ ready = ThreadNum /\ ready' = ready /\ TypeOK
      /\ phase' \in {"up", "stopping", "over"} /\ polling' \subseteq polling
      /\ locker' \in Threads \cup {-1}
  BY AliveFacts DEF Alive, lifeVars, TypeOK, AppTypeOK
<1> QED
  BY <1>1, AppTyped

-----------------------------------------------------------------------------
(* The tasks.                                                              *)

LEMMA Sizes ==
  /\ LibThread \in Threads /\ LibThread \in Nat /\ PollNum \in Nat \ {0}
  /\ Pollers \subseteq Threads /\ LibThread \in Pollers /\ LibThread # ThreadNum /\ LibThread # -1
  /\ \A t \in Threads : t # -1
BY LibAssumption, ThreadsAre DEF Pollers

LEMMA KeptRdmaInit ==
  ASSUME Alive, StopInv', NEW t \in Threads, RdmaInit(t)
  PROVE  Kept'
<1>1. /\ AtTask(t, "start") /\ TaskDone(t, 0) /\ cm' = TRUE /\ pc' = "idle"
      /\ UNCHANGED <<queue, lifeVars, ctx, pollers, ioCnt, caller, told, freed, cbs, fault>>
  BY DEF RdmaInit
<1>2. /\ MsgTyped' /\ Moved({}, {HeadOf(t)}) /\ Tally("start", "none") /\ Counts'
      /\ events' = Cardinality(Messages')
  BY <1>1, TaskOnly DEF Functions
<1>3. HeadOf(t)[4] = "start" /\ HeadOf(t) \in Of({"start"})
  BY <1>1, AliveFacts, Heads
<1>4. /\ TypeOK /\ Started /\ Called /\ Freed /\ Addressed /\ Counted /\ Counts
      /\ phase \in {"up", "stopping"} /\ phase' = phase /\ ready' = ready
  BY <1>1, AliveFacts DEF Alive, FiniInv, lifeVars
<1>5. pc = "none"
  BY <1>3, <1>4 DEF Started
<1>6. /\ starts' = starts - 1 /\ registers' = registers /\ reports' = reports /\ finals' = finals
  BY <1>2, <1>4 DEF Tally, Hit, Register, Reports, Counts
<1>7. registers = 0 /\ reports = 0 /\ finals = 0 /\ starts = 1
  BY <1>3, <1>4, <1>5 DEF Started, Called, Freed, Counted, Counts
<1>8. TypeOK'
  <2>1. AppTypeOK(Task)'
    BY <1>1, <1>2, AppTypedSame DEF Counts
  <2> QED
    BY <1>1, <1>4, <2>1 DEF TypeOK
<1>9. Started'
  BY <1>1, <1>2, <1>4, <1>5, <1>6, <1>7 DEF Started, Counts
<1>10. Called'
  BY <1>1, <1>2, <1>4, <1>5, <1>6, <1>7 DEF Started, Called, Counts
<1>11. Freed'
  BY <1>1, <1>2, <1>4, <1>6, <1>7 DEF Freed, Counts
<1>12. Addressed'
  BY <1>2, <1>4, AddressedAfter
<1>13. Counted'
  BY <1>1, <1>2, <1>4, <1>5, <1>6, <1>7 DEF Counted, Tally
<1>14. OrderlyInv'
  <2> SUFFICES ASSUME Orderly' PROVE InOrder'
    BY DEF OrderlyInv
  <2>1. Orderly
    BY <1>1 DEF Orderly
  <2>2. InOrder
    BY <2>1 DEF Alive, OrderlyInv
  <2>3. Ordered' /\ \A u \in Of({"cq_poller_unregister"})' : u[2] \in {LibThread, ThreadNum}
    BY <1>2, <2>2, OrderAfter DEF InOrder
  <2>4. Covered'
    <3>1. Covered
      BY <1>4, <2>2 DEF InOrder
    <3> QED
      BY <1>1, <1>2, <1>3, <3>1, CoveredAfter
  <2> QED
    BY <1>1, <1>4, <1>5, <2>2, <2>3, <2>4 DEF InOrder, Called
<1> QED
  BY <1>8, <1>9, <1>10, <1>11, <1>12, <1>13, <1>14 DEF Kept

LEMMA KeptPollerRegister ==
  ASSUME Alive, StopInv', NEW t \in Threads, PollerRegister(t)
  PROVE  Kept'
<1>1. /\ AtTask(t, "poller_register") /\ TaskDone(t, 0) /\ pollers' = pollers \cup {t} /\ fault' = freed
      /\ UNCHANGED <<queue, lifeVars, ctx, cm, ioCnt, caller, pc, told, freed, cbs>>
  BY DEF PollerRegister
<1>2. /\ MsgTyped' /\ Moved({}, {HeadOf(t)}) /\ Tally("poller_register", "none") /\ Counts'
      /\ events' = Cardinality(Messages')
  BY <1>1, TaskOnly DEF Functions
<1>3. HeadOf(t)[4] = "poller_register" /\ HeadOf(t) \in Of(Register) /\ HeadOf(t)[1] = t
  BY <1>1, AliveFacts, Heads DEF Register
<1>4. /\ TypeOK /\ Started /\ Called /\ Freed /\ Addressed /\ Counted /\ Counts
      /\ phase \in {"up", "stopping"} /\ phase' = phase /\ ready' = ready
  BY <1>1, AliveFacts DEF Alive, FiniInv, lifeVars
<1>5. ctx # "none" /\ t \in Pollers
  BY <1>3, <1>4 DEF Started, Addressed
<1>6. /\ starts' = starts /\ registers' = registers - 1 /\ reports' = reports /\ finals' = finals
  BY <1>2, <1>4 DEF Tally, Hit, Register, Reports, Counts
<1>8. TypeOK'
  <2>1. AppTypeOK(Task)'
    BY <1>1, <1>2, AppTypedSame DEF Counts
  <2>2. pollers' \in SUBSET Pollers
    BY <1>1, <1>4, <1>5 DEF TypeOK
  <2> QED
    BY <1>1, <1>4, <2>1, <2>2 DEF TypeOK, Pollers
<1>9. Started'
  BY <1>1, <1>2, <1>4, <1>5, <1>6 DEF Started, Counts
<1>10. Called'
  BY <1>1, <1>2, <1>4, <1>6 DEF Called, Counts
<1>11. Freed'
  BY <1>1, <1>2, <1>4, <1>6 DEF Freed, Counts
<1>12. Addressed'
  BY <1>2, <1>4, AddressedAfter
<1>13. Counted'
  BY <1>1, <1>2, <1>4, <1>6, Sizes DEF Counted, Tally, Counts
<1>14. OrderlyInv'
  <2> SUFFICES ASSUME Orderly' PROVE InOrder'
    BY DEF OrderlyInv
  <2>1. Orderly
    BY <1>1 DEF Orderly
  <2>2. InOrder /\ ~freed
    BY <1>3, <2>1 DEF Alive, OrderlyInv, InOrder, Quiet
  <2>3. Ordered' /\ \A u \in Of({"cq_poller_unregister"})' : u[2] \in {LibThread, ThreadNum}
    BY <1>2, <2>2, OrderAfter DEF InOrder
  <2>4. Covered'
    <3>1. Covered
      BY <1>4, <2>2 DEF InOrder
    <3>2. \A u \in pollers' : u \in pollers \/ \E r \in Of(Register) : r[1] = u
      BY <1>1, <1>3
    <3> QED
      BY <1>1, <1>2, <1>3, <3>1, <3>2, CoveredAfter
  <2> QED
    BY <1>1, <1>4, <2>2, <2>3, <2>4 DEF InOrder
<1> QED
  BY <1>8, <1>9, <1>10, <1>11, <1>12, <1>13, <1>14 DEF Kept

LEMMA KeptCmPollerUnregister ==
  ASSUME Alive, StopInv', NEW t \in Threads, CmPollerUnregister(t)
  PROVE  Kept'
<1>1. /\ AtTask(t, "cm_poller_unregister") /\ TaskDone(t, 1) /\ cm' = FALSE
      /\ Send(t, LibThread, Msg("poller_unregister_done"))
      /\ UNCHANGED <<lifeVars, ctx, pollers, ioCnt, caller, pc, told, freed, cbs, fault>>
  BY DEF CmPollerUnregister
<1>2. /\ MsgTyped' /\ Tally("cm_poller_unregister", "poller_unregister_done") /\ Counts'
      /\ events' = Cardinality(Messages')
      /\ \E x : /\ Moved({x}, {HeadOf(t)})
                /\ x[1] = LibThread /\ x[2] = t /\ x[4] = "poller_unregister_done"
  <2>1. /\ LibThread \in Threads
        /\ "cm_poller_unregister" \in Functions /\ "poller_unregister_done" \in Functions
    BY Sizes DEF Functions
  <2>2. Passes(t, "cm_poller_unregister", LibThread, "poller_unregister_done")
    BY <1>1, <2>1, TaskAndSend
  <2> QED
    BY <2>2 DEF Passes
<1>3. PICK x : /\ Moved({x}, {HeadOf(t)})
               /\ x[1] = LibThread /\ x[4] = "poller_unregister_done"
  BY <1>2
<1>4. HeadOf(t)[4] = "cm_poller_unregister" /\ HeadOf(t) \in Of(Reports)
  BY <1>1, AliveFacts, Heads DEF Reports
<1>5. /\ TypeOK /\ Started /\ Called /\ Freed /\ Addressed /\ Counted /\ Counts
      /\ phase \in {"up", "stopping"} /\ phase' = phase /\ ready' = ready
  BY <1>1, AliveFacts DEF Alive, FiniInv, lifeVars
<1>6. ~freed /\ pc \notin {"none", "idle"}
  BY <1>4, <1>5 DEF Freed, Called
<1>7. /\ starts' = starts /\ registers' = registers /\ reports' = reports /\ finals' = finals
  BY <1>2, <1>5 DEF Tally, Hit, Register, Reports, Counts
<1>8. TypeOK'
  <2>1. AppTypeOK(Task)'
    BY <1>1, <1>2, AppTypedSame DEF Counts
  <2> QED
    BY <1>1, <1>5, <2>1 DEF TypeOK
<1>9. Started'
  BY <1>1, <1>2, <1>5, <1>7 DEF Started, Counts
<1>10. Called'
  BY <1>1, <1>2, <1>5, <1>6, <1>7 DEF Called, Counts
<1>11. Freed'
  BY <1>1, <1>2, <1>5, <1>7 DEF Freed, Counts
<1>12. Addressed'
  BY <1>3, <1>5, AddressedAfter
<1>13. Counted'
  BY <1>1, <1>2, <1>5, <1>7 DEF Counted, Tally
<1>14. OrderlyInv'
  <2> SUFFICES ASSUME Orderly' PROVE InOrder'
    BY DEF OrderlyInv
  <2>1. Orderly
    BY <1>1 DEF Orderly
  <2>2. InOrder
    BY <2>1 DEF Alive, OrderlyInv
  <2>3. Ordered' /\ \A u \in Of({"cq_poller_unregister"})' : u[2] \in {LibThread, ThreadNum}
    BY <1>3, <2>2, OrderAfter DEF InOrder
  <2>4. Covered'
    <3>1. Covered
      BY <1>5, <2>2 DEF InOrder
    <3> QED
      BY <1>1, <1>3, <1>4, <3>1, CoveredAfter
  <2> QED
    BY <1>1, <1>5, <1>6, <2>2, <2>3, <2>4 DEF InOrder
<1> QED
  BY <1>8, <1>9, <1>10, <1>11, <1>12, <1>13, <1>14 DEF Kept

(* What is told to go after it has registered is not registered again.     *)
LEMMA KeptCqPollerUnregister ==
  ASSUME Alive, StopInv', NEW t \in Threads, CqPollerUnregister(t)
  PROVE  Kept'
<1>1. /\ AtTask(t, "cq_poller_unregister") /\ TaskDone(t, 1) /\ fault' = freed /\ pollers' = pollers \ {t}
      /\ Send(t, LibThread, Msg("poller_unregister_done"))
      /\ UNCHANGED <<lifeVars, ctx, cm, ioCnt, caller, pc, told, freed, cbs>>
  BY DEF CqPollerUnregister
<1>2. /\ MsgTyped' /\ Tally("cq_poller_unregister", "poller_unregister_done") /\ Counts'
      /\ events' = Cardinality(Messages')
      /\ \E x : /\ Moved({x}, {HeadOf(t)})
                /\ x[1] = LibThread /\ x[2] = t /\ x[4] = "poller_unregister_done"
  <2>1. /\ LibThread \in Threads
        /\ "cq_poller_unregister" \in Functions /\ "poller_unregister_done" \in Functions
    BY Sizes DEF Functions
  <2>2. Passes(t, "cq_poller_unregister", LibThread, "poller_unregister_done")
    BY <1>1, <2>1, TaskAndSend
  <2> QED
    BY <2>2 DEF Passes
<1>3. PICK x : /\ Moved({x}, {HeadOf(t)})
               /\ x[1] = LibThread /\ x[4] = "poller_unregister_done"
  BY <1>2
<1>4. /\ HeadOf(t)[1] = t /\ HeadOf(t)[2] = ThreadNum /\ HeadOf(t)[3] = 1
      /\ HeadOf(t)[4] = "cq_poller_unregister"
      /\ HeadOf(t) \in Of({"cq_poller_unregister"}) /\ HeadOf(t) \in Of(Reports)
  BY <1>1, AliveFacts, Heads DEF Reports
<1>5. /\ TypeOK /\ Started /\ Called /\ Freed /\ Addressed /\ Counted /\ Counts /\ MsgTyped
      /\ phase \in {"up", "stopping"} /\ phase' = phase /\ ready' = ready
  BY <1>1, AliveFacts DEF Alive, FiniInv, lifeVars
<1>6. ~freed /\ pc \notin {"none", "idle"}
  BY <1>4, <1>5 DEF Freed, Called
<1>7. /\ starts' = starts /\ registers' = registers /\ reports' = reports /\ finals' = finals
  BY <1>2, <1>5 DEF Tally, Hit, Register, Reports, Counts
<1>8. TypeOK'
  <2>1. AppTypeOK(Task)'
    BY <1>1, <1>2, AppTypedSame DEF Counts
  <2>2. pollers' \in SUBSET Pollers
    BY <1>1, <1>5 DEF TypeOK
  <2> QED
    BY <1>1, <1>5, <2>1, <2>2 DEF TypeOK, Pollers
<1>9. Started'
  BY <1>1, <1>2, <1>5, <1>7 DEF Started, Counts
<1>10. Called'
  BY <1>1, <1>2, <1>5, <1>6, <1>7 DEF Called, Counts
<1>11. Freed'
  BY <1>1, <1>2, <1>5, <1>6, <1>7 DEF Freed, Counts
<1>12. Addressed'
  BY <1>3, <1>5, AddressedAfter
<1>13. Counted'
  BY <1>1, <1>2, <1>5, <1>7 DEF Counted, Tally
<1>14. OrderlyInv'
  <2> SUFFICES ASSUME Orderly' PROVE InOrder'
    BY DEF OrderlyInv
  <2>1. Orderly
    BY <1>1 DEF Orderly
  <2>2. InOrder
    BY <2>1 DEF Alive, OrderlyInv
  <2>3. Ordered' /\ \A u \in Of({"cq_poller_unregister"})' : u[2] \in {LibThread, ThreadNum}
    BY <1>3, <2>2, OrderAfter DEF InOrder
  <2>4. \A r \in Of(Register) : r[1] # t
    <3> SUFFICES ASSUME NEW r \in Of(Register), r[1] = t PROVE FALSE
      OBVIOUS
    <3>1. Before(r, HeadOf(t))
      BY <1>4, <2>2 DEF InOrder, Ordered
    <3>2. r[3] \in Nat \ {0}
      BY <1>5, MessagesOn, OnTypes DEF Of, MsgTyped
    <3> QED
      BY <1>4, <3>1, <3>2 DEF Before
  <2>5. Covered'
    <3>1. ASSUME NEW u \in LibThread..(LibThread + told - 1),
                 u \in pollers' \/ \E r \in Of(Register)' : r[1] = u
          PROVE  \E y \in Of({"cq_poller_unregister"})' : y[1] = u
      <4>1. ASSUME NEW r \in Of(Register)', r[1] = u PROVE \E y \in Of(Register) : y[1] = u
        <5>1. r \in Messages' /\ r[4] = "poller_register" /\ r \notin {x}
          BY <1>3 DEF Of, Register
        <5>2. PICK y \in Messages : r[1] = y[1] /\ r[4] = y[4]
          BY <1>3, <5>1, MovedFrom
        <5> QED
          BY <4>1, <5>1, <5>2 DEF Of, Register
      <4>2. PICK y \in Of({"cq_poller_unregister"}) : y[1] = u
        BY <1>1, <1>5, <2>2, <3>1, <4>1 DEF InOrder, Covered
      <4>3. u # t
        BY <1>1, <2>4, <3>1, <4>1
      <4>4. y \in Messages /\ y[4] = "cq_poller_unregister" /\ y \notin {HeadOf(t)}
        BY <1>4, <4>2, <4>3 DEF Of
      <4>5. PICK z \in Messages' : z[1] = y[1] /\ z[4] = y[4]
        BY <1>3, <4>4, MovedTo
      <4> QED
        BY <4>2, <4>4, <4>5 DEF Of
    <3>2. ASSUME cm', pc' \notin {"none", "idle"} PROVE Of({"cm_poller_unregister"})' # {}
      <4>1. PICK y : y \in Of({"cm_poller_unregister"})
        BY <1>1, <1>5, <2>2, <3>2 DEF InOrder, Covered
      <4>2. y \in Messages /\ y[4] = "cm_poller_unregister" /\ y \notin {HeadOf(t)}
        BY <1>4, <4>1 DEF Of
      <4>3. PICK z \in Messages' : z[4] = y[4]
        BY <1>3, <4>2, MovedTo
      <4> QED
        BY <4>2, <4>3 DEF Of
    <3> QED
      BY <1>1, <3>1, <3>2 DEF Covered, Register
  <2> QED
    BY <1>1, <1>5, <1>6, <2>2, <2>3, <2>5 DEF InOrder
<1> QED
  BY <1>8, <1>9, <1>10, <1>11, <1>12, <1>13, <1>14 DEF Kept

(* A report that is not the last one.                                      *)
LEMMA KeptReport ==
  ASSUME Alive, StopInv', NEW t \in Threads, PollerUnregisterDone(t), ioCnt # 1
  PROVE  Kept'
<1>1. AtTask(t, "poller_unregister_done")
  BY DEF PollerUnregisterDone
<1>2. /\ HeadOf(t)[4] = "poller_unregister_done" /\ HeadOf(t) \in Of(Reports)
  BY <1>1, AliveFacts, Heads DEF Reports
<1>3. /\ TypeOK /\ Started /\ Called /\ Freed /\ Addressed /\ Counted /\ Counts
      /\ phase \in {"up", "stopping"}
  BY AliveFacts DEF Alive, FiniInv
<1>4. ~freed /\ pc \notin {"none", "idle"}
  BY <1>2, <1>3 DEF Freed, Called
<1>5. /\ ioCnt > 1 /\ ioCnt' = ioCnt - 1 /\ TaskDone(t, 0)
      /\ UNCHANGED <<queue, freed, fault, lifeVars, ctx, cm, pollers, caller, pc, told, cbs>>
  BY <1>4 DEF PollerUnregisterDone
<1>6. /\ MsgTyped' /\ Moved({}, {HeadOf(t)}) /\ Tally("poller_unregister_done", "none") /\ Counts'
      /\ events' = Cardinality(Messages')
  BY <1>1, <1>5, TaskOnly DEF Functions
<1>7. phase' = phase /\ ready' = ready
  BY <1>5 DEF lifeVars
<1>8. /\ starts' = starts /\ registers' = registers /\ reports' = reports - 1 /\ finals' = finals
  BY <1>3, <1>6 DEF Tally, Hit, Register, Reports, Counts
<1>9. TypeOK'
  <2>1. AppTypeOK(Task)'
    BY <1>5, <1>6, AppTypedSame DEF Counts
  <2>2. ioCnt' \in 0..(PollNum + 1)
    BY <1>3, <1>5, Sizes DEF TypeOK
  <2> QED
    BY <1>3, <1>5, <2>1, <2>2 DEF TypeOK
<1>10. Started'
  BY <1>3, <1>5, <1>6, <1>7, <1>8 DEF Started, Counts
<1>11. Called'
  BY <1>3, <1>4, <1>5, <1>6 DEF Called
<1>12. Freed'
  BY <1>3, <1>4, <1>5, <1>6, <1>8 DEF Freed, Counts
<1>13. Addressed'
  BY <1>3, <1>6, AddressedAfter
<1>14. Counted'
  BY <1>3, <1>5, <1>6, <1>7, <1>8, Sizes DEF Counted, Tally, TypeOK, Counts
<1>15. OrderlyInv'
  <2> SUFFICES ASSUME Orderly' PROVE InOrder'
    BY DEF OrderlyInv
  <2>1. Orderly
    BY <1>5 DEF Orderly
  <2>2. InOrder
    BY <2>1 DEF Alive, OrderlyInv
  <2>3. Ordered' /\ \A u \in Of({"cq_poller_unregister"})' : u[2] \in {LibThread, ThreadNum}
    BY <1>6, <2>2, OrderAfter DEF InOrder
  <2>4. Covered'
    <3>1. Covered
      BY <1>3, <2>2 DEF InOrder
    <3> QED
      BY <1>2, <1>5, <1>6, <3>1, CoveredAfter
  <2> QED
    BY <1>4, <1>5, <1>7, <2>2, <2>3, <2>4 DEF InOrder
<1> QED
  BY <1>9, <1>10, <1>11, <1>12, <1>13, <1>14, <1>15 DEF Kept

(* The last report frees the handle.                                       *)
LEMMA KeptLastReport ==
  ASSUME Alive, StopInv', NEW t \in Threads, PollerUnregisterDone(t), ioCnt = 1
  PROVE  Kept'
<1>1. AtTask(t, "poller_unregister_done") /\ Free(t)
  BY DEF PollerUnregisterDone
<1>2. /\ HeadOf(t)[1] = t /\ HeadOf(t)[4] = "poller_unregister_done"
      /\ HeadOf(t) \in Of({"poller_unregister_done"}) /\ HeadOf(t) \in Of(Reports)
  BY <1>1, AliveFacts, Heads DEF Reports
<1>3. /\ TypeOK /\ Started /\ Called /\ Freed /\ Addressed /\ Counted /\ Counts
      /\ phase \in {"up", "stopping"} /\ MsgTyped /\ IsFiniteSet(Messages)
  BY AliveFacts DEF Alive, FiniInv
<1>4. ~freed /\ pc \notin {"none", "idle"} /\ caller \in Threads /\ t = LibThread
  BY <1>2, <1>3 DEF Freed, Called, Addressed
<1>5. /\ ioCnt' = 0 /\ freed' = TRUE /\ TaskDone(t, 1) /\ Send(t, caller, Msg("fini_cb"))
      /\ UNCHANGED <<fault, lifeVars, ctx, cm, pollers, caller, pc, told, cbs>>
  BY <1>4 DEF PollerUnregisterDone
<1>6. /\ MsgTyped' /\ Tally("poller_unregister_done", "fini_cb") /\ Counts'
      /\ events' = Cardinality(Messages')
      /\ \E x : Moved({x}, {HeadOf(t)}) /\ x[1] = caller /\ x[2] = t /\ x[4] = "fini_cb"
  <2>1. "poller_unregister_done" \in Functions /\ "fini_cb" \in Functions
    BY DEF Functions
  <2>2. PICK c : c = caller
    OBVIOUS
  <2>3. c \in Threads /\ Send(t, c, Msg("fini_cb"))
    BY <1>4, <1>5, <2>2
  <2>4. Passes(t, "poller_unregister_done", c, "fini_cb")
    BY <1>1, <1>5, <2>1, <2>3, TaskAndSend
  <2> QED
    BY <2>2, <2>4 DEF Passes
<1>7. PICK x : Moved({x}, {HeadOf(t)}) /\ x[4] = "fini_cb"
  BY <1>6
<1>8. phase' = phase /\ ready' = ready
  BY <1>5 DEF lifeVars
<1>9. /\ starts' = starts /\ registers' = registers /\ reports' = reports - 1 /\ finals' = finals + 1
  BY <1>3, <1>6 DEF Tally, Hit, Register, Reports, Counts
<1>10. reports = 1 /\ finals = 0
  <2>1. reports # 0 /\ finals = 0 /\ reports \in Nat
    BY <1>2, <1>3, <1>4 DEF Counts, Freed
  <2>2. 1 = reports + (IF pc = "send" THEN PollNum - told ELSE 0)
    BY <1>3, <1>4 DEF Counted
  <2>3. told \in 0..PollNum
    BY <1>3 DEF TypeOK
  <2> QED
    BY <2>1, <2>2, <2>3, Sizes
<1>11. TypeOK'
  <2>1. AppTypeOK(Task)'
    BY <1>5, <1>6, AppTypedSame DEF Counts
  <2>2. ioCnt' \in 0..(PollNum + 1)
    BY <1>5, Sizes
  <2> QED
    BY <1>3, <1>5, <2>1, <2>2 DEF TypeOK
<1>12. Started'
  BY <1>3, <1>5, <1>6, <1>8, <1>9 DEF Started, Counts
<1>13. Called'
  BY <1>3, <1>4, <1>5, <1>6 DEF Called
<1>14. Freed'
  BY <1>5, <1>6, <1>9, <1>10 DEF Freed, Counts
<1>15. Addressed'
  BY <1>3, <1>7, AddressedAfter
<1>16. Counted'
  BY <1>3, <1>5, <1>6, <1>8, <1>9, <1>10 DEF Counted, Tally
<1>17. OrderlyInv'
  <2> SUFFICES ASSUME Orderly' PROVE InOrder'
    BY DEF OrderlyInv
  <2>1. Orderly
    BY <1>5 DEF Orderly
  <2>2. InOrder
    BY <2>1 DEF Alive, OrderlyInv
  <2>3. Ordered' /\ \A u \in Of({"cq_poller_unregister"})' : u[2] \in {LibThread, ThreadNum}
    BY <1>7, <2>2, OrderAfter DEF InOrder
  <2>4. pc \notin {"count", "send"} /\ pc = "returned"
    <3>1. caller = LibThread
      BY <1>4, <2>1, Sizes DEF Orderly
    <3> QED
      BY <1>1, <1>3, <1>4, <3>1 DEF Free, TypeOK
  <2>5. \A y \in Of(Reports) : y = HeadOf(t)
    <3>1. IsFiniteSet(Of(Reports)) /\ Cardinality(Of(Reports)) = 1
      BY <1>3, <1>10, NumTypes DEF reports, Num
    <3>2. PICK y : Of(Reports) = {y}
      BY <3>1, FS_Singleton
    <3> QED
      BY <1>2, <3>2
  <2>6. Of({"cq_poller_unregister"}) = {} /\ Of({"cm_poller_unregister"}) = {}
    <3>1. \A y : y[4] \in {"cq_poller_unregister", "cm_poller_unregister"} => y # HeadOf(t)
      BY <1>2
    <3>2. \A y \in Of({"cq_poller_unregister"}) \cup Of({"cm_poller_unregister"}) :
            y \in Of(Reports) /\ y[4] \in {"cq_poller_unregister", "cm_poller_unregister"}
      BY DEF Of, Reports
    <3> QED
      BY <2>5, <3>1, <3>2
  <2>7. Quiet
    <3>1. ~cm
      BY <1>3, <1>4, <2>2, <2>6 DEF InOrder, Covered
    <3>2. CASE ctx = "none"
      BY <1>3, <3>1, <3>2 DEF Started, Quiet
    <3>3. CASE ctx = "early"
      <4>1. told = PollNum
        BY <2>2, <2>4, <3>3 DEF InOrder
      <4>2. \A u \in Pollers : u \notin pollers /\ ~\E r \in Of(Register) : r[1] = u
        BY <1>3, <2>2, <2>6, <4>1 DEF InOrder, Covered, Pollers
      <4>3. pollers = {}
        BY <1>3, <4>2 DEF TypeOK
      <4>4. Of(Register) = {}
        BY <1>3, <4>2 DEF Addressed
      <4> QED
        BY <3>1, <4>3, <4>4 DEF Quiet
    <3> QED
      BY <1>3, <2>1, <3>2, <3>3 DEF Orderly, TypeOK
  <2>8. Quiet'
    BY <1>3, <1>5, <1>6, <1>9, <2>7 DEF Quiet, Counts
  <2>9. Covered'
    BY <2>8 DEF Covered, Quiet
  <2> QED
    BY <1>5, <1>8, <2>2, <2>3, <2>4, <2>8, <2>9 DEF InOrder
<1> QED
  BY <1>11, <1>12, <1>13, <1>14, <1>15, <1>16, <1>17 DEF Kept

LEMMA KeptFiniCb ==
  ASSUME Alive, StopInv', NEW t \in Threads, FiniCb(t)
  PROVE  Kept'
<1>1. /\ AtTask(t, "fini_cb") /\ TaskDone(t, 0) /\ cbs' = cbs + 1 /\ polling' = polling \ {t}
      /\ UNCHANGED <<queue, phase, ready, locker, ctx, cm, pollers, ioCnt, caller, pc, told, freed, fault>>
  BY DEF FiniCb, StopBegin
<1>2. /\ MsgTyped' /\ Moved({}, {HeadOf(t)}) /\ Tally("fini_cb", "none") /\ Counts'
      /\ events' = Cardinality(Messages')
  BY <1>1, TaskOnly DEF Functions
<1>3. HeadOf(t)[4] = "fini_cb" /\ HeadOf(t) \in Of({"fini_cb"})
  BY <1>1, AliveFacts, Heads
<1>4. /\ TypeOK /\ Started /\ Called /\ Freed /\ Addressed /\ Counted /\ Counts
      /\ phase \in {"up", "stopping"}
  BY AliveFacts DEF Alive, FiniInv
<1>5. /\ starts' = starts /\ registers' = registers /\ reports' = reports /\ finals' = finals - 1
  BY <1>2, <1>4 DEF Tally, Hit, Register, Reports, Counts
<1>6. TypeOK'
  <2>1. /\ ready = ThreadNum /\ locker' \in Threads \cup {-1} /\ polling' \subseteq polling
        /\ events' \in Nat
    BY <1>1, <1>2, <1>4, AliveFacts DEF TypeOK, AppTypeOK, Counts
  <2>2. AppTypeOK(Task)'
    BY <1>1, <1>2, <1>4, <2>1, AppTyped
  <2>3. cbs' \in Nat
    BY <1>1, <1>4 DEF TypeOK
  <2> QED
    BY <1>1, <1>4, <2>2, <2>3 DEF TypeOK
<1>7. Started'
  BY <1>1, <1>2, <1>4, <1>5 DEF Started, Counts
<1>8. Called'
  BY <1>1, <1>2, <1>4, <1>5 DEF Called, Counts
<1>9. Freed'
  BY <1>1, <1>2, <1>3, <1>4, <1>5 DEF Freed, Counts
<1>10. Addressed'
  BY <1>2, <1>4, AddressedAfter
<1>11. Counted'
  BY <1>1, <1>2, <1>4, <1>5 DEF Counted, Tally, Counts
<1>12. OrderlyInv'
  <2> SUFFICES ASSUME Orderly' PROVE InOrder'
    BY DEF OrderlyInv
  <2>1. Orderly
    BY <1>1 DEF Orderly
  <2>2. InOrder
    BY <2>1 DEF Alive, OrderlyInv
  <2>3. Ordered' /\ \A u \in Of({"cq_poller_unregister"})' : u[2] \in {LibThread, ThreadNum}
    BY <1>2, <2>2, OrderAfter DEF InOrder
  <2>4. Covered'
    <3>1. Covered
      BY <1>4, <2>2 DEF InOrder
    <3> QED
      BY <1>1, <1>2, <1>3, <3>1, CoveredAfter
  <2>5. freed' => Quiet'
    BY <1>1, <1>2, <1>4, <1>5, <2>2 DEF InOrder, Quiet, Counts
  <2> QED
    BY <1>1, <1>4, <2>2, <2>3, <2>4, <2>5 DEF InOrder
<1> QED
  BY <1>6, <1>7, <1>8, <1>9, <1>10, <1>11, <1>12 DEF Kept

-----------------------------------------------------------------------------
(* Steps that leave the messages where they are.                           *)

LEMMA SameMessages ==
  ASSUME UNCHANGED <<queue, batch>>
  PROVE  /\ Messages' = Messages /\ \A F : Of(F)' = Of(F)
         /\ starts' = starts /\ registers' = registers /\ reports' = reports /\ finals' = finals
<1>1. Messages' = Messages
  BY StillMoved
<1>2. \A F : Of(F)' = Of(F)
  BY <1>1 DEF Of
<1>3. Register' = Register /\ Reports' = Reports
  BY DEF Register, Reports
<1> QED
  BY <1>1, <1>2 DEF starts, registers, reports, finals, Num, Register, Reports

LEMMA KeptCqPoller ==
  ASSUME Alive, StopInv', NEW t \in Threads, CqPoller(t)
  PROVE  Kept'
<1>1. /\ t \in pollers /\ freed /\ fault' = TRUE
      /\ UNCHANGED <<queue, batch, events, lifeVars, phase, ready, ctx, cm, pollers, ioCnt, caller,
                     pc, told, freed, cbs>>
  BY DEF CqPoller, appVars, msgVars, lifeVars
<1>2. /\ Messages' = Messages /\ \A F : Of(F)' = Of(F)
      /\ starts' = starts /\ registers' = registers /\ reports' = reports /\ finals' = finals
  BY <1>1, SameMessages
<1>3. /\ TypeOK /\ Started /\ Called /\ Freed /\ Addressed /\ Counted /\ MsgTyped /\ events \in Nat
  BY AliveFacts DEF Alive, FiniInv, Counts
<1>4. TypeOK'
  <2>1. AppTypeOK(Task)'
    BY <1>1, <1>3, AppTypedSame DEF MsgTyped
  <2> QED
    BY <1>1, <1>3, <2>1 DEF TypeOK
<1>5. Started' /\ Called'
  BY <1>1, <1>2, <1>3 DEF Started, Called, Register, Reports
<1>6. Freed' /\ Addressed' /\ Counted'
  BY <1>1, <1>2, <1>3 DEF Freed, Addressed, Counted, Register, Reports, Pollers
<1>7. ~Orderly
  BY <1>1 DEF Alive, OrderlyInv, InOrder, Quiet
<1>8. OrderlyInv'
  BY <1>1, <1>7 DEF OrderlyInv, Orderly
<1> QED
  BY <1>4, <1>5, <1>6, <1>8 DEF Kept

LEMMA KeptFiniCount ==
  ASSUME Alive, StopInv', FiniCount
  PROVE  Kept'
<1>1. /\ pc = "count" /\ fault' = freed
      /\ UNCHANGED <<queue, batch, events, lifeVars, phase, ready, ctx, cm, pollers, caller,
                     told, freed, cbs>>
  BY DEF FiniCount, appVars, msgVars, lifeVars
<1>2. IF freed \/ ctx = "none" THEN pc' = "returned" /\ UNCHANGED ioCnt
      ELSE pc' = "send" /\ ioCnt' = ioCnt + PollNum
  BY DEF FiniCount
<1>3. /\ Messages' = Messages /\ \A F : Of(F)' = Of(F)
      /\ starts' = starts /\ registers' = registers /\ reports' = reports /\ finals' = finals
  BY <1>1, SameMessages
<1>4. /\ TypeOK /\ Started /\ Called /\ Freed /\ Addressed /\ Counted /\ MsgTyped /\ Counts
      /\ events \in Nat /\ phase \in {"up", "stopping"}
  BY AliveFacts DEF Alive, FiniInv, Counts
<1>5. told = 0 /\ (~freed => ioCnt = 1) /\ caller \in Threads
  BY <1>1, <1>4 DEF Called
<1>6. TypeOK'
  <2>1. AppTypeOK(Task)'
    BY <1>1, <1>4, AppTypedSame DEF MsgTyped
  <2>2. ioCnt' \in 0..(PollNum + 1) /\ pc' \in {"returned", "send"}
    BY <1>2, <1>4, <1>5, Sizes DEF TypeOK
  <2> QED
    BY <1>1, <1>4, <2>1, <2>2 DEF TypeOK
<1>7. Started' /\ Called'
  BY <1>1, <1>2, <1>3, <1>4, <1>5 DEF Started, Called, Register, Reports
<1>8. Freed' /\ Addressed'
  BY <1>1, <1>2, <1>3, <1>4 DEF Freed, Addressed, Register, Reports, Pollers
<1>9. Counted'
  BY <1>1, <1>2, <1>3, <1>4, <1>5, Sizes DEF Counted, Counts
<1>10. OrderlyInv'
  <2> SUFFICES ASSUME Orderly' PROVE InOrder'
    BY DEF OrderlyInv
  <2>1. Orderly
    BY <1>1 DEF Orderly
  <2>2. InOrder /\ ~freed
    BY <1>1, <2>1 DEF Alive, OrderlyInv, InOrder
  <2>3. Ordered' /\ \A u \in Of({"cq_poller_unregister"})' : u[2] \in {LibThread, ThreadNum}
    BY <1>3, <2>2 DEF InOrder, Ordered, Register, Before
  <2>4. Covered'
    BY <1>1, <1>2, <1>3, <1>4, <2>2 DEF InOrder, Covered, Register
  <2> QED
    BY <1>1, <1>2, <2>2, <2>3, <2>4 DEF InOrder
<1> QED
  BY <1>6, <1>7, <1>8, <1>9, <1>10 DEF Kept

(* kv_app_stop, and the registration of the threads' pollers.              *)
LEMMA KeptStop ==
  ASSUME Alive, StopInv', UNCHANGED msgVars, UNCHANGED libVars, ready' = ready,
         phase' \in {"up", "stopping"}, polling' \subseteq polling, locker' \in Threads \cup {-1}
  PROVE  Kept'
<1>1. UNCHANGED <<queue, batch, events, ready, ctx, cm, pollers, ioCnt, caller, pc, told, freed, cbs, fault>>
  BY DEF msgVars, libVars
<1>2. /\ Messages' = Messages /\ \A F : Of(F)' = Of(F)
      /\ starts' = starts /\ registers' = registers /\ reports' = reports /\ finals' = finals
  BY <1>1, SameMessages
<1>3. /\ TypeOK /\ Started /\ Called /\ Freed /\ Addressed /\ Counted /\ MsgTyped /\ events \in Nat
      /\ phase \in {"up", "stopping"} /\ ready = ThreadNum
  BY AliveFacts DEF Alive, FiniInv, Counts
<1>4. TypeOK'
  <2>1. AppTypeOK(Task)'
    BY <1>1, <1>3, AppTyped DEF MsgTyped
  <2> QED
    BY <1>1, <1>3, <2>1 DEF TypeOK
<1>5. Started' /\ Called'
  BY <1>1, <1>2, <1>3 DEF Started, Called, Register, Reports
<1>6. Freed' /\ Addressed' /\ Counted'
  BY <1>1, <1>2, <1>3 DEF Freed, Addressed, Counted, Register, Reports, Pollers
<1>7. OrderlyInv'
  <2> SUFFICES ASSUME Orderly' PROVE InOrder'
    BY DEF OrderlyInv
  <2>1. InOrder
    BY <1>1 DEF Orderly, Alive, OrderlyInv
  <2>2. Ordered' /\ \A u \in Of({"cq_poller_unregister"})' : u[2] \in {LibThread, ThreadNum}
    BY <1>2, <2>1 DEF InOrder, Ordered, Register, Before
  <2>3. Covered'
    BY <1>1, <1>2, <1>3, <2>1 DEF InOrder, Covered, Register
  <2>4. freed' => Quiet'
    BY <1>1, <1>2, <2>1 DEF InOrder, Quiet, Register
  <2> QED
    BY <1>1, <2>1, <2>2, <2>3, <2>4 DEF InOrder
<1> QED
  BY <1>4, <1>5, <1>6, <1>7 DEF Kept

-----------------------------------------------------------------------------
(* Taking messages, and sending them outside of a task.                    *)

LEMMA KeptPoll ==
  ASSUME Alive, StopInv', NEW t \in Threads, Poll(t)
  PROVE  Kept'
<1>1. /\ MsgPoller(t)
      /\ UNCHANGED <<events, lifeVars, phase, ready, ctx, cm, pollers, ioCnt, caller, pc, told,
                     freed, cbs, fault>>
  BY DEF Poll, MsgPoller, libVars, lifeVars
<1>2. /\ TypeOK /\ Started /\ Called /\ Freed /\ Addressed /\ Counted /\ MsgTyped /\ Counts
      /\ IsFiniteSet(Messages) /\ events = Cardinality(Messages) /\ phase \in {"up", "stopping"}
  BY AliveFacts DEF Alive, FiniInv
<1>3. Moved({}, {}) /\ MsgTyped'
  BY <1>1, <1>2, PollMoved
<1>4. Tally("none", "none")
  BY <1>2, <1>3, Tallied
<1>5. Counts' /\ IsFiniteSet(Messages') /\ Cardinality(Messages') = Cardinality(Messages)
  BY <1>2, <1>4, CountsHoldAfter DEF Tally, Size, Counts
<1>6. /\ starts' = starts /\ registers' = registers /\ reports' = reports /\ finals' = finals
  BY <1>2, <1>4 DEF Tally, Hit, Register, Reports, Counts
<1>7. TypeOK'
  <2>1. AppTypeOK(Task)'
    BY <1>1, <1>2, <1>3, AppTypedSame DEF Counts
  <2> QED
    BY <1>1, <1>2, <2>1 DEF TypeOK
<1>8. Started'
  BY <1>1, <1>2, <1>5, <1>6 DEF Started, Counts
<1>9. Called'
  BY <1>1, <1>2, <1>5, <1>6 DEF Called, Counts
<1>10. Freed'
  BY <1>1, <1>2, <1>5, <1>6 DEF Freed, Counts
<1>11. Addressed'
  BY <1>2, <1>3, AddressedAfter
<1>12. Counted'
  BY <1>1, <1>2, <1>5, <1>6 DEF Counted
<1>13. OrderlyInv'
  <2> SUFFICES ASSUME Orderly' PROVE InOrder'
    BY DEF OrderlyInv
  <2>1. InOrder
    BY <1>1 DEF Orderly, Alive, OrderlyInv
  <2>2. Ordered' /\ \A u \in Of({"cq_poller_unregister"})' : u[2] \in {LibThread, ThreadNum}
    BY <1>3, <2>1, OrderAfter DEF InOrder
  <2>3. Covered'
    <3>1. Covered
      BY <1>2, <2>1 DEF InOrder
    <3> QED
      BY <1>1, <1>3, <3>1, CoveredAfter
  <2>4. freed' => Quiet'
    BY <1>1, <1>2, <1>5, <1>6, <2>1 DEF InOrder, Quiet, Counts
  <2> QED
    BY <1>1, <2>1, <2>2, <2>3, <2>4 DEF InOrder
<1> QED
  BY <1>7, <1>8, <1>9, <1>10, <1>11, <1>12, <1>13 DEF Kept

(* kv_rdma_fini begins; nothing of an end is under way before.             *)
LEMMA KeptFini ==
  ASSUME Alive, StopInv', NEW t \in Threads, Fini(t)
  PROVE  Kept'
<1>1. /\ pc = "idle" /\ ioCnt' = 1 /\ caller' = t /\ pc' = "count"
      /\ SendAll(t, {LibThread}, [l \in {LibThread} |-> Msg("cm_poller_unregister")])
      /\ UNCHANGED <<batch, lifeVars, phase, ready, ctx, cm, pollers, told, freed, cbs, fault>>
  BY DEF Fini, lifeVars
<1>2. /\ TypeOK /\ Started /\ Called /\ Freed /\ Addressed /\ Counted /\ MsgTyped /\ Counts
      /\ IsFiniteSet(Messages) /\ events = Cardinality(Messages) /\ phase \in {"up", "stopping"}
  BY AliveFacts DEF Alive, FiniInv
<1>3. /\ caller = -1 /\ ~freed /\ ioCnt = 0 /\ ctx # "late" /\ Of(Reports) = {} /\ told = 0 /\ reports = 0
  BY <1>1, <1>2 DEF Called, Counts
<1>4. PICK tasks : tasks = [l \in {LibThread} |-> Msg("cm_poller_unregister")]
  OBVIOUS
<1>5. /\ tasks[LibThread] = Msg("cm_poller_unregister") /\ SendAll(t, {LibThread}, tasks)
      /\ "cm_poller_unregister" \in Functions /\ LibThread \in Threads
  BY <1>1, <1>4, Sizes DEF Functions
<1>6. Joins(t, LibThread, "cm_poller_unregister")
  BY <1>1, <1>2, <1>5, SendOnly
<1>7. PICK x : /\ Moved({x}, {}) /\ Messages' = Messages \cup {x} /\ x[4] = "cm_poller_unregister"
  BY <1>6 DEF Joins
<1>8. /\ starts' = starts /\ registers' = registers /\ reports' = 1 /\ finals' = finals
  BY <1>2, <1>3, <1>6 DEF Joins, Tally, Hit, Register, Reports, Counts
<1>9. TypeOK'
  <2>1. AppTypeOK(Task)'
    BY <1>1, <1>6, AppTypedSame DEF Joins, Counts
  <2> QED
    BY <1>1, <1>2, <2>1, Sizes DEF TypeOK
<1>10. Started'
  BY <1>1, <1>2, <1>6, <1>8 DEF Joins, Started, Counts
<1>11. Called'
  BY <1>1, <1>3 DEF Called
<1>12. Freed'
  BY <1>1, <1>2, <1>3, <1>6, <1>8 DEF Joins, Freed, Counts
<1>13. Addressed'
  BY <1>2, <1>7, AddressedAfter
<1>14. Counted'
  BY <1>1, <1>2, <1>6, <1>8 DEF Joins, Counted, Tally
<1>15. OrderlyInv'
  <2> SUFFICES ASSUME Orderly' PROVE InOrder'
    BY DEF OrderlyInv
  <2>1. InOrder
    BY <1>3 DEF Orderly, Alive, OrderlyInv
  <2>2. Ordered' /\ \A u \in Of({"cq_poller_unregister"})' : u[2] \in {LibThread, ThreadNum}
    BY <1>7, <2>1, OrderAfter DEF InOrder
  <2>3. Covered'
    <3>1. x \in Of({"cm_poller_unregister"})'
      BY <1>7 DEF Of
    <3>2. ~\E u \in LibThread..(LibThread + told' - 1) : TRUE
      BY <1>1, <1>3, Sizes
    <3> QED
      BY <3>1, <3>2 DEF Covered
  <2> QED
    BY <1>1, <1>3, <2>1, <2>2, <2>3 DEF InOrder
<1> QED
  BY <1>9, <1>10, <1>11, <1>12, <1>13, <1>14, <1>15 DEF Kept

(* The loop of kv_rdma_fini ends.                                          *)
LEMMA KeptFiniReturn ==
  ASSUME Alive, StopInv', FiniSend, freed \/ told = PollNum
  PROVE  Kept'
<1>1. /\ pc = "send" /\ fault' = freed /\ pc' = "returned"
      /\ UNCHANGED <<queue, events, told, batch, lifeVars, phase, ready, ctx, cm, pollers, ioCnt,
                     caller, freed, cbs>>
  BY DEF FiniSend, lifeVars
<1>2. /\ Messages' = Messages /\ \A F : Of(F)' = Of(F)
      /\ starts' = starts /\ registers' = registers /\ reports' = reports /\ finals' = finals
  BY <1>1, SameMessages
<1>3. /\ TypeOK /\ Started /\ Called /\ Freed /\ Addressed /\ Counted /\ MsgTyped /\ Counts
      /\ events \in Nat /\ phase \in {"up", "stopping"}
  BY AliveFacts DEF Alive, FiniInv, Counts
<1>4. TypeOK'
  <2>1. AppTypeOK(Task)'
    BY <1>1, <1>3, AppTypedSame DEF MsgTyped
  <2> QED
    BY <1>1, <1>3, <2>1 DEF TypeOK
<1>5. Started' /\ Called'
  BY <1>1, <1>2, <1>3 DEF Started, Called, Register, Reports
<1>6. Freed' /\ Addressed'
  BY <1>1, <1>2, <1>3 DEF Freed, Addressed, Register, Reports, Pollers
<1>7. Counted'
  BY <1>1, <1>2, <1>3, Sizes DEF Counted, Counts
<1>8. OrderlyInv'
  <2> SUFFICES ASSUME Orderly' PROVE InOrder'
    BY DEF OrderlyInv
  <2>1. Orderly
    BY <1>1 DEF Orderly
  <2>2. InOrder /\ ~freed
    BY <1>1, <2>1 DEF Alive, OrderlyInv, InOrder
  <2>3. Ordered' /\ \A u \in Of({"cq_poller_unregister"})' : u[2] \in {LibThread, ThreadNum}
    BY <1>2, <2>2 DEF InOrder, Ordered, Register, Before
  <2>4. Covered'
    BY <1>1, <1>2, <1>3, <2>2 DEF InOrder, Covered, Register
  <2> QED
    BY <1>1, <2>2, <2>3, <2>4 DEF InOrder
<1> QED
  BY <1>4, <1>5, <1>6, <1>7, <1>8 DEF Kept

(* A poller is told to go, behind the message that registers it.           *)
LEMMA KeptFiniSend ==
  ASSUME Alive, StopInv', FiniSend, ~(freed \/ told = PollNum)
  PROVE  Kept'
<1>1. /\ pc = "send" /\ fault' = freed /\ pc' = pc /\ told' = told + 1 /\ ~freed /\ told # PollNum
      /\ SendAll(caller, {LibThread + told}, [l \in Threads |-> Msg("cq_poller_unregister")])
      /\ UNCHANGED <<batch, lifeVars, phase, ready, ctx, cm, pollers, ioCnt, caller, freed, cbs>>
  BY DEF FiniSend, lifeVars
<1>2. /\ TypeOK /\ Started /\ Called /\ Freed /\ Addressed /\ Counted /\ MsgTyped /\ Counts
      /\ IsFiniteSet(Messages) /\ events = Cardinality(Messages) /\ phase \in {"up", "stopping"}
  BY AliveFacts DEF Alive, FiniInv
<1>3. PICK src : src = caller
  OBVIOUS
<1>4. PICK dst : dst = LibThread + told
  OBVIOUS
<1>5. PICK tasks : tasks = [l \in Threads |-> Msg("cq_poller_unregister")]
  OBVIOUS
<1>6. told \in 0..PollNum /\ told < PollNum
  BY <1>1, <1>2, Sizes DEF TypeOK
<1>7. src \in Threads /\ dst \in Threads
  <2>1. dst \in Pollers
    BY <1>4, <1>6, Sizes DEF Pollers
  <2> QED
    BY <1>1, <1>2, <1>3, <2>1, Sizes DEF Called
<1>8. /\ tasks[dst] = Msg("cq_poller_unregister") /\ SendAll(src, {dst}, tasks)
      /\ "cq_poller_unregister" \in Functions
  BY <1>1, <1>3, <1>4, <1>5, <1>7 DEF Functions
<1>9. Joins(src, dst, "cq_poller_unregister")
  BY <1>1, <1>2, <1>7, <1>8, SendOnly
<1>10. PICK x : /\ Moved({x}, {}) /\ Messages' = Messages \cup {x}
                /\ x[1] = dst /\ x[2] = src /\ x[4] = "cq_poller_unregister"
                /\ \A m \in Messages : m[1] = dst /\ m[2] \in {src, ThreadNum} => Before(m, x)
  BY <1>9 DEF Joins
<1>11. /\ starts' = starts /\ registers' = registers /\ reports' = reports + 1 /\ finals' = finals
  BY <1>2, <1>9 DEF Joins, Tally, Hit, Register, Reports, Counts
<1>12. TypeOK'
  <2>1. AppTypeOK(Task)'
    BY <1>1, <1>9, AppTypedSame DEF Joins, Counts
  <2>2. told' \in 0..PollNum
    BY <1>1, <1>6, Sizes
  <2> QED
    BY <1>1, <1>2, <2>1, <2>2 DEF TypeOK
<1>13. Started'
  BY <1>1, <1>2, <1>9, <1>11 DEF Joins, Started, Counts
<1>14. Called'
  BY <1>1, <1>2 DEF Called
<1>15. Freed'
  BY <1>1, <1>2, <1>9, <1>11 DEF Joins, Freed, Counts
<1>16. Addressed'
  BY <1>2, <1>10, AddressedAfter
<1>17. Counted'
  BY <1>1, <1>2, <1>6, <1>9, <1>11, Sizes DEF Joins, Counted, Tally, Counts
<1>18. OrderlyInv'
  <2> SUFFICES ASSUME Orderly' PROVE InOrder'
    BY DEF OrderlyInv
  <2>1. Orderly
    BY <1>1 DEF Orderly
  <2>2. InOrder
    BY <2>1 DEF Alive, OrderlyInv
  <2>3. src = LibThread
    BY <1>3, <1>7, <2>1, Sizes DEF Orderly
  <2>4. Of(Register)' = Of(Register)
        /\ Of({"cq_poller_unregister"})' = Of({"cq_poller_unregister"}) \cup {x}
        /\ Of({"cm_poller_unregister"})' = Of({"cm_poller_unregister"})
    BY <1>10 DEF Of, Register
  <2>5. \A u \in Of({"cq_poller_unregister"})' : u[2] \in {LibThread, ThreadNum}
    BY <1>10, <2>2, <2>3, <2>4 DEF InOrder
  <2>6. Ordered'
    <3>1. ASSUME NEW r \in Of(Register), r[1] = x[1] PROVE Before(r, x)
      BY <1>2, <1>10, <2>3, <3>1 DEF Addressed, Of
    <3>2. ASSUME NEW r \in Of(Register), NEW u \in Of({"cq_poller_unregister"}) \cup {x}, r[1] = u[1]
          PROVE  Before(r, u)
      BY <2>2, <3>1, <3>2 DEF InOrder, Ordered
    <3>3. \A r \in Of(Register)', u \in Of({"cq_poller_unregister"})' : r[1] = u[1] => Before(r, u)
      BY <2>4, <3>2
    <3> QED
      BY <3>3 DEF Ordered, Before, Register
  <2>7. Covered'
    <3>1. ASSUME NEW u \in LibThread..(LibThread + told' - 1),
                 u \in pollers' \/ \E r \in Of(Register)' : r[1] = u
          PROVE  \E y \in Of({"cq_poller_unregister"})' : y[1] = u
      <4>1. CASE u = dst
        BY <1>10, <2>4, <4>1
      <4>2. CASE u # dst
        <5>1. u \in LibThread..(LibThread + told - 1)
          BY <1>1, <1>4, <1>6, <4>2, Sizes
        <5>2. u \in pollers \/ \E r \in Of(Register) : r[1] = u
          BY <1>1, <2>4, <3>1
        <5>3. \E y \in Of({"cq_poller_unregister"}) : y[1] = u
          BY <1>2, <2>2, <5>1, <5>2 DEF InOrder, Covered
        <5> QED
          BY <2>4, <5>3
      <4> QED
        BY <4>1, <4>2
    <3>2. cm' /\ pc' \notin {"none", "idle"} => Of({"cm_poller_unregister"})' # {}
      BY <1>1, <1>2, <2>2, <2>4 DEF InOrder, Covered
    <3> QED
      BY <3>1, <3>2 DEF Covered, Register
  <2> QED
    BY <1>1, <2>2, <2>5, <2>6, <2>7 DEF InOrder
<1> QED
  BY <1>12, <1>13, <1>14, <1>15, <1>16, <1>17, <1>18 DEF Kept

(* The first connection: every thread of the handle is to register.        *)
LEMMA KeptCreateContext ==
  ASSUME Alive, StopInv', CreateContext
  PROVE  Kept'
<1>1. /\ cm /\ ctx = "none" /\ ctx' = IF pc = "idle" THEN "early" ELSE "late"
      /\ SendAll(LibThread, Pollers, [t \in Pollers |-> Msg("poller_register")])
      /\ UNCHANGED <<batch, lifeVars, phase, ready, cm, pollers, ioCnt, caller, pc, told, freed, cbs, fault>>
  BY DEF CreateContext, lifeVars
<1>2. /\ TypeOK /\ Started /\ Called /\ Freed /\ Addressed /\ Counted /\ MsgTyped /\ Counts
      /\ IsFiniteSet(Messages) /\ events = Cardinality(Messages) /\ phase \in {"up", "stopping"}
  BY AliveFacts DEF Alive, FiniInv
<1>3. Of(Register) = {} /\ pollers = {} /\ pc # "none" /\ registers = 0
  BY <1>1, <1>2 DEF Started, Counts
<1>4. PICK tasks : tasks = [t \in Pollers |-> Msg("poller_register")]
  OBVIOUS
<1>5. /\ queue' = Sent(LibThread, Pollers, tasks) /\ events' = events + Cardinality(Pollers)
      /\ Pollers \in SUBSET Threads /\ Tasked(Pollers, tasks)
      /\ \A t \in Pollers : tasks[t].func = "poller_register"
  BY <1>1, <1>4, Sizes DEF SendAll, Tasked, Msg, Task
<1>6. IsFiniteSet(Pollers) /\ Cardinality(Pollers) = PollNum
  <2>1. LibThread \in Int /\ LibThread + PollNum - 1 \in Int /\ ~(LibThread > LibThread + PollNum - 1)
        /\ (LibThread + PollNum - 1) - LibThread + 1 = PollNum
    BY Sizes
  <2> QED
    BY <2>1, FS_Interval DEF Pollers
<1>7. PICK new : new = Now(LibThread, Pollers, tasks)
  OBVIOUS
<1>8. Moved(new, {}) /\ MsgTyped'
  BY <1>1, <1>2, <1>5, <1>7, Sizes, SentMoved
<1>9. /\ IsFiniteSet(new) /\ Cardinality(new) = PollNum
      /\ \A x \in new : x[1] \in Pollers /\ x[2] = LibThread /\ x[4] = "poller_register"
  <2>1. PICK r : r = SentIn(queue, LibThread, Pollers, tasks)
    OBVIOUS
  <2>2. Arrive(queue, batch, LibThread, Pollers, tasks, r)
    BY <1>2, <1>5, <2>1, Sizes, SentAdds DEF MsgTyped
  <2> QED
    BY <1>5, <1>6, <1>7, <2>2 DEF Arrive, Now
<1>10. /\ IsFiniteSet(Messages') /\ Cardinality(Messages') = Cardinality(Messages) + PollNum
       /\ \A F : Num(F)' = Num(F) + Cardinality(Kind(new, F))
  <2>1. Cardinality({}) = 0 /\ \A F : Kind({}, F) = {}
    BY FS_EmptySet DEF Kind
  <2>2. /\ IsFiniteSet(Messages')
        /\ Cardinality(Messages') = Cardinality(Messages) - Cardinality({}) + Cardinality(new)
        /\ \A F : Num(F)' = Num(F) - Cardinality(Kind({}, F)) + Cardinality(Kind(new, F))
    BY <1>2, <1>8, <1>9, MovedNum
  <2>3. \A F : Num(F) \in Nat /\ Cardinality(Messages) \in Nat
    BY <1>2, NumTypes DEF Counts
  <2> QED
    BY <1>9, <2>1, <2>2, <2>3, Sizes
<1>11. /\ starts' = starts /\ registers' = PollNum /\ reports' = reports /\ finals' = finals /\ Counts'
  <2>1. Kind(new, Register) = new
    BY <1>9 DEF Kind, Register
  <2>2. Kind(new, {"start"}) = {} /\ Kind(new, Reports) = {} /\ Kind(new, {"fini_cb"}) = {}
    BY <1>9 DEF Kind, Reports
  <2>3. Cardinality({}) = 0
    BY FS_EmptySet
  <2>4. /\ starts' = starts + 0 /\ registers' = registers + PollNum /\ reports' = reports + 0
        /\ finals' = finals + 0
    BY <1>9, <1>10, <2>1, <2>2, <2>3 DEF starts, registers, reports, finals, Register, Reports
  <2> QED
    BY <1>2, <1>3, <1>10, <2>4, CountsHoldAfter, Sizes DEF Counts
<1>12. events' = Cardinality(Messages') /\ events' \in Nat
  BY <1>2, <1>5, <1>6, <1>10, <1>11 DEF Counts
<1>13. TypeOK'
  <2>1. AppTypeOK(Task)'
    BY <1>1, <1>8, <1>12, AppTypedSame
  <2> QED
    BY <1>1, <1>2, <2>1 DEF TypeOK
<1>14. Started'
  BY <1>1, <1>2, <1>3, <1>11 DEF Started, Counts
<1>15. Called'
  BY <1>1, <1>2, <1>3, <1>11 DEF Called, Counts
<1>16. Freed'
  BY <1>1, <1>2, <1>11 DEF Freed, Counts
<1>17. Addressed'
  <2>1. ASSUME NEW m \in Of({"poller_unregister_done"})' PROVE m[1] = LibThread
    <3>1. m \in Messages' /\ m[4] = "poller_unregister_done" /\ m \notin new
      BY <1>9 DEF Of
    <3>2. PICK y \in Messages : m[1] = y[1] /\ m[4] = y[4]
      BY <1>8, <3>1, MovedFrom
    <3> QED
      BY <1>2, <3>1, <3>2 DEF Addressed, Of
  <2>2. ASSUME NEW m \in Of(Register)' PROVE m[1] \in Pollers /\ m[2] \in {LibThread, ThreadNum}
    <3>1. m \in Messages' /\ m[4] = "poller_register"
      BY DEF Of, Register
    <3>2. m \in new
      <4>1. SUFFICES ASSUME m \notin new PROVE FALSE
        OBVIOUS
      <4>2. PICK y \in Messages : m[4] = y[4]
        BY <1>8, <3>1, <4>1, MovedFrom
      <4> QED
        BY <1>3, <3>1, <4>2 DEF Of, Register
    <3> QED
      BY <1>9, <3>2
  <2>3. Pollers' = Pollers
    BY DEF Pollers
  <2> QED
    BY <2>1, <2>2, <2>3 DEF Addressed, Register
<1>18. Counted'
  BY <1>1, <1>2, <1>10, <1>11, <1>12, Sizes DEF Counted
<1>19. OrderlyInv'
  <2> SUFFICES ASSUME Orderly' PROVE InOrder'
    BY DEF OrderlyInv
  <2>1. pc = "idle"
    BY <1>1 DEF Orderly
  <2>2. InOrder /\ ~freed /\ told = 0 /\ reports = 0
    BY <1>1, <1>2, <2>1 DEF Alive, OrderlyInv, Orderly, Called, Counts
  <2>3. Of({"cq_poller_unregister"})' = {}
    <3>1. Of(Reports)' = {}
      BY <1>11, <2>2 DEF Counts
    <3> QED
      BY <3>1 DEF Of, Reports
  <2>4. Ordered' /\ \A u \in Of({"cq_poller_unregister"})' : u[2] \in {LibThread, ThreadNum}
    BY <2>3 DEF Ordered
  <2>5. Covered'
    <3>1. ~\E u \in LibThread..(LibThread + told' - 1) : TRUE
      BY <1>1, <2>2, Sizes
    <3> QED
      BY <1>1, <2>1, <3>1 DEF Covered
  <2> QED
    BY <1>1, <2>1, <2>2, <2>4, <2>5 DEF InOrder
<1> QED
  BY <1>13, <1>14, <1>15, <1>16, <1>17, <1>18, <1>19 DEF Kept

-----------------------------------------------------------------------------
(* The start and the end of the application.                               *)

LEMMA KeptInit == Init => Kept
<1> SUFFICES ASSUME Init PROVE Kept
  OBVIOUS
<1>1. Messages = {}
  <2>1. \A t \in Threads : batch[t] = <<>> /\ \A p \in Threads : queue[t][p] = <<>>
    BY DEF Init, AppInit
  <2>2. DOMAIN <<>> = {}
    OBVIOUS
  <2>3. \A t \in Threads, p \in 0..ThreadNum : Line(queue, batch, t, p) = <<>>
    BY <2>1, ThreadsAre DEF Line
  <2>4. \A m : m \notin On(queue, batch)
    BY <2>2, <2>3, OnAre
  <2> QED
    BY <2>4, MessagesOn
<1>2. /\ IsFiniteSet(Messages) /\ Cardinality(Messages) = 0 /\ \A F : Of(F) = {}
      /\ starts = 0 /\ registers = 0 /\ reports = 0 /\ finals = 0
  BY <1>1, FS_EmptySet DEF Of, starts, registers, reports, finals, Num
<1>3. TypeOK
  <2>1. <<>> \in Seq(Task)
    BY EmptySeq
  <2>2. queue \in [Threads -> [Threads -> Seq(Task)]] /\ batch \in [Threads -> Seq(Task)]
        /\ \A t, p \in Threads : queue[t][p] = <<>>
    BY <2>1 DEF Init, AppInit
  <2>3. AppTypeOK(Task)
    BY <2>2, AppAssumption DEF Init, AppInit, AppTypeOK, Outside
  <2>4. 0 \in 0..(PollNum + 1) /\ 0 \in 0..PollNum
    BY Sizes
  <2>5. ioCnt = 0 /\ told = 0 /\ cbs = 0 /\ pollers = {} /\ caller = -1
    BY DEF Init
  <2>6. ctx = "none" /\ cm = FALSE /\ pc = "none" /\ freed = FALSE /\ fault = FALSE
    BY DEF Init
  <2> QED
    BY <2>3, <2>4, <2>5, <2>6 DEF TypeOK
<1>4. Started /\ Called /\ Freed /\ Addressed
  BY <1>1, <1>2 DEF Init, AppInit, Started, Called, Freed, Addressed
<1>5. Counted
  BY <1>2, Sizes DEF Init, AppInit, Counted
<1>6. OrderlyInv
  <2>1. ~\E u \in LibThread..(LibThread + told - 1) : TRUE
    BY Sizes DEF Init
  <2> QED
    BY <1>2, <2>1 DEF Init, OrderlyInv, InOrder, Ordered, Covered
<1> QED
  BY <1>3, <1>4, <1>5, <1>6 DEF Kept

LEMMA KeptThreadInit ==
  ASSUME FiniInv, OrderlyInv, StopInv', ThreadInit, UNCHANGED libVars
  PROVE  Kept'
<1>1. /\ phase = "starting" /\ ready < ThreadNum /\ ready' = ready + 1 /\ polling' = polling \cup {ready}
      /\ UNCHANGED <<queue, batch, events, phase, locker>>
      /\ UNCHANGED <<ctx, cm, pollers, ioCnt, caller, pc, told, freed, cbs, fault>>
  BY DEF ThreadInit, msgVars, libVars
<1>2. /\ Messages' = Messages /\ \A F : Of(F)' = Of(F)
      /\ starts' = starts /\ registers' = registers /\ reports' = reports /\ finals' = finals
  BY <1>1, SameMessages
<1>3. TypeOK /\ Started /\ Called /\ Freed /\ Addressed /\ Counted
  BY DEF FiniInv
<1>4. TypeOK'
  <2>1. /\ ready' \in 0..ThreadNum /\ polling' \in SUBSET (0..(ready' - 1))
        /\ \A t \in Threads : t >= ready' => t >= ready
    BY <1>1, <1>3, ThreadsAre DEF TypeOK, AppTypeOK
  <2>2. AppTypeOK(Task)'
    BY <1>1, <1>3, <2>1 DEF TypeOK, AppTypeOK, StopInv, StopTyped, Threads
  <2> QED
    BY <1>1, <1>3, <2>2 DEF TypeOK
<1>5. Started' /\ Called'
  BY <1>1, <1>2, <1>3 DEF Started, Called, Register, Reports
<1>6. Freed' /\ Addressed' /\ Counted'
  BY <1>1, <1>2, <1>3 DEF Freed, Addressed, Counted, Register, Reports, Pollers
<1>7. OrderlyInv'
  <2> SUFFICES ASSUME Orderly' PROVE InOrder'
    BY DEF OrderlyInv
  <2>1. InOrder /\ pc = "none" /\ ~freed
    BY <1>1, <1>3 DEF Orderly, OrderlyInv, Started, Called
  <2>2. Ordered' /\ \A u \in Of({"cq_poller_unregister"})' : u[2] \in {LibThread, ThreadNum}
    BY <1>2, <2>1 DEF InOrder, Ordered, Register, Before
  <2>3. Covered'
    BY <1>1, <1>2, <2>1 DEF InOrder, Covered, Register
  <2> QED
    BY <1>1, <2>1, <2>2, <2>3 DEF InOrder
<1> QED
  BY <1>4, <1>5, <1>6, <1>7 DEF Kept

LEMMA KeptAppStart ==
  ASSUME FiniInv, OrderlyInv, StopInv', AppStart([t \in {LibThread} |-> Msg("start")]),
         UNCHANGED libVars
  PROVE  Kept'
<1>1. /\ phase = "starting" /\ ready = ThreadNum /\ phase' = "up"
      /\ UNCHANGED <<batch, ready, polling, locker>>
      /\ UNCHANGED <<ctx, cm, pollers, ioCnt, caller, pc, told, freed, cbs, fault>>
  BY DEF AppStart, libVars
<1>2. /\ TypeOK /\ Started /\ Called /\ Freed /\ Addressed /\ Counted /\ MsgTyped
  BY TypedNow DEF FiniInv
<1>3. /\ Messages = {} /\ pc = "none" /\ IsFiniteSet(Messages) /\ events = Cardinality(Messages)
      /\ events = 0 /\ Counts
  BY <1>1, <1>2, FS_EmptySet, CountsHold DEF Started, Counted
<1>4. /\ starts = 0 /\ registers = 0 /\ reports = 0 /\ finals = 0 /\ \A F : Of(F) = {}
  BY <1>3 DEF Counts, Of
<1>5. PICK tasks : tasks = [t \in {LibThread} |-> Msg("start")]
  OBVIOUS
<1>6. /\ 0 \in Threads /\ LibThread \in Threads /\ "start" \in Functions
      /\ tasks[LibThread] = Msg("start") /\ SendAll(0, {LibThread}, tasks)
  <2>1. DOMAIN tasks = {LibThread}
    BY <1>5
  <2> QED
    BY <1>5, <2>1, Sizes, AppAssumption DEF AppStart, Functions, Threads
<1>7. Joins(0, LibThread, "start")
  BY <1>1, <1>2, <1>3, <1>6, SendOnly
<1>8. PICK x : Moved({x}, {}) /\ Messages' = {x} /\ x[4] = "start"
  BY <1>3, <1>7 DEF Joins
<1>9. /\ starts' = 1 /\ registers' = 0 /\ reports' = 0 /\ finals' = 0
  BY <1>4, <1>7 DEF Joins, Tally, Hit, Register, Reports
<1>10. TypeOK'
  <2>1. AppTypeOK(Task)'
    <3>1. events' \in Nat /\ MsgTyped' /\ locker' \in Threads \cup {-1}
      BY <1>1, <1>2, <1>7 DEF Joins, Counts, TypeOK, AppTypeOK
    <3> QED
      BY <1>1, <1>2, <3>1, AppTyped
  <2> QED
    BY <1>1, <1>2, <2>1 DEF TypeOK
<1>11. Started'
  BY <1>1, <1>2, <1>3, <1>7, <1>9 DEF Joins, Started, Counts
<1>12. Called'
  BY <1>1, <1>2, <1>3, <1>7, <1>9 DEF Joins, Called, Counts
<1>13. Freed'
  BY <1>1, <1>2, <1>7, <1>9 DEF Joins, Freed, Counts
<1>14. Addressed'
  BY <1>2, <1>8, AddressedAfter
<1>15. Counted'
  BY <1>1, <1>2, <1>3, <1>4, <1>7, <1>9, Sizes DEF Joins, Counted, Tally
<1>16. OrderlyInv'
  <2> SUFFICES ASSUME Orderly' PROVE InOrder'
    BY DEF OrderlyInv
  <2>1. InOrder /\ ~freed /\ told = 0
    BY <1>1, <1>2, <1>3 DEF Orderly, OrderlyInv, Called
  <2>2. Ordered' /\ \A u \in Of({"cq_poller_unregister"})' : u[2] \in {LibThread, ThreadNum}
    BY <1>8, <2>1, OrderAfter DEF InOrder
  <2>3. Covered'
    <3>1. ~\E u \in LibThread..(LibThread + told' - 1) : TRUE
      BY <1>1, <2>1, Sizes
    <3> QED
      BY <1>1, <1>3, <3>1 DEF Covered
  <2> QED
    BY <1>1, <1>3, <2>1, <2>2, <2>3 DEF InOrder
<1> QED
  BY <1>10, <1>11, <1>12, <1>13, <1>14, <1>15, <1>16 DEF Kept

LEMMA KeptEnd ==
  ASSUME FiniInv, OrderlyInv, StopInv', End
  PROVE  Kept'
<1>1. /\ phase = "stopping" /\ phase' = "over" /\ pc \notin {"count", "send"}
      /\ \A t \in Threads : batch[t] = <<>>
      /\ queue' = [t \in Threads |-> [p \in Threads |-> <<>>]]
      /\ UNCHANGED <<batch, events, ready, polling, locker>>
      /\ UNCHANGED <<ctx, cm, pollers, ioCnt, caller, pc, told, freed, cbs, fault>>
  BY DEF End, AppEnd, libVars
<1>2. /\ TypeOK /\ Started /\ Called /\ Freed /\ Addressed /\ Counted /\ MsgTyped
      /\ ready = ThreadNum
  BY <1>1, TypedNow DEF FiniInv, Started
<1>3. Messages' = {}
  <2>1. DOMAIN <<>> = {}
    OBVIOUS
  <2>2. PICK q : q = queue'
    OBVIOUS
  <2>3. \A t \in Threads, p \in 0..ThreadNum : Line(q, batch, t, p) = <<>>
    BY <1>1, <2>2, ThreadsAre DEF Line
  <2>4. \A m : m \notin On(q, batch)
    BY <2>1, <2>3, OnAre
  <2> QED
    BY <1>1, <2>2, <2>4, MessagesAfter
<1>4. /\ IsFiniteSet(Messages') /\ Counts' /\ \A F : Of(F)' = {}
      /\ starts' = 0 /\ registers' = 0 /\ reports' = 0 /\ finals' = 0
  <2>1. IsFiniteSet(Messages') /\ \A F : Of(F)' = {}
    BY <1>3, FS_EmptySet DEF Of
  <2>2. Counts'
    BY <2>1, CountsHoldAfter
  <2>3. Of({"start"})' = {} /\ Of(Register)' = {} /\ Of(Reports)' = {} /\ Of({"fini_cb"})' = {}
    BY <1>3 DEF Of
  <2> QED
    BY <2>1, <2>2, <2>3 DEF Counts
<1>5. TypeOK'
  <2>1. <<>> \in Seq(Task)
    BY EmptySeq
  <2>2. MsgTyped'
    BY <1>1, <1>2, <2>1 DEF MsgTyped, Queues
  <2>3. events' \in Nat /\ locker' \in Threads \cup {-1}
    BY <1>1, <1>2 DEF TypeOK, AppTypeOK
  <2>4. AppTypeOK(Task)'
    BY <1>1, <1>2, <2>2, <2>3, AppTyped
  <2> QED
    BY <1>1, <1>2, <2>4 DEF TypeOK
<1>6. Started'
  BY <1>1, <1>2, <1>4 DEF Started, Counts
<1>7. Called'
  BY <1>1, <1>2, <1>4 DEF Called, Counts
<1>8. Freed'
  BY <1>1, <1>2, <1>4 DEF Freed, Counts
<1>9. Addressed'
  BY <1>3 DEF Addressed, Of
<1>10. Counted'
  BY <1>1, <1>4, Sizes DEF Counted
<1>11. OrderlyInv'
  <2> SUFFICES ASSUME Orderly' PROVE InOrder'
    BY DEF OrderlyInv
  <2>1. InOrder
    BY <1>1 DEF Orderly, OrderlyInv
  <2>2. Of(Register)' = {} /\ Of({"cq_poller_unregister"})' = {}
    BY <1>3 DEF Of
  <2>3. Ordered' /\ \A u \in Of({"cq_poller_unregister"})' : u[2] \in {LibThread, ThreadNum}
    BY <2>2 DEF Ordered
  <2>4. freed' => Quiet'
    BY <1>1, <2>1, <2>2 DEF InOrder, Quiet
  <2> QED
    BY <1>1, <2>1, <2>3, <2>4 DEF InOrder
<1> QED
  BY <1>5, <1>6, <1>7, <1>8, <1>9, <1>10, <1>11 DEF Kept

-----------------------------------------------------------------------------
(* Every step.                                                             *)

LEMMA KeptStep ==
  ASSUME FiniInv, OrderlyInv, StopInv', Next
  PROVE  Kept'
<1>1. ~fault
  BY DEF Next
<1>2. CASE Start
  BY <1>2, KeptThreadInit, KeptAppStart DEF Start
<1>3. CASE End
  BY <1>3, KeptEnd
<1>4. ASSUME phase \in {"up", "stopping"} PROVE Alive
  BY <1>1, <1>4 DEF Alive
<1>5. CASE phase \in {"up", "stopping"} /\ (CreateContext \/ FiniCount \/ FiniSend)
  BY <1>4, <1>5, KeptCreateContext, KeptFiniCount, KeptFiniReturn, KeptFiniSend
<1>6. ASSUME NEW t \in Threads, Step(t) PROVE Kept'
  <2>1. Alive
    BY <1>4, <1>6 DEF Step
  <2>2. CASE Poll(t) \/ CqPoller(t) \/ Fini(t)
    BY <2>1, <2>2, KeptPoll, KeptCqPoller, KeptFini
  <2>3. CASE RdmaInit(t) \/ PollerRegister(t) \/ CmPollerUnregister(t) \/ CqPollerUnregister(t)
    BY <2>1, <2>3, KeptRdmaInit, KeptPollerRegister, KeptCmPollerUnregister, KeptCqPollerUnregister
  <2>4. CASE PollerUnregisterDone(t) \/ FiniCb(t)
    BY <2>1, <2>4, KeptReport, KeptLastReport, KeptFiniCb
  <2>5. locker \in Threads \cup {-1} /\ -1 \in Threads \cup {-1} /\ phase \in {"up", "stopping"}
    BY <2>1, AliveFacts DEF Alive, TypeOK, AppTypeOK
  <2>6. ASSUME NEW rc \in {0, 1}, AppStop(t, rc) PROVE Kept'
    <3>1. /\ UNCHANGED msgVars /\ UNCHANGED libVars /\ ready' = ready
          /\ phase' = phase /\ polling' \subseteq polling /\ locker' = locker
      BY <2>6 DEF AppStop, StopBegin
    <3> QED
      BY <2>1, <2>5, <3>1, KeptStop
  <2>7. CASE Stop(t)
    <3>1. /\ UNCHANGED msgVars /\ UNCHANGED libVars /\ ready' = ready
          /\ phase' \in {phase, "stopping"} /\ polling' \subseteq polling
          /\ locker' \in {locker, t, -1}
      BY <2>7 DEF Stop, StopEnter, StopLeave, SpdkAppStop
    <3> QED
      BY <2>1, <2>5, <3>1, KeptStop
  <2> QED
    BY <1>6, <2>2, <2>3, <2>4, <2>6, <2>7 DEF Step, RunTask
<1> QED
  BY <1>2, <1>3, <1>5, <1>6 DEF Next

LEMMA KeptStill ==
  ASSUME FiniInv, OrderlyInv, UNCHANGED vars
  PROVE  Kept'
<1>1. /\ UNCHANGED <<queue, batch, events, phase, ready, polling, running, inStop, locker, stops>>
      /\ UNCHANGED <<ctx, cm, pollers, ioCnt, caller, pc, told, freed, cbs, fault>>
  BY DEF vars, appVars, msgVars, lifeVars, libVars
<1>2. /\ Messages' = Messages /\ \A F : Of(F)' = Of(F)
      /\ starts' = starts /\ registers' = registers /\ reports' = reports /\ finals' = finals
  BY <1>1, SameMessages
<1>3. TypeOK'
  BY <1>1 DEF FiniInv, TypeOK, AppTypeOK, Pollers
<1>4. Started' /\ Called'
  BY <1>1, <1>2 DEF FiniInv, Started, Called, Register, Reports
<1>5. Freed' /\ Addressed' /\ Counted'
  BY <1>1, <1>2 DEF FiniInv, Freed, Addressed, Counted, Register, Reports, Pollers
<1>6. OrderlyInv'
  <2> SUFFICES ASSUME Orderly' PROVE InOrder'
    BY DEF OrderlyInv
  <2>1. InOrder
    BY <1>1 DEF Orderly, OrderlyInv
  <2>2. Ordered' /\ \A u \in Of({"cq_poller_unregister"})' : u[2] \in {LibThread, ThreadNum}
    BY <1>2, <2>1 DEF InOrder, Ordered, Register, Before
  <2>3. phase' # "over" => Covered'
    BY <1>1, <1>2, <2>1 DEF InOrder, Covered, Register
  <2>4. freed' => Quiet'
    BY <1>1, <1>2, <2>1 DEF InOrder, Quiet, Register
  <2> QED
    BY <1>1, <2>1, <2>2, <2>3, <2>4 DEF InOrder
<1> QED
  BY <1>3, <1>4, <1>5, <1>6 DEF Kept

LEMMA FiniStep == FiniInv /\ OrderlyInv /\ [Next]_vars => (FiniInv /\ OrderlyInv)'
<1> SUFFICES ASSUME FiniInv, OrderlyInv, [Next]_vars PROVE FiniInv' /\ OrderlyInv'
  OBVIOUS
<1>1. StopInv'
  BY StopInvStep DEF FiniInv
<1>2. Kept'
  BY <1>1, KeptStep, KeptStill
<1> QED
  BY <1>1, <1>2 DEF FiniInv, Kept

LEMMA FiniHolds == Spec => [](FiniInv /\ OrderlyInv)
<1>1. Init => FiniInv /\ OrderlyInv
  BY StopInvInit, KeptInit DEF FiniInv, Kept
<1> QED
  BY <1>1, FiniStep, PTL DEF Spec

-----------------------------------------------------------------------------
(* Every message runs one of the functions of the handle.                  *)
LEMMA MessageKinds ==
  ASSUME MsgTyped, NEW m \in Messages
  PROVE  m[4] \in Functions
<1>1. queue \in Queues /\ batch \in Batches
  BY DEF MsgTyped
<1>2. /\ m[1] \in Threads /\ m[2] \in 0..ThreadNum
      /\ m[3] \in 1..Len(Line(queue, batch, m[1], m[2]))
      /\ m[4] = Line(queue, batch, m[1], m[2])[m[3]].func
  BY <1>1, MessagesOn, OnTypes
<1>3. PICK s : s = Line(queue, batch, m[1], m[2])
  OBVIOUS
<1>4. s \in Seq(Task) /\ m[3] \in 1..Len(s)
  BY <1>1, <1>2, <1>3, OnTypes
<1>5. s[m[3]] \in Task
  BY <1>4, ElementOfSeq
<1> QED
  BY <1>2, <1>3, <1>5 DEF Task, Functions

(* Every variable of the application and of the handle has its type; for   *)
(* io_cnt this says that kv_rdma_fini never counts more pollers than there *)
(* are, nor below zero (kv_rdma.c:569-615).                                *)
THEOREM AlwaysTyped == Spec => []TypeOK
<1>1. FiniInv => TypeOK
  BY DEF FiniInv
<1> QED
  BY FiniHolds, <1>1, PTL

(* While the handle lives and kv_rdma_fini has returned, io_cnt is the     *)
(* number of pollers whose end is still under way, be it the order to go   *)
(* or the report (kv_rdma.c:569-615): the last report, and no other, finds *)
(* it at one.                                                              *)
THEOREM CountAlwaysMatches == Spec => []CountMatches
<1>1. Outstanding = Of(Reports)
  BY DEF Outstanding, Of, Reports
<1>2. ASSUME FiniInv PROVE CountMatches
  <2> SUFFICES ASSUME pc = "returned", ~freed, phase # "over"
               PROVE  ioCnt = Cardinality(Outstanding)
    BY DEF CountMatches
  <2>1. ioCnt = reports + 0 /\ reports \in Nat
    BY <1>2, CountsHold DEF FiniInv, Counted, Counts
  <2> QED
    BY <1>1, <2>1 DEF reports, Num
<1>3. FiniInv => CountMatches
  BY <1>2
<1> QED
  BY FiniHolds, <1>3, PTL

(* When kv_rdma_fini is called on the handle's own thread and no first     *)
(* connection comes after it, nothing uses the handle once it is freed: no *)
(* poller runs, no message to register one comes late, and kv_rdma_fini    *)
(* itself has left its loop (kv_rdma.c:522-615), whatever threads stop     *)
(* meanwhile.                                                              *)
THEOREM OrderlyEndIsSafe == Spec => []OrderlyIsSafe
<1>1. OrderlyInv => OrderlyIsSafe
  BY DEF OrderlyInv, OrderlyIsSafe, InOrder
<1> QED
  BY FiniHolds, <1>1, PTL

(* When such an end frees the handle (kv_rdma.c:569-586) every poller is   *)
(* out and only the final callback is under way.                           *)
THEOREM FreedAlwaysQuiet == Spec => []FreedWhenQuiet
<1>1. ASSUME FiniInv, OrderlyInv, freed, Orderly
      PROVE  /\ pollers = {} /\ ~cm
             /\ \A t \in Threads : \A m \in Pending(t) : m[4] = "fini_cb"
  <2>1. Quiet
    BY <1>1 DEF OrderlyInv, InOrder
  <2>2. Of(Reports) = {} /\ Of(Register) = {} /\ Of({"start"}) = {}
    BY <1>1, <2>1 DEF FiniInv, Freed, Called, Started, Quiet
  <2>3. ASSUME NEW m \in Messages PROVE m[4] = "fini_cb"
    <3>1. m[4] \in Functions
      BY <1>1, TypedNow, MessageKinds DEF FiniInv
    <3> QED
      BY <2>2, <3>1 DEF Of, Reports, Register, Functions
  <2>4. \A t \in Threads : Pending(t) \subseteq Messages
    BY DEF Messages
  <2> QED
    BY <2>1, <2>3, <2>4 DEF Quiet
<1>2. FiniInv /\ OrderlyInv => FreedWhenQuiet
  BY <1>1 DEF FreedWhenQuiet
<1> QED
  BY FiniHolds, <1>2, PTL

(* The messages are the first task, those that register a poller, those of *)
(* the end of a poller, and the final callback.                            *)
LEMMA MessagesCounted ==
  ASSUME MsgTyped, IsFiniteSet(Messages)
  PROVE  Cardinality(Messages) = starts + registers + reports + finals
<1> DEFINE A == Of({"start"})
           B == Of(Register)
           C == Of(Reports)
           D == Of({"fini_cb"})
<1>1. /\ Messages = (A \cup B) \cup (C \cup D)
      /\ (A \cup B) \cap (C \cup D) = {} /\ A \cap B = {} /\ C \cap D = {}
  <2>1. \A m \in Messages : m \in A \/ m \in B \/ m \in C \/ m \in D
    BY MessageKinds DEF Of, Functions, Register, Reports
  <2>2. A \subseteq Messages /\ B \subseteq Messages /\ C \subseteq Messages /\ D \subseteq Messages
    BY DEF Of
  <2>3. /\ \A m \in A : m[4] = "start"
        /\ \A m \in B : m[4] = "poller_register"
        /\ \A m \in C : m[4] \notin {"start", "poller_register", "fini_cb"}
        /\ \A m \in D : m[4] = "fini_cb"
    BY DEF Of, Register, Reports
  <2> HIDE DEF A, B, C, D
  <2> QED
    BY <2>1, <2>2, <2>3
<1>2. /\ IsFiniteSet(A) /\ IsFiniteSet(B) /\ IsFiniteSet(C) /\ IsFiniteSet(D)
      /\ Cardinality(A) = starts /\ Cardinality(B) = registers
      /\ Cardinality(C) = reports /\ Cardinality(D) = finals
      /\ starts \in Nat /\ registers \in Nat /\ reports \in Nat /\ finals \in Nat
  BY NumTypes DEF starts, registers, reports, finals, Num
<1> HIDE DEF A, B, C, D
<1>3. \A S, T : IsFiniteSet(S) /\ IsFiniteSet(T) /\ S \cap T = {} =>
        IsFiniteSet(S \cup T) /\ Cardinality(S \cup T) = Cardinality(S) + Cardinality(T)
  <2> SUFFICES ASSUME NEW S, NEW T, IsFiniteSet(S), IsFiniteSet(T), S \cap T = {}
               PROVE  IsFiniteSet(S \cup T) /\ Cardinality(S \cup T) = Cardinality(S) + Cardinality(T)
    OBVIOUS
  <2>1. /\ IsFiniteSet(S \cup T)
        /\ Cardinality(S \cup T) = Cardinality(S) + Cardinality(T) - Cardinality(S \cap T)
    BY FS_Union
  <2>2. Cardinality(S) \in Nat /\ Cardinality(T) \in Nat /\ Cardinality(S \cap T) = 0
    BY FS_CardinalityType, FS_EmptySet
  <2> QED
    BY <2>1, <2>2
<1>4. /\ IsFiniteSet(A \cup B) /\ Cardinality(A \cup B) = starts + registers
      /\ IsFiniteSet(C \cup D) /\ Cardinality(C \cup D) = reports + finals
  BY <1>1, <1>2, <1>3
<1>5. Cardinality(Messages) = (starts + registers) + (reports + finals)
  BY <1>1, <1>3, <1>4
<1> QED
  BY <1>2, <1>5

(* The event pool, from which kv_app_send takes without a check            *)
(* (kv_app.c:42), lasts for the messages of a handle when it has one for   *)
(* the registration and one for the end of each poller and one more, and   *)
(* every event that carries no message is back in it.                      *)
THEOREM EventPoolSuffices ==
  ASSUME EventNum >= 2 * PollNum + 1
  PROVE  Spec => []EventPoolLasts
<1>1. ASSUME FiniInv, phase # "over"
      PROVE  events = InFlight /\ events <= EventNum
  <2>1. /\ TypeOK /\ Started /\ Called /\ Freed /\ Counted /\ Counts /\ MsgTyped
        /\ IsFiniteSet(Messages)
    BY <1>1, CountsHold, TypedNow DEF FiniInv, Counted
  <2>2. events = InFlight /\ events = starts + registers + reports + finals
    BY <1>1, <2>1, MessagesCounted DEF Counted, InFlight
  <2>3. /\ starts \in Nat /\ registers \in Nat /\ reports \in Nat /\ finals \in Nat
        /\ starts <= 1 /\ registers <= PollNum /\ finals <= 1 /\ PollNum \in Nat \ {0}
    BY <2>1, Sizes DEF Counts, Counted
  <2>4. CASE pc = "none"
    <3>1. registers = 0 /\ reports = 0 /\ finals = 0
      BY <2>1, <2>4 DEF Started, Called, Freed, Counts
    <3> QED
      BY <2>2, <2>3, <3>1, AppAssumption
  <2>5. CASE pc # "none" /\ ~freed
    <3>1. starts = 0 /\ finals = 0
      BY <2>1, <2>5 DEF Started, Freed, Counts
    <3>2. reports <= PollNum + 1
      <4>1. ioCnt \in 0..(PollNum + 1) /\ told \in 0..PollNum
        BY <2>1 DEF TypeOK
      <4>2. ioCnt = reports + (IF pc = "send" THEN PollNum - told ELSE 0)
        BY <1>1, <2>1, <2>5 DEF Counted
      <4> QED
        BY <2>3, <4>1, <4>2
    <3> QED
      BY <2>2, <2>3, <3>1, <3>2, AppAssumption
  <2>6. CASE pc # "none" /\ freed
    <3>1. starts = 0 /\ reports = 0
      BY <2>1, <2>6 DEF Started, Freed, Counts
    <3> QED
      BY <2>2, <2>3, <3>1, AppAssumption
  <2> QED
    BY <2>2, <2>4, <2>5, <2>6
<1>2. FiniInv => EventPoolLasts
  BY <1>1 DEF EventPoolLasts
<1> QED
  BY FiniHolds, <1>2, PTL
=============================================================================
