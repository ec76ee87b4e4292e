-------------------------- MODULE KvRdmaConnProofs --------------------------
(***************************************************************************)
(* Theorems about KvRdmaConn: the server's connection table is exact, the  *)
(* slots are lost by the end of a connection only, and a server with one   *)
(* thread answers on the right connection and touches no freed one; every  *)
(* variable keeps its type, and with one thread on each side and slots for *)
(* all connections ever made no process dies.                              *)
(***************************************************************************)
EXTENDS KvRdmaConn, FiniteSetTheorems, SequenceTheorems, TLAPS

(* The part of the server's state that the connection table is about has   *)
(* its type.                                                               *)
ServerTyped ==
  /\ sst   \in [Conns -> {"none", "live", "freed"}]
  /\ qpn   \in [Conns -> QpNums \cup {None}]
  /\ dying \in Conns \cup {None}

Live == {c \in Conns : sst[c] = "live"}

(* TableMatchesQps says nothing about the connection that has left the     *)
(* table and still has its queue pair; its number is taken as well, and it *)
(* is live until it is freed.                                              *)
TableInv ==
  /\ ServerTyped
  /\ table = Live \ {dying}
  /\ dying # None => sst[dying] = "live"
  /\ \A c, d \in Live : qpn[c] = qpn[d] => c = d

LEMMA TableInvInit == ASSUME Init PROVE TableInv
  BY DEF Init, TableInv, ServerTyped, Live

(* The connection manager of the server alone touches its connections.     *)
LEMMA ConnVarsOnly ==
  ASSUME TableInv, UNCHANGED connVars
  PROVE  TableInv'
  BY DEF TableInv, ServerTyped, Live, connVars

(* A new connection gets a number that no queue pair in use has.           *)
LEMMA ConnectKeepsTable ==
  ASSUME TableInv, NEW c \in Conns, OnConnectRequest(c)
  PROVE  TableInv'
<1>1. PICK q \in QpNums \ {qpn[d] : d \in {e \in Conns : sst[e] = "live"}} :
        qpn' = [qpn EXCEPT ![c] = q]
  BY DEF OnConnectRequest
<1>2. /\ sst[c] = "none" /\ dying = None /\ dying' = dying
      /\ sst' = [sst EXCEPT ![c] = "live"]
      /\ table' = table \cup {c}
  BY DEF OnConnectRequest, ServerIdle, SArrayDone
<1>3. Live' = Live \cup {c}
  BY <1>2 DEF TableInv, ServerTyped, Live
<1>4. ServerTyped'
  BY <1>1, <1>2 DEF TableInv, ServerTyped
<1>5. table' = Live' \ {dying'}
  BY <1>2, <1>3, ConnAssumption DEF TableInv, ConnAssumption
<1>6. ASSUME NEW d \in Live', NEW e \in Live', qpn'[d] = qpn'[e]
      PROVE  d = e
  <2>1. \A f \in Live : f # c /\ qpn'[f] = qpn[f] /\ qpn[f] # q
    BY <1>1, <1>2 DEF TableInv, ServerTyped, Live
  <2>2. qpn'[c] = q
    BY <1>1 DEF TableInv, ServerTyped
  <2> QED BY <1>3, <1>6, <2>1, <2>2 DEF TableInv
<1> QED BY <1>2, <1>4, <1>5, <1>6 DEF TableInv

LEMMA DeleteKeepsTable ==
  ASSUME TableInv, NEW c \in Conns, HashDelete(c)
  PROVE  TableInv'
<1>1. /\ dying = None /\ dying' = c /\ sst[c] = "live"
      /\ table' = table \ {c}
      /\ UNCHANGED <<sst, qpn>>
  BY DEF HashDelete, ServerIdle, SArrayDone
<1>2. Live' = Live
  BY <1>1 DEF Live
<1>3. table' = Live' \ {dying'}
  BY <1>1, <1>2, ConnAssumption DEF TableInv, Live, ConnAssumption
<1> QED BY <1>1, <1>2, <1>3 DEF TableInv, ServerTyped

LEMMA FreeKeepsTable ==
  ASSUME TableInv, DestroyAndFree
  PROVE  TableInv'
<1>1. /\ dying # None /\ dying' = None /\ dying \in Conns
      /\ sst' = [sst EXCEPT ![dying] = "freed"]
      /\ UNCHANGED <<table, qpn>>
  BY DEF DestroyAndFree, TableInv, ServerTyped
<1>2. Live' = Live \ {dying}
  BY <1>1 DEF TableInv, ServerTyped, Live
<1>3. table' = Live' \ {dying'}
  BY <1>1, <1>2, ConnAssumption DEF TableInv, Live, ConnAssumption
<1> QED BY <1>1, <1>2, <1>3 DEF TableInv, ServerTyped

LEMMA TableInvStep ==
  ASSUME TableInv, [Next]_vars
  PROVE  TableInv'
<1>1. CASE UNCHANGED vars
  BY <1>1, ConnVarsOnly DEF vars, serverVars
<1>2. CASE Application
  <2>1. UNCHANGED connVars
    BY <1>2 DEF Application, Connect, SendReq, Disconnect, serverVars
  <2> QED BY <2>1, ConnVarsOnly
<1>3. ASSUME NEW c \in Conns, ClientCmStep(c) PROVE TableInv'
  <2>1. UNCHANGED connVars
    BY <1>3 DEF ClientCmStep, ClientProgress, OnAddrResolved, OnRouteResolved, OnConnectError,
         OnOtherEvent, OnEstablished, OnDisconnected, ClientEvent, serverVars
  <2> QED BY <2>1, ConnVarsOnly
<1>4. ASSUME NEW c \in Conns, WireStep(c) PROVE TableInv'
  <2>1. UNCHANGED connVars
    BY <1>4 DEF WireStep, DeliverReq, RnrNak, DeliverResp, AckWrite,
         WriteError, serverVars
  <2> QED BY <2>1, ConnVarsOnly
<1>5. ASSUME NEW c \in Conns, ServerCmStep(c) PROVE TableInv'
  BY <1>5, ConnectKeepsTable, DeleteKeepsTable DEF ServerCmStep
<1>6. ASSUME NEW t \in CThreads, ClientStep(t) PROVE TableInv'
  <2>1. UNCHANGED connVars
    BY <1>6 DEF ClientStep, ClientPoll, ClientPollEmpty, OnRecvResp, MempoolPut,
         OnClientError, OnRecvRespFailed,
         serverVars
  <2> QED BY <2>1, ConnVarsOnly
<1>7. ASSUME NEW t \in SThreads, ServerStep(t) PROVE TableInv'
  <2>1. UNCHANGED connVars
    BY <1>7 DEF ServerStep, ServerPoll, ServerPollEmpty, FindConn, CallHandler, OnWriteRespDone,
         OnServerError
  <2> QED BY <2>1, ConnVarsOnly
<1>8. ASSUME NEW s \in Slots, MakeResp(s) PROVE TableInv'
  <2>1. UNCHANGED connVars
    BY <1>8 DEF MakeResp
  <2> QED BY <2>1, ConnVarsOnly
<1> QED BY <1>1, <1>2, <1>3, <1>4, <1>5, <1>6, <1>7, <1>8, FreeKeepsTable
        DEF Next

(* At any time the server's table holds exactly the connections whose      *)
(* queue pair can deliver, except for the one on_disconnect is removing,   *)
(* and no queue pair number names two of them, however often numbers are   *)
(* reused.                                                                 *)
THEOREM TableIsExact == Safety => []TableMatchesQps
<1>1. Init => TableInv
  BY TableInvInit
<1>2. TableInv /\ [Next]_vars => TableInv'
  BY TableInvStep
<1>3. TableInv => TableMatchesQps
  BY DEF TableInv, TableMatchesQps, Live
<1> QED BY <1>1, <1>2, <1>3, PTL DEF Safety

-----------------------------------------------------------------------------
(* Queues, and what is named in them.                                      *)

Named(q, key)     == {key[q[i]] : i \in DOMAIN q}
NamedOnce(q, key) == \A i, j \in DOMAIN q : key[q[i]] = key[q[j]] => i = j

(* The members of a queue, without the order.                              *)
Members(q) == {q[i] : i \in DOMAIN q}

LEMMA NamedEmpty ==
  ASSUME NEW key
  PROVE  Named(<<>>, key) = {} /\ NamedOnce(<<>>, key) /\ Members(<<>>) = {}
BY DEF Named, NamedOnce, Members

LEMMA NamedMembers ==
  ASSUME NEW q, NEW key
  PROVE  Named(q, key) = {key[x] : x \in Members(q)}
BY DEF Named, Members

LEMMA NamedTail ==
  ASSUME NEW S, NEW q \in Seq(S), NEW key, q # <<>>
  PROVE  /\ Tail(q) \in Seq(S) /\ Head(q) \in Members(q)
         /\ Members(Tail(q)) \subseteq Members(q)
         /\ Named(q, key) = Named(Tail(q), key) \cup {key[Head(q)]}
         /\ NamedOnce(q, key) => /\ NamedOnce(Tail(q), key)
                                 /\ key[Head(q)] \notin Named(Tail(q), key)
<1> DEFINE r == Tail(q)
<1>1. /\ DOMAIN q = 1..Len(q) /\ Len(q) \in Nat \ {0}
      /\ DOMAIN r = 1..(Len(q) - 1) /\ r \in Seq(S)
      /\ \A i \in 1..(Len(q) - 1) : r[i] = q[i + 1]
      /\ Head(q) = q[1]
  BY HeadTailProperties, EmptySeq, LenProperties
<1> HIDE DEF r
<1>2. \A i \in DOMAIN r : i + 1 \in DOMAIN q /\ i + 1 # 1 /\ r[i] = q[i + 1]
  BY <1>1
<1>3. \A i \in DOMAIN q : i = 1 \/ (i - 1 \in DOMAIN r /\ r[i - 1] = q[i])
  BY <1>1
<1>4. 1 \in DOMAIN q
  BY <1>1
<1>5. Named(q, key) \subseteq Named(r, key) \cup {key[q[1]]}
  BY <1>3 DEF Named
<1>6. Named(r, key) \subseteq Named(q, key) /\ Members(r) \subseteq Members(q)
  BY <1>2 DEF Named, Members
<1>7. key[q[1]] \in Named(q, key) /\ q[1] \in Members(q)
  BY <1>4 DEF Named, Members
<1>8. ASSUME NamedOnce(q, key) PROVE NamedOnce(r, key)
  <2> SUFFICES ASSUME NEW i \in DOMAIN r, NEW j \in DOMAIN r, key[r[i]] = key[r[j]]
               PROVE  i = j
    BY DEF NamedOnce
  <2>1. i + 1 = j + 1
    BY <1>2, <1>8 DEF NamedOnce
  <2> QED
    BY <2>1, <1>1
<1>9. ASSUME NamedOnce(q, key) PROVE key[q[1]] \notin Named(r, key)
  BY <1>2, <1>4, <1>9 DEF Named, NamedOnce
<1> QED
  BY <1>1, <1>5, <1>6, <1>7, <1>8, <1>9 DEF r

LEMMA NamedAppend ==
  ASSUME NEW S, NEW q \in Seq(S), NEW e \in S, NEW key
  PROVE  /\ Append(q, e) \in Seq(S)
         /\ Members(Append(q, e)) = Members(q) \cup {e}
         /\ Named(Append(q, e), key) = Named(q, key) \cup {key[e]}
         /\ NamedOnce(q, key) /\ key[e] \notin Named(q, key) => NamedOnce(Append(q, e), key)
<1> DEFINE r == Append(q, e)
           n == Len(q) + 1
<1>1. /\ DOMAIN q = 1..Len(q) /\ Len(q) \in Nat
      /\ DOMAIN r = 1..n /\ r \in Seq(S)
      /\ \A i \in 1..Len(q) : r[i] = q[i]
      /\ r[n] = e
  BY AppendProperties, LenProperties
<1>2. n = Len(q) + 1
  OBVIOUS
<1> HIDE DEF r, n
<1>3. /\ \A i \in DOMAIN r : (i \in DOMAIN q /\ r[i] = q[i]) \/ i = n
      /\ \A i \in DOMAIN q : i \in DOMAIN r /\ r[i] = q[i]
      /\ n \in DOMAIN r
  BY <1>1, <1>2
<1>4. Named(r, key) \subseteq Named(q, key) \cup {key[e]}
  BY <1>1, <1>3 DEF Named
<1>5. Named(q, key) \cup {key[e]} \subseteq Named(r, key)
  BY <1>1, <1>3 DEF Named
<1>6. ASSUME NamedOnce(q, key), key[e] \notin Named(q, key) PROVE NamedOnce(r, key)
  BY <1>1, <1>3, <1>6 DEF Named, NamedOnce
<1>7. Members(r) = Members(q) \cup {e}
  BY <1>1, <1>3 DEF Members
<1> QED
  BY <1>1, <1>4, <1>5, <1>6, <1>7 DEF r

(* rdma_destroy_qp picks completions out of a queue and leaves the others. *)
Kept(q, c) == IF Purge THEN {i \in DOMAIN q : q[i].conn # c} ELSE DOMAIN q

LEMMA PurgeSelects ==
  ASSUME NEW S, NEW q \in Seq(S), NEW c
  PROVE  \E n \in Nat : \E f \in Bijection(1..n, Kept(q, c)) :
           /\ PurgeCq(q, c) = [k \in 1..n |-> q[f[k]]]
           /\ \A i, j \in 1..n : i < j => f[i] < f[j]
<1>1. DOMAIN q = 1..Len(q) /\ Len(q) \in Nat /\ q = [k \in 1..Len(q) |-> q[k]]
  BY LenProperties
<1>2. CASE ~Purge
  <2> DEFINE f == [k \in 1..Len(q) |-> k]
  <2>1. f \in Bijection(1..Len(q), Kept(q, c))
    BY <1>1, <1>2 DEF Kept, Bijection, Injection, Surjection, IsInjective
  <2>2. PurgeCq(q, c) = [k \in 1..Len(q) |-> q[f[k]]]
    BY <1>1, <1>2 DEF PurgeCq
  <2>3. \A i, j \in 1..Len(q) : i < j => f[i] < f[j]
    OBVIOUS
  <2> HIDE DEF f
  <2> QED
    BY <1>1, <2>1, <2>2, <2>3
<1>3. CASE Purge
  <2> DEFINE kept == {i \in DOMAIN q : q[i].conn # c}
             upTo(i) == {j \in kept : j <= i}
             N == Cardinality(kept)
             rank == [i \in kept |-> Cardinality(upTo(i))]
             f == [k \in 1..N |-> CHOOSE i \in kept : Cardinality(upTo(i)) = k]
  <2>1. IsFiniteSet(DOMAIN q)
    <3>1. Len(q) \in Int
      BY <1>1
    <3>2. IsFiniteSet(1..Len(q))
      BY <3>1, FS_Interval
    <3> QED
      BY <1>1, <3>2
  <2>2. kept \in SUBSET DOMAIN q /\ kept \subseteq Nat
    BY <1>1
  <2>3. IsFiniteSet(kept) /\ N \in Nat
    BY <2>1, <2>2, FS_Subset, FS_CardinalityType
  <2>4. ASSUME NEW i \in kept
        PROVE  IsFiniteSet(upTo(i)) /\ Cardinality(upTo(i)) \in 1..N
    <3>1. upTo(i) \in SUBSET kept
      OBVIOUS
    <3>2. IsFiniteSet(upTo(i)) /\ Cardinality(upTo(i)) <= N
      BY <2>3, <3>1, FS_Subset
    <3>3. i \in upTo(i)
      BY <2>2
    <3>4. Cardinality(upTo(i)) \in Nat /\ Cardinality(upTo(i)) # 0
      BY <3>2, <3>3, FS_CardinalityType, FS_EmptySet
    <3> QED
      BY <2>3, <3>2, <3>4
  <2>5. ASSUME NEW i \in kept, NEW j \in kept, i < j
        PROVE  Cardinality(upTo(i)) # Cardinality(upTo(j))
    <3>1. upTo(i) \in SUBSET upTo(j)
      BY <2>2, <2>5
    <3>2. j \in upTo(j) /\ j \notin upTo(i)
      BY <2>2, <2>5
    <3>3. IsFiniteSet(upTo(j))
      BY <2>4
    <3> HIDE DEF upTo, kept
    <3>4. Cardinality(upTo(i)) = Cardinality(upTo(j)) => upTo(i) = upTo(j)
      BY <3>1, <3>3, FS_Subset
    <3> QED
      BY <3>2, <3>4
  <2>6. ASSUME NEW i \in kept, NEW j \in kept, Cardinality(upTo(i)) = Cardinality(upTo(j))
        PROVE  i = j
    <3>1. i \in Nat /\ j \in Nat
      BY <2>2
    <3>2. ~(i < j) /\ ~(j < i)
      BY <2>5, <2>6
    <3> QED
      BY <3>1, <3>2
  <2>7. PurgeCq(q, c) = [k \in 1..N |-> q[f[k]]] /\ Kept(q, c) = kept
    BY <1>3 DEF PurgeCq, Kept
  <2> HIDE DEF kept, upTo, N
  <2>8. rank \in Injection(kept, 1..N)
    BY <2>4, <2>6 DEF Injection, IsInjective
  <2>9. IsFiniteSet(1..N) /\ Cardinality(1..N) = N
    BY <2>3, FS_Interval
  <2>10. rank \in Surjection(kept, 1..N)
    BY <2>8, <2>9, FS_Injection DEF N
  <2>11. \A k \in 1..N : \E i \in kept : Cardinality(upTo(i)) = k
    BY <2>10 DEF Surjection
  <2>12. \A k \in 1..N : f[k] \in kept /\ Cardinality(upTo(f[k])) = k
    BY <2>11
  <2>13. \A i \in kept : Cardinality(upTo(i)) \in 1..N /\ f[Cardinality(upTo(i))] = i
    BY <2>4, <2>6, <2>12
  <2>17. ASSUME NEW i \in 1..N, NEW j \in 1..N, i < j PROVE f[i] < f[j]
    <3>1. PICK a \in kept, b \in kept : /\ a = f[i] /\ b = f[j]
                                        /\ Cardinality(upTo(a)) = i /\ Cardinality(upTo(b)) = j
      BY <2>12
    <3>2. a \in Nat /\ b \in Nat
      BY <2>2
    <3>3. ASSUME b <= a PROVE FALSE
      <4>1. upTo(b) \subseteq upTo(a)
        <5>1. ASSUME NEW x \in kept, x <= b PROVE x <= a
          BY <2>2, <3>2, <3>3, <5>1
        <5> QED
          BY <5>1 DEF upTo
      <4>2. IsFiniteSet(upTo(a))
        BY <2>4
      <4>3. Cardinality(upTo(b)) <= Cardinality(upTo(a))
        BY <4>1, <4>2, FS_Subset
      <4> QED
        BY <2>3, <2>17, <3>1, <4>3
    <3> QED
      BY <3>1, <3>2, <3>3
  <2>14. DOMAIN f = 1..N /\ f \in [1..N -> kept]
    BY <2>12
  <2> HIDE DEF f, rank
  <2>15. f \in Injection(1..N, kept)
    BY <2>12, <2>14 DEF Injection, IsInjective
  <2>16. f \in Surjection(1..N, kept)
    BY <2>13, <2>14 DEF Surjection
  <2> QED
    BY <2>3, <2>7, <2>15, <2>16, <2>17 DEF Bijection
<1> QED
  BY <1>2, <1>3

LEMMA NamedPurge ==
  ASSUME NEW S, NEW q \in Seq(S), NEW c, NEW key
  PROVE  /\ PurgeCq(q, c) \in Seq(S)
         /\ Members(PurgeCq(q, c)) \subseteq Members(q)
         /\ Purge => \A x \in Members(PurgeCq(q, c)) : x.conn # c
         /\ \A x \in Members(q) : x.conn # c => x \in Members(PurgeCq(q, c))
         /\ NamedOnce(q, key) => NamedOnce(PurgeCq(q, c), key)
<1>1. PICK n \in Nat : \E f \in Bijection(1..n, Kept(q, c)) :
        PurgeCq(q, c) = [k \in 1..n |-> q[f[k]]]
  BY PurgeSelects
<1>2. PICK f \in Bijection(1..n, Kept(q, c)) : PurgeCq(q, c) = [k \in 1..n |-> q[f[k]]]
  BY <1>1
<1>3. /\ f \in [1..n -> Kept(q, c)]
      /\ \A a, b \in 1..n : f[a] = f[b] => a = b
      /\ \A i \in Kept(q, c) : \E k \in 1..n : f[k] = i
  BY DEF Bijection, Injection, Surjection, IsInjective
<1>4. Kept(q, c) \subseteq DOMAIN q /\ \A i \in DOMAIN q : q[i].conn # c => i \in Kept(q, c)
  BY DEF Kept
<1>5. \A i \in DOMAIN q : q[i] \in S
  BY ElementOfSeq, LenProperties
<1> DEFINE r == PurgeCq(q, c)
<1>6. DOMAIN r = 1..n /\ \A k \in 1..n : r[k] = q[f[k]]
  BY <1>2
<1>7. r \in Seq(S)
  <2>1. r \in [1..n -> S]
    BY <1>2, <1>3, <1>4, <1>5
  <2> QED
    BY <2>1, SeqDef
<1> HIDE DEF r
<1>8. Members(r) \subseteq Members(q)
  BY <1>3, <1>4, <1>6 DEF Members
<1>9. Purge => \A x \in Members(r) : x.conn # c
  BY <1>3, <1>6 DEF Members, Kept
<1>10. ASSUME NEW x \in Members(q), x.conn # c PROVE x \in Members(r)
  <2>1. PICK i \in DOMAIN q : x = q[i]
    BY DEF Members
  <2>2. PICK k \in 1..n : f[k] = i
    BY <1>3, <1>4, <1>10, <2>1
  <2> QED
    BY <1>6, <2>1, <2>2 DEF Members
<1>11. NamedOnce(q, key) => NamedOnce(r, key)
  BY <1>3, <1>4, <1>6 DEF NamedOnce
<1> QED
  BY <1>7, <1>8, <1>9, <1>10, <1>11 DEF r

-----------------------------------------------------------------------------
(* Where the slots are.                                                    *)

Srq_      == <<"srq", None>>
Handling_ == <<"handling", None>>
Found_(t) == <<"found", t>>
Scq_      == <<"scq", None>>
Swc_(t)   == <<"swc", t>>
Resps_(c) == <<"resps", c>>
Wacks_(c) == <<"wacks", c>>

SlotSites ==
  {Srq_, Handling_, Scq_}
  \cup {Found_(t) : t \in SThreads} \cup {Swc_(t) : t \in SThreads}
  \cup {Resps_(c) : c \in Conns} \cup {Wacks_(c) : c \in Conns}

SlotOf == [e \in ServerCqe |-> e.slot]
Itself == [s \in Slots |-> s]

SlotsAt(p) ==
  CASE p[1] = "srq"      -> srq
    [] p[1] = "handling" -> handling
    [] p[1] = "found"    -> {found[p[2]]} \ {None}
    [] p[1] = "scq"      -> Named(scq, SlotOf)
    [] p[1] = "swc"      -> Named(swc[p[2]], SlotOf)
    [] p[1] = "resps"    -> Named(resps[p[2]], Itself)
    [] p[1] = "wacks"    -> Named(wacks[p[2]], Itself)

Used(s) == \E p \in SlotSites : s \in SlotsAt(p)

(* A slot is in one place at most, and there once.                         *)
InOneSite == \A p, q \in SlotSites : p # q => SlotsAt(p) \cap SlotsAt(q) = {}

QueuedOnce ==
  /\ NamedOnce(scq, SlotOf)
  /\ \A t \in SThreads : NamedOnce(swc[t], SlotOf)
  /\ \A c \in Conns : NamedOnce(resps[c], Itself) /\ NamedOnce(wacks[c], Itself)

(* Before the first connection no slot is anywhere.                        *)
Unposted    == \A c \in Conns : sst[c] = "none"
PostedFirst == Unposted => \A p \in SlotSites : SlotsAt(p) = {}

(* What is done with a slot is done for the connection whose request is in *)
(* it, or that one is gone and its number names another.                   *)
Traced(s, c) == from[s] \in Conns /\ (from[s] = c \/ sst[from[s]] = "freed")

CqeTraced(e) ==
  /\ e.op = "recv" => from[e.slot] = e.conn /\ sst[e.conn] # "none"
  /\ e.op \in {"write", "error"} => Traced(e.slot, e.conn)
  /\ e.op = "error" => e.conn \in qpErr

TracedCq(q)        == \A e \in Members(q) : CqeTraced(e)
TracedConn(s)      == reqConn[s] \in Conns /\ Traced(s, reqConn[s])
TracedWrites(q, c) == \A s \in Named(q, Itself) : Traced(s, c)

SlotsTraced ==
  /\ TracedCq(scq)
  /\ \A t \in SThreads : TracedCq(swc[t])
  /\ \A t \in SThreads : found[t] # None => TracedConn(found[t])
  /\ \A s \in handling : TracedConn(s)
  /\ \A c \in Conns : TracedWrites(resps[c], c) /\ TracedWrites(wacks[c], c)

SlotsTyped ==
  /\ qpErr    \in SUBSET Conns
  /\ resps    \in [Conns -> Seq(Slots)]
  /\ wacks    \in [Conns -> Seq(Slots)]
  /\ srq      \in SUBSET Slots
  /\ reqConn  \in [Slots -> Conns \cup {None}]
  /\ from     \in [Slots -> Conns \cup {None}]
  /\ found    \in [SThreads -> Slots \cup {None}]
  /\ handling \in SUBSET Slots
  /\ scq      \in Seq(ServerCqe)
  /\ swc      \in [SThreads -> Seq(ServerCqe)]

(* What has become of a slot that is nowhere.                              *)
Gone(s) == from[s] \in Conns /\ (from[s] \in qpErr \/ sst[from[s]] = "freed")

LostIsGone == ~Unposted => \A s \in Slots : Used(s) \/ Gone(s) \/ fault # "none"

SlotInv == SlotsTyped /\ InOneSite /\ QueuedOnce /\ PostedFirst /\ SlotsTraced /\ LostIsGone

LEMMA SitesDiffer ==
  /\ Srq_ # Handling_ /\ Srq_ # Scq_ /\ Handling_ # Scq_
  /\ \A t \in SThreads : /\ Found_(t) \notin {Srq_, Handling_, Scq_}
                         /\ Swc_(t) \notin {Srq_, Handling_, Scq_}
  /\ \A c \in Conns : /\ Resps_(c) \notin {Srq_, Handling_, Scq_}
                      /\ Wacks_(c) \notin {Srq_, Handling_, Scq_}
  /\ \A t, u \in SThreads : Found_(t) # Swc_(u)
  /\ \A t, u \in SThreads : t # u => Found_(t) # Found_(u) /\ Swc_(t) # Swc_(u)
  /\ \A c, d \in Conns : Resps_(c) # Wacks_(d)
  /\ \A c, d \in Conns : c # d => Resps_(c) # Resps_(d) /\ Wacks_(c) # Wacks_(d)
  /\ \A c \in Conns, t \in SThreads :
       Resps_(c) \notin {Found_(t), Swc_(t)} /\ Wacks_(c) \notin {Found_(t), Swc_(t)}
BY DEF Srq_, Handling_, Scq_, Found_, Swc_, Resps_, Wacks_

LEMMA SitesAre ==
  /\ Srq_ \in SlotSites /\ Handling_ \in SlotSites /\ Scq_ \in SlotSites
  /\ \A t \in SThreads : Found_(t) \in SlotSites /\ Swc_(t) \in SlotSites
  /\ \A c \in Conns : Resps_(c) \in SlotSites /\ Wacks_(c) \in SlotSites
BY DEF SlotSites

LEMMA SiteKinds ==
  ASSUME NEW p \in SlotSites
  PROVE  \/ p \in {Srq_, Handling_, Scq_}
         \/ \E t \in SThreads : p \in {Found_(t), Swc_(t)}
         \/ \E c \in Conns : p \in {Resps_(c), Wacks_(c)}
BY DEF SlotSites

LEMMA SlotsAtSites ==
  /\ SlotsAt(Srq_) = srq /\ SlotsAt(Handling_) = handling /\ SlotsAt(Scq_) = Named(scq, SlotOf)
  /\ \A t : SlotsAt(Found_(t)) = {found[t]} \ {None}
  /\ \A t : SlotsAt(Swc_(t)) = Named(swc[t], SlotOf)
  /\ \A c : SlotsAt(Resps_(c)) = Named(resps[c], Itself)
  /\ \A c : SlotsAt(Wacks_(c)) = Named(wacks[c], Itself)
BY DEF SlotsAt, Srq_, Handling_, Scq_, Found_, Swc_, Resps_, Wacks_

LEMMA SlotsAtSitesNext ==
  /\ SlotsAt(Srq_)' = srq' /\ SlotsAt(Handling_)' = handling'
  /\ SlotsAt(Scq_)' = Named(scq', SlotOf)
  /\ \A t : SlotsAt(Found_(t))' = {found'[t]} \ {None}
  /\ \A t : SlotsAt(Swc_(t))' = Named(swc'[t], SlotOf)
  /\ \A c : SlotsAt(Resps_(c))' = Named(resps'[c], Itself)
  /\ \A c : SlotsAt(Wacks_(c))' = Named(wacks'[c], Itself)
BY DEF SlotsAt, Srq_, Handling_, Scq_, Found_, Swc_, Resps_, Wacks_, Named, SlotOf, Itself

(* A site whose variable does not change holds the same slots.             *)
LEMMA SitesSame ==
  /\ UNCHANGED srq => SlotsAt(Srq_)' = SlotsAt(Srq_)
  /\ UNCHANGED handling => SlotsAt(Handling_)' = SlotsAt(Handling_)
  /\ UNCHANGED scq => SlotsAt(Scq_)' = SlotsAt(Scq_)
  /\ \A t : found'[t] = found[t] => SlotsAt(Found_(t))' = SlotsAt(Found_(t))
  /\ \A t : swc'[t] = swc[t] => SlotsAt(Swc_(t))' = SlotsAt(Swc_(t))
  /\ \A c : resps'[c] = resps[c] => SlotsAt(Resps_(c))' = SlotsAt(Resps_(c))
  /\ \A c : wacks'[c] = wacks[c] => SlotsAt(Wacks_(c))' = SlotsAt(Wacks_(c))
<1>1. /\ UNCHANGED srq => SlotsAt(Srq_)' = SlotsAt(Srq_)
      /\ UNCHANGED handling => SlotsAt(Handling_)' = SlotsAt(Handling_)
      /\ UNCHANGED scq => SlotsAt(Scq_)' = SlotsAt(Scq_)
  BY SlotsAtSites, SlotsAtSitesNext
<1>2. ASSUME NEW t PROVE found'[t] = found[t] => SlotsAt(Found_(t))' = SlotsAt(Found_(t))
  <2>1. SlotsAt(Found_(t)) = {found[t]} \ {None}
    BY SlotsAtSites
  <2>2. SlotsAt(Found_(t))' = {found'[t]} \ {None}
    BY SlotsAtSitesNext
  <2> QED
    BY <2>1, <2>2
<1>4. ASSUME NEW t PROVE swc'[t] = swc[t] => SlotsAt(Swc_(t))' = SlotsAt(Swc_(t))
  BY SlotsAtSites, SlotsAtSitesNext
<1>3. ASSUME NEW c
      PROVE  /\ resps'[c] = resps[c] => SlotsAt(Resps_(c))' = SlotsAt(Resps_(c))
             /\ wacks'[c] = wacks[c] => SlotsAt(Wacks_(c))' = SlotsAt(Wacks_(c))
  BY SlotsAtSites, SlotsAtSitesNext
<1> QED
  BY <1>1, <1>2, <1>3, <1>4

LEMMA SlotsMove ==
  ASSUME InOneSite, PostedFirst, UNCHANGED sst,
         NEW a \in SlotSites, NEW b \in SlotSites, a # b,
         NEW X, X \subseteq SlotsAt(a),
         SlotsAt(a)' = SlotsAt(a) \ X, SlotsAt(b)' = SlotsAt(b) \cup X,
         \A p \in SlotSites \ {a, b} : SlotsAt(p)' = SlotsAt(p)
  PROVE  InOneSite' /\ PostedFirst' /\ \A s : Used(s) => Used(s)'
<1>1. ASSUME NEW p \in SlotSites, NEW q \in SlotSites, p # q,
             NEW s \in SlotsAt(p)', s \in SlotsAt(q)'
      PROVE  FALSE
  BY <1>1 DEF InOneSite
<1>2. PostedFirst'
  BY DEF PostedFirst, Unposted, SlotSites, Srq_, Handling_, Scq_, Found_, Swc_, Resps_, Wacks_
<1>3. ASSUME NEW s, Used(s) PROVE Used(s)'
  <2>1. \E p \in SlotSites : s \in SlotsAt(p)'
    BY <1>3 DEF Used
  <2> QED
    BY <2>1 DEF Used, SlotSites, Srq_, Handling_, Scq_, Found_, Swc_, Resps_, Wacks_
<1> QED
  BY <1>1, <1>2, <1>3
  DEF InOneSite, SlotSites, Srq_, Handling_, Scq_, Found_, Swc_, Resps_, Wacks_

LEMMA SlotsShrink ==
  ASSUME InOneSite, PostedFirst, Unposted' => Unposted,
         \A p \in SlotSites : SlotsAt(p)' \subseteq SlotsAt(p)
  PROVE  InOneSite' /\ PostedFirst'
<1>1. InOneSite'
  BY DEF InOneSite, SlotSites, Srq_, Handling_, Scq_, Found_, Swc_, Resps_, Wacks_
<1>2. PostedFirst'
  BY DEF PostedFirst, SlotSites, Srq_, Handling_, Scq_, Found_, Swc_, Resps_, Wacks_
<1> QED
  BY <1>1, <1>2

(* Connections do not come back, and neither do queue pairs in error.      *)
Aging ==
  /\ qpErr \subseteq qpErr'
  /\ \A c \in Conns : sst[c] = "freed" => sst'[c] = "freed"
  /\ \A c \in Conns : sst[c] # "none" => sst'[c] # "none"

LEMMA GoneStays ==
  ASSUME Aging, NEW s, from'[s] = from[s], Gone(s)
  PROVE  Gone(s)'
BY DEF Aging, Gone

LEMMA TracedStays ==
  ASSUME Aging, NEW s, NEW c, from'[s] = from[s], Traced(s, c)
  PROVE  Traced(s, c)'
BY DEF Aging, Traced

LEMMA CqeTracedStays ==
  ASSUME Aging, NEW e \in ServerCqe, from'[e.slot] = from[e.slot], CqeTraced(e)
  PROVE  CqeTraced(e)'
<1>1. Traced(e.slot, e.conn) => Traced(e.slot, e.conn)'
  BY TracedStays
<1> QED
  BY <1>1 DEF CqeTraced, Aging, ServerCqe

-----------------------------------------------------------------------------
(* What the steps have in common.                                          *)

(* Only the sites in E change.                                             *)
SitesKept(E) ==
  /\ Srq_ \in E \/ UNCHANGED srq
  /\ Handling_ \in E \/ UNCHANGED handling
  /\ Scq_ \in E \/ UNCHANGED scq
  /\ \A t \in SThreads : Found_(t) \in E \/ found'[t] = found[t]
  /\ \A t \in SThreads : Swc_(t) \in E \/ swc'[t] = swc[t]
  /\ \A c \in Conns : Resps_(c) \in E \/ resps'[c] = resps[c]
  /\ \A c \in Conns : Wacks_(c) \in E \/ wacks'[c] = wacks[c]

LEMMA KeptSites ==
  ASSUME NEW E, SitesKept(E), NEW p \in SlotSites \ E
  PROVE  SlotsAt(p)' = SlotsAt(p)
<1>1. CASE p \in {Srq_, Handling_, Scq_}
  BY <1>1, SitesSame DEF SitesKept
<1>2. ASSUME NEW t \in SThreads, p \in {Found_(t), Swc_(t)} PROVE SlotsAt(p)' = SlotsAt(p)
  BY <1>2, SitesSame DEF SitesKept
<1>3. ASSUME NEW c \in Conns, p \in {Resps_(c), Wacks_(c)} PROVE SlotsAt(p)' = SlotsAt(p)
  BY <1>3, SitesSame DEF SitesKept
<1> QED
  BY <1>1, <1>2, <1>3, SiteKinds

(* A step that has no fault behind it, ends no connection, and touches the *)
(* buffers of posted slots only.                                           *)
Steady ==
  /\ fault = "none"
  /\ UNCHANGED sst
  /\ qpErr \subseteq qpErr'
  /\ \A s \in Slots \ srq : from'[s] = from[s]

(* A step that moves the slots in X from one site to another.              *)
LEMMA MoveKeeps ==
  ASSUME SlotInv, Steady,
         NEW a \in SlotSites, NEW b \in SlotSites, a # b, SitesKept({a, b}),
         NEW X, X \subseteq SlotsAt(a),
         SlotsAt(a)' = SlotsAt(a) \ X, SlotsAt(b)' = SlotsAt(b) \cup X
  PROVE  InOneSite' /\ PostedFirst' /\ LostIsGone'
<1>1. \A p \in SlotSites \ {a, b} : SlotsAt(p)' = SlotsAt(p)
  BY KeptSites
<1>2. InOneSite' /\ PostedFirst' /\ \A s : Used(s) => Used(s)'
  BY <1>1, SlotsMove DEF SlotInv, Steady
<1>3. ASSUME ~Unposted', NEW s \in Slots, ~Used(s)' PROVE Gone(s)'
  <2>1. ~Used(s) /\ ~Unposted /\ fault = "none"
    BY <1>2, <1>3 DEF Steady, Unposted
  <2>2. Gone(s)
    BY <2>1 DEF SlotInv, LostIsGone
  <2>3. s \notin srq
    BY <2>1, SlotsAtSites, SitesAre DEF Used
  <2>4. Aging /\ from'[s] = from[s]
    BY <2>3 DEF Steady, Aging
  <2> QED
    BY <2>2, <2>4, GoneStays
<1> QED
  BY <1>2, <1>3 DEF LostIsGone

(* A step that takes a slot away: it ends in a fault or the slot is gone.  *)
LEMMA DropKeeps ==
  ASSUME SlotInv, Steady,
         NEW a \in SlotSites, SitesKept({a}),
         NEW s0, SlotsAt(a)' = SlotsAt(a) \ {s0},
         fault' # "none" \/ Gone(s0)'
  PROVE  InOneSite' /\ PostedFirst' /\ LostIsGone'
<1>1. \A p \in SlotSites \ {a} : SlotsAt(p)' = SlotsAt(p)
  BY KeptSites
<1>2. InOneSite' /\ PostedFirst'
  <2>1. \A p \in SlotSites : SlotsAt(p)' \subseteq SlotsAt(p)
    BY <1>1
  <2>2. Unposted' => Unposted
    BY DEF Unposted, Steady
  <2> QED
    BY <2>1, <2>2, SlotsShrink DEF SlotInv
<1>3. ASSUME ~Unposted', NEW s \in Slots, ~Used(s)', fault' = "none" PROVE Gone(s)'
  <2>1. CASE s = s0
    BY <1>3, <2>1
  <2>2. CASE s # s0
    <3>1. ~Used(s)
      <4> SUFFICES ASSUME NEW p \in SlotSites, s \in SlotsAt(p) PROVE FALSE
        BY DEF Used
      <4>1. s \in SlotsAt(p)'
        BY <1>1, <2>2
      <4> QED
        BY <1>3, <4>1 DEF Used, SlotSites, Srq_, Handling_, Scq_, Found_, Swc_, Resps_, Wacks_
    <3>2. ~Unposted /\ fault = "none"
      BY <1>3 DEF Steady, Unposted
    <3>3. Gone(s)
      BY <3>1, <3>2 DEF SlotInv, LostIsGone
    <3>4. s \notin srq
      BY <3>1, SlotsAtSites, SitesAre DEF Used
    <3>5. Aging /\ from'[s] = from[s]
      BY <3>4 DEF Steady, Aging
    <3> QED
      BY <3>3, <3>5, GoneStays
  <2> QED
    BY <2>1, <2>2
<1> QED
  BY <1>2, <1>3 DEF LostIsGone

(* A queue of slots names slots only.                                      *)
LEMMA NamedSlots ==
  ASSUME NEW q \in Seq(Slots)
  PROVE  Named(q, Itself) \subseteq Slots
<1>1. \A i \in DOMAIN q : q[i] \in Slots
  BY ElementOfSeq, LenProperties
<1> QED
  BY <1>1 DEF Named, Itself

(* What was somewhere before a step is traced after it.                    *)
OldTraced ==
  /\ \A e \in Members(scq) : CqeTraced(e)'
  /\ \A t \in SThreads : \A e \in Members(swc[t]) : CqeTraced(e)'
  /\ \A t \in SThreads : found[t] # None =>
       /\ found[t] \in Slots /\ reqConn[found[t]] \in Conns
       /\ \A s, c : s = found[t] /\ c = reqConn[s] => Traced(s, c)'
  /\ \A s \in handling : reqConn[s] \in Conns /\ \A c : c = reqConn[s] => Traced(s, c)'
  /\ \A c \in Conns : \A s \in Named(resps[c], Itself) : Traced(s, c)'
  /\ \A c \in Conns : \A s \in Named(wacks[c], Itself) : Traced(s, c)'

LEMMA StillTraced ==
  ASSUME SlotsTyped, InOneSite, SlotsTraced, Aging, \A s \in Slots \ srq : from'[s] = from[s]
  PROVE  OldTraced
<1>1. ASSUME NEW q \in Seq(ServerCqe), TracedCq(q), Named(q, SlotOf) \cap srq = {},
             NEW e \in Members(q)
      PROVE  CqeTraced(e)'
  <2>1. e \in ServerCqe /\ SlotOf[e] \in Named(q, SlotOf)
    BY <1>1, ElementOfSeq, LenProperties, NamedMembers DEF Members
  <2>2. e.slot \in Slots /\ e.slot \notin srq
    BY <1>1, <2>1 DEF SlotOf, ServerCqe
  <2> QED
    BY <1>1, <2>1, <2>2, CqeTracedStays DEF TracedCq
<1>2. \A e \in Members(scq) : CqeTraced(e)'
  <2>1. Named(scq, SlotOf) \cap srq = {}
    BY SlotsAtSites, SitesAre, SitesDiffer DEF InOneSite
  <2> QED
    BY <1>1, <2>1 DEF SlotsTyped, SlotsTraced
<1>3. ASSUME NEW t \in SThreads PROVE \A e \in Members(swc[t]) : CqeTraced(e)'
  <2>1. Named(swc[t], SlotOf) \cap srq = {}
    BY SlotsAtSites, SitesAre, SitesDiffer DEF InOneSite
  <2> QED
    BY <1>1, <2>1 DEF SlotsTyped, SlotsTraced
<1>4. ASSUME NEW s \in Slots \ srq, NEW c, Traced(s, c) PROVE Traced(s, c)'
  BY <1>4, TracedStays
<1>5. ASSUME NEW t \in SThreads, found[t] # None
      PROVE  /\ found[t] \in Slots /\ reqConn[found[t]] \in Conns
             /\ \A s, c : s = found[t] /\ c = reqConn[s] => Traced(s, c)'
  <2>1. found[t] \in Slots /\ reqConn[found[t]] \in Conns /\ Traced(found[t], reqConn[found[t]])
    BY <1>5 DEF SlotsTyped, SlotsTraced, TracedConn
  <2>2. found[t] \in SlotsAt(Found_(t))
    BY <1>5, SlotsAtSites
  <2>3. found[t] \notin srq
    BY <2>2, SlotsAtSites, SitesAre, SitesDiffer DEF InOneSite
  <2> QED
    BY <1>4, <2>1, <2>3
<1>6. ASSUME NEW s \in handling
      PROVE  reqConn[s] \in Conns /\ \A c : c = reqConn[s] => Traced(s, c)'
  <2>1. s \in Slots /\ s \notin srq
    BY SlotsAtSites, SitesAre, SitesDiffer DEF InOneSite, SlotsTyped
  <2> QED
    BY <1>4, <2>1 DEF SlotsTraced, TracedConn
<1>7. ASSUME NEW c \in Conns, NEW s \in Named(resps[c], Itself) PROVE Traced(s, c)'
  <2>1. s \notin srq
    BY SlotsAtSites, SitesAre, SitesDiffer DEF InOneSite
  <2>2. s \in Slots
    <3>1. resps[c] \in Seq(Slots)
      BY DEF SlotsTyped
    <3> QED
      BY <3>1, NamedSlots
  <2> QED
    BY <1>4, <2>1, <2>2 DEF SlotsTraced, TracedWrites
<1>8. ASSUME NEW c \in Conns, NEW s \in Named(wacks[c], Itself) PROVE Traced(s, c)'
  <2>1. s \notin srq
    BY SlotsAtSites, SitesAre, SitesDiffer DEF InOneSite
  <2>2. s \in Slots
    <3>1. wacks[c] \in Seq(Slots)
      BY DEF SlotsTyped
    <3> QED
      BY <3>1, NamedSlots
  <2> QED
    BY <1>4, <2>1, <2>2 DEF SlotsTraced, TracedWrites
<1> QED
  BY <1>2, <1>3, <1>5, <1>6, <1>7, <1>8 DEF OldTraced

(* The traces after a step, part by part.                                  *)
LEMMA TracedParts ==
  ASSUME \A e \in Members(scq') : CqeTraced(e)',
         \A t \in SThreads : \A e \in Members(swc'[t]) : CqeTraced(e)',
         \A t \in SThreads : \A s : s = found'[t] /\ s # None =>
           \A c : c = reqConn'[s] => c \in Conns /\ Traced(s, c)',
         \A s \in handling' : \A c : c = reqConn'[s] => c \in Conns /\ Traced(s, c)',
         \A c \in Conns : \A s \in Named(resps'[c], Itself) : Traced(s, c)',
         \A c \in Conns : \A s \in Named(wacks'[c], Itself) : Traced(s, c)'
  PROVE  SlotsTraced'
<1>1. TracedCq(scq)'
  BY DEF TracedCq, Members
<1>2. \A t \in SThreads : TracedCq(swc[t])'
  BY DEF TracedCq, Members
<1>3. \A t \in SThreads : (found[t] # None => TracedConn(found[t]))'
  BY DEF TracedConn, Traced
<1>4. \A s \in handling' : TracedConn(s)'
  BY DEF TracedConn, Traced
<1>5. \A c \in Conns : TracedWrites(resps[c], c)' /\ TracedWrites(wacks[c], c)'
  BY DEF TracedWrites, Named, Itself
<1> QED
  BY <1>1, <1>2, <1>3, <1>4, <1>5 DEF SlotsTraced

LEMMA QueuedParts ==
  ASSUME NamedOnce(scq', SlotOf),
         \A t \in SThreads : NamedOnce(swc'[t], SlotOf),
         \A c \in Conns : NamedOnce(resps'[c], Itself) /\ NamedOnce(wacks'[c], Itself)
  PROVE  QueuedOnce'
BY DEF QueuedOnce, NamedOnce, SlotOf, Itself

LEMMA SlotInvParts ==
  ASSUME SlotsTyped', InOneSite' /\ PostedFirst' /\ LostIsGone', QueuedOnce', SlotsTraced'
  PROVE  SlotInv'
BY DEF SlotInv

LEMMA SteadyAges == ASSUME Steady PROVE Aging
BY DEF Steady, Aging

LEMMA SteadyTraced == ASSUME SlotInv, Steady PROVE OldTraced
BY SteadyAges, StillTraced DEF SlotInv, Steady

LEMMA SlotOfCqe ==
  ASSUME NEW e \in ServerCqe
  PROVE  SlotOf[e] = e.slot /\ e.slot \in Slots /\ e.conn \in Conns
BY DEF SlotOf, ServerCqe

-----------------------------------------------------------------------------
(* The steps.                                                              *)

(* A request arrives: its slot is not posted any more.                     *)
LEMMA DeliverReqSlots ==
  ASSUME SlotInv, TableInv, fault = "none", NEW c \in Conns, DeliverReq(c)
  PROVE  SlotInv'
<1>1. PICK s \in srq :
        /\ srq'  = srq \ {s}
        /\ from' = [from EXCEPT ![s] = c]
        /\ scq'  = Append(scq, [op |-> "recv", conn |-> c, slot |-> s])
  BY DEF DeliverReq
<1> DEFINE e == [op |-> "recv", conn |-> c, slot |-> s]
<1>2. /\ UNCHANGED <<resps, wacks, sst, qpErr, reqConn, found, handling, swc>>
      /\ sst[c] = "live"
  BY DEF DeliverReq, respVars, connVars
<1>3. s \in Slots /\ e \in ServerCqe /\ SlotOf[e] = s /\ e.op = "recv" /\ e.conn = c /\ e.slot = s
  BY <1>1 DEF SlotInv, SlotsTyped, ServerCqe, SlotOf
<1>4. scq' = Append(scq, e)
  BY <1>1
<1> HIDE DEF e
<1>5. s \notin Named(scq, SlotOf)
  BY <1>1, SlotsAtSites, SitesAre, SitesDiffer DEF SlotInv, InOneSite
<1>6. /\ scq' \in Seq(ServerCqe) /\ Members(scq') = Members(scq) \cup {e}
      /\ Named(scq', SlotOf) = Named(scq, SlotOf) \cup {s}
      /\ NamedOnce(scq', SlotOf)
  BY <1>3, <1>4, <1>5, NamedAppend DEF SlotInv, SlotsTyped, QueuedOnce
<1>7. SlotsTyped'
  BY <1>1, <1>2, <1>3, <1>6 DEF SlotInv, SlotsTyped
<1>8. Steady /\ Aging
  <2>1. \A u \in Slots \ srq : from'[u] = from[u]
    BY <1>1 DEF SlotInv, SlotsTyped
  <2> QED
    BY <1>2, <2>1, SteadyAges DEF Steady
<1>9. InOneSite' /\ PostedFirst' /\ LostIsGone'
  <2>1. SitesKept({Srq_, Scq_})
    BY <1>2 DEF SitesKept
  <2>2. SlotsAt(Srq_)' = SlotsAt(Srq_) \ {s} /\ SlotsAt(Scq_)' = SlotsAt(Scq_) \cup {s}
    BY <1>1, <1>6, SlotsAtSites, SlotsAtSitesNext
  <2>3. {s} \subseteq SlotsAt(Srq_)
    BY <1>1, SlotsAtSites
  <2> QED
    BY <1>8, <2>1, <2>2, <2>3, MoveKeeps, SitesAre, SitesDiffer
<1>10. QueuedOnce'
  BY <1>2, <1>6, QueuedParts DEF SlotInv, QueuedOnce
<1>11. CqeTraced(e)'
  <2>1. from'[s] = c
    BY <1>1, <1>3 DEF SlotInv, SlotsTyped
  <2> QED
    BY <1>2, <1>3, <2>1 DEF CqeTraced
<1>12. SlotsTraced'
  <2>1. OldTraced
    BY <1>8, SteadyTraced
  <2> QED
    BY <1>2, <1>6, <1>11, <2>1, TracedParts DEF OldTraced
<1> QED
  BY <1>7, <1>9, <1>10, <1>12, SlotInvParts

(* A response arrives and waits for its acknowledgement.                   *)
LEMMA DeliverRespSlots ==
  ASSUME SlotInv, fault = "none", NEW c \in Conns, DeliverResp(c)
  PROVE  SlotInv'
<1> DEFINE s == Head(resps[c])
<1>1. /\ resps[c] # <<>>
      /\ resps' = [resps EXCEPT ![c] = Tail(@)]
      /\ wacks' = [wacks EXCEPT ![c] = Append(@, s)]
      /\ UNCHANGED <<srq, from, scq, sst, qpErr, reqConn, found, handling, swc>>
  BY DEF DeliverResp, serverVars, connVars, slotVars
<1>2. /\ resps \in [Conns -> Seq(Slots)] /\ wacks \in [Conns -> Seq(Slots)]
      /\ NamedOnce(resps[c], Itself) /\ NamedOnce(wacks[c], Itself)
  BY DEF SlotInv, SlotsTyped, QueuedOnce
<1>3. /\ resps'[c] = Tail(resps[c]) /\ wacks'[c] = Append(wacks[c], s)
      /\ \A d \in Conns \ {c} : resps'[d] = resps[d] /\ wacks'[d] = wacks[d]
  BY <1>1, <1>2
<1>4. s \in Slots
  BY <1>1, <1>2, HeadTailProperties
<1>5. Itself[s] = s
  BY <1>4 DEF Itself
<1> HIDE DEF s
<1>6. /\ Tail(resps[c]) \in Seq(Slots) /\ NamedOnce(Tail(resps[c]), Itself)
      /\ Named(resps[c], Itself) = Named(Tail(resps[c]), Itself) \cup {s}
      /\ s \notin Named(Tail(resps[c]), Itself)
  BY <1>1, <1>2, <1>5, NamedTail DEF s
<1>7. s \notin Named(wacks[c], Itself)
  BY <1>6, SlotsAtSites, SitesAre, SitesDiffer DEF SlotInv, InOneSite
<1>8. /\ Append(wacks[c], s) \in Seq(Slots) /\ NamedOnce(Append(wacks[c], s), Itself)
      /\ Named(Append(wacks[c], s), Itself) = Named(wacks[c], Itself) \cup {s}
  BY <1>2, <1>4, <1>5, <1>7, NamedAppend
<1>9. SlotsTyped'
  <2>1. resps' \in [Conns -> Seq(Slots)] /\ wacks' \in [Conns -> Seq(Slots)]
    BY <1>1, <1>2, <1>6, <1>8
  <2> QED
    BY <1>1, <2>1 DEF SlotInv, SlotsTyped
<1>10. Steady /\ Aging
  BY <1>1, SteadyAges DEF Steady
<1>11. InOneSite' /\ PostedFirst' /\ LostIsGone'
  <2>1. SitesKept({Resps_(c), Wacks_(c)})
    BY <1>1, <1>3 DEF SitesKept
  <2>2. /\ SlotsAt(Resps_(c)) = Named(resps[c], Itself)
        /\ SlotsAt(Wacks_(c)) = Named(wacks[c], Itself)
    BY SlotsAtSites
  <2>4. /\ SlotsAt(Resps_(c))' = Named(Tail(resps[c]), Itself)
        /\ SlotsAt(Wacks_(c))' = Named(Append(wacks[c], s), Itself)
    BY <1>3, SlotsAtSitesNext
  <2>5. /\ SlotsAt(Resps_(c))' = SlotsAt(Resps_(c)) \ {s}
        /\ SlotsAt(Wacks_(c))' = SlotsAt(Wacks_(c)) \cup {s}
    BY <1>6, <1>8, <2>2, <2>4
  <2>3. {s} \subseteq SlotsAt(Resps_(c))
    BY <1>6, SlotsAtSites
  <2> QED
    BY <1>10, <2>1, <2>5, <2>3, MoveKeeps, SitesAre, SitesDiffer
<1>12. QueuedOnce'
  <2>1. \A d \in Conns : NamedOnce(resps'[d], Itself) /\ NamedOnce(wacks'[d], Itself)
    BY <1>3, <1>6, <1>8 DEF SlotInv, QueuedOnce
  <2> QED
    BY <1>1, <2>1, QueuedParts DEF SlotInv, QueuedOnce
<1>13. SlotsTraced'
  <2>1. OldTraced
    BY <1>10, SteadyTraced
  <2>2. \A d \in Conns : \A u \in Named(resps'[d], Itself) : Traced(u, d)'
    BY <1>3, <1>6, <2>1 DEF OldTraced
  <2>3. \A d \in Conns : \A u \in Named(wacks'[d], Itself) : Traced(u, d)'
    BY <1>3, <1>6, <1>8, <2>1 DEF OldTraced
  <2> QED
    BY <1>1, <2>1, <2>2, <2>3, TracedParts DEF OldTraced
<1> QED
  BY <1>9, <1>11, <1>12, <1>13, SlotInvParts

(* A response is acknowledged: its completion names the slot.               *)
LEMMA AckWriteSlots ==
  ASSUME SlotInv, fault = "none", NEW c \in Conns, AckWrite(c)
  PROVE  SlotInv'
<1>a. PICK s : s = Head(wacks[c])
  OBVIOUS
<1>b. PICK e : e = [op |-> "write", conn |-> c, slot |-> s]
  OBVIOUS
<1>1. /\ wacks[c] # <<>>
      /\ wacks' = [wacks EXCEPT ![c] = Tail(@)]
      /\ scq' = Append(scq, e)
      /\ UNCHANGED <<resps, srq, from, sst, qpErr, reqConn, found, handling, swc>>
  BY <1>a, <1>b DEF AckWrite, clientSide, qpVars, connVars, slotVars
<1>2. /\ wacks \in [Conns -> Seq(Slots)] /\ NamedOnce(wacks[c], Itself)
      /\ scq \in Seq(ServerCqe) /\ NamedOnce(scq, SlotOf)
  BY DEF SlotInv, SlotsTyped, QueuedOnce
<1>3. wacks'[c] = Tail(wacks[c]) /\ \A d \in Conns \ {c} : wacks'[d] = wacks[d]
  BY <1>1, <1>2
<1>4. s \in Slots
  BY <1>a, <1>1, <1>2, HeadTailProperties
<1>5. /\ Itself[s] = s /\ e \in ServerCqe /\ SlotOf[e] = s
      /\ e.op = "write" /\ e.conn = c /\ e.slot = s
  BY <1>b, <1>4 DEF Itself, ServerCqe, SlotOf
<1>6. /\ Tail(wacks[c]) \in Seq(Slots) /\ NamedOnce(Tail(wacks[c]), Itself)
      /\ Named(wacks[c], Itself) = Named(Tail(wacks[c]), Itself) \cup {s}
      /\ s \notin Named(Tail(wacks[c]), Itself)
  BY <1>a, <1>1, <1>2, <1>5, NamedTail
<1>7. s \notin Named(scq, SlotOf)
  BY <1>6, SlotsAtSites, SitesAre, SitesDiffer DEF SlotInv, InOneSite
<1>8. /\ scq' \in Seq(ServerCqe) /\ NamedOnce(scq', SlotOf)
      /\ Members(scq') = Members(scq) \cup {e}
      /\ Named(scq', SlotOf) = Named(scq, SlotOf) \cup {s}
  BY <1>1, <1>2, <1>5, <1>7, NamedAppend
<1>9. SlotsTyped'
  <2>1. wacks' \in [Conns -> Seq(Slots)]
    BY <1>1, <1>2, <1>6
  <2> QED
    BY <1>1, <1>8, <2>1 DEF SlotInv, SlotsTyped
<1>10. Steady
  BY <1>1 DEF Steady
<1>11. InOneSite' /\ PostedFirst' /\ LostIsGone'
  <2>1. SitesKept({Wacks_(c), Scq_})
    BY <1>1, <1>3 DEF SitesKept
  <2>2. SlotsAt(Wacks_(c)) = Named(wacks[c], Itself) /\ SlotsAt(Scq_) = Named(scq, SlotOf)
    BY SlotsAtSites
  <2>3. /\ SlotsAt(Wacks_(c))' = Named(Tail(wacks[c]), Itself)
        /\ SlotsAt(Scq_)' = Named(scq', SlotOf)
    BY <1>3, SlotsAtSitesNext
  <2>4. /\ SlotsAt(Wacks_(c))' = SlotsAt(Wacks_(c)) \ {s}
        /\ SlotsAt(Scq_)' = SlotsAt(Scq_) \cup {s}
        /\ {s} \subseteq SlotsAt(Wacks_(c))
    BY <1>6, <1>8, <2>2, <2>3
  <2> QED
    BY <1>10, <2>1, <2>4, MoveKeeps, SitesAre, SitesDiffer
<1>12. QueuedOnce'
  <2>1. \A d \in Conns : NamedOnce(wacks'[d], Itself)
    BY <1>3, <1>6 DEF SlotInv, QueuedOnce
  <2> QED
    BY <1>1, <1>8, <2>1, QueuedParts DEF SlotInv, QueuedOnce
<1>13. SlotsTraced'
  <2>1. OldTraced
    BY <1>10, SteadyTraced
  <2>2. \A d \in Conns : \A u \in Named(wacks'[d], Itself) : Traced(u, d)'
    BY <1>3, <1>6, <2>1 DEF OldTraced
  <2>3. CqeTraced(e)'
    <3>1. s \in Named(wacks[c], Itself)
      BY <1>6
    <3>2. Traced(s, c)'
      BY <2>1, <3>1 DEF OldTraced
    <3> QED
      BY <1>1, <1>5, <3>2 DEF CqeTraced, Traced
  <2> QED
    BY <1>1, <1>8, <2>1, <2>2, <2>3, TracedParts DEF OldTraced
<1> QED
  BY <1>9, <1>11, <1>12, <1>13, SlotInvParts

(* A response that cannot be delivered completes with an error.             *)
LEMMA WriteErrorSlots ==
  ASSUME SlotInv, fault = "none", NEW c \in Conns, WriteError(c)
  PROVE  SlotInv'
<1>a. PICK s : s = Head(resps[c])
  OBVIOUS
<1>b. PICK e : e = [op |-> "error", conn |-> c, slot |-> s]
  OBVIOUS
<1>1. /\ resps[c] # <<>>
      /\ resps' = [resps EXCEPT ![c] = Tail(@)]
      /\ scq' = Append(scq, e)
      /\ UNCHANGED <<wacks, srq, from, sst, qpErr, reqConn, found, handling, swc>>
  BY <1>a, <1>b DEF WriteError, clientSide, qpVars, connVars, slotVars
<1>2. /\ resps \in [Conns -> Seq(Slots)] /\ NamedOnce(resps[c], Itself)
      /\ scq \in Seq(ServerCqe) /\ NamedOnce(scq, SlotOf)
  BY DEF SlotInv, SlotsTyped, QueuedOnce
<1>3. resps'[c] = Tail(resps[c]) /\ \A d \in Conns \ {c} : resps'[d] = resps[d]
  BY <1>1, <1>2
<1>4. s \in Slots
  BY <1>a, <1>1, <1>2, HeadTailProperties
<1>5. /\ Itself[s] = s /\ e \in ServerCqe /\ SlotOf[e] = s
      /\ e.op = "error" /\ e.conn = c /\ e.slot = s
  BY <1>b, <1>4 DEF Itself, ServerCqe, SlotOf
<1>6. /\ Tail(resps[c]) \in Seq(Slots) /\ NamedOnce(Tail(resps[c]), Itself)
      /\ Named(resps[c], Itself) = Named(Tail(resps[c]), Itself) \cup {s}
      /\ s \notin Named(Tail(resps[c]), Itself)
  BY <1>a, <1>1, <1>2, <1>5, NamedTail
<1>7. s \notin Named(scq, SlotOf)
  BY <1>6, SlotsAtSites, SitesAre, SitesDiffer DEF SlotInv, InOneSite
<1>8. /\ scq' \in Seq(ServerCqe) /\ NamedOnce(scq', SlotOf)
      /\ Members(scq') = Members(scq) \cup {e}
      /\ Named(scq', SlotOf) = Named(scq, SlotOf) \cup {s}
  BY <1>1, <1>2, <1>5, <1>7, NamedAppend
<1>9. SlotsTyped'
  <2>1. resps' \in [Conns -> Seq(Slots)]
    BY <1>1, <1>2, <1>6
  <2> QED
    BY <1>1, <1>8, <2>1 DEF SlotInv, SlotsTyped
<1>10. Steady
  BY <1>1 DEF Steady
<1>11. InOneSite' /\ PostedFirst' /\ LostIsGone'
  <2>1. SitesKept({Resps_(c), Scq_})
    BY <1>1, <1>3 DEF SitesKept
  <2>2. SlotsAt(Resps_(c)) = Named(resps[c], Itself) /\ SlotsAt(Scq_) = Named(scq, SlotOf)
    BY SlotsAtSites
  <2>3. /\ SlotsAt(Resps_(c))' = Named(Tail(resps[c]), Itself)
        /\ SlotsAt(Scq_)' = Named(scq', SlotOf)
    BY <1>3, SlotsAtSitesNext
  <2>4. /\ SlotsAt(Resps_(c))' = SlotsAt(Resps_(c)) \ {s}
        /\ SlotsAt(Scq_)' = SlotsAt(Scq_) \cup {s}
        /\ {s} \subseteq SlotsAt(Resps_(c))
    BY <1>6, <1>8, <2>2, <2>3
  <2> QED
    BY <1>10, <2>1, <2>4, MoveKeeps, SitesAre, SitesDiffer
<1>12. QueuedOnce'
  <2>1. \A d \in Conns : NamedOnce(resps'[d], Itself)
    BY <1>3, <1>6 DEF SlotInv, QueuedOnce
  <2> QED
    BY <1>1, <1>8, <2>1, QueuedParts DEF SlotInv, QueuedOnce
<1>13. SlotsTraced'
  <2>1. OldTraced
    BY <1>10, SteadyTraced
  <2>2. \A d \in Conns : \A u \in Named(resps'[d], Itself) : Traced(u, d)'
    BY <1>3, <1>6, <2>1 DEF OldTraced
  <2>3. CqeTraced(e)'
    <3>1. s \in Named(resps[c], Itself)
      BY <1>6
    <3>2. Traced(s, c)'
      BY <2>1, <3>1 DEF OldTraced
    <3>3. c \in qpErr
      BY DEF WriteError
    <3> QED
      BY <1>1, <1>5, <3>2, <3>3 DEF CqeTraced, Traced
  <2> QED
    BY <1>1, <1>8, <2>1, <2>2, <2>3, TracedParts DEF OldTraced
<1> QED
  BY <1>9, <1>11, <1>12, <1>13, SlotInvParts

(* A thread takes all completions of the queue into its array.             *)
LEMMA ServerPollSlots ==
  ASSUME SlotInv, fault = "none", NEW t \in SThreads, ServerPoll(t)
  PROVE  SlotInv'
<1>1. /\ swc[t] = <<>> /\ scq' = <<>>
      /\ swc' = [swc EXCEPT ![t] = scq]
      /\ UNCHANGED <<resps, wacks, srq, from, sst, qpErr, reqConn, found, handling>>
  BY DEF ServerPoll, SArrayDone, clientSide, qpVars, respVars, connVars
<1>2. /\ scq \in Seq(ServerCqe) /\ NamedOnce(scq, SlotOf)
      /\ swc \in [SThreads -> Seq(ServerCqe)]
  BY DEF SlotInv, SlotsTyped, QueuedOnce
<1>3. swc'[t] = scq /\ \A u \in SThreads \ {t} : swc'[u] = swc[u]
  BY <1>1, <1>2
<1>4. SlotsTyped'
  <2>1. scq' \in Seq(ServerCqe) /\ swc' \in [SThreads -> Seq(ServerCqe)]
    BY <1>1, <1>2, EmptySeq
  <2> QED
    BY <1>1, <2>1 DEF SlotInv, SlotsTyped
<1>5. Steady
  BY <1>1 DEF Steady
<1>6. /\ Named(scq', SlotOf) = {} /\ NamedOnce(scq', SlotOf) /\ Members(scq') = {}
      /\ Named(swc[t], SlotOf) = {}
  BY <1>1, NamedEmpty
<1>7. InOneSite' /\ PostedFirst' /\ LostIsGone'
  <2> DEFINE X == Named(scq, SlotOf)
  <2>1. SitesKept({Scq_, Swc_(t)})
    BY <1>1, <1>3 DEF SitesKept
  <2>2. SlotsAt(Scq_) = X /\ SlotsAt(Swc_(t)) = {}
    BY <1>6, SlotsAtSites
  <2>3. SlotsAt(Scq_)' = {} /\ SlotsAt(Swc_(t))' = X
    BY <1>3, <1>6, SlotsAtSitesNext
  <2> HIDE DEF X
  <2>4. /\ SlotsAt(Scq_)' = SlotsAt(Scq_) \ X
        /\ SlotsAt(Swc_(t))' = SlotsAt(Swc_(t)) \cup X
        /\ X \subseteq SlotsAt(Scq_)
    BY <2>2, <2>3
  <2> QED
    BY <1>5, <2>1, <2>4, MoveKeeps, SitesAre, SitesDiffer
<1>8. QueuedOnce'
  <2>1. \A u \in SThreads : NamedOnce(swc'[u], SlotOf)
    BY <1>2, <1>3 DEF SlotInv, QueuedOnce
  <2> QED
    BY <1>1, <1>6, <2>1, QueuedParts DEF SlotInv, QueuedOnce
<1>9. SlotsTraced'
  <2>1. OldTraced
    BY <1>5, SteadyTraced
  <2>2. \A u \in SThreads : \A x \in Members(swc'[u]) : CqeTraced(x)'
    BY <1>3, <2>1 DEF OldTraced
  <2> QED
    BY <1>1, <1>6, <2>1, <2>2, TracedParts DEF OldTraced
<1> QED
  BY <1>4, <1>7, <1>8, <1>9, SlotInvParts

(* The completion a thread processes, and the others in its array.         *)
LEMMA ServerHead ==
  ASSUME SlotInv, NEW t \in SThreads, swc[t] # <<>>,
         swc' = [swc EXCEPT ![t] = Tail(@)]
  PROVE  LET e == Head(swc[t]) IN
         /\ e \in ServerCqe /\ e \in Members(swc[t])
         /\ swc' \in [SThreads -> Seq(ServerCqe)]
         /\ \A u \in SThreads \ {t} : swc'[u] = swc[u]
         /\ \A u \in SThreads : NamedOnce(swc'[u], SlotOf) /\ Members(swc'[u]) \subseteq Members(swc[u])
         /\ e.slot \in SlotsAt(Swc_(t)) /\ SlotsAt(Swc_(t))' = SlotsAt(Swc_(t)) \ {e.slot}
<1> DEFINE e == Head(swc[t])
<1>1. /\ swc \in [SThreads -> Seq(ServerCqe)] /\ NamedOnce(swc[t], SlotOf)
      /\ \A u \in SThreads : NamedOnce(swc[u], SlotOf)
  BY DEF SlotInv, SlotsTyped, QueuedOnce
<1>2. swc'[t] = Tail(swc[t]) /\ \A u \in SThreads \ {t} : swc'[u] = swc[u]
  BY <1>1
<1>3. e \in ServerCqe
  BY <1>1, HeadTailProperties
<1>4. SlotOf[e] = e.slot
  BY <1>3, SlotOfCqe
<1> HIDE DEF e
<1>5. /\ Tail(swc[t]) \in Seq(ServerCqe) /\ NamedOnce(Tail(swc[t]), SlotOf)
      /\ e \in Members(swc[t]) /\ Members(Tail(swc[t])) \subseteq Members(swc[t])
      /\ Named(swc[t], SlotOf) = Named(Tail(swc[t]), SlotOf) \cup {e.slot}
      /\ e.slot \notin Named(Tail(swc[t]), SlotOf)
  BY <1>1, <1>4, NamedTail DEF e
<1>6. swc' \in [SThreads -> Seq(ServerCqe)]
  BY <1>1, <1>5
<1>7. \A u \in SThreads : NamedOnce(swc'[u], SlotOf) /\ Members(swc'[u]) \subseteq Members(swc[u])
  BY <1>1, <1>2, <1>5
<1>8. SlotsAt(Swc_(t)) = Named(swc[t], SlotOf)
  BY SlotsAtSites
<1>9. SlotsAt(Swc_(t))' = Named(Tail(swc[t]), SlotOf)
  BY <1>2, SlotsAtSitesNext
<1>10. e.slot \in SlotsAt(Swc_(t)) /\ SlotsAt(Swc_(t))' = SlotsAt(Swc_(t)) \ {e.slot}
  BY <1>5, <1>8, <1>9
<1> QED
  BY <1>2, <1>3, <1>5, <1>6, <1>7, <1>10 DEF e

(* A completed response frees its slot, or the process has died, or the    *)
(* slot was left by an error.                                              *)
LEMMA RepostSlots ==
  ASSUME SlotInv, fault = "none", NEW t \in SThreads,
         OnWriteRespDone(t) \/ OnServerError(t)
  PROVE  SlotInv'
<1>a. PICK e : e = Head(swc[t])
  OBVIOUS
<1>b. PICK s : s = e.slot
  OBVIOUS
<1>1. /\ swc[t] # <<>> /\ swc' = [swc EXCEPT ![t] = Tail(@)]
      /\ UNCHANGED <<resps, wacks, from, sst, qpErr, reqConn, found, handling, scq>>
      /\ \/ srq' = srq \cup {s}
         \/ srq' = srq /\ (fault' # "none" \/ e.op = "error")
  BY <1>a, <1>b DEF OnWriteRespDone, OnServerError, AtServerCqe, Repost, clientSide, qpVars, respVars, connVars
<1>2. /\ e \in ServerCqe /\ e \in Members(swc[t])
      /\ swc' \in [SThreads -> Seq(ServerCqe)]
      /\ \A u \in SThreads \ {t} : swc'[u] = swc[u]
      /\ \A u \in SThreads : NamedOnce(swc'[u], SlotOf) /\ Members(swc'[u]) \subseteq Members(swc[u])
      /\ s \in SlotsAt(Swc_(t)) /\ SlotsAt(Swc_(t))' = SlotsAt(Swc_(t)) \ {s}
  BY <1>a, <1>b, <1>1, ServerHead
<1>3. s \in Slots
  BY <1>b, <1>2, SlotOfCqe
<1>4. Steady
  BY <1>1 DEF Steady
<1>5. OldTraced
  BY <1>4, SteadyTraced
<1>6. e.op = "error" => Gone(s)'
  <2>1. CqeTraced(e)'
    BY <1>2, <1>5 DEF OldTraced
  <2> QED
    BY <1>b, <2>1 DEF CqeTraced, Traced, Gone
<1>7. SlotsTyped'
  BY <1>1, <1>2, <1>3 DEF SlotInv, SlotsTyped
<1>8. InOneSite' /\ PostedFirst' /\ LostIsGone'
  <2>1. CASE srq' = srq \cup {s}
    <3>1. SitesKept({Swc_(t), Srq_})
      BY <1>1, <1>2 DEF SitesKept
    <3>2. SlotsAt(Srq_) = srq /\ SlotsAt(Srq_)' = srq'
      BY SlotsAtSites, SlotsAtSitesNext
    <3>3. SlotsAt(Srq_)' = SlotsAt(Srq_) \cup {s} /\ {s} \subseteq SlotsAt(Swc_(t))
      BY <1>2, <2>1, <3>2
    <3> QED
      BY <1>2, <1>4, <3>1, <3>3, MoveKeeps, SitesAre, SitesDiffer
  <2>2. CASE srq' = srq /\ (fault' # "none" \/ e.op = "error")
    <3>1. SitesKept({Swc_(t)})
      BY <1>1, <1>2, <2>2 DEF SitesKept
    <3> QED
      BY <1>2, <1>4, <1>6, <2>2, <3>1, DropKeeps, SitesAre
  <2> QED
    BY <1>1, <2>1, <2>2
<1>9. QueuedOnce'
  BY <1>1, <1>2, QueuedParts DEF SlotInv, QueuedOnce
<1>10. SlotsTraced'
  <2>1. \A u \in SThreads : \A x \in Members(swc'[u]) : CqeTraced(x)'
    BY <1>2, <1>5 DEF OldTraced
  <2> QED
    BY <1>1, <1>5, <2>1, TracedParts DEF OldTraced
<1> QED
  BY <1>7, <1>8, <1>9, <1>10, SlotInvParts

(* A number found in the table names the connection of the request, or     *)
(* that connection has been freed and its number given away.               *)
LEMMA FoundByNumber ==
  ASSUME TableInv, NEW c \in Conns, sst[c] # "none", NEW d \in InTable(qpn[c])
  PROVE  d \in Conns /\ (d = c \/ sst[c] = "freed")
<1>1. d \in Live /\ qpn[d] = qpn[c]
  BY DEF InTable, TableInv
<1>2. c \in Live \/ sst[c] = "freed"
  BY DEF Live, TableInv, ServerTyped
<1> QED
  BY <1>1, <1>2 DEF TableInv, Live

(* A received request is looked up by the number of its queue pair.        *)
LEMMA FindConnSlots ==
  ASSUME SlotInv, TableInv, fault = "none", NEW t \in SThreads, FindConn(t)
  PROVE  SlotInv'
<1>a. PICK e : e = Head(swc[t])
  OBVIOUS
<1>b. PICK s : s = e.slot
  OBVIOUS
<1>1. /\ found[t] = None /\ swc[t] # <<>> /\ e.op = "recv"
      /\ swc' = [swc EXCEPT ![t] = Tail(@)]
      /\ UNCHANGED <<resps, wacks, srq, from, sst, qpErr, handling, scq>>
      /\ \/ /\ reqConn' = [reqConn EXCEPT ![s] = None]
            /\ fault' # "none" /\ UNCHANGED found
         \/ /\ \E d \in InTable(qpn[e.conn]) : reqConn' = [reqConn EXCEPT ![s] = d]
            /\ found' = [found EXCEPT ![t] = s]
  BY <1>a, <1>b DEF FindConn, AtServerCqe, clientSide, qpVars, respVars, connVars
<1>2. /\ e \in ServerCqe /\ e \in Members(swc[t])
      /\ swc' \in [SThreads -> Seq(ServerCqe)]
      /\ \A u \in SThreads \ {t} : swc'[u] = swc[u]
      /\ \A u \in SThreads : NamedOnce(swc'[u], SlotOf) /\ Members(swc'[u]) \subseteq Members(swc[u])
      /\ s \in SlotsAt(Swc_(t)) /\ SlotsAt(Swc_(t))' = SlotsAt(Swc_(t)) \ {s}
  BY <1>a, <1>b, <1>1, ServerHead
<1>3. s \in Slots /\ s # None /\ e.conn \in Conns
  BY <1>b, <1>2, SlotOfCqe, ConnAssumption DEF ConnAssumption
<1>4. Steady
  BY <1>1 DEF Steady
<1>5. OldTraced
  BY <1>4, SteadyTraced
<1>6. from[s] = e.conn /\ sst[e.conn] # "none"
  BY <1>b, <1>1, <1>2 DEF SlotInv, SlotsTraced, TracedCq, CqeTraced
<1>7. /\ reqConn \in [Slots -> Conns \cup {None}] /\ from \in [Slots -> Conns \cup {None}]
      /\ found \in [SThreads -> Slots \cup {None}]
  BY DEF SlotInv, SlotsTyped
<1>8. QueuedOnce'
  BY <1>1, <1>2, QueuedParts DEF SlotInv, QueuedOnce
<1>9. /\ s \notin handling
      /\ \A u \in SThreads : found[u] # s
  <2>1. \A p \in SlotSites : p # Swc_(t) => s \notin SlotsAt(p)
    BY <1>2, SitesAre DEF SlotInv, InOneSite
  <2>2. s \notin SlotsAt(Handling_) /\ \A u \in SThreads : s \notin SlotsAt(Found_(u))
    BY <2>1, SitesAre, SitesDiffer
  <2> QED
    BY <1>3, <2>2, SlotsAtSites
<1>10. \A u \in Slots : u # s => reqConn'[u] = reqConn[u]
  BY <1>1, <1>7
<1>11. \A u \in SThreads : \A x \in Members(swc'[u]) : CqeTraced(x)'
  BY <1>2, <1>5 DEF OldTraced
<1>12. \A u \in handling' : \A d : d = reqConn'[u] => d \in Conns /\ Traced(u, d)'
  <2> SUFFICES ASSUME NEW u \in handling
               PROVE  reqConn'[u] \in Conns /\ \A d : d = reqConn'[u] => Traced(u, d)'
    BY <1>1
  <2>1. u \in Slots /\ u # s
    BY <1>9 DEF SlotInv, SlotsTyped
  <2> QED
    BY <1>5, <1>10, <2>1 DEF OldTraced
<1>13. ASSUME NEW v \in SThreads, found[v] # None
       PROVE  /\ found[v] \in Slots /\ reqConn'[found[v]] \in Conns
              /\ \A u, d : u = found[v] /\ d = reqConn'[u] => Traced(u, d)'
  <2>1. found[v] \in Slots /\ found[v] # s
    BY <1>7, <1>9, <1>13
  <2>2. reqConn'[found[v]] = reqConn[found[v]]
    BY <1>10, <2>1
  <2> QED
    BY <1>5, <1>13, <2>1, <2>2 DEF OldTraced
<1>14. CASE /\ reqConn' = [reqConn EXCEPT ![s] = None]
            /\ fault' # "none" /\ UNCHANGED found
  <2>1. SlotsTyped'
    BY <1>1, <1>2, <1>3, <1>7, <1>14 DEF SlotInv, SlotsTyped
  <2>2. SitesKept({Swc_(t)})
    BY <1>1, <1>2, <1>14 DEF SitesKept
  <2>3. InOneSite' /\ PostedFirst' /\ LostIsGone'
    BY <1>2, <1>4, <1>14, <2>2, DropKeeps, SitesAre
  <2>4. \A v \in SThreads : \A u : u = found'[v] /\ u # None =>
          \A d : d = reqConn'[u] => d \in Conns /\ Traced(u, d)'
    BY <1>13, <1>14
  <2>5. SlotsTraced'
    BY <1>1, <1>5, <1>11, <1>12, <2>4, TracedParts DEF OldTraced
  <2> QED
    BY <1>8, <2>1, <2>3, <2>5, SlotInvParts
<1>15. ASSUME NEW d0 \in InTable(qpn[e.conn]), reqConn' = [reqConn EXCEPT ![s] = d0],
              found' = [found EXCEPT ![t] = s]
       PROVE  SlotInv'
  <2>1. d0 \in Conns /\ (d0 = e.conn \/ sst[e.conn] = "freed")
    BY <1>3, <1>6, FoundByNumber
  <2>2. /\ reqConn'[s] = d0 /\ found'[t] = s
        /\ \A u \in SThreads \ {t} : found'[u] = found[u]
    BY <1>3, <1>7, <1>15
  <2>3. SlotsTyped'
    BY <1>1, <1>2, <1>3, <1>7, <1>15, <2>1 DEF SlotInv, SlotsTyped
  <2>4. SitesKept({Swc_(t), Found_(t)})
    BY <1>1, <1>2, <2>2 DEF SitesKept
  <2>5. SlotsAt(Found_(t)) = {found[t]} \ {None}
    BY SlotsAtSites
  <2>6. SlotsAt(Found_(t))' = {found'[t]} \ {None}
    BY SlotsAtSitesNext
  <2>7. SlotsAt(Found_(t))' = SlotsAt(Found_(t)) \cup {s} /\ {s} \subseteq SlotsAt(Swc_(t))
    BY <1>1, <1>2, <1>3, <2>2, <2>5, <2>6
  <2>8. InOneSite' /\ PostedFirst' /\ LostIsGone'
    BY <1>2, <1>4, <2>4, <2>7, MoveKeeps, SitesAre, SitesDiffer
  <2>9. Traced(s, d0)'
    BY <1>1, <1>3, <1>6, <2>1 DEF Traced
  <2>10. \A v \in SThreads : \A u : u = found'[v] /\ u # None =>
           \A d : d = reqConn'[u] => d \in Conns /\ Traced(u, d)'
    BY <1>13, <2>1, <2>2, <2>9
  <2>11. SlotsTraced'
    BY <1>1, <1>5, <1>11, <1>12, <2>10, TracedParts DEF OldTraced
  <2> QED
    BY <1>8, <2>3, <2>8, <2>11, SlotInvParts
<1> QED
  BY <1>1, <1>14, <1>15

(* A response is sent on the connection in the slot, or the process dies   *)
(* of the read of a freed one.                                             *)
LEMMA RespondSlots ==
  ASSUME SlotInv, fault = "none", NEW s \in Slots, TracedConn(s), Respond(s),
         NEW a \in SlotSites, \A c \in Conns : a # Resps_(c),
         s \in SlotsAt(a), SlotsAt(a)' = SlotsAt(a) \ {s},
         SitesKept({a} \cup {Resps_(c) : c \in Conns}),
         UNCHANGED <<wacks, srq, from, sst, qpErr, reqConn, scq, swc>>,
         handling' \subseteq handling,
         found' \in [SThreads -> Slots \cup {None}],
         \A t \in SThreads : found'[t] \in {found[t], None}
  PROVE  SlotInv'
<1>a. PICK c : c = reqConn[s]
  OBVIOUS
<1>1. c \in Conns /\ Traced(s, c)
  BY <1>a DEF TracedConn
<1>2. /\ resps \in [Conns -> Seq(Slots)]
      /\ \A d \in Conns : NamedOnce(resps[d], Itself)
  BY DEF SlotInv, SlotsTyped, QueuedOnce
<1>3. Steady
  BY DEF Steady
<1>4. OldTraced
  BY <1>3, SteadyTraced
<1>5. Itself[s] = s
  BY DEF Itself
<1>6. s \notin Named(resps[c], Itself)
  BY <1>1, SlotsAtSites, SitesAre DEF SlotInv, InOneSite
<1>7. \A t \in SThreads : \A u : u = found'[t] /\ u # None =>
        \A d : d = reqConn'[u] => d \in Conns /\ Traced(u, d)'
  BY <1>4 DEF OldTraced
<1>8. \A u \in handling' : \A d : d = reqConn'[u] => d \in Conns /\ Traced(u, d)'
  BY <1>4 DEF OldTraced
<1>9. CASE fault' # "none" /\ resps' = resps
  <2>1. SitesKept({a})
    BY <1>9 DEF SitesKept, Srq_, Handling_, Scq_, Found_, Swc_, Resps_, Wacks_
  <2>2. InOneSite' /\ PostedFirst' /\ LostIsGone'
    BY <1>3, <1>9, <2>1, DropKeeps
  <2>3. SlotsTyped'
    BY <1>9 DEF SlotInv, SlotsTyped
  <2>4. QueuedOnce'
    BY <1>9, QueuedParts DEF SlotInv, QueuedOnce
  <2>5. SlotsTraced'
    BY <1>4, <1>7, <1>8, <1>9, TracedParts DEF OldTraced
  <2> QED
    BY <2>2, <2>3, <2>4, <2>5, SlotInvParts
<1>10. CASE resps' = [resps EXCEPT ![c] = Append(@, s)]
  <2>1. resps'[c] = Append(resps[c], s) /\ \A d \in Conns \ {c} : resps'[d] = resps[d]
    BY <1>1, <1>2, <1>10
  <2>2. /\ Append(resps[c], s) \in Seq(Slots) /\ NamedOnce(Append(resps[c], s), Itself)
        /\ Named(Append(resps[c], s), Itself) = Named(resps[c], Itself) \cup {s}
    BY <1>1, <1>2, <1>5, <1>6, NamedAppend
  <2>3. SitesKept({a, Resps_(c)})
    BY <2>1 DEF SitesKept, Srq_, Handling_, Scq_, Found_, Swc_, Resps_, Wacks_
  <2>4. SlotsAt(Resps_(c)) = Named(resps[c], Itself)
    BY SlotsAtSites
  <2>5. SlotsAt(Resps_(c))' = Named(Append(resps[c], s), Itself)
    BY <2>1, SlotsAtSitesNext
  <2>6. SlotsAt(Resps_(c))' = SlotsAt(Resps_(c)) \cup {s} /\ {s} \subseteq SlotsAt(a)
    BY <2>2, <2>4, <2>5
  <2>7. InOneSite' /\ PostedFirst' /\ LostIsGone'
    BY <1>1, <1>3, <2>3, <2>6, MoveKeeps, SitesAre
  <2>8. SlotsTyped'
    <3>1. resps' \in [Conns -> Seq(Slots)]
      BY <1>1, <1>2, <1>10, <2>2
    <3> QED
      BY <3>1 DEF SlotInv, SlotsTyped
  <2>9. QueuedOnce'
    <3>1. \A d \in Conns : NamedOnce(resps'[d], Itself)
      BY <1>2, <2>1, <2>2
    <3> QED
      BY <3>1, QueuedParts DEF SlotInv, QueuedOnce
  <2>10. SlotsTraced'
    <3>1. Traced(s, c)'
      BY <1>1 DEF Traced
    <3>2. \A d \in Conns : \A u \in Named(resps'[d], Itself) : Traced(u, d)'
      BY <1>4, <2>1, <2>2, <3>1 DEF OldTraced
    <3> QED
      BY <1>4, <1>7, <1>8, <3>2, TracedParts DEF OldTraced
  <2> QED
    BY <2>7, <2>8, <2>9, <2>10, SlotInvParts
<1> QED
  BY <1>a, <1>9, <1>10 DEF Respond

(* The handler is called; it answers, or leaves the answer to others.      *)
LEMMA CallHandlerSlots ==
  ASSUME SlotInv, fault = "none", NEW t \in SThreads, CallHandler(t)
  PROVE  SlotInv'
<1>a. PICK s : s = found[t]
  OBVIOUS
<1>1. /\ s # None /\ found' = [found EXCEPT ![t] = None]
      /\ UNCHANGED <<wacks, srq, from, sst, qpErr, reqConn, scq, swc>>
      /\ \/ Respond(s) /\ UNCHANGED handling
         \/ handling' = handling \cup {s} /\ UNCHANGED resps
  BY <1>a DEF CallHandler, clientSide, qpVars, connVars
<1>2. found \in [SThreads -> Slots \cup {None}]
  BY DEF SlotInv, SlotsTyped
<1>3. /\ found' \in [SThreads -> Slots \cup {None}] /\ found'[t] = None
      /\ \A u \in SThreads \ {t} : found'[u] = found[u]
      /\ s \in Slots
  BY <1>a, <1>1, <1>2
<1>4. TracedConn(s)
  BY <1>a, <1>1 DEF SlotInv, SlotsTraced
<1>5. SlotsAt(Found_(t)) = {found[t]} \ {None}
  BY SlotsAtSites
<1>6. SlotsAt(Found_(t))' = {found'[t]} \ {None}
  BY SlotsAtSitesNext
<1>7. s \in SlotsAt(Found_(t)) /\ SlotsAt(Found_(t))' = SlotsAt(Found_(t)) \ {s}
  BY <1>a, <1>1, <1>3, <1>5, <1>6
<1>8. CASE Respond(s) /\ UNCHANGED handling
  <2>1. SitesKept({Found_(t)} \cup {Resps_(c) : c \in Conns})
    BY <1>1, <1>3, <1>8 DEF SitesKept
  <2>2. \A u \in SThreads : found'[u] \in {found[u], None}
    BY <1>3
  <2>3. \A c \in Conns : Found_(t) # Resps_(c)
    BY SitesDiffer
  <2> QED
    BY <1>1, <1>3, <1>4, <1>7, <1>8, <2>1, <2>2, <2>3, SitesAre, RespondSlots
<1>9. CASE handling' = handling \cup {s} /\ UNCHANGED resps
  <2>1. SitesKept({Found_(t), Handling_})
    BY <1>1, <1>3, <1>9 DEF SitesKept
  <2>2. Steady
    BY <1>1 DEF Steady
  <2>3. SlotsAt(Handling_) = handling /\ SlotsAt(Handling_)' = handling'
    BY SlotsAtSites, SlotsAtSitesNext
  <2>4. SlotsAt(Handling_)' = SlotsAt(Handling_) \cup {s} /\ {s} \subseteq SlotsAt(Found_(t))
    BY <1>7, <1>9, <2>3
  <2>5. InOneSite' /\ PostedFirst' /\ LostIsGone'
    BY <1>7, <2>1, <2>2, <2>4, MoveKeeps, SitesAre, SitesDiffer
  <2>6. SlotsTyped'
    BY <1>1, <1>3, <1>9 DEF SlotInv, SlotsTyped
  <2>7. QueuedOnce'
    BY <1>1, <1>9, QueuedParts DEF SlotInv, QueuedOnce
  <2>8. OldTraced
    BY <2>2, SteadyTraced
  <2>9. \A u \in SThreads : \A v : v = found'[u] /\ v # None =>
          \A d : d = reqConn'[v] => d \in Conns /\ Traced(v, d)'
    BY <1>1, <1>3, <2>8 DEF OldTraced
  <2>10. \A u \in handling' : \A d : d = reqConn'[u] => d \in Conns /\ Traced(u, d)'
    <3>1. \A u \in handling : \A d : d = reqConn'[u] => d \in Conns /\ Traced(u, d)'
      BY <1>1, <2>8 DEF OldTraced
    <3>2. \A d : d = reqConn'[s] => d \in Conns /\ Traced(s, d)'
      BY <1>a, <1>1, <2>8 DEF OldTraced
    <3> QED
      BY <1>9, <3>1, <3>2
  <2>11. SlotsTraced'
    BY <1>1, <1>9, <2>8, <2>9, <2>10, TracedParts DEF OldTraced
  <2> QED
    BY <2>5, <2>6, <2>7, <2>11, SlotInvParts
<1> QED
  BY <1>1, <1>8, <1>9

(* An answer given later.                                                  *)
LEMMA MakeRespSlots ==
  ASSUME SlotInv, fault = "none", NEW s \in Slots, MakeResp(s)
  PROVE  SlotInv'
<1>1. /\ s \in handling /\ handling' = handling \ {s} /\ Respond(s)
      /\ UNCHANGED <<wacks, srq, from, sst, qpErr, reqConn, found, scq, swc>>
  BY DEF MakeResp, clientSide, qpVars, connVars
<1>2. TracedConn(s)
  BY <1>1 DEF SlotInv, SlotsTraced
<1>3. s \in SlotsAt(Handling_) /\ SlotsAt(Handling_)' = SlotsAt(Handling_) \ {s}
  BY <1>1, SlotsAtSites, SlotsAtSitesNext
<1>4. SitesKept({Handling_} \cup {Resps_(c) : c \in Conns})
  BY <1>1 DEF SitesKept
<1>5. found' \in [SThreads -> Slots \cup {None}] /\ \A t \in SThreads : found'[t] \in {found[t], None}
  BY <1>1 DEF SlotInv, SlotsTyped
<1>6. \A c \in Conns : Handling_ # Resps_(c)
  BY SitesDiffer
<1>7. handling' \subseteq handling
  BY <1>1
<1> QED
  BY <1>1, <1>2, <1>3, <1>4, <1>5, <1>6, <1>7, SitesAre, RespondSlots

(* The other steps leave the slots alone.                                  *)
LEMMA AsideSlots ==
  ASSUME SlotInv,
         UNCHANGED <<sst, resps, wacks, srq, reqConn, from, found, handling, scq, swc>>,
         qpErr \subseteq qpErr', qpErr' \subseteq Conns,
         fault # "none" => fault' # "none"
  PROVE  SlotInv'
<1>1. Aging
  BY DEF Aging
<1>2. SitesKept({})
  BY DEF SitesKept
<1>3. \A p \in SlotSites : SlotsAt(p)' = SlotsAt(p)
  BY <1>2, KeptSites
<1>4. InOneSite' /\ PostedFirst'
  <2>1. \A p \in SlotSites : SlotsAt(p)' \subseteq SlotsAt(p)
    BY <1>3
  <2>2. Unposted' => Unposted
    BY DEF Unposted
  <2> QED
    BY <2>1, <2>2, SlotsShrink DEF SlotInv
<1>5. LostIsGone'
  <2>1. ASSUME NEW s, Used(s) PROVE Used(s)'
    <3>1. \E p \in SlotSites : s \in SlotsAt(p)'
      BY <1>3, <2>1 DEF Used
    <3> QED
      BY <3>1 DEF Used, SlotSites, Srq_, Handling_, Scq_, Found_, Swc_, Resps_, Wacks_
  <2>2. ASSUME NEW s, Gone(s) PROVE Gone(s)'
    BY <1>1, <2>2, GoneStays
  <2>3. Unposted' <=> Unposted
    BY DEF Unposted
  <2> QED
    BY <2>1, <2>2, <2>3 DEF SlotInv, LostIsGone
<1>6. SlotsTyped'
  BY DEF SlotInv, SlotsTyped
<1>7. QueuedOnce'
  BY QueuedParts DEF SlotInv, QueuedOnce
<1>8. OldTraced
  BY <1>1, StillTraced DEF SlotInv
<1>9. SlotsTraced'
  BY <1>8, TracedParts DEF OldTraced
<1> QED
  BY <1>4, <1>5, <1>6, <1>7, <1>9, SlotInvParts

(* The first connection posts the slots, none of which is anywhere yet.    *)
LEMMA OnConnectRequestSlots ==
  ASSUME SlotInv, TableInv, fault = "none", NEW c \in Conns, OnConnectRequest(c)
  PROVE  SlotInv'
<1>1. /\ sst[c] = "none" /\ sst' = [sst EXCEPT ![c] = "live"]
      /\ srq' = IF Unposted THEN Slots ELSE srq
      /\ UNCHANGED <<resps, wacks, reqConn, from, found, handling, scq, swc, qpErr, fault>>
  BY DEF OnConnectRequest, Unposted, clientSide, qpVars, respVars, slotVars
<1>2. sst \in [Conns -> {"none", "live", "freed"}]
  BY DEF TableInv, ServerTyped
<1>3. sst'[c] = "live" /\ \A d \in Conns \ {c} : sst'[d] = sst[d]
  BY <1>1, <1>2
<1>4. Aging
  BY <1>1, <1>3 DEF Aging
<1>5. ~Unposted'
  BY <1>3 DEF Unposted
<1>6. SitesKept({Srq_})
  BY <1>1 DEF SitesKept
<1>7. \A p \in SlotSites \ {Srq_} : SlotsAt(p)' = SlotsAt(p)
  BY <1>6, KeptSites
<1>8. PostedFirst'
  BY <1>5 DEF PostedFirst
<1>9. InOneSite' /\ LostIsGone'
  <2>1. CASE Unposted
    <3>1. \A p \in SlotSites \ {Srq_} : SlotsAt(p)' = {}
      BY <1>7, <2>1 DEF SlotInv, PostedFirst
    <3>2. SlotsAt(Srq_)' = Slots
      BY <1>1, <2>1, SlotsAtSitesNext
    <3>3. ASSUME NEW p \in SlotSites, NEW q \in SlotSites, p # q
          PROVE  SlotsAt(p)' \cap SlotsAt(q)' = {}
      BY <3>1, <3>3
    <3>4. InOneSite'
      BY <3>3 DEF InOneSite, SlotSites, Srq_, Handling_, Scq_, Found_, Swc_, Resps_, Wacks_
    <3>5. \A s \in Slots : Used(s)'
      BY <3>2 DEF Used, SlotSites, Srq_, Handling_, Scq_, Found_, Swc_, Resps_, Wacks_
    <3> QED
      BY <3>4, <3>5 DEF LostIsGone
  <2>2. CASE ~Unposted
    <3>1. \A p \in SlotSites : SlotsAt(p)' = SlotsAt(p)
      BY <1>1, <1>7, <2>2, SlotsAtSites, SlotsAtSitesNext
    <3>2. ASSUME NEW p \in SlotSites, NEW q \in SlotSites, p # q
          PROVE  SlotsAt(p)' \cap SlotsAt(q)' = {}
      BY <3>1, <3>2 DEF SlotInv, InOneSite
    <3>3. InOneSite'
      BY <3>2 DEF InOneSite, SlotSites, Srq_, Handling_, Scq_, Found_, Swc_, Resps_, Wacks_
    <3>4. ASSUME NEW s, Used(s) PROVE Used(s)'
      <4>1. \E p \in SlotSites : s \in SlotsAt(p)'
        BY <3>1, <3>4 DEF Used
      <4> QED
        BY <4>1 DEF Used, SlotSites, Srq_, Handling_, Scq_, Found_, Swc_, Resps_, Wacks_
    <3>5. ASSUME NEW s, Gone(s) PROVE Gone(s)'
      BY <1>1, <1>4, <3>5, GoneStays
    <3> QED
      BY <1>1, <2>2, <3>3, <3>4, <3>5 DEF SlotInv, LostIsGone
  <2> QED
    BY <2>1, <2>2
<1>10. SlotsTyped'
  BY <1>1 DEF SlotInv, SlotsTyped
<1>11. QueuedOnce'
  BY <1>1, QueuedParts DEF SlotInv, QueuedOnce
<1>12. OldTraced
  BY <1>1, <1>4, StillTraced DEF SlotInv
<1>13. SlotsTraced'
  BY <1>1, <1>12, TracedParts DEF OldTraced
<1> QED
  BY <1>8, <1>9, <1>10, <1>11, <1>13, SlotInvParts

(* The end of a connection takes the slots of its unfinished responses and *)
(* completions with it.                                                    *)
LEMMA DestroyAndFreeSlots ==
  ASSUME SlotInv, TableInv, fault = "none", DestroyAndFree
  PROVE  SlotInv'
<1>a. PICK c : c = dying
  OBVIOUS
<1>1. /\ c \in Conns /\ sst[c] = "live" /\ sst' = [sst EXCEPT ![c] = "freed"]
      /\ resps' = [resps EXCEPT ![c] = <<>>] /\ wacks' = [wacks EXCEPT ![c] = <<>>]
      /\ scq' = PurgeCq(scq, c)
      /\ UNCHANGED <<srq, reqConn, from, found, handling, swc, qpErr, fault>>
  BY <1>a DEF DestroyAndFree, TableInv, ServerTyped, clientSide, qpVars, slotVars
<1>2. /\ sst \in [Conns -> {"none", "live", "freed"}]
      /\ resps \in [Conns -> Seq(Slots)] /\ wacks \in [Conns -> Seq(Slots)]
      /\ scq \in Seq(ServerCqe) /\ NamedOnce(scq, SlotOf)
  BY DEF TableInv, ServerTyped, SlotInv, SlotsTyped, QueuedOnce
<1>3. /\ sst'[c] = "freed" /\ resps'[c] = <<>> /\ wacks'[c] = <<>>
      /\ \A d \in Conns \ {c} : sst'[d] = sst[d] /\ resps'[d] = resps[d] /\ wacks'[d] = wacks[d]
  BY <1>1, <1>2
<1>4. /\ scq' \in Seq(ServerCqe) /\ Members(scq') \subseteq Members(scq)
      /\ \A x \in Members(scq) : x.conn # c => x \in Members(scq')
      /\ NamedOnce(scq', SlotOf)
  BY <1>1, <1>2, NamedPurge
<1>5. Aging
  BY <1>1, <1>3 DEF Aging
<1>6. OldTraced
  BY <1>1, <1>5, StillTraced DEF SlotInv
<1>7. ~Unposted /\ ~Unposted'
  BY <1>1, <1>3 DEF Unposted
<1>8. SitesKept({Scq_, Resps_(c), Wacks_(c)})
  BY <1>1, <1>3 DEF SitesKept
<1>9. \A p \in SlotSites \ {Scq_, Resps_(c), Wacks_(c)} : SlotsAt(p)' = SlotsAt(p)
  BY <1>8, KeptSites
<1>10. SlotsAt(Resps_(c))' = {} /\ SlotsAt(Wacks_(c))' = {}
  <2>1. Named(resps'[c], Itself) = {} /\ Named(wacks'[c], Itself) = {}
    BY <1>3, NamedEmpty
  <2> QED
    BY <2>1, SlotsAtSitesNext
<1>11. /\ SlotsAt(Scq_) = {SlotOf[x] : x \in Members(scq)}
       /\ SlotsAt(Scq_)' = {SlotOf[x] : x \in Members(scq')}
  <2>1. SlotsAt(Scq_) = Named(scq, SlotOf) /\ SlotsAt(Scq_)' = Named(scq', SlotOf)
    BY SlotsAtSites, SlotsAtSitesNext
  <2> QED
    BY <2>1, NamedMembers
<1>12. InOneSite' /\ PostedFirst'
  <2>1. SlotsAt(Scq_)' \subseteq SlotsAt(Scq_)
    BY <1>4, <1>11
  <2>2. \A p \in SlotSites : SlotsAt(p)' \subseteq SlotsAt(p)
    BY <1>9, <1>10, <2>1
  <2> QED
    BY <1>7, <2>2, SlotsShrink DEF SlotInv
<1>13. ASSUME NEW s, Traced(s, c)' PROVE Gone(s)'
  BY <1>3, <1>13 DEF Traced, Gone
<1>14. ASSUME NEW s, s \in SlotsAt(Resps_(c)) \/ s \in SlotsAt(Wacks_(c)) PROVE Gone(s)'
  <2>1. s \in Named(resps[c], Itself) \/ s \in Named(wacks[c], Itself)
    BY <1>14, SlotsAtSites
  <2>2. Traced(s, c)'
    BY <1>1, <1>6, <2>1 DEF OldTraced
  <2> QED
    BY <1>13, <2>2
<1>15. ASSUME NEW s, s \in SlotsAt(Scq_), s \notin SlotsAt(Scq_)' PROVE Gone(s)'
  <2>1. PICK x \in Members(scq) : s = SlotOf[x]
    BY <1>11, <1>15
  <2>2. x \in ServerCqe
    BY <1>2, ElementOfSeq, LenProperties DEF Members
  <2>3. x.slot = s /\ x.op \in {"recv", "write", "error"}
    BY <2>1, <2>2, SlotOfCqe DEF ServerCqe
  <2>4. x.conn = c
    BY <1>4, <1>11, <1>15, <2>1
  <2>5. CqeTraced(x)'
    BY <1>6 DEF OldTraced
  <2>6. Traced(s, c)'
    BY <1>1, <2>3, <2>4, <2>5 DEF CqeTraced, Traced
  <2> QED
    BY <1>13, <2>6
<1>16. LostIsGone'
  <2> SUFFICES ASSUME NEW s \in Slots, ~Used(s)' PROVE Gone(s)' \/ fault' # "none"
    BY DEF LostIsGone
  <2>1. \A p \in SlotSites : s \notin SlotsAt(p)'
    BY DEF Used, SlotSites, Srq_, Handling_, Scq_, Found_, Swc_, Resps_, Wacks_
  <2>2. CASE Used(s)
    <3>1. PICK p \in SlotSites : s \in SlotsAt(p)
      BY <2>2 DEF Used
    <3>2. p \in {Scq_, Resps_(c), Wacks_(c)}
      BY <1>9, <2>1, <3>1
    <3> QED
      BY <1>14, <1>15, <2>1, <3>1, <3>2, SitesAre
  <2>3. CASE ~Used(s)
    <3>1. Gone(s) \/ fault # "none"
      BY <1>7, <2>3 DEF SlotInv, LostIsGone
    <3> QED
      BY <1>1, <1>5, <3>1, GoneStays
  <2> QED
    BY <2>2, <2>3
<1>17. SlotsTyped'
  <2>1. resps' \in [Conns -> Seq(Slots)] /\ wacks' \in [Conns -> Seq(Slots)]
    BY <1>1, <1>2, EmptySeq
  <2> QED
    BY <1>1, <1>4, <2>1 DEF SlotInv, SlotsTyped
<1>18. QueuedOnce'
  <2>1. \A d \in Conns : NamedOnce(resps'[d], Itself) /\ NamedOnce(wacks'[d], Itself)
    BY <1>3, NamedEmpty DEF SlotInv, QueuedOnce
  <2> QED
    BY <1>1, <1>4, <2>1, QueuedParts DEF SlotInv, QueuedOnce
<1>19. SlotsTraced'
  <2>1. Named(resps'[c], Itself) = {} /\ Named(wacks'[c], Itself) = {}
    BY <1>3, NamedEmpty
  <2>2. \A d \in Conns : \A u \in Named(resps'[d], Itself) : Traced(u, d)'
    BY <1>3, <1>6, <2>1 DEF OldTraced
  <2>3. \A d \in Conns : \A u \in Named(wacks'[d], Itself) : Traced(u, d)'
    BY <1>3, <1>6, <2>1 DEF OldTraced
  <2> QED
    BY <1>1, <1>4, <1>6, <2>2, <2>3, TracedParts DEF OldTraced
<1> QED
  BY <1>12, <1>16, <1>17, <1>18, <1>19, SlotInvParts

LEMMA SlotInvInit == ASSUME Init PROVE SlotInv
<1>1. SlotsTyped
  BY EmptySeq DEF Init, SlotsTyped
<1>2. /\ Named(scq, SlotOf) = {} /\ NamedOnce(scq, SlotOf) /\ Members(scq) = {}
      /\ \A t \in SThreads : Named(swc[t], SlotOf) = {} /\ NamedOnce(swc[t], SlotOf) /\ Members(swc[t]) = {}
      /\ \A c \in Conns : Named(resps[c], Itself) = {} /\ NamedOnce(resps[c], Itself)
      /\ \A c \in Conns : Named(wacks[c], Itself) = {} /\ NamedOnce(wacks[c], Itself)
  BY NamedEmpty DEF Init
<1>3. \A p \in SlotSites : SlotsAt(p) = {}
  <2> SUFFICES ASSUME NEW p \in SlotSites PROVE SlotsAt(p) = {}
    OBVIOUS
  <2>1. CASE p \in {Srq_, Handling_, Scq_}
    BY <1>2, <2>1, SlotsAtSites DEF Init
  <2>2. ASSUME NEW t \in SThreads, p \in {Found_(t), Swc_(t)} PROVE SlotsAt(p) = {}
    <3>1. found[t] = None
      BY DEF Init
    <3> QED
      BY <1>2, <2>2, <3>1, SlotsAtSites
  <2>3. ASSUME NEW c \in Conns, p \in {Resps_(c), Wacks_(c)} PROVE SlotsAt(p) = {}
    BY <1>2, <2>3, SlotsAtSites
  <2> QED
    BY <2>1, <2>2, <2>3, SiteKinds
<1>4. InOneSite /\ PostedFirst /\ LostIsGone
  BY <1>3 DEF InOneSite, PostedFirst, LostIsGone, Unposted, Init
<1>5. QueuedOnce
  BY <1>2 DEF QueuedOnce
<1>6. SlotsTraced
  BY <1>2 DEF SlotsTraced, TracedCq, TracedWrites, Init
<1> QED
  BY <1>1, <1>4, <1>5, <1>6 DEF SlotInv

LEMMA SlotInvStep ==
  ASSUME SlotInv, TableInv, [Next]_vars
  PROVE  SlotInv'
<1>1. CASE UNCHANGED vars
  <2>1. UNCHANGED <<sst, resps, wacks, srq, reqConn, from, found, handling, scq, swc, qpErr, fault>>
    BY <1>1 DEF vars, clientSide, qpVars, respVars, serverVars, connVars, slotVars
  <2> QED
    BY <2>1, AsideSlots DEF SlotInv, SlotsTyped
<1> SUFFICES ASSUME Next PROVE SlotInv'
  BY <1>1
<1>2. fault = "none"
  BY DEF Next
<1>3. ASSUME UNCHANGED <<respVars, serverVars>>,
             UNCHANGED qpErr \/ \E c \in Conns : QpError(c)
      PROVE  SlotInv'
  <2>1. qpErr \subseteq qpErr' /\ qpErr' \subseteq Conns
    BY <1>3 DEF QpError, SlotInv, SlotsTyped
  <2>2. UNCHANGED <<sst, resps, wacks, srq, reqConn, from, found, handling, scq, swc>>
    BY <1>3 DEF respVars, serverVars, connVars, slotVars
  <2> QED
    BY <1>2, <2>1, <2>2, AsideSlots
<1>4. CASE Application
  BY <1>3, <1>4 DEF Application, Connect, SendReq, Disconnect, qpVars
<1>5. ASSUME NEW c \in Conns, ClientCmStep(c) PROVE SlotInv'
  BY <1>3, <1>5 DEF ClientCmStep, ClientProgress, OnAddrResolved, OnRouteResolved, OnConnectError,
    OnOtherEvent, OnEstablished, OnDisconnected, ClientEvent, qpVars
<1>6. ASSUME NEW c \in Conns, WireStep(c) PROVE SlotInv'
  <2>1. CASE RnrNak(c)
    BY <1>3, <2>1 DEF RnrNak
  <2> QED
    BY <1>2, <1>6, <2>1, DeliverReqSlots, DeliverRespSlots, AckWriteSlots, WriteErrorSlots
    DEF WireStep
<1>7. ASSUME NEW c \in Conns, ServerCmStep(c) PROVE SlotInv'
  <2>1. CASE HashDelete(c)
    <3>1. UNCHANGED <<sst, resps, wacks, srq, reqConn, from, found, handling, scq, swc, qpErr>>
      BY <2>1 DEF HashDelete, clientSide, qpVars, respVars, slotVars
    <3> QED
      BY <1>2, <3>1, AsideSlots DEF SlotInv, SlotsTyped
  <2> QED
    BY <1>2, <1>7, <2>1, OnConnectRequestSlots DEF ServerCmStep
<1>8. ASSUME NEW t \in CThreads, ClientStep(t) PROVE SlotInv'
  BY <1>3, <1>8 DEF ClientStep, ClientPoll, ClientPollEmpty, OnRecvResp, MempoolPut,
         OnClientError, OnRecvRespFailed, qpVars
<1>9. ASSUME NEW t \in SThreads, ServerStep(t) PROVE SlotInv'
  <2>1. CASE ServerPollEmpty(t)
    <3>1. UNCHANGED <<sst, resps, wacks, srq, reqConn, from, found, handling, scq, swc, qpErr>>
      BY <2>1 DEF ServerPollEmpty, clientSide, qpVars, respVars, connVars
    <3> QED
      BY <1>2, <3>1, AsideSlots DEF SlotInv, SlotsTyped
  <2> QED
    BY <1>2, <1>9, <2>1, ServerPollSlots, FindConnSlots, CallHandlerSlots, RepostSlots
    DEF ServerStep
<1> QED
  BY <1>2, <1>4, <1>5, <1>6, <1>7, <1>8, <1>9, MakeRespSlots, DestroyAndFreeSlots DEF Next

(* SlotLostOnlyByDisconnect names the slots in use by what the variables   *)
(* hold.                                                                   *)
LEMMA SlotsInUseAre ==
  ASSUME SlotsTyped, NEW s, Used(s)
  PROVE  s \in SlotsInUse
<1>1. PICK p \in SlotSites : s \in SlotsAt(p)
  BY DEF Used
<1>2. ASSUME NEW q \in Seq(ServerCqe) PROVE Named(q, SlotOf) = CqeSlots(q)
  <2>1. \A i \in DOMAIN q : SlotOf[q[i]] = q[i].slot
    BY ElementOfSeq, LenProperties, SlotOfCqe
  <2> QED
    BY <2>1 DEF Named, CqeSlots
<1>3. ASSUME NEW q \in Seq(Slots) PROVE Named(q, Itself) = {q[i] : i \in DOMAIN q}
  <2>1. \A i \in DOMAIN q : Itself[q[i]] = q[i]
    BY ElementOfSeq, LenProperties DEF Itself
  <2> QED
    BY <2>1 DEF Named
<1>4. CASE p \in {Srq_, Handling_, Scq_}
  BY <1>1, <1>2, <1>4, SlotsAtSites DEF SlotsInUse, SlotsTyped
<1>5. ASSUME NEW t \in SThreads, p = Found_(t) PROVE s \in SlotsInUse
  <2>1. s = found[t] /\ s # None
    BY <1>1, <1>5, SlotsAtSites
  <2> QED
    BY <2>1 DEF SlotsInUse
<1>6. ASSUME NEW t \in SThreads, p = Swc_(t) PROVE s \in SlotsInUse
  <2>1. s \in CqeSlots(swc[t])
    BY <1>1, <1>2, <1>6, SlotsAtSites DEF SlotsTyped
  <2>2. s \in UNION {CqeSlots(swc[u]) : u \in SThreads}
    BY <2>1
  <2> QED
    BY <2>2 DEF SlotsInUse
<1>7. ASSUME NEW c \in Conns, p \in {Resps_(c), Wacks_(c)} PROVE s \in SlotsInUse
  <2>1. PICK q \in {resps, wacks} : s \in {q[c][i] : i \in DOMAIN q[c]}
    BY <1>1, <1>3, <1>7, SlotsAtSites DEF SlotsTyped
  <2> DEFINE at(r, d) == {r[d][i] : i \in DOMAIN r[d]}
             all == {at(r, d) : r \in {resps, wacks}, d \in Conns}
  <2>3. s \in at(q, c)
    BY <2>1
  <2> HIDE DEF at
  <2>4. at(q, c) \in all
    BY <1>7
  <2>5. s \in UNION all
    BY <2>3, <2>4
  <2>2. s \in UNION {{r[d][i] : i \in DOMAIN r[d]} : r \in {resps, wacks}, d \in Conns}
    BY <2>5 DEF at
  <2> QED
    BY <2>2 DEF SlotsInUse
<1> QED
  BY <1>4, <1>5, <1>6, <1>7, SiteKinds

(* The slots of the shared receive queue are not lost: at any time, with   *)
(* any number of connections and of threads in the server, a slot is       *)
(* posted, in a completion, at a handler, or in a response on its way, or  *)
(* it was last used for a connection that has been freed or whose queue    *)
(* pair is in error.                                                       *)
THEOREM SlotsOnlyLostByDisconnect == Safety => []SlotLostOnlyByDisconnect
<1>1. Init => SlotInv /\ TableInv
  BY SlotInvInit, TableInvInit
<1>2. SlotInv /\ TableInv /\ [Next]_vars => (SlotInv /\ TableInv)'
  BY SlotInvStep, TableInvStep
<1>3. SlotInv => SlotLostOnlyByDisconnect
  <2> SUFFICES ASSUME SlotInv, fault = "none", NEW s \in Slots \ SlotsInUse, ~Unposted
               PROVE  from[s] # None /\ (from[s] \in qpErr \/ sst[from[s]] = "freed")
    BY DEF SlotLostOnlyByDisconnect, Unposted
  <2>1. ~Used(s)
    BY SlotsInUseAre DEF SlotInv
  <2>2. Gone(s)
    BY <2>1 DEF SlotInv, LostIsGone
  <2> QED
    BY <2>2, ConnAssumption DEF Gone, ConnAssumption
<1> QED
  BY <1>1, <1>2, <1>3, PTL DEF Safety

-----------------------------------------------------------------------------
(* A server with one thread, as kv_rdma_server.c runs it (thread_num is 1):*)
(* the thread that handles the events is the one that processes the        *)
(* completions.  Destroying a queue pair removes its completions.          *)

OneThread == SThreads = {ServerCm} /\ Purge

(* What waits is for a connection that is not freed, the one its request   *)
(* came in on.                                                             *)
CqeLive(e) ==
  /\ sst[e.conn] = "live"
  /\ e.op \in {"write", "error"} => from[e.slot] = e.conn /\ reqConn[e.slot] = e.conn

WriteLive(s, c) == sst[c] = "live" /\ from[s] = c /\ reqConn[s] = c
FoundLive(s)    == reqConn[s] = from[s] /\ sst[from[s]] = "live"
HandledOn(s)    == reqConn[s] = from[s] /\ sst[from[s]] # "none"

NoServerFault ==
  /\ fault \notin {"assert_conn", "assert_server"}
  /\ ~Deferred => fault # "server_uaf"

Straight ==
  /\ swc[ServerCm] # <<>> \/ found[ServerCm] # None => dying = None
  /\ \A e \in Members(scq) \cup Members(swc[ServerCm]) : CqeLive(e)
  /\ \A s \in {found[ServerCm]} \ {None} : FoundLive(s)
  /\ \A s \in handling : HandledOn(s)
  /\ \A c \in Conns : \A s \in Named(resps[c], Itself) : WriteLive(s, c)
  /\ \A c \in Conns : \A s \in Named(wacks[c], Itself) : WriteLive(s, c)
  /\ ~Deferred => handling = {}
  /\ NoServerFault

LEMMA StraightInit == ASSUME OneThread, Init PROVE Straight
<1>1. /\ Members(scq) = {} /\ Members(swc[ServerCm]) = {}
      /\ \A c \in Conns : Named(resps[c], Itself) = {} /\ Named(wacks[c], Itself) = {}
  BY NamedEmpty DEF Init, OneThread
<1>2. found[ServerCm] = None
  BY DEF Init, OneThread
<1> QED
  BY <1>1, <1>2 DEF Straight, NoServerFault, Init

LEMMA StraightParts ==
  ASSUME swc'[ServerCm] # <<>> \/ found'[ServerCm] # None => dying' = None,
         \A e \in Members(scq') \cup Members(swc'[ServerCm]) : CqeLive(e)',
         \A s : s = found'[ServerCm] /\ s # None => FoundLive(s)',
         \A s \in handling' : HandledOn(s)',
         \A c \in Conns : \A s \in Named(resps'[c], Itself) : WriteLive(s, c)',
         \A c \in Conns : \A s \in Named(wacks'[c], Itself) : WriteLive(s, c)',
         ~Deferred => handling' = {},
         NoServerFault'
  PROVE  Straight'
<1>1. (\A e \in Members(scq) \cup Members(swc[ServerCm]) : CqeLive(e))'
  BY DEF Members
<1>2. (\A s \in {found[ServerCm]} \ {None} : FoundLive(s))'
  BY DEF FoundLive
<1>3. (\A c \in Conns : \A s \in Named(resps[c], Itself) : WriteLive(s, c))'
  BY DEF Named, Itself
<1>4. (\A c \in Conns : \A s \in Named(wacks[c], Itself) : WriteLive(s, c))'
  BY DEF Named, Itself
<1> QED
  BY <1>1, <1>2, <1>3, <1>4 DEF Straight

(* What was live before a step is live after it, except for the slots X.   *)
OldLive(X) ==
  /\ \A e \in Members(scq) \cup Members(swc[ServerCm]) : e.slot \notin X => CqeLive(e)'
  /\ \A s : s = found[ServerCm] /\ s # None /\ s \notin X => FoundLive(s)'
  /\ \A s \in handling \ X : HandledOn(s)'
  /\ \A c \in Conns : \A s \in Named(resps[c], Itself) \ X : WriteLive(s, c)'
  /\ \A c \in Conns : \A s \in Named(wacks[c], Itself) \ X : WriteLive(s, c)'

LEMMA StillLive ==
  ASSUME SlotInv, Straight, OneThread, NEW X,
         \A c \in Conns : sst[c] = "live" => sst'[c] = "live",
         \A c \in Conns : sst[c] # "none" => sst'[c] # "none",
         \A s \in Slots \ X : from'[s] = from[s] /\ reqConn'[s] = reqConn[s]
  PROVE  OldLive(X)
<1>1. \A e \in Members(scq) \cup Members(swc[ServerCm]) : e \in ServerCqe
  <2>1. scq \in Seq(ServerCqe) /\ swc[ServerCm] \in Seq(ServerCqe)
    BY DEF SlotInv, SlotsTyped, OneThread
  <2> QED
    BY <2>1, ElementOfSeq, LenProperties DEF Members
<1>2. ASSUME NEW e \in Members(scq) \cup Members(swc[ServerCm]), e.slot \notin X PROVE CqeLive(e)'
  <2>1. e.slot \in Slots /\ e.conn \in Conns
    BY <1>1, SlotOfCqe
  <2>2. CqeLive(e)
    BY DEF Straight
  <2> QED
    BY <1>2, <2>1, <2>2 DEF CqeLive
<1>3. ASSUME NEW s, s = found[ServerCm], s # None, s \notin X PROVE FoundLive(s)'
  <2>1. s \in Slots /\ FoundLive(s) /\ from[s] \in Conns
    BY <1>3 DEF SlotInv, SlotsTyped, SlotsTraced, TracedConn, Traced, Straight, OneThread
  <2> QED
    BY <1>3, <2>1 DEF FoundLive
<1>4. ASSUME NEW s \in handling \ X PROVE HandledOn(s)'
  <2>1. s \in Slots /\ HandledOn(s) /\ from[s] \in Conns
    BY DEF SlotInv, SlotsTyped, SlotsTraced, TracedConn, Traced, Straight
  <2> QED
    BY <2>1 DEF HandledOn
<1>5. ASSUME NEW c \in Conns, NEW q \in Seq(Slots), NEW s \in Named(q, Itself) \ X, WriteLive(s, c)
      PROVE  WriteLive(s, c)'
  <2>1. \A i \in DOMAIN q : q[i] \in Slots /\ Itself[q[i]] = q[i]
    BY ElementOfSeq, LenProperties DEF Itself
  <2>2. s \in Slots
    BY <2>1 DEF Named
  <2> QED
    BY <1>5, <2>2 DEF WriteLive
<1>6. \A c \in Conns : resps[c] \in Seq(Slots) /\ wacks[c] \in Seq(Slots)
  BY DEF SlotInv, SlotsTyped
<1>7. \A c \in Conns : \A s \in Named(resps[c], Itself) \ X : WriteLive(s, c)'
  BY <1>5, <1>6 DEF Straight
<1>8. \A c \in Conns : \A s \in Named(wacks[c], Itself) \ X : WriteLive(s, c)'
  BY <1>5, <1>6 DEF Straight
<1> QED
  BY <1>2, <1>3, <1>4, <1>7, <1>8 DEF OldLive

LEMMA DeliverReqStraight ==
  ASSUME SlotInv, Straight, OneThread, fault = "none", NEW c \in Conns, DeliverReq(c)
  PROVE  Straight'
<1>1. PICK s \in srq :
        /\ srq'  = srq \ {s}
        /\ from' = [from EXCEPT ![s] = c]
        /\ scq'  = Append(scq, [op |-> "recv", conn |-> c, slot |-> s])
  BY DEF DeliverReq
<1>a. PICK e : e = [op |-> "recv", conn |-> c, slot |-> s]
  OBVIOUS
<1>2. /\ UNCHANGED <<resps, wacks, sst, dying, reqConn, found, handling, swc, fault>>
      /\ sst[c] = "live"
  BY DEF DeliverReq, respVars, connVars
<1>3. s \in Slots /\ e \in ServerCqe /\ scq \in Seq(ServerCqe)
  BY <1>1, <1>a DEF SlotInv, SlotsTyped, ServerCqe
<1>4. Members(scq') = Members(scq) \cup {e}
  BY <1>1, <1>a, <1>3, NamedAppend
<1>5. OldLive({s})
  <2>1. \A u \in Slots \ {s} : from'[u] = from[u] /\ reqConn'[u] = reqConn[u]
    BY <1>1, <1>2 DEF SlotInv, SlotsTyped
  <2> QED
    BY <1>2, <2>1, StillLive
<1>6. \A p \in SlotSites : p # Srq_ => s \notin SlotsAt(p)
  BY <1>1, SlotsAtSites, SitesAre DEF SlotInv, InOneSite
<1>7. /\ s \notin Named(scq, SlotOf) /\ s \notin Named(swc[ServerCm], SlotOf)
      /\ s \notin {found[ServerCm]} \ {None} /\ s \notin handling
      /\ \A d \in Conns : s \notin Named(resps[d], Itself) /\ s \notin Named(wacks[d], Itself)
  BY <1>6, SlotsAtSites, SitesAre, SitesDiffer DEF OneThread
<1>8. \A x \in Members(scq) \cup Members(swc[ServerCm]) : x.slot # s
  <2>1. scq \in Seq(ServerCqe) /\ swc[ServerCm] \in Seq(ServerCqe)
    BY DEF SlotInv, SlotsTyped, OneThread
  <2>2. \A x \in Members(scq) \cup Members(swc[ServerCm]) : x \in ServerCqe
    BY <2>1, ElementOfSeq, LenProperties DEF Members
  <2> QED
    BY <1>7, <2>2, SlotOfCqe, NamedMembers
<1>9. CqeLive(e)'
  BY <1>a, <1>2 DEF CqeLive
<1>10. \A x \in Members(scq') \cup Members(swc'[ServerCm]) : CqeLive(x)'
  BY <1>2, <1>4, <1>5, <1>8, <1>9 DEF OldLive
<1> QED
  BY <1>2, <1>5, <1>7, <1>10, StraightParts DEF OldLive, Straight, NoServerFault

(* A slot moves on along its connection: the response arrives, is          *)
(* acknowledged, or completes with an error.                               *)
LEMMA WriteStraight ==
  ASSUME SlotInv, Straight, OneThread, fault = "none", NEW c \in Conns,
         DeliverResp(c) \/ AckWrite(c) \/ WriteError(c)
  PROVE  Straight'
<1>1. UNCHANGED <<sst, dying, from, reqConn, found, handling, swc, fault>>
  BY DEF DeliverResp, AckWrite, WriteError, connVars, serverVars, slotVars
<1>2. OldLive({})
  BY <1>1, StillLive
<1>3. /\ resps \in [Conns -> Seq(Slots)] /\ wacks \in [Conns -> Seq(Slots)]
      /\ scq \in Seq(ServerCqe)
  BY DEF SlotInv, SlotsTyped
<1>4. ASSUME NEW q \in Seq(Slots), q # <<>>
      PROVE  /\ Head(q) \in Slots /\ Head(q) \in Named(q, Itself)
             /\ Named(Tail(q), Itself) \subseteq Named(q, Itself)
  <2>1. Head(q) \in Slots
    BY <1>4, HeadTailProperties
  <2>2. Named(q, Itself) = Named(Tail(q), Itself) \cup {Itself[Head(q)]}
    BY <1>4, NamedTail
  <2> QED
    BY <2>1, <2>2 DEF Itself
<1>5. ASSUME NEW q \in Seq(Slots), NEW s \in Slots
      PROVE  Named(Append(q, s), Itself) = Named(q, Itself) \cup {s}
  BY NamedAppend DEF Itself
<1>6. CASE DeliverResp(c)
  <2>1. /\ resps[c] # <<>> /\ UNCHANGED scq
        /\ resps' = [resps EXCEPT ![c] = Tail(@)]
        /\ wacks' = [wacks EXCEPT ![c] = Append(@, Head(resps[c]))]
    BY <1>6 DEF DeliverResp, serverVars
  <2>2. /\ resps'[c] = Tail(resps[c]) /\ wacks'[c] = Append(wacks[c], Head(resps[c]))
        /\ \A d \in Conns \ {c} : resps'[d] = resps[d] /\ wacks'[d] = wacks[d]
    BY <1>3, <2>1
  <2>3. /\ Named(resps'[c], Itself) \subseteq Named(resps[c], Itself)
        /\ Named(wacks'[c], Itself) = Named(wacks[c], Itself) \cup {Head(resps[c])}
        /\ Head(resps[c]) \in Named(resps[c], Itself)
    BY <1>3, <1>4, <1>5, <2>1, <2>2
  <2>4. \A d \in Conns : \A s \in Named(resps'[d], Itself) : WriteLive(s, d)'
    BY <1>2, <2>2, <2>3 DEF OldLive
  <2>5. \A d \in Conns : \A s \in Named(wacks'[d], Itself) : WriteLive(s, d)'
    BY <1>2, <2>2, <2>3 DEF OldLive
  <2> QED
    BY <1>1, <1>2, <2>1, <2>4, <2>5, StraightParts DEF OldLive, Straight, NoServerFault
<1>7. ASSUME NEW e \in ServerCqe, WriteLive(e.slot, e.conn)',
             scq' = Append(scq, e),
             \A d \in Conns : /\ Named(resps'[d], Itself) \subseteq Named(resps[d], Itself)
                              /\ Named(wacks'[d], Itself) \subseteq Named(wacks[d], Itself)
      PROVE  Straight'
  <2>1. Members(scq') = Members(scq) \cup {e}
    BY <1>3, <1>7, NamedAppend
  <2>2. CqeLive(e)'
    BY <1>7 DEF CqeLive, WriteLive
  <2>3. \A x \in Members(scq') \cup Members(swc'[ServerCm]) : CqeLive(x)'
    BY <1>1, <1>2, <2>1, <2>2 DEF OldLive
  <2> QED
    BY <1>1, <1>2, <1>7, <2>3, StraightParts DEF OldLive, Straight, NoServerFault
<1>8. CASE AckWrite(c)
  <2>a. PICK s : s = Head(wacks[c])
    OBVIOUS
  <2>b. PICK e : e = [op |-> "write", conn |-> c, slot |-> s]
    OBVIOUS
  <2>1. /\ wacks[c] # <<>> /\ UNCHANGED resps /\ scq' = Append(scq, e)
        /\ wacks' = [wacks EXCEPT ![c] = Tail(@)]
    BY <1>8, <2>a, <2>b DEF AckWrite
  <2>2. s \in Slots /\ s \in Named(wacks[c], Itself)
    BY <1>3, <1>4, <2>a, <2>1
  <2>3. e \in ServerCqe /\ e.slot = s /\ e.conn = c
    BY <2>b, <2>2 DEF ServerCqe
  <2>4. WriteLive(e.slot, e.conn)'
    BY <1>2, <2>2, <2>3 DEF OldLive
  <2>5. \A d \in Conns : /\ Named(resps'[d], Itself) \subseteq Named(resps[d], Itself)
                         /\ Named(wacks'[d], Itself) \subseteq Named(wacks[d], Itself)
    BY <1>3, <1>4, <2>1
  <2> QED
    BY <1>7, <2>1, <2>3, <2>4, <2>5
<1>9. CASE WriteError(c)
  <2>a. PICK s : s = Head(resps[c])
    OBVIOUS
  <2>b. PICK e : e = [op |-> "error", conn |-> c, slot |-> s]
    OBVIOUS
  <2>1. /\ resps[c] # <<>> /\ UNCHANGED wacks /\ scq' = Append(scq, e)
        /\ resps' = [resps EXCEPT ![c] = Tail(@)]
    BY <1>9, <2>a, <2>b DEF WriteError
  <2>2. s \in Slots /\ s \in Named(resps[c], Itself)
    BY <1>3, <1>4, <2>a, <2>1
  <2>3. e \in ServerCqe /\ e.slot = s /\ e.conn = c
    BY <2>b, <2>2 DEF ServerCqe
  <2>4. WriteLive(e.slot, e.conn)'
    BY <1>2, <2>2, <2>3 DEF OldLive
  <2>5. \A d \in Conns : /\ Named(resps'[d], Itself) \subseteq Named(resps[d], Itself)
                         /\ Named(wacks'[d], Itself) \subseteq Named(wacks[d], Itself)
    BY <1>3, <1>4, <2>1
  <2> QED
    BY <1>7, <2>1, <2>3, <2>4, <2>5
<1> QED
  BY <1>6, <1>8, <1>9

LEMMA OnConnectRequestStraight ==
  ASSUME SlotInv, TableInv, Straight, OneThread, fault = "none",
         NEW c \in Conns, OnConnectRequest(c)
  PROVE  Straight'
<1>1. /\ sst[c] = "none" /\ sst' = [sst EXCEPT ![c] = "live"]
      /\ UNCHANGED <<resps, wacks, dying, from, reqConn, found, handling, scq, swc, fault>>
  BY DEF OnConnectRequest, respVars, slotVars
<1>2. /\ \A d \in Conns : sst[d] = "live" => sst'[d] = "live"
      /\ \A d \in Conns : sst[d] # "none" => sst'[d] # "none"
  BY <1>1 DEF TableInv, ServerTyped
<1>3. OldLive({})
  BY <1>1, <1>2, StillLive
<1> QED
  BY <1>1, <1>3, StraightParts DEF OldLive, Straight, NoServerFault

(* When a connection is freed the thread holds no completion, and the      *)
(* queue holds none of this connection any more.                           *)
LEMMA DestroyAndFreeStraight ==
  ASSUME SlotInv, TableInv, Straight, OneThread, fault = "none", DestroyAndFree
  PROVE  Straight'
<1>a. PICK c : c = dying
  OBVIOUS
<1>1. /\ c \in Conns /\ c # None /\ sst' = [sst EXCEPT ![c] = "freed"]
      /\ resps' = [resps EXCEPT ![c] = <<>>] /\ wacks' = [wacks EXCEPT ![c] = <<>>]
      /\ scq' = PurgeCq(scq, c)
      /\ UNCHANGED <<reqConn, from, found, handling, swc, fault>>
  BY <1>a DEF DestroyAndFree, TableInv, ServerTyped, slotVars
<1>2. swc[ServerCm] = <<>> /\ found[ServerCm] = None
  BY <1>a, <1>1 DEF Straight
<1>3. /\ sst'[c] = "freed" /\ resps'[c] = <<>> /\ wacks'[c] = <<>>
      /\ \A d \in Conns \ {c} : sst'[d] = sst[d] /\ resps'[d] = resps[d] /\ wacks'[d] = wacks[d]
  BY <1>1 DEF SlotInv, SlotsTyped, TableInv, ServerTyped
<1>4. \A e \in Members(scq') : e \in Members(scq) /\ e.conn # c /\ e \in ServerCqe
  <2>1. scq \in Seq(ServerCqe)
    BY DEF SlotInv, SlotsTyped
  <2>2. \A e \in Members(scq) : e \in ServerCqe
    BY <2>1, ElementOfSeq, LenProperties DEF Members
  <2> QED
    BY <1>1, <2>1, <2>2, NamedPurge DEF OneThread
<1>5. \A e \in Members(scq') \cup Members(swc'[ServerCm]) : CqeLive(e)'
  <2>1. Members(swc'[ServerCm]) = {}
    BY <1>1, <1>2, NamedEmpty
  <2>2. ASSUME NEW e \in Members(scq') PROVE CqeLive(e)'
    <3>1. CqeLive(e) /\ e.conn \in Conns \ {c}
      BY <1>4, SlotOfCqe DEF Straight
    <3> QED
      BY <1>1, <1>3, <3>1 DEF CqeLive
  <2> QED
    BY <2>1, <2>2
<1>6. \A s \in handling' : HandledOn(s)'
  <2> SUFFICES ASSUME NEW s \in handling PROVE HandledOn(s)'
    BY <1>1
  <2>1. HandledOn(s) /\ from[s] \in Conns
    BY DEF Straight, SlotInv, SlotsTraced, TracedConn, Traced
  <2> QED
    BY <1>1, <1>3, <2>1 DEF HandledOn
<1>7. Named(resps'[c], Itself) = {} /\ Named(wacks'[c], Itself) = {}
  BY <1>3, NamedEmpty
<1>8. ASSUME NEW d \in Conns, d # c, NEW s, WriteLive(s, d) PROVE WriteLive(s, d)'
  BY <1>1, <1>3, <1>8 DEF WriteLive
<1>9. \A d \in Conns : \A s \in Named(resps'[d], Itself) : WriteLive(s, d)'
  BY <1>3, <1>7, <1>8 DEF Straight
<1>10. \A d \in Conns : \A s \in Named(wacks'[d], Itself) : WriteLive(s, d)'
  BY <1>3, <1>7, <1>8 DEF Straight
<1> QED
  BY <1>1, <1>2, <1>5, <1>6, <1>9, <1>10, StraightParts DEF Straight, NoServerFault

LEMMA ServerPollStraight ==
  ASSUME SlotInv, Straight, OneThread, fault = "none", ServerPoll(ServerCm)
  PROVE  Straight'
<1>1. /\ dying = None /\ dying' = dying /\ scq' = <<>>
      /\ swc' = [swc EXCEPT ![ServerCm] = scq]
      /\ UNCHANGED <<resps, wacks, sst, from, reqConn, found, handling, fault>>
  BY DEF ServerPoll, SArrayDone, respVars, connVars
<1>2. swc'[ServerCm] = scq
  BY <1>1 DEF SlotInv, SlotsTyped, OneThread
<1>3. OldLive({})
  BY <1>1, StillLive
<1>4. Members(scq') = {}
  BY <1>1, NamedEmpty
<1> QED
  BY <1>1, <1>2, <1>3, <1>4, StraightParts DEF OldLive, Straight, NoServerFault

(* The lookup finds the connection of the request, and no other: it is in  *)
(* the table, and its number names it alone.                               *)
LEMMA FindConnStraight ==
  ASSUME SlotInv, TableInv, Straight, OneThread, fault = "none", FindConn(ServerCm)
  PROVE  Straight'
<1>a. PICK e : e = Head(swc[ServerCm])
  OBVIOUS
<1>b. PICK s : s = e.slot
  OBVIOUS
<1>1. /\ swc[ServerCm] # <<>> /\ e.op = "recv"
      /\ swc' = [swc EXCEPT ![ServerCm] = Tail(@)]
      /\ UNCHANGED <<resps, wacks, sst, dying, from, handling, scq>>
      /\ \/ InTable(qpn[e.conn]) = {}
         \/ /\ \E d \in InTable(qpn[e.conn]) : reqConn' = [reqConn EXCEPT ![s] = d]
            /\ found' = [found EXCEPT ![ServerCm] = s]
            /\ UNCHANGED fault
  BY <1>a, <1>b DEF FindConn, AtServerCqe, respVars, connVars
<1>2. /\ e \in ServerCqe /\ e \in Members(swc[ServerCm])
      /\ swc[ServerCm] \in Seq(ServerCqe) /\ swc'[ServerCm] = Tail(swc[ServerCm])
      /\ reqConn \in [Slots -> Conns \cup {None}]
      /\ found \in [SThreads -> Slots \cup {None}]
  BY <1>a, <1>1, NamedTail, ServerHead DEF OneThread, SlotInv, SlotsTyped
<1>3. s \in Slots /\ e.conn \in Conns /\ SlotOf[e] = s
  BY <1>b, <1>2, SlotOfCqe
<1>4. sst[e.conn] = "live" /\ from[s] = e.conn
  BY <1>b, <1>1, <1>2 DEF Straight, CqeLive, SlotInv, SlotsTraced, TracedCq, CqeTraced, OneThread
<1>5. e.conn \in InTable(qpn[e.conn])
  <2>1. dying = None
    BY <1>1 DEF Straight
  <2> QED
    BY <1>3, <1>4, <2>1, ConnAssumption DEF TableInv, Live, InTable, ConnAssumption
<1>6. PICK d \in InTable(qpn[e.conn]) : reqConn' = [reqConn EXCEPT ![s] = d]
  BY <1>1, <1>5
<1>7. d = e.conn
  BY <1>3, <1>4, FoundByNumber
<1>8. /\ found'[ServerCm] = s /\ reqConn'[s] = e.conn /\ UNCHANGED fault
      /\ \A u \in Slots \ {s} : reqConn'[u] = reqConn[u]
  BY <1>1, <1>2, <1>3, <1>5, <1>6, <1>7 DEF OneThread
<1>9. OldLive({s})
  BY <1>1, <1>8, StillLive
<1>10. /\ Members(Tail(swc[ServerCm])) \subseteq Members(swc[ServerCm])
       /\ s \notin Named(Tail(swc[ServerCm]), SlotOf) /\ s \in Named(swc[ServerCm], SlotOf)
       /\ Tail(swc[ServerCm]) \in Seq(ServerCqe)
  <2>1. NamedOnce(swc[ServerCm], SlotOf)
    BY DEF SlotInv, QueuedOnce, OneThread
  <2> QED
    BY <1>a, <1>1, <1>2, <1>3, <2>1, NamedTail
<1>11. s \in SlotsAt(Swc_(ServerCm))
  BY <1>10, SlotsAtSites
<1>12. \A p \in SlotSites : p # Swc_(ServerCm) => s \notin SlotsAt(p)
  BY <1>11, SitesAre DEF SlotInv, InOneSite, OneThread
<1>13. /\ s \notin Named(scq, SlotOf) /\ s \notin handling
       /\ \A c \in Conns : s \notin Named(resps[c], Itself) /\ s \notin Named(wacks[c], Itself)
  BY <1>12, SlotsAtSites, SitesAre, SitesDiffer DEF OneThread
<1>14. ASSUME NEW x \in Members(scq') \cup Members(swc'[ServerCm]) PROVE CqeLive(x)'
  <2>1. x \in Members(scq) \cup Members(swc[ServerCm])
    BY <1>1, <1>2, <1>10
  <2>2. x \in ServerCqe
    <3>1. scq \in Seq(ServerCqe)
      BY DEF SlotInv, SlotsTyped
    <3> QED
      BY <1>2, <2>1, <3>1, ElementOfSeq, LenProperties DEF Members
  <2>3. SlotOf[x] \in Named(scq, SlotOf) \cup Named(Tail(swc[ServerCm]), SlotOf)
    BY <1>1, <1>2, NamedMembers
  <2>4. x.slot # s
    BY <1>10, <1>13, <2>2, <2>3, SlotOfCqe
  <2> QED
    BY <1>9, <2>1, <2>4 DEF OldLive
<1>15. FoundLive(s)'
  BY <1>1, <1>4, <1>8 DEF FoundLive
<1>16. dying' = None
  BY <1>1 DEF Straight
<1> QED
  BY <1>1, <1>8, <1>9, <1>13, <1>14, <1>15, <1>16, StraightParts
  DEF OldLive, Straight, NoServerFault

(* An answer to a request whose connection is live.                        *)
LEMMA RespondStraight ==
  ASSUME SlotInv, Straight, OneThread, fault = "none", NEW s \in Slots,
         reqConn[s] \in Conns, HandledOn(s), Respond(s),
         Deferred \/ sst[reqConn[s]] # "freed",
         UNCHANGED <<wacks, sst, dying, from, reqConn, scq, swc>>,
         sst[reqConn[s]] \in {"none", "live", "freed"},
         handling' \subseteq handling,
         found'[ServerCm] \in {found[ServerCm], None}
  PROVE  Straight'
<1>a. PICK c : c = reqConn[s]
  OBVIOUS
<1>1. OldLive({})
  BY StillLive
<1>2. /\ \A u : u = found'[ServerCm] /\ u # None => FoundLive(u)'
      /\ \A u \in handling' : HandledOn(u)'
      /\ \A x \in Members(scq') \cup Members(swc'[ServerCm]) : CqeLive(x)'
      /\ \A d \in Conns : \A u \in Named(wacks'[d], Itself) : WriteLive(u, d)'
      /\ swc'[ServerCm] # <<>> \/ found'[ServerCm] # None => dying' = None
      /\ ~Deferred => handling' = {}
  BY <1>1 DEF OldLive, Straight
<1>3. CASE Deferred /\ fault' = "server_uaf" /\ UNCHANGED resps
  BY <1>1, <1>2, <1>3, StraightParts DEF OldLive, NoServerFault
<1>4. CASE sst[c] # "freed" /\ resps' = [resps EXCEPT ![c] = Append(@, s)] /\ UNCHANGED fault
  <2>1. resps \in [Conns -> Seq(Slots)]
    BY DEF SlotInv, SlotsTyped
  <2>2. resps'[c] = Append(resps[c], s) /\ \A d \in Conns \ {c} : resps'[d] = resps[d]
    BY <1>a, <1>4, <2>1
  <2>3. Named(resps'[c], Itself) = Named(resps[c], Itself) \cup {s}
    BY <1>a, <2>1, <2>2, NamedAppend DEF Itself
  <2>4. WriteLive(s, c)'
    BY <1>a, <1>4 DEF HandledOn, WriteLive
  <2>5. \A d \in Conns : \A u \in Named(resps'[d], Itself) : WriteLive(u, d)'
    BY <1>1, <2>2, <2>3, <2>4 DEF OldLive
  <2> QED
    BY <1>2, <1>4, <2>5, StraightParts DEF Straight, NoServerFault
<1> QED
  BY <1>a, <1>3, <1>4 DEF Respond

LEMMA CallHandlerStraight ==
  ASSUME SlotInv, TableInv, Straight, OneThread, fault = "none", CallHandler(ServerCm)
  PROVE  Straight'
<1>a. PICK s : s = found[ServerCm]
  OBVIOUS
<1>1. /\ s # None /\ found' = [found EXCEPT ![ServerCm] = None]
      /\ UNCHANGED <<wacks, sst, dying, reqConn, from, scq, swc>>
      /\ \/ ~Deferred /\ Respond(s) /\ UNCHANGED handling
         \/ /\ Deferred /\ handling' = handling \cup {s} /\ UNCHANGED resps
            /\ fault' = IF sst[reqConn[s]] = "freed" THEN "server_uaf" ELSE fault
  BY <1>a DEF CallHandler, connVars
<1>2. s \in Slots /\ found'[ServerCm] = None
  BY <1>a, <1>1 DEF SlotInv, SlotsTyped, OneThread
<1>3. FoundLive(s) /\ reqConn[s] \in Conns
  BY <1>a, <1>1 DEF Straight, SlotInv, SlotsTraced, TracedConn, OneThread
<1>4. CASE ~Deferred /\ Respond(s) /\ UNCHANGED handling
  BY <1>1, <1>2, <1>3, <1>4, RespondStraight DEF FoundLive, HandledOn
<1>5. CASE /\ Deferred /\ handling' = handling \cup {s} /\ UNCHANGED resps
           /\ fault' = IF sst[reqConn[s]] = "freed" THEN "server_uaf" ELSE fault
  <2>1. OldLive({})
    BY <1>1, StillLive
  <2>2. HandledOn(s)'
    BY <1>1, <1>3 DEF FoundLive, HandledOn
  <2>3. UNCHANGED fault
    BY <1>3, <1>5 DEF FoundLive
  <2> QED
    BY <1>1, <1>2, <1>5, <2>1, <2>2, <2>3, StraightParts DEF OldLive, Straight, NoServerFault
<1> QED
  BY <1>1, <1>4, <1>5

LEMMA MakeRespStraight ==
  ASSUME SlotInv, TableInv, Straight, OneThread, fault = "none", NEW s \in Slots, MakeResp(s)
  PROVE  Straight'
<1>1. /\ s \in handling /\ handling' = handling \ {s} /\ Respond(s)
      /\ UNCHANGED <<wacks, sst, dying, from, reqConn, found, scq, swc>>
  BY DEF MakeResp, connVars
<1>2. Deferred /\ HandledOn(s) /\ reqConn[s] \in Conns
  BY <1>1 DEF Straight, SlotInv, SlotsTraced, TracedConn
<1>3. sst[reqConn[s]] \in {"none", "live", "freed"}
  BY <1>2 DEF TableInv, ServerTyped
<1>4. handling' \subseteq handling
  BY <1>1
<1> QED
  BY <1>1, <1>2, <1>3, <1>4, RespondStraight

(* The flag that is read before a slot is posted again is the one of a     *)
(* live connection.                                                        *)
LEMMA RepostStraight ==
  ASSUME SlotInv, TableInv, Straight, OneThread, fault = "none",
         OnWriteRespDone(ServerCm) \/ OnServerError(ServerCm)
  PROVE  Straight'
<1>a. PICK e : e = Head(swc[ServerCm])
  OBVIOUS
<1>1. /\ swc[ServerCm] # <<>> /\ e.op \in {"write", "error"}
      /\ swc' = [swc EXCEPT ![ServerCm] = Tail(@)]
      /\ UNCHANGED <<resps, wacks, sst, dying, from, reqConn, found, handling, scq>>
      /\ \/ Repost(e.slot)
         \/ fault' \in {"none", "bad_opcode"}
  BY <1>a DEF OnWriteRespDone, OnServerError, AtServerCqe, respVars, connVars
<1>2. /\ swc[ServerCm] \in Seq(ServerCqe) /\ swc'[ServerCm] = Tail(swc[ServerCm])
  BY <1>1 DEF OneThread, SlotInv, SlotsTyped
<1>3. e \in Members(swc[ServerCm]) /\ Members(swc'[ServerCm]) \subseteq Members(swc[ServerCm])
  BY <1>a, <1>1, <1>2, NamedTail
<1>4. sst[reqConn[e.slot]] = "live"
  BY <1>1, <1>3 DEF Straight, CqeLive
<1>5. fault' \in {"none", "bad_opcode"}
  BY <1>1, <1>4 DEF Repost
<1>6. OldLive({})
  BY <1>1, StillLive
<1>7. \A x \in Members(scq') \cup Members(swc'[ServerCm]) : CqeLive(x)'
  BY <1>1, <1>3, <1>6 DEF OldLive
<1>8. dying' = None
  BY <1>1 DEF Straight
<1> QED
  BY <1>1, <1>5, <1>6, <1>7, <1>8, StraightParts DEF OldLive, Straight, NoServerFault

LEMMA AsideStraight ==
  ASSUME SlotInv, Straight, OneThread,
         UNCHANGED <<sst, dying, resps, wacks, reqConn, from, found, handling, scq, swc>>,
         fault' \in {fault, "none", "client_uaf", "assert_imm", "bad_opcode"}
  PROVE  Straight'
<1>1. OldLive({})
  BY StillLive
<1> QED
  BY <1>1, StraightParts DEF OldLive, Straight, NoServerFault

LEMMA StraightStep ==
  ASSUME SlotInv, TableInv, Straight, OneThread, [Next]_vars
  PROVE  Straight'
<1>1. CASE UNCHANGED vars
  <2>1. UNCHANGED <<sst, dying, resps, wacks, reqConn, from, found, handling, scq, swc, fault>>
    BY <1>1 DEF vars, respVars, serverVars, connVars, slotVars
  <2> QED
    BY <2>1, AsideStraight
<1> SUFFICES ASSUME Next PROVE Straight'
  BY <1>1
<1>2. fault = "none"
  BY DEF Next
<1>3. ASSUME UNCHANGED <<respVars, serverVars>>,
             fault' \in {fault, "none", "client_uaf", "assert_imm", "bad_opcode"}
      PROVE  Straight'
  <2>1. UNCHANGED <<sst, dying, resps, wacks, reqConn, from, found, handling, scq, swc>>
    BY <1>3 DEF respVars, serverVars, connVars, slotVars
  <2> QED
    BY <1>3, <2>1, AsideStraight
<1>4. CASE Application
  BY <1>3, <1>4 DEF Application, Connect, SendReq, Disconnect
<1>5. ASSUME NEW c \in Conns, ClientCmStep(c) PROVE Straight'
  BY <1>3, <1>5 DEF ClientCmStep, ClientProgress, OnAddrResolved, OnRouteResolved, OnConnectError,
    OnOtherEvent, OnEstablished, OnDisconnected, ClientEvent
<1>6. ASSUME NEW c \in Conns, WireStep(c) PROVE Straight'
  <2>1. CASE RnrNak(c)
    BY <1>3, <2>1 DEF RnrNak
  <2> QED
    BY <1>2, <1>6, <2>1, DeliverReqStraight, WriteStraight DEF WireStep
<1>7. ASSUME NEW c \in Conns, ServerCmStep(c) PROVE Straight'
  <2>1. CASE HashDelete(c)
    <3>1. /\ swc[ServerCm] = <<>> /\ found[ServerCm] = None
          /\ UNCHANGED <<sst, resps, wacks, reqConn, from, found, handling, scq, swc, fault>>
      BY <2>1 DEF HashDelete, ServerIdle, SArrayDone, respVars, slotVars
    <3>2. OldLive({})
      BY <3>1, StillLive
    <3> QED
      BY <3>1, <3>2, StraightParts DEF OldLive, Straight, NoServerFault
  <2> QED
    BY <1>2, <1>7, <2>1, OnConnectRequestStraight DEF ServerCmStep
<1>8. ASSUME NEW t \in CThreads, ClientStep(t) PROVE Straight'
  BY <1>3, <1>8 DEF ClientStep, ClientPoll, ClientPollEmpty, OnRecvResp, MempoolPut,
         OnClientError, OnRecvRespFailed
<1>9. ASSUME NEW t \in SThreads, ServerStep(t) PROVE Straight'
  <2>1. ServerStep(ServerCm)
    BY <1>9 DEF OneThread
  <2>2. CASE ServerPollEmpty(ServerCm)
    BY <2>2, AsideStraight DEF ServerPollEmpty, respVars, connVars
  <2> QED
    BY <1>2, <2>1, <2>2, ServerPollStraight, FindConnStraight, CallHandlerStraight,
       RepostStraight DEF ServerStep
<1> QED
  BY <1>2, <1>4, <1>5, <1>6, <1>7, <1>8, <1>9, MakeRespStraight, DestroyAndFreeStraight
  DEF Next

LEMMA StraightAlways ==
  ASSUME OneThread
  PROVE  Safety => [](SlotInv /\ TableInv /\ Straight)
<1>1. Init => SlotInv /\ TableInv /\ Straight
  BY SlotInvInit, TableInvInit, StraightInit
<1>2. SlotInv /\ TableInv /\ Straight /\ [Next]_vars => (SlotInv /\ TableInv /\ Straight)'
  BY SlotInvStep, TableInvStep, StraightStep
<1> QED BY <1>1, <1>2, PTL DEF Safety

(* With one thread in the server a request is handled and answered on the  *)
(* connection it came in on, however often connections end and the numbers *)
(* of their queue pairs are given to new ones.                             *)
THEOREM OneThreadAnswersRight ==
  ASSUME OneThread
  PROVE  Safety => []RightConnection
<1>1. SlotInv /\ Straight => RightConnection
  <2> SUFFICES ASSUME SlotInv, Straight PROVE RightConnection
    OBVIOUS
  <2>1. \A s \in handling \cup ({found[t] : t \in SThreads} \ {None}) : reqConn[s] = from[s]
    BY DEF Straight, HandledOn, FoundLive, OneThread
  <2>2. ASSUME NEW c \in Conns, NEW i \in DOMAIN resps[c] PROVE from[resps[c][i]] = c
    <3>1. resps[c][i] \in Slots
      BY ElementOfSeq, LenProperties DEF SlotInv, SlotsTyped
    <3>2. resps[c][i] \in Named(resps[c], Itself)
      BY <3>1 DEF Named, Itself
    <3> QED
      BY <3>2 DEF Straight, WriteLive
  <2> QED
    BY <2>1, <2>2 DEF RightConnection
<1> QED BY <1>1, StraightAlways, PTL

(* With one thread in the server the assertion of on_recv_req that the     *)
(* connection is found cannot fail; with several it does (conn_threads).   *)
THEOREM OneThreadFindsConnection ==
  ASSUME OneThread
  PROVE  Safety => []AssertConn
<1>1. Straight => AssertConn
  BY DEF Straight, NoServerFault, AssertConn
<1> QED BY <1>1, StraightAlways, PTL

(* With one thread in the server that answers in the handler, a request    *)
(* finds its connection (kv_rdma.c:495) and the server touches no freed    *)
(* connection, neither in kv_rdma_make_resp nor in the assertion of        *)
(* on_write_resp_done (474), however clients disconnect.  What a write     *)
(* that failed is dispatched as is not ruled out: on_recv_resp may get it. *)
THEOREM OneThreadUsesNoFreed ==
  ASSUME OneThread, ~Deferred
  PROVE  Safety => [](fault \notin {"assert_conn", "assert_server", "server_uaf"})
<1>1. Straight => fault \notin {"assert_conn", "assert_server", "server_uaf"}
  BY DEF Straight, NoServerFault
<1> QED BY <1>1, StraightAlways, PTL
-----------------------------------------------------------------------------
(* The client's side: a connection has a request outstanding for each      *)
(* response that waits to be processed and each receive that is posted.    *)

OkIn(q, c) == {i \in DOMAIN q : q[i].conn = c /\ q[i].ok}

Ccq_    == <<"ccq", None>>
Cwc_(t) == <<"cwc", t>>

ClientSites == {Ccq_} \cup {Cwc_(t) : t \in CThreads}
CqAt(p)     == IF p = Ccq_ THEN ccq ELSE cwc[p[2]]

(* The responses of a connection that no thread has processed, by place.   *)
Answered(c) == {x \in ClientSites \X Nat : x[2] \in OkIn(CqAt(x[1]), c)}

PendFits(c) ==
  IsFiniteSet(Answered(c)) /\ Cardinality(Answered(c)) + rqPosted[c] <= pend[c]

Faults == {"none", "assert_conn", "assert_imm", "assert_server", "bad_opcode",
           "client_uaf", "server_uaf"}

ClientTyped ==
  /\ cst      \in [Conns -> ClientStates]
  /\ pend     \in [Conns -> 0..MaxReq]
  /\ ccq      \in Seq(ClientCqe)
  /\ cwc      \in [CThreads -> Seq(ClientCqe)]
  /\ cput     \in [CThreads -> Conns \cup {None}]
  /\ rqPosted \in [Conns -> Nat]
  /\ reqs     \in [Conns -> Nat]
  /\ fault    \in Faults

ClientInv == ClientTyped /\ \A c \in Conns : PendFits(c)

LEMMA ClientSitesAre ==
  /\ Ccq_ \in ClientSites /\ CqAt(Ccq_) = ccq
  /\ \A t \in CThreads : Cwc_(t) \in ClientSites /\ CqAt(Cwc_(t)) = cwc[t] /\ Cwc_(t) # Ccq_
  /\ \A t, u \in CThreads : Cwc_(t) = Cwc_(u) => t = u
  /\ \A p \in ClientSites : p = Ccq_ \/ \E t \in CThreads : p = Cwc_(t)
BY DEF Ccq_, Cwc_, ClientSites, CqAt

LEMMA ClientSitesNext ==
  /\ CqAt(Ccq_)' = ccq'
  /\ \A t \in CThreads : CqAt(Cwc_(t))' = cwc'[t]
BY DEF Ccq_, Cwc_, CqAt

LEMMA Injects ==
  ASSUME NEW S, NEW T, IsFiniteSet(S), NEW g,
         \A x \in T : g[x] \in S,
         \A x, y \in T : g[x] = g[y] => x = y
  PROVE  /\ IsFiniteSet(T) /\ Cardinality(T) \in Nat /\ Cardinality(S) \in Nat
         /\ Cardinality(T) <= Cardinality(S)
<1> DEFINE f == [x \in T |-> g[x]]
<1>1. f \in Injection(T, S)
  BY DEF Injection, IsInjective
<1> QED
  BY <1>1, FS_Injection, FS_CardinalityType

(* A step that leaves the responses where they are.                        *)
LEMMA PendStays ==
  ASSUME NEW c \in Conns, PendFits(c), NEW d \in Nat,
         Answered(c)' = Answered(c),
         rqPosted'[c] <= rqPosted[c] + d, pend'[c] = pend[c] + d,
         rqPosted[c] \in Nat, rqPosted'[c] \in Nat, pend[c] \in Nat
  PROVE  PendFits(c)'
<1>1. /\ IsFiniteSet(Answered(c)) /\ Cardinality(Answered(c)) \in Nat
      /\ Cardinality(Answered(c)) + rqPosted[c] <= pend[c]
  BY FS_CardinalityType DEF PendFits
<1>2. Cardinality(Answered(c)) + rqPosted'[c] <= pend'[c]
  BY <1>1
<1> QED
  BY <1>1, <1>2 DEF PendFits

LEMMA AnsweredSame ==
  ASSUME NEW c, \A p \in ClientSites : OkIn(CqAt(p), c)' = OkIn(CqAt(p), c)
  PROVE  Answered(c)' = Answered(c)
<1>1. ClientSites' = ClientSites
  BY DEF ClientSites, Ccq_, Cwc_
<1>2. ASSUME NEW x \in ClientSites \X Nat
      PROVE  (x[2] \in OkIn(CqAt(x[1]), c))' <=> x[2] \in OkIn(CqAt(x[1]), c)
  BY <1>2
<1> QED
  BY <1>1, <1>2 DEF Answered

LEMMA SitesOk ==
  ASSUME NEW c, OkIn(ccq', c) = OkIn(ccq, c), UNCHANGED cwc
  PROVE  Answered(c)' = Answered(c)
<1>1. OkIn(CqAt(Ccq_), c)' = OkIn(CqAt(Ccq_), c)
  BY ClientSitesAre, ClientSitesNext DEF OkIn
<1>2. \A t \in CThreads : OkIn(CqAt(Cwc_(t)), c)' = OkIn(CqAt(Cwc_(t)), c)
  BY ClientSitesAre, ClientSitesNext DEF OkIn
<1>3. ASSUME NEW p \in ClientSites PROVE OkIn(CqAt(p), c)' = OkIn(CqAt(p), c)
  <2>1. ASSUME NEW t \in CThreads, p = Cwc_(t) PROVE OkIn(CqAt(p), c)' = OkIn(CqAt(p), c)
    BY <1>2, <2>1 DEF OkIn
  <2> QED
    BY <1>1, <2>1, ClientSitesAre
<1> QED
  BY <1>3, AnsweredSame

LEMMA FlushedOk ==
  ASSUME NEW q \in Seq(ClientCqe), NEW d \in Conns, NEW m \in Nat, NEW n \in Nat
  PROVE  /\ Flushed(d, m, n) \in Seq(ClientCqe)
         /\ q \o Flushed(d, m, n) \in Seq(ClientCqe)
         /\ \A c : OkIn(q \o Flushed(d, m, n), c) = OkIn(q, c)
<1> DEFINE r == Flushed(d, m, n)
           z == q \o r
<1>1. PICK l \in Nat : l = m + n
  OBVIOUS
<1>2. r \in [1..l -> ClientCqe] /\ DOMAIN r = 1..l /\ \A i \in 1..l : r[i].ok = FALSE
  BY <1>1 DEF Flushed, ClientCqe
<1>3. r \in Seq(ClientCqe)
  BY <1>2, SeqDef
<1>4. Len(r) = l
  BY <1>2, <1>3, LenProperties
<1> HIDE DEF r
<1>5. /\ z \in Seq(ClientCqe) /\ Len(z) = Len(q) + l
      /\ \A i \in 1..Len(q) + l : z[i] = IF i <= Len(q) THEN q[i] ELSE r[i - Len(q)]
  BY <1>3, <1>4, ConcatProperties
<1>6. Len(q) \in Nat /\ DOMAIN q = 1..Len(q) /\ DOMAIN z = 1..(Len(q) + l)
  BY <1>5, LenProperties
<1> HIDE DEF z
<1>7. ASSUME NEW c PROVE OkIn(z, c) = OkIn(q, c)
  <2>1. \A i \in DOMAIN q : i \in DOMAIN z /\ z[i] = q[i]
    BY <1>5, <1>6
  <2>2. ASSUME NEW i \in DOMAIN z, i \notin DOMAIN q PROVE ~ z[i].ok
    <3>1. ~(i <= Len(q)) /\ i - Len(q) \in 1..l /\ i \in 1..Len(q) + l
      BY <1>6, <2>2
    <3>2. z[i] = r[i - Len(q)]
      BY <1>5, <3>1
    <3> QED
      BY <1>2, <3>1, <3>2
  <2> QED
    BY <2>1, <2>2 DEF OkIn
<1> QED
  BY <1>3, <1>5, <1>7 DEF r, z

(* A queue pair in error takes its receives and requests back; responses   *)
(* that have completed are not touched.                                    *)
LEMMA QpErrorPend ==
  ASSUME ClientInv, NEW c \in Conns, QpError(c), UNCHANGED <<pend, cwc, cput, fault>>,
         cst' \in [Conns -> ClientStates]
  PROVE  ClientInv'
<1>1. rqPosted[c] \in Nat /\ reqs[c] \in Nat /\ ccq \in Seq(ClientCqe)
  BY DEF ClientInv, ClientTyped
<1>2. /\ rqPosted' = [rqPosted EXCEPT ![c] = 0] /\ reqs' = [reqs EXCEPT ![c] = 0]
      /\ ccq' = ccq \o Flushed(c, rqPosted[c], reqs[c])
  BY DEF QpError
<1>3. ccq' \in Seq(ClientCqe) /\ \A d : OkIn(ccq', d) = OkIn(ccq, d)
  <2>1. PICK m \in Nat, n \in Nat : m = rqPosted[c] /\ n = reqs[c]
    BY <1>1
  <2>2. /\ ccq \o Flushed(c, m, n) \in Seq(ClientCqe)
        /\ \A d : OkIn(ccq \o Flushed(c, m, n), d) = OkIn(ccq, d)
    BY <1>1, FlushedOk
  <2> QED
    BY <1>2, <2>1, <2>2
<1>4. ClientTyped'
  BY <1>2, <1>3 DEF ClientInv, ClientTyped
<1>5. ASSUME NEW d \in Conns PROVE PendFits(d)'
  <2>1. OkIn(ccq', d) = OkIn(ccq, d)
    BY <1>3
  <2>2. Answered(d)' = Answered(d)
    BY <2>1, SitesOk
  <2>3. /\ rqPosted[d] \in Nat /\ rqPosted'[d] \in Nat /\ pend[d] \in Nat
        /\ rqPosted'[d] <= rqPosted[d] + 0 /\ pend'[d] = pend[d] + 0
    BY <1>2 DEF ClientInv, ClientTyped
  <2> QED
    BY <2>2, <2>3, PendStays DEF ClientInv
<1> QED
  BY <1>4, <1>5 DEF ClientInv

LEMMA SendReqPend ==
  ASSUME ClientInv, ConnAssumption, NEW t \in CThreads, NEW c \in Conns, SendReq(t, c)
  PROVE  ClientInv'
<1>1. /\ ccq \in Seq(ClientCqe) /\ pend[c] < MaxReq /\ pend' = [pend EXCEPT ![c] = @ + 1]
      /\ pend \in [Conns -> 0..MaxReq] /\ MaxReq \in Nat
      /\ UNCHANGED <<cst, cwc, cput, fault>>
  BY DEF SendReq, ClientInv, ClientTyped, ConnAssumption
<1>2. /\ ccq' \in Seq(ClientCqe) /\ \A d : OkIn(ccq', d) = OkIn(ccq, d)
      /\ rqPosted' \in [Conns -> Nat] /\ reqs' \in [Conns -> Nat]
      /\ \A d \in Conns \ {c} : rqPosted'[d] = rqPosted[d]
      /\ rqPosted'[c] <= rqPosted[c] + 1
  <2>1. CASE c \in qpErr
    <3>1. ccq' = ccq \o Flushed(c, 1, 1) /\ rqPosted' = rqPosted /\ reqs' = reqs
      BY <2>1 DEF SendReq
    <3>2. ccq' \in Seq(ClientCqe) /\ \A d : OkIn(ccq', d) = OkIn(ccq, d)
      BY <1>1, <3>1, FlushedOk
    <3> QED
      BY <3>1, <3>2 DEF ClientInv, ClientTyped
  <2>2. CASE c \notin qpErr
    <3>1. /\ ccq' = ccq /\ rqPosted' = [rqPosted EXCEPT ![c] = @ + 1]
          /\ reqs' = [reqs EXCEPT ![c] = @ + 1]
      BY <2>2 DEF SendReq
    <3> QED
      BY <1>1, <3>1 DEF ClientInv, ClientTyped
  <2> QED
    BY <2>1, <2>2
<1>3. pend' \in [Conns -> 0..MaxReq]
  <2>1. pend[c] + 1 \in 0..MaxReq
    BY <1>1
  <2> QED
    BY <1>1, <2>1
<1>4. ClientTyped'
  BY <1>1, <1>2, <1>3 DEF ClientInv, ClientTyped
<1>5. ASSUME NEW d \in Conns PROVE PendFits(d)'
  <2>1. OkIn(ccq', d) = OkIn(ccq, d)
    BY <1>2
  <2>2. Answered(d)' = Answered(d)
    BY <1>1, <2>1, SitesOk
  <2>a. rqPosted \in [Conns -> Nat] /\ rqPosted' \in [Conns -> Nat] /\ pend \in [Conns -> 0..MaxReq]
    BY <1>1, <1>2 DEF ClientInv, ClientTyped
  <2>3. rqPosted[d] \in Nat /\ rqPosted'[d] \in Nat /\ pend[d] \in Nat
    BY <2>a
  <2>4. CASE d = c
    <3>1. rqPosted'[d] <= rqPosted[d] + 1 /\ pend'[d] = pend[d] + 1 /\ 1 \in Nat
      BY <1>1, <1>2, <2>4
    <3>2. PendFits(d)
      BY DEF ClientInv
    <3> QED
      BY <2>2, <2>3, <3>1, <3>2, PendStays
  <2>5. CASE d # c
    <3>1. rqPosted'[d] = rqPosted[d] /\ pend'[d] = pend[d]
      BY <1>1, <1>2, <2>5
    <3>2. rqPosted'[d] <= rqPosted[d] + 0 /\ pend'[d] = pend[d] + 0 /\ 0 \in Nat
      BY <2>3, <3>1
    <3>3. PendFits(d)
      BY DEF ClientInv
    <3> QED
      BY <2>2, <2>3, <3>2, <3>3, PendStays
  <2> QED
    BY <2>4, <2>5
<1> QED
  BY <1>4, <1>5 DEF ClientInv

(* A response that arrives uses up a receive.                              *)
LEMMA OkAppend ==
  ASSUME NEW q \in Seq(ClientCqe), NEW c \in Conns
  PROVE  LET e == [conn |-> c, recv |-> TRUE, ok |-> TRUE]
             r == Append(q, e)
         IN  /\ r \in Seq(ClientCqe) /\ Len(q) + 1 \in Nat
             /\ OkIn(r, c) = OkIn(q, c) \cup {Len(q) + 1}
             /\ \A d : d # c => OkIn(r, d) = OkIn(q, d)
<1> DEFINE e == [conn |-> c, recv |-> TRUE, ok |-> TRUE]
           r == Append(q, e)
<1>1. e \in ClientCqe
  BY DEF ClientCqe
<1>2. /\ r \in Seq(ClientCqe) /\ Len(r) = Len(q) + 1 /\ r[Len(q) + 1] = e
      /\ \A i \in 1..Len(q) : r[i] = q[i]
  BY <1>1, AppendProperties
<1>3. /\ Len(q) \in Nat /\ DOMAIN q = 1..Len(q) /\ DOMAIN r = 1..(Len(q) + 1)
  BY <1>2, LenProperties
<1>4. /\ r[Len(q) + 1].conn = c /\ r[Len(q) + 1].ok
  BY <1>2
<1> HIDE DEF r, e
<1>5. \A i \in DOMAIN r : i \in DOMAIN q \/ i = Len(q) + 1
  BY <1>3
<1>6. Len(q) + 1 \in DOMAIN r /\ Len(q) + 1 \notin DOMAIN q /\ \A i \in DOMAIN q : i \in DOMAIN r
  BY <1>3
<1>7. OkIn(r, c) = OkIn(q, c) \cup {Len(q) + 1}
  BY <1>2, <1>3, <1>4, <1>5, <1>6 DEF OkIn
<1>8. \A d : d # c => OkIn(r, d) = OkIn(q, d)
  BY <1>2, <1>3, <1>4, <1>5, <1>6 DEF OkIn
<1>9. r \in Seq(ClientCqe) /\ Len(q) + 1 \in Nat
  BY <1>2, <1>3
<1> QED
  BY <1>7, <1>8, <1>9 DEF r, e

LEMMA AnsweredMore ==
  ASSUME NEW c, NEW k \in Nat, OkIn(ccq', c) = OkIn(ccq, c) \cup {k}, UNCHANGED cwc
  PROVE  Answered(c)' = Answered(c) \cup {<<Ccq_, k>>}
<1>1. ClientSites' = ClientSites
  BY DEF ClientSites, Ccq_, Cwc_
<1>2. \A t \in CThreads : CqAt(Cwc_(t))' = CqAt(Cwc_(t))
  BY ClientSitesAre, ClientSitesNext
<1>3. OkIn(CqAt(Ccq_), c)' = OkIn(CqAt(Ccq_), c) \cup {k}
  BY ClientSitesAre, ClientSitesNext DEF OkIn
<1>4. ASSUME NEW p \in ClientSites, NEW i \in Nat
      PROVE  (i \in OkIn(CqAt(p), c))' <=> i \in OkIn(CqAt(p), c) \/ (p = Ccq_ /\ i = k)
  <2>1. CASE p = Ccq_
    BY <1>3, <2>1
  <2>2. ASSUME NEW t \in CThreads, p = Cwc_(t)
        PROVE  (i \in OkIn(CqAt(p), c))' <=> i \in OkIn(CqAt(p), c)
    BY <1>2, <2>2 DEF OkIn
  <2> QED
    BY <2>1, <2>2, ClientSitesAre
<1>5. Ccq_ \in ClientSites
  BY ClientSitesAre
<1>6. \A x : x \in Answered(c)' <=> x \in ClientSites \X Nat /\ (x[2] \in OkIn(CqAt(x[1]), c))'
  BY <1>1 DEF Answered
<1>7. \A x \in ClientSites \X Nat :
        (x[2] \in OkIn(CqAt(x[1]), c))' <=> x[2] \in OkIn(CqAt(x[1]), c) \/ x = <<Ccq_, k>>
  BY <1>4
<1> QED
  BY <1>5, <1>6, <1>7 DEF Answered

(* The responses in place a go to place b, or stay there and move up; those*)
(* at X leave.                                                             *)
LineMove(c, a, b, k, X) ==
  /\ \A i \in OkIn(CqAt(b), c)' : k[i] \in OkIn(CqAt(a), c) \ X /\ k[i] \in Nat
  /\ \A i, j \in OkIn(CqAt(b), c)' : k[i] = k[j] => i = j
  /\ a = b \/ OkIn(CqAt(a), c)' = {}
  /\ \A p \in ClientSites \ {a, b} : OkIn(CqAt(p), c)' = OkIn(CqAt(p), c)

LEMMA LineMoves ==
  ASSUME NEW c, IsFiniteSet(Answered(c)), NEW a \in ClientSites, NEW b \in ClientSites,
         NEW k, NEW X, LineMove(c, a, b, k, X)
  PROVE  LET Y == Answered(c) \ {<<a, i>> : i \in X}
         IN  /\ IsFiniteSet(Answered(c)') /\ Cardinality(Answered(c)') \in Nat
             /\ Cardinality(Y) \in Nat /\ IsFiniteSet(Y)
             /\ Cardinality(Answered(c)') <= Cardinality(Y)
<1> DEFINE Y == Answered(c) \ {<<a, i>> : i \in X}
           g == [x \in Answered(c)' |-> IF x[1] = b THEN <<a, k[x[2]]>> ELSE x]
<1>a. /\ \A i \in OkIn(CqAt(b), c)' : k[i] \in OkIn(CqAt(a), c) \ X /\ k[i] \in Nat
      /\ \A i, j \in OkIn(CqAt(b), c)' : k[i] = k[j] => i = j
      /\ a = b \/ OkIn(CqAt(a), c)' = {}
      /\ \A p \in ClientSites \ {a, b} : OkIn(CqAt(p), c)' = OkIn(CqAt(p), c)
  BY DEF LineMove
<1>0. IsFiniteSet(Y)
  <2>1. Y \subseteq Answered(c)
    OBVIOUS
  <2> HIDE DEF Y
  <2> QED
    BY <2>1, FS_Subset
<1>1. ClientSites' = ClientSites
  BY DEF ClientSites, Ccq_, Cwc_
<1>2. ASSUME NEW x \in Answered(c)'
      PROVE  /\ x \in ClientSites \X Nat /\ (x[2] \in OkIn(CqAt(x[1]), c))'
             /\ x[1] = b => x[2] \in OkIn(CqAt(b), c)' /\ k[x[2]] \in OkIn(CqAt(a), c) \ X
             /\ x[1] = b => k[x[2]] \in Nat
             /\ x[1] # b => x[1] # a /\ x \in Answered(c)
  <2>1. x \in ClientSites \X Nat /\ (x[2] \in OkIn(CqAt(x[1]), c))'
    BY <1>1, <1>2 DEF Answered
  <2>2. x[1] = b => x[2] \in OkIn(CqAt(b), c)'
    BY <2>1
  <2>5. x[1] = b => k[x[2]] \in OkIn(CqAt(a), c) \ X /\ k[x[2]] \in Nat
    BY <1>a, <2>2
  <2>3. x[1] # b => x[1] # a
    <3>1. CASE a # b /\ x[1] = a
      <4>1. x[2] \in OkIn(CqAt(a), c)'
        BY <2>1, <3>1
      <4> QED
        BY <1>a, <3>1, <4>1
    <3> QED
      BY <3>1
  <2>4. ASSUME x[1] # b PROVE x \in Answered(c)
    <3>1. x[1] \in ClientSites \ {a, b}
      BY <2>1, <2>3, <2>4
    <3>2. PICK p : p = x[1]
      OBVIOUS
    <3>3. x[2] \in OkIn(CqAt(p), c)'
      BY <2>1, <3>2
    <3>4. OkIn(CqAt(p), c)' = OkIn(CqAt(p), c)
      BY <1>a, <3>1, <3>2
    <3>5. x[2] \in OkIn(CqAt(x[1]), c)
      BY <3>2, <3>3, <3>4
    <3> QED
      BY <2>1, <3>5 DEF Answered
  <2> QED
    BY <2>1, <2>2, <2>3, <2>4, <2>5
<1>3. ASSUME NEW x \in Answered(c)' PROVE g[x] \in Y
  <2>1. CASE x[1] = b
    <3>1. g[x] = <<a, k[x[2]]>>
      BY <2>1
    <3>2. <<a, k[x[2]]>> \in Answered(c)
      BY <1>2, <2>1 DEF Answered
    <3>3. k[x[2]] \notin X
      BY <1>2, <2>1
    <3> QED
      BY <3>1, <3>2, <3>3
  <2>2. CASE x[1] # b
    BY <1>2, <2>2
  <2> QED
    BY <2>1, <2>2
<1>4. ASSUME NEW x \in Answered(c)', NEW y \in Answered(c)', g[x] = g[y] PROVE x = y
  <2>1. x[1] # b => g[x] = x /\ x[1] # a
    BY <1>2
  <2>2. y[1] # b => g[y] = y /\ y[1] # a
    BY <1>2
  <2>3. x[1] = b => g[x] = <<a, k[x[2]]>>
    OBVIOUS
  <2>4. y[1] = b => g[y] = <<a, k[y[2]]>>
    OBVIOUS
  <2>5. CASE x[1] = b /\ y[1] = b
    <3>1. k[x[2]] = k[y[2]]
      BY <1>4, <2>3, <2>4, <2>5
    <3>2. x[2] = y[2]
      BY <1>2, <1>a, <2>5, <3>1
    <3> QED
      BY <1>2, <2>5, <3>2
  <2> HIDE DEF g
  <2> QED
    BY <1>4, <2>1, <2>2, <2>3, <2>4, <2>5
<1>5. PICK T : T = Answered(c)'
  OBVIOUS
<1> HIDE DEF g, Y
<1>6. (\A x \in T : g[x] \in Y) /\ (\A x, y \in T : g[x] = g[y] => x = y)
  BY <1>3, <1>4, <1>5
<1>7. /\ IsFiniteSet(T) /\ Cardinality(T) \in Nat /\ Cardinality(Y) \in Nat
      /\ Cardinality(T) <= Cardinality(Y)
  BY <1>0, <1>6, Injects
<1> QED
  BY <1>0, <1>5, <1>7 DEF Y

LEMMA PendGoes ==
  ASSUME NEW c \in Conns, PendFits(c), NEW Y, NEW n \in {0, 1},
         Y \subseteq Answered(c), IsFiniteSet(Y),
         n = 1 => \E x \in Answered(c) : x \notin Y,
         IsFiniteSet(Answered(c)'), Cardinality(Answered(c)') <= Cardinality(Y),
         rqPosted'[c] = rqPosted[c], pend'[c] = pend[c] - n,
         rqPosted[c] \in Nat, pend[c] \in Nat
  PROVE  PendFits(c)' /\ pend[c] >= n
<1>1. PICK x, y, z \in Nat : /\ x = Cardinality(Answered(c)) /\ y = Cardinality(Y)
                             /\ z = Cardinality(Answered(c)')
  BY FS_CardinalityType DEF PendFits
<1>2. IsFiniteSet(Answered(c)) /\ x + rqPosted[c] <= pend[c] /\ z <= y
  BY <1>1 DEF PendFits
<1>3. y <= x /\ (y = x => Y = Answered(c))
  BY <1>1, <1>2, FS_Subset
<1>4. n = 1 => y < x
  BY <1>3
<1>5. z + rqPosted[c] <= pend[c] - n /\ pend[c] >= n
  BY <1>2, <1>3, <1>4
<1> QED
  BY <1>1, <1>5 DEF PendFits

LEMMA OkTail ==
  ASSUME NEW q \in Seq(ClientCqe), q # <<>>, NEW c
  PROVE  /\ \A i \in OkIn(Tail(q), c) : i + 1 \in OkIn(q, c) \ {1} /\ i \in Nat
         /\ Head(q).ok => 1 \in OkIn(q, Head(q).conn)
         /\ Head(q).ok => \A i \in OkIn(q, c) : i = 1 => c = Head(q).conn
         /\ Head(q) \in ClientCqe /\ Tail(q) \in Seq(ClientCqe)
<1> DEFINE r == Tail(q)
<1>1. /\ DOMAIN q = 1..Len(q) /\ Len(q) \in Nat \ {0}
      /\ DOMAIN r = 1..(Len(q) - 1) /\ r \in Seq(ClientCqe)
      /\ \A i \in 1..(Len(q) - 1) : r[i] = q[i + 1]
      /\ Head(q) = q[1] /\ Head(q) \in ClientCqe
  BY HeadTailProperties, EmptySeq, LenProperties
<1> HIDE DEF r
<1>2. \A i \in DOMAIN r : i + 1 \in DOMAIN q /\ i + 1 # 1 /\ r[i] = q[i + 1] /\ i \in Nat
  BY <1>1
<1>3. 1 \in DOMAIN q
  BY <1>1
<1>4. \A i \in OkIn(r, c) : i + 1 \in OkIn(q, c) \ {1} /\ i \in Nat
  BY <1>2 DEF OkIn
<1> QED
  BY <1>1, <1>3, <1>4 DEF OkIn, r

(* A pure move, or a purge.                                                *)
LEMMA PendMoved ==
  ASSUME NEW c \in Conns, PendFits(c), NEW a \in ClientSites, NEW b \in ClientSites, NEW k,
         \A i \in OkIn(CqAt(b), c)' : k[i] \in OkIn(CqAt(a), c) /\ k[i] \in Nat,
         \A i, j \in OkIn(CqAt(b), c)' : k[i] = k[j] => i = j,
         a = b \/ OkIn(CqAt(a), c)' = {},
         \A p \in ClientSites \ {a, b} : OkIn(CqAt(p), c)' = OkIn(CqAt(p), c),
         rqPosted'[c] = rqPosted[c], pend'[c] = pend[c],
         rqPosted[c] \in Nat, pend[c] \in Nat
  PROVE  PendFits(c)'
<1>1. IsFiniteSet(Answered(c))
  BY DEF PendFits
<1>2. LineMove(c, a, b, k, {})
  BY DEF LineMove
<1> DEFINE X == {}
           Y == Answered(c) \ {<<a, i>> : i \in X}
<1>3. /\ IsFiniteSet(Answered(c)') /\ IsFiniteSet(Y)
      /\ Cardinality(Answered(c)') <= Cardinality(Y)
  BY <1>1, <1>2, LineMoves
<1>4. Y \subseteq Answered(c)
  OBVIOUS
<1> HIDE DEF Y
<1>5. PICK x, y, z \in Nat : /\ x = Cardinality(Answered(c)) /\ y = Cardinality(Y)
                             /\ z = Cardinality(Answered(c)')
  BY <1>1, <1>3, FS_CardinalityType
<1>6. x + rqPosted[c] <= pend[c] /\ z <= y
  BY <1>3, <1>5 DEF PendFits
<1>7. y <= x
  BY <1>1, <1>4, <1>5, FS_Subset
<1>8. z + rqPosted'[c] <= pend'[c]
  BY <1>6, <1>7
<1> QED
  BY <1>3, <1>5, <1>8 DEF PendFits

(* The client's queues hold completions.                                   *)
LEMMA OkInNat ==
  ASSUME NEW q \in Seq(ClientCqe), NEW c, NEW i \in OkIn(q, c)
  PROVE  i \in Nat
BY LenProperties DEF OkIn

LEMMA ClientPollPend ==
  ASSUME ClientInv, NEW t \in CThreads, ClientPoll(t)
  PROVE  ClientInv'
<1>1. /\ cwc[t] = <<>> /\ cwc' = [cwc EXCEPT ![t] = ccq] /\ ccq' = <<>>
      /\ UNCHANGED <<cst, pend, cput, rqPosted, reqs, fault>>
  BY DEF ClientPoll, ArrayDone, qpVars
<1>2. /\ ccq \in Seq(ClientCqe) /\ cwc \in [CThreads -> Seq(ClientCqe)]
      /\ rqPosted \in [Conns -> Nat] /\ pend \in [Conns -> 0..MaxReq]
  BY DEF ClientInv, ClientTyped
<1>3. /\ cwc'[t] = ccq /\ \A u \in CThreads \ {t} : cwc'[u] = cwc[u]
      /\ cwc' \in [CThreads -> Seq(ClientCqe)] /\ ccq' \in Seq(ClientCqe)
  <2>1. <<>> \in Seq(ClientCqe)
    BY EmptySeq
  <2> QED
    BY <1>1, <1>2, <2>1
<1>4. ClientTyped'
  BY <1>1, <1>3 DEF ClientInv, ClientTyped
<1>5. ASSUME NEW c \in Conns PROVE PendFits(c)'
  <2> DEFINE a == Ccq_
             b == Cwc_(t)
             k == [i \in Nat |-> i]
  <2>1. OkIn(CqAt(b), c)' = OkIn(CqAt(a), c) /\ OkIn(CqAt(a), c)' = {}
    BY <1>1, <1>3, ClientSitesAre, ClientSitesNext DEF OkIn
  <2>2. \A i \in OkIn(CqAt(b), c)' : i \in Nat
    BY <1>2, <2>1, OkInNat, ClientSitesAre
  <2>3. ASSUME NEW p \in ClientSites \ {a, b} PROVE OkIn(CqAt(p), c)' = OkIn(CqAt(p), c)
    <3>1. PICK u \in CThreads \ {t} : p = Cwc_(u)
      BY ClientSitesAre
    <3>2. OkIn(CqAt(Cwc_(u)), c)' = OkIn(CqAt(Cwc_(u)), c)
      BY <1>3, ClientSitesAre, ClientSitesNext DEF OkIn
    <3> QED
      BY <3>1, <3>2 DEF OkIn
  <2>4. /\ a \in ClientSites /\ b \in ClientSites /\ PendFits(c)
        /\ rqPosted'[c] = rqPosted[c] /\ pend'[c] = pend[c]
        /\ rqPosted[c] \in Nat /\ pend[c] \in Nat
    BY <1>1, <1>2, ClientSitesAre DEF ClientInv
  <2>5. /\ \A i \in OkIn(CqAt(b), c)' : k[i] \in OkIn(CqAt(a), c) /\ k[i] \in Nat
        /\ \A i, j \in OkIn(CqAt(b), c)' : k[i] = k[j] => i = j
    BY <2>1, <2>2
  <2> HIDE DEF a, b, k
  <2> QED
    BY <2>1, <2>3, <2>4, <2>5, PendMoved
<1> QED
  BY <1>4, <1>5 DEF ClientInv

LEMMA OnDisconnectedPend ==
  ASSUME ClientInv, NEW d \in Conns, OnDisconnected(d)
  PROVE  ClientInv'
<1>1. /\ cst' = [cst EXCEPT ![d] = "closed"] /\ ccq' = PurgeCq(ccq, d)
      /\ UNCHANGED <<pend, cwc, cput, rqPosted, reqs, fault>>
  BY DEF OnDisconnected, ClientEvent, qpVars
<1>2. /\ ccq \in Seq(ClientCqe) /\ cwc \in [CThreads -> Seq(ClientCqe)]
      /\ rqPosted \in [Conns -> Nat] /\ pend \in [Conns -> 0..MaxReq]
      /\ cst \in [Conns -> ClientStates]
  BY DEF ClientInv, ClientTyped
<1>3. ccq' \in Seq(ClientCqe)
  BY <1>1, <1>2, NamedPurge
<1>4. ClientTyped'
  BY <1>1, <1>2, <1>3 DEF ClientInv, ClientTyped, ClientStates
<1>5. PICK n \in Nat : \E f \in Bijection(1..n, Kept(ccq, d)) : ccq' = [k \in 1..n |-> ccq[f[k]]]
  BY <1>1, <1>2, PurgeSelects
<1>6. PICK f \in Bijection(1..n, Kept(ccq, d)) : ccq' = [k \in 1..n |-> ccq[f[k]]]
  BY <1>5
<1>7. /\ \A i \in 1..n : f[i] \in Kept(ccq, d)
      /\ \A i, j \in 1..n : f[i] = f[j] => i = j
  BY DEF Bijection, Injection, Surjection, IsInjective
<1>8. \A i \in Kept(ccq, d) : i \in DOMAIN ccq /\ i \in Nat
  BY <1>2, LenProperties DEF Kept
<1>9. ASSUME NEW c \in Conns PROVE PendFits(c)'
  <2> DEFINE a == Ccq_
  <2>1. OkIn(CqAt(a), c)' = OkIn(ccq', c) /\ OkIn(CqAt(a), c) = OkIn(ccq, c)
    BY ClientSitesAre, ClientSitesNext DEF OkIn
  <2>2. \A i \in OkIn(ccq', c) : i \in 1..n /\ f[i] \in OkIn(ccq, c) /\ f[i] \in Nat
    BY <1>6, <1>7, <1>8 DEF OkIn
  <2>3. ASSUME NEW p \in ClientSites \ {a} PROVE OkIn(CqAt(p), c)' = OkIn(CqAt(p), c)
    <3>1. PICK u \in CThreads : p = Cwc_(u)
      BY ClientSitesAre
    <3>2. OkIn(CqAt(Cwc_(u)), c)' = OkIn(CqAt(Cwc_(u)), c)
      BY <1>1, ClientSitesAre, ClientSitesNext DEF OkIn
    <3> QED
      BY <3>1, <3>2 DEF OkIn
  <2>4. /\ a \in ClientSites /\ PendFits(c)
        /\ rqPosted'[c] = rqPosted[c] /\ pend'[c] = pend[c]
        /\ rqPosted[c] \in Nat /\ pend[c] \in Nat
    BY <1>1, <1>2, ClientSitesAre DEF ClientInv
  <2>5. /\ \A i \in OkIn(CqAt(a), c)' : f[i] \in OkIn(CqAt(a), c) /\ f[i] \in Nat
        /\ \A i, j \in OkIn(CqAt(a), c)' : f[i] = f[j] => i = j
    BY <1>7, <2>1, <2>2
  <2> HIDE DEF a
  <2> QED
    BY <2>3, <2>4, <2>5, PendMoved
<1> QED
  BY <1>4, <1>9 DEF ClientInv

(* A thread has dealt with its first completion.                           *)
LEMMA HeadGone ==
  ASSUME ClientInv, NEW t \in CThreads, cwc[t] # <<>>,
         cwc' = [cwc EXCEPT ![t] = Tail(@)], UNCHANGED ccq, NEW c \in Conns
  PROVE  \E Y : /\ Y \subseteq Answered(c) /\ IsFiniteSet(Y) /\ IsFiniteSet(Answered(c)')
                /\ Cardinality(Answered(c)') <= Cardinality(Y)
                /\ Head(cwc[t]).ok /\ c = Head(cwc[t]).conn =>
                     \E x \in Answered(c) : x \notin Y
<1> DEFINE a == Cwc_(t)
           k == [i \in Nat |-> i + 1]
           X == {1}
           Y == Answered(c) \ {<<a, i>> : i \in X}
<1>1. cwc \in [CThreads -> Seq(ClientCqe)] /\ cwc[t] \in Seq(ClientCqe)
  BY DEF ClientInv, ClientTyped
<1>2. cwc'[t] = Tail(cwc[t]) /\ \A u \in CThreads \ {t} : cwc'[u] = cwc[u]
  BY <1>1
<1>3. OkIn(CqAt(a), c)' = OkIn(Tail(cwc[t]), c) /\ OkIn(CqAt(a), c) = OkIn(cwc[t], c)
  <2>1. CqAt(Cwc_(t))' = Tail(cwc[t]) /\ CqAt(Cwc_(t)) = cwc[t]
    BY <1>2, ClientSitesAre, ClientSitesNext
  <2> QED
    BY <2>1 DEF OkIn
<1>4. \A i \in OkIn(Tail(cwc[t]), c) : i + 1 \in OkIn(cwc[t], c) \ {1} /\ i \in Nat
  BY <1>1, OkTail
<1>5. ASSUME NEW p \in ClientSites \ {a} PROVE OkIn(CqAt(p), c)' = OkIn(CqAt(p), c)
  <2>1. CASE p = Ccq_
    <3>1. OkIn(CqAt(Ccq_), c)' = OkIn(CqAt(Ccq_), c)
      BY ClientSitesAre, ClientSitesNext DEF OkIn
    <3> QED
      BY <2>1, <3>1 DEF OkIn
  <2>2. ASSUME NEW u \in CThreads \ {t}, p = Cwc_(u)
        PROVE  OkIn(CqAt(p), c)' = OkIn(CqAt(p), c)
    <3>1. OkIn(CqAt(Cwc_(u)), c)' = OkIn(CqAt(Cwc_(u)), c)
      BY <1>2, ClientSitesAre, ClientSitesNext DEF OkIn
    <3> QED
      BY <2>2, <3>1 DEF OkIn
  <2> QED
    BY <2>1, <2>2, ClientSitesAre
<1>6. a \in ClientSites /\ IsFiniteSet(Answered(c))
  BY ClientSitesAre DEF ClientInv, PendFits
<1>7. /\ \A i \in OkIn(CqAt(a), c)' : k[i] \in OkIn(CqAt(a), c) \ X /\ k[i] \in Nat
      /\ \A i, j \in OkIn(CqAt(a), c)' : k[i] = k[j] => i = j
  BY <1>3, <1>4
<1>8. Head(cwc[t]).ok /\ c = Head(cwc[t]).conn => <<a, 1>> \in Answered(c) \ Y
  <2>1. Head(cwc[t]).ok /\ c = Head(cwc[t]).conn => 1 \in OkIn(cwc[t], c)
    BY <1>1, OkTail
  <2> QED
    BY <1>3, <1>6, <2>1 DEF Answered
<1>9. Y \subseteq Answered(c)
  OBVIOUS
<1> HIDE DEF a, k, X
<1>10. IsFiniteSet(Answered(c)') /\ IsFiniteSet(Y) /\ Cardinality(Answered(c)') <= Cardinality(Y)
  <2>1. LineMove(c, a, a, k, X)
    BY <1>5, <1>7 DEF LineMove
  <2> QED
    BY <1>6, <2>1, LineMoves
<1> HIDE DEF Y
<1> QED
  BY <1>8, <1>9, <1>10

(* A response completes a request.                                         *)
LEMMA ClientHeadPend ==
  ASSUME ClientInv, NEW t \in CThreads, cwc[t] # <<>>, NEW ok, ok = Head(cwc[t]).ok,
         cwc' = [cwc EXCEPT ![t] = Tail(@)],
         pend' = IF ok THEN [pend EXCEPT ![Head(cwc[t]).conn] = @ - 1] ELSE pend,
         UNCHANGED <<cst, ccq, rqPosted, reqs>>,
         cput' \in [CThreads -> Conns \cup {None}], fault' \in Faults
  PROVE  ClientInv'
<1>1. PICK d : d = Head(cwc[t]).conn
  OBVIOUS
<1>2. /\ cwc \in [CThreads -> Seq(ClientCqe)] /\ cwc[t] \in Seq(ClientCqe)
      /\ rqPosted \in [Conns -> Nat] /\ pend \in [Conns -> 0..MaxReq]
  BY DEF ClientInv, ClientTyped
<1>3. d \in Conns /\ Tail(cwc[t]) \in Seq(ClientCqe) /\ ok \in BOOLEAN
  BY <1>1, <1>2, OkTail DEF ClientCqe
<1>4. cwc' \in [CThreads -> Seq(ClientCqe)]
  BY <1>2, <1>3
<1>5. ASSUME NEW c \in Conns PROVE PendFits(c)' /\ (ok /\ c = d => pend[c] >= 1)
  <2>1. PICK Y : /\ Y \subseteq Answered(c) /\ IsFiniteSet(Y) /\ IsFiniteSet(Answered(c)')
                 /\ Cardinality(Answered(c)') <= Cardinality(Y)
                 /\ ok /\ c = d => \E x \in Answered(c) : x \notin Y
    BY <1>1, HeadGone
  <2>2. /\ rqPosted'[c] = rqPosted[c] /\ rqPosted[c] \in Nat /\ pend[c] \in Nat
        /\ PendFits(c)
    BY <1>2 DEF ClientInv
  <2>3. CASE ok /\ c = d
    <3>1. pend'[c] = pend[c] - 1
      BY <1>1, <1>2, <2>3
    <3>2. 1 \in {0, 1} /\ \E x \in Answered(c) : x \notin Y
      BY <2>1, <2>3
    <3> QED
      BY <2>1, <2>2, <3>1, <3>2, PendGoes
  <2>4. CASE ~(ok /\ c = d)
    <3>1. pend'[c] = pend[c] - 0
      BY <1>1, <1>2, <2>2, <2>4
    <3> QED
      BY <2>1, <2>2, <2>4, <3>1, PendGoes
  <2> QED
    BY <2>3, <2>4
<1>6. pend' \in [Conns -> 0..MaxReq]
  <2>1. CASE ok
    <3>1. pend[d] >= 1 /\ pend[d] \in 0..MaxReq
      BY <1>2, <1>3, <1>5, <2>1
    <3>2. pend[d] - 1 \in 0..MaxReq
      BY <3>1, ConnAssumption DEF ConnAssumption
    <3> QED
      BY <1>1, <1>2, <2>1, <3>2
  <2> QED
    BY <1>2, <2>1
<1>7. ClientTyped'
  BY <1>4, <1>6 DEF ClientInv, ClientTyped
<1> QED
  BY <1>5, <1>7 DEF ClientInv

(* What the model counts are the responses by place.                       *)
LEMMA UnprocessedAre ==
  ASSUME ClientInv, NEW c \in Conns
  PROVE  Unprocessed(c) = Answered(c)
<1>1. ccq \in Seq(ClientCqe) /\ \A u \in CThreads : cwc[u] \in Seq(ClientCqe)
  BY DEF ClientInv, ClientTyped
<1>2. \A q : Successes(q, c) = OkIn(q, c)
  BY DEF Successes, OkIn
<1>3. Unprocessed(c) = {<<Ccq_, i>> : i \in OkIn(ccq, c)}
        \cup UNION {{<<Cwc_(u), i>> : i \in OkIn(cwc[u], c)} : u \in CThreads}
  BY <1>2 DEF Unprocessed, Ccq_, Cwc_
<1>4. (\A i \in OkIn(ccq, c) : i \in Nat) /\ \A u \in CThreads : \A i \in OkIn(cwc[u], c) : i \in Nat
  BY <1>1, OkInNat
<1>5. ASSUME NEW x \in Unprocessed(c) PROVE x \in Answered(c)
  <2>1. CASE x \in {<<Ccq_, i>> : i \in OkIn(ccq, c)}
    BY <1>4, <2>1, ClientSitesAre DEF Answered
  <2>2. ASSUME NEW u \in CThreads, x \in {<<Cwc_(u), i>> : i \in OkIn(cwc[u], c)}
        PROVE  x \in Answered(c)
    BY <1>4, <2>2, ClientSitesAre DEF Answered
  <2> QED
    BY <1>3, <1>5, <2>1, <2>2
<1>6. ASSUME NEW x \in Answered(c) PROVE x \in Unprocessed(c)
  <2>1. PICK p \in ClientSites, i \in Nat : x = <<p, i>> /\ i \in OkIn(CqAt(p), c)
    BY <1>6 DEF Answered
  <2>2. CASE p = Ccq_
    <3>1. x = <<Ccq_, i>> /\ i \in OkIn(ccq, c)
      BY <2>1, <2>2, ClientSitesAre
    <3> QED
      BY <1>3, <3>1
  <2>3. ASSUME NEW u \in CThreads, p = Cwc_(u) PROVE x \in Unprocessed(c)
    <3>1. x = <<Cwc_(u), i>> /\ i \in OkIn(cwc[u], c)
      BY <2>1, <2>3, ClientSitesAre
    <3> QED
      BY <1>3, <3>1
  <2> QED
    BY <2>2, <2>3, ClientSitesAre
<1> QED
  BY <1>5, <1>6

(* A flushed receive ends a request that no response will end.             *)
LEMMA OnRecvRespFailedPend ==
  ASSUME ClientInv, NEW t \in CThreads, OnRecvRespFailed(t)
  PROVE  ClientInv'
<1>1. PICK d : d = Head(cwc[t]).conn
  OBVIOUS
<1>2. /\ cwc[t] # <<>> /\ cwc' = [cwc EXCEPT ![t] = Tail(@)]
      /\ Cardinality(Unprocessed(d)) + rqPosted[d] < pend[d]
      /\ pend' = [pend EXCEPT ![d] = @ - 1] /\ cput' = [cput EXCEPT ![t] = d]
      /\ UNCHANGED <<cst, ccq, rqPosted, reqs, fault>>
  BY <1>1 DEF OnRecvRespFailed, AtClientCqe, qpVars
<1>3. /\ cwc \in [CThreads -> Seq(ClientCqe)] /\ cwc[t] \in Seq(ClientCqe)
      /\ rqPosted \in [Conns -> Nat] /\ pend \in [Conns -> 0..MaxReq]
      /\ cput \in [CThreads -> Conns \cup {None}]
  BY DEF ClientInv, ClientTyped
<1>4. d \in Conns /\ Tail(cwc[t]) \in Seq(ClientCqe)
  BY <1>1, <1>2, <1>3, OkTail DEF ClientCqe
<1>5. /\ cwc' \in [CThreads -> Seq(ClientCqe)] /\ cput' \in [CThreads -> Conns \cup {None}]
  BY <1>2, <1>3, <1>4
<1>6. PICK m \in Nat : m = Cardinality(Answered(d)) /\ m + rqPosted[d] < pend[d]
  BY <1>2, <1>4, UnprocessedAre, FS_CardinalityType DEF ClientInv, PendFits
<1>7. pend[d] - 1 \in 0..MaxReq /\ pend[d] \in Nat /\ rqPosted[d] \in Nat
  BY <1>3, <1>4, <1>6, ConnAssumption DEF ConnAssumption
<1>8. /\ pend' \in [Conns -> 0..MaxReq] /\ pend'[d] = pend[d] - 1
      /\ \A c \in Conns \ {d} : pend'[c] = pend[c]
  BY <1>2, <1>3, <1>4, <1>7
<1>9. ClientTyped'
  BY <1>2, <1>5, <1>8 DEF ClientInv, ClientTyped
<1>10. ASSUME NEW c \in Conns PROVE PendFits(c)'
  <2>1. PICK Y : /\ Y \subseteq Answered(c) /\ IsFiniteSet(Y) /\ IsFiniteSet(Answered(c)')
                 /\ Cardinality(Answered(c)') <= Cardinality(Y)
    BY <1>2, HeadGone
  <2>2. PICK x \in Nat, y \in Nat, z \in Nat :
          x = Cardinality(Answered(c)) /\ y = Cardinality(Y) /\ z = Cardinality(Answered(c)')
    BY <2>1, FS_CardinalityType DEF ClientInv, PendFits
  <2>3. x + rqPosted[c] <= pend[c] /\ IsFiniteSet(Answered(c))
    BY <2>2 DEF ClientInv, PendFits
  <2>4. y <= x /\ z <= y
    BY <2>1, <2>2, <2>3, FS_Subset
  <2>5. rqPosted'[c] = rqPosted[c] /\ rqPosted[c] \in Nat /\ pend[c] \in Nat
    BY <1>2, <1>3
  <2>6. z + rqPosted'[c] <= pend'[c]
    <3>1. CASE c = d
      <4>1. x + rqPosted[c] < pend[c] /\ pend'[c] = pend[c] - 1
        BY <1>6, <1>8, <2>2, <3>1
      <4> QED
        BY <2>4, <2>5, <4>1
    <3>2. CASE c # d
      BY <1>8, <2>3, <2>4, <2>5, <3>2
    <3> QED
      BY <3>1, <3>2
  <2> QED
    BY <2>1, <2>2, <2>6 DEF PendFits
<1> QED
  BY <1>9, <1>10 DEF ClientInv

LEMMA AddOne ==
  ASSUME NEW S, NEW x, IsFiniteSet(S)
  PROVE  /\ IsFiniteSet(S \cup {x}) /\ Cardinality(S) \in Nat
         /\ Cardinality(S \cup {x}) \in Nat /\ Cardinality(S \cup {x}) <= Cardinality(S) + 1
<1>1. Cardinality(S) \in Nat /\ IsFiniteSet(S \cup {x})
  BY FS_AddElement, FS_CardinalityType
<1>2. Cardinality(S \cup {x}) \in {Cardinality(S), Cardinality(S) + 1}
  BY FS_AddElement
<1> QED
  BY <1>1, <1>2

LEMMA DeliverRespPend ==
  ASSUME ClientInv, NEW c \in Conns, DeliverResp(c)
  PROVE  ClientInv'
<1>1. /\ rqPosted[c] > 0 /\ rqPosted' = [rqPosted EXCEPT ![c] = @ - 1]
      /\ ccq' = Append(ccq, [conn |-> c, recv |-> TRUE, ok |-> TRUE])
      /\ UNCHANGED <<cst, pend, cwc, cput, reqs, fault>>
  BY DEF DeliverResp, clientVars
<1>2. /\ ccq \in Seq(ClientCqe) /\ rqPosted \in [Conns -> Nat] /\ pend \in [Conns -> 0..MaxReq]
      /\ rqPosted[c] - 1 \in Nat
  BY <1>1 DEF ClientInv, ClientTyped
<1>3. PICK k \in Nat : /\ ccq' \in Seq(ClientCqe) /\ OkIn(ccq', c) = OkIn(ccq, c) \cup {k}
                       /\ \A d : d # c => OkIn(ccq', d) = OkIn(ccq, d)
  BY <1>1, <1>2, OkAppend
<1>4. rqPosted'[c] = rqPosted[c] - 1 /\ \A d \in Conns \ {c} : rqPosted'[d] = rqPosted[d]
  BY <1>1, <1>2
<1>5. ClientTyped'
  BY <1>1, <1>2, <1>3 DEF ClientInv, ClientTyped
<1>6. PendFits(c)'
  <2>1. Answered(c)' = Answered(c) \cup {<<Ccq_, k>>}
    BY <1>1, <1>3, AnsweredMore
  <2>2. PICK S : S = Answered(c)
    OBVIOUS
  <2>3. PICK x : x = <<Ccq_, k>>
    OBVIOUS
  <2>4. IsFiniteSet(S) /\ Cardinality(S) + rqPosted[c] <= pend[c]
    BY <2>2 DEF ClientInv, PendFits
  <2>5. /\ IsFiniteSet(S \cup {x}) /\ Cardinality(S) \in Nat /\ Cardinality(S \cup {x}) \in Nat
        /\ Cardinality(S \cup {x}) <= Cardinality(S) + 1
    BY <2>4, AddOne
  <2>6. PICK m \in Nat, n \in Nat : m = Cardinality(S) /\ n = Cardinality(S \cup {x})
    BY <2>5
  <2>a. PICK q \in Nat, r \in Nat, p \in Nat : q = rqPosted[c] /\ r = rqPosted'[c] /\ p = pend[c]
    BY <1>2, <1>4
  <2>b. m + q <= p /\ n <= m + 1 /\ r = q - 1 /\ pend'[c] = p
    BY <1>1, <1>4, <2>4, <2>5, <2>6, <2>a
  <2>7. n + rqPosted'[c] <= pend'[c]
    BY <2>a, <2>b
  <2> QED
    BY <2>1, <2>2, <2>3, <2>5, <2>6, <2>7 DEF PendFits
<1>7. ASSUME NEW d \in Conns \ {c} PROVE PendFits(d)'
  <2>1. Answered(d)' = Answered(d)
    BY <1>1, <1>3, SitesOk
  <2>2. rqPosted'[d] = rqPosted[d] /\ pend'[d] = pend[d]
    BY <1>1, <1>4
  <2> QED
    BY <2>1, <2>2 DEF ClientInv, PendFits
<1> QED
  BY <1>5, <1>6, <1>7 DEF ClientInv

(* Steps that leave the completions and the requests alone.                *)
LEMMA AsidePend ==
  ASSUME ClientInv, UNCHANGED <<pend, ccq, cwc, rqPosted>>,
         cst' \in [Conns -> ClientStates], cput' \in [CThreads -> Conns \cup {None}],
         reqs' \in [Conns -> Nat], fault' \in Faults
  PROVE  ClientInv'
<1>1. ClientTyped'
  BY DEF ClientInv, ClientTyped
<1>2. ASSUME NEW d \in Conns PROVE PendFits(d)'
  BY SitesOk DEF ClientInv, PendFits
<1> QED
  BY <1>1, <1>2 DEF ClientInv

LEMMA ClientInvInit == ASSUME Init PROVE ClientInv
<1>1. <<>> \in Seq(ClientCqe)
  BY EmptySeq
<1>2. ClientTyped
  BY <1>1, ConnAssumption DEF Init, ClientTyped, ClientStates, Faults, ConnAssumption
<1>3. ASSUME NEW c \in Conns PROVE PendFits(c)
  <2>1. Answered(c) = {}
    BY DEF Init, Answered, OkIn, CqAt, ClientSites, Ccq_, Cwc_
  <2> QED
    BY <2>1, FS_EmptySet DEF PendFits, Init
<1> QED
  BY <1>2, <1>3 DEF ClientInv

LEMMA ClientStepPend ==
  ASSUME ClientInv, fault = "none", NEW t \in CThreads, ClientStep(t)
  PROVE  ClientInv'
<1>1. /\ ccq \in Seq(ClientCqe) /\ cwc \in [CThreads -> Seq(ClientCqe)]
      /\ cput \in [CThreads -> Conns \cup {None}] /\ cwc[t] \in Seq(ClientCqe)
      /\ cst \in [Conns -> ClientStates] /\ reqs \in [Conns -> Nat]
  BY DEF ClientInv, ClientTyped
<1>2. ASSUME OnRecvResp(t) PROVE ClientInv'
  <2>1. cwc[t] # <<>> /\ Head(cwc[t]).ok = TRUE /\ UNCHANGED <<cst, ccq, rqPosted, reqs>>
    BY <1>2 DEF OnRecvResp, AtClientCqe, qpVars
  <2>2. PICK c : c = Head(cwc[t]).conn
    OBVIOUS
  <2>3. c \in Conns
    BY <1>1, <2>1, <2>2, OkTail DEF ClientCqe
  <2>4. CASE fault' = "client_uaf" /\ UNCHANGED <<pend, cput, cwc>>
    BY <1>1, <2>1, <2>4, AsidePend DEF Faults
  <2>5. CASE /\ pend' = [pend EXCEPT ![c] = @ - 1] /\ cput' = [cput EXCEPT ![t] = c]
             /\ cwc'  = [cwc EXCEPT ![t] = Tail(@)] /\ UNCHANGED fault
    <3>1. cput' \in [CThreads -> Conns \cup {None}] /\ fault' \in Faults
      BY <1>1, <2>3, <2>5 DEF ClientInv, ClientTyped
    <3>2. pend' = IF TRUE THEN [pend EXCEPT ![Head(cwc[t]).conn] = @ - 1] ELSE pend
      BY <2>2, <2>5
    <3> QED
      BY <2>1, <2>5, <3>1, <3>2, ClientHeadPend
  <2> QED
    BY <1>2, <2>2, <2>4, <2>5 DEF OnRecvResp
<1>3. ASSUME OnClientError(t) PROVE ClientInv'
  <2>1. /\ cwc[t] # <<>> /\ Head(cwc[t]).ok = FALSE /\ cwc' = [cwc EXCEPT ![t] = Tail(@)]
        /\ fault' \in Faults /\ UNCHANGED <<cst, pend, cput, ccq, rqPosted, reqs>>
    BY <1>3 DEF OnClientError, AtClientCqe, qpVars, Faults
  <2>2. pend' = IF FALSE THEN [pend EXCEPT ![Head(cwc[t]).conn] = @ - 1] ELSE pend
    BY <2>1
  <2> QED
    BY <1>1, <2>1, <2>2, ClientHeadPend
<1>4. ASSUME MempoolPut(t) PROVE ClientInv'
  <2>1. /\ fault' \in Faults /\ cput' = [cput EXCEPT ![t] = None]
        /\ UNCHANGED <<cst, pend, cwc, ccq, rqPosted, reqs>>
    BY <1>4 DEF MempoolPut, qpVars, Faults
  <2> QED
    BY <1>1, <2>1, AsidePend
<1>5. ASSUME ClientPollEmpty(t) PROVE ClientInv'
  <2>1. UNCHANGED <<cst, pend, cwc, cput, ccq, rqPosted, reqs, fault>>
    BY <1>5 DEF ClientPollEmpty, qpVars
  <2> QED
    BY <1>1, <2>1, AsidePend DEF ClientInv, ClientTyped
<1> QED
  BY <1>2, <1>3, <1>4, <1>5, ClientPollPend, OnRecvRespFailedPend DEF ClientStep

LEMMA ClientInvStep ==
  ASSUME ClientInv, [Next]_vars
  PROVE  ClientInv'
<1>1. /\ cst \in [Conns -> ClientStates] /\ cput \in [CThreads -> Conns \cup {None}]
      /\ reqs \in [Conns -> Nat] /\ fault \in Faults
  BY DEF ClientInv, ClientTyped
<1>2. ASSUME UNCHANGED clientSide, fault' \in Faults PROVE ClientInv'
  BY <1>1, <1>2, AsidePend DEF clientSide, clientVars, qpVars
<1>3. CASE UNCHANGED vars
  BY <1>1, <1>2, <1>3 DEF vars
<1> SUFFICES ASSUME Next PROVE ClientInv'
  BY <1>3
<1>4. fault = "none"
  BY DEF Next
<1>5. ASSUME NEW c \in Conns, NEW s \in ClientStates, cst' = [cst EXCEPT ![c] = s],
             UNCHANGED <<pend, ccq, cwc, cput, rqPosted, reqs, fault>>
      PROVE  ClientInv'
  BY <1>1, <1>5, AsidePend
<1>6. CASE Application
  <2>1. PICK t \in CThreads, c \in Conns : Connect(t, c) \/ SendReq(t, c) \/ Disconnect(t, c)
    BY <1>6 DEF Application
  <2>2. CASE Connect(t, c)
    BY <1>5, <2>2 DEF Connect, qpVars, ClientStates
  <2>3. CASE Disconnect(t, c)
    <3>1. /\ cst' = [cst EXCEPT ![c] = "closing"] /\ QpError(c)
          /\ UNCHANGED <<pend, cwc, cput, fault>>
      BY <2>3 DEF Disconnect
    <3>2. cst' \in [Conns -> ClientStates]
      BY <1>1, <3>1 DEF ClientStates
    <3> QED
      BY <3>1, <3>2, QpErrorPend
  <2> QED
    BY <2>1, <2>2, <2>3, SendReqPend, ConnAssumption
<1>7. ASSUME NEW c \in Conns, ClientCmStep(c) PROVE ClientInv'
  <2>1. CASE OnDisconnected(c)
    BY <2>1, OnDisconnectedPend
  <2>2. CASE ~ OnDisconnected(c)
    <3>1. PICK s \in ClientStates : /\ cst' = [cst EXCEPT ![c] = s]
                                    /\ UNCHANGED <<pend, ccq, cwc, cput, rqPosted, reqs, fault>>
      BY <1>7, <2>2 DEF ClientCmStep, ClientProgress, OnAddrResolved, OnRouteResolved, OnConnectError,
        OnOtherEvent, OnEstablished, ClientEvent, qpVars, ClientStates
    <3> QED
      BY <1>5, <3>1
  <2> QED
    BY <2>1, <2>2
<1>8. ASSUME NEW c \in Conns, WireStep(c) PROVE ClientInv'
  <2>1. CASE DeliverReq(c)
    <3>1. reqs[c] - 1 \in Nat
      BY <1>1, <2>1 DEF DeliverReq
    <3>2. /\ reqs' = [reqs EXCEPT ![c] = @ - 1]
          /\ UNCHANGED <<cst, pend, ccq, cwc, cput, rqPosted, fault>>
      BY <2>1 DEF DeliverReq, clientVars
    <3>3. reqs' \in [Conns -> Nat]
      BY <1>1, <3>1, <3>2
    <3> QED
      BY <1>1, <3>2, <3>3, AsidePend
  <2>2. CASE RnrNak(c)
    BY <1>1, <2>2, QpErrorPend DEF RnrNak, clientVars
  <2>3. CASE AckWrite(c) \/ WriteError(c)
    BY <1>1, <1>2, <2>3 DEF AckWrite, WriteError
  <2> QED
    BY <1>8, <2>1, <2>2, <2>3, DeliverRespPend DEF WireStep
<1>9. ASSUME NEW c \in Conns, ServerCmStep(c) PROVE ClientInv'
  BY <1>1, <1>2, <1>9 DEF ServerCmStep, OnConnectRequest, HashDelete
<1>10. ASSUME NEW t \in CThreads, ClientStep(t) PROVE ClientInv'
  BY <1>4, <1>10, ClientStepPend
<1>11. ASSUME NEW t \in SThreads, ServerStep(t) PROVE ClientInv'
  BY <1>1, <1>2, <1>4, <1>11 DEF ServerStep, ServerPoll, ServerPollEmpty, FindConn, CallHandler, Respond, Repost,
    OnWriteRespDone, OnServerError, Faults
<1>12. ASSUME NEW s \in Slots, MakeResp(s) PROVE ClientInv'
  BY <1>1, <1>2, <1>4, <1>12 DEF MakeResp, Respond, Faults
<1>13. CASE DestroyAndFree
  BY <1>1, <1>2, <1>13 DEF DestroyAndFree
<1> QED
  BY <1>6, <1>7, <1>8, <1>9, <1>10, <1>11, <1>12, <1>13 DEF Next

(* A thread is in the loop of its poller from the first array to the empty *)
(* queue.                                                                  *)
LoopsTyped == cloop \in SUBSET CThreads /\ sloop \in SUBSET SThreads

LEMMA LoopsTypedStep ==
  ASSUME LoopsTyped, [Next]_vars
  PROVE  LoopsTyped'
<1>1. ASSUME UNCHANGED <<cloop, sloop>> PROVE LoopsTyped'
  BY <1>1 DEF LoopsTyped
<1>2. CASE UNCHANGED vars
  BY <1>1, <1>2 DEF vars, clientSide, clientVars, serverVars, slotVars
<1> SUFFICES ASSUME Next PROVE LoopsTyped'
  BY <1>2
<1>3. CASE Application
  BY <1>1, <1>3 DEF Application, Connect, SendReq, Disconnect, serverVars, slotVars
<1>4. ASSUME NEW c \in Conns, ClientCmStep(c) PROVE LoopsTyped'
  BY <1>1, <1>4 DEF ClientCmStep, ClientProgress, OnAddrResolved, OnRouteResolved,
    OnConnectError, OnOtherEvent, OnEstablished, OnDisconnected, ClientEvent, serverVars, slotVars
<1>5. ASSUME NEW c \in Conns, WireStep(c) PROVE LoopsTyped'
  BY <1>1, <1>5 DEF WireStep, DeliverReq, RnrNak, DeliverResp, AckWrite, WriteError,
    clientSide, clientVars, serverVars, slotVars
<1>6. ASSUME NEW c \in Conns, ServerCmStep(c) PROVE LoopsTyped'
  BY <1>1, <1>6 DEF ServerCmStep, OnConnectRequest, HashDelete, clientSide, clientVars, slotVars
<1>7. ASSUME NEW t \in CThreads, ClientStep(t) PROVE LoopsTyped'
  BY <1>7 DEF LoopsTyped, ClientStep, ClientPoll, ClientPollEmpty, OnRecvResp, MempoolPut,
    OnClientError, OnRecvRespFailed, serverVars, slotVars
<1>8. ASSUME NEW t \in SThreads, ServerStep(t) PROVE LoopsTyped'
  BY <1>8 DEF LoopsTyped, ServerStep, ServerPoll, ServerPollEmpty, FindConn, CallHandler,
    OnWriteRespDone, OnServerError, clientSide, clientVars
<1>9. ASSUME NEW s \in Slots, MakeResp(s) PROVE LoopsTyped'
  BY <1>1, <1>9 DEF MakeResp, clientSide, clientVars
<1>10. CASE DestroyAndFree
  BY <1>1, <1>10 DEF DestroyAndFree, clientSide, clientVars, slotVars
<1> QED
  BY <1>3, <1>4, <1>5, <1>6, <1>7, <1>8, <1>9, <1>10 DEF Next

(* Every variable of the connections keeps its type.  What is not obvious  *)
(* is that pend does not fall below zero: a response is processed only for *)
(* a request that is outstanding, because each used up a receive of one.   *)
THEOREM ConnTypeCorrect == Safety => []TypeOK
<1>1. Init => SlotInv /\ TableInv /\ ClientInv /\ LoopsTyped
  BY SlotInvInit, TableInvInit, ClientInvInit DEF Init, LoopsTyped
<1>2. /\ SlotInv /\ TableInv /\ ClientInv /\ LoopsTyped
      /\ [Next]_vars
      => (SlotInv /\ TableInv /\ ClientInv /\ LoopsTyped)'
  BY SlotInvStep, TableInvStep, ClientInvStep, LoopsTypedStep
<1>3. SlotInv /\ TableInv /\ ClientInv /\ LoopsTyped => TypeOK
  BY DEF TypeOK, LoopsTyped, SlotInv, SlotsTyped, TableInv, ServerTyped, Live, ClientInv, ClientTyped, Faults
<1> QED
  BY <1>1, <1>2, <1>3, PTL DEF Safety

-----------------------------------------------------------------------------
(* Both processes with one thread each, as in the examples, and a client   *)
(* that disconnects when it is idle: enough slots are twice the requests of*)
(* all connections, because besides the slot of a request the slot of the  *)
(* response before it may still be in use when the next one arrives, and   *)
(* the end of a connection does not give its slots back.                   *)

SlotsEnough ==
  /\ OneThread /\ CThreads = {ClientCm} /\ Quiet /\ ~Deferred
  /\ IsFiniteSet(Conns) /\ IsFiniteSet(Slots)
  /\ Cardinality(Conns) * (2 * MaxReq) <= Cardinality(Slots)

(* The completions of the server in the order in which its thread processes*)
(* them.                                                                   *)
Line == swc[ServerCm] \o scq

(* Slots of the completions of requests in front of place k, of the others *)
(* from place k on.                                                        *)
RecvIn(q, k) == {s \in Slots : \E i \in DOMAIN q : i < k /\ q[i].op = "recv" /\ q[i].slot = s}
RestIn(q, k) == {s \in Slots : \E i \in DOMAIN q : k <= i /\ q[i].op # "recv" /\ q[i].slot = s}
RecvAll(q)   == {s \in Slots : \E i \in DOMAIN q : q[i].op = "recv" /\ q[i].slot = s}

Answering == ({found[ServerCm]} \ {None}) \cup UNION {Named(resps[c], Itself) : c \in Conns}
Acking    == UNION {Named(wacks[c], Itself) : c \in Conns}

(* Slots that will all have been answered, and not be posted again, when   *)
(* the thread comes to place k.                                            *)
HeldAt(k) == (RecvIn(Line, k) \cup RestIn(Line, k)) \cup (Answering \cup Acking)
Awaiting  == RecvAll(Line) \cup Answering

Of(c, X) == {s \in X : from[s] = c}

Place == Nat \ {0}

HeldFits(c) ==
  \A k \in Place : Cardinality(Of(c, HeldAt(k))) <= MaxReq

(* The receives the client has posted are for these and for the requests   *)
(* on their way.                                                           *)
AwaitFits(c) == Cardinality(Of(c, Awaiting)) + reqs[c] <= rqPosted[c]

(* Slots last used for a connection and not posted again.                  *)
UsedFits(c) == Cardinality(Of(c, Slots \ srq)) <= 2 * MaxReq

FlowInv == \A c \in Conns : HeldFits(c) /\ AwaitFits(c) /\ UsedFits(c)

(* An idle client loses nothing when it disconnects.                       *)
QuietInv ==
  /\ \A e \in Members(ccq) \cup Members(cwc[ClientCm]) : e.ok
  /\ \A c \in qpErr : cst[c] \in {"closing", "closed"}
  /\ \A c \in Conns : cst[c] \in {"closing", "closed"} => pend[c] = 0
  /\ cput[ClientCm] # None => cst[cput[ClientCm]] # "closed"
  /\ \A e \in Members(scq) \cup Members(swc[ServerCm]) : e.op # "error"
  /\ fault = "none"

ConnInv == SlotInv /\ TableInv /\ Straight /\ ClientInv /\ FlowInv /\ QuietInv

-----------------------------------------------------------------------------
(* Queues that lose entries and keep the order of the others.              *)

Thinned(q, r, f) ==
  /\ \E n \in Nat : DOMAIN q = 1..n
  /\ \E n \in Nat : DOMAIN r = 1..n
  /\ \A i \in DOMAIN r : f[i] \in DOMAIN q /\ r[i] = q[f[i]]
  /\ \A i, j \in DOMAIN r : i < j => f[i] < f[j]

LEMMA ThinnedSame ==
  ASSUME NEW S, NEW q \in Seq(S)
  PROVE  Thinned(q, q, [i \in DOMAIN q |-> i])
BY LenProperties DEF Thinned

(* What is in front of place k of the thinner queue was in front of some   *)
(* place of the other, what was behind behind.                             *)
LEMMA ThinnedHeld ==
  ASSUME NEW q, NEW r, NEW f, Thinned(q, r, f), NEW k \in Place
  PROVE  \E j \in Place : /\ RecvIn(r, k) \subseteq RecvIn(q, j)
                          /\ RestIn(r, k) \subseteq RestIn(q, j)
                          /\ (\A i \in DOMAIN r : f[i] # 1) /\ 1 \in DOMAIN q => 1 < j
<1>1. PICK m \in Nat : DOMAIN q = 1..m
  BY DEF Thinned
<1>2. PICK n \in Nat : DOMAIN r = 1..n
  BY DEF Thinned
<1>3. /\ \A i \in DOMAIN r : f[i] \in DOMAIN q /\ r[i] = q[f[i]]
      /\ \A i, j \in DOMAIN r : i < j => f[i] < f[j]
  BY DEF Thinned
<1>4. CASE k \in DOMAIN r
  <2>1. PICK j \in Place : j = f[k] /\ j \in DOMAIN q
    BY <1>1, <1>3, <1>4 DEF Place
  <2>2. RecvIn(r, k) \subseteq RecvIn(q, j)
    BY <1>3, <1>4, <2>1 DEF RecvIn
  <2>3. ASSUME NEW i \in DOMAIN r, k <= i PROVE f[i] \in DOMAIN q /\ j <= f[i]
    <3>1. CASE i = k
      BY <1>1, <1>3, <2>1, <3>1 DEF Place
    <3>2. CASE i # k
      <4>1. k < i
        BY <1>2, <1>4, <2>3, <3>2
      <4>2. f[k] < f[i] /\ f[i] \in DOMAIN q
        BY <1>3, <1>4, <4>1
      <4> QED
        BY <1>1, <2>1, <4>2 DEF Place
    <3> QED
      BY <3>1, <3>2
  <2>4. RestIn(r, k) \subseteq RestIn(q, j)
    BY <1>3, <2>3 DEF RestIn
  <2>5. (\A i \in DOMAIN r : f[i] # 1) => 1 < j
    BY <1>4, <2>1 DEF Place
  <2> QED
    BY <2>2, <2>4, <2>5
<1>5. CASE k \notin DOMAIN r
  <2>1. PICK j \in Place : j = m + 1
    BY <1>1 DEF Place
  <2>2. \A i \in DOMAIN q : i < j
    BY <1>1, <2>1
  <2>3. RecvIn(r, k) \subseteq RecvIn(q, j)
    BY <1>3, <2>2 DEF RecvIn
  <2>4. \A i \in DOMAIN r : ~ (k <= i)
    BY <1>2, <1>5 DEF Place
  <2>5. RestIn(r, k) = {}
    BY <2>4 DEF RestIn
  <2>6. 1 \in DOMAIN q => 1 < j
    BY <2>2
  <2> QED
    BY <2>3, <2>5, <2>6
<1> QED
  BY <1>4, <1>5

LEMMA ThinnedRecv ==
  ASSUME NEW q, NEW r, NEW f, Thinned(q, r, f)
  PROVE  RecvAll(r) \subseteq RecvAll(q)
BY DEF Thinned, RecvAll

(* The thread is done with its first completion.                           *)
LEMMA FrontThins ==
  ASSUME NEW S, NEW p \in Seq(S), p # <<>>, NEW q \in Seq(S)
  PROVE  LET r == Tail(p) \o q
             f == [i \in DOMAIN r |-> i + 1]
         IN  /\ Thinned(p \o q, r, f) /\ \A i \in DOMAIN r : f[i] # 1
             /\ 1 \in DOMAIN (p \o q) /\ (p \o q)[1] = Head(p)
<1> DEFINE t == Tail(p)
           a == p \o q
           r == t \o q
           f == [i \in DOMAIN r |-> i + 1]
<1>1. /\ t \in Seq(S) /\ Len(t) = Len(p) - 1 /\ Len(p) \in Nat \ {0}
      /\ \A i \in 1..Len(t) : t[i] = p[i + 1]
      /\ Head(p) = p[1]
  BY HeadTailProperties, EmptySeq
<1> HIDE DEF t
<1>2. /\ a \in Seq(S) /\ Len(a) = Len(p) + Len(q)
      /\ \A i \in 1..(Len(p) + Len(q)) : a[i] = IF i <= Len(p) THEN p[i] ELSE q[i - Len(p)]
  BY ConcatProperties
<1>3. /\ r \in Seq(S) /\ Len(r) = Len(t) + Len(q)
      /\ \A i \in 1..(Len(t) + Len(q)) : r[i] = IF i <= Len(t) THEN t[i] ELSE q[i - Len(t)]
  BY <1>1, ConcatProperties
<1>4. Len(p) \in Nat /\ Len(q) \in Nat /\ DOMAIN a = 1..Len(a) /\ DOMAIN r = 1..Len(r)
  BY <1>2, <1>3, LenProperties
<1> HIDE DEF a, r
<1>5. ASSUME NEW i \in 1..Len(r) PROVE r[i] = a[i + 1]
  <2>1. i \in 1..(Len(t) + Len(q)) /\ i + 1 \in 1..(Len(p) + Len(q)) /\ Len(p) = Len(t) + 1
    BY <1>1, <1>3, <1>4
  <2>2. CASE i <= Len(t)
    <3>1. r[i] = t[i] /\ i \in 1..Len(t)
      BY <1>3, <2>1, <2>2
    <3>2. a[i + 1] = p[i + 1]
      BY <1>2, <1>4, <2>1, <2>2
    <3> QED
      BY <1>1, <3>1, <3>2
  <2>3. CASE ~ (i <= Len(t))
    <3>1. r[i] = q[i - Len(t)]
      BY <1>3, <2>1, <2>3
    <3>2. a[i + 1] = q[(i + 1) - Len(p)]
      BY <1>2, <1>4, <2>1, <2>3
    <3>3. (i + 1) - Len(p) = i - Len(t)
      BY <1>1, <1>4, <2>1
    <3> QED
      BY <3>1, <3>2, <3>3
  <2> QED
    BY <2>2, <2>3
<1>6. Len(a) \in Nat /\ Len(r) \in Nat /\ Len(r) + 1 = Len(a)
  BY <1>1, <1>2, <1>3, <1>4
<1>7. \A i \in DOMAIN r : f[i] = i + 1 /\ i + 1 \in DOMAIN a /\ r[i] = a[i + 1] /\ i + 1 # 1
  BY <1>4, <1>5, <1>6
<1>8. \A i, j \in DOMAIN r : i < j => f[i] < f[j]
  BY <1>4
<1> HIDE DEF f
<1>9. Thinned(a, r, f)
  BY <1>4, <1>6, <1>7, <1>8 DEF Thinned
<1>10. 1 \in DOMAIN a /\ a[1] = Head(p)
  BY <1>1, <1>2, <1>4
<1> QED
  BY <1>7, <1>9, <1>10 DEF a, r, f, t

(* A queue with one more entry.                                            *)
Grown(q, r, e) ==
  \E n \in Nat : /\ DOMAIN q = 1..n /\ DOMAIN r = 1..(n + 1)
                 /\ r[n + 1] = e /\ \A i \in 1..n : r[i] = q[i]

LEMMA LineGrows ==
  ASSUME SlotsTyped, OneThread, NEW e \in ServerCqe, scq' = Append(scq, e), UNCHANGED swc
  PROVE  Grown(Line, Line', e)
<1> DEFINE p == swc[ServerCm]
           q == scq
           r == Append(q, e)
           a == p \o q
           b == p \o r
<1>0. p \in Seq(ServerCqe) /\ q \in Seq(ServerCqe)
  BY DEF SlotsTyped, OneThread
<1>1. Line = a /\ Line' = b
  BY DEF Line
<1> HIDE DEF p, q
<1>2. /\ r \in Seq(ServerCqe) /\ Len(r) = Len(q) + 1 /\ r[Len(q) + 1] = e
      /\ \A i \in 1..Len(q) : r[i] = q[i]
  BY <1>0, AppendProperties
<1> HIDE DEF r
<1>3. /\ a \in Seq(ServerCqe) /\ Len(a) = Len(p) + Len(q)
      /\ \A i \in 1..(Len(p) + Len(q)) : a[i] = IF i <= Len(p) THEN p[i] ELSE q[i - Len(p)]
  BY <1>0, ConcatProperties
<1>4. /\ b \in Seq(ServerCqe) /\ Len(b) = Len(p) + Len(r)
      /\ \A i \in 1..(Len(p) + Len(r)) : b[i] = IF i <= Len(p) THEN p[i] ELSE r[i - Len(p)]
  BY <1>0, <1>2, ConcatProperties
<1>5. Len(p) \in Nat /\ Len(q) \in Nat /\ DOMAIN a = 1..Len(a) /\ DOMAIN b = 1..Len(b)
  BY <1>0, <1>3, <1>4, LenProperties
<1> HIDE DEF a, b
<1>6. PICK n \in Nat : n = Len(a) /\ n + 1 = Len(b) /\ n = Len(p) + Len(q)
  BY <1>2, <1>3, <1>4, <1>5
<1>7. b[n + 1] = e
  <2>1. n + 1 \in 1..(Len(p) + Len(r)) /\ ~ (n + 1 <= Len(p)) /\ (n + 1) - Len(p) = Len(q) + 1
    BY <1>2, <1>5, <1>6
  <2> QED
    BY <1>2, <1>4, <2>1
<1>8. ASSUME NEW i \in 1..n PROVE b[i] = a[i]
  <2>1. i \in 1..(Len(p) + Len(q)) /\ i \in 1..(Len(p) + Len(r))
    BY <1>2, <1>5, <1>6
  <2>2. CASE i <= Len(p)
    BY <1>3, <1>4, <2>1, <2>2
  <2>3. CASE ~ (i <= Len(p))
    <3>1. i - Len(p) \in 1..Len(q)
      BY <1>5, <2>1, <2>3
    <3>2. a[i] = q[i - Len(p)] /\ b[i] = r[i - Len(p)]
      BY <1>3, <1>4, <2>1, <2>3
    <3> QED
      BY <1>2, <3>1, <3>2
  <2> QED
    BY <2>2, <2>3
<1>9. Grown(a, b, e)
  BY <1>5, <1>6, <1>7, <1>8 DEF Grown
<1> QED
  BY <1>1, <1>9

LEMMA GrownHeld ==
  ASSUME NEW q, NEW r, NEW e, Grown(q, r, e)
  PROVE  /\ RecvAll(r) \subseteq RecvAll(q) \cup {e.slot}
         /\ \A k \in Place : /\ RecvIn(r, k) \subseteq RecvIn(q, k) \cup {e.slot}
                             /\ RestIn(r, k) \subseteq RestIn(q, k) \cup {e.slot}
                             /\ RecvIn(r, k) \subseteq RecvAll(r)
         /\ e.op # "recv" => /\ RecvAll(r) \subseteq RecvAll(q)
                             /\ \A k \in Place : RecvIn(r, k) \subseteq RecvIn(q, k)
         /\ e.op = "recv" => /\ \A k \in Place : RestIn(r, k) \subseteq RestIn(q, k)
                             /\ \A k \in Place : \/ RecvIn(r, k) \subseteq RecvIn(q, k)
                                                 \/ RestIn(r, k) = {}
<1>1. PICK n \in Nat : /\ DOMAIN q = 1..n /\ DOMAIN r = 1..(n + 1)
                       /\ r[n + 1] = e /\ \A i \in 1..n : r[i] = q[i]
  BY DEF Grown
<1>2. \A i \in DOMAIN r : (i \in DOMAIN q /\ r[i] = q[i]) \/ (i = n + 1 /\ r[i] = e)
  BY <1>1
<1>3. RecvAll(r) \subseteq RecvAll(q) \cup {e.slot}
  BY <1>2 DEF RecvAll
<1>4. \A k \in Place : /\ RecvIn(r, k) \subseteq RecvIn(q, k) \cup {e.slot}
                       /\ RestIn(r, k) \subseteq RestIn(q, k) \cup {e.slot}
                       /\ RecvIn(r, k) \subseteq RecvAll(r)
  BY <1>2 DEF RecvAll, RecvIn, RestIn
<1>5. ASSUME e.op # "recv"
      PROVE  /\ RecvAll(r) \subseteq RecvAll(q)
             /\ \A k \in Place : RecvIn(r, k) \subseteq RecvIn(q, k)
  BY <1>2, <1>5 DEF RecvAll, RecvIn
<1>6. ASSUME e.op = "recv", NEW k \in Place
      PROVE  /\ RestIn(r, k) \subseteq RestIn(q, k)
             /\ RecvIn(r, k) \subseteq RecvIn(q, k) \/ RestIn(r, k) = {}
  <2>1. RestIn(r, k) \subseteq RestIn(q, k)
    BY <1>2, <1>6 DEF RestIn
  <2>2. CASE k <= n + 1
    <3>1. ~ (n + 1 < k)
      BY <1>1, <2>2 DEF Place
    <3>2. RecvIn(r, k) \subseteq RecvIn(q, k)
      BY <1>2, <3>1 DEF RecvIn
    <3> QED
      BY <2>1, <3>2
  <2>3. CASE ~ (k <= n + 1)
    <3>1. \A i \in DOMAIN r : ~ (k <= i)
      BY <1>1, <2>3 DEF Place
    <3>2. RestIn(r, k) = {}
      BY <3>1 DEF RestIn
    <3> QED
      BY <2>1, <3>2
  <2> QED
    BY <2>2, <2>3
<1> QED
  BY <1>3, <1>4, <1>5, <1>6

-----------------------------------------------------------------------------
(* The numbers of slots.                                                   *)

LEMMA Fewer ==
  ASSUME NEW S, NEW T, IsFiniteSet(S), T \subseteq S
  PROVE  /\ IsFiniteSet(T) /\ Cardinality(T) \in Nat /\ Cardinality(S) \in Nat
         /\ Cardinality(T) <= Cardinality(S)
BY FS_Subset, FS_CardinalityType

LEMMA SlotNames ==
  ASSUME SlotsTyped
  PROVE  \A c \in Conns : /\ Named(resps[c], Itself) \subseteq Slots
                          /\ Named(wacks[c], Itself) \subseteq Slots
<1>1. ASSUME NEW q \in Seq(Slots) PROVE Named(q, Itself) \subseteq Slots
  <2>1. \A i \in DOMAIN q : q[i] \in Slots /\ Itself[q[i]] = q[i]
    BY ElementOfSeq, LenProperties DEF Itself
  <2> QED
    BY <2>1 DEF Named
<1> QED
  BY <1>1 DEF SlotsTyped

LEMMA FlowTyped ==
  ASSUME SlotsTyped, OneThread
  PROVE  Awaiting \subseteq Slots /\ \A k \in Place : HeldAt(k) \subseteq Slots
<1>1. found[ServerCm] \in Slots \cup {None}
  BY DEF SlotsTyped, OneThread
<1>2. Answering \subseteq Slots /\ Acking \subseteq Slots
  BY <1>1, SlotNames DEF Answering, Acking
<1> QED
  BY <1>2 DEF Awaiting, HeldAt, RecvAll, RecvIn, RestIn

LEMMA OfCount ==
  ASSUME IsFiniteSet(Slots), NEW c, NEW X, X \subseteq Slots
  PROVE  IsFiniteSet(Of(c, X)) /\ Cardinality(Of(c, X)) \in Nat
<1>1. Of(c, X) \subseteq Slots
  BY DEF Of
<1> QED
  BY <1>1, Fewer

(* Of the requests on their way and the receives posted for the answers no *)
(* more requests become.                                                   *)
CountsKept ==
  \A c \in Conns : /\ reqs[c] \in Nat /\ rqPosted[c] \in Nat
                   /\ reqs'[c] \in Nat /\ rqPosted'[c] \in Nat
                   /\ reqs'[c] + rqPosted[c] <= reqs[c] + rqPosted'[c]

(* Slots move on, are posted again or are lost, none is taken.             *)
LEMMA KeepsFlow ==
  ASSUME IsFiniteSet(Slots), OneThread, SlotsTyped, FlowInv, UNCHANGED from,
         \A k \in Place : \E j \in Place : HeldAt(k)' \subseteq HeldAt(j),
         Awaiting' \subseteq Awaiting, srq \subseteq srq', ConnAssumption,
         CountsKept
  PROVE  FlowInv'
<1>0. MaxReq \in Nat
  BY DEF ConnAssumption
<1> SUFFICES ASSUME NEW c \in Conns PROVE HeldFits(c)' /\ AwaitFits(c)' /\ UsedFits(c)'
  BY DEF FlowInv
<1>1. HeldFits(c) /\ AwaitFits(c) /\ UsedFits(c)
  BY DEF FlowInv
<1>2. ASSUME NEW k \in Place PROVE Cardinality(Of(c, HeldAt(k))') <= MaxReq
  <2>1. PICK j \in Place : HeldAt(k)' \subseteq HeldAt(j)
    OBVIOUS
  <2>2. PICK S, T : S = Of(c, HeldAt(j)) /\ T = Of(c, HeldAt(k))'
    OBVIOUS
  <2>3. T \subseteq S
    BY <2>1, <2>2 DEF Of
  <2>4. IsFiniteSet(S) /\ Cardinality(S) <= MaxReq
    BY <1>1, <2>2, OfCount, FlowTyped DEF HeldFits
  <2> QED
    BY <1>0, <2>2, <2>3, <2>4, Fewer
<1>3. AwaitFits(c)'
  <2>2. PICK S, T : S = Of(c, Awaiting) /\ T = Of(c, Awaiting)'
    OBVIOUS
  <2>3. T \subseteq S
    BY <2>2 DEF Of
  <2>4. IsFiniteSet(S)
    BY <2>2, OfCount, FlowTyped
  <2>5. PICK m \in Nat, n \in Nat : m = Cardinality(S) /\ n = Cardinality(T) /\ n <= m
    BY <2>3, <2>4, Fewer
  <2>6. PICK a, b, x, y \in Nat : /\ a = reqs[c] /\ b = rqPosted[c]
                                  /\ x = reqs'[c] /\ y = rqPosted'[c] /\ x + b <= a + y
    BY DEF CountsKept
  <2>7. m + a <= b
    BY <1>1, <2>2, <2>5, <2>6 DEF AwaitFits
  <2>8. n + x <= y
    BY <2>5, <2>6, <2>7
  <2> QED
    BY <2>2, <2>5, <2>6, <2>8 DEF AwaitFits
<1>4. UsedFits(c)'
  <2>2. PICK S, T : S = Of(c, Slots \ srq) /\ T = Of(c, Slots \ srq)'
    OBVIOUS
  <2>3. T \subseteq S
    BY <2>2 DEF Of
  <2>4. IsFiniteSet(S) /\ Cardinality(S) <= 2 * MaxReq
    BY <1>1, <2>2, OfCount DEF UsedFits
  <2>5. Cardinality(T) <= 2 * MaxReq
    BY <1>0, <2>3, <2>4, Fewer
  <2> QED
    BY <2>2, <2>5 DEF UsedFits
<1> QED
  BY <1>2, <1>3, <1>4 DEF HeldFits

(* The slots of a connection that will be in use keep within bounds when    *)
(* each comes out of a place where it was already counted.                 *)
LEMMA ThinFlow ==
  ASSUME SlotsEnough, SlotsTyped, FlowInv, ConnAssumption, UNCHANGED from,
         NEW f, Thinned(Line, Line', f),
         NEW X, X \subseteq Slots,
         \/ X = {}
         \/ /\ 1 \in DOMAIN Line /\ Line[1].op = "recv" /\ X = {Line[1].slot}
            /\ \A i \in DOMAIN Line' : f[i] # 1,
         Answering' \subseteq Answering \cup X, Acking' \subseteq Acking,
         srq \subseteq srq',
         CountsKept
  PROVE  FlowInv'
<1>1. ASSUME NEW k \in Place PROVE \E j \in Place : HeldAt(k)' \subseteq HeldAt(j)
  <2>1. PICK r : r = Line'
    OBVIOUS
  <2>2. PICK j \in Place : /\ RecvIn(r, k) \subseteq RecvIn(Line, j)
                           /\ RestIn(r, k) \subseteq RestIn(Line, j)
                           /\ (\A i \in DOMAIN r : f[i] # 1) /\ 1 \in DOMAIN Line => 1 < j
    BY <2>1, ThinnedHeld
  <2>3. X \subseteq RecvIn(Line, j)
    BY <2>1, <2>2 DEF RecvIn
  <2>4. RecvIn(Line, k)' = RecvIn(r, k) /\ RestIn(Line, k)' = RestIn(r, k)
    BY <2>1 DEF RecvIn, RestIn
  <2>5. HeldAt(k)' = (RecvIn(r, k) \cup RestIn(r, k)) \cup (Answering' \cup Acking')
    BY <2>4 DEF HeldAt
  <2> QED
    BY <2>2, <2>3, <2>5 DEF HeldAt
<1>2. Awaiting' \subseteq Awaiting
  <2>1. PICK r : r = Line'
    OBVIOUS
  <2>2. RecvAll(r) \subseteq RecvAll(Line)
    BY <2>1, ThinnedRecv
  <2>3. RecvAll(Line)' = RecvAll(r)
    BY <2>1 DEF RecvAll
  <2>4. X \subseteq RecvAll(Line)
    BY DEF RecvAll
  <2>5. Awaiting' = RecvAll(r) \cup Answering'
    BY <2>3 DEF Awaiting
  <2> QED
    BY <2>2, <2>4, <2>5 DEF Awaiting
<1> QED
  BY <1>1, <1>2, KeepsFlow DEF SlotsEnough

(* ... or stays where it was.                                               *)
LEMMA MovedFlow ==
  ASSUME SlotsEnough, SlotsTyped, FlowInv, ConnAssumption, UNCHANGED from,
         NEW f, Thinned(Line, Line', f),
         Answering' \subseteq Answering, Acking' \subseteq Acking,
         srq \subseteq srq', CountsKept
  PROVE  FlowInv'
<1>1. PICK X : X = {}
  OBVIOUS
<1>2. X \subseteq Slots /\ Answering' \subseteq Answering \cup X
  BY <1>1
<1> QED
  BY <1>1, <1>2, ThinFlow

(* A step that leaves the slots in use alone, or posts some.               *)
LEMMA AsideFlow ==
  ASSUME SlotsEnough, SlotsTyped, FlowInv, ConnAssumption,
         UNCHANGED <<from, scq, swc, found, resps, wacks>>, srq \subseteq srq',
         CountsKept
  PROVE  FlowInv'
<1>1. PICK f : f = [i \in DOMAIN Line |-> i]
  OBVIOUS
<1>2. swc[ServerCm] \in Seq(ServerCqe) /\ scq \in Seq(ServerCqe)
  BY DEF SlotsTyped, SlotsEnough, OneThread
<1>3. Line \in Seq(ServerCqe) /\ Line' = Line
  BY <1>2, ConcatProperties DEF Line
<1>4. Thinned(Line, Line', f)
  BY <1>1, <1>3, ThinnedSame
<1>5. Answering' = Answering /\ Acking' = Acking
  BY DEF Answering, Acking, Named, Itself
<1> QED
  BY <1>4, <1>5, MovedFlow

-----------------------------------------------------------------------------
(* An idle client loses nothing.                                           *)

(* A connection without an outstanding request has no receive posted, no   *)
(* response that waits, no request on its way and no slot in use.          *)
LEMMA IdleHasNone ==
  ASSUME SlotsEnough, SlotsTyped, ClientInv, FlowInv, NEW c \in Conns, pend[c] = 0
  PROVE  rqPosted[c] = 0 /\ Answered(c) = {} /\ reqs[c] = 0 /\ Of(c, Awaiting) = {}
<1>1. /\ IsFiniteSet(Answered(c)) /\ Cardinality(Answered(c)) + rqPosted[c] <= 0
      /\ rqPosted[c] \in Nat /\ reqs[c] \in Nat
  BY DEF ClientInv, PendFits, ClientTyped
<1>2. Cardinality(Answered(c)) \in Nat
  BY <1>1, FS_CardinalityType
<1>3. rqPosted[c] = 0 /\ Cardinality(Answered(c)) = 0
  BY <1>1, <1>2
<1>4. Answered(c) = {}
  BY <1>1, <1>3, FS_EmptySet
<1>5. IsFiniteSet(Of(c, Awaiting)) /\ Cardinality(Of(c, Awaiting)) \in Nat
  BY FlowTyped, OfCount DEF SlotsEnough
<1>6. Cardinality(Of(c, Awaiting)) + reqs[c] <= 0
  BY <1>3 DEF FlowInv, AwaitFits
<1>7. reqs[c] = 0 /\ Cardinality(Of(c, Awaiting)) = 0
  BY <1>1, <1>5, <1>6
<1>8. Of(c, Awaiting) = {}
  BY <1>5, <1>7, FS_EmptySet
<1> QED
  BY <1>3, <1>4, <1>7, <1>8

(* A queue pair in error has nothing that could fail.                      *)
LEMMA ErrorHasNone ==
  ASSUME SlotsEnough, SlotsTyped, ClientInv, FlowInv, QuietInv, NEW c \in qpErr
  PROVE  /\ c \in Conns /\ pend[c] = 0 /\ rqPosted[c] = 0 /\ reqs[c] = 0
         /\ Of(c, Awaiting) = {}
<1>1. c \in Conns /\ pend[c] = 0
  BY DEF QuietInv, SlotsTyped
<1> QED
  BY <1>1, IdleHasNone

LEMMA QuietParts ==
  ASSUME \A e \in Members(ccq') \cup Members(cwc'[ClientCm]) : e.ok,
         \A c \in qpErr' : cst'[c] \in {"closing", "closed"},
         \A c \in Conns : cst'[c] \in {"closing", "closed"} => pend'[c] = 0,
         cput'[ClientCm] # None => cst'[cput'[ClientCm]] # "closed",
         \A e \in Members(scq') \cup Members(swc'[ServerCm]) : e.op # "error",
         fault' = "none"
  PROVE  QuietInv'
BY DEF QuietInv, Members

(* A step of the server or of the wire that moves completions of requests  *)
(* and of answers.                                                         *)
LEMMA ServerQuiet ==
  ASSUME QuietInv, UNCHANGED <<cst, pend, ccq, cwc, cput, qpErr>>,
         \A e \in Members(scq') \cup Members(swc'[ServerCm]) : e.op # "error",
         fault' = "none"
  PROVE  QuietInv'
BY QuietParts DEF QuietInv

(* A step of the client that leaves its completions alone.                 *)
LEMMA ClientQuiet ==
  ASSUME QuietInv, UNCHANGED <<ccq, cwc, scq, swc, fault>>,
         \A c \in qpErr' : cst'[c] \in {"closing", "closed"},
         \A c \in Conns : cst'[c] \in {"closing", "closed"} => pend'[c] = 0,
         cput'[ClientCm] # None => cst'[cput'[ClientCm]] # "closed"
  PROVE  QuietInv'
BY QuietParts DEF QuietInv

-----------------------------------------------------------------------------
(* The steps of the client.                                                *)

(* An empty flush.                                                         *)
LEMMA NothingFlushed ==
  ASSUME NEW c, NEW q \in Seq(ClientCqe)
  PROVE  q \o Flushed(c, 0, 0) = q
<1>1. Flushed(c, 0, 0) = <<>>
  <2>1. Flushed(c, 0, 0) = [i \in 1..0 + 0 |-> [conn |-> c, recv |-> i <= 0, ok |-> FALSE]]
    BY DEF Flushed
  <2>2. 1..0 + 0 = {}
    OBVIOUS
  <2> QED
    BY <2>1, <2>2
<1> QED
  BY <1>1, ConcatEmptySeq

LEMMA ConnectFlow ==
  ASSUME ConnInv, SlotsEnough, ConnAssumption, NEW t \in CThreads, NEW c \in Conns, Connect(t, c)
  PROVE  QuietInv' /\ FlowInv'
<1>1. /\ cst[c] = "none" /\ cst' = [cst EXCEPT ![c] = "resolve"]
      /\ UNCHANGED <<pend, ccq, cwc, cput, qpErr, rqPosted, reqs, resps, wacks, srq, from,
                     found, scq, swc, fault>>
  BY DEF Connect, qpVars, respVars, serverVars, slotVars
<1>2. /\ cst \in [Conns -> ClientStates] /\ rqPosted \in [Conns -> Nat] /\ reqs \in [Conns -> Nat]
      /\ cput[ClientCm] \in Conns \cup {None} /\ qpErr \subseteq Conns /\ SlotsTyped
      /\ QuietInv /\ FlowInv
  BY DEF ConnInv, ClientInv, ClientTyped, SlotInv, SlotsTyped, SlotsEnough
<1>3. cst'[c] = "resolve" /\ \A d \in Conns \ {c} : cst'[d] = cst[d]
  BY <1>1, <1>2
<1>4. \A d \in Conns : cst'[d] \in {"closing", "closed"} <=> cst[d] \in {"closing", "closed"}
  BY <1>1, <1>3
<1>5. QuietInv'
  BY <1>1, <1>2, <1>3, <1>4, ClientQuiet DEF QuietInv
<1>6. CountsKept
  BY <1>1, <1>2 DEF CountsKept
<1> QED
  BY <1>1, <1>2, <1>5, <1>6, AsideFlow

(* A request and the receive for its answer are posted together.           *)
LEMMA SendReqFlow ==
  ASSUME ConnInv, SlotsEnough, ConnAssumption, NEW t \in CThreads, NEW c \in Conns, SendReq(t, c)
  PROVE  QuietInv' /\ FlowInv'
<1>1. /\ cst[c] = "up" /\ pend' = [pend EXCEPT ![c] = @ + 1]
      /\ c \notin qpErr => /\ rqPosted' = [rqPosted EXCEPT ![c] = @ + 1]
                           /\ reqs' = [reqs EXCEPT ![c] = @ + 1]
                           /\ UNCHANGED ccq
      /\ UNCHANGED <<cst, cwc, cput, qpErr, resps, wacks, srq, from, found, scq, swc, fault>>
  BY DEF SendReq, respVars, serverVars, slotVars
<1>2. /\ pend \in [Conns -> 0..MaxReq] /\ rqPosted \in [Conns -> Nat] /\ reqs \in [Conns -> Nat]
      /\ SlotsTyped /\ QuietInv /\ FlowInv
  BY DEF ConnInv, ClientInv, ClientTyped, SlotInv
<1>3. c \notin qpErr
  BY <1>1, <1>2 DEF QuietInv
<1>4. \A d \in Conns \ {c} : pend'[d] = pend[d]
  BY <1>1, <1>2
<1>5. \A d \in Conns : cst'[d] \in {"closing", "closed"} => pend'[d] = 0
  BY <1>1, <1>2, <1>4 DEF QuietInv
<1>6. QuietInv'
  BY <1>1, <1>2, <1>3, <1>5, ClientQuiet DEF QuietInv
<1>7. CountsKept
  <2> SUFFICES ASSUME NEW d \in Conns
               PROVE  /\ reqs[d] \in Nat /\ rqPosted[d] \in Nat
                      /\ reqs'[d] \in Nat /\ rqPosted'[d] \in Nat
                      /\ reqs'[d] + rqPosted[d] <= reqs[d] + rqPosted'[d]
    BY DEF CountsKept
  <2>1. CASE d = c
    BY <1>1, <1>2, <1>3, <2>1
  <2>2. CASE d # c
    BY <1>1, <1>2, <1>3, <2>2
  <2> QED
    BY <2>1, <2>2
<1> QED
  BY <1>1, <1>2, <1>6, <1>7, AsideFlow

LEMMA DisconnectFlow ==
  ASSUME ConnInv, SlotsEnough, ConnAssumption, NEW t \in CThreads, NEW c \in Conns,
         Disconnect(t, c)
  PROVE  QuietInv' /\ FlowInv'
<1>1. /\ cst[c] = "up" /\ pend[c] = 0 /\ cst' = [cst EXCEPT ![c] = "closing"]
      /\ qpErr' = qpErr \cup {c}
      /\ ccq' = ccq \o Flushed(c, rqPosted[c], reqs[c])
      /\ rqPosted' = [rqPosted EXCEPT ![c] = 0] /\ reqs' = [reqs EXCEPT ![c] = 0]
      /\ UNCHANGED <<pend, cwc, cput, resps, wacks, srq, from, found, scq, swc, fault>>
  BY DEF Disconnect, QpError, respVars, serverVars, slotVars, SlotsEnough
<1>2. /\ cst \in [Conns -> ClientStates] /\ rqPosted \in [Conns -> Nat] /\ reqs \in [Conns -> Nat]
      /\ ccq \in Seq(ClientCqe) /\ cput[ClientCm] \in Conns \cup {None} /\ qpErr \subseteq Conns
      /\ SlotsTyped /\ QuietInv /\ FlowInv
  BY DEF ConnInv, ClientInv, ClientTyped, SlotInv, SlotsTyped, SlotsEnough
<1>3. rqPosted[c] = 0 /\ reqs[c] = 0
  BY <1>1, <1>2, IdleHasNone DEF ConnInv
<1>4. UNCHANGED <<ccq, rqPosted, reqs>>
  BY <1>1, <1>2, <1>3, NothingFlushed
<1>5. cst'[c] = "closing" /\ \A d \in Conns \ {c} : cst'[d] = cst[d]
  BY <1>1, <1>2
<1>6. \A d \in qpErr' : cst'[d] \in {"closing", "closed"}
  BY <1>1, <1>2, <1>5 DEF QuietInv
<1>7. \A d \in Conns : cst'[d] \in {"closing", "closed"} => pend'[d] = 0
  BY <1>1, <1>2, <1>5 DEF QuietInv
<1>8. cput'[ClientCm] # None => cst'[cput'[ClientCm]] # "closed"
  BY <1>1, <1>2, <1>5 DEF QuietInv
<1>9. QuietInv'
  BY <1>1, <1>2, <1>4, <1>6, <1>7, <1>8, ClientQuiet
<1>10. CountsKept
  BY <1>2, <1>4 DEF CountsKept
<1> QED
  BY <1>1, <1>2, <1>9, <1>10, AsideFlow

(* The client's poller of connection events runs between two requests.     *)
LEMMA ClientCmFlow ==
  ASSUME ConnInv, SlotsEnough, ConnAssumption, NEW c \in Conns, ClientCmStep(c)
  PROVE  QuietInv' /\ FlowInv'
<1>1. PICK old, new : /\ ClientEvent(c, old, new)
                      /\ \/ /\ new \in {"route", "connect", "failed", "stuck", "up"}
                            /\ old \in {"resolve", "route", "connect"} /\ UNCHANGED ccq
                         \/ old = "closing" /\ new = "closed" /\ ccq' = PurgeCq(ccq, c)
  BY DEF ClientCmStep, ClientProgress, OnAddrResolved, OnRouteResolved, OnConnectError, OnOtherEvent,
    OnEstablished, OnDisconnected
<1>2. /\ cput[ClientCm] = None /\ cst[c] = old /\ cst' = [cst EXCEPT ![c] = new]
      /\ UNCHANGED <<pend, cwc, cput, qpErr, rqPosted, reqs, resps, wacks, srq, from,
                     found, scq, swc, fault>>
  BY <1>1 DEF ClientEvent, ClientIdle, ArrayDone, qpVars, respVars, serverVars, slotVars
<1>3. /\ cst \in [Conns -> ClientStates] /\ rqPosted \in [Conns -> Nat] /\ reqs \in [Conns -> Nat]
      /\ ccq \in Seq(ClientCqe) /\ qpErr \subseteq Conns
      /\ SlotsTyped /\ QuietInv /\ FlowInv
  BY DEF ConnInv, ClientInv, ClientTyped, SlotInv, SlotsTyped
<1>4. Members(ccq') \subseteq Members(ccq)
  BY <1>1, <1>3, NamedPurge
<1>5. cst'[c] = new /\ \A d \in Conns \ {c} : cst'[d] = cst[d]
  BY <1>2, <1>3
<1>6. \A d \in Conns : cst'[d] \in {"closing", "closed"} <=> cst[d] \in {"closing", "closed"}
  BY <1>1, <1>2, <1>5
<1>7. QuietInv'
  <2>1. \A e \in Members(ccq') \cup Members(cwc'[ClientCm]) : e.ok
    BY <1>2, <1>3, <1>4 DEF QuietInv
  <2> QED
    BY <1>2, <1>3, <1>6, <2>1, QuietParts DEF QuietInv
<1>8. CountsKept
  BY <1>2, <1>3 DEF CountsKept
<1> QED
  BY <1>2, <1>3, <1>7, <1>8, AsideFlow

LEMMA ClientPollFlow ==
  ASSUME ConnInv, SlotsEnough, ConnAssumption, ClientPoll(ClientCm)
  PROVE  QuietInv' /\ FlowInv'
<1>1. /\ cwc' = [cwc EXCEPT ![ClientCm] = ccq] /\ ccq' = <<>>
      /\ UNCHANGED <<cst, pend, cput, qpErr, rqPosted, reqs, resps, wacks, srq, from,
                     found, scq, swc, fault>>
  BY DEF ClientPoll, qpVars, respVars, serverVars, slotVars
<1>2. /\ rqPosted \in [Conns -> Nat] /\ reqs \in [Conns -> Nat]
      /\ cwc \in [CThreads -> Seq(ClientCqe)]
      /\ SlotsTyped /\ QuietInv /\ FlowInv
  BY DEF ConnInv, ClientInv, ClientTyped, SlotInv
<1>3. cwc'[ClientCm] = ccq /\ Members(ccq') = {}
  BY <1>1, <1>2, NamedEmpty DEF SlotsEnough
<1>4. QuietInv'
  BY <1>1, <1>2, <1>3, QuietParts DEF QuietInv
<1>5. CountsKept
  BY <1>1, <1>2 DEF CountsKept
<1> QED
  BY <1>1, <1>2, <1>4, <1>5, AsideFlow

(* The connection of a response is open: its request is outstanding.       *)
LEMMA OnRecvRespFlow ==
  ASSUME ConnInv, SlotsEnough, ConnAssumption, OnRecvResp(ClientCm)
  PROVE  QuietInv' /\ FlowInv'
<1>a. PICK e : e = Head(cwc[ClientCm])
  OBVIOUS
<1>b. PICK c : c = e.conn
  OBVIOUS
<1>1. /\ cwc[ClientCm] # <<>> /\ e.ok
      /\ \/ cst[c] = "closed"
         \/ /\ cst[c] # "closed" /\ pend' = [pend EXCEPT ![c] = @ - 1]
            /\ cput' = [cput EXCEPT ![ClientCm] = c]
            /\ cwc' = [cwc EXCEPT ![ClientCm] = Tail(@)]
            /\ UNCHANGED fault
      /\ UNCHANGED <<cst, ccq, qpErr, rqPosted, reqs, resps, wacks, srq, from, found, scq, swc>>
  BY <1>a, <1>b DEF OnRecvResp, AtClientCqe, qpVars, respVars, serverVars, slotVars
<1>2. /\ rqPosted \in [Conns -> Nat] /\ reqs \in [Conns -> Nat] /\ pend \in [Conns -> 0..MaxReq]
      /\ cwc[ClientCm] \in Seq(ClientCqe) /\ cwc \in [CThreads -> Seq(ClientCqe)]
      /\ cput \in [CThreads -> Conns \cup {None}] /\ ClientCm \in CThreads
      /\ SlotsTyped /\ QuietInv /\ FlowInv /\ ClientInv
  BY DEF ConnInv, ClientInv, ClientTyped, SlotInv, SlotsEnough
<1>3. e \in ClientCqe /\ 1 \in OkIn(cwc[ClientCm], e.conn)
  BY <1>a, <1>1, <1>2, OkTail
<1>4. c \in Conns /\ 1 \in OkIn(cwc[ClientCm], c)
  BY <1>b, <1>3 DEF ClientCqe
<1>5. Answered(c) # {}
  <2>1. Cwc_(ClientCm) \in ClientSites /\ 1 \in OkIn(CqAt(Cwc_(ClientCm)), c)
    BY <1>2, <1>4, ClientSitesAre
  <2>2. <<Cwc_(ClientCm), 1>> \in Answered(c)
    BY <2>1 DEF Answered
  <2> QED
    BY <2>2
<1>6. pend[c] # 0
  BY <1>2, <1>4, <1>5, IdleHasNone
<1>7. cst[c] \notin {"closing", "closed"}
  BY <1>2, <1>4, <1>6 DEF QuietInv
<1>8. /\ pend' = [pend EXCEPT ![c] = @ - 1] /\ cput' = [cput EXCEPT ![ClientCm] = c]
      /\ cwc'[ClientCm] = Tail(cwc[ClientCm]) /\ UNCHANGED fault
  BY <1>1, <1>2, <1>7
<1>9. \A d \in Conns : cst'[d] \in {"closing", "closed"} => pend'[d] = 0
  <2>1. \A d \in Conns \ {c} : pend'[d] = pend[d]
    BY <1>2, <1>8
  <2> QED
    BY <1>1, <1>2, <1>7, <2>1 DEF QuietInv
<1>10. \A x \in Members(ccq') \cup Members(cwc'[ClientCm]) : x.ok
  BY <1>1, <1>2, <1>8, NamedTail DEF QuietInv
<1>11. cput'[ClientCm] # None => cst'[cput'[ClientCm]] # "closed"
  BY <1>1, <1>2, <1>7, <1>8
<1>12. QuietInv'
  BY <1>1, <1>2, <1>8, <1>9, <1>10, <1>11, QuietParts DEF QuietInv
<1>13. CountsKept
  BY <1>1, <1>2 DEF CountsKept
<1> QED
  BY <1>1, <1>2, <1>12, <1>13, AsideFlow

LEMMA ClientStepFlow ==
  ASSUME ConnInv, SlotsEnough, ConnAssumption, ClientStep(ClientCm)
  PROVE  QuietInv' /\ FlowInv'
<1>1. /\ rqPosted \in [Conns -> Nat] /\ reqs \in [Conns -> Nat]
      /\ cwc[ClientCm] \in Seq(ClientCqe) /\ cput \in [CThreads -> Conns \cup {None}]
      /\ ClientCm \in CThreads /\ SlotsTyped /\ QuietInv /\ FlowInv
  BY DEF ConnInv, ClientInv, ClientTyped, SlotInv, SlotsEnough
<1>2. CASE MempoolPut(ClientCm)
  <2>1. /\ cput[ClientCm] # None
        /\ fault' = IF cst[cput[ClientCm]] = "closed" THEN "client_uaf" ELSE fault
        /\ cput' = [cput EXCEPT ![ClientCm] = None]
        /\ UNCHANGED <<cst, pend, cwc, ccq, qpErr, rqPosted, reqs, resps, wacks, srq, from,
                       found, scq, swc>>
    BY <1>2 DEF MempoolPut, qpVars, respVars, serverVars, slotVars
  <2>2. UNCHANGED fault /\ cput'[ClientCm] = None
    BY <1>1, <2>1 DEF QuietInv
  <2>3. QuietInv'
    BY <1>1, <2>1, <2>2, ClientQuiet DEF QuietInv
  <2>4. CountsKept
    BY <1>1, <2>1 DEF CountsKept
  <2> QED
    BY <1>1, <2>1, <2>3, <2>4, AsideFlow
<1>3. ~ OnClientError(ClientCm) /\ ~ OnRecvRespFailed(ClientCm)
  <2> SUFFICES ASSUME OnClientError(ClientCm) \/ OnRecvRespFailed(ClientCm) PROVE FALSE
    OBVIOUS
  <2>1. cwc[ClientCm] # <<>> /\ Head(cwc[ClientCm]).ok = FALSE
    BY DEF OnClientError, OnRecvRespFailed, AtClientCqe
  <2>2. Head(cwc[ClientCm]) \in Members(cwc[ClientCm])
    BY <1>1, <2>1, NamedTail
  <2> QED
    BY <1>1, <2>1, <2>2 DEF QuietInv
<1>4. CASE ClientPollEmpty(ClientCm)
  <2>1. UNCHANGED <<cst, pend, cwc, cput, ccq, qpErr, rqPosted, reqs, resps, wacks, srq, from,
                    found, scq, swc, fault>>
    BY <1>4 DEF ClientPollEmpty, qpVars, respVars, serverVars, slotVars
  <2>2. QuietInv'
    BY <1>1, <2>1, ClientQuiet DEF QuietInv
  <2>3. CountsKept
    BY <1>1, <2>1 DEF CountsKept
  <2> QED
    BY <1>1, <2>1, <2>2, <2>3, AsideFlow
<1> QED
  BY <1>2, <1>3, <1>4, ClientPollFlow, OnRecvRespFlow DEF ClientStep

-----------------------------------------------------------------------------
(* The steps of the server.                                                *)

LEMMA LineTyped ==
  ASSUME SlotsTyped, SlotsEnough
  PROVE  /\ swc[ServerCm] \in Seq(ServerCqe) /\ scq \in Seq(ServerCqe) /\ Line \in Seq(ServerCqe)
         /\ Thinned(Line, Line, [i \in DOMAIN Line |-> i])
<1>1. swc[ServerCm] \in Seq(ServerCqe) /\ scq \in Seq(ServerCqe)
  BY DEF SlotsTyped, SlotsEnough, OneThread
<1>2. Line \in Seq(ServerCqe)
  BY <1>1, ConcatProperties DEF Line
<1> QED
  BY <1>1, <1>2, ThinnedSame

(* Steps of the server do not touch the numbers of requests and receives.  *)
LEMMA ServerCounts ==
  ASSUME ClientInv, UNCHANGED <<reqs, rqPosted>>
  PROVE  CountsKept
<1>1. rqPosted \in [Conns -> Nat] /\ reqs \in [Conns -> Nat]
  BY DEF ClientInv, ClientTyped
<1> QED
  BY <1>1 DEF CountsKept

LEMMA ServerCmFlow ==
  ASSUME ConnInv, SlotsEnough, ConnAssumption, NEW c \in Conns, ServerCmStep(c)
  PROVE  QuietInv' /\ FlowInv'
<1>1. /\ UNCHANGED <<cst, pend, ccq, cwc, cput, qpErr, rqPosted, reqs, resps, wacks, from,
                     found, scq, swc, fault>>
      /\ srq' \in {srq, Slots}
  BY DEF ServerCmStep, OnConnectRequest, HashDelete, clientSide, clientVars, qpVars, respVars,
    slotVars
<1>2. SlotsTyped /\ QuietInv /\ FlowInv /\ CountsKept
  BY <1>1, ServerCounts DEF ConnInv, SlotInv
<1>3. srq \subseteq srq'
  BY <1>1, <1>2 DEF SlotsTyped
<1>4. QuietInv'
  BY <1>1, <1>2, ServerQuiet DEF QuietInv
<1> QED
  BY <1>1, <1>2, <1>3, <1>4, AsideFlow

LEMMA ServerPollFlow ==
  ASSUME ConnInv, SlotsEnough, ConnAssumption, ServerPoll(ServerCm)
  PROVE  QuietInv' /\ FlowInv'
<1>1. /\ swc[ServerCm] = <<>> /\ swc' = [swc EXCEPT ![ServerCm] = scq] /\ scq' = <<>>
      /\ UNCHANGED <<cst, pend, ccq, cwc, cput, qpErr, rqPosted, reqs, resps, wacks, srq, from,
                     found, fault>>
  BY DEF ServerPoll, SArrayDone, clientSide, clientVars, qpVars, respVars
<1>2. /\ SlotsTyped /\ QuietInv /\ FlowInv /\ CountsKept
      /\ swc \in [SThreads -> Seq(ServerCqe)] /\ ServerCm \in SThreads
  BY <1>1, ServerCounts DEF ConnInv, SlotInv, SlotsTyped, SlotsEnough, OneThread
<1>3. swc'[ServerCm] = scq /\ Members(scq') = {}
  BY <1>1, <1>2, NamedEmpty
<1>4. QuietInv'
  BY <1>1, <1>2, <1>3, ServerQuiet DEF QuietInv
<1>5. Line' = Line
  BY <1>1, <1>2, <1>3, LineTyped, ConcatEmptySeq DEF Line
<1>6. Answering' = Answering /\ Acking' = Acking
  BY <1>1 DEF Answering, Acking, Named, Itself
<1>7. PICK f : f = [i \in DOMAIN Line |-> i]
  OBVIOUS
<1>8. Thinned(Line, Line', f)
  BY <1>2, <1>5, <1>7, LineTyped
<1> QED
  BY <1>1, <1>2, <1>4, <1>6, <1>8, MovedFlow

(* The thread takes its first completion.                                  *)
LEMMA HeadTaken ==
  ASSUME SlotsTyped, SlotsEnough, swc[ServerCm] # <<>>,
         swc' = [swc EXCEPT ![ServerCm] = Tail(@)], UNCHANGED scq
  PROVE  /\ \E f : Thinned(Line, Line', f) /\ \A i \in DOMAIN Line' : f[i] # 1
         /\ 1 \in DOMAIN Line /\ Line[1] = Head(swc[ServerCm])
         /\ swc'[ServerCm] = Tail(swc[ServerCm])
         /\ Members(swc'[ServerCm]) \subseteq Members(swc[ServerCm])
         /\ Head(swc[ServerCm]) \in Members(swc[ServerCm])
         /\ Head(swc[ServerCm]) \in ServerCqe
<1>1. swc'[ServerCm] = Tail(swc[ServerCm])
  BY DEF SlotsTyped, SlotsEnough, OneThread
<1>2. swc[ServerCm] \in Seq(ServerCqe) /\ scq \in Seq(ServerCqe)
  BY LineTyped
<1>3. PICK p, q, r : /\ p = swc[ServerCm] /\ q = scq /\ r = Tail(p) \o q
                     /\ p \in Seq(ServerCqe) /\ q \in Seq(ServerCqe) /\ p # <<>>
  BY <1>2
<1>4. Line = p \o q /\ Line' = r
  BY <1>1, <1>3 DEF Line
<1>5. PICK f : f = [i \in DOMAIN r |-> i + 1]
  OBVIOUS
<1>6. /\ Thinned(p \o q, r, f) /\ \A i \in DOMAIN r : f[i] # 1
      /\ 1 \in DOMAIN (p \o q) /\ (p \o q)[1] = Head(p)
  BY <1>3, <1>5, FrontThins
<1>7. /\ Members(Tail(p)) \subseteq Members(p) /\ Head(p) \in Members(p) /\ Head(p) \in ServerCqe
  BY <1>3, NamedTail, HeadTailProperties
<1> QED
  BY <1>1, <1>3, <1>4, <1>6, <1>7

LEMMA FindConnFlow ==
  ASSUME ConnInv, SlotsEnough, ConnAssumption, Straight', FindConn(ServerCm)
  PROVE  QuietInv' /\ FlowInv'
<1>a. PICK s : s = Head(swc[ServerCm]).slot
  OBVIOUS
<1>1. /\ swc[ServerCm] # <<>> /\ Head(swc[ServerCm]).op = "recv"
      /\ swc' = [swc EXCEPT ![ServerCm] = Tail(@)]
      /\ fault' = "assert_conn" \/ (found' = [found EXCEPT ![ServerCm] = s] /\ UNCHANGED fault)
      /\ UNCHANGED <<cst, pend, ccq, cwc, cput, qpErr, rqPosted, reqs, resps, wacks, srq, from,
                     scq>>
  <2>1. UNCHANGED <<cst, pend, ccq, cwc, cput, qpErr, rqPosted, reqs, resps, wacks, srq, from,
                    scq>>
    BY DEF FindConn, clientSide, clientVars, qpVars, respVars
  <2>2. fault' = "assert_conn" \/ (found' = [found EXCEPT ![ServerCm] = s] /\ UNCHANGED fault)
    BY <1>a DEF FindConn
  <2> QED
    BY <2>1, <2>2 DEF FindConn, AtServerCqe
<1>2. /\ SlotsTyped /\ QuietInv /\ FlowInv /\ CountsKept
      /\ found \in [SThreads -> Slots \cup {None}] /\ ServerCm \in SThreads
  BY <1>1, ServerCounts DEF ConnInv, SlotInv, SlotsTyped, SlotsEnough, OneThread
<1>3. found'[ServerCm] = s /\ UNCHANGED fault
  BY <1>1, <1>2 DEF Straight, NoServerFault
<1>4. PICK f : Thinned(Line, Line', f) /\ \A i \in DOMAIN Line' : f[i] # 1
  BY <1>1, <1>2, HeadTaken
<1>5. /\ 1 \in DOMAIN Line /\ Line[1] = Head(swc[ServerCm])
      /\ Members(swc'[ServerCm]) \subseteq Members(swc[ServerCm])
      /\ Head(swc[ServerCm]) \in ServerCqe
  BY <1>1, <1>2, HeadTaken
<1>6. QuietInv'
  BY <1>1, <1>2, <1>3, <1>5, ServerQuiet DEF QuietInv
<1>7. PICK X : X = {s}
  OBVIOUS
<1>8. X \subseteq Slots /\ X = {Line[1].slot} /\ Line[1].op = "recv"
  BY <1>a, <1>1, <1>5, <1>7, SlotOfCqe
<1>9. Answering' \subseteq Answering \cup X /\ Acking' \subseteq Acking
  BY <1>1, <1>3, <1>7 DEF Answering, Acking, Named, Itself
<1> QED
  BY <1>1, <1>2, <1>4, <1>5, <1>6, <1>8, <1>9, ThinFlow

LEMMA OnWriteRespDoneFlow ==
  ASSUME ConnInv, SlotsEnough, ConnAssumption, Straight', OnWriteRespDone(ServerCm)
  PROVE  QuietInv' /\ FlowInv'
<1>1. /\ swc[ServerCm] # <<>>
      /\ swc' = [swc EXCEPT ![ServerCm] = Tail(@)]
      /\ fault' = "assert_server" \/ (srq \subseteq srq' /\ UNCHANGED fault)
      /\ UNCHANGED <<cst, pend, ccq, cwc, cput, qpErr, rqPosted, reqs, resps, wacks, found, from,
                     scq>>
  <2>1. UNCHANGED <<cst, pend, ccq, cwc, cput, qpErr, rqPosted, reqs, resps, wacks, found,
                    from, scq>>
    BY DEF OnWriteRespDone, clientSide, clientVars, qpVars, respVars
  <2>2. fault' = "assert_server" \/ (srq \subseteq srq' /\ UNCHANGED fault)
    BY DEF OnWriteRespDone, Repost
  <2> QED
    BY <2>1, <2>2 DEF OnWriteRespDone, AtServerCqe
<1>2. SlotsTyped /\ QuietInv /\ FlowInv /\ CountsKept
  BY <1>1, ServerCounts DEF ConnInv, SlotInv
<1>3. srq \subseteq srq' /\ UNCHANGED fault
  BY <1>1 DEF Straight, NoServerFault
<1>4. PICK f : Thinned(Line, Line', f)
  BY <1>1, <1>2, HeadTaken
<1>5. Members(swc'[ServerCm]) \subseteq Members(swc[ServerCm])
  BY <1>1, <1>2, HeadTaken
<1>6. QuietInv'
  BY <1>1, <1>2, <1>3, <1>5, ServerQuiet DEF QuietInv
<1>7. Answering' \subseteq Answering /\ Acking' \subseteq Acking
  BY <1>1 DEF Answering, Acking, Named, Itself
<1> QED
  BY <1>1, <1>2, <1>3, <1>4, <1>6, <1>7, MovedFlow

LEMMA NoServerError ==
  ASSUME ConnInv, SlotsEnough
  PROVE  ~ OnServerError(ServerCm)
<1> SUFFICES ASSUME OnServerError(ServerCm) PROVE FALSE
  OBVIOUS
<1>1. /\ swc[ServerCm] # <<>> /\ Head(swc[ServerCm]).op = "error"
      /\ swc' = [swc EXCEPT ![ServerCm] = Tail(@)] /\ UNCHANGED scq
  BY DEF OnServerError, AtServerCqe
<1>2. Head(swc[ServerCm]) \in Members(swc[ServerCm])
  BY <1>1, HeadTaken DEF ConnInv, SlotInv
<1> QED
  BY <1>1, <1>2 DEF ConnInv, QuietInv

(* The answer is on its way when the handler returns.                      *)
LEMMA CallHandlerFlow ==
  ASSUME ConnInv, SlotsEnough, ConnAssumption, Straight', CallHandler(ServerCm)
  PROVE  QuietInv' /\ FlowInv'
<1>a. PICK s : s = found[ServerCm]
  OBVIOUS
<1>b. PICK c : c = reqConn[s]
  OBVIOUS
<1>1. /\ s # None /\ found' = [found EXCEPT ![ServerCm] = None]
      /\ fault' = "server_uaf" \/ (resps' = [resps EXCEPT ![c] = Append(@, s)] /\ UNCHANGED fault)
      /\ UNCHANGED <<cst, pend, ccq, cwc, cput, qpErr, rqPosted, reqs, wacks, srq, from, scq, swc>>
  <2>1. UNCHANGED <<cst, pend, ccq, cwc, cput, qpErr, rqPosted, reqs, wacks, srq, from, swc, scq>>
    BY DEF CallHandler, clientSide, clientVars, qpVars
  <2>2. fault' = "server_uaf" \/ (resps' = [resps EXCEPT ![c] = Append(@, s)] /\ UNCHANGED fault)
    BY <1>a, <1>b DEF CallHandler, Respond, SlotsEnough
  <2> QED
    BY <1>a, <2>1, <2>2 DEF CallHandler
<1>2. /\ SlotsTyped /\ QuietInv /\ FlowInv /\ CountsKept /\ SlotsTraced
      /\ found \in [SThreads -> Slots \cup {None}] /\ ServerCm \in SThreads
      /\ resps \in [Conns -> Seq(Slots)]
  BY <1>1, ServerCounts DEF ConnInv, SlotInv, SlotsTyped, SlotsEnough, OneThread
<1>3. resps' = [resps EXCEPT ![c] = Append(@, s)] /\ UNCHANGED fault
  BY <1>1 DEF Straight, NoServerFault, SlotsEnough
<1>4. s \in Slots /\ c \in Conns /\ found'[ServerCm] = None
  BY <1>a, <1>b, <1>1, <1>2 DEF SlotsTraced, TracedConn
<1>5. QuietInv'
  BY <1>1, <1>2, <1>3, ServerQuiet DEF QuietInv
<1>6. Line' = Line
  BY <1>1 DEF Line
<1>7. PICK f : f = [i \in DOMAIN Line |-> i]
  OBVIOUS
<1>8. Thinned(Line, Line', f)
  BY <1>2, <1>6, <1>7, LineTyped
<1>9. Acking' \subseteq Acking
  BY <1>1 DEF Acking, Named, Itself
<1>10. \A d \in Conns : Named(resps'[d], Itself) \subseteq Named(resps[d], Itself) \cup {s}
  <2> TAKE d \in Conns
  <2>1. CASE d = c
    <3>1. resps'[d] = Append(resps[d], s) /\ resps[d] \in Seq(Slots) /\ Itself[s] = s
      BY <1>2, <1>3, <1>4, <2>1 DEF Itself
    <3> QED
      BY <1>4, <3>1, NamedAppend
  <2>2. CASE d # c
    <3>1. resps'[d] = resps[d]
      BY <1>2, <1>3, <2>2
    <3> QED
      BY <3>1
  <2> QED
    BY <2>1, <2>2
<1>11. Answering' \subseteq Answering
  <2>1. Answering' = ({found'[ServerCm]} \ {None}) \cup UNION {Named(resps'[d], Itself) : d \in Conns}
    BY DEF Answering, Named, Itself
  <2>2. s \in Answering
    BY <1>a, <1>1 DEF Answering
  <2> QED
    BY <1>4, <1>10, <2>1, <2>2 DEF Answering
<1> QED
  BY <1>1, <1>2, <1>5, <1>8, <1>9, <1>11, MovedFlow

LEMMA ServerStepFlow ==
  ASSUME ConnInv, SlotsEnough, ConnAssumption, Straight', ServerStep(ServerCm)
  PROVE  QuietInv' /\ FlowInv'
<1>1. CASE ServerPollEmpty(ServerCm)
  <2>1. UNCHANGED <<cst, pend, ccq, cwc, cput, qpErr, rqPosted, reqs, resps, wacks, srq, from,
                    found, scq, swc, fault>>
    BY <1>1 DEF ServerPollEmpty, clientSide, clientVars, qpVars, respVars
  <2>2. SlotsTyped /\ QuietInv /\ FlowInv /\ CountsKept
    BY <2>1, ServerCounts DEF ConnInv, SlotInv
  <2>3. QuietInv'
    BY <2>1, <2>2, ServerQuiet DEF QuietInv
  <2> QED
    BY <2>1, <2>2, <2>3, AsideFlow
<1> QED
  BY <1>1, ServerPollFlow, FindConnFlow, OnWriteRespDoneFlow, NoServerError, CallHandlerFlow
  DEF ServerStep

(* The completions of a connection that is freed go.                       *)
LEMMA DestroyAndFreeFlow ==
  ASSUME ConnInv, SlotsEnough, ConnAssumption, DestroyAndFree
  PROVE  QuietInv' /\ FlowInv'
<1>a. PICK c : c = dying
  OBVIOUS
<1>1. /\ c # None /\ resps' = [resps EXCEPT ![c] = <<>>] /\ wacks' = [wacks EXCEPT ![c] = <<>>]
      /\ scq' = PurgeCq(scq, c)
      /\ UNCHANGED <<cst, pend, ccq, cwc, cput, qpErr, rqPosted, reqs, srq, from, found, swc, fault>>
  BY <1>a DEF DestroyAndFree, clientSide, clientVars, qpVars, slotVars
<1>2. /\ SlotsTyped /\ QuietInv /\ FlowInv /\ CountsKept
      /\ resps \in [Conns -> Seq(Slots)] /\ wacks \in [Conns -> Seq(Slots)]
      /\ scq \in Seq(ServerCqe) /\ swc[ServerCm] = <<>>
  BY <1>a, <1>1, ServerCounts, LineTyped DEF ConnInv, SlotInv, SlotsTyped, Straight
<1>3. Members(scq') \subseteq Members(scq)
  BY <1>1, <1>2, NamedPurge
<1>4. QuietInv'
  BY <1>1, <1>2, <1>3, ServerQuiet DEF QuietInv
<1>5. Line = scq /\ Line' = scq'
  <2>1. scq' \in Seq(ServerCqe)
    BY <1>1, <1>2, NamedPurge
  <2> QED
    BY <1>1, <1>2, <2>1, ConcatEmptySeq DEF Line
<1>6. PICK q, r : q = scq /\ r = scq' /\ q \in Seq(ServerCqe) /\ r = PurgeCq(q, c)
  BY <1>1, <1>2
<1>7. PICK n \in Nat : \E f \in Bijection(1..n, Kept(q, c)) :
        r = [k \in 1..n |-> q[f[k]]] /\ \A i, j \in 1..n : i < j => f[i] < f[j]
  BY <1>6, PurgeSelects
<1>8. PICK f \in Bijection(1..n, Kept(q, c)) :
        r = [k \in 1..n |-> q[f[k]]] /\ \A i, j \in 1..n : i < j => f[i] < f[j]
  BY <1>7
<1>9. Thinned(q, r, f)
  <2>1. \A k \in 1..n : f[k] \in DOMAIN q
    BY <1>8 DEF Bijection, Injection, Kept
  <2>2. \E m \in Nat : DOMAIN q = 1..m
    BY <1>6, LenProperties
  <2> QED
    BY <1>7, <1>8, <2>1, <2>2 DEF Thinned
<1>10. \A d \in Conns : /\ Named(resps'[d], Itself) \subseteq Named(resps[d], Itself)
                        /\ Named(wacks'[d], Itself) \subseteq Named(wacks[d], Itself)
  <2> TAKE d \in Conns
  <2>1. CASE d = c
    BY <1>1, <1>2, <2>1, NamedEmpty
  <2>2. CASE d # c
    BY <1>1, <1>2, <2>2
  <2> QED
    BY <2>1, <2>2
<1>11. Answering' \subseteq Answering /\ Acking' \subseteq Acking
  <2>1. /\ Answering' = ({found'[ServerCm]} \ {None}) \cup UNION {Named(resps'[d], Itself) : d \in Conns}
        /\ Acking' = UNION {Named(wacks'[d], Itself) : d \in Conns}
    BY DEF Answering, Acking, Named, Itself
  <2>2. UNION {Named(resps'[d], Itself) : d \in Conns}
          \subseteq UNION {Named(resps[d], Itself) : d \in Conns}
    BY <1>10
  <2>3. UNION {Named(wacks'[d], Itself) : d \in Conns}
          \subseteq UNION {Named(wacks[d], Itself) : d \in Conns}
    BY <1>10
  <2>4. found' = found
    BY <1>1
  <2> QED
    BY <2>1, <2>2, <2>3, <2>4 DEF Answering, Acking
<1>12. Thinned(Line, Line', f)
  BY <1>5, <1>6, <1>9
<1> QED
  BY <1>1, <1>2, <1>4, <1>11, <1>12, MovedFlow

-----------------------------------------------------------------------------
(* The fabric.                                                             *)

LEMMA LineHolds ==
  ASSUME SlotsTyped, SlotsEnough
  PROVE  Members(Line) = Members(swc[ServerCm]) \cup Members(scq)
<1>1. PICK p, q : p = swc[ServerCm] /\ q = scq /\ p \in Seq(ServerCqe) /\ q \in Seq(ServerCqe)
  BY LineTyped
<1>2. PICK a : a = p \o q
  OBVIOUS
<1>3. /\ a \in Seq(ServerCqe) /\ Len(a) = Len(p) + Len(q)
      /\ \A i \in 1..(Len(p) + Len(q)) : a[i] = IF i <= Len(p) THEN p[i] ELSE q[i - Len(p)]
  BY <1>1, <1>2, ConcatProperties
<1>4. /\ DOMAIN p = 1..Len(p) /\ DOMAIN q = 1..Len(q) /\ DOMAIN a = 1..(Len(p) + Len(q))
      /\ Len(p) \in Nat /\ Len(q) \in Nat
  BY <1>1, <1>3, LenProperties
<1>5. ASSUME NEW i \in DOMAIN a PROVE a[i] \in Members(p) \cup Members(q)
  <2>1. CASE i <= Len(p)
    BY <1>3, <1>4, <2>1 DEF Members
  <2>2. CASE ~ (i <= Len(p))
    <3>1. a[i] = q[i - Len(p)] /\ i - Len(p) \in DOMAIN q
      BY <1>3, <1>4, <2>2
    <3> QED
      BY <3>1 DEF Members
  <2> QED
    BY <2>1, <2>2
<1>6. ASSUME NEW i \in DOMAIN p PROVE p[i] \in Members(a)
  <2>1. a[i] = p[i] /\ i \in DOMAIN a
    BY <1>3, <1>4
  <2> QED
    BY <2>1 DEF Members
<1>7. ASSUME NEW i \in DOMAIN q PROVE q[i] \in Members(a)
  <2>1. PICK j \in DOMAIN a : j = Len(p) + i /\ ~ (j <= Len(p)) /\ j - Len(p) = i
    BY <1>4
  <2>2. a[j] = q[i]
    BY <1>3, <1>4, <2>1
  <2> QED
    BY <2>2 DEF Members
<1>8. Members(a) \subseteq Members(p) \cup Members(q)
  BY <1>5 DEF Members
<1>9. Members(p) \subseteq Members(a) /\ Members(q) \subseteq Members(a)
  BY <1>6, <1>7 DEF Members
<1>10. Line = a
  BY <1>1, <1>2 DEF Line
<1> QED
  BY <1>1, <1>8, <1>9, <1>10

(* A slot of an open connection that is not posted is in use.              *)
Covers ==
  SlotsEnough /\ SlotInv /\ Straight /\ fault = "none" =>
    \A c \in Conns \ qpErr :
      sst[c] = "live" => Of(c, Slots \ srq) \subseteq Of(c, Awaiting) \cup Of(c, HeldAt(1))

LEMMA Covered == Covers
<1> SUFFICES ASSUME SlotsEnough, SlotInv, Straight, fault = "none",
                    NEW c \in Conns \ qpErr, sst[c] = "live",
                    NEW s \in Slots \ srq, from[s] = c
             PROVE  s \in Awaiting \cup HeldAt(1)
  BY DEF Covers, Of
<1>1. Used(s)
  BY DEF SlotInv, LostIsGone, Unposted, Gone
<1>2. PICK p \in SlotSites : s \in SlotsAt(p)
  BY <1>1 DEF Used
<1>3. ASSUME NEW q \in Seq(ServerCqe), Members(q) \subseteq Members(Line), s \in Named(q, SlotOf)
      PROVE  s \in Awaiting \cup HeldAt(1)
  <2>1. PICK x \in Members(q) : SlotOf[x] = s
    BY <1>3, NamedMembers
  <2>2. x \in ServerCqe
    BY <1>3, ElementOfSeq, LenProperties DEF Members
  <2>3. x.slot = s
    BY <2>1, <2>2, SlotOfCqe
  <2>4. PICK i \in DOMAIN Line : Line[i] = x
    BY <1>3 DEF Members
  <2>5. 1 <= i
    <3>1. Line \in Seq(ServerCqe)
      BY LineTyped DEF SlotInv
    <3>2. PICK n \in Nat : DOMAIN Line = 1..n
      BY <3>1, LenProperties
    <3> QED
      BY <3>2
  <2>6. CASE x.op = "recv"
    BY <2>3, <2>4, <2>6 DEF Awaiting, RecvAll
  <2>7. CASE x.op # "recv"
    BY <2>3, <2>4, <2>5, <2>7 DEF HeldAt, RestIn
  <2> QED
    BY <2>6, <2>7
<1>4. /\ swc[ServerCm] \in Seq(ServerCqe) /\ scq \in Seq(ServerCqe)
      /\ Members(swc[ServerCm]) \subseteq Members(Line) /\ Members(scq) \subseteq Members(Line)
  BY LineTyped, LineHolds DEF SlotInv
<1>5. CASE p \in {Srq_, Handling_, Scq_}
  <2>1. p # Srq_ /\ p # Handling_
    BY <1>2, SlotsAtSites DEF Straight, SlotsEnough
  <2> QED
    BY <1>2, <1>3, <1>4, <1>5, <2>1, SlotsAtSites
<1>6. ASSUME NEW t \in SThreads, p \in {Found_(t), Swc_(t)} PROVE s \in Awaiting \cup HeldAt(1)
  <2>1. t = ServerCm
    BY DEF SlotsEnough, OneThread
  <2>2. CASE p = Found_(t)
    BY <1>2, <2>1, <2>2, SlotsAtSites DEF Awaiting, Answering
  <2>3. CASE p = Swc_(t)
    BY <1>2, <1>3, <1>4, <2>1, <2>3, SlotsAtSites
  <2> QED
    BY <1>6, <2>2, <2>3
<1>7. ASSUME NEW d \in Conns, p \in {Resps_(d), Wacks_(d)} PROVE s \in Awaiting \cup HeldAt(1)
  <2>1. s \in Named(resps[d], Itself) \/ s \in Named(wacks[d], Itself)
    BY <1>2, <1>7, SlotsAtSites
  <2> QED
    BY <2>1 DEF Awaiting, HeldAt, Answering, Acking
<1> QED
  BY <1>5, <1>6, <1>7, SiteKinds

(* A set in two parts.                                                     *)
LEMMA TwoParts ==
  ASSUME NEW S, NEW A, NEW B, IsFiniteSet(A), IsFiniteSet(B), S \subseteq A \cup B
  PROVE  /\ IsFiniteSet(S) /\ Cardinality(S) \in Nat
         /\ Cardinality(A) \in Nat /\ Cardinality(B) \in Nat
         /\ Cardinality(S) <= Cardinality(A) + Cardinality(B)
<1>1. /\ IsFiniteSet(A \cup B) /\ IsFiniteSet(A \cap B)
      /\ Cardinality(A \cup B) = Cardinality(A) + Cardinality(B) - Cardinality(A \cap B)
  BY FS_Union, FS_Intersection
<1>2. IsFiniteSet(S) /\ Cardinality(S) \in Nat /\ Cardinality(S) <= Cardinality(A \cup B)
  BY <1>1, Fewer
<1>3. Cardinality(A) \in Nat /\ Cardinality(B) \in Nat /\ Cardinality(A \cap B) \in Nat
  BY <1>1, FS_CardinalityType
<1> QED
  BY <1>1, <1>2, <1>3

(* The slots of an open connection: those the client waits for and those   *)
(* of the answers before.                                                  *)
CoverCounts ==
  SlotsEnough /\ ConnAssumption /\ SlotInv /\ Straight /\ fault = "none" /\ ClientInv =>
    \A c \in Conns \ qpErr :
      sst[c] = "live" /\ HeldFits(c) /\ AwaitFits(c) =>
        /\ Cardinality(Of(c, Slots \ srq)) \in Nat
        /\ Cardinality(Of(c, Slots \ srq)) + reqs[c] <= rqPosted[c] + MaxReq
        /\ rqPosted[c] <= MaxReq /\ rqPosted[c] \in Nat /\ reqs[c] \in Nat

LEMMA CoveredCount == CoverCounts
<1> SUFFICES ASSUME SlotsEnough, ConnAssumption, SlotInv, Straight, fault = "none", ClientInv,
                    NEW c \in Conns \ qpErr, sst[c] = "live", HeldFits(c), AwaitFits(c)
             PROVE  /\ Cardinality(Of(c, Slots \ srq)) \in Nat
                    /\ Cardinality(Of(c, Slots \ srq)) + reqs[c] <= rqPosted[c] + MaxReq
                    /\ rqPosted[c] <= MaxReq /\ rqPosted[c] \in Nat /\ reqs[c] \in Nat
  BY DEF CoverCounts
<1>1. /\ rqPosted[c] \in Nat /\ reqs[c] \in Nat /\ pend[c] \in 0..MaxReq /\ MaxReq \in Nat
      /\ IsFiniteSet(Answered(c)) /\ Cardinality(Answered(c)) + rqPosted[c] <= pend[c]
  BY DEF ClientInv, ClientTyped, ConnAssumption, PendFits
<1>2. Cardinality(Answered(c)) \in Nat
  BY <1>1, FS_CardinalityType
<1>3. rqPosted[c] <= MaxReq
  BY <1>1, <1>2
<1>4. PICK S, A, B : S = Of(c, Slots \ srq) /\ A = Of(c, Awaiting) /\ B = Of(c, HeldAt(1))
  OBVIOUS
<1>5. S \subseteq A \cup B
  BY <1>4, Covered DEF Covers
<1>6. 1 \in Place
  BY DEF Place
<1>7. IsFiniteSet(A) /\ IsFiniteSet(B)
  BY <1>4, <1>6, FlowTyped, OfCount DEF SlotInv, SlotsEnough
<1>8. PICK a, b, n \in Nat : /\ a = Cardinality(A) /\ b = Cardinality(B) /\ n = Cardinality(S)
                             /\ n <= a + b
  BY <1>5, <1>7, TwoParts
<1>9. b <= MaxReq /\ a + reqs[c] <= rqPosted[c]
  BY <1>1, <1>4, <1>6, <1>8 DEF HeldFits, AwaitFits
<1>10. n + reqs[c] <= rqPosted[c] + MaxReq
  BY <1>1, <1>8, <1>9
<1> QED
  BY <1>1, <1>3, <1>4, <1>8, <1>10

(* A slot in use holds the request of a connection.                        *)
LEMMA UsedFrom ==
  ASSUME SlotInv, Straight, SlotsEnough, NEW s \in Slots \ srq, Used(s)
  PROVE  from[s] \in Conns
<1>1. PICK p \in SlotSites : s \in SlotsAt(p)
  BY DEF Used
<1>2. ASSUME NEW q \in Seq(ServerCqe), TracedCq(q), s \in Named(q, SlotOf)
      PROVE  from[s] \in Conns
  <2>1. PICK x \in Members(q) : SlotOf[x] = s
    BY <1>2, NamedMembers
  <2>2. x \in ServerCqe /\ CqeTraced(x)
    BY <1>2, ElementOfSeq, LenProperties DEF Members, TracedCq
  <2>3. x.slot = s /\ x.conn \in Conns /\ x.op \in {"recv", "write", "error"}
    BY <2>1, <2>2, SlotOfCqe DEF ServerCqe
  <2> QED
    BY <2>2, <2>3 DEF CqeTraced, Traced
<1>3. SlotsTraced /\ SlotsTyped
  BY DEF SlotInv
<1>4. CASE p \in {Srq_, Handling_, Scq_}
  <2>1. p # Srq_
    BY <1>1, SlotsAtSites
  <2>2. p # Handling_
    BY <1>1, SlotsAtSites DEF Straight, SlotsEnough
  <2>3. s \in Named(scq, SlotOf)
    BY <1>1, <1>4, <2>1, <2>2, SlotsAtSites
  <2> QED
    BY <1>2, <1>3, <2>3 DEF SlotsTraced, SlotsTyped
<1>5. ASSUME NEW t \in SThreads, p \in {Found_(t), Swc_(t)} PROVE from[s] \in Conns
  <2>1. CASE p = Found_(t)
    <3>1. s = found[t] /\ s # None
      BY <1>1, <2>1, SlotsAtSites
    <3> QED
      BY <1>3, <3>1 DEF SlotsTraced, TracedConn, Traced
  <2>2. CASE p = Swc_(t)
    <3>1. s \in Named(swc[t], SlotOf)
      BY <1>1, <2>2, SlotsAtSites
    <3> QED
      BY <1>2, <1>3, <3>1 DEF SlotsTraced, SlotsTyped
  <2> QED
    BY <1>5, <2>1, <2>2
<1>6. ASSUME NEW d \in Conns, p \in {Resps_(d), Wacks_(d)} PROVE from[s] \in Conns
  <2>1. s \in Named(resps[d], Itself) \/ s \in Named(wacks[d], Itself)
    BY <1>1, <1>6, SlotsAtSites
  <2> QED
    BY <1>3, <2>1 DEF SlotsTraced, TracedWrites, Traced
<1> QED
  BY <1>4, <1>5, <1>6, SiteKinds

(* Without a posted slot every slot is used for some connection, for none  *)
(* more than twice its requests, and for one that still sends one less:    *)
(* there would have to be fewer slots.                                     *)
LEMMA RoomForAll ==
  ASSUME NEW C, NEW S, NEW m \in Nat, IsFiniteSet(C), IsFiniteSet(S), NEW of,
         \A s \in S : of[s] \in C,
         \A d \in C : Cardinality({s \in S : of[s] = d}) <= m,
         NEW c \in C, Cardinality({s \in S : of[s] = c}) < m
  PROVE  Cardinality(S) < Cardinality(C) * m
<1> DEFINE B(d) == {s \in S : of[s] = d}
<1>1. ASSUME NEW d \in C
      PROVE  /\ IsFiniteSet(B(d)) /\ Cardinality(B(d)) \in Nat
             /\ \E g \in Injection(B(d), 1..Cardinality(B(d))) : TRUE
  <2>1. B(d) \subseteq S
    OBVIOUS
  <2>2. IsFiniteSet(B(d)) /\ Cardinality(B(d)) \in Nat
    BY <2>1, Fewer
  <2>3. PICK n \in Nat : n = Cardinality(B(d))
    BY <2>2
  <2>4. IsFiniteSet(1..n) /\ Cardinality(1..n) = n
    BY FS_Interval
  <2>5. ExistsBijection(B(d), 1..n)
    BY <2>2, <2>3, <2>4, FS_SameCardinalityBij
  <2>6. \E g \in Injection(B(d), 1..n) : TRUE
    BY <2>5 DEF ExistsBijection, Bijection
  <2> QED
    BY <2>2, <2>3, <2>6
<1> DEFINE G(d) == CHOOSE g : g \in Injection(B(d), 1..Cardinality(B(d)))
<1>2. ASSUME NEW d \in C PROVE G(d) \in Injection(B(d), 1..Cardinality(B(d)))
  BY <1>1
<1>3. ASSUME NEW d \in C, NEW s \in B(d)
      PROVE  /\ G(d)[s] \in 1..m /\ (d = c => G(d)[s] \in 1..(m - 1))
  <2>1. G(d)[s] \in 1..Cardinality(B(d))
    BY <1>2 DEF Injection
  <2>2. PICK n \in Nat : n = Cardinality(B(d))
    BY <1>1
  <2>3. n <= m /\ (d = c => n < m)
    BY <2>2
  <2> QED
    BY <2>1, <2>2, <2>3
<1> HIDE DEF G
<1>4. PICK P : P = (C \X (1..m)) \ {<<c, m>>}
  OBVIOUS
<1>5. PICK h : h = [s \in S |-> <<of[s], G(of[s])[s]>>]
  OBVIOUS
<1>6. \A s \in S : h[s] \in P
  <2> TAKE s \in S
  <2>1. of[s] \in C /\ s \in B(of[s])
    OBVIOUS
  <2>2. G(of[s])[s] \in 1..m /\ (of[s] = c => G(of[s])[s] # m)
    BY <1>3, <2>1
  <2> QED
    BY <1>4, <1>5, <2>1, <2>2
<1>7. \A s, r \in S : h[s] = h[r] => s = r
  <2> SUFFICES ASSUME NEW s \in S, NEW r \in S, h[s] = h[r] PROVE s = r
    OBVIOUS
  <2>1. PICK d \in C : d = of[s] /\ d = of[r] /\ G(d)[s] = G(d)[r]
    BY <1>5
  <2>2. s \in B(d) /\ r \in B(d)
    BY <2>1
  <2> QED
    BY <1>2, <2>1, <2>2 DEF Injection, IsInjective
<1>8. IsFiniteSet(1..m) /\ Cardinality(1..m) = m
  BY FS_Interval
<1>9. /\ IsFiniteSet(C \X (1..m)) /\ Cardinality(C \X (1..m)) = Cardinality(C) * m
  BY <1>8, FS_Product
<1>10. <<c, m>> \in C \X (1..m)
  <2>1. Cardinality(B(c)) \in Nat /\ Cardinality(B(c)) < m
    BY <1>1
  <2>2. m \in 1..m
    BY <2>1
  <2> QED
    BY <2>2
<1>11. /\ IsFiniteSet(P) /\ Cardinality(P) = Cardinality(C \X (1..m)) - 1
  BY <1>4, <1>9, <1>10, FS_RemoveElement
<1>12. Cardinality(S) <= Cardinality(P) /\ Cardinality(S) \in Nat /\ Cardinality(P) \in Nat
  BY <1>6, <1>7, <1>11, Injects
<1>13. Cardinality(C) * m \in Nat
  BY <1>9, FS_CardinalityType
<1> QED
  BY <1>9, <1>11, <1>12, <1>13

(* A request always finds a slot.                                          *)
LEMMA NoRnrNak ==
  ASSUME ConnInv, SlotsEnough, ConnAssumption, NEW c \in Conns
  PROVE  ~ RnrNak(c)
<1> SUFFICES ASSUME RnrNak(c) PROVE FALSE
  OBVIOUS
<1>1. c \notin qpErr /\ reqs[c] > 0 /\ sst[c] = "live" /\ srq = {}
  BY DEF RnrNak
<1>2. \A s \in Slots : from[s] \in Conns
  <2> TAKE s \in Slots
  <2>1. Used(s) \/ Gone(s)
    BY <1>1 DEF ConnInv, SlotInv, LostIsGone, Unposted, QuietInv
  <2>2. CASE Used(s)
    BY <1>1, <2>2, UsedFrom DEF ConnInv
  <2> QED
    BY <2>1, <2>2 DEF Gone
<1>3. PICK m \in Nat : m = 2 * MaxReq /\ MaxReq \in Nat
  BY DEF ConnAssumption
<1>4. Slots \ srq = Slots /\ \A d : Of(d, Slots) = {s \in Slots : from[s] = d}
  BY <1>1 DEF Of
<1>5. \A d \in Conns : Cardinality({s \in Slots : from[s] = d}) <= m
  BY <1>3, <1>4 DEF ConnInv, FlowInv, UsedFits
<1>6. Cardinality({s \in Slots : from[s] = c}) < m
  <2>1. PICK n : n = Cardinality(Of(c, Slots \ srq))
    OBVIOUS
  <2>2. n \in Nat /\ n + reqs[c] <= rqPosted[c] + MaxReq /\ rqPosted[c] <= MaxReq
        /\ rqPosted[c] \in Nat /\ reqs[c] \in Nat
    BY <1>1, <2>1, CoveredCount DEF CoverCounts, ConnInv, QuietInv, FlowInv
  <2>3. n < m
    BY <1>1, <1>3, <2>2
  <2> QED
    BY <1>4, <2>1, <2>3
<1>7. Cardinality(Slots) < Cardinality(Conns) * m
  BY <1>2, <1>5, <1>6, RoomForAll DEF SlotsEnough
<1>8. Cardinality(Conns) * m <= Cardinality(Slots)
  BY <1>3 DEF SlotsEnough
<1>9. Cardinality(Slots) \in Nat /\ Cardinality(Conns) \in Nat
  BY FS_CardinalityType DEF SlotsEnough
<1>10. PICK a, b \in Int : a = Cardinality(Slots) /\ b = Cardinality(Conns) * m
  BY <1>9
<1> QED
  BY <1>7, <1>8, <1>10

(* A request that arrives: its slot is awaited instead of the request.     *)
LEMMA DeliverReqFlow ==
  ASSUME ConnInv, SlotsEnough, ConnAssumption, SlotInv', Straight', ClientInv',
         NEW c \in Conns, DeliverReq(c)
  PROVE  QuietInv' /\ FlowInv'
<1>1. PICK s \in srq :
        /\ srq'  = srq \ {s}
        /\ from' = [from EXCEPT ![s] = c]
        /\ scq'  = Append(scq, [op |-> "recv", conn |-> c, slot |-> s])
  BY DEF DeliverReq
<1>a. PICK e : e = [op |-> "recv", conn |-> c, slot |-> s]
  OBVIOUS
<1>2. /\ UNCHANGED <<cst, pend, cwc, cput, ccq, qpErr, rqPosted, resps, wacks, sst, found, swc,
                     fault>>
      /\ reqs' = [reqs EXCEPT ![c] = @ - 1]
      /\ c \notin qpErr /\ reqs[c] > 0 /\ sst[c] = "live" /\ wacks[c] = <<>>
  BY DEF DeliverReq, clientVars, respVars, connVars
<1>3. /\ SlotInv /\ SlotsTyped /\ Straight /\ ClientInv /\ FlowInv /\ QuietInv
      /\ scq \in Seq(ServerCqe) /\ reqs \in [Conns -> Nat] /\ from \in [Slots -> Conns \cup {None}]
      /\ rqPosted \in [Conns -> Nat] /\ s \in Slots /\ IsFiniteSet(Slots) /\ OneThread
  BY <1>1 DEF ConnInv, SlotInv, SlotsTyped, ClientInv, ClientTyped, SlotsEnough
<1>4. e \in ServerCqe /\ e.op = "recv" /\ e.slot = s /\ scq' = Append(scq, e)
  BY <1>1, <1>3, <1>a DEF ServerCqe
<1>5. QuietInv'
  <2>1. Members(scq') = Members(scq) \cup {e}
    BY <1>3, <1>4, NamedAppend
  <2> QED
    BY <1>2, <1>3, <1>4, <2>1, ServerQuiet DEF QuietInv
<1>6. PICK q, r : q = Line /\ r = Line' /\ Grown(q, r, e)
  BY <1>2, <1>3, <1>4, LineGrows
<1>7. /\ RecvAll(r) \subseteq RecvAll(q) \cup {s}
      /\ \A k \in Place : /\ RecvIn(r, k) \subseteq RecvIn(q, k) \cup {s}
                          /\ RestIn(r, k) \subseteq RestIn(q, k)
                          /\ RecvIn(r, k) \subseteq RecvAll(r)
                          /\ RecvIn(r, k) \subseteq RecvIn(q, k) \/ RestIn(r, k) = {}
  BY <1>4, <1>6, GrownHeld
<1>8. Answering' = Answering /\ Acking' = Acking
  BY <1>2 DEF Answering, Acking, Named, Itself
<1>9. /\ Awaiting = RecvAll(q) \cup Answering
      /\ Awaiting' = RecvAll(r) \cup Answering
      /\ \A k : /\ HeldAt(k) = (RecvIn(q, k) \cup RestIn(q, k)) \cup (Answering \cup Acking)
                /\ HeldAt(k)' = (RecvIn(r, k) \cup RestIn(r, k)) \cup (Answering \cup Acking)
  BY <1>6, <1>8 DEF Awaiting, HeldAt, RecvAll, RecvIn, RestIn
<1>10. from'[s] = c /\ \A u \in Slots \ {s} : from'[u] = from[u]
  BY <1>1, <1>3
<1>11. /\ Awaiting \subseteq Slots /\ \A k \in Place : HeldAt(k) \subseteq Slots
       /\ Awaiting' \subseteq Slots /\ \A k \in Place : HeldAt(k)' \subseteq Slots
  <2>1. Awaiting \subseteq Slots /\ \A k \in Place : HeldAt(k) \subseteq Slots
    BY <1>3, FlowTyped
  <2> QED
    BY <1>3, <1>7, <1>9, <2>1 DEF Awaiting, HeldAt, RecvAll, RecvIn, RestIn
<1>12. s \notin Awaiting /\ \A k \in Place : s \notin HeldAt(k)
  <2>1. \A p \in SlotSites : p # Srq_ => s \notin SlotsAt(p)
    BY <1>1, <1>3, SlotsAtSites, SitesAre DEF SlotInv, InOneSite
  <2>2. /\ s \notin Named(scq, SlotOf) /\ s \notin Named(swc[ServerCm], SlotOf)
        /\ s \notin {found[ServerCm]} \ {None}
        /\ \A d \in Conns : s \notin Named(resps[d], Itself) /\ s \notin Named(wacks[d], Itself)
    BY <1>3, <2>1, SlotsAtSites, SitesAre, SitesDiffer DEF OneThread
  <2>3. \A x \in Members(q) : x.slot # s
    <3>1. Members(q) = Members(swc[ServerCm]) \cup Members(scq) /\ q \in Seq(ServerCqe)
      BY <1>3, <1>6, LineHolds, LineTyped
    <3>2. \A x \in Members(q) : x \in ServerCqe
      BY <3>1, ElementOfSeq, LenProperties DEF Members
    <3> QED
      BY <2>2, <3>1, <3>2, SlotOfCqe, NamedMembers
  <2>4. s \notin RecvAll(q) /\ \A k : s \notin RecvIn(q, k) /\ s \notin RestIn(q, k)
    BY <2>3 DEF RecvAll, RecvIn, RestIn, Members
  <2>5. s \notin Answering /\ s \notin Acking
    BY <2>2 DEF Answering, Acking
  <2> QED
    BY <1>9, <2>4, <2>5
<1>13. Of(c, Acking) = {}
  <2> SUFFICES ASSUME NEW u \in Acking, from[u] = c PROVE FALSE
    BY DEF Of
  <2>1. PICK d \in Conns : u \in Named(wacks[d], Itself)
    BY DEF Acking
  <2>2. d = c
    BY <1>3, <2>1 DEF Straight, WriteLive
  <2>3. Named(wacks[c], Itself) = {}
    BY <1>2, NamedEmpty
  <2> QED
    BY <2>1, <2>2, <2>3
<1>14. \A d : Of(d, Awaiting)' = {u \in Awaiting' : from'[u] = d}
  BY DEF Of
<1>15. \A d, k : Of(d, HeldAt(k))' = {u \in HeldAt(k)' : from'[u] = d}
  BY DEF Of
<1>16. ASSUME NEW d \in Conns, d # c PROVE HeldFits(d)' /\ AwaitFits(d)' /\ UsedFits(d)'
  <2>1. HeldFits(d) /\ AwaitFits(d) /\ UsedFits(d) /\ MaxReq \in Nat
    BY <1>3 DEF FlowInv, ConnAssumption
  <2>2. ASSUME NEW k \in Place PROVE Cardinality(Of(d, HeldAt(k))') <= MaxReq
    <3>1. PICK S, T : S = Of(d, HeldAt(k)) /\ T = Of(d, HeldAt(k))'
      OBVIOUS
    <3>2. HeldAt(k)' \subseteq HeldAt(k) \cup {s}
      BY <1>7, <1>9
    <3>3. T \subseteq S
      BY <1>10, <1>11, <1>15, <1>16, <3>1, <3>2 DEF Of
    <3>4. IsFiniteSet(S) /\ Cardinality(S) <= MaxReq
      BY <1>3, <1>11, <2>1, <3>1, OfCount DEF HeldFits
    <3>5. Cardinality(T) <= MaxReq
      BY <2>1, <3>3, <3>4, Fewer
    <3> QED
      BY <3>1, <3>5
  <2>3. AwaitFits(d)'
    <3>1. PICK S, T : S = Of(d, Awaiting) /\ T = Of(d, Awaiting)'
      OBVIOUS
    <3>2. Awaiting' \subseteq Awaiting \cup {s}
      BY <1>7, <1>9
    <3>3. T \subseteq S
      BY <1>10, <1>11, <1>14, <1>16, <3>1, <3>2 DEF Of
    <3>4. PICK m, n \in Nat : m = Cardinality(S) /\ n = Cardinality(T) /\ n <= m
      BY <1>3, <1>11, <3>1, <3>3, OfCount, Fewer
    <3>5. PICK x, y \in Nat : x = reqs[d] /\ x = reqs'[d] /\ y = rqPosted[d] /\ y = rqPosted'[d]
      BY <1>2, <1>3, <1>16
    <3>6. m + x <= y
      BY <2>1, <3>1, <3>4, <3>5 DEF AwaitFits
    <3>7. n + x <= y
      BY <3>4, <3>6
    <3> QED
      BY <3>1, <3>4, <3>5, <3>7 DEF AwaitFits
  <2>4. UsedFits(d)'
    <3>1. PICK S, T : S = Of(d, Slots \ srq) /\ T = Of(d, Slots \ srq)'
      OBVIOUS
    <3>2. T = {u \in Slots \ srq' : from'[u] = d}
      BY <3>1 DEF Of
    <3>3. T \subseteq S
      BY <1>1, <1>10, <1>16, <3>1, <3>2 DEF Of
    <3>4. IsFiniteSet(S) /\ Cardinality(S) <= 2 * MaxReq
      BY <1>3, <2>1, <3>1, OfCount DEF UsedFits
    <3>5. Cardinality(T) <= 2 * MaxReq
      BY <2>1, <3>3, <3>4, Fewer
    <3> QED
      BY <3>1, <3>5 DEF UsedFits
  <2> QED
    BY <2>2, <2>3, <2>4 DEF HeldFits
<1>17. AwaitFits(c)'
  <2>1. PICK S, T : S = Of(c, Awaiting) /\ T = Of(c, Awaiting)'
    OBVIOUS
  <2>2. Awaiting' \subseteq Awaiting \cup {s}
    BY <1>7, <1>9
  <2>3. T \subseteq S \cup {s}
    BY <1>10, <1>11, <1>14, <2>1, <2>2 DEF Of
  <2>4. IsFiniteSet(S)
    BY <1>3, <1>11, <2>1, OfCount
  <2>5. PICK m, n \in Nat : m = Cardinality(S) /\ n = Cardinality(T) /\ n <= m + 1
    <3>1. PICK m, l \in Nat : /\ m = Cardinality(S) /\ l = Cardinality(S \cup {s}) /\ l <= m + 1
                              /\ IsFiniteSet(S \cup {s})
      BY <2>4, AddOne
    <3>2. PICK n \in Nat : n = Cardinality(T) /\ n <= l
      BY <2>3, <3>1, Fewer
    <3>3. n <= m + 1
      BY <3>1, <3>2
    <3> QED
      BY <3>1, <3>2, <3>3
  <2>6. PICK x, z, y \in Nat : x = reqs[c] /\ z = reqs'[c] /\ z = x - 1 /\ y = rqPosted[c] /\ y = rqPosted'[c]
    <3>1. reqs'[c] = reqs[c] - 1 /\ reqs[c] - 1 \in Nat
      BY <1>2, <1>3
    <3> QED
      BY <1>2, <1>3, <3>1
  <2>7. m + x <= y
    BY <1>3, <2>1, <2>5, <2>6 DEF FlowInv, AwaitFits
  <2>8. n + z <= y
    BY <2>5, <2>6, <2>7
  <2> QED
    BY <2>1, <2>5, <2>6, <2>8 DEF AwaitFits
<1>18. PICK y, z, m \in Nat : /\ y = rqPosted'[c] /\ z = reqs'[c] /\ m = MaxReq /\ y <= m
  <2>1. /\ rqPosted'[c] \in Nat /\ reqs'[c] \in Nat /\ pend'[c] \in 0..MaxReq
        /\ IsFiniteSet(Answered(c)') /\ Cardinality(Answered(c)') + rqPosted'[c] <= pend'[c]
    BY DEF ClientInv, ClientTyped, PendFits
  <2>2. Cardinality(Answered(c)') \in Nat
    BY <2>1, FS_CardinalityType
  <2>3. MaxReq \in Nat
    BY DEF ConnAssumption
  <2>4. rqPosted'[c] <= MaxReq
    BY <2>1, <2>2, <2>3
  <2> QED
    BY <2>1, <2>3, <2>4
<1>19. HeldFits(c)'
  <2> SUFFICES ASSUME NEW k \in Place PROVE Cardinality(Of(c, HeldAt(k))') <= MaxReq
    BY DEF HeldFits
  <2>1. PICK T : T = Of(c, HeldAt(k))'
    OBVIOUS
  <2>2. CASE RecvIn(r, k) \subseteq RecvIn(q, k)
    <3>1. PICK S : S = Of(c, HeldAt(k))
      OBVIOUS
    <3>2. HeldAt(k)' \subseteq HeldAt(k)
      BY <1>7, <1>9, <2>2
    <3>3. T \subseteq S
      BY <1>10, <1>11, <1>12, <1>15, <2>1, <3>1, <3>2 DEF Of
    <3>4. IsFiniteSet(S) /\ Cardinality(S) <= MaxReq
      BY <1>3, <1>11, <3>1, OfCount DEF FlowInv, HeldFits
    <3>5. Cardinality(T) <= MaxReq
      BY <1>18, <3>3, <3>4, Fewer
    <3> QED
      BY <2>1, <3>5
  <2>3. CASE RestIn(r, k) = {}
    <3>1. PICK S : S = Of(c, Awaiting)'
      OBVIOUS
    <3>2. HeldAt(k)' \subseteq Awaiting' \cup Acking
      BY <1>7, <1>9, <2>3
    <3>3. \A u \in Acking : from'[u] # c
      <4>1. s \notin Acking
        BY <1>9, <1>12 DEF Place
      <4>2. Acking \subseteq Slots
        BY <1>3, SlotNames DEF Acking
      <4> QED
        BY <1>10, <1>13, <4>1, <4>2 DEF Of
    <3>4. T \subseteq S
      BY <1>14, <1>15, <2>1, <3>1, <3>2, <3>3
    <3>5. S \subseteq Slots
      BY <1>11, <1>14, <3>1
    <3>6. PICK i, j \in Nat : i = Cardinality(S) /\ j = Cardinality(T) /\ j <= i
      BY <1>3, <3>4, <3>5, Fewer
    <3>7. i + z <= y
      BY <1>17, <1>18, <3>1, <3>6 DEF AwaitFits
    <3>8. j <= m
      BY <1>18, <3>6, <3>7
    <3> QED
      BY <1>18, <2>1, <3>6, <3>8
  <2> QED
    BY <1>7, <2>2, <2>3
<1>20. UsedFits(c)'
  <2>1. CoverCounts'
    BY CoveredCount, PTL
  <2>2. PICK n : n = Cardinality(Of(c, Slots \ srq))'
    OBVIOUS
  <2>3. c \in Conns \ qpErr' /\ sst'[c] = "live" /\ fault' = "none"
    BY <1>2, <1>3 DEF QuietInv
  <2>4. n \in Nat /\ n + reqs'[c] <= rqPosted'[c] + MaxReq
    BY <1>17, <1>19, <2>1, <2>2, <2>3 DEF CoverCounts
  <2>5. n <= 2 * m
    BY <1>18, <2>4
  <2> QED
    BY <1>18, <2>2, <2>5 DEF UsedFits
<1> QED
  BY <1>5, <1>16, <1>17, <1>19, <1>20 DEF FlowInv

(* A response that arrives uses up a receive, and its slot is awaited no   *)
(* longer.                                                                 *)
LEMMA DeliverRespFlow ==
  ASSUME ConnInv, SlotsEnough, ConnAssumption, SlotInv', Straight', NEW c \in Conns,
         DeliverResp(c)
  PROVE  QuietInv' /\ FlowInv'
<1>a. PICK s : s = Head(resps[c])
  OBVIOUS
<1>1. /\ resps[c] # <<>> /\ rqPosted[c] > 0
      /\ rqPosted' = [rqPosted EXCEPT ![c] = @ - 1]
      /\ resps' = [resps EXCEPT ![c] = Tail(@)]
      /\ wacks' = [wacks EXCEPT ![c] = Append(@, s)]
      /\ ccq' = Append(ccq, [conn |-> c, recv |-> TRUE, ok |-> TRUE])
      /\ UNCHANGED <<cst, pend, cwc, cput, qpErr, reqs, srq, from, found, scq, swc, fault>>
  BY <1>a DEF DeliverResp, clientVars, serverVars, slotVars
<1>2. /\ SlotInv /\ SlotsTyped /\ Straight /\ FlowInv /\ QuietInv /\ OneThread
      /\ resps \in [Conns -> Seq(Slots)] /\ wacks \in [Conns -> Seq(Slots)]
      /\ ccq \in Seq(ClientCqe) /\ reqs \in [Conns -> Nat] /\ rqPosted \in [Conns -> Nat]
      /\ IsFiniteSet(Slots) /\ MaxReq \in Nat
  BY DEF ConnInv, SlotInv, SlotsTyped, ClientInv, ClientTyped, SlotsEnough, ConnAssumption
<1>3. QuietInv'
  <2>1. PICK e : e = [conn |-> c, recv |-> TRUE, ok |-> TRUE]
    OBVIOUS
  <2>2. e \in ClientCqe /\ e.ok
    BY <2>1 DEF ClientCqe
  <2>3. ccq' = Append(ccq, e) /\ ccq \in Seq(ClientCqe)
    BY <1>1, <1>2, <2>1
  <2>4. Members(ccq') = Members(ccq) \cup {e}
    BY <2>2, <2>3, NamedAppend
  <2> QED
    BY <1>1, <1>2, <2>2, <2>4, QuietParts DEF QuietInv
<1>4. /\ resps'[c] = Tail(resps[c]) /\ wacks'[c] = Append(wacks[c], s)
      /\ \A d \in Conns \ {c} : resps'[d] = resps[d] /\ wacks'[d] = wacks[d]
  BY <1>1, <1>2
<1>5. /\ s \in Slots /\ Itself[s] = s
      /\ Named(resps[c], Itself) = Named(Tail(resps[c]), Itself) \cup {s}
      /\ s \notin Named(Tail(resps[c]), Itself)
      /\ Named(Append(wacks[c], s), Itself) = Named(wacks[c], Itself) \cup {s}
  <2>1. s \in Slots
    BY <1>a, <1>1, <1>2, HeadTailProperties
  <2>2. Itself[s] = s
    BY <2>1 DEF Itself
  <2>3. NamedOnce(resps[c], Itself)
    BY <1>2 DEF SlotInv, QueuedOnce
  <2> QED
    BY <1>a, <1>1, <1>2, <2>1, <2>2, <2>3, NamedTail, NamedAppend
<1>6. from[s] = c
  BY <1>2, <1>5 DEF Straight, WriteLive
<1>7. s \notin Awaiting'
  <2>1. s \in SlotsAt(Resps_(c))
    BY <1>5, SlotsAtSites
  <2>2. \A p \in SlotSites : p # Resps_(c) => s \notin SlotsAt(p)
    BY <1>2, <2>1, SitesAre DEF SlotInv, InOneSite
  <2>3. /\ s \notin Named(scq, SlotOf) /\ s \notin Named(swc[ServerCm], SlotOf)
        /\ s \notin {found[ServerCm]} \ {None}
        /\ \A d \in Conns \ {c} : s \notin Named(resps[d], Itself)
    BY <1>2, <2>2, SlotsAtSites, SitesAre, SitesDiffer DEF OneThread
  <2>4. \A x \in Members(Line) : x.slot # s
    <3>1. Members(Line) = Members(swc[ServerCm]) \cup Members(scq) /\ Line \in Seq(ServerCqe)
      BY <1>2, LineHolds, LineTyped
    <3>2. \A x \in Members(Line) : x \in ServerCqe
      BY <3>1, ElementOfSeq, LenProperties DEF Members
    <3> QED
      BY <2>3, <3>1, <3>2, SlotOfCqe, NamedMembers
  <2>5. s \notin RecvAll(Line)
    BY <2>4 DEF RecvAll, Members
  <2>6. Awaiting' = RecvAll(Line) \cup (({found[ServerCm]} \ {None})
                                        \cup UNION {Named(resps'[d], Itself) : d \in Conns})
    BY <1>1 DEF Awaiting, Answering, RecvAll, Line, Named, Itself
  <2>7. \A d \in Conns : s \notin Named(resps'[d], Itself)
    BY <1>4, <1>5, <2>3
  <2> QED
    BY <2>3, <2>5, <2>6, <2>7
<1>8. \A d \in Conns : /\ Named(resps'[d], Itself) \subseteq Named(resps[d], Itself)
                       /\ Named(wacks'[d], Itself) \subseteq Named(wacks[d], Itself) \cup {s}
  BY <1>4, <1>5
<1>9. s \in Answering
  BY <1>5 DEF Answering
<1>10. Answering' \subseteq Answering /\ Acking' \subseteq Acking \cup {s}
  <2>1. /\ Answering' = ({found'[ServerCm]} \ {None}) \cup UNION {Named(resps'[d], Itself) : d \in Conns}
        /\ Acking' = UNION {Named(wacks'[d], Itself) : d \in Conns}
    BY DEF Answering, Acking, Named, Itself
  <2>2. /\ UNION {Named(resps'[d], Itself) : d \in Conns}
              \subseteq UNION {Named(resps[d], Itself) : d \in Conns}
        /\ UNION {Named(wacks'[d], Itself) : d \in Conns}
              \subseteq (UNION {Named(wacks[d], Itself) : d \in Conns}) \cup {s}
    BY <1>8
  <2>3. found' = found
    BY <1>1
  <2> QED
    BY <2>1, <2>2, <2>3 DEF Answering, Acking
<1>11. Awaiting' \subseteq Awaiting
  <2>1. RecvAll(Line)' = RecvAll(Line)
    BY <1>1 DEF RecvAll, Line
  <2> QED
    BY <1>10, <2>1 DEF Awaiting
<1>12. \A k : HeldAt(k)' \subseteq HeldAt(k)
  <2>1. \A k : RecvIn(Line, k)' = RecvIn(Line, k) /\ RestIn(Line, k)' = RestIn(Line, k)
    BY <1>1 DEF RecvIn, RestIn, Line
  <2> QED
    BY <1>9, <1>10, <2>1 DEF HeldAt
<1> SUFFICES ASSUME NEW d \in Conns PROVE HeldFits(d)' /\ AwaitFits(d)' /\ UsedFits(d)'
  BY <1>3 DEF FlowInv
<1>13. HeldFits(d) /\ AwaitFits(d) /\ UsedFits(d)
  BY <1>2 DEF FlowInv
<1>14. ASSUME NEW k \in Place PROVE Cardinality(Of(d, HeldAt(k))') <= MaxReq
  <2>1. PICK S, T : S = Of(d, HeldAt(k)) /\ T = Of(d, HeldAt(k))'
    OBVIOUS
  <2>2. T \subseteq S
    BY <1>1, <1>12, <2>1 DEF Of
  <2>3. IsFiniteSet(S) /\ Cardinality(S) <= MaxReq
    BY <1>2, <1>13, <2>1, FlowTyped, OfCount DEF HeldFits
  <2> QED
    BY <1>2, <2>1, <2>2, <2>3, Fewer
<1>15. AwaitFits(d)'
  <2>1. PICK S, T : S = Of(d, Awaiting) /\ T = Of(d, Awaiting)'
    OBVIOUS
  <2>2. T \subseteq S
    BY <1>1, <1>11, <2>1 DEF Of
  <2>3. IsFiniteSet(S)
    BY <1>2, <2>1, FlowTyped, OfCount
  <2>4. PICK m, n \in Nat : m = Cardinality(S) /\ n = Cardinality(T) /\ n <= m
    BY <2>2, <2>3, Fewer
  <2>5. PICK x, y \in Nat : x = reqs[d] /\ x = reqs'[d] /\ y = rqPosted[d]
    BY <1>1, <1>2
  <2>6. m + x <= y
    BY <1>13, <2>1, <2>4, <2>5 DEF AwaitFits
  <2>7. CASE d = c
    <3>1. rqPosted'[d] = y - 1
      BY <1>1, <1>2, <2>5, <2>7
    <3>2. s \in S /\ s \notin T
      BY <1>5, <1>6, <1>7, <1>9, <2>1, <2>7 DEF Of, Awaiting
    <3>3. T \subseteq S \ {s}
      BY <2>2, <3>2
    <3>4. IsFiniteSet(S \ {s}) /\ Cardinality(S \ {s}) = m - 1
      BY <2>3, <2>4, <3>2, FS_RemoveElement
    <3>5. n <= m - 1
      BY <2>4, <3>3, <3>4, Fewer
    <3>6. n + x <= y - 1
      BY <2>6, <3>5
    <3> QED
      BY <2>1, <2>4, <2>5, <3>1, <3>6 DEF AwaitFits
  <2>8. CASE d # c
    <3>1. rqPosted'[d] = y
      BY <1>1, <1>2, <2>5, <2>8
    <3>2. n + x <= y
      BY <2>4, <2>6
    <3> QED
      BY <2>1, <2>4, <2>5, <3>1, <3>2 DEF AwaitFits
  <2> QED
    BY <2>7, <2>8
<1>16. UsedFits(d)'
  <2>1. Of(d, Slots \ srq)' = Of(d, Slots \ srq)
    BY <1>1 DEF Of
  <2> QED
    BY <1>13, <2>1 DEF UsedFits
<1> QED
  BY <1>14, <1>15, <1>16 DEF HeldFits

LEMMA AckWriteFlow ==
  ASSUME ConnInv, SlotsEnough, ConnAssumption, NEW c \in Conns, AckWrite(c)
  PROVE  QuietInv' /\ FlowInv'
<1>a. PICK s : s = Head(wacks[c])
  OBVIOUS
<1>b. PICK e : e = [op |-> "write", conn |-> c, slot |-> s]
  OBVIOUS
<1>1. /\ wacks[c] # <<>> /\ wacks' = [wacks EXCEPT ![c] = Tail(@)] /\ scq' = Append(scq, e)
      /\ UNCHANGED <<cst, pend, ccq, cwc, cput, qpErr, rqPosted, reqs, resps, srq, from, found,
                     swc, fault>>
  BY <1>a, <1>b DEF AckWrite, clientSide, clientVars, qpVars, slotVars
<1>2. /\ SlotsTyped /\ FlowInv /\ QuietInv /\ OneThread /\ CountsKept
      /\ wacks \in [Conns -> Seq(Slots)] /\ scq \in Seq(ServerCqe) /\ IsFiniteSet(Slots)
  BY <1>1, ServerCounts DEF ConnInv, SlotInv, SlotsTyped, SlotsEnough
<1>3. /\ s \in Slots /\ s \in Named(wacks[c], Itself)
      /\ Named(Tail(wacks[c]), Itself) \subseteq Named(wacks[c], Itself)
  <2>1. s \in Slots
    BY <1>a, <1>1, <1>2, HeadTailProperties
  <2>2. Itself[s] = s
    BY <2>1 DEF Itself
  <2> QED
    BY <1>a, <1>1, <1>2, <2>1, <2>2, NamedTail
<1>4. e \in ServerCqe /\ e.op = "write" /\ e.slot = s
  BY <1>b, <1>3 DEF ServerCqe
<1>5. QuietInv'
  <2>1. Members(scq') = Members(scq) \cup {e}
    BY <1>1, <1>2, <1>4, NamedAppend
  <2> QED
    BY <1>1, <1>2, <1>4, <2>1, ServerQuiet DEF QuietInv
<1>6. PICK q, r : q = Line /\ r = Line' /\ Grown(q, r, e)
  BY <1>1, <1>2, <1>4, LineGrows
<1>7. /\ RecvAll(r) \subseteq RecvAll(q)
      /\ \A k \in Place : /\ RecvIn(r, k) \subseteq RecvIn(q, k)
                          /\ RestIn(r, k) \subseteq RestIn(q, k) \cup {s}
  BY <1>4, <1>6, GrownHeld
<1>8. Answering' = Answering
  BY <1>1 DEF Answering, Named, Itself
<1>9. \A d \in Conns : Named(wacks'[d], Itself) \subseteq Named(wacks[d], Itself)
  BY <1>1, <1>2, <1>3
<1>10. Acking' \subseteq Acking /\ s \in Acking
  <2>1. Acking' = UNION {Named(wacks'[d], Itself) : d \in Conns}
    BY DEF Acking, Named, Itself
  <2> QED
    BY <1>3, <1>9, <2>1 DEF Acking
<1>11. Awaiting' \subseteq Awaiting
  <2>1. Awaiting' = RecvAll(r) \cup Answering'
    BY <1>6 DEF Awaiting, RecvAll
  <2> QED
    BY <1>6, <1>7, <1>8, <2>1 DEF Awaiting
<1>12. ASSUME NEW k \in Place PROVE HeldAt(k)' \subseteq HeldAt(k)
  <2>1. HeldAt(k)' = (RecvIn(r, k) \cup RestIn(r, k)) \cup (Answering' \cup Acking')
    BY <1>6 DEF HeldAt, RecvIn, RestIn
  <2> QED
    BY <1>6, <1>7, <1>8, <1>10, <2>1 DEF HeldAt
<1>13. \A k \in Place : \E j \in Place : HeldAt(k)' \subseteq HeldAt(j)
  BY <1>12
<1> QED
  BY <1>1, <1>2, <1>5, <1>11, <1>13, KeepsFlow

(* No response meets a queue pair in error.                                *)
LEMMA NoWriteError ==
  ASSUME ConnInv, SlotsEnough, NEW c \in Conns
  PROVE  ~ WriteError(c)
<1> SUFFICES ASSUME c \in qpErr, resps[c] # <<>> PROVE FALSE
  BY DEF WriteError
<1>1. resps[c] \in Seq(Slots) /\ Straight
  BY DEF ConnInv, SlotInv, SlotsTyped
<1>2. PICK s : s = Head(resps[c])
  OBVIOUS
<1>3. s \in Slots /\ Itself[s] = s
  BY <1>1, <1>2, HeadTailProperties DEF Itself
<1>4. s \in Named(resps[c], Itself)
  BY <1>1, <1>2, <1>3, NamedTail
<1>5. from[s] = c /\ s \in Awaiting
  BY <1>1, <1>4 DEF Straight, WriteLive, Awaiting, Answering
<1>6. Of(c, Awaiting) = {}
  BY ErrorHasNone DEF ConnInv, SlotInv
<1> QED
  BY <1>5, <1>6 DEF Of

LEMMA WireStepFlow ==
  ASSUME ConnInv, SlotsEnough, ConnAssumption, SlotInv', Straight', ClientInv',
         NEW c \in Conns, WireStep(c)
  PROVE  QuietInv' /\ FlowInv'
BY DeliverReqFlow, NoRnrNak, DeliverRespFlow, AckWriteFlow, NoWriteError DEF WireStep

-----------------------------------------------------------------------------

LEMMA ConnInvInit ==
  ASSUME SlotsEnough, ConnAssumption, Init
  PROVE  ConnInv
<1>1. SlotInv /\ TableInv /\ Straight /\ ClientInv
  BY SlotInvInit, TableInvInit, StraightInit, ClientInvInit DEF SlotsEnough
<1>2. /\ swc[ServerCm] = <<>> /\ scq = <<>> /\ ccq = <<>> /\ cwc[ClientCm] = <<>>
      /\ found[ServerCm] = None /\ cput[ClientCm] = None
  BY DEF Init, SlotsEnough, OneThread
<1>3. QuietInv
  BY <1>2, NamedEmpty DEF QuietInv, Init
<1>4. /\ Members(Line) = {}
      /\ \A c \in Conns : Named(resps[c], Itself) = {} /\ Named(wacks[c], Itself) = {}
  BY <1>1, <1>2, LineHolds, NamedEmpty DEF Init, SlotInv
<1>5. Awaiting = {} /\ \A k : HeldAt(k) = {}
  <2>1. Answering = {} /\ Acking = {}
    BY <1>2, <1>4 DEF Answering, Acking
  <2>2. RecvAll(Line) = {} /\ \A k : RecvIn(Line, k) = {} /\ RestIn(Line, k) = {}
    BY <1>4 DEF RecvAll, RecvIn, RestIn, Members
  <2> QED
    BY <2>1, <2>2 DEF Awaiting, HeldAt
<1>6. MaxReq \in Nat /\ Cardinality({}) = 0
  BY FS_EmptySet DEF ConnAssumption
<1>7. ASSUME NEW c \in Conns PROVE HeldFits(c) /\ AwaitFits(c) /\ UsedFits(c)
  <2>1. Of(c, Awaiting) = {} /\ \A k : Of(c, HeldAt(k)) = {}
    BY <1>5 DEF Of
  <2>2. Of(c, Slots \ srq) = {}
    BY ConnAssumption DEF Of, Init, ConnAssumption
  <2>3. reqs[c] = 0 /\ rqPosted[c] = 0
    BY DEF Init
  <2> QED
    BY <1>6, <2>1, <2>2, <2>3 DEF HeldFits, AwaitFits, UsedFits
<1> QED
  BY <1>1, <1>3, <1>7 DEF ConnInv, FlowInv

LEMMA ConnInvStep ==
  ASSUME SlotsEnough, ConnAssumption, ConnInv, [Next]_vars
  PROVE  ConnInv'
<1>1. SlotInv' /\ TableInv' /\ Straight' /\ ClientInv'
  BY SlotInvStep, TableInvStep, StraightStep, ClientInvStep DEF ConnInv, SlotsEnough
<1>2. CASE UNCHANGED vars
  <2>1. /\ UNCHANGED <<cst, pend, ccq, cwc, cput, qpErr, rqPosted, reqs, resps, wacks, srq, from,
                       found, scq, swc, fault>>
    BY <1>2 DEF vars, clientSide, clientVars, qpVars, respVars, serverVars, slotVars
  <2>2. SlotsTyped /\ QuietInv /\ FlowInv /\ CountsKept
    BY <2>1, ServerCounts DEF ConnInv, SlotInv
  <2>3. QuietInv'
    BY <2>1, <2>2, ServerQuiet DEF QuietInv
  <2>4. FlowInv'
    BY <2>1, <2>2, AsideFlow
  <2> QED
    BY <1>1, <2>3, <2>4 DEF ConnInv
<1> SUFFICES ASSUME Next PROVE QuietInv' /\ FlowInv'
  BY <1>1, <1>2 DEF ConnInv
<1>3. CASE Application
  BY <1>3, ConnectFlow, SendReqFlow, DisconnectFlow DEF Application
<1>4. ASSUME NEW c \in Conns, ClientCmStep(c) \/ WireStep(c) \/ ServerCmStep(c)
      PROVE  QuietInv' /\ FlowInv'
  BY <1>1, <1>4, ClientCmFlow, WireStepFlow, ServerCmFlow
<1>5. ASSUME NEW t \in CThreads, ClientStep(t) PROVE QuietInv' /\ FlowInv'
  BY <1>5, ClientStepFlow DEF SlotsEnough
<1>6. ASSUME NEW t \in SThreads, ServerStep(t) PROVE QuietInv' /\ FlowInv'
  BY <1>1, <1>6, ServerStepFlow DEF SlotsEnough, OneThread
<1>7. ASSUME NEW s \in Slots, MakeResp(s) PROVE QuietInv' /\ FlowInv'
  BY <1>7 DEF MakeResp, ConnInv, Straight, SlotsEnough
<1>8. CASE DestroyAndFree
  BY <1>8, DestroyAndFreeFlow
<1> QED
  BY <1>3, <1>4, <1>5, <1>6, <1>7, <1>8 DEF Next

(* With one thread on each side, a handler that answers before it returns  *)
(* and a client that disconnects when it is idle, nobody dies and nothing  *)
(* that is freed is used, in whatever order connections come and go, if    *)
(* there are twice as many slots as all the connections ever made may have *)
(* requests outstanding: no request fails for want of a slot, so that no   *)
(* completion has an error and the client has dealt with every response    *)
(* when its pool is freed.  The slots are counted over all connections, as *)
(* a disconnect may lose those of its last answers: a given con_req_num    *)
(* covers so many connections and no more.                                 *)
THEOREM OneThreadNoFault ==
  ASSUME SlotsEnough
  PROVE  Safety => []NoFault
<1>1. Init => ConnInv
  BY ConnInvInit, ConnAssumption
<1>2. ConnInv /\ [Next]_vars => ConnInv'
  BY ConnInvStep, ConnAssumption
<1>3. ConnInv => NoFault
  BY DEF ConnInv, QuietInv, NoFault
<1> QED
  BY <1>1, <1>2, <1>3, PTL DEF Safety

=============================================================================
