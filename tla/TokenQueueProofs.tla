--------------------------- MODULE TokenQueueProofs ---------------------------
(***************************************************************************)
(* Proofs about TokenQueue, for every number of threads and elements and   *)
(* every batch, quota and range of the global offset.                      *)
(***************************************************************************)
EXTENDS TokenQueue, SequenceTheorems, FiniteSetTheorems, TLAPS

-----------------------------------------------------------------------------
(* Sequences that are cut and joined.                                      *)

(* The first n elements of a sequence, and the others.                     *)
LEMMA Cut ==
  ASSUME NEW S, NEW q \in Seq(S), NEW n \in 0..Len(q)
  PROVE  /\ SubSeq(q, 1, n) \in Seq(S)
         /\ Len(SubSeq(q, 1, n)) = n
         /\ DOMAIN SubSeq(q, 1, n) = 1..n
         /\ \A i \in 1..n : SubSeq(q, 1, n)[i] = q[i]
         /\ SubSeq(q, n + 1, Len(q)) \in Seq(S)
         /\ DOMAIN SubSeq(q, n + 1, Len(q)) = 1..(Len(q) - n)
         /\ \A i \in 1..(Len(q) - n) : SubSeq(q, n + 1, Len(q))[i] = q[i + n]
<1>1. Len(q) \in Nat /\ \A i \in 1..Len(q) : q[i] \in S
  BY ElementOfSeq, LenProperties
<1>2. n \in Int /\ n + 1 \in Int /\ 0 <= n /\ n <= Len(q)
  BY <1>1
<1>3. /\ SubSeq(q, 1, n) \in Seq(S)
      /\ Len(SubSeq(q, 1, n)) = IF 1 <= n THEN n - 1 + 1 ELSE 0
      /\ \A i \in 1..(n - 1 + 1) : SubSeq(q, 1, n)[i] = q[1 + i - 1]
  <2>1. \A i \in 1..n : q[i] \in S  BY <1>1, <1>2
  <2>2. QED  BY <2>1, <1>2, SubSeqProperties
<1>4. /\ SubSeq(q, n + 1, Len(q)) \in Seq(S)
      /\ Len(SubSeq(q, n + 1, Len(q))) = IF n + 1 <= Len(q) THEN Len(q) - (n + 1) + 1 ELSE 0
      /\ \A i \in 1..(Len(q) - (n + 1) + 1) :
           SubSeq(q, n + 1, Len(q))[i] = q[(n + 1) + i - 1]
  <2>1. \A i \in (n + 1)..Len(q) : q[i] \in S  BY <1>1, <1>2
  <2>2. QED  BY <2>1, <1>1, <1>2, SubSeqProperties
<1>5. Len(SubSeq(q, 1, n)) = n /\ Len(SubSeq(q, n + 1, Len(q))) = Len(q) - n
  BY <1>1, <1>2, <1>3, <1>4
<1>6. DOMAIN SubSeq(q, 1, n) = 1..n
  BY <1>3, <1>5, LenProperties
<1>7. DOMAIN SubSeq(q, n + 1, Len(q)) = 1..(Len(q) - n)
  BY <1>4, <1>5, LenProperties
<1>8. \A i \in 1..n : SubSeq(q, 1, n)[i] = q[i]
  BY <1>1, <1>2, <1>3
<1>9. \A i \in 1..(Len(q) - n) : SubSeq(q, n + 1, Len(q))[i] = q[i + n]
  BY <1>1, <1>2, <1>4
<1>10. QED  BY <1>3, <1>4, <1>5, <1>6, <1>7, <1>8, <1>9

(* Two sequences one after the other.                                      *)
LEMMA Join ==
  ASSUME NEW S, NEW q \in Seq(S), NEW r \in Seq(S)
  PROVE  /\ q \o r \in Seq(S)
         /\ Len(q \o r) = Len(q) + Len(r)
         /\ DOMAIN (q \o r) = 1..(Len(q) + Len(r))
         /\ \A i \in 1..Len(q) : (q \o r)[i] = q[i]
         /\ \A i \in 1..Len(r) : (q \o r)[Len(q) + i] = r[i]
<1>1. Len(q) \in Nat /\ Len(r) \in Nat
  BY LenProperties
<1>2. /\ q \o r \in Seq(S) /\ Len(q \o r) = Len(q) + Len(r)
      /\ \A i \in 1..(Len(q) + Len(r)) :
           (q \o r)[i] = IF i <= Len(q) THEN q[i] ELSE r[i - Len(q)]
  BY ConcatProperties
<1>3. DOMAIN (q \o r) = 1..(Len(q) + Len(r))
  BY <1>2, LenProperties
<1>4. \A i \in 1..Len(q) : (q \o r)[i] = q[i]
  BY <1>1, <1>2
<1>5. \A i \in 1..Len(r) : (q \o r)[Len(q) + i] = r[i]
  <2> TAKE i \in 1..Len(r)
  <2>1. Len(q) + i \in 1..(Len(q) + Len(r)) /\ ~(Len(q) + i <= Len(q)) /\ Len(q) + i - Len(q) = i
    BY <1>1
  <2>2. QED  BY <2>1, <1>2
<1>6. QED  BY <1>2, <1>3, <1>4, <1>5

(* SetToSeq lists a finite set, each element once.                         *)
LEMMA Listed ==
  ASSUME NEW S, IsFiniteSet(S)
  PROVE  /\ SetToSeq(S) \in Seq(S)
         /\ \A i, j \in DOMAIN SetToSeq(S) : SetToSeq(S)[i] = SetToSeq(S)[j] => i = j
         /\ \A e \in S : \E i \in DOMAIN SetToSeq(S) : SetToSeq(S)[i] = e
<1> DEFINE n == Cardinality(S)
           f == SetToSeq(S)
<1>1. n \in Nat /\ ExistsBijection(1..n, S)
  BY FS_CardinalityType
<1>2. \E g \in [1..n -> S] : IsInjective(g)
  BY <1>1 DEF ExistsBijection, Bijection, Injection
<1>3. f \in [1..n -> S] /\ IsInjective(f)
  BY <1>2 DEF SetToSeq
<1> HIDE DEF f
<1>4. IsFiniteSet(1..n) /\ Cardinality(1..n) = n
  <2>1. 1 \in Int /\ n \in Int  BY <1>1
  <2>2. IsFiniteSet(1..n) /\ Cardinality(1..n) = IF 1 > n THEN 0 ELSE n - 1 + 1
    BY <2>1, FS_Interval
  <2>3. (IF 1 > n THEN 0 ELSE n - 1 + 1) = n  BY <1>1
  <2>4. QED  BY <2>2, <2>3
<1>5. f \in Injection(1..n, S)
  BY <1>3 DEF Injection
<1>6. f \in Surjection(1..n, S)
  BY <1>4, <1>5, FS_Injection
<1>7. f \in Seq(S)
  BY <1>1, <1>3
<1>8. \A i, j \in DOMAIN f : f[i] = f[j] => i = j
  BY <1>3 DEF IsInjective
<1>9. \A e \in S : \E i \in DOMAIN f : f[i] = e
  BY <1>3, <1>6 DEF Surjection
<1>10. QED  BY <1>7, <1>8, <1>9 DEF f

(* The least of three numbers.                                             *)
LEMMA LeastOfThree ==
  ASSUME NEW a \in Nat, NEW b \in Nat, NEW c \in Nat
  PROVE  Min({a, b, c}) \in {a, b, c} /\ Min({a, b, c}) <= a
         /\ Min({a, b, c}) <= b /\ Min({a, b, c}) <= c
<1>1. \E x \in {a, b, c} : \A y \in {a, b, c} : x <= y
  OBVIOUS
<1>2. Min({a, b, c}) \in {a, b, c} /\ \A y \in {a, b, c} : Min({a, b, c}) <= y
  BY <1>1 DEF Min
<1>3. QED  BY <1>2

(* The least of two.                                                       *)
LEMMA LeastOfTwo ==
  ASSUME NEW a \in Nat, NEW b \in Nat
  PROVE  Min({a, b}) \in Nat /\ Min({a, b}) <= a /\ Min({a, b}) <= b
<1>1. \E x \in {a, b} : \A y \in {a, b} : x <= y
  OBVIOUS
<1>2. Min({a, b}) \in {a, b} /\ \A y \in {a, b} : Min({a, b}) <= y
  BY <1>1 DEF Min
<1>3. QED  BY <1>2

-----------------------------------------------------------------------------
(* Elements that move.                                                     *)

(* What a thread takes from a sub-queue comes behind what it has got: each *)
(* element is still in one place.                                          *)
LEMMA Moves ==
  ASSUME NEW c \in [Places -> Seq(Elems)], NEW o, Conserved(c, o),
         NEW a \in Places, NEW b \in Places, a # b, NEW n \in 0..Len(c[a]),
         NEW d \in [Places -> Seq(Elems)],
         d[a] = SubSeq(c[a], n + 1, Len(c[a])),
         d[b] = c[b] \o SubSeq(c[a], 1, n),
         \A p \in Places \ {a, b} : d[p] = c[p]
  PROVE  Conserved(d, o)
<1> DEFINE la == Len(c[a])
           lb == Len(c[b])
<1>1. la \in Nat /\ lb \in Nat /\ DOMAIN c[a] = 1..la /\ DOMAIN c[b] = 1..lb
  BY LenProperties
<1>2. /\ SubSeq(c[a], 1, n) \in Seq(Elems) /\ Len(SubSeq(c[a], 1, n)) = n
      /\ \A i \in 1..n : SubSeq(c[a], 1, n)[i] = c[a][i]
      /\ DOMAIN d[a] = 1..(la - n)
      /\ \A i \in 1..(la - n) : d[a][i] = c[a][i + n]
  BY Cut
<1>3. /\ DOMAIN d[b] = 1..(lb + n)
      /\ \A i \in 1..lb : d[b][i] = c[b][i]
      /\ \A i \in 1..n : d[b][lb + i] = c[a][i]
  BY <1>2, Join
<1> HIDE DEF la, lb
<1> DEFINE Where(p, i) == IF p = b /\ i > lb THEN a ELSE p
           Which(p, i) == IF p = a THEN i + n ELSE IF p = b /\ i > lb THEN i - lb ELSE i
<1>4. ASSUME NEW p \in Places, NEW i \in DOMAIN d[p]
      PROVE  /\ Where(p, i) \in Places /\ Which(p, i) \in DOMAIN c[Where(p, i)]
             /\ d[p][i] = c[Where(p, i)][Which(p, i)]
  <2>1. CASE p = a
    <3>1. i \in 1..(la - n)  BY <2>1, <1>2
    <3>2. i + n \in 1..la  BY <3>1, <1>1
    <3>3. Where(p, i) = a /\ Which(p, i) = i + n  BY <2>1
    <3>4. QED  BY <2>1, <3>1, <3>2, <3>3, <1>1, <1>2
  <2>2. CASE p = b /\ i > lb
    <3>1. i \in 1..(lb + n)  BY <2>2, <1>3
    <3>2. i - lb \in 1..n /\ i - lb \in 1..la /\ lb + (i - lb) = i
      BY <2>2, <3>1, <1>1 DEF la
    <3>3. Where(p, i) = a /\ Which(p, i) = i - lb  BY <2>2
    <3>4. QED  BY <2>2, <3>2, <3>3, <1>1, <1>3
  <2>3. CASE p = b /\ ~(i > lb)
    <3>1. i \in 1..(lb + n)  BY <2>3, <1>3
    <3>2. i \in 1..lb  BY <2>3, <3>1, <1>1
    <3>3. Where(p, i) = p /\ Which(p, i) = i  BY <2>3
    <3>4. QED  BY <2>3, <3>2, <3>3, <1>1, <1>3
  <2>4. CASE p \notin {a, b}
    <3>1. Where(p, i) = p /\ Which(p, i) = i /\ d[p] = c[p]  BY <2>4
    <3>2. QED  BY <3>1
  <2>5. QED  BY <2>1, <2>2, <2>3, <2>4
<1>5. ASSUME NEW p \in Places, NEW q \in Places, NEW i \in DOMAIN d[p], NEW j \in DOMAIN d[q],
             Where(p, i) = Where(q, j), Which(p, i) = Which(q, j)
      PROVE  p = q /\ i = j
  <2>1. p = a => i \in 1..(la - n)  BY <1>2
  <2>2. q = a => j \in 1..(la - n)  BY <1>2
  <2>3. p = b => i \in 1..(lb + n)  BY <1>3
  <2>4. q = b => j \in 1..(lb + n)  BY <1>3
  <2>5. CASE p = a /\ q = a  BY <2>5, <2>1, <2>2, <1>1, <1>5
  <2>6. CASE p = a /\ q = b /\ j > lb
    <3>1. i + n = j - lb  BY <2>6, <1>5
    <3>2. QED  BY <3>1, <2>6, <2>1, <2>4, <1>1
  <2>7. CASE p = b /\ i > lb /\ q = a
    <3>1. i - lb = j + n  BY <2>7, <1>5
    <3>2. QED  BY <3>1, <2>7, <2>2, <2>3, <1>1
  <2>8. CASE p = b /\ i > lb /\ q = b /\ j > lb
    <3>1. i - lb = j - lb  BY <2>8, <1>5
    <3>2. QED  BY <3>1, <2>8, <2>3, <2>4, <1>1
  <2>9. CASE p # a /\ ~(p = b /\ i > lb)
    <3>1. Where(p, i) = p /\ Which(p, i) = i  BY <2>9
    <3>2. q # a /\ ~(q = b /\ j > lb)  BY <3>1, <2>9, <1>5
    <3>3. QED  BY <3>1, <3>2, <1>5
  <2>10. CASE q # a /\ ~(q = b /\ j > lb)
    <3>1. Where(q, j) = q /\ Which(q, j) = j  BY <2>10
    <3>2. p # a /\ ~(p = b /\ i > lb)  BY <3>1, <2>10, <1>5
    <3>3. QED  BY <3>1, <3>2, <1>5
  <2>11. QED  BY <2>5, <2>6, <2>7, <2>8, <2>9, <2>10
<1>6. ASSUME NEW p \in Places, NEW i \in DOMAIN c[p]
      PROVE  \E q \in Places : \E j \in DOMAIN d[q] : d[q][j] = c[p][i]
  <2>1. CASE p = a /\ i <= n
    <3>1. i \in 1..n  BY <2>1, <1>1
    <3>2. lb + i \in DOMAIN d[b]  BY <3>1, <1>1, <1>3
    <3>3. d[b][lb + i] = c[p][i]  BY <2>1, <3>1, <1>3
    <3>4. QED  BY <3>2, <3>3
  <2>2. CASE p = a /\ ~(i <= n)
    <3>1. i - n \in 1..(la - n) /\ (i - n) + n = i  BY <2>2, <1>1
    <3>2. d[a][i - n] = c[p][i]  BY <2>2, <3>1, <1>2
    <3>3. QED  BY <3>1, <3>2, <1>2
  <2>3. CASE p = b
    <3>1. i \in 1..lb /\ i \in 1..(lb + n)  BY <2>3, <1>1
    <3>2. QED  BY <2>3, <3>1, <1>3
  <2>4. CASE p \notin {a, b}  BY <2>4
  <2>5. QED  BY <2>1, <2>2, <2>3, <2>4
<1> HIDE DEF Where, Which
<1>7. \A p, q \in Places : \A i \in DOMAIN d[p], j \in DOMAIN d[q] :
        d[p][i] = d[q][j] => p = q /\ i = j
  <2> SUFFICES ASSUME NEW p \in Places, NEW q \in Places,
                      NEW i \in DOMAIN d[p], NEW j \in DOMAIN d[q], d[p][i] = d[q][j]
               PROVE  p = q /\ i = j
    OBVIOUS
  <2>1. Where(p, i) = Where(q, j) /\ Which(p, i) = Which(q, j)
    BY <1>4 DEF Conserved
  <2>2. QED  BY <2>1, <1>5
<1>8. ASSUME NEW e \in Elems
      PROVE  (\A p \in Places : \A i \in DOMAIN d[p] : d[p][i] # e)
               <=> (\A p \in Places : \A i \in DOMAIN c[p] : c[p][i] # e)
  BY <1>4, <1>6
<1>9. \A e \in Elems : e \in o <=> \A p \in Places : \A i \in DOMAIN d[p] : d[p][i] # e
  BY <1>8 DEF Conserved
<1>10. QED  BY <1>7, <1>9 DEF Conserved

(* What a call returns with is outside the queue.                          *)
LEMMA Returns ==
  ASSUME NEW c \in [Places -> Seq(Elems)], NEW o, Conserved(c, o),
         NEW a \in Places, NEW d \in [Places -> Seq(Elems)],
         d[a] = <<>>, \A p \in Places \ {a} : d[p] = c[p]
  PROVE  Conserved(d, o \cup ToSet(c[a]))
<1>1. DOMAIN d[a] = {}
  BY LenProperties, EmptySeq
<1>2. \A p, q \in Places : \A i \in DOMAIN d[p], j \in DOMAIN d[q] :
        d[p][i] = d[q][j] => p = q /\ i = j
  <2> SUFFICES ASSUME NEW p \in Places, NEW q \in Places,
                      NEW i \in DOMAIN d[p], NEW j \in DOMAIN d[q], d[p][i] = d[q][j]
               PROVE  p = q /\ i = j
    OBVIOUS
  <2>1. p # a /\ q # a /\ d[p] = c[p] /\ d[q] = c[q]  BY <1>1
  <2>2. QED  BY <2>1 DEF Conserved
<1>3. ASSUME NEW e \in Elems, e \in o \cup ToSet(c[a])
      PROVE  \A p \in Places : \A i \in DOMAIN d[p] : d[p][i] # e
  <2> SUFFICES ASSUME NEW p \in Places, NEW i \in DOMAIN d[p], d[p][i] = e
               PROVE  FALSE
    OBVIOUS
  <2>1. p # a /\ d[p] = c[p]  BY <1>1
  <2>2. e \notin o  BY <2>1 DEF Conserved
  <2>3. PICK j \in DOMAIN c[a] : c[a][j] = e  BY <2>2, <1>3 DEF ToSet
  <2>4. QED  BY <2>1, <2>3 DEF Conserved
<1>4. ASSUME NEW e \in Elems, \A p \in Places : \A i \in DOMAIN d[p] : d[p][i] # e
      PROVE  e \in o \cup ToSet(c[a])
  <2>1. CASE \A i \in DOMAIN c[a] : c[a][i] # e
    <3>1. \A p \in Places : \A i \in DOMAIN c[p] : c[p][i] # e  BY <2>1, <1>4
    <3>2. QED  BY <3>1 DEF Conserved
  <2>2. CASE \E i \in DOMAIN c[a] : c[a][i] = e  BY <2>2 DEF ToSet
  <2>3. QED  BY <2>1, <2>2
<1>5. QED  BY <1>2, <1>3, <1>4 DEF Conserved

(* An element from outside is put at the end of a sub-queue.               *)
LEMMA IsPut ==
  ASSUME NEW c \in [Places -> Seq(Elems)], NEW o, Conserved(c, o),
         NEW a \in Places, NEW x \in Elems, x \in o,
         NEW d \in [Places -> Seq(Elems)],
         d[a] = Append(c[a], x), \A p \in Places \ {a} : d[p] = c[p]
  PROVE  Conserved(d, o \ {x})
<1> DEFINE l == Len(c[a])
<1>1. l \in Nat /\ DOMAIN c[a] = 1..l
  BY LenProperties
<1>2. /\ Len(d[a]) = l + 1 /\ d[a] \in Seq(Elems)
      /\ \A i \in 1..l : d[a][i] = c[a][i]
      /\ d[a][l + 1] = x
  BY AppendProperties
<1>3. DOMAIN d[a] = 1..(l + 1)
  BY <1>2, LenProperties
<1> HIDE DEF l
<1>4. ASSUME NEW p \in Places, NEW i \in DOMAIN d[p]
      PROVE  (p = a /\ i = l + 1 /\ d[p][i] = x) \/ (i \in DOMAIN c[p] /\ d[p][i] = c[p][i])
  <2>1. CASE p = a
    <3>1. i = l + 1 \/ i \in 1..l  BY <2>1, <1>1, <1>3
    <3>2. QED  BY <2>1, <3>1, <1>1, <1>2
  <2>2. CASE p # a  BY <2>2
  <2>3. QED  BY <2>1, <2>2
<1>5. ASSUME NEW p \in Places, NEW i \in DOMAIN c[p]
      PROVE  i \in DOMAIN d[p] /\ d[p][i] = c[p][i]
  <2>1. CASE p = a
    <3>1. i \in 1..l /\ i \in 1..(l + 1)  BY <2>1, <1>1
    <3>2. QED  BY <2>1, <3>1, <1>2, <1>3
  <2>2. CASE p # a  BY <2>2
  <2>3. QED  BY <2>1, <2>2
<1>6. \A p \in Places : \A i \in DOMAIN c[p] : c[p][i] # x
  BY DEF Conserved
<1>7. l + 1 \in DOMAIN d[a]
  BY <1>1, <1>3
<1>8. \A p, q \in Places : \A i \in DOMAIN d[p], j \in DOMAIN d[q] :
        d[p][i] = d[q][j] => p = q /\ i = j
  <2> SUFFICES ASSUME NEW p \in Places, NEW q \in Places,
                      NEW i \in DOMAIN d[p], NEW j \in DOMAIN d[q], d[p][i] = d[q][j]
               PROVE  p = q /\ i = j
    OBVIOUS
  <2>1. (p = a /\ i = l + 1 /\ d[p][i] = x) \/ (i \in DOMAIN c[p] /\ d[p][i] = c[p][i])
    BY <1>4
  <2>2. (q = a /\ j = l + 1 /\ d[q][j] = x) \/ (j \in DOMAIN c[q] /\ d[q][j] = c[q][j])
    BY <1>4
  <2>3. QED  BY <2>1, <2>2, <1>6 DEF Conserved
<1>9. ASSUME NEW e \in Elems
      PROVE  e \in o \ {x} <=> \A p \in Places : \A i \in DOMAIN d[p] : d[p][i] # e
  <2>1. CASE e = x  BY <2>1, <1>2, <1>7
  <2>2. CASE e # x
    <3>1. (\A p \in Places : \A i \in DOMAIN d[p] : d[p][i] # e)
            <=> (\A p \in Places : \A i \in DOMAIN c[p] : c[p][i] # e)
      BY <2>2, <1>4, <1>5
    <3>2. QED  BY <2>2, <3>1 DEF Conserved
  <2>3. QED  BY <2>1, <2>2
<1>10. QED  BY <1>8, <1>9 DEF Conserved

-----------------------------------------------------------------------------
(* The inductive invariant.                                                *)

(* A token that has moved once is at a producer, and a call has room for   *)
(* what it has not got.                                                    *)
Placed   == \A t \in Threads : token[t].desired # None => token[t].current # None
RoomLeft == \A t \in Threads : call[t] # None => call[t].max + Len(call[t].got) = Asked

QueueInv == TypeOK /\ Placed /\ RoomLeft /\ ElementsConserved

(* What the assumption on the constants says.                              *)
LEMMA Sizes ==
  /\ ThreadNum \in Nat /\ ThreadNum >= 1 /\ MaxPoll \in Nat /\ MaxPoll >= 1
  /\ Quota \in Nat /\ Quota >= 1 /\ OffsetNum \in Nat /\ OffsetNum >= 1
  /\ MaxPoll <= Quota /\ IsFiniteSet(Elems)
  /\ None \notin Threads /\ None \notin Call
BY TokenAssumption

(* The places and what is in them.                                         *)
LEMMA PlaceOf ==
  /\ \A t \in Threads : <<"sub", t>> \in Places /\ <<"got", t>> \in Places
  /\ \A p \in Places : \E t \in Threads : p = <<"sub", t>> \/ p = <<"got", t>>
  /\ \A t, u \in Threads : <<"sub", t>> # <<"got", u>>
  /\ \A t, u \in Threads : t # u => <<"sub", t>> # <<"sub", u>> /\ <<"got", t>> # <<"got", u>>
BY DEF Places

(* Every place has a sequence of elements ...                              *)
LEMMA ContentsType ==
  ASSUME TypeOK
  PROVE  /\ Contents \in [Places -> Seq(Elems)]
         /\ \A t \in Threads : Got(t) \in Seq(Elems)
         /\ \A t \in Threads : Contents[<<"sub", t>>] = sub[t] /\ Contents[<<"got", t>>] = Got(t)
<1>1. \A t \in Threads : Got(t) \in Seq(Elems)
  BY EmptySeq DEF Got, TypeOK, Call
<1>2. \A t \in Threads : Contents[<<"sub", t>>] = sub[t] /\ Contents[<<"got", t>>] = Got(t)
  BY PlaceOf DEF Contents
<1>3. ASSUME NEW p \in Places PROVE Contents[p] \in Seq(Elems)
  <2>1. PICK t \in Threads : p = <<"sub", t>> \/ p = <<"got", t>>  BY PlaceOf
  <2>2. sub[t] \in Seq(Elems)  BY DEF TypeOK
  <2>3. QED  BY <1>1, <1>2, <2>1, <2>2
<1>4. QED  BY <1>1, <1>2, <1>3 DEF Contents

(* ... and so has it in the next state.                                    *)
LEMMA ContentsTypeNext ==
  ASSUME TypeOK'
  PROVE  /\ Contents' \in [Places -> Seq(Elems)]
         /\ \A t \in Threads : Got(t)' \in Seq(Elems)
         /\ \A t \in Threads : Contents'[<<"sub", t>>] = sub'[t] /\ Contents'[<<"got", t>>] = Got(t)'
<1>1. \A t \in Threads : Got(t)' \in Seq(Elems)
  BY EmptySeq DEF Got, TypeOK, Call
<1>2. \A t \in Threads : Contents'[<<"sub", t>>] = sub'[t] /\ Contents'[<<"got", t>>] = Got(t)'
  BY PlaceOf DEF Contents
<1>3. ASSUME NEW p \in Places PROVE Contents'[p] \in Seq(Elems)
  <2>1. PICK t \in Threads : p = <<"sub", t>> \/ p = <<"got", t>>  BY PlaceOf
  <2>2. sub'[t] \in Seq(Elems)  BY DEF TypeOK
  <2>3. QED  BY <1>1, <1>2, <2>1, <2>2
<1>4. QED  BY <1>1, <1>2, <1>3 DEF Contents

-----------------------------------------------------------------------------
(* The initial states.                                                     *)

(* An empty queue with all messages outside, or a pool that one thread has *)
(* filled.                                                                 *)
LEMMA InitHolds == Init => QueueInv
<1> SUFFICES ASSUME Init PROVE QueueInv
  OBVIOUS
<1>1. /\ SetToSeq(Elems) \in Seq(Elems)
      /\ \A i, j \in DOMAIN SetToSeq(Elems) : SetToSeq(Elems)[i] = SetToSeq(Elems)[j] => i = j
      /\ \A e \in Elems : \E i \in DOMAIN SetToSeq(Elems) : SetToSeq(Elems)[i] = e
  BY Sizes, Listed
<1>2. NewToken \in Token
  BY Sizes DEF NewToken, Token
<1>3. TypeOK
  <2>1. use \in {"pool", "messages"} /\ sub \in [Threads -> Seq(Elems)] /\ out \subseteq Elems
    <3>1. CASE Empty  BY <3>1, EmptySeq DEF Empty
    <3>2. CASE \E t \in Threads : Create(t)  BY <3>2, <1>1, EmptySeq DEF Create
    <3>3. QED  BY <3>1, <3>2 DEF Init
  <2>2. offset \in 0..(OffsetNum - 1)  BY Sizes DEF Init
  <2>3. QED  BY <2>1, <2>2, <1>2 DEF Init, TypeOK
<1>4. Placed /\ RoomLeft
  BY DEF Init, Placed, RoomLeft, NewToken
<1>5. \A t \in Threads : Contents[<<"got", t>>] = <<>> /\ Contents[<<"sub", t>>] = sub[t]
  BY <1>3, ContentsType DEF Init, Got
<1>6. DOMAIN <<>> = {}
  BY LenProperties, EmptySeq
<1>7. ElementsConserved
  <2>1. CASE Empty
    <3>1. \A t \in Threads : sub[t] = <<>>  BY <2>1 DEF Empty
    <3>2. \A p \in Places : DOMAIN Contents[p] = {}  BY <3>1, <1>5, <1>6, PlaceOf
    <3>3. out = Elems  BY <2>1 DEF Empty
    <3>4. QED  BY <3>2, <3>3 DEF ElementsConserved, Conserved
  <2>2. ASSUME NEW t \in Threads, Create(t) PROVE ElementsConserved
    <3>1. out = {} /\ \A u \in Threads : sub[u] = IF u = t THEN SetToSeq(Elems) ELSE <<>>
      BY <2>2 DEF Create
    <3>2. ASSUME NEW p \in Places
          PROVE  Contents[p] = IF p = <<"sub", t>> THEN SetToSeq(Elems) ELSE <<>>
      <4>1. PICK u \in Threads : p = <<"sub", u>> \/ p = <<"got", u>>  BY PlaceOf
      <4>2. CASE p = <<"sub", u>>
        <5>1. p = <<"sub", t>> <=> u = t  BY <4>2
        <5>2. QED  BY <4>2, <5>1, <3>1, <1>5
      <4>3. CASE p = <<"got", u>>  BY <4>3, <1>5, PlaceOf
      <4>4. QED  BY <4>1, <4>2, <4>3
    <3>3. \A p \in Places : p # <<"sub", t>> => DOMAIN Contents[p] = {}
      BY <3>2, <1>6
    <3>4. Contents[<<"sub", t>>] = SetToSeq(Elems) /\ <<"sub", t>> \in Places
      BY <3>2, PlaceOf
    <3> HIDE DEF Contents
    <3>5. \A e \in Elems : e \in out <=> \A p \in Places : \A i \in DOMAIN Contents[p] : Contents[p][i] # e
      BY <3>1, <3>4, <1>1
    <3>6. \A p, q \in Places : \A i \in DOMAIN Contents[p], j \in DOMAIN Contents[q] :
            Contents[p][i] = Contents[q][j] => p = q /\ i = j
      <4> SUFFICES ASSUME NEW p \in Places, NEW q \in Places, NEW i \in DOMAIN Contents[p],
                          NEW j \in DOMAIN Contents[q], Contents[p][i] = Contents[q][j]
                   PROVE  p = q /\ i = j
        OBVIOUS
      <4>1. p = <<"sub", t>> /\ q = <<"sub", t>>  BY <3>3
      <4>2. QED  BY <4>1, <3>4, <1>1
    <3>7. QED  BY <3>5, <3>6 DEF ElementsConserved, Conserved
  <2>3. QED  BY <2>1, <2>2 DEF Init
<1>8. QED  BY <1>3, <1>4, <1>7 DEF QueueInv

-----------------------------------------------------------------------------
(* A put.                                                                  *)

(* kv_mempool_put and kv_app_send keep the invariant.                      *)
LEMMA PutHolds ==
  ASSUME QueueInv, NEW t \in Threads, NEW e \in Elems, Put(t, e)
  PROVE  QueueInv'
<1>1. TypeOK /\ Placed /\ RoomLeft /\ ElementsConserved
  BY DEF QueueInv
<1>2. sub[t] \in Seq(Elems) /\ Append(sub[t], e) \in Seq(Elems)
  BY <1>1, AppendProperties DEF TypeOK
<1>3. TypeOK'
  BY <1>1, <1>2 DEF Put, TypeOK, Consumers
<1>4. Placed' /\ RoomLeft'
  BY <1>1 DEF Put, Placed, RoomLeft, Asked
<1>5. ElementsConserved'
  <2> DEFINE c == Contents
             d == Contents'
             a == <<"sub", t>>
  <2>1. c \in [Places -> Seq(Elems)] /\ d \in [Places -> Seq(Elems)] /\ a \in Places
    BY <1>1, <1>3, ContentsType, ContentsTypeNext, PlaceOf
  <2>2. d[a] = Append(c[a], e)
    BY <1>1, <1>3, ContentsType, ContentsTypeNext DEF Put, TypeOK
  <2>3. ASSUME NEW p \in Places, p # a PROVE d[p] = c[p]
    <3>1. PICK u \in Threads : p = <<"sub", u>> \/ p = <<"got", u>>  BY PlaceOf
    <3>2. CASE p = <<"sub", u>>
      <4>1. u # t  BY <3>2, <2>3
      <4>2. sub'[u] = sub[u]  BY <4>1, <1>1 DEF Put, TypeOK
      <4>3. QED  BY <4>2, <3>2, <1>1, <1>3, ContentsType, ContentsTypeNext
    <3>3. CASE p = <<"got", u>>
      <4>1. Got(u)' = Got(u)  BY DEF Put, Got
      <4>2. QED  BY <4>1, <3>3, <1>1, <1>3, ContentsType, ContentsTypeNext
    <3>4. QED  BY <3>1, <3>2, <3>3
  <2>4. Conserved(c, out) /\ e \in out /\ out' = out \ {e}
    BY <1>1 DEF ElementsConserved, Put
  <2> HIDE DEF c, d, a
  <2>5. Conserved(d, out \ {e})
    BY <2>1, <2>2, <2>3, <2>4, IsPut
  <2>6. QED  BY <2>4, <2>5 DEF ElementsConserved, d, Conserved
<1>6. QED  BY <1>3, <1>4, <1>5 DEF QueueInv

-----------------------------------------------------------------------------
(* The beginning of a dequeue.                                             *)

(* A remainder is smaller than what it is divided by.                      *)
LEMMA Remainder ==
  ASSUME NEW n \in Int, NEW m \in Nat, m >= 1
  PROVE  n % m \in 0..(m - 1)
OBVIOUS

(* The producer that a token moves to is one, and the token is at it.      *)
LEMMA MovedType ==
  ASSUME TypeOK, Placed, NEW t \in Consumers
  PROVE  /\ Moved(t) \in Token
         /\ Moved(t).current \in Threads
<1> DEFINE k       == token[t]
           initial == IF use = "pool" THEN t ELSE 0
           place   == IF k.desired = None THEN initial % ThreadNum ELSE k.desired
           delta   == (offset + OffsetNum - k.known) % OffsetNum
<1>1. t \in Threads
  BY Sizes DEF Consumers, Threads
<1>2. k \in Token /\ offset \in 0..(OffsetNum - 1)
  BY <1>1 DEF TypeOK
<1>3. initial \in Int
  BY <1>1 DEF Threads
<1>4. place \in Threads
  <2>1. initial % ThreadNum \in 0..(ThreadNum - 1)  BY <1>3, Sizes, Remainder
  <2>2. QED  BY <2>1, <1>2 DEF Threads, Token
<1>5. delta \in Nat
  <2>1. offset + OffsetNum - k.known \in Int  BY <1>2, Sizes DEF Token
  <2>2. delta \in 0..(OffsetNum - 1)  BY <2>1, Sizes, Remainder
  <2>3. QED  BY <2>2
<1> HIDE DEF place, delta
<1>6. Beyond(place, delta) \in Threads
  <2>1. delta % ThreadNum \in 0..(ThreadNum - 1)  BY <1>5, Sizes, Remainder
  <2>2. place + ThreadNum - (delta % ThreadNum) \in Int  BY <2>1, <1>4, Sizes DEF Threads
  <2>3. QED  BY <2>2, Sizes, Remainder DEF Beyond, Threads
<1>7. CASE k.desired = None \/ k.known # offset
  <2>1. Moved(t) = [known |-> offset, consumed |-> 0, current |-> Beyond(place, delta),
                    desired |-> Beyond(place, delta)]
    BY <1>7 DEF Moved, place, delta
  <2>2. 0 \in 0..Quota  BY Sizes
  <2>3. QED  BY <2>1, <2>2, <1>2, <1>6 DEF Token
<1>8. CASE ~(k.desired = None \/ k.known # offset)
  <2>1. Moved(t) = k  BY <1>8 DEF Moved
  <2>2. k.current # None  BY <1>8, <1>1 DEF Placed
  <2>3. QED  BY <2>1, <2>2, <1>2 DEF Token
<1>9. QED  BY <1>7, <1>8

(* A thread that comes to a producer: of the other calls only their being  *)
(* alone changes.                                                          *)
LEMMA ArriveType ==
  ASSUME TypeOK, NEW t \in Threads, NEW p \in Threads,
         NEW c, [c EXCEPT !.prod = p] \in Call,
         NEW calls \in [Threads -> Call \cup {None}],
         \A u \in Threads \ {t} : call[u] # None => calls[u] # None
  PROVE  /\ Arrive(t, p, c, calls) \in [Threads -> Call \cup {None}]
         /\ Arrive(t, p, c, calls)[t] \in Call
         /\ Arrive(t, p, c, calls)[t].got = [c EXCEPT !.prod = p].got
         /\ Arrive(t, p, c, calls)[t].max = [c EXCEPT !.prod = p].max
         /\ \A u \in Threads \ {t} :
              /\ Arrive(t, p, c, calls)[u] # None <=> calls[u] # None
              /\ calls[u] # None => /\ Arrive(t, p, c, calls)[u].got = calls[u].got
                                    /\ Arrive(t, p, c, calls)[u].max = calls[u].max
<1> DEFINE d      == [c EXCEPT !.prod = p]
           others == InSub(p) \ {t}
           after  == Arrive(t, p, c, calls)
<1>1. after = [u \in Threads |->
                 IF u = t THEN [c EXCEPT !.prod = p, !.alone = others = {}, !.seen = Len(sub[p])]
                 ELSE IF u \in others THEN [calls[u] EXCEPT !.alone = FALSE] ELSE calls[u]]
  BY DEF Arrive
<1>2. Len(sub[p]) \in Nat
  BY LenProperties DEF TypeOK
<1>3. (others = {}) \in BOOLEAN
  OBVIOUS
<1>4. after[t] = [d EXCEPT !.alone = others = {}, !.seen = Len(sub[p])]
  BY <1>1 DEF Call
<1> HIDE DEF d, others, after
<1>5. d \in Call  BY DEF d
<1>6. after[t] \in Call /\ after[t].got = d.got /\ after[t].max = d.max
  BY <1>2, <1>3, <1>4, <1>5 DEF Call
<1>7. ASSUME NEW u \in Threads \ {t}
      PROVE  /\ after[u] \in Call \cup {None}
             /\ after[u] # None <=> calls[u] # None
             /\ calls[u] # None => after[u].got = calls[u].got /\ after[u].max = calls[u].max
  <2>1. CASE u \in others
    <3>1. calls[u] # None  BY <2>1, <1>7 DEF others, InSub
    <3>2. calls[u] \in Call  BY <3>1
    <3>3. after[u] = [calls[u] EXCEPT !.alone = FALSE]  BY <1>1, <2>1
    <3>4. after[u] \in Call /\ after[u].got = calls[u].got /\ after[u].max = calls[u].max
      BY <3>2, <3>3 DEF Call
    <3>5. QED  BY <3>1, <3>4, Sizes
  <2>2. CASE u \notin others
    <3>1. after[u] = calls[u]  BY <1>1, <2>2
    <3>2. QED  BY <3>1
  <2>3. QED  BY <2>1, <2>2
<1>8. after \in [Threads -> Call \cup {None}]
  <2>1. \A u \in Threads : after[u] \in Call \cup {None}  BY <1>6, <1>7
  <2>2. QED  BY <1>1, <2>1
<1>9. QED  BY <1>6, <1>7, <1>8 DEF after, d

(* Nothing is taken when a dequeue begins.                                 *)
LEMMA BeginHolds ==
  ASSUME QueueInv, NEW t \in Threads, Begin(t)
  PROVE  QueueInv'
<1>1. TypeOK /\ Placed /\ RoomLeft /\ ElementsConserved
  BY DEF QueueInv
<1>2. t \in Consumers /\ call[t] = None /\ UNCHANGED <<use, sub, out, offset>>
  BY DEF Begin
<1>3. Moved(t) \in Token /\ Moved(t).current \in Threads
  BY <1>1, <1>2, MovedType
<1> DEFINE p == Moved(t).current
           c == [prod |-> None, alone |-> TRUE, seen |-> 0, first |-> TRUE, max |-> Asked,
                 got |-> <<>>, raced |-> FALSE, stayed |-> InQueue]
           d == [c EXCEPT !.prod = p]
<1>4. Asked \in Nat
  BY Sizes DEF Asked
<1>5. InQueue \in SUBSET Elems
  <2>1. ASSUME NEW q \in Threads PROVE ToSet(sub[q]) \subseteq Elems
    <3>1. sub[q] \in Seq(Elems)  BY <1>1 DEF TypeOK
    <3>2. QED  BY <3>1, LenProperties, ElementOfSeq DEF ToSet
  <2>2. QED  BY <2>1 DEF InQueue
<1>6. d \in Call
  BY <1>3, <1>4, <1>5, EmptySeq DEF Call
<1>7. [c EXCEPT !.prod = p] \in Call
  BY <1>6
<1>8. call \in [Threads -> Call \cup {None}]
  BY <1>1 DEF TypeOK
<1>9. call' = Arrive(t, p, c, call) /\ token' = [token EXCEPT ![t] = Moved(t)]
  BY DEF Begin
<1>10. d.got = <<>> /\ d.max = Asked
  OBVIOUS
<1> HIDE DEF c, d, p
<1>11. p \in Threads
  BY <1>3 DEF p
<1>12. /\ call' \in [Threads -> Call \cup {None}] /\ call'[t] \in Call
       /\ call'[t].got = <<>> /\ call'[t].max = Asked
       /\ \A u \in Threads \ {t} :
            /\ call'[u] # None <=> call[u] # None
            /\ call[u] # None => call'[u].got = call[u].got /\ call'[u].max = call[u].max
  <2> DEFINE a == Arrive(t, p, c, call)
  <2>1. /\ a \in [Threads -> Call \cup {None}] /\ a[t] \in Call
        /\ a[t].got = [c EXCEPT !.prod = p].got /\ a[t].max = [c EXCEPT !.prod = p].max
        /\ \A u \in Threads \ {t} :
             /\ a[u] # None <=> call[u] # None
             /\ call[u] # None => a[u].got = call[u].got /\ a[u].max = call[u].max
    BY <1>1, <1>7, <1>8, <1>11, ArriveType
  <2> HIDE DEF a
  <2>2. call' = a  BY <1>9 DEF a
  <2>3. QED  BY <2>1, <2>2, <1>10 DEF d
<1>13. TypeOK'
  <2>1. token' \in [Threads -> Token]  BY <1>1, <1>3, <1>9 DEF TypeOK
  <2>2. \A u \in Threads : call'[u] # None => u \in Consumers'
    BY <1>1, <1>2, <1>12 DEF TypeOK, Consumers
  <2>3. QED  BY <2>1, <2>2, <1>1, <1>2, <1>12 DEF TypeOK
<1>14. Placed'
  <2>1. \A u \in Threads : token'[u] = IF u = t THEN Moved(t) ELSE token[u]
    BY <1>1, <1>9 DEF TypeOK
  <2>2. QED  BY <2>1, <1>1, <1>3, Sizes DEF Placed
<1>15. RoomLeft'
  <2>1. Asked' = Asked  BY <1>2 DEF Asked
  <2>2. Asked + Len(<<>>) = Asked  BY <1>4, EmptySeq
  <2>3. \A u \in Threads : call'[u] # None => call'[u].max + Len(call'[u].got) = Asked
    BY <2>2, <1>1, <1>12 DEF RoomLeft
  <2>4. QED  BY <2>1, <2>3 DEF RoomLeft
<1>16. ElementsConserved'
  <2>1. \A u \in Threads : Got(u)' = Got(u)
    BY <1>2, <1>12, Sizes DEF Got
  <2>2. Contents' = Contents
    <3>1. Contents \in [Places -> Seq(Elems)] /\ Contents' \in [Places -> Seq(Elems)]
      BY <1>1, <1>13, ContentsType, ContentsTypeNext
    <3>2. ASSUME NEW q \in Places PROVE Contents'[q] = Contents[q]
      <4>1. PICK u \in Threads : q = <<"sub", u>> \/ q = <<"got", u>>  BY PlaceOf
      <4>2. sub' = sub  BY <1>2
      <4>3. QED  BY <4>1, <4>2, <2>1, <1>1, <1>13, ContentsType, ContentsTypeNext
    <3>3. QED  BY <3>1, <3>2
  <2>3. QED  BY <2>2, <1>1, <1>2 DEF ElementsConserved, Conserved
<1>17. QED  BY <1>13, <1>14, <1>15, <1>16 DEF QueueInv

-----------------------------------------------------------------------------
(* A try.                                                                  *)

(* How many it brings.                                                     *)
LEMMA FoundBounds ==
  ASSUME NEW c \in Call, sub[c.prod] \in Seq(Elems), NEW n \in Found(c)
  PROVE  n \in Nat /\ n <= c.max /\ n <= Len(sub[c.prod])
<1> DEFINE most == Min({c.max, c.seen, Len(sub[c.prod])})
<1>1. c.max \in Nat /\ c.seen \in Nat /\ Len(sub[c.prod]) \in Nat
  BY LenProperties DEF Call
<1>2. most \in Nat /\ most <= c.max /\ most <= Len(sub[c.prod])
  BY <1>1, LeastOfThree
<1> HIDE DEF most
<1>3. n \in IF c.alone THEN {most} ELSE 0..most
  BY DEF Found, most
<1>4. n \in Nat /\ n <= most
  BY <1>2, <1>3
<1>5. QED  BY <1>1, <1>2, <1>4

(* What the token remembers of a try.                                      *)
LEMMA ConsumedType ==
  ASSUME NEW k \in Token, NEW c \in Call, NEW n \in Nat, n <= Quota
  PROVE  /\ Consumed(k, c, n) \in Token
         /\ Consumed(k, c, n).desired = k.desired
         /\ k.current # None => Consumed(k, c, n).current # None
<1>1. k.consumed + n \in Nat /\ Quota \in Nat
  BY Sizes DEF Token
<1>2. Min({k.consumed + n, Quota}) \in 0..Quota
  BY <1>1, LeastOfTwo
<1>3. c.prod \in Threads /\ c.prod # None
  BY Sizes DEF Call
<1>4. n \in 0..Quota
  BY <1>1
<1>5. CASE c.first
  <2>1. Consumed(k, c, n) = [k EXCEPT !.consumed = Min({k.consumed + n, Quota})]
    BY <1>5 DEF Consumed
  <2>2. QED  BY <2>1, <1>2 DEF Token
<1>6. CASE ~c.first /\ n # 0
  <2>1. Consumed(k, c, n) = [k EXCEPT !.current = c.prod, !.consumed = n]  BY <1>6 DEF Consumed
  <2>2. [k EXCEPT !.current = c.prod, !.consumed = n] \in Token
    BY <1>3, <1>4 DEF Token
  <2>3. /\ [k EXCEPT !.current = c.prod, !.consumed = n].desired = k.desired
        /\ [k EXCEPT !.current = c.prod, !.consumed = n].current = c.prod
    BY DEF Token
  <2>4. QED  BY <2>1, <2>2, <2>3, <1>3
<1>7. CASE ~c.first /\ n = 0
  <2>1. Consumed(k, c, n) = k  BY <1>7 DEF Consumed
  <2>2. QED  BY <2>1
<1>8. QED  BY <1>5, <1>6, <1>7

(* After a try the call has got what it had and what was taken; it comes   *)
(* back with that, or is at the next producer.                             *)
LEMMA TryEffect ==
  ASSUME QueueInv, NEW t \in Threads, Try(t)
  PROVE  \E n \in Nat :
           LET c == call[t] IN
           /\ c \in Call /\ t \in Consumers
           /\ n <= c.max /\ n <= Len(sub[c.prod]) /\ n <= Quota
           /\ sub' = [sub EXCEPT ![c.prod] = SubSeq(@, n + 1, Len(@))]
           /\ token' = [token EXCEPT ![t] = Consumed(token[t], c, n)]
           /\ offset' = NextOffset(token[t], c, n)
           /\ use' = use
           /\ call' \in [Threads -> Call \cup {None}]
           /\ \A u \in Threads \ {t} :
                /\ call'[u] # None <=> call[u] # None
                /\ call[u] # None => call'[u].got = call[u].got /\ call'[u].max = call[u].max
           /\ \/ /\ call'[t] = None
                 /\ out' = out \cup ToSet(c.got \o SubSeq(sub[c.prod], 1, n))
              \/ /\ call'[t] \in Call /\ out' = out
                 /\ call'[t].got = c.got \o SubSeq(sub[c.prod], 1, n)
                 /\ call'[t].max = c.max - n
<1>1. TypeOK /\ Placed /\ RoomLeft /\ ElementsConserved
  BY DEF QueueInv
<1> DEFINE c     == call[t]
           taken(n) == SubSeq(sub[c.prod], 1, n)
           now(n)   == [c EXCEPT !.first = FALSE, !.max = @ - n, !.got = Brought(c, taken(n)),
                                 !.raced = @ \/ ~c.alone]
           left(n)  == [u \in Threads |->
                          IF call[u] = None THEN None
                          ELSE [call[u] EXCEPT !.stayed = @ \ ToSet(taken(n))]]
           more(n)  == [now(n) EXCEPT !.stayed = left(n)[t].stayed]
<1>2. c \in Call /\ t \in Consumers /\ call \in [Threads -> Call \cup {None}]
  BY <1>1 DEF Try, TypeOK
<1>3. c.prod \in Threads /\ c.got \in Seq(Elems) /\ c.max \in Nat
  BY <1>2 DEF Call
<1>4. sub[c.prod] \in Seq(Elems)
  BY <1>1, <1>3 DEF TypeOK
<1>5. PICK n \in Found(c) :
        /\ sub'    = [sub EXCEPT ![c.prod] = SubSeq(@, n + 1, Len(@))]
        /\ token'  = [token EXCEPT ![t] = Consumed(token[t], c, n)]
        /\ offset' = NextOffset(token[t], c, n)
        /\ use' = use
        /\ \/ /\ out'  = out \cup ToSet(now(n).got)
              /\ call' = [left(n) EXCEPT ![t] = None]
           \/ /\ out' = out
              /\ call' = Arrive(t, NextProd(c.prod), more(n), left(n))
  BY DEF Try
<1>6. n \in Nat /\ n <= c.max /\ n <= Len(sub[c.prod])
  BY <1>2, <1>4, FoundBounds
<1>7. n <= Quota
  <2>1. Len(c.got) \in Nat  BY <1>3, LenProperties
  <2>2. c.max + Len(c.got) = Asked  BY <1>1, <1>2, Sizes DEF RoomLeft
  <2>3. Asked <= Quota /\ Asked \in Nat /\ Quota \in Nat  BY Sizes DEF Asked
  <2>4. QED  BY <2>1, <2>2, <2>3, <1>3, <1>6
<1>8. taken(n) \in Seq(Elems)
  <2>1. n \in 0..Len(sub[c.prod])  BY <1>4, <1>6, LenProperties
  <2>2. QED  BY <2>1, <1>4, Cut
<1>9. c.got \o taken(n) \in Seq(Elems)
  BY <1>3, <1>8, Join
<1>10. /\ now(n) \in Call /\ now(n).got = c.got \o taken(n) /\ now(n).max = c.max - n
  <2>1. c.max - n \in Nat  BY <1>3, <1>6
  <2>2. QED  BY <2>1, <1>2, <1>9 DEF Call, Brought
<1>11. /\ left(n) \in [Threads -> Call \cup {None}]
       /\ \A u \in Threads :
            /\ left(n)[u] # None <=> call[u] # None
            /\ call[u] # None => /\ left(n)[u] \in Call
                                 /\ left(n)[u].got = call[u].got
                                 /\ left(n)[u].max = call[u].max
  <2>1. ASSUME NEW u \in Threads, call[u] # None
        PROVE  /\ left(n)[u] \in Call
               /\ left(n)[u].got = call[u].got /\ left(n)[u].max = call[u].max
    <3>1. call[u] \in Call  BY <2>1, <1>2
    <3>2. left(n)[u] = [call[u] EXCEPT !.stayed = @ \ ToSet(taken(n))]  BY <2>1
    <3>3. QED  BY <3>1, <3>2 DEF Call
  <2>2. \A u \in Threads : call[u] = None => left(n)[u] = None
    OBVIOUS
  <2> HIDE DEF left
  <2>3. \A u \in Threads : left(n)[u] \in Call \cup {None}
    BY <2>1, <2>2
  <2>4. \A u \in Threads : left(n)[u] # None <=> call[u] # None
    BY <2>1, <2>2, Sizes
  <2>5. left(n) = [u \in Threads |-> left(n)[u]]
    BY DEF left
  <2>6. left(n) \in [Threads -> Call \cup {None}]
    BY <2>3, <2>5
  <2>7. QED  BY <2>1, <2>4, <2>6
<1>12. left(n)[t] \in Call
  BY <1>2, <1>11, Sizes
<1> HIDE DEF left, now, taken
<1>13. more(n) \in Call /\ more(n).got = now(n).got /\ more(n).max = now(n).max
  <2>1. left(n)[t].stayed \in SUBSET Elems  BY <1>12 DEF Call
  <2>2. QED  BY <2>1, <1>10 DEF Call
<1> HIDE DEF more
<1>14. CASE out' = out \cup ToSet(now(n).got) /\ call' = [left(n) EXCEPT ![t] = None]
  <2>1. call' \in [Threads -> Call \cup {None}] /\ call'[t] = None
    BY <1>11, <1>14
  <2>2. \A u \in Threads \ {t} : call'[u] = left(n)[u]
    BY <1>11, <1>14
  <2>3. QED  BY <2>1, <2>2, <1>2, <1>5, <1>6, <1>7, <1>10, <1>11, <1>14 DEF taken
<1>15. CASE out' = out /\ call' = Arrive(t, NextProd(c.prod), more(n), left(n))
  <2> DEFINE p == NextProd(c.prod)
             a == Arrive(t, p, more(n), left(n))
  <2>1. p \in Threads
    BY <1>3, Sizes DEF NextProd, Threads
  <2>2. [more(n) EXCEPT !.prod = p] \in Call
    BY <2>1, <1>13 DEF Call
  <2>3. /\ [more(n) EXCEPT !.prod = p].got = more(n).got
        /\ [more(n) EXCEPT !.prod = p].max = more(n).max
    BY <1>13 DEF Call
  <2> HIDE DEF p, c
  <2>4. /\ a \in [Threads -> Call \cup {None}] /\ a[t] \in Call
        /\ a[t].got = [more(n) EXCEPT !.prod = p].got
        /\ a[t].max = [more(n) EXCEPT !.prod = p].max
        /\ \A u \in Threads \ {t} :
             /\ a[u] # None <=> left(n)[u] # None
             /\ left(n)[u] # None => a[u].got = left(n)[u].got /\ a[u].max = left(n)[u].max
    BY <2>1, <2>2, <1>1, <1>11, ArriveType
  <2>5. call' = a  BY <1>15 DEF p
  <2> HIDE DEF a
  <2>6. call' \in [Threads -> Call \cup {None}] /\ call'[t] \in Call
    BY <2>4, <2>5
  <2>7. call'[t].got = c.got \o taken(n) /\ call'[t].max = c.max - n
    BY <2>3, <2>4, <2>5, <1>10, <1>13
  <2>8. \A u \in Threads \ {t} :
          /\ call'[u] # None <=> call[u] # None
          /\ call[u] # None => call'[u].got = call[u].got /\ call'[u].max = call[u].max
    BY <2>4, <2>5, <1>11
  <2>9. QED  BY <2>6, <2>7, <2>8, <1>2, <1>5, <1>6, <1>7, <1>15 DEF taken, c
<1>16. QED  BY <1>5, <1>14, <1>15

(* One try at one producer keeps the invariant: the elements move to what  *)
(* the call has got, and with its return to the outside.                   *)
LEMMA TryHolds ==
  ASSUME QueueInv, NEW t \in Threads, Try(t)
  PROVE  QueueInv'
<1>1. TypeOK /\ Placed /\ RoomLeft /\ ElementsConserved
  BY DEF QueueInv
<1> DEFINE c == call[t]
<1>2. PICK n \in Nat :
        /\ c \in Call /\ t \in Consumers
        /\ n <= c.max /\ n <= Len(sub[c.prod]) /\ n <= Quota
        /\ sub' = [sub EXCEPT ![c.prod] = SubSeq(@, n + 1, Len(@))]
        /\ token' = [token EXCEPT ![t] = Consumed(token[t], c, n)]
        /\ offset' = NextOffset(token[t], c, n)
        /\ use' = use
        /\ call' \in [Threads -> Call \cup {None}]
        /\ \A u \in Threads \ {t} :
             /\ call'[u] # None <=> call[u] # None
             /\ call[u] # None => call'[u].got = call[u].got /\ call'[u].max = call[u].max
        /\ \/ /\ call'[t] = None
              /\ out' = out \cup ToSet(c.got \o SubSeq(sub[c.prod], 1, n))
           \/ /\ call'[t] \in Call /\ out' = out
              /\ call'[t].got = c.got \o SubSeq(sub[c.prod], 1, n)
              /\ call'[t].max = c.max - n
  BY TryEffect
<1> DEFINE s     == sub[c.prod]
           taken == SubSeq(s, 1, n)
           rest  == SubSeq(s, n + 1, Len(s))
           now   == c.got \o taken
<1>3. c.prod \in Threads /\ c.got \in Seq(Elems) /\ c.max \in Nat /\ c # None
  BY <1>2, Sizes DEF Call
<1>4. s \in Seq(Elems)
  BY <1>1, <1>3 DEF TypeOK
<1>5. n \in 0..Len(s)
  BY <1>2, <1>4, LenProperties
<1>6. taken \in Seq(Elems) /\ Len(taken) = n /\ rest \in Seq(Elems)
  BY <1>4, <1>5, Cut
<1>7. now \in Seq(Elems) /\ Len(now) = Len(c.got) + n
  <2> HIDE DEF c, taken
  <2>1. QED  BY <1>3, <1>6, Join
<1>8. \A p \in Threads : sub'[p] = IF p = c.prod THEN rest ELSE sub[p]
  BY <1>1, <1>2, <1>3 DEF TypeOK
<1> HIDE DEF c, s, taken, rest, now
<1>9. Consumed(token[t], c, n) \in Token
      /\ (token[t].desired # None => Consumed(token[t], c, n).current # None)
      /\ Consumed(token[t], c, n).desired = token[t].desired
  <2>1. token[t] \in Token  BY <1>1 DEF TypeOK
  <2>2. QED  BY <2>1, <1>1, <1>2, ConsumedType DEF Placed
<1>10. token' \in [Threads -> Token]
       /\ \A u \in Threads : token'[u] = IF u = t THEN Consumed(token[t], c, n) ELSE token[u]
  BY <1>1, <1>2, <1>9 DEF TypeOK
<1>11. TypeOK'
  <2>1. sub' \in [Threads -> Seq(Elems)]
    <3>1. sub' = [p \in Threads |-> sub'[p]]  BY <1>1, <1>2 DEF TypeOK
    <3>2. \A p \in Threads : sub'[p] \in Seq(Elems)  BY <1>1, <1>6, <1>8 DEF TypeOK
    <3>3. QED  BY <3>1, <3>2
  <2>2. offset' \in 0..(OffsetNum - 1)
    <3>1. offset \in 0..(OffsetNum - 1) /\ offset + 1 \in Int  BY <1>1 DEF TypeOK
    <3>2. (offset + 1) % OffsetNum \in 0..(OffsetNum - 1)  BY <3>1, Sizes, Remainder
    <3>3. QED  BY <3>1, <3>2, <1>2 DEF NextOffset
  <2>3. out' \subseteq Elems
    <3>1. ToSet(now) \subseteq Elems  BY <1>7, LenProperties, ElementOfSeq DEF ToSet
    <3>2. out \subseteq Elems  BY <1>1 DEF TypeOK
    <3>3. QED  BY <3>1, <3>2, <1>2 DEF now, taken, s
  <2>4. \A u \in Threads : call'[u] # None => u \in Consumers'
    <3>1. Consumers' = Consumers  BY <1>2 DEF Consumers
    <3>2. \A u \in Threads \ {t} : call'[u] # None => u \in Consumers
      BY <1>1, <1>2 DEF TypeOK
    <3>3. QED  BY <3>1, <3>2, <1>2
  <2>5. use' \in {"pool", "messages"}  BY <1>1, <1>2 DEF TypeOK
  <2>6. QED  BY <2>1, <2>2, <2>3, <2>4, <2>5, <1>2, <1>10 DEF TypeOK
<1>12. Placed'
  <2>1. \A u \in Threads : token'[u].desired # None => token'[u].current # None
    BY <1>1, <1>9, <1>10 DEF Placed
  <2>2. QED  BY <2>1 DEF Placed
<1>13. RoomLeft'
  <2>1. Asked' = Asked  BY <1>2 DEF Asked
  <2>2. \A u \in Threads \ {t} : call'[u] # None => call'[u].max + Len(call'[u].got) = Asked
    BY <1>1, <1>2 DEF RoomLeft
  <2>3. call'[t] # None => call'[t].max + Len(call'[t].got) = Asked
    <3>1. c.max + Len(c.got) = Asked  BY <1>1, <1>3 DEF RoomLeft, c
    <3>2. Len(c.got) \in Nat  BY <1>3, LenProperties
    <3>3. call'[t] # None => call'[t].got = now /\ call'[t].max = c.max - n
      BY <1>2 DEF now, taken, s
    <3>4. c.max - n + (Len(c.got) + n) = Asked  BY <3>1, <3>2, <1>2, <1>3
    <3>5. QED  BY <3>3, <3>4, <1>7
  <2>4. QED  BY <2>1, <2>2, <2>3 DEF RoomLeft
<1>14. ElementsConserved'
  <2> DEFINE a == <<"sub", c.prod>>
             b == <<"got", t>>
             f == Contents
             g == [p \in Places |-> IF p = a THEN rest ELSE IF p = b THEN now ELSE f[p]]
             h == Contents'
  <2>1. f \in [Places -> Seq(Elems)] /\ h \in [Places -> Seq(Elems)]
    BY <1>1, <1>11, ContentsType, ContentsTypeNext
  <2>2. a \in Places /\ b \in Places /\ a # b
    BY <1>3, PlaceOf
  <2>3. f[a] = s /\ f[b] = c.got
    <3>1. Got(t) = c.got  BY <1>3 DEF Got, c
    <3>2. QED  BY <3>1, <1>1, <1>3, ContentsType DEF s
  <2>4. Conserved(f, out)
    BY <1>1 DEF ElementsConserved
  <2>5. ASSUME NEW p \in Places \ {b} PROVE h[p] = g[p]
    <3>1. PICK u \in Threads : p = <<"sub", u>> \/ p = <<"got", u>>  BY PlaceOf
    <3>2. CASE p = <<"sub", u>>
      <4>1. h[p] = sub'[u] /\ f[p] = sub[u]
        BY <3>2, <1>1, <1>11, ContentsType, ContentsTypeNext
      <4>2. p = a <=> u = c.prod  BY <3>2
      <4>3. g[p] = IF u = c.prod THEN rest ELSE sub[u]  BY <4>1, <4>2
      <4>4. QED  BY <4>1, <4>3, <1>8
    <3>3. CASE p = <<"got", u>>
      <4>1. u # t  BY <3>3
      <4>2. Got(u)' = Got(u)  BY <4>1, <1>2 DEF Got
      <4>3. h[p] = f[p]  BY <4>2, <3>3, <1>1, <1>11, ContentsType, ContentsTypeNext
      <4>4. p # a  BY <3>3
      <4>5. g[p] = f[p]  BY <4>4
      <4>6. QED  BY <4>3, <4>5
    <3>4. QED  BY <3>1, <3>2, <3>3
  <2>6. g \in [Places -> Seq(Elems)] /\ g[a] = rest /\ g[b] = now
        /\ \A p \in Places \ {a, b} : g[p] = f[p]
    BY <2>1, <2>2, <1>6, <1>7
  <2>7. h[b] = IF call'[t] = None THEN <<>> ELSE call'[t].got
    BY <1>11, ContentsTypeNext DEF Got
  <2>8. ElementsConserved' <=> Conserved(h, out')
    BY DEF ElementsConserved, Conserved
  <2> HIDE DEF a, b, f, g, h
  <2>9. Conserved(g, out)
    <3>1. g[a] = SubSeq(f[a], n + 1, Len(f[a]))  BY <2>3, <2>6 DEF rest
    <3>2. g[b] = f[b] \o SubSeq(f[a], 1, n)  BY <2>3, <2>6 DEF now, taken
    <3>3. n \in 0..Len(f[a])  BY <2>3, <1>5
    <3>4. f \in [Places -> Seq(Elems)] /\ g \in [Places -> Seq(Elems)]  BY <2>1, <2>6
    <3>5. \A p \in Places \ {a, b} : g[p] = f[p]  BY <2>6
    <3>6. QED  BY <3>1, <3>2, <3>3, <3>4, <3>5, <2>2, <2>4, Moves, Zenon
  <2>10. CASE call'[t] = None /\ out' = out \cup ToSet(now)
    <3>1. h[b] = <<>>  BY <2>7, <2>10
    <3>2. Conserved(h, out \cup ToSet(g[b]))
      BY <2>1, <2>2, <2>5, <2>6, <2>9, <3>1, Returns
    <3>3. QED  BY <3>2, <2>6, <2>8, <2>10
  <2>11. CASE call'[t] \in Call /\ out' = out /\ call'[t].got = now
    <3>1. h[b] = g[b]  BY <2>6, <2>7, <2>11, Sizes
    <3>2. \A p \in Places : h[p] = g[p]  BY <3>1, <2>5
    <3>3. h = g  BY <3>2, <2>1, <2>6
    <3>4. QED  BY <3>3, <2>8, <2>9, <2>11
  <2>12. QED  BY <2>10, <2>11, <1>2 DEF now, taken, s
<1>15. QED  BY <1>11, <1>12, <1>13, <1>14 DEF QueueInv

-----------------------------------------------------------------------------
(* The theorems.                                                           *)

(* Puts, dequeues of any number of threads, and their ends keep the        *)
(* invariant.                                                              *)
THEOREM QueueInvariant == Spec => []QueueInv
<1>1. QueueInv /\ [Next]_vars => QueueInv'
  <2> SUFFICES ASSUME QueueInv, [Next]_vars PROVE QueueInv'
    OBVIOUS
  <2>1. ASSUME NEW t \in Threads, Begin(t) PROVE QueueInv'
    BY <2>1, BeginHolds
  <2>2. ASSUME NEW t \in Threads, Try(t) PROVE QueueInv'
    BY <2>2, TryHolds
  <2>3. ASSUME NEW t \in Threads, NEW e \in Elems, Put(t, e) PROVE QueueInv'
    BY <2>3, PutHolds
  <2>4. CASE UNCHANGED vars
    <3>1. TypeOK' /\ Placed' /\ RoomLeft'
      BY <2>4 DEF vars, QueueInv, TypeOK, Placed, RoomLeft, Asked, Consumers
    <3>2. Contents' = Contents  BY <2>4 DEF vars, Contents, Got
    <3>3. ElementsConserved'
      BY <2>4, <3>2 DEF vars, QueueInv, ElementsConserved, Conserved
    <3>4. QED  BY <3>1, <3>3 DEF QueueInv
  <2>5. QED  BY <2>1, <2>2, <2>3, <2>4 DEF Next
<1>2. QED  BY InitHolds, <1>1, PTL DEF Spec

(* Tokens name producers and counters wrap inside their range.             *)
THEOREM QueueTyped == Spec => []TypeOK
<1>1. QueueInv => TypeOK  BY DEF QueueInv
<1>2. QED  BY QueueInvariant, <1>1, PTL

(* kv_mempool_get, kv_mempool_put, kv_app_send and msg_poller: however     *)
(* many threads and producers there are, every element of a pool and every *)
(* message is in one place, once.                                          *)
THEOREM NothingLostOrDoubled == Spec => []ElementsConserved
<1>1. QueueInv => ElementsConserved  BY DEF QueueInv
<1>2. QED  BY QueueInvariant, <1>1, PTL

(* A dequeue that goes from producer to producer stays inside the buffer   *)
(* it was given.                                                           *)
THEOREM BufferSuffices == Spec => []BatchFits
<1>1. QueueInv => BatchFits
  <2> SUFFICES ASSUME QueueInv, NEW t \in Threads PROVE Len(Got(t)) <= Asked
    BY DEF BatchFits
  <2>1. Asked \in Nat  BY Sizes DEF Asked
  <2>2. CASE call[t] = None
    <3>1. Len(Got(t)) = 0  BY <2>2, EmptySeq DEF Got
    <3>2. QED  BY <3>1, <2>1
  <2>3. CASE call[t] # None
    <3>1. call[t] \in Call  BY <2>3 DEF QueueInv, TypeOK
    <3>2. call[t].max \in Nat /\ Len(call[t].got) \in Nat
      BY <3>1, LenProperties DEF Call
    <3>3. call[t].max + Len(call[t].got) = Asked  BY <2>3 DEF QueueInv, RoomLeft
    <3>4. QED  BY <2>1, <2>3, <3>2, <3>3 DEF Got
  <2>4. QED  BY <2>2, <2>3
<1>2. QED  BY QueueInvariant, <1>1, PTL
=============================================================================
