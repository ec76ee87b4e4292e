--------------------------- MODULE ProducerProofs ---------------------------
(***************************************************************************)
(* A sub-queue of either kind, for any number of consumers and all sizes.  *)
(* The counters by which consumers claim items never drift apart, nothing  *)
(* is taken that was not put, and nothing is taken twice.  The consumers   *)
(* of an explicit producer find the blocks of their items, and empty each  *)
(* place once, while the producer extends the ring and its index.          *)
(***************************************************************************)
EXTENDS Producer, FiniteSetTheorems, TLAPS

-----------------------------------------------------------------------------
(* Sums over the consumers, as the number of pairs of a consumer and one   *)
(* of its items.                                                           *)

Items(f) == UNION {{c} \X (1..f[c]) : c \in Consumers}
Total(f) == Cardinality(Items(f))

LEMMA ItemsAre ==
  ASSUME NEW f, NEW x
  PROVE  x \in Items(f) <=> \E c \in Consumers : x \in {c} \X (1..f[c])
BY DEF Items

LEMMA PartCount ==
  ASSUME NEW c, NEW n \in Nat
  PROVE  IsFiniteSet({c} \X (1..n)) /\ Cardinality({c} \X (1..n)) = n
<1>1. IsFiniteSet({c}) /\ Cardinality({c}) = 1
  BY FS_Singleton
<1>2. IsFiniteSet(1..n) /\ Cardinality(1..n) = n
  BY FS_Interval
<1>3. /\ IsFiniteSet({c} \X (1..n))
      /\ Cardinality({c} \X (1..n)) = Cardinality({c}) * Cardinality(1..n)
  BY <1>1, <1>2, FS_Product
<1> QED
  BY <1>1, <1>2, <1>3

LEMMA ItemsFinite ==
  ASSUME NEW f \in [Consumers -> Nat]
  PROVE  IsFiniteSet(Items(f)) /\ Total(f) \in Nat
<1> DEFINE parts == {{c} \X (1..f[c]) : c \in Consumers}
           g == [c \in Consumers |-> {c} \X (1..f[c])]
<1>1. g \in Surjection(Consumers, parts)
  BY DEF Surjection
<1>2. IsFiniteSet(Consumers)
  BY SizeAssumption
<1> HIDE DEF g
<1>3. IsFiniteSet(parts)
  BY <1>1, <1>2, FS_Surjection
<1>4. ASSUME NEW p \in parts PROVE IsFiniteSet(p)
  <2>1. PICK c \in Consumers : p = {c} \X (1..f[c])
    OBVIOUS
  <2>2. f[c] \in Nat
    OBVIOUS
  <2> QED
    BY <2>1, <2>2, PartCount
<1> HIDE DEF parts
<1>5. IsFiniteSet(UNION parts)
  BY <1>3, <1>4, FS_UNION
<1> QED
  BY <1>5, FS_CardinalityType DEF parts, Items, Total

(* One consumer's number changes.                                          *)
LEMMA TotalChange ==
  ASSUME NEW f \in [Consumers -> Nat], NEW g \in [Consumers -> Nat], NEW c \in Consumers,
         \A d \in Consumers \ {c} : g[d] = f[d]
  PROVE  Total(g) = Total(f) - f[c] + g[c]
<1> DEFINE R == Items(f) \ ({c} \X (1..f[c]))
<1>1. ASSUME NEW x PROVE x \in Items(g) <=> x \in R \/ x \in {c} \X (1..g[c])
  <2>1. ASSUME x \in R PROVE x \in Items(g)
    <3>1. PICK d \in Consumers : x \in {d} \X (1..f[d])
      BY <2>1, ItemsAre
    <3>2. d # c
      BY <2>1, <3>1
    <3> QED
      BY <3>1, <3>2, ItemsAre
  <2>2. ASSUME x \in Items(g), x \notin {c} \X (1..g[c]) PROVE x \in R
    <3>1. PICK d \in Consumers : x \in {d} \X (1..g[d])
      BY <2>2, ItemsAre
    <3>2. d # c
      BY <2>2, <3>1
    <3> QED
      BY <3>1, <3>2, ItemsAre
  <2> QED
    BY <2>1, <2>2, ItemsAre
<1>2. ASSUME NEW x PROVE x \in Items(f) <=> x \in R \/ x \in {c} \X (1..f[c])
  BY ItemsAre
<1>3. R \cap ({c} \X (1..g[c])) = {} /\ R \cap ({c} \X (1..f[c])) = {}
  <2>1. ASSUME NEW x \in R, x \in {c} \X (1..g[c]) PROVE FALSE
    <3>1. PICK d \in Consumers : x \in {d} \X (1..f[d])
      BY ItemsAre
    <3>2. d = c
      BY <2>1, <3>1
    <3> QED
      BY <3>1, <3>2
  <2> QED
    BY <2>1
<1>4. IsFiniteSet(Items(f)) /\ Total(f) \in Nat /\ Total(g) \in Nat
  BY ItemsFinite
<1>5. IsFiniteSet(R) /\ Cardinality(R) \in Nat
  BY <1>4, FS_Difference, FS_CardinalityType
<1>6. f[c] \in Nat /\ g[c] \in Nat
  OBVIOUS
<1>7. Items(g) = R \cup ({c} \X (1..g[c])) /\ Items(f) = R \cup ({c} \X (1..f[c]))
  BY <1>1, <1>2
<1> HIDE DEF R
<1>8. Total(g) = Cardinality(R) + g[c]
  <2>1. IsFiniteSet({c} \X (1..g[c])) /\ Cardinality({c} \X (1..g[c])) = g[c]
    BY <1>6, PartCount
  <2>2. Cardinality(R \cup ({c} \X (1..g[c]))) = Cardinality(R) + g[c] - Cardinality({})
    BY <1>3, <1>5, <2>1, FS_Union
  <2> QED
    BY <1>5, <1>6, <1>7, <2>2, FS_EmptySet DEF Total
<1>9. Total(f) = Cardinality(R) + f[c]
  <2>1. IsFiniteSet({c} \X (1..f[c])) /\ Cardinality({c} \X (1..f[c])) = f[c]
    BY <1>6, PartCount
  <2>2. Cardinality(R \cup ({c} \X (1..f[c]))) = Cardinality(R) + f[c] - Cardinality({})
    BY <1>3, <1>5, <2>1, FS_Union
  <2> QED
    BY <1>5, <1>6, <1>7, <2>2, FS_EmptySet DEF Total
<1> QED
  BY <1>5, <1>6, <1>8, <1>9

LEMMA TotalMonotone ==
  ASSUME NEW f \in [Consumers -> Nat], NEW g \in [Consumers -> Nat],
         \A d \in Consumers : g[d] <= f[d]
  PROVE  Total(g) <= Total(f)
<1>1. ASSUME NEW x \in Items(g) PROVE x \in Items(f)
  <2>1. PICK d \in Consumers : x \in {d} \X (1..g[d])
    BY ItemsAre
  <2>2. 1..g[d] \subseteq 1..f[d]
    OBVIOUS
  <2> QED
    BY <2>1, <2>2, ItemsAre
<1>2. Items(g) \in SUBSET Items(f)
  BY <1>1
<1> QED
  BY <1>2, ItemsFinite, FS_Subset DEF Total

LEMMA TotalOne ==
  ASSUME NEW c \in Consumers, NEW n \in Nat
  PROVE  Total([d \in Consumers |-> IF d = c THEN n ELSE 0]) = n
<1> DEFINE f == [d \in Consumers |-> IF d = c THEN n ELSE 0]
<1>1. ASSUME NEW x PROVE x \in Items(f) <=> x \in {c} \X (1..n)
  <2>1. \A d \in Consumers : d # c => 1..f[d] = {}
    OBVIOUS
  <2>2. f[c] = n
    OBVIOUS
  <2> HIDE DEF f
  <2> QED
    BY <2>1, <2>2, ItemsAre
<1>2. Items(f) = {c} \X (1..n)
  BY <1>1
<1> QED
  BY <1>2, PartCount DEF Total

(* Two sums over different consumers.                                      *)
LEMMA TotalTwo ==
  ASSUME NEW f \in [Consumers -> Nat], NEW g \in [Consumers -> Nat],
         NEW h \in [Consumers -> Nat],
         \A d \in Consumers : f[d] = 0 \/ g[d] = 0,
         \A d \in Consumers : f[d] <= h[d] /\ g[d] <= h[d]
  PROVE  Total(f) + Total(g) <= Total(h)
<1>1. Items(f) \cap Items(g) = {}
  <2>1. ASSUME NEW x \in Items(f), x \in Items(g) PROVE FALSE
    <3>1. PICK c \in Consumers : x \in {c} \X (1..f[c])
      BY ItemsAre
    <3>2. PICK d \in Consumers : x \in {d} \X (1..g[d])
      BY <2>1, ItemsAre
    <3>3. c = d
      BY <3>1, <3>2
    <3>4. f[c] # 0 /\ g[d] # 0
      BY <3>1, <3>2
    <3> QED
      BY <3>3, <3>4
  <2> QED
    BY <2>1
<1>2. ASSUME NEW x \in Items(f) \cup Items(g) PROVE x \in Items(h)
  <2>1. \A d \in Consumers : 1..f[d] \subseteq 1..h[d] /\ 1..g[d] \subseteq 1..h[d]
    OBVIOUS
  <2> QED
    BY <1>2, <2>1, ItemsAre
<1>3. /\ IsFiniteSet(Items(f)) /\ IsFiniteSet(Items(g)) /\ IsFiniteSet(Items(h))
      /\ Total(f) \in Nat /\ Total(g) \in Nat /\ Total(h) \in Nat
  BY ItemsFinite
<1>4. Cardinality(Items(f) \cup Items(g)) = Total(f) + Total(g) - Cardinality({})
  BY <1>1, <1>3, FS_Union DEF Total
<1>5. Items(f) \cup Items(g) \in SUBSET Items(h)
  BY <1>2
<1>6. Cardinality(Items(f) \cup Items(g)) <= Total(h)
  BY <1>3, <1>5, FS_Subset DEF Total
<1> QED
  BY <1>3, <1>4, <1>6, FS_EmptySet

-----------------------------------------------------------------------------
(* The inductive invariant.                                                *)

Claiming == {"tail", "giveback", "head"}

(* What a consumer is sure of but has not taken yet.                       *)
Sure(c) == IF cons[c].pc \in {"giveback", "head"} THEN cons[c].count ELSE 0

SureOf    == [c \in Consumers |-> Sure(c)]
ClaimedOf == [c \in Consumers |-> Claimed(c)]

(* Items that nobody else can get any more.                                *)
Decided == headIndex + Total(SureOf)

(* The undecided claims that were made before that of consumer c.          *)
Earlier(c) == [d \in Consumers |->
  IF At(d, "tail") /\ cons[d].my < cons[c].my THEN cons[d].want ELSE 0]

Locals(c) ==
  /\ At(c, "over") => cons[c].max \in Nat \ {0} /\ cons[c].tail \in Nat
  /\ At(c, "desired") => /\ cons[c].max \in Nat \ {0} /\ cons[c].tail \in Nat
                         /\ cons[c].over \in 0..dequeueOvercommit
  /\ At(c, "optimistic") => /\ cons[c].want \in Nat \ {0}
                            /\ cons[c].over \in 0..dequeueOvercommit
  /\ At(c, "tail") => /\ cons[c].want \in Nat \ {0}
                      /\ cons[c].over \in 0..dequeueOvercommit
                      /\ cons[c].my \in Nat
                      /\ cons[c].my + cons[c].want <= dequeueOptimisticCount
  /\ At(c, "giveback") => cons[c].want \in Nat \ {0} /\ cons[c].count \in 0..(cons[c].want - 1)
  /\ At(c, "head") => cons[c].count \in Nat \ {0}

CountersTyped ==
  /\ tailIndex \in Nat /\ headIndex \in Nat
  /\ dequeueOptimisticCount \in Nat /\ dequeueOvercommit \in Nat
  /\ DOMAIN cons = Consumers
  /\ \A c \in Consumers : Locals(c)

(* Every claim has a place of its own in the order of claims.              *)
ClaimsOrdered ==
  \A c, d \in Consumers :
    At(c, "tail") /\ At(d, "tail") /\ c # d => cons[c].my # cons[d].my

Agreed == dequeueOptimisticCount - dequeueOvercommit = headIndex + Total(ClaimedOf)

DecidedThere == Decided <= tailIndex

(* The place of an undecided claim is far enough from the head for the     *)
(* decided claims and those made before it, or there are items for all of  *)
(* these and for it as well.                                               *)
ClaimFits(c) ==
  \/ Decided + Total(Earlier(c)) <= cons[c].my - cons[c].over
  \/ Decided + Total(Earlier(c)) + cons[c].want <= tailIndex

ClaimsFit == \A c \in Consumers : At(c, "tail") => ClaimFits(c)

CountInv == CountersTyped /\ ClaimsOrdered /\ Agreed /\ DecidedThere /\ ClaimsFit

-----------------------------------------------------------------------------
(* What the steps of a consumer change.                                    *)

Only(c) == DOMAIN cons' = Consumers /\ \A d \in Consumers \ {c} : cons'[d] = cons[d]

LEMMA Went ==
  ASSUME NEW c \in Consumers, NEW pc, NEW locals, DOMAIN cons = Consumers,
         Goto(c, pc, locals)
  PROVE  /\ Only(c)
         /\ cons'[c].pc = pc
         /\ \A f \in DOMAIN Idle \ {"pc"} :
              cons'[c][f] = IF f \in DOMAIN locals THEN locals[f] ELSE cons[c][f]
BY DEF Goto, Only, Idle

LEMMA Left ==
  ASSUME NEW c \in Consumers, DOMAIN cons = Consumers, Leave(c)
  PROVE  Only(c) /\ cons'[c].pc = "idle"
BY DEF Leave, Only, Idle

LEMMA Fields ==
  DOMAIN Idle = {"pc", "max", "tail", "over", "want", "my", "count", "first", "ver",
                 "front", "slot", "block", "pos", "got"}
BY DEF Idle

LEMMA MinOfTwo ==
  ASSUME NEW a \in Int, NEW b \in Int
  PROVE  Min({a, b}) = IF a <= b THEN a ELSE b
BY DEF Min

LEMMA MaxOfTwo ==
  ASSUME NEW a \in Int, NEW b \in Int
  PROVE  Max({a, b}) = IF a >= b THEN a ELSE b
BY DEF Max

SumsTyped ==
  /\ SureOf \in [Consumers -> Nat] /\ ClaimedOf \in [Consumers -> Nat]
  /\ \A c \in Consumers : Earlier(c) \in [Consumers -> Nat]

LEMMA SumsAreTyped == CountersTyped => SumsTyped
<1> SUFFICES ASSUME CountersTyped PROVE SumsTyped
  OBVIOUS
<1>1. ASSUME NEW c \in Consumers PROVE Sure(c) \in Nat /\ Claimed(c) \in Nat
  BY DEF CountersTyped, Locals, Sure, Claimed, At
<1>2. ASSUME NEW c \in Consumers PROVE Earlier(c) \in [Consumers -> Nat]
  BY DEF CountersTyped, Locals, Earlier, At
<1> QED
  BY <1>1, <1>2 DEF SumsTyped, SureOf, ClaimedOf

LEMMA SumsStayTyped == CountersTyped' => SumsTyped'
BY SumsAreTyped, PTL

(* A step of a consumer that has made no claim and makes none.             *)
LEMMA NoClaim ==
  ASSUME CountInv, NEW c \in Consumers, Only(c),
         UNCHANGED counters, Locals(c)',
         cons[c].pc \notin Claiming, cons'[c].pc \notin Claiming
  PROVE  CountInv'
<1>1. SureOf' = SureOf /\ ClaimedOf' = ClaimedOf
  BY DEF SureOf, ClaimedOf, Sure, Claimed, At, Only, Claiming
<1>2. Decided' = Decided
  BY <1>1 DEF Decided, counters
<1>3. CountersTyped'
  <2>1. ASSUME NEW d \in Consumers PROVE Locals(d)'
    BY DEF CountInv, CountersTyped, Locals, At, Only, counters
  <2> QED
    BY <2>1 DEF CountInv, CountersTyped, counters, Only
<1>4. ClaimsOrdered'
  BY DEF CountInv, ClaimsOrdered, At, Only, Claiming
<1>5. Agreed' /\ DecidedThere'
  BY <1>1, <1>2 DEF CountInv, Agreed, DecidedThere, counters
<1>6. ClaimsFit'
  <2> SUFFICES ASSUME NEW d \in Consumers, At(d, "tail")' PROVE ClaimFits(d)'
    BY DEF ClaimsFit
  <2>1. d # c /\ cons'[d] = cons[d] /\ At(d, "tail")
    BY DEF Only, At, Claiming
  <2>2. Earlier(d)' = Earlier(d)
    BY <2>1 DEF Earlier, At, Only, Claiming
  <2>3. ClaimFits(d)
    BY <2>1 DEF CountInv, ClaimsFit
  <2> QED
    BY <1>2, <2>1, <2>2, <2>3 DEF ClaimFits, counters
<1> QED
  BY <1>3, <1>4, <1>5, <1>6 DEF CountInv

-----------------------------------------------------------------------------
(* The steps that are about counters keep it.                              *)

LEMMA KeptByOthers ==
  ASSUME CountInv, UNCHANGED counters, UNCHANGED cons
  PROVE  CountInv'
<1>1. SureOf' = SureOf /\ ClaimedOf' = ClaimedOf /\ Decided' = Decided
  BY DEF SureOf, ClaimedOf, Sure, Claimed, At, Decided, counters
<1>2. CountersTyped' /\ ClaimsOrdered'
  BY DEF CountInv, CountersTyped, ClaimsOrdered, Locals, At, counters
<1>3. ClaimsFit'
  BY <1>1 DEF CountInv, ClaimsFit, ClaimFits, Earlier, At, counters
<1> QED
  BY <1>1, <1>2, <1>3 DEF CountInv, Agreed, DecidedThere, counters

LEMMA KeptByStoreTail ==
  ASSUME CountInv, StoreTail
  PROVE  CountInv'
<1>1. SureOf' = SureOf /\ ClaimedOf' = ClaimedOf /\ Decided' = Decided
  BY DEF StoreTail, SureOf, ClaimedOf, Sure, Claimed, At, Decided
<1>2. CountersTyped' /\ ClaimsOrdered'
  BY DEF CountInv, CountersTyped, ClaimsOrdered, Locals, At, StoreTail
<1>3. SureOf \in [Consumers -> Nat] /\ \A d \in Consumers : Earlier(d) \in [Consumers -> Nat]
  BY SumsAreTyped DEF CountInv, SumsTyped
<1>4. Decided \in Int
  BY <1>3, ItemsFinite DEF CountInv, CountersTyped, Decided
<1>5. DecidedThere'
  BY <1>1, <1>4 DEF CountInv, CountersTyped, DecidedThere, StoreTail
<1>6. ClaimsFit'
  <2> SUFFICES ASSUME NEW d \in Consumers, At(d, "tail")' PROVE ClaimFits(d)'
    BY DEF ClaimsFit
  <2>1. At(d, "tail") /\ ClaimFits(d) /\ Earlier(d)' = Earlier(d)
    BY DEF CountInv, ClaimsFit, Earlier, At, StoreTail
  <2>2. Total(Earlier(d)) \in Nat /\ cons[d].want \in Nat
    BY <1>3, <2>1, ItemsFinite DEF CountInv, CountersTyped, Locals
  <2> QED
    BY <1>1, <1>4, <2>1, <2>2 DEF ClaimFits, StoreTail, CountInv, CountersTyped
<1> QED
  BY <1>1, <1>2, <1>5, <1>6 DEF CountInv, Agreed, StoreTail

LEMMA KeptByLoadTail ==
  ASSUME CountInv, NEW c \in Consumers, NEW max \in Maxima, LoadTail(c, max)
  PROVE  CountInv'
<1>1. DOMAIN cons = Consumers
  BY DEF CountInv, CountersTyped
<1>2. Goto(c, "over", [max |-> max, tail |-> tailIndex])
  BY DEF LoadTail
<1>3. /\ Only(c) /\ cons'[c].pc = "over"
      /\ cons'[c].max = max /\ cons'[c].tail = tailIndex
  BY <1>1, <1>2, Went, Fields
<1>4. max \in Nat \ {0}
  BY SizeAssumption
<1>5. Locals(c)'
  BY <1>3, <1>4 DEF Locals, At, CountInv, CountersTyped, LoadTail, counters
<1> QED
  BY <1>3, <1>5, NoClaim DEF LoadTail, At, Claiming

LEMMA KeptByLoadOvercommit ==
  ASSUME CountInv, NEW c \in Consumers, LoadOvercommit(c)
  PROVE  CountInv'
<1>1. DOMAIN cons = Consumers
  BY DEF CountInv, CountersTyped
<1>2. Goto(c, "desired", [over |-> dequeueOvercommit])
  BY DEF LoadOvercommit
<1>3. /\ Only(c) /\ cons'[c].pc = "desired" /\ cons'[c].over = dequeueOvercommit
      /\ cons'[c].max = cons[c].max /\ cons'[c].tail = cons[c].tail
  BY <1>1, <1>2, Went, Fields
<1>4. Locals(c)'
  BY <1>3 DEF Locals, At, CountInv, CountersTyped, LoadOvercommit, counters
<1> QED
  BY <1>3, <1>4, NoClaim DEF LoadOvercommit, At, Claiming

LEMMA KeptByLoadOptimistic ==
  ASSUME CountInv, NEW c \in Consumers, LoadOptimistic(c)
  PROVE  CountInv'
<1> DEFINE desired == cons[c].tail - (dequeueOptimisticCount - cons[c].over)
           want == Min({desired, cons[c].max})
<1>1. DOMAIN cons = Consumers
  BY DEF CountInv, CountersTyped
<1>2. UNCHANGED counters /\ At(c, "desired")
  BY DEF LoadOptimistic
<1>3. /\ cons[c].max \in Nat \ {0} /\ desired \in Int
      /\ cons[c].over \in 0..dequeueOvercommit
  BY <1>2 DEF CountInv, CountersTyped, Locals
<1>4. CASE desired > 0
  <2>1. Goto(c, "optimistic", [want |-> want, tail |-> 0, max |-> 0])
    BY <1>4 DEF LoadOptimistic
  <2>2. want \in Nat \ {0}
    BY <1>3, <1>4, MinOfTwo
  <2> HIDE DEF want
  <2>3. /\ Only(c) /\ cons'[c].pc = "optimistic"
        /\ cons'[c].want = want /\ cons'[c].over = cons[c].over
    BY <1>1, <2>1, Went, Fields
  <2>4. Locals(c)'
    BY <1>2, <1>3, <2>2, <2>3 DEF Locals, At, counters
  <2> QED
    BY <1>2, <2>3, <2>4, NoClaim DEF At, Claiming
<1>5. CASE ~(desired > 0)
  <2>1. Leave(c)
    BY <1>5 DEF LoadOptimistic
  <2>2. Only(c) /\ cons'[c].pc = "idle"
    BY <1>1, <2>1, Left
  <2>3. Locals(c)'
    BY <2>2 DEF Locals, At
  <2> QED
    BY <1>2, <2>2, <2>3, NoClaim DEF At, Claiming
<1> QED
  BY <1>4, <1>5
(* The claim goes behind all others, and what these can get at most is     *)
(* what was claimed and not given back.                                    *)
LEMMA KeptByAddOptimistic ==
  ASSUME CountInv, NEW c \in Consumers, AddOptimistic(c)
  PROVE  CountInv'
<1>1. DOMAIN cons = Consumers /\ CountersTyped
  BY DEF CountInv, CountersTyped
<1>2. Goto(c, "tail", [my |-> dequeueOptimisticCount])
  BY DEF AddOptimistic
<1>3. /\ Only(c) /\ cons'[c].pc = "tail" /\ cons'[c].my = dequeueOptimisticCount
      /\ cons'[c].want = cons[c].want /\ cons'[c].over = cons[c].over
  BY <1>1, <1>2, Went, Fields
<1>4. /\ At(c, "optimistic")
      /\ dequeueOptimisticCount' = dequeueOptimisticCount + cons[c].want
      /\ tailIndex' = tailIndex /\ headIndex' = headIndex
      /\ dequeueOvercommit' = dequeueOvercommit
  BY DEF AddOptimistic
<1>5. cons[c].want \in Nat \ {0} /\ cons[c].over \in 0..dequeueOvercommit
  BY <1>1, <1>4 DEF CountersTyped, Locals
<1>6. CountersTyped'
  <2>1. Locals(c)'
    BY <1>1, <1>3, <1>4, <1>5 DEF Locals, At, CountersTyped
  <2>2. ASSUME NEW d \in Consumers \ {c} PROVE Locals(d)'
    BY <1>1, <1>3, <1>4, <1>5 DEF Locals, At, CountersTyped, Only
  <2> QED
    BY <1>1, <1>3, <1>4, <1>5, <2>1, <2>2 DEF CountersTyped, Only
<1>7. SumsTyped /\ SumsTyped'
  BY <1>1, <1>6, SumsAreTyped, SumsStayTyped
<1>8. SureOf' = SureOf /\ Decided' = Decided
  BY <1>3, <1>4 DEF SureOf, Sure, Decided, At, Only
<1>9. Agreed'
  <2>1. PICK f : f = ClaimedOf'
    OBVIOUS
  <2>2. f \in [Consumers -> Nat] /\ ClaimedOf \in [Consumers -> Nat]
    BY <1>7, <2>1 DEF SumsTyped
  <2>3. \A d \in Consumers \ {c} : f[d] = ClaimedOf[d]
    BY <1>3, <2>1 DEF ClaimedOf, Claimed, At, Only
  <2>4. f[c] = cons[c].want /\ ClaimedOf[c] = 0
    BY <1>3, <1>4, <2>1 DEF ClaimedOf, Claimed, At
  <2>5. Total(f) = Total(ClaimedOf) + cons[c].want
    <3>1. Total(f) = Total(ClaimedOf) - ClaimedOf[c] + f[c]
      BY <2>2, <2>3, TotalChange
    <3>2. Total(ClaimedOf) \in Nat
      BY <2>2, ItemsFinite
    <3> QED
      BY <1>5, <2>4, <3>1, <3>2
  <2>6. Total(ClaimedOf)' = Total(f)
    BY <2>1
  <2>7. Total(ClaimedOf) \in Nat
    BY <2>2, ItemsFinite
  <2> QED
    BY <1>1, <1>4, <1>5, <2>5, <2>6, <2>7 DEF CountInv, CountersTyped, Agreed
<1>10. ClaimsOrdered'
  <2>1. ASSUME NEW d \in Consumers \ {c}, At(d, "tail") PROVE cons[d].my # dequeueOptimisticCount
    BY <1>1, <2>1 DEF CountersTyped, Locals
  <2> QED
    BY <1>3, <2>1 DEF CountInv, ClaimsOrdered, At, Only
<1>11. DecidedThere'
  BY <1>4, <1>8 DEF CountInv, DecidedThere
<1>12. ASSUME NEW d \in Consumers, At(d, "tail")' PROVE ClaimFits(d)'
  <2>1. CASE d = c
    <3>1. PICK g : g = Earlier(c)'
      OBVIOUS
    <3>2. /\ g \in [Consumers -> Nat] /\ SureOf \in [Consumers -> Nat]
          /\ ClaimedOf \in [Consumers -> Nat]
      BY <1>7, <3>1 DEF SumsTyped
    <3>3. \A e \in Consumers : SureOf[e] = 0 \/ g[e] = 0
      BY <1>3, <1>4, <3>1 DEF SureOf, Sure, Earlier, At, Only
    <3>4. ASSUME NEW e \in Consumers PROVE SureOf[e] <= ClaimedOf[e] /\ g[e] <= ClaimedOf[e]
      <4>1. Locals(e)
        BY <1>1 DEF CountersTyped
      <4>2. SureOf[e] = Sure(e) /\ ClaimedOf[e] = Claimed(e)
        BY DEF SureOf, ClaimedOf
      <4>3. Sure(e) <= Claimed(e)
        BY <4>1 DEF Locals, Sure, Claimed, At
      <4>4. g[e] <= Claimed(e)
        <5>1. CASE e = c
          <6>1. ~(cons'[c].my < cons'[c].my)
            BY <1>1, <1>3 DEF CountersTyped
          <6>2. g[c] = 0
            BY <3>1, <6>1 DEF Earlier
          <6>3. Claimed(c) = 0
            BY <1>4 DEF Claimed, At
          <6> QED
            BY <5>1, <6>2, <6>3
        <5>2. CASE e # c
          <6>1. cons'[e] = cons[e]
            BY <1>3, <5>2 DEF Only
          <6>2. g[e] = IF At(e, "tail") /\ cons[e].my < cons'[c].my THEN cons[e].want ELSE 0
            BY <3>1, <6>1 DEF Earlier, At
          <6> QED
            BY <4>1, <6>2 DEF Claimed, Locals, At
        <5> QED
          BY <5>1, <5>2
      <4> QED
        BY <4>2, <4>3, <4>4
    <3>5. Total(SureOf) + Total(g) <= Total(ClaimedOf)
      BY <3>2, <3>3, <3>4, TotalTwo
    <3>6. Total(SureOf) \in Nat /\ Total(g) \in Nat /\ Total(ClaimedOf) \in Nat
      BY <3>2, ItemsFinite
    <3>7. Decided + Total(g) <= dequeueOptimisticCount - cons[c].over
      BY <1>1, <1>5, <3>5, <3>6 DEF CountInv, CountersTyped, Agreed, Decided
    <3>8. Total(Earlier(c))' = Total(g)
      BY <3>1
    <3> QED
      BY <1>3, <1>8, <2>1, <3>7, <3>8 DEF ClaimFits
  <2>2. CASE d # c
    <3>1. cons'[d] = cons[d] /\ At(d, "tail")
      BY <1>3, <1>12, <2>2 DEF Only, At
    <3>2. cons[d].my < dequeueOptimisticCount /\ ClaimFits(d)
      BY <1>1, <3>1 DEF CountInv, CountersTyped, Locals, ClaimsFit
    <3>3. Earlier(d)' = Earlier(d)
      <4> SUFFICES ASSUME NEW e \in Consumers PROVE Earlier(d)'[e] = Earlier(d)[e]
        BY <1>1 DEF Earlier
      <4>1. CASE e = c
        BY <1>3, <1>4, <3>1, <3>2, <4>1, <1>1 DEF Earlier, At, CountersTyped, Locals
      <4>2. CASE e # c
        BY <1>3, <3>1, <4>2 DEF Earlier, At, Only
      <4> QED
        BY <4>1, <4>2
    <3> QED
      BY <1>4, <1>8, <3>1, <3>2, <3>3 DEF ClaimFits
  <2> QED
    BY <2>1, <2>2
<1> QED
  BY <1>6, <1>9, <1>10, <1>11, <1>12 DEF CountInv, ClaimsFit

(* What there is by now is the claim's as far as it is not an earlier      *)
(* one's; a later claim loses nothing by it.                               *)
LEMMA KeptByReloadTail ==
  ASSUME CountInv, NEW c \in Consumers, ReloadTail(c)
  PROVE  CountInv'
<1> DEFINE actual == tailIndex - (cons[c].my - cons[c].over)
           count  == Min({cons[c].want, Max({actual, 0})})
<1>1. DOMAIN cons = Consumers /\ CountersTyped
  BY DEF CountInv, CountersTyped
<1>2. At(c, "tail") /\ UNCHANGED counters
  BY DEF ReloadTail
<1>3. /\ cons[c].want \in Nat \ {0} /\ cons[c].over \in 0..dequeueOvercommit
      /\ cons[c].my \in Nat /\ tailIndex \in Nat /\ headIndex \in Nat
  BY <1>1, <1>2 DEF CountersTyped, Locals
<1>4. PICK n : n = count
  OBVIOUS
<1>5. n \in 0..cons[c].want /\ (n <= actual \/ n = 0)
  <2>1. actual \in Int
    BY <1>3
  <2>2. Max({actual, 0}) = IF actual >= 0 THEN actual ELSE 0
    BY <2>1, MaxOfTwo
  <2>3. count = IF cons[c].want <= Max({actual, 0}) THEN cons[c].want ELSE Max({actual, 0})
    BY <1>3, <2>1, <2>2, MinOfTwo
  <2> QED
    BY <1>3, <1>4, <2>1, <2>2, <2>3
<1>6. Goto(c, IF n = cons[c].want THEN "head" ELSE "giveback", [count |-> n])
  BY <1>4 DEF ReloadTail
<1> HIDE DEF count
<1>7. /\ Only(c) /\ cons'[c].pc = IF n = cons[c].want THEN "head" ELSE "giveback"
      /\ cons'[c].count = n /\ cons'[c].want = cons[c].want
  BY <1>1, <1>6, Went, Fields
<1>8. CountersTyped'
  <2>1. Locals(c)'
    BY <1>3, <1>5, <1>7 DEF Locals, At
  <2>2. ASSUME NEW d \in Consumers \ {c} PROVE Locals(d)'
    BY <1>1, <1>2, <1>7 DEF Locals, At, CountersTyped, Only, counters
  <2> QED
    BY <1>1, <1>2, <1>7, <2>1, <2>2 DEF CountersTyped, Only, counters
<1>9. SumsTyped /\ SumsTyped'
  BY <1>1, <1>8, SumsAreTyped, SumsStayTyped
<1>10. ClaimedOf' = ClaimedOf
  <2> SUFFICES ASSUME NEW d \in Consumers PROVE Claimed(d)' = Claimed(d)
    BY DEF ClaimedOf
  <2>1. CASE d = c
    BY <1>2, <1>7, <2>1 DEF Claimed, At
  <2>2. CASE d # c
    BY <1>7, <2>2 DEF Claimed, At, Only
  <2> QED
    BY <2>1, <2>2
<1>11. Decided \in Int /\ Decided' = Decided + n
  <2>1. PICK f : f = SureOf'
    OBVIOUS
  <2>2. f \in [Consumers -> Nat] /\ SureOf \in [Consumers -> Nat]
    BY <1>9, <2>1 DEF SumsTyped
  <2>3. \A d \in Consumers \ {c} : f[d] = SureOf[d]
    BY <1>7, <2>1 DEF SureOf, Sure, Only
  <2>4. f[c] = n /\ SureOf[c] = 0
    BY <1>2, <1>7, <2>1 DEF SureOf, Sure, At
  <2>5. Total(f) = Total(SureOf) - SureOf[c] + f[c]
    BY <2>2, <2>3, TotalChange
  <2>6. Total(SureOf) \in Nat /\ Total(f) \in Nat /\ Total(SureOf)' = Total(f)
    BY <2>1, <2>2, ItemsFinite
  <2> QED
    BY <1>2, <1>3, <1>5, <2>4, <2>5, <2>6 DEF Decided, counters
<1>12. Total(Earlier(c)) \in Nat
  BY <1>9, ItemsFinite DEF SumsTyped
<1>13. ClaimFits(c)
  BY <1>2 DEF CountInv, ClaimsFit
<1>14. Decided <= tailIndex
  BY DEF CountInv, DecidedThere
<1>15. n = 0 \/ Decided + Total(Earlier(c)) + n <= tailIndex
  BY <1>3, <1>5, <1>11, <1>12, <1>13 DEF ClaimFits
<1>16. DecidedThere'
  BY <1>2, <1>3, <1>5, <1>11, <1>12, <1>14, <1>15 DEF DecidedThere, counters
<1>17. ClaimsOrdered'
  BY <1>7 DEF CountInv, ClaimsOrdered, At, Only
<1>18. ASSUME NEW d \in Consumers, At(d, "tail")' PROVE ClaimFits(d)'
  <2>1. d # c
    BY <1>7, <1>18 DEF At
  <2>2. cons'[d] = cons[d] /\ At(d, "tail")
    BY <1>7, <1>18, <2>1 DEF Only, At
  <2>3. /\ cons[d].my \in Nat /\ cons[d].want \in Nat
        /\ cons[d].over \in Int /\ ClaimFits(d)
    BY <1>1, <2>2 DEF CountInv, CountersTyped, Locals, ClaimsFit
  <2>4. cons[d].my # cons[c].my
    BY <1>2, <2>1, <2>2 DEF CountInv, ClaimsOrdered
  <2>5. PICK g : g = Earlier(d)'
    OBVIOUS
  <2>6. /\ g \in [Consumers -> Nat] /\ Earlier(d) \in [Consumers -> Nat]
        /\ Earlier(c) \in [Consumers -> Nat]
    BY <1>9, <2>5 DEF SumsTyped
  <2>7. Total(g) \in Nat /\ Total(Earlier(d)) \in Nat /\ Total(Earlier(d))' = Total(g)
    BY <2>5, <2>6, ItemsFinite
  <2>8. \A e \in Consumers \ {c} : g[e] = Earlier(d)[e]
    BY <1>7, <2>2, <2>5 DEF Earlier, At, Only
  <2>9. g[c] = 0
    BY <1>7, <2>5 DEF Earlier, At
  <2>10. Total(g) = Total(Earlier(d)) - Earlier(d)[c] + g[c]
    BY <2>6, <2>8, TotalChange
  <2>11. CASE cons[c].my < cons[d].my
    <3>1. Earlier(d)[c] = cons[c].want
      BY <1>2, <2>11 DEF Earlier
    <3>2. Total(g) = Total(Earlier(d)) - cons[c].want
      BY <1>3, <2>7, <2>9, <2>10, <3>1
    <3>3. \/ Decided + n + Total(g) <= cons[d].my - cons[d].over
          \/ Decided + n + Total(g) + cons[d].want <= tailIndex
      BY <1>3, <1>5, <1>11, <2>3, <2>7, <3>2 DEF ClaimFits
    <3> QED
      BY <1>2, <1>11, <2>2, <2>7, <3>3 DEF ClaimFits, counters
  <2>12. CASE cons[d].my < cons[c].my
    <3>1. ~(cons[c].my < cons[d].my)
      BY <1>3, <2>3, <2>12
    <3>2. Earlier(d)[c] = 0 /\ Total(g) = Total(Earlier(d))
      <4>1. Earlier(d)[c] = 0
        BY <3>1 DEF Earlier
      <4> QED
        BY <2>7, <2>9, <2>10, <4>1
    <3>3. n = 0 \/ Decided + n + Total(g) + cons[d].want <= tailIndex
      <4>1. PICK h : h = [e \in Consumers |-> IF e = d THEN cons[d].want ELSE 0]
        OBVIOUS
      <4>2. h \in [Consumers -> Nat]
        BY <2>3, <4>1
      <4>3. \A e \in Consumers : Earlier(d)[e] = 0 \/ h[e] = 0
        BY <2>3, <4>1 DEF Earlier
      <4>4. ASSUME NEW e \in Consumers
            PROVE  Earlier(d)[e] <= Earlier(c)[e] /\ h[e] <= Earlier(c)[e]
        <5>1. CASE At(e, "tail")
          <6>1. cons[e].my \in Nat /\ cons[e].want \in Nat
            BY <1>1, <5>1 DEF CountersTyped, Locals
          <6>2. Earlier(d)[e] = IF cons[e].my < cons[d].my THEN cons[e].want ELSE 0
            BY <5>1 DEF Earlier
          <6>3. Earlier(c)[e] = IF cons[e].my < cons[c].my THEN cons[e].want ELSE 0
            BY <5>1 DEF Earlier
          <6>4. h[e] = IF e = d THEN cons[d].want ELSE 0
            BY <4>1
          <6>5. Earlier(d)[e] <= Earlier(c)[e]
            BY <1>3, <2>3, <2>12, <6>1, <6>2, <6>3
          <6>6. h[e] <= Earlier(c)[e]
            BY <2>12, <6>1, <6>3, <6>4
          <6> QED
            BY <6>5, <6>6
        <5>2. CASE ~At(e, "tail")
          BY <2>2, <4>1, <5>2 DEF Earlier
        <5> QED
          BY <5>1, <5>2
      <4>5. Total(Earlier(d)) + Total(h) <= Total(Earlier(c))
        BY <2>6, <4>2, <4>3, <4>4, TotalTwo
      <4>6. Total(h) = cons[d].want
        BY <2>3, <4>1, TotalOne
      <4> QED
        BY <1>3, <1>5, <1>11, <1>12, <1>15, <2>3, <2>7, <3>2, <4>5, <4>6
    <3>4. \/ Decided + n + Total(g) <= cons[d].my - cons[d].over
          \/ Decided + n + Total(g) + cons[d].want <= tailIndex
      BY <1>11, <2>3, <2>7, <3>2, <3>3 DEF ClaimFits
    <3> QED
      BY <1>2, <1>11, <2>2, <2>7, <3>4 DEF ClaimFits, counters
  <2> QED
    BY <1>3, <2>3, <2>4, <2>11, <2>12
<1>19. Agreed'
  BY <1>2, <1>10 DEF CountInv, Agreed, counters
<1> QED
  BY <1>8, <1>16, <1>17, <1>18, <1>19 DEF CountInv, ClaimsFit

(* What is given back was claimed by nobody else.                          *)
LEMMA KeptByGiveBack ==
  ASSUME CountInv, NEW c \in Consumers, GiveBack(c)
  PROVE  CountInv'
<1>1. DOMAIN cons = Consumers /\ CountersTyped
  BY DEF CountInv, CountersTyped
<1>2. /\ At(c, "giveback") /\ tailIndex' = tailIndex /\ headIndex' = headIndex
      /\ dequeueOptimisticCount' = dequeueOptimisticCount
      /\ dequeueOvercommit' = dequeueOvercommit + (cons[c].want - cons[c].count)
  BY DEF GiveBack
<1>3. cons[c].want \in Nat \ {0} /\ cons[c].count \in 0..(cons[c].want - 1)
  BY <1>1, <1>2 DEF CountersTyped, Locals
<1>4. /\ Only(c)
      /\ \/ cons[c].count = 0 /\ cons'[c].pc = "idle"
         \/ cons[c].count # 0 /\ cons'[c].pc = "head" /\ cons'[c].count = cons[c].count
  <2>1. CASE cons[c].count = 0
    BY <1>1, <2>1, Left DEF GiveBack
  <2>2. CASE cons[c].count # 0
    <3>1. Goto(c, "head", [over |-> 0])
      BY <2>2 DEF GiveBack
    <3> QED
      BY <1>1, <2>2, <3>1, Went, Fields
  <2> QED
    BY <2>1, <2>2
<1>5. dequeueOvercommit \in Nat /\ dequeueOvercommit' \in Nat
      /\ dequeueOvercommit <= dequeueOvercommit'
  BY <1>1, <1>2, <1>3 DEF CountersTyped
<1>6. CountersTyped'
  <2>1. Locals(c)'
    BY <1>3, <1>4 DEF Locals, At
  <2>2. ASSUME NEW d \in Consumers \ {c} PROVE Locals(d)'
    <3>1. Locals(d) /\ cons'[d] = cons[d]
      BY <1>1, <1>4 DEF CountersTyped, Only
    <3> QED
      BY <1>2, <1>5, <3>1 DEF Locals, At
  <2> QED
    BY <1>1, <1>2, <1>4, <1>5, <2>1, <2>2 DEF CountersTyped, Only
<1>7. SumsTyped /\ SumsTyped'
  BY <1>1, <1>6, SumsAreTyped, SumsStayTyped
<1>8. SureOf' = SureOf
  <2> SUFFICES ASSUME NEW d \in Consumers PROVE Sure(d)' = Sure(d)
    BY DEF SureOf
  <2>1. CASE d = c
    BY <1>2, <1>4, <2>1 DEF Sure, At
  <2>2. CASE d # c
    BY <1>4, <2>2 DEF Sure, Only
  <2> QED
    BY <2>1, <2>2
<1>9. Decided' = Decided
  BY <1>2, <1>8 DEF Decided
<1>10. Agreed'
  <2>1. PICK f : f = ClaimedOf'
    OBVIOUS
  <2>2. f \in [Consumers -> Nat] /\ ClaimedOf \in [Consumers -> Nat]
    BY <1>7, <2>1 DEF SumsTyped
  <2>3. \A d \in Consumers \ {c} : f[d] = ClaimedOf[d]
    BY <1>4, <2>1 DEF ClaimedOf, Claimed, At, Only
  <2>4. ClaimedOf[c] = cons[c].want
    BY <1>2 DEF ClaimedOf, Claimed, At
  <2>5. f[c] = cons[c].count
    BY <1>4, <2>1 DEF ClaimedOf, Claimed, At
  <2>6. Total(f) = Total(ClaimedOf) - ClaimedOf[c] + f[c]
    BY <2>2, <2>3, TotalChange
  <2>7. Total(ClaimedOf) \in Nat /\ Total(ClaimedOf)' = Total(f)
    BY <2>1, <2>2, ItemsFinite
  <2> QED
    BY <1>1, <1>2, <1>3, <2>4, <2>5, <2>6, <2>7 DEF CountInv, CountersTyped, Agreed
<1>11. ClaimsOrdered'
  BY <1>4 DEF CountInv, ClaimsOrdered, At, Only
<1>12. ASSUME NEW d \in Consumers, At(d, "tail")' PROVE ClaimFits(d)'
  <2>1. d # c
    BY <1>4, <1>12 DEF At
  <2>2. cons'[d] = cons[d] /\ At(d, "tail")
    BY <1>4, <1>12, <2>1 DEF Only, At
  <2>3. Earlier(d)' = Earlier(d)
    <3> SUFFICES ASSUME NEW e \in Consumers PROVE Earlier(d)'[e] = Earlier(d)[e]
      BY DEF Earlier
    <3>1. CASE e = c
      BY <1>2, <1>4, <3>1 DEF Earlier, At
    <3>2. CASE e # c
      BY <1>4, <2>2, <3>2 DEF Earlier, At, Only
    <3> QED
      BY <3>1, <3>2
  <2>4. ClaimFits(d)
    BY <2>2 DEF CountInv, ClaimsFit
  <2> QED
    BY <1>2, <1>9, <2>2, <2>3, <2>4 DEF ClaimFits
<1> QED
  BY <1>2, <1>6, <1>9, <1>10, <1>11, <1>12 DEF CountInv, ClaimsFit, DecidedThere

(* Sure items are taken.                                                   *)
LEMMA KeptByAddHead ==
  ASSUME CountInv, NEW c \in Consumers, AddHead(c)
  PROVE  CountInv'
<1>1. DOMAIN cons = Consumers /\ CountersTyped
  BY DEF CountInv, CountersTyped
<1>2. /\ At(c, "head") /\ tailIndex' = tailIndex
      /\ headIndex' = headIndex + cons[c].count
      /\ dequeueOptimisticCount' = dequeueOptimisticCount
      /\ dequeueOvercommit' = dequeueOvercommit
  BY DEF AddHead
<1>3. cons[c].count \in Nat \ {0} /\ headIndex \in Nat
  BY <1>1, <1>2 DEF CountersTyped, Locals
<1>4. Only(c) /\ cons'[c].pc = "index"
  BY <1>1, Went DEF AddHead
<1>5. CountersTyped'
  <2>1. Locals(c)'
    BY <1>4 DEF Locals, At
  <2>2. ASSUME NEW d \in Consumers \ {c} PROVE Locals(d)'
    BY <1>1, <1>2, <1>4 DEF Locals, At, CountersTyped, Only
  <2> QED
    BY <1>1, <1>2, <1>3, <1>4, <2>1, <2>2 DEF CountersTyped, Only
<1>6. SumsTyped /\ SumsTyped'
  BY <1>1, <1>5, SumsAreTyped, SumsStayTyped
<1>7. Decided' = Decided
  <2>1. PICK f : f = SureOf'
    OBVIOUS
  <2>2. f \in [Consumers -> Nat] /\ SureOf \in [Consumers -> Nat]
    BY <1>6, <2>1 DEF SumsTyped
  <2>3. \A d \in Consumers \ {c} : f[d] = SureOf[d]
    BY <1>4, <2>1 DEF SureOf, Sure, Only
  <2>4. f[c] = 0 /\ SureOf[c] = cons[c].count
    BY <1>2, <1>4, <2>1 DEF SureOf, Sure, At
  <2>5. Total(f) = Total(SureOf) - SureOf[c] + f[c]
    BY <2>2, <2>3, TotalChange
  <2>6. Total(SureOf) \in Nat /\ Total(SureOf)' = Total(f)
    BY <2>1, <2>2, ItemsFinite
  <2> QED
    BY <1>2, <1>3, <2>4, <2>5, <2>6 DEF Decided
<1>8. Agreed'
  <2>1. PICK f : f = ClaimedOf'
    OBVIOUS
  <2>2. f \in [Consumers -> Nat] /\ ClaimedOf \in [Consumers -> Nat]
    BY <1>6, <2>1 DEF SumsTyped
  <2>3. \A d \in Consumers \ {c} : f[d] = ClaimedOf[d]
    BY <1>4, <2>1 DEF ClaimedOf, Claimed, At, Only
  <2>4. f[c] = 0 /\ ClaimedOf[c] = cons[c].count
    BY <1>2, <1>4, <2>1 DEF ClaimedOf, Claimed, At
  <2>5. Total(f) = Total(ClaimedOf) - ClaimedOf[c] + f[c]
    BY <2>2, <2>3, TotalChange
  <2>6. Total(ClaimedOf) \in Nat /\ Total(ClaimedOf)' = Total(f)
    BY <2>1, <2>2, ItemsFinite
  <2> QED
    BY <1>1, <1>2, <1>3, <2>4, <2>5, <2>6 DEF CountInv, CountersTyped, Agreed
<1>9. ClaimsOrdered'
  BY <1>4 DEF CountInv, ClaimsOrdered, At, Only
<1>10. ASSUME NEW d \in Consumers, At(d, "tail")' PROVE ClaimFits(d)'
  <2>1. d # c
    BY <1>4, <1>10 DEF At
  <2>2. cons'[d] = cons[d] /\ At(d, "tail")
    BY <1>4, <1>10, <2>1 DEF Only, At
  <2>3. Earlier(d)' = Earlier(d)
    <3> SUFFICES ASSUME NEW e \in Consumers PROVE Earlier(d)'[e] = Earlier(d)[e]
      BY DEF Earlier
    <3>1. CASE e = c
      BY <1>2, <1>4, <3>1 DEF Earlier, At
    <3>2. CASE e # c
      BY <1>4, <2>2, <3>2 DEF Earlier, At, Only
    <3> QED
      BY <3>1, <3>2
  <2>4. ClaimFits(d)
    BY <2>2 DEF CountInv, ClaimsFit
  <2> QED
    BY <1>2, <1>7, <2>2, <2>3, <2>4 DEF ClaimFits
<1> QED
  BY <1>2, <1>5, <1>7, <1>8, <1>9, <1>10 DEF CountInv, ClaimsFit, DecidedThere

LEMMA KeptByClaim ==
  ASSUME CountInv, NEW c \in Consumers, Claim(c)
  PROVE  CountInv'
BY KeptByLoadTail, KeptByLoadOvercommit, KeptByLoadOptimistic, KeptByAddOptimistic,
   KeptByReloadTail, KeptByGiveBack, KeptByAddHead DEF Claim

-----------------------------------------------------------------------------
(* The other steps do not touch the counters.                              *)

Taking == {"index", "front", "base", "block", "read", "empty", "clear", "release"}

(* A consumer takes its items out of their blocks, or is done.             *)
TakeStep(c) ==
  /\ Only(c) /\ UNCHANGED counters
  /\ cons[c].pc \in Taking
  /\ cons'[c].pc \in Taking \cup {"idle"}

LEMMA KeptByTakeStep ==
  ASSUME CountInv, NEW c \in Consumers, TakeStep(c)
  PROVE  CountInv'
<1>1. /\ Only(c) /\ UNCHANGED counters /\ Locals(c)'
      /\ cons[c].pc \notin Claiming /\ cons'[c].pc \notin Claiming
  BY DEF TakeStep, Taking, Claiming, Locals, At
<1> QED
  BY <1>1, NoClaim

LEMMA GotoTakes ==
  ASSUME DOMAIN cons = Consumers, NEW c \in Consumers, NEW pc \in Taking, NEW locals,
         Goto(c, pc, locals), UNCHANGED counters, cons[c].pc \in Taking
  PROVE  TakeStep(c)
<1>1. Only(c) /\ cons'[c].pc = pc
  BY Went
<1> QED
  BY <1>1 DEF TakeStep

LEMMA LeaveTakes ==
  ASSUME DOMAIN cons = Consumers, NEW c \in Consumers,
         Leave(c), UNCHANGED counters, cons[c].pc \in Taking
  PROVE  TakeStep(c)
<1>1. Only(c) /\ cons'[c].pc = "idle"
  BY Left
<1> QED
  BY <1>1 DEF TakeStep

LEMMA ExplicitSame ==
  /\ \A c, pc, locals : E!Goto(c, pc, locals) => Goto(c, pc, locals)
  /\ \A c : E!Leave(c) => Leave(c)
  /\ \A c, pc : E!At(c, pc) => cons[c].pc = pc
  /\ UNCHANGED E!counters => UNCHANGED counters
BY DEF E!Goto, Goto, E!Leave, Leave, E!At, E!Idle, Idle, E!counters, counters

LEMMA ImplicitSame ==
  /\ \A c, pc, locals : I!Goto(c, pc, locals) => Goto(c, pc, locals)
  /\ \A c : I!Leave(c) => Leave(c)
  /\ \A c, pc : I!At(c, pc) => cons[c].pc = pc
  /\ UNCHANGED I!counters => UNCHANGED counters
BY DEF I!Goto, Goto, I!Leave, Leave, I!At, I!Idle, Idle, I!counters, counters

LEMMA ExplicitDequeue ==
  ASSUME DOMAIN cons = Consumers, NEW c \in Consumers, E!Dequeue(c)
  PROVE  Claim(c) \/ TakeStep(c)
<1>1. CASE E!Claim(c)
  BY <1>1 DEF E!Claim, Claim, E!LoadTail, LoadTail, E!LoadOvercommit, LoadOvercommit,
    E!LoadOptimistic, LoadOptimistic, E!AddOptimistic, AddOptimistic, E!ReloadTail, ReloadTail,
    E!GiveBack, GiveBack, E!AddHead, AddHead, E!At, At, E!Goto, Goto, E!Leave, Leave,
    E!Idle, Idle, E!counters, counters, E!Min, Min, E!Max, Max
<1>2. CASE E!ReadItems(c)
  <2>1. \E locals : Goto(c, "empty", locals)
    BY <1>2, ExplicitSame DEF E!ReadItems
  <2>2. UNCHANGED counters /\ cons[c].pc = "read"
    BY <1>2, ExplicitSame DEF E!ReadItems
  <2> QED
    BY <2>1, <2>2, GotoTakes DEF Taking
<1>3. CASE E!LoadIndex(c) \/ E!LoadFront(c) \/ E!LoadBase(c) \/ E!LoadBlock(c)
  <2>1. \E pc \in Taking : \E locals : Goto(c, pc, locals)
    BY <1>3, ExplicitSame DEF E!LoadIndex, E!LoadFront, E!LoadBase, E!LoadBlock, Taking
  <2>2. UNCHANGED counters /\ cons[c].pc \in Taking
    BY <1>3, ExplicitSame DEF E!LoadIndex, E!LoadFront, E!LoadBase, E!LoadBlock, Taking
  <2> QED
    BY <2>1, <2>2, GotoTakes
<1>4. CASE E!SetManyEmpty(c)
  <2>1. Leave(c) \/ \E locals : Goto(c, "block", locals)
    BY <1>4, ExplicitSame DEF E!SetManyEmpty, E!NextBlock
  <2>2. UNCHANGED counters /\ cons[c].pc = "empty"
    BY <1>4, ExplicitSame DEF E!SetManyEmpty
  <2> QED
    BY <2>1, <2>2, GotoTakes, LeaveTakes DEF Taking
<1> QED
  BY <1>1, <1>2, <1>3, <1>4 DEF E!Dequeue

LEMMA ImplicitDequeue ==
  ASSUME DOMAIN cons = Consumers, NEW c \in Consumers, I!Dequeue(c)
  PROVE  Claim(c) \/ TakeStep(c)
<1>1. CASE I!Claim(c)
  BY <1>1 DEF I!Claim, Claim, I!LoadTail, LoadTail, I!LoadOvercommit, LoadOvercommit,
    I!LoadOptimistic, LoadOptimistic, I!AddOptimistic, AddOptimistic, I!ReloadTail, ReloadTail,
    I!GiveBack, GiveBack, I!AddHead, AddHead, I!At, At, I!Goto, Goto, I!Leave, Leave,
    I!Idle, Idle, I!counters, counters, I!Min, Min, I!Max, Max
<1>2. CASE I!ReadItems(c)
  <2>1. \E locals : Goto(c, "empty", locals)
    BY <1>2, ImplicitSame DEF I!ReadItems
  <2>2. UNCHANGED counters /\ cons[c].pc = "read"
    BY <1>2, ImplicitSame DEF I!ReadItems
  <2> QED
    BY <2>1, <2>2, GotoTakes DEF Taking
<1>3. CASE I!LoadHeader(c) \/ I!LoadHeaderTail(c) \/ I!LoadKey(c) \/ I!LoadValue(c)
           \/ I!ClearEntry(c)
  <2>1. \E pc \in Taking : \E locals : Goto(c, pc, locals)
    BY <1>3, ImplicitSame
    DEF I!LoadHeader, I!LoadHeaderTail, I!LoadKey, I!LoadValue, I!ClearEntry, Taking
  <2>2. UNCHANGED counters /\ cons[c].pc \in Taking
    BY <1>3, ImplicitSame
    DEF I!LoadHeader, I!LoadHeaderTail, I!LoadKey, I!LoadValue, I!ClearEntry, Taking
  <2> QED
    BY <2>1, <2>2, GotoTakes
<1>4. CASE I!CountDequeued(c) \/ I!ReleaseBlock(c)
  <2>1. Leave(c) \/ \E pc \in Taking : \E locals : Goto(c, pc, locals)
    BY <1>4, ImplicitSame DEF I!CountDequeued, I!ReleaseBlock, I!NextBlock, Taking
  <2>2. UNCHANGED counters /\ cons[c].pc \in Taking
    BY <1>4, ImplicitSame DEF I!CountDequeued, I!ReleaseBlock, Taking
  <2> QED
    BY <2>1, <2>2, GotoTakes, LeaveTakes
<1> QED
  BY <1>1, <1>2, <1>3, <1>4 DEF I!Dequeue

(* The producer makes an item visible, or leaves the counters alone.       *)
LEMMA EnqueueCounts ==
  ASSUME Enqueue
  PROVE  StoreTail \/ (UNCHANGED counters /\ UNCHANGED cons)
<1>1. CASE isExplicit /\ E!Enqueue
  BY <1>1 DEF E!Enqueue, E!Produce, E!StoreElem, E!StoreTail, StoreTail, E!ReuseBlock,
    E!AddBlock, E!EnqueueFails, E!StoreEntry, E!StoreFront, E!counters, counters
<1>2. CASE ~isExplicit /\ I!Enqueue
  BY <1>2 DEF I!Enqueue, I!Produce, I!StoreElem, I!StoreTail, StoreTail, I!InsertKey,
    I!GrowHeader, I!PublishTail, I!Rewind, I!FreeEntry, I!StoreValue, I!Requisition,
    I!counters, counters
<1> QED
  BY <1>1, <1>2 DEF Enqueue

-----------------------------------------------------------------------------

LEMMA CountInvInit == Init => CountInv
<1> SUFFICES ASSUME Init PROVE CountInv
  OBVIOUS
<1>1. /\ tailIndex = 0 /\ headIndex = 0 /\ dequeueOptimisticCount = 0
      /\ dequeueOvercommit = 0 /\ cons = [c \in Consumers |-> Idle]
  BY DEF Init, BaseInit
<1>2. \A c \in Consumers : cons[c].pc = "idle"
  BY <1>1 DEF Idle
<1>3. CountersTyped
  BY <1>1, <1>2 DEF CountersTyped, Locals, At
<1>4. SureOf = [c \in Consumers |-> 0] /\ ClaimedOf = [c \in Consumers |-> 0]
  BY <1>2 DEF SureOf, ClaimedOf, Sure, Claimed, At
<1>5. Total([c \in Consumers |-> 0]) = 0
  <2> DEFINE f == [c \in Consumers |-> 0]
  <2>1. \A c \in Consumers : 1..f[c] = {}
    OBVIOUS
  <2> HIDE DEF f
  <2>2. Items(f) = {}
    BY <2>1 DEF Items
  <2> QED
    BY <2>2, FS_EmptySet DEF Total, f
<1>6. Agreed /\ DecidedThere
  BY <1>1, <1>4, <1>5 DEF Agreed, DecidedThere, Decided
<1>7. ClaimsOrdered /\ ClaimsFit
  BY <1>2 DEF ClaimsOrdered, ClaimsFit, At
<1> QED
  BY <1>3, <1>6, <1>7 DEF CountInv

LEMMA CountInvStep == CountInv /\ [Next]_vars => CountInv'
<1> SUFFICES ASSUME CountInv, [Next]_vars PROVE CountInv'
  OBVIOUS
<1>1. DOMAIN cons = Consumers
  BY DEF CountInv, CountersTyped
<1>2. CASE Enqueue
  BY <1>2, EnqueueCounts, KeptByStoreTail, KeptByOthers
<1>3. ASSUME NEW c \in Consumers, Dequeue(c) PROVE CountInv'
  <2>1. E!Dequeue(c) \/ I!Dequeue(c)
    BY <1>3 DEF Dequeue
  <2>2. Claim(c) \/ TakeStep(c)
    BY <1>1, <2>1, ExplicitDequeue, ImplicitDequeue
  <2> QED
    BY <2>2, KeptByClaim, KeptByTakeStep
<1>4. CASE UNCHANGED vars
  BY <1>4, KeptByOthers DEF vars, baseVars
<1> QED
  BY <1>2, <1>3, <1>4 DEF Next

(* The invariant of the counters, for any number of consumers, any sizes   *)
(* and either kind of sub-queue.                                           *)
THEOREM AlwaysCountInv == Spec => []CountInv
BY CountInvInit, CountInvStep, PTL DEF Spec

LEMMA CountInvAgrees == CountInv => CountsAgree
<1> SUFFICES ASSUME CountInv PROVE CountsAgree
  OBVIOUS
<1>1. Items(ClaimedOf) = ClaimedItems
  BY DEF Items, ClaimedItems, ClaimedOf
<1> QED
  BY <1>1 DEF CountInv, Agreed, CountsAgree, Total

(* ProducerBase::dequeue and dequeue_bulk: what was claimed                *)
(* (dequeueOptimisticCount) and not given back (dequeueOvercommit) is what *)
(* was taken (headIndex) and what consumers have claimed and not settled   *)
(* yet.  No item stays behind because the counters have drifted apart.     *)
THEOREM CountersAgree == Spec => []CountsAgree
BY AlwaysCountInv, CountInvAgrees, PTL

LEMMA CountInvBehind == CountInv => HeadBehindTail
<1> SUFFICES ASSUME CountInv PROVE HeadBehindTail
  OBVIOUS
<1>1. SureOf \in [Consumers -> Nat]
  BY SumsAreTyped DEF CountInv, SumsTyped
<1>2. Total(SureOf) \in Nat
  BY <1>1, ItemsFinite
<1> QED
  BY <1>2 DEF CountInv, CountersTyped, DecidedThere, Decided, HeadBehindTail

(* "this will never exceed tail": the head does not overtake the tail,     *)
(* whatever consumers that claimed too much do between their accesses.     *)
THEOREM NeverPastTail == Spec => []HeadBehindTail
BY AlwaysCountInv, CountInvBehind, PTL
-----------------------------------------------------------------------------
(* Quotients and remainders.                                               *)
(* x is q times m and s more.                                              *)
Splits(x, m, q, s) ==
  q \in Int /\ s \in 0..(m - 1) /\ x = m * q + s

LEMMA MultGrows ==
  ASSUME NEW m \in Nat, NEW k \in Int, k >= 1
  PROVE  m * k >= m
<1>1. PICK j \in Nat : k = 1 + j
  <2>1. k - 1 \in Nat /\ k = 1 + (k - 1)
    OBVIOUS
  <2> QED
    BY <2>1
<1>2. m * j \in Nat
  OBVIOUS
<1>3. m * k = m + m * j
  BY <1>1
<1> QED
  BY <1>2, <1>3

LEMMA DivMod ==
  ASSUME NEW a \in Int, NEW m \in Nat \ {0}
  PROVE  Splits(a, m, a \div m, a % m)
BY DEF Splits

LEMMA SplitOnce ==
  ASSUME NEW x \in Int, NEW m \in Nat \ {0}, NEW q, NEW r, NEW s, NEW t,
         Splits(x, m, q, s), Splits(x, m, r, t)
  PROVE  q = r /\ s = t
<1>1. PICK d \in Int : d = q - r
  BY DEF Splits
<1>2. m * d = t - s /\ m * (-d) = s - t
  BY <1>1 DEF Splits
<1>3. ~ (d >= 1) /\ ~ (-d >= 1)
  BY <1>2, MultGrows DEF Splits
<1>4. d = 0
  BY <1>3
<1> QED
  BY <1>1, <1>2, <1>4 DEF Splits

LEMMA SplitIs ==
  ASSUME NEW x \in Int, NEW m \in Nat \ {0}, NEW q, NEW s, Splits(x, m, q, s)
  PROVE  x % m = s /\ x \div m = q
BY DivMod, SplitOnce

LEMMA ModPlus ==
  ASSUME NEW a \in Int, NEW b \in Int, NEW c \in Int, NEW m \in Nat \ {0}, a % m = b % m
  PROVE  (a + c) % m = (b + c) % m
<1>1. /\ Splits(a, m, a \div m, a % m) /\ Splits(b, m, b \div m, b % m)
      /\ Splits(b + c, m, (b + c) \div m, (b + c) % m)
  <2>1. b + c \in Int
    OBVIOUS
  <2> QED
    BY <2>1, DivMod
<1>2. PICK i \in Int, j \in Int, k \in Int : i = a \div m /\ j = b \div m /\ k = (b + c) \div m
  BY <1>1 DEF Splits
<1>3. a + c = m * (k + i - j) + ((b + c) % m)
  BY <1>1, <1>2 DEF Splits
<1>4. Splits(a + c, m, k + i - j, (b + c) % m)
  BY <1>1, <1>2, <1>3 DEF Splits
<1> QED
  BY <1>4, SplitIs

LEMMA ModMod ==
  ASSUME NEW a \in Int, NEW m \in Nat \ {0}
  PROVE  (a % m) % m = a % m
OBVIOUS

LEMMA ModSelf ==
  ASSUME NEW a \in Int, NEW m \in Nat \ {0}
  PROVE  (a + m) % m = a % m /\ (a - m) % m = a % m
<1>1. Splits(a, m, a \div m, a % m)
  BY DivMod
<1>2. Splits(a + m, m, (a \div m) + 1, a % m) /\ Splits(a - m, m, (a \div m) - 1, a % m)
  BY <1>1 DEF Splits
<1> QED
  BY <1>2, SplitIs

LEMMA ModSmall ==
  ASSUME NEW m \in Nat \ {0}, NEW s \in 0..(m - 1)
  PROVE  s % m = s
OBVIOUS

LEMMA ModApart ==
  ASSUME NEW a \in Int, NEW b \in Int, NEW m \in Nat \ {0}, a % m = b % m, a - b < m, b - a < m
  PROVE  a = b
<1>1. Splits(a, m, a \div m, a % m) /\ Splits(b, m, b \div m, b % m)
  BY DivMod
<1>2. PICK d \in Int : d = (a \div m) - (b \div m)
  <2>1. (a \div m) - (b \div m) \in Int
    BY <1>1 DEF Splits
  <2> QED
    BY <2>1
<1>3. a - b = m * d /\ b - a = m * (-d)
  BY <1>1, <1>2 DEF Splits
<1>4. ~ (d >= 1) /\ ~ (-d >= 1)
  BY <1>3, MultGrows
<1>5. d = 0
  BY <1>4
<1> QED
  BY <1>1, <1>2, <1>5 DEF Splits

(* A congruence modulo a multiple of m.                                    *)
LEMMA ModDivides ==
  ASSUME NEW a \in Int, NEW b \in Int, NEW m \in Nat \ {0}, NEW k \in Nat \ {0}, 
         NEW z \in Nat \ {0}, z = m * k, a % z = b % z
  PROVE  a % m = b % m
<1>1. Splits(a, z, a \div z, a % z) /\ Splits(b, z, b \div z, b % z)
  BY DivMod
<1>2. PICK d \in Int : d = (a \div z) - (b \div z)
  <2>1. (a \div z) - (b \div z) \in Int
    BY <1>1 DEF Splits
  <2> QED
    BY <2>1
<1>3. a - b = z * d
  <2>1. PICK i \in Int, j \in Int : i = a \div z /\ j = b \div z
    BY <1>1 DEF Splits
  <2>2. d = i - j /\ a = z * i + (a % z) /\ b = z * j + (a % z) /\ (a % z) \in Int
    BY <1>1, <1>2, <2>1 DEF Splits
  <2> QED
    BY <2>2
<1>4. PICK e \in Int : e = k * d
  OBVIOUS
<1>5. a - b = m * e
  BY <1>3, <1>4
<1>6. Splits(b, m, b \div m, b % m)
  BY DivMod
<1>7. Splits(a, m, (b \div m) + e, b % m)
  BY <1>5, <1>6 DEF Splits
<1> QED
  BY <1>7, SplitIs

Shifts(a, b, c, m) == a % m = b % m => (a + c) % m = (b + c) % m

LEMMA ModShifts ==
  ASSUME NEW a \in Int, NEW b \in Int, NEW c \in Int, NEW m \in Nat \ {0}
  PROVE  Shifts(a, b, c, m)
BY ModPlus DEF Shifts

-----------------------------------------------------------------------------
(* Block number n has the BlockSize items from Start(n) on.                *)

Num(i)   == i \div BlockSize
Off(i)   == i % BlockSize
Start(n) == BlockSize * n

LEMMA SizeIs == BlockSize \in Nat /\ BlockSize \in Nat \ {0} /\ 1 <= BlockSize
BY SizeAssumption

LEMMA OffsetIs ==
  ASSUME NEW o
  PROVE  o \in Offsets <=> o \in Int /\ 0 <= o /\ o < BlockSize
<1>1. BlockSize \in Nat
  BY SizeIs
<1> QED
  BY <1>1 DEF Offsets

LEMMA StartIs ==
  ASSUME NEW n \in Int
  PROVE  Start(n) \in Int /\ (n \in Nat => Start(n) \in Nat)
<1>1. PICK b \in Nat : b = BlockSize
  BY SizeIs
<1>2. b * n \in Int /\ (n \in Nat => b * n \in Nat)
  OBVIOUS
<1> QED
  BY <1>1, <1>2 DEF Start

LEMMA StartNext ==
  ASSUME NEW n \in Int
  PROVE  Start(n + 1) = Start(n) + BlockSize
<1>1. PICK b \in Nat : b = BlockSize
  BY SizeIs
<1>2. b * (n + 1) = b * n + b
  OBVIOUS
<1> QED
  BY <1>1, <1>2 DEF Start

LEMMA StartOrder ==
  ASSUME NEW n \in Int, NEW m \in Int, n < m
  PROVE  Start(n) + BlockSize <= Start(m)
<1>1. PICK b \in Nat, k \in Int : b = BlockSize /\ k = m - n
  BY SizeIs
<1>2. b * k >= b
  BY <1>1, MultGrows
<1>3. m = n + k
  BY <1>1
<1>4. b * m = b * n + b * k
  BY <1>3
<1>5. PICK x \in Int, y \in Int, z \in Int : x = b * m /\ y = b * n /\ z = b * k
  OBVIOUS
<1> QED
  BY <1>1, <1>2, <1>4, <1>5 DEF Start

LEMMA NumParts ==
  ASSUME NEW i \in Int
  PROVE  /\ Num(i) \in Int /\ Off(i) \in Int /\ 0 <= Off(i) /\ Off(i) < BlockSize
         /\ i = Start(Num(i)) + Off(i) /\ Start(Num(i)) \in Int
<1>1. PICK b \in Nat \ {0} : b = BlockSize
  BY SizeIs
<1>2. Splits(i, b, i \div b, i % b)
  BY DivMod
<1>3. PICK n \in Int, o \in Int : n = i \div b /\ o = i % b
  BY <1>2 DEF Splits
<1>4. o \in 0..(b - 1) /\ i = b * n + o
  BY <1>2, <1>3 DEF Splits
<1>5. 0 <= o /\ o < b /\ b * n \in Int
  BY <1>4
<1>6. Num(i) = n /\ Off(i) = o /\ Start(n) = b * n
  BY <1>1, <1>3 DEF Num, Off, Start
<1> QED
  BY <1>1, <1>4, <1>5, <1>6

LEMMA NumIs ==
  ASSUME NEW n \in Int, NEW o \in Int, 0 <= o, o < BlockSize, NEW i \in Int, i = Start(n) + o
  PROVE  Num(i) = n /\ Off(i) = o
<1>1. PICK b \in Nat \ {0} : b = BlockSize
  BY SizeIs
<1>2. o \in 0..(b - 1) /\ i = b * n + o
  BY <1>1 DEF Start
<1>3. Splits(i, b, n, o)
  BY <1>2 DEF Splits
<1>4. i % b = o /\ i \div b = n
  BY <1>3, SplitIs
<1> QED
  BY <1>1, <1>4 DEF Num, Off

(* The same with names for the numbers.                                    *)
Parts(i, n, o, s) ==
  /\ n \in Int /\ o \in Int /\ s \in Int /\ 0 <= o /\ o < BlockSize /\ i = s + o
  /\ Num(i) = n /\ Off(i) = o /\ Start(n) = s

LEMMA HasParts ==
  ASSUME NEW i \in Int
  PROVE  \E n, o, s : Parts(i, n, o, s)
BY NumParts DEF Parts

LEMMA NumOrder ==
  ASSUME NEW i \in Int, NEW j \in Int, i <= j
  PROVE  Num(i) <= Num(j)
<1>1. PICK n, o, s : Parts(i, n, o, s)
  BY HasParts
<1>2. PICK m, p, t : Parts(j, m, p, t)
  BY HasParts
<1>3. PICK b \in Nat \ {0} : b = BlockSize
  BY SizeIs
<1>4. SUFFICES ASSUME m < n PROVE FALSE
  BY <1>1, <1>2 DEF Parts
<1>5. Start(m) + BlockSize <= Start(n)
  BY <1>1, <1>2, <1>4, StartOrder DEF Parts
<1>6. t + b <= s /\ i = s + o /\ j = t + p /\ 0 <= o /\ p < b /\ s \in Int /\ t \in Int /\ o \in Int /\ p \in Int
  BY <1>1, <1>2, <1>3, <1>5 DEF Parts
<1> QED
  BY <1>6

LEMMA StartZero == Start(0) = 0
<1>1. PICK b \in Nat : b = BlockSize
  BY SizeIs
<1> QED
  BY <1>1 DEF Start

LEMMA NumNat ==
  ASSUME NEW i \in Nat
  PROVE  Num(i) \in Nat /\ Off(i) \in Nat /\ Off(i) \in Offsets /\ i \in Int
<1>1. i \in Int
  OBVIOUS
<1>2. PICK n, o, s : Parts(i, n, o, s)
  BY <1>1, HasParts
<1>3. o \in Offsets
  BY <1>2, OffsetIs DEF Parts
<1>4. ~ n < 0
  <2>1. SUFFICES ASSUME n < 0 PROVE FALSE
    OBVIOUS
  <2>2. Start(n) + BlockSize <= Start(0)
    BY <1>2, <2>1, StartOrder DEF Parts
  <2>3. PICK b \in Nat : b = BlockSize
    BY SizeIs
  <2>4. s + b <= 0 /\ i = s + o /\ o < b /\ s \in Int /\ o \in Int
    BY <1>2, <2>2, <2>3, StartZero DEF Parts
  <2> QED
    BY <2>4
<1>5. n \in Int /\ o \in Int /\ 0 <= o
  BY <1>2 DEF Parts
<1>6. n \in Nat /\ o \in Nat
  BY <1>4, <1>5
<1> QED
  BY <1>1, <1>2, <1>3, <1>6 DEF Parts

LEMMA SameItem ==
  ASSUME NEW i \in Int, NEW j \in Int, Num(i) = Num(j), Off(i) = Off(j)
  PROVE  i = j
<1>1. PICK n, o, s : Parts(i, n, o, s)
  BY HasParts
<1>2. PICK m, p, t : Parts(j, m, p, t)
  BY HasParts
<1> QED
  BY <1>1, <1>2 DEF Parts

(* The item a block begins with.                                           *)
LEMMA BaseIs ==
  ASSUME NEW i \in Int
  PROVE  /\ BaseOf(i) = Start(Num(i)) /\ BaseOf(i) \in Int
         /\ Off(BaseOf(i)) = 0 /\ Num(BaseOf(i)) = Num(i)
         /\ BaseOf(i) <= i /\ i < BaseOf(i) + BlockSize
         /\ (i \in Nat => BaseOf(i) \in Nat)
<1>1. PICK n, o, s : Parts(i, n, o, s)
  BY HasParts
<1>2. PICK b \in Nat \ {0} : b = BlockSize
  BY SizeIs
<1>3. i - o = s /\ s <= i /\ i < s + b
  BY <1>1, <1>2 DEF Parts
<1>4. BaseOf(i) = s
  BY <1>1, <1>3 DEF BaseOf, Off, Parts
<1>5. s = Start(n) + 0 /\ 0 \in Int /\ 0 < b
  BY <1>1, <1>2 DEF Parts
<1>6. Num(s) = n /\ Off(s) = 0
  BY <1>1, <1>2, <1>5, NumIs DEF Parts
<1>7. ASSUME i \in Nat PROVE s \in Nat
  BY <1>1, <1>7, NumNat, StartIs DEF Parts
<1> QED
  BY <1>1, <1>2, <1>3, <1>4, <1>6, <1>7 DEF Parts

LEMMA SameBase ==
  ASSUME NEW a \in Int, NEW i \in Int, Off(a) = 0, Num(a) = Num(i)
  PROVE  a = BaseOf(i)
<1>1. BaseOf(i) \in Int /\ Off(BaseOf(i)) = 0 /\ Num(BaseOf(i)) = Num(i)
  BY BaseIs
<1> QED
  BY <1>1, SameItem

LEMMA NextNum ==
  ASSUME NEW i \in Int
  PROVE  /\ Off(i + 1) = 0 => Num(i + 1) = Num(i) + 1 /\ Off(i) = BlockSize - 1
         /\ Off(i + 1) # 0 => Num(i + 1) = Num(i) /\ Off(i + 1) = Off(i) + 1
<1>1. PICK n, o, s : Parts(i, n, o, s)
  BY HasParts
<1>2. PICK b \in Nat \ {0} : b = BlockSize
  BY SizeIs
<1>3. CASE o + 1 = b
  <2>1. /\ n + 1 \in Int /\ 0 \in Int /\ 0 <= 0 /\ 0 < b /\ i + 1 \in Int
        /\ i + 1 = (s + b) + 0
    BY <1>1, <1>2, <1>3 DEF Parts
  <2>2. i + 1 = Start(n + 1) + 0
    BY <1>1, <1>2, <2>1, StartNext DEF Parts
  <2>3. Num(i + 1) = n + 1 /\ Off(i + 1) = 0
    BY <1>2, <2>1, <2>2, NumIs
  <2>4. o = b - 1
    BY <1>1, <1>2, <1>3 DEF Parts
  <2> QED
    BY <1>1, <1>2, <2>3, <2>4 DEF Parts
<1>4. CASE o + 1 # b
  <2>1. /\ n \in Int /\ o + 1 \in Int /\ 0 <= o + 1 /\ o + 1 < b /\ i + 1 \in Int
        /\ i + 1 = s + (o + 1) /\ o + 1 # 0
    BY <1>1, <1>2, <1>4 DEF Parts
  <2>2. Start(n) = s
    BY <1>1 DEF Parts
  <2>3. Num(i + 1) = n /\ Off(i + 1) = o + 1
    BY <1>2, <2>1, <2>2, NumIs
  <2> QED
    BY <1>1, <2>1, <2>3 DEF Parts
<1> QED
  BY <1>3, <1>4

(* Every place of a block is the place of one item.                        *)
LEMMA ItemOf ==
  ASSUME NEW n \in Int, NEW o \in Offsets
  PROVE  /\ Start(n) + o \in Int /\ Num(Start(n) + o) = n /\ Off(Start(n) + o) = o
         /\ (n \in Nat => Start(n) + o \in Nat)
<1>1. o \in Int /\ 0 <= o /\ o < BlockSize
  BY OffsetIs
<1>2. PICK s \in Int : s = Start(n)
  BY StartIs
<1>3. s + o \in Int /\ (s \in Nat => s + o \in Nat)
  BY <1>1
<1>4. n \in Nat => s \in Nat
  BY <1>2, StartIs
<1>5. Num(s + o) = n /\ Off(s + o) = o
  BY <1>1, <1>2, <1>3, NumIs
<1> QED
  BY <1>2, <1>3, <1>4, <1>5

LEMMA DivOfBases ==
  ASSUME NEW a \in Int, NEW b \in Int, Off(a) = 0, Off(b) = 0
  PROVE  (a - b) \div BlockSize = Num(a) - Num(b)
<1>1. PICK n, o, s : Parts(a, n, o, s)
  BY HasParts
<1>2. PICK m, p, t : Parts(b, m, p, t)
  BY HasParts
<1>3. PICK z \in Nat \ {0} : z = BlockSize
  BY SizeIs
<1>4. a = z * n /\ b = z * m /\ n \in Int /\ m \in Int
  BY <1>1, <1>2, <1>3 DEF Parts, Start
<1>5. a - b = z * (n - m)
  BY <1>4
<1>6. a - b = Start(n - m) + 0 /\ n - m \in Int /\ a - b \in Int /\ 0 \in Int /\ 0 <= 0 /\ 0 < z
  BY <1>3, <1>4, <1>5 DEF Start
<1>7. Num(a - b) = n - m
  BY <1>3, <1>6, NumIs
<1> QED
  BY <1>1, <1>2, <1>7 DEF Num, Parts

-----------------------------------------------------------------------------
(* The items a consumer has taken.                                         *)

Takes(c) == cons[c].pc \in Taking

(* Those that it has not marked as dequeued; who has emptied a block has   *)
(* marked its items before the entry and the block are given back.         *)
From(c)  == IF cons[c].pc \in {"clear", "release"} THEN Until(c) ELSE cons[c].pos
Keeps(c, i) == Takes(c) /\ From(c) <= i /\ i < End(c)

(* Dequeued by whoever took it.                                            *)
Gone(i) == i < headIndex /\ \A c \in Consumers : ~ Keeps(c, i)

RangeTyped(c) ==
  /\ cons[c].first \in Nat /\ cons[c].count \in Nat \ {0}
  /\ cons[c].pos \in Nat /\ cons[c].first <= cons[c].pos /\ cons[c].pos < End(c)
  /\ End(c) <= headIndex

RangesTyped == headIndex \in Nat /\ \A c \in Consumers : Takes(c) => RangeTyped(c)

(* No two consumers have taken the same.                                   *)
RangesApart ==
  \A c, d \in Consumers :
    Takes(c) /\ Takes(d) /\ c # d => End(c) <= cons[d].first \/ End(d) <= cons[c].first

RangeInv == RangesTyped /\ RangesApart

LEMMA UntilIs ==
  ASSUME NEW c \in Consumers, RangeTyped(c)
  PROVE  /\ End(c) \in Nat /\ Until(c) \in Nat /\ cons[c].pos \in Int
         /\ cons[c].pos < Until(c) /\ Until(c) <= End(c)
         /\ Until(c) <= BaseOf(cons[c].pos) + BlockSize
         /\ Until(c) # End(c) => Until(c) = BaseOf(cons[c].pos) + BlockSize
<1>1. PICK p \in Nat, f \in Nat, n \in Nat : p = cons[c].pos /\ f = cons[c].first /\ n = cons[c].count
  BY DEF RangeTyped
<1>2. PICK e \in Nat : e = End(c) /\ p < e
  BY <1>1 DEF RangeTyped, End
<1>3. PICK b \in Nat, z \in Nat : b = BaseOf(p) /\ z = BlockSize /\ p < b + z
  BY <1>1, BaseIs, SizeIs
<1>4. Until(c) = Min({e, b + z})
  BY <1>1, <1>2, <1>3 DEF Until
<1>5. Min({e, b + z}) = IF e <= b + z THEN e ELSE b + z
  BY MinOfTwo
<1> QED
  BY <1>1, <1>2, <1>3, <1>4, <1>5

(* Up to there they are in one block, and behind it in later ones.         *)
LEMMA UntilNum ==
  ASSUME NEW c \in Consumers, RangeTyped(c)
  PROVE  /\ Until(c) # End(c) => Off(Until(c)) = 0 /\ Num(Until(c)) = Num(cons[c].pos) + 1
         /\ \A i \in Int : cons[c].pos <= i /\ i < Until(c) => Num(i) = Num(cons[c].pos)
         /\ \A i \in Int : Until(c) <= i /\ i < End(c) => Num(i) > Num(cons[c].pos)
<1>1. PICK p \in Nat, u \in Nat, e \in Nat : p = cons[c].pos /\ u = Until(c) /\ e = End(c)
  BY UntilIs DEF RangeTyped
<1>2. PICK n, o, s : Parts(p, n, o, s)
  BY <1>1, HasParts
<1>3. PICK z \in Nat \ {0} : z = BlockSize
  BY SizeIs
<1>4. BaseOf(p) = s /\ p < u /\ u <= s + z /\ (u # e => u = s + z) /\ s \in Int /\ s <= p
  BY <1>1, <1>2, <1>3, UntilIs, BaseIs DEF Parts
<1>5. n \in Int /\ Num(p) = n /\ Start(n) = s /\ Start(n + 1) = s + z
  BY <1>2, <1>3, StartNext DEF Parts
<1>6. Num(s + z) = n + 1 /\ Off(s + z) = 0
  <2>1. s + z = Start(n + 1) + 0 /\ 0 < z /\ 0 \in Int /\ s + z \in Int /\ n + 1 \in Int /\ 0 <= 0
    BY <1>4, <1>5
  <2> QED
    BY <1>3, <2>1, NumIs
<1>7. ASSUME NEW i \in Int, p <= i, i < u PROVE Num(i) = n
  <2>1. i = s + (i - s) /\ i - s \in Int /\ 0 <= i - s /\ i - s < z
    BY <1>4, <1>7
  <2> QED
    BY <1>3, <1>5, <2>1, NumIs
<1>8. ASSUME NEW i \in Int, u <= i, i < e PROVE Num(i) > n
  <2>1. s + z <= i /\ s + z \in Int
    BY <1>4, <1>8
  <2>2. Num(s + z) <= Num(i) /\ Num(i) \in Int
    BY <2>1, NumOrder, NumParts
  <2> QED
    BY <1>5, <1>6, <2>2
<1> QED
  BY <1>1, <1>4, <1>5, <1>6, <1>7, <1>8

-----------------------------------------------------------------------------
(* What a step of consumer c may do to what it has taken.                  *)

HeldSame(c) ==
  /\ cons'[c].first = cons[c].first /\ cons'[c].count = cons[c].count
  /\ cons'[c].pos = cons[c].pos

(* It takes nothing and has taken nothing.                                 *)
Aside(c) ==
  /\ Only(c) /\ UNCHANGED <<tailIndex, headIndex>>
  /\ cons[c].pc \notin Taking /\ cons'[c].pc \notin Taking

(* It takes what is behind the head.                                       *)
TakesNew(c) ==
  /\ Only(c) /\ tailIndex' = tailIndex
  /\ cons[c].pc \notin Taking /\ cons'[c].pc = "index"
  /\ cons[c].count \in Nat \ {0} /\ headIndex' = headIndex + cons[c].count
  /\ cons'[c].first = headIndex /\ cons'[c].pos = headIndex
  /\ cons'[c].count = cons[c].count

(* It keeps what it has ...                                                *)
Keeping(c) ==
  /\ Only(c) /\ UNCHANGED <<tailIndex, headIndex>>
  /\ cons[c].pc \in Taking /\ cons'[c].pc \in Taking
  /\ HeldSame(c)
  /\ cons[c].pc \in {"clear", "release"} <=> cons'[c].pc \in {"clear", "release"}

(* ... marks the items of a block and stays there ...                      *)
Marking(c) ==
  /\ Only(c) /\ UNCHANGED <<tailIndex, headIndex>>
  /\ cons[c].pc = "empty" /\ cons'[c].pc = "clear"
  /\ HeldSame(c)

(* ... or goes on to the next block, or is through with all.               *)
GoesOn(c) ==
  /\ Only(c) /\ UNCHANGED <<tailIndex, headIndex>>
  /\ cons[c].pc \in {"empty", "release"}
  /\ \/ Until(c) = End(c) /\ cons'[c].pc = "idle"
     \/ /\ Until(c) # End(c) /\ cons'[c].pc = "block"
        /\ cons'[c].first = cons[c].first /\ cons'[c].count = cons[c].count
        /\ cons'[c].pos = Until(c)

KeepsSame ==
  /\ \A d \in Consumers, i \in Int : Keeps(d, i)' <=> Keeps(d, i)
  /\ \A i \in Int : Gone(i)' <=> Gone(i)

(* The items of a block from the position on, as far as they are taken.    *)
Marks(c, i) == cons[c].pos <= i /\ i < Until(c)

KeepsLess(c) ==
  /\ \A d \in Consumers, i \in Int : Keeps(d, i)' <=> Keeps(d, i) /\ ~ (d = c /\ Marks(c, i))
  /\ \A i \in Int : Gone(i)' <=> Gone(i) \/ Marks(c, i)
  /\ \A i \in Int : Marks(c, i) => ~ Gone(i)

KeepsMore(c) ==
  /\ \A d \in Consumers, i \in Int :
       Keeps(d, i)' <=> Keeps(d, i) \/ (d = c /\ headIndex <= i /\ i < headIndex')
  /\ \A i \in Int : Gone(i)' <=> Gone(i)

LEMMA OthersHold ==
  ASSUME NEW c \in Consumers, Only(c), NEW d \in Consumers, d # c
  PROVE  /\ Takes(d)' <=> Takes(d)
         /\ cons'[d] = cons[d] /\ End(d)' = End(d) /\ Until(d)' = Until(d) /\ From(d)' = From(d)
         /\ (headIndex' = headIndex => (RangeTyped(d)' <=> RangeTyped(d)))
         /\ \A i \in Int : Keeps(d, i)' <=> Keeps(d, i)
<1>1. cons'[d] = cons[d]
  BY DEF Only
<1>2. End(d)' = End(d)
  BY <1>1 DEF End
<1>3. Until(d)' = Until(d)
  BY <1>1, <1>2 DEF Until, BaseOf
<1>4. From(d)' = From(d) /\ (Takes(d)' <=> Takes(d))
  BY <1>1, <1>3 DEF From, Takes
<1> QED
  BY <1>1, <1>2, <1>3, <1>4 DEF RangeTyped, Keeps

LEMMA HeldIsSame ==
  ASSUME NEW c \in Consumers, HeldSame(c)
  PROVE  /\ End(c)' = End(c) /\ Until(c)' = Until(c)
         /\ headIndex' = headIndex => (RangeTyped(c)' <=> RangeTyped(c))
<1>1. End(c)' = End(c)
  BY DEF End, HeldSame
<1>2. Until(c)' = Until(c)
  BY <1>1 DEF Until, BaseOf, HeldSame
<1> QED
  BY <1>1, <1>2 DEF RangeTyped, HeldSame

LEMMA RangesAside ==
  ASSUME RangeInv, NEW c \in Consumers, Aside(c) \/ Keeping(c)
  PROVE  RangeInv' /\ KeepsSame
<1>1. Only(c) /\ headIndex' = headIndex
  BY DEF Aside, Keeping
<1>2. \A i \in Int : Keeps(c, i)' <=> Keeps(c, i)
  <2>1. CASE Aside(c)
    BY <2>1 DEF Aside, Keeps, Takes
  <2>2. CASE Keeping(c)
    <3>1. End(c)' = End(c) /\ Until(c)' = Until(c) /\ cons'[c].pos = cons[c].pos
      BY <2>2, HeldIsSame DEF Keeping, HeldSame
    <3>2. (Takes(c)' <=> Takes(c)) /\ From(c)' = From(c)
      BY <2>2, <3>1 DEF Keeping, Takes, From
    <3> QED
      BY <3>1, <3>2 DEF Keeps
  <2> QED
    BY <2>1, <2>2
<1>3. /\ Takes(c)' <=> Takes(c)
      /\ Takes(c) => HeldSame(c)
  BY DEF Aside, Keeping, Takes
<1>4. KeepsSame
  <2>1. ASSUME NEW d \in Consumers, NEW i \in Int PROVE Keeps(d, i)' <=> Keeps(d, i)
    BY <1>1, <1>2, OthersHold
  <2> QED
    BY <1>1, <2>1 DEF KeepsSame, Gone
<1>5. RangesTyped'
  <2>1. ASSUME NEW d \in Consumers, Takes(d)' PROVE RangeTyped(d)'
    <3>1. CASE d = c
      BY <1>1, <1>3, <2>1, <3>1, HeldIsSame DEF RangeInv, RangesTyped
    <3>2. CASE d # c
      BY <1>1, <2>1, <3>2, OthersHold DEF RangeInv, RangesTyped
    <3> QED
      BY <3>1, <3>2
  <2> QED
    BY <1>1, <2>1 DEF RangeInv, RangesTyped
<1>6. RangesApart'
  <2>1. \A d \in Consumers : /\ Takes(d)' <=> Takes(d)
                             /\ Takes(d) => End(d)' = End(d) /\ cons'[d].first = cons[d].first
    <3> TAKE d \in Consumers
    <3>1. CASE d = c
      BY <1>3, <3>1, HeldIsSame DEF HeldSame
    <3>2. CASE d # c
      BY <1>1, <3>2, OthersHold
    <3> QED
      BY <3>1, <3>2
  <2> QED
    BY <2>1 DEF RangeInv, RangesApart
<1> QED
  BY <1>4, <1>5, <1>6 DEF RangeInv

LEMMA RangesNew ==
  ASSUME RangeInv, NEW c \in Consumers, TakesNew(c)
  PROVE  RangeInv' /\ KeepsMore(c)
<1>1. /\ Only(c) /\ headIndex \in Nat /\ headIndex' \in Nat
      /\ ~ Takes(c) /\ Takes(c)' /\ headIndex <= headIndex'
  BY DEF TakesNew, Takes, Taking, RangeInv, RangesTyped
<1>2. End(c)' = headIndex' /\ From(c)' = headIndex /\ cons'[c].first = headIndex
  BY DEF TakesNew, End, From
<1>3. RangeTyped(c)'
  BY <1>1, <1>2 DEF TakesNew, RangeTyped
<1>4. ASSUME NEW d \in Consumers, d # c
      PROVE  /\ Takes(d)' <=> Takes(d)
             /\ End(d)' = End(d) /\ cons'[d] = cons[d]
             /\ Takes(d) => RangeTyped(d) /\ RangeTyped(d)'
  <2>1. Takes(d)' <=> Takes(d)
    BY <1>1, <1>4, OthersHold
  <2>2. End(d)' = End(d) /\ cons'[d] = cons[d]
    BY <1>1, <1>4, OthersHold
  <2>3. ASSUME Takes(d) PROVE RangeTyped(d) /\ RangeTyped(d)'
    <3>1. RangeTyped(d)
      BY <2>3 DEF RangeInv, RangesTyped
    <3>2. End(d) \in Int
      BY <3>1, UntilIs
    <3> QED
      BY <1>1, <2>2, <3>1, <3>2 DEF RangeTyped
  <2> QED
    BY <2>1, <2>2, <2>3
<1>5. RangesTyped'
  BY <1>1, <1>3, <1>4 DEF RangesTyped
<1>6. RangesApart'
  <2> SUFFICES ASSUME NEW d \in Consumers, NEW e \in Consumers, Takes(d)', Takes(e)', d # e
               PROVE  (End(d) <= cons[e].first \/ End(e) <= cons[d].first)'
    BY DEF RangesApart
  <2>1. CASE d = c
    BY <1>2, <1>4, <2>1 DEF RangeTyped
  <2>2. CASE e = c
    BY <1>2, <1>4, <2>2 DEF RangeTyped
  <2>3. CASE d # c /\ e # c
    BY <1>4, <2>3 DEF RangeInv, RangesApart
  <2> QED
    BY <2>1, <2>2, <2>3
<1>7. ASSUME NEW d \in Consumers, NEW i \in Int
      PROVE  Keeps(d, i)' <=> Keeps(d, i) \/ (d = c /\ headIndex <= i /\ i < headIndex')
  <2>1. CASE d = c
    BY <1>1, <1>2, <2>1 DEF Keeps
  <2>2. CASE d # c
    BY <1>1, <2>2, OthersHold
  <2> QED
    BY <2>1, <2>2
<1>8. ASSUME NEW i \in Int PROVE Gone(i)' <=> Gone(i)
  <2>1. CASE i < headIndex
    BY <1>1, <1>7, <2>1 DEF Gone
  <2>2. CASE ~ (i < headIndex)
    BY <1>1, <1>7, <2>2 DEF Gone
  <2> QED
    BY <2>1, <2>2
<1> QED
  BY <1>5, <1>6, <1>7, <1>8 DEF RangeInv, KeepsMore

LEMMA KeepsInside ==
  ASSUME RangeInv, NEW c \in Consumers, NEW i \in Int, Keeps(c, i)
  PROVE  /\ Takes(c) /\ RangeTyped(c) /\ i \in Nat
         /\ cons[c].pos <= i /\ cons[c].first <= i /\ i < End(c) /\ i < headIndex
<1>1. Takes(c) /\ RangeTyped(c)
  BY DEF RangeInv, RangesTyped, Keeps
<1>2. From(c) <= i /\ i < End(c) /\ headIndex \in Nat
  BY DEF Keeps, RangeInv, RangesTyped
<1>3. From(c) \in Int /\ cons[c].pos <= From(c) /\ cons[c].pos \in Nat /\ End(c) \in Nat
  BY <1>1, UntilIs DEF From, RangeTyped
<1> QED
  BY <1>1, <1>2, <1>3 DEF RangeTyped

LEMMA KeptByOne ==
  ASSUME RangeInv, NEW c \in Consumers, NEW d \in Consumers, NEW i \in Int,
         Takes(c), cons[c].first <= i, i < End(c), Keeps(d, i)
  PROVE  d = c
<1>1. /\ RangeTyped(c) /\ RangeTyped(d) /\ Takes(d)
      /\ cons[d].first <= i /\ i < End(d)
  BY KeepsInside DEF RangeInv, RangesTyped
<1>2. End(c) \in Int /\ End(d) \in Int /\ cons[c].first \in Int /\ cons[d].first \in Int
  BY <1>1, UntilIs DEF RangeTyped
<1>3. c # d => End(c) <= cons[d].first \/ End(d) <= cons[c].first
  BY <1>1 DEF RangeInv, RangesApart
<1> QED
  BY <1>1, <1>2, <1>3

LEMMA RangesMark ==
  ASSUME RangeInv, NEW c \in Consumers, Marking(c) \/ (GoesOn(c) /\ cons[c].pc = "empty")
  PROVE  RangeInv' /\ KeepsLess(c)
<1>1. Only(c) /\ headIndex' = headIndex /\ Takes(c) /\ cons[c].pc = "empty" /\ headIndex \in Nat
  BY DEF Marking, GoesOn, Takes, Taking, RangeInv, RangesTyped
<1>2. RangeTyped(c) /\ From(c) = cons[c].pos
  BY <1>1 DEF RangeInv, RangesTyped, From
<1>3. PICK p \in Nat, u \in Nat, e \in Nat :
        /\ p = cons[c].pos /\ u = Until(c) /\ e = End(c)
        /\ p < u /\ u <= e /\ e <= headIndex
  BY <1>2, UntilIs DEF RangeTyped
<1>4. /\ Takes(c)' => /\ RangeTyped(c)' /\ From(c)' = u /\ End(c)' = e
                      /\ cons'[c].first = cons[c].first
      /\ ~ Takes(c)' => u = e
  <2>1. CASE Marking(c)
    BY <1>1, <1>2, <1>3, <2>1, HeldIsSame DEF Marking, HeldSame, From, Takes, Taking
  <2>2. CASE GoesOn(c) /\ Until(c) = End(c) /\ cons'[c].pc = "idle"
    BY <1>3, <2>2 DEF Takes, Taking
  <2>3. CASE /\ GoesOn(c) /\ Until(c) # End(c) /\ cons'[c].pc = "block"
             /\ cons'[c].first = cons[c].first /\ cons'[c].count = cons[c].count
             /\ cons'[c].pos = Until(c)
    <3>1. End(c)' = e
      BY <1>3, <2>3 DEF End
    <3>2. Takes(c)' /\ From(c)' = u
      BY <1>3, <2>3 DEF Takes, Taking, From
    <3>3. RangeTyped(c)'
      BY <1>1, <1>2, <1>3, <2>3, <3>1 DEF RangeTyped
    <3> QED
      BY <2>3, <3>1, <3>2, <3>3
  <2> QED
    BY <2>1, <2>2, <2>3 DEF GoesOn
<1>5. RangesTyped'
  <2>1. ASSUME NEW d \in Consumers, Takes(d)' PROVE RangeTyped(d)'
    BY <1>1, <1>4, <2>1, OthersHold DEF RangeInv, RangesTyped
  <2> QED
    BY <1>1, <2>1 DEF RangesTyped
<1>6. RangesApart'
  <2>1. \A d \in Consumers : Takes(d)' => /\ Takes(d) /\ End(d)' = End(d)
                                          /\ cons'[d].first = cons[d].first
    BY <1>1, <1>3, <1>4, OthersHold
  <2> QED
    BY <2>1 DEF RangeInv, RangesApart
<1>7. ASSUME NEW d \in Consumers, NEW i \in Int
      PROVE  Keeps(d, i)' <=> Keeps(d, i) /\ ~ (d = c /\ Marks(c, i))
  <2>1. CASE d = c
    BY <1>1, <1>2, <1>3, <1>4, <2>1 DEF Keeps, Marks
  <2>2. CASE d # c
    BY <1>1, <2>2, OthersHold
  <2> QED
    BY <2>1, <2>2
<1>8. ASSUME NEW i \in Int, Marks(c, i)
      PROVE  Keeps(c, i) /\ i < headIndex /\ \A d \in Consumers : d # c => ~ Keeps(d, i)
  <2>1. Keeps(c, i) /\ i < headIndex /\ i < End(c) /\ cons[c].first <= i
    BY <1>1, <1>2, <1>3, <1>8 DEF Keeps, Marks, RangeTyped
  <2> QED
    BY <1>1, <2>1, KeptByOne
<1>9. ASSUME NEW i \in Int PROVE Gone(i)' <=> Gone(i) \/ Marks(c, i)
  BY <1>1, <1>7, <1>8 DEF Gone
<1> QED
  BY <1>5, <1>6, <1>7, <1>8, <1>9 DEF RangeInv, KeepsLess, Gone

(* Giving the block back, the items were marked before.                    *)
LEMMA RangesOn ==
  ASSUME RangeInv, NEW c \in Consumers, GoesOn(c), cons[c].pc = "release"
  PROVE  RangeInv' /\ KeepsSame
<1>1. Only(c) /\ headIndex' = headIndex /\ Takes(c) /\ headIndex \in Nat
  BY DEF GoesOn, Takes, Taking, RangeInv, RangesTyped
<1>2. RangeTyped(c) /\ From(c) = Until(c)
  BY <1>1 DEF RangeInv, RangesTyped, From
<1>3. PICK p \in Nat, u \in Nat, e \in Nat :
        /\ p = cons[c].pos /\ u = Until(c) /\ e = End(c)
        /\ p < u /\ u <= e /\ e <= headIndex
  BY <1>2, UntilIs DEF RangeTyped
<1>4. /\ Takes(c)' => /\ RangeTyped(c)' /\ From(c)' = u /\ End(c)' = e
                      /\ cons'[c].first = cons[c].first
      /\ ~ Takes(c)' => u = e
  <2>1. CASE GoesOn(c) /\ Until(c) = End(c) /\ cons'[c].pc = "idle"
    BY <1>3, <2>1 DEF Takes, Taking
  <2>2. CASE /\ GoesOn(c) /\ Until(c) # End(c) /\ cons'[c].pc = "block"
             /\ cons'[c].first = cons[c].first /\ cons'[c].count = cons[c].count
             /\ cons'[c].pos = Until(c)
    <3>1. End(c)' = e
      BY <1>3, <2>2 DEF End
    <3>2. Takes(c)' /\ From(c)' = u
      BY <1>3, <2>2 DEF Takes, Taking, From
    <3>3. RangeTyped(c)'
      BY <1>1, <1>2, <1>3, <2>2, <3>1 DEF RangeTyped
    <3> QED
      BY <2>2, <3>1, <3>2, <3>3
  <2> QED
    BY <2>1, <2>2 DEF GoesOn
<1>5. RangesTyped'
  <2>1. ASSUME NEW d \in Consumers, Takes(d)' PROVE RangeTyped(d)'
    BY <1>1, <1>4, <2>1, OthersHold DEF RangeInv, RangesTyped
  <2> QED
    BY <1>1, <2>1 DEF RangesTyped
<1>6. RangesApart'
  <2>1. \A d \in Consumers : Takes(d)' => /\ Takes(d) /\ End(d)' = End(d)
                                          /\ cons'[d].first = cons[d].first
    BY <1>1, <1>3, <1>4, OthersHold
  <2> QED
    BY <2>1 DEF RangeInv, RangesApart
<1>7. ASSUME NEW d \in Consumers, NEW i \in Int PROVE  Keeps(d, i)' <=> Keeps(d, i)
  <2>1. CASE d = c
    BY <1>1, <1>2, <1>3, <1>4, <2>1 DEF Keeps
  <2>2. CASE d # c
    BY <1>1, <2>2, OthersHold
  <2> QED
    BY <2>1, <2>2
<1> QED
  BY <1>1, <1>5, <1>6, <1>7 DEF RangeInv, KeepsSame, Gone

LEMMA RangesOther ==
  ASSUME RangeInv, UNCHANGED headIndex, UNCHANGED cons
  PROVE  RangeInv' /\ KeepsSame
<1>1. \A c \in Consumers : /\ End(c)' = End(c) /\ Until(c)' = Until(c) /\ cons'[c] = cons[c]
  BY DEF End, Until, BaseOf
<1>2. \A c \in Consumers : (Takes(c)' <=> Takes(c)) /\ From(c)' = From(c)
  BY <1>1 DEF Takes, From
<1>3. \A c \in Consumers : RangeTyped(c)' <=> RangeTyped(c)
  BY <1>1 DEF RangeTyped
<1>4. RangeInv'
  BY <1>1, <1>2, <1>3 DEF RangeInv, RangesTyped, RangesApart
<1> QED
  BY <1>1, <1>2, <1>4 DEF KeepsSame, Keeps, Gone
-----------------------------------------------------------------------------
(* The ring of an explicit producer.  Number n of the blocks has the items *)
(* from Start(n) on; ring[n] is the block that it is in.                   *)

(* How many have been begun, and how many of them the index lists.         *)
Begun ==
  IF ppc \in {"idle", "publish", "block", "rewound"} /\ Off(tailIndex) = 0
  THEN Num(tailIndex) ELSE Num(tailIndex) + 1

Listed == IF ppc \in {"entry", "front"} THEN Begun - 1 ELSE Begun
Oldest == Begun - slotsUsed
Ringed(n) == Oldest <= n /\ n < Begun

Version == Len(blockIndex)

Entries == [base : Nat, block : Nat]
Headers == UNION {[size : {k}, front : Int, entries : [0..(k - 1) -> Entries]] : k \in Nat \ {0}}

SizeOf(v)      == blockIndex[v].size
FrontOf(v)     == blockIndex[v].front
EntryAt(v, p)  == blockIndex[v].entries[p]

(* Only the first item of a block needs more than the two stores.         *)
Staged == ppc \in {"idle", "entry", "front", "elem", "tail"}
            /\ (ppc \in {"entry", "front", "elem"} => Off(tailIndex) = 0)

RingTyped ==
  /\ Staged
  /\ blockIndex \in Seq(Headers) /\ Version >= 1
  /\ slotsUsed \in Nat /\ slotsUsed <= SizeOf(Version) /\ slotsUsed <= Begun /\ slotsUsed <= BlockNum
  /\ indexFront \in Nat /\ indexFront < SizeOf(Version)
  /\ next \in [Blocks -> Nat]
  /\ Begun > 0 => slotsUsed > 0
  /\ Begun = 0 => tailBlock = 0

(* Each block of the ring is there once and leads to the next, the newest  *)
(* one, that is being filled, to the oldest.                               *)
RingLinked(ring) ==
  /\ ring \in [Nat -> Nat]
  /\ \A n \in Nat : Ringed(n) => 1 <= ring[n] /\ ring[n] <= slotsUsed
  /\ \A n, m \in Nat : Ringed(n) /\ Ringed(m) /\ ring[n] = ring[m] => n = m
  /\ \A n \in Nat : Ringed(n) /\ n + 1 < Begun => next[ring[n]] = ring[n + 1]
  /\ Begun > 0 => tailBlock = ring[Begun - 1] /\ next[tailBlock] = ring[Oldest]

(* In index v number n has its place at shift[v] + n, modulo the size.     *)
PlaceOf(shift, v, n) == (shift[v] + n) % SizeOf(v)

RingListed(ring, shift) ==
  \A n \in Nat : Ringed(n) /\ (n + 1 < Begun \/ ppc # "entry") =>
    /\ EntryAt(Version, PlaceOf(shift, Version, n)).base = Start(n)
    /\ EntryAt(Version, PlaceOf(shift, Version, n)).block = ring[n]

Congruent(shift) ==
  /\ shift \in [Nat -> Int]
  /\ shift[Version] % SizeOf(Version) = (indexFront - Listed) % SizeOf(Version)
  /\ \A v, p \in Nat : 1 <= v /\ v <= Version /\ p < SizeOf(v) /\ EntryAt(v, p).block # 0 =>
       /\ Off(EntryAt(v, p).base) = 0
       /\ (p - Num(EntryAt(v, p).base)) % SizeOf(v) = shift[v] % SizeOf(v)

(* The front of an index is a place with a block.                          *)
FrontGood(v) == FrontOf(v) \in Nat /\ FrontOf(v) < SizeOf(v) /\ EntryAt(v, FrontOf(v)).block # 0

FrontSet == \A v \in Nat : 1 <= v /\ v <= Version /\ (v < Version \/ Listed > 0) => FrontGood(v)

RingInv(ring, shift) ==
  RingTyped /\ RingLinked(ring) /\ RingListed(ring, shift) /\ Congruent(shift) /\ FrontSet

(* A place is marked empty just if its item is gone.                       *)
FlagsRight(ring) ==
  \A i \in Nat : Ringed(Num(i)) => (empty[ring[Num(i)]][Off(i)] <=> Gone(i))

(* What is taken and not marked is still in the ring.                      *)
KeptInRing ==
  /\ Start(Oldest) <= headIndex
  /\ \A c \in Consumers, i \in Nat : Keeps(c, i) => Oldest <= Num(i)

(* A consumer finds the blocks of its items in the index that it loaded.   *)
Searching(c) == cons[c].pc \in {"front", "base", "block", "read", "empty"}

FindsAll(ring, shift, c) ==
  LET v == cons[c].ver IN
  /\ v \in Nat /\ 1 <= v /\ v <= Version /\ FrontGood(v)
  /\ \A i \in Nat : Keeps(c, i) => EntryAt(v, PlaceOf(shift, v, Num(i))).block = ring[Num(i)]

Finds(ring, shift, c) ==
  /\ cons[c].pc \notin {"clear", "release"}
  /\ cons[c].pc \in {"index", "front", "base"} => cons[c].pos = cons[c].first
  /\ Searching(c) => FindsAll(ring, shift, c)
  /\ cons[c].pc = "base" => /\ cons[c].front \in Nat /\ cons[c].front < SizeOf(cons[c].ver)
                            /\ EntryAt(cons[c].ver, cons[c].front).block # 0
  /\ cons[c].pc \in {"block", "read", "empty"} =>
       cons[c].slot = PlaceOf(shift, cons[c].ver, Num(cons[c].pos))
  /\ cons[c].pc \in {"read", "empty"} => cons[c].block = ring[Num(cons[c].pos)]

AllFind(ring, shift) == \A c \in Consumers : Finds(ring, shift, c)

ExplicitWell(ring, shift) ==
  /\ RingInv(ring, shift)
  /\ empty \in [Blocks -> [Offsets -> BOOLEAN]] /\ FlagsRight(ring)
  /\ KeptInRing /\ AllFind(ring, shift)

ExplicitInv == \E ring, shift : ExplicitWell(ring, shift)

(* The ring stays as it is.                                                *)
RingSame ==
  /\ UNCHANGED <<tailBlock, next, blockIndex, slotsUsed, indexFront>>
  /\ Begun' = Begun /\ Listed' = Listed
  /\ (ppc = "entry") = (ppc' = "entry")
  /\ Staged => Staged'

LEMMA SameRing ==
  ASSUME UNCHANGED <<tailIndex, ppc, tailBlock, next, blockIndex, slotsUsed, indexFront>>
  PROVE  RingSame
BY DEF RingSame, Begun, Listed, Staged
-----------------------------------------------------------------------------
(* The steps of a consumer by what they do to its items.                   *)

LEMMA ClaimTakes ==
  ASSUME CountInv, NEW c \in Consumers, Claim(c)
  PROVE  (Aside(c) \/ TakesNew(c)) /\ UNCHANGED <<tailIndex, ppc, tailBlock>>
<1>1. DOMAIN cons = Consumers /\ CountersTyped
  BY DEF CountInv, CountersTyped
<1>2. ASSUME NEW pc, NEW locals, Goto(c, pc, locals), UNCHANGED <<tailIndex, headIndex>>,
             pc \notin Taking, cons[c].pc \notin Taking
      PROVE  Aside(c)
  BY <1>1, <1>2, Went DEF Aside
<1>3. ASSUME Leave(c), UNCHANGED <<tailIndex, headIndex>>, cons[c].pc \notin Taking PROVE Aside(c)
  BY <1>1, <1>3, Left DEF Aside, Taking
<1>4. CASE \E max \in Maxima : LoadTail(c, max)
  BY <1>2, <1>4 DEF LoadTail, At, Taking, counters
<1>5. CASE LoadOvercommit(c)
  BY <1>2, <1>5 DEF LoadOvercommit, At, Taking, counters
<1>6. CASE LoadOptimistic(c)
  BY <1>2, <1>3, <1>6 DEF LoadOptimistic, At, Taking, counters
<1>7. CASE AddOptimistic(c)
  BY <1>2, <1>7 DEF AddOptimistic, At, Taking
<1>8. CASE ReloadTail(c)
  <2>1. PICK pc, locals : pc \in {"head", "giveback"} /\ Goto(c, pc, locals)
    BY <1>8 DEF ReloadTail
  <2>2. UNCHANGED <<tailIndex, headIndex, ppc, tailBlock>> /\ cons[c].pc = "tail"
    BY <1>8 DEF ReloadTail, At, counters
  <2> QED
    BY <1>2, <2>1, <2>2 DEF Taking
<1>9. CASE GiveBack(c)
  BY <1>2, <1>3, <1>9 DEF GiveBack, At, Taking
<1>10. CASE AddHead(c)
  <2>1. Goto(c, "index", [first |-> headIndex, pos |-> headIndex, want |-> 0, my |-> 0, over |-> 0])
    BY <1>10 DEF AddHead
  <2>2. /\ Only(c) /\ cons'[c].pc = "index" /\ cons'[c].first = headIndex
        /\ cons'[c].pos = headIndex /\ cons'[c].count = cons[c].count
    BY <1>1, <2>1, Went, Fields
  <2>3. cons[c].pc = "head" /\ cons[c].count \in Nat \ {0}
    BY <1>1, <1>10 DEF AddHead, At, CountersTyped, Locals
  <2> QED
    BY <1>10, <2>2, <2>3 DEF AddHead, TakesNew, Taking
<1> QED
  BY <1>4, <1>5, <1>6, <1>7, <1>8, <1>9, <1>10 DEF Claim

LEMMA GotoKeeps ==
  ASSUME CountInv, NEW c \in Consumers, NEW pc, NEW locals, Goto(c, pc, locals),
         UNCHANGED counters, cons[c].pc \in Taking, pc \in Taking,
         cons[c].pc \in {"clear", "release"} <=> pc \in {"clear", "release"},
         {"first", "count", "pos"} \cap DOMAIN locals = {}
  PROVE  /\ Keeping(c) /\ cons'[c].pc = pc
         /\ \A f \in {"ver", "front", "slot", "block"} :
              cons'[c][f] = IF f \in DOMAIN locals THEN locals[f] ELSE cons[c][f]
<1>1. DOMAIN cons = Consumers
  BY DEF CountInv, CountersTyped
<1>2. /\ Only(c) /\ cons'[c].pc = pc
      /\ \A f \in DOMAIN Idle \ {"pc"} :
           cons'[c][f] = IF f \in DOMAIN locals THEN locals[f] ELSE cons[c][f]
  BY <1>1, Went
<1>3. cons'[c].first = cons[c].first /\ cons'[c].count = cons[c].count /\ cons'[c].pos = cons[c].pos
  BY <1>2, Fields
<1>4. Keeping(c)
  BY <1>2, <1>3 DEF Keeping, HeldSame, counters
<1>5. {"ver", "front", "slot", "block"} \subseteq DOMAIN Idle \ {"pc"}
  BY Fields
<1> QED
  BY <1>2, <1>4, <1>5

LEMMA NextGoesOn ==
  ASSUME CountInv, NEW c \in Consumers, NEW size, NextBlock(c, size),
         UNCHANGED counters, cons[c].pc \in {"empty", "release"}
  PROVE  /\ GoesOn(c)
         /\ cons'[c].pc = "block" => /\ cons'[c].ver = cons[c].ver
                                     /\ cons'[c].slot = (cons[c].slot + 1) % size
<1>1. DOMAIN cons = Consumers
  BY DEF CountInv, CountersTyped
<1>2. CASE Until(c) = End(c)
  <2>1. Leave(c)
    BY <1>2 DEF NextBlock
  <2>2. Only(c) /\ cons'[c].pc = "idle"
    BY <1>1, <2>1, Left
  <2> QED
    BY <1>2, <2>2 DEF GoesOn, counters
<1>3. CASE Until(c) # End(c)
  <2>1. Goto(c, "block", [slot |-> (cons[c].slot + 1) % size, pos |-> Until(c), block |-> 0])
    BY <1>3 DEF NextBlock
  <2>2. /\ Only(c) /\ cons'[c].pc = "block" /\ cons'[c].pos = Until(c)
        /\ cons'[c].slot = (cons[c].slot + 1) % size
        /\ cons'[c].first = cons[c].first /\ cons'[c].count = cons[c].count
        /\ cons'[c].ver = cons[c].ver
    BY <1>1, <2>1, Went, Fields
  <2> QED
    BY <1>3, <2>2 DEF GoesOn, counters
<1> QED
  BY <1>2, <1>3

(* What both kinds take from the base is the same.                         *)
LEMMA ExplicitParts ==
  /\ \A c : E!End(c) = End(c) /\ E!Until(c) = Until(c)
  /\ \A i : E!BaseOf(i) = BaseOf(i)
  /\ \A c, size : E!NextBlock(c, size) => NextBlock(c, size)
  /\ E!Offsets = Offsets /\ E!Blocks = Blocks
BY ExplicitSame DEF E!End, End, E!Until, Until, E!Min, Min, E!BaseOf, BaseOf, E!NextBlock, NextBlock,
  E!Goto, Goto, E!Leave, Leave, E!Idle, Idle, E!Offsets, Offsets, E!Blocks, Blocks

LEMMA ExplicitClaim ==
  ASSUME NEW c, E!Claim(c)
  PROVE  Claim(c)
BY DEF E!Claim, Claim, E!LoadTail, LoadTail, E!LoadOvercommit, LoadOvercommit,
    E!LoadOptimistic, LoadOptimistic, E!AddOptimistic, AddOptimistic, E!ReloadTail, ReloadTail,
    E!GiveBack, GiveBack, E!AddHead, AddHead, E!At, At, E!Goto, Goto, E!Leave, Leave,
    E!Idle, Idle, E!counters, counters, E!Min, Min, E!Max, Max

LEMMA IndexIs == E!index = blockIndex[Len(blockIndex)]
BY DEF E!index, E!Last

LEMMA LoadIndexDoes ==
  ASSUME CountInv, NEW c \in Consumers, E!LoadIndex(c)
  PROVE  /\ Keeping(c) /\ RingSame /\ UNCHANGED empty
         /\ cons[c].pc = "index" /\ cons'[c].pc = "front" /\ cons'[c].ver = Len(blockIndex)
<1>1. Goto(c, "front", [ver |-> Len(blockIndex)]) /\ cons[c].pc = "index"
  BY ExplicitSame DEF E!LoadIndex
<1>2. RingSame /\ UNCHANGED empty /\ UNCHANGED counters
  BY ExplicitSame, SameRing DEF E!LoadIndex, E!ringVars, E!counters, counters
<1> QED
  BY <1>1, <1>2, GotoKeeps DEF Taking

LEMMA LoadFrontDoes ==
  ASSUME CountInv, NEW c \in Consumers, E!LoadFront(c)
  PROVE  /\ Keeping(c) /\ RingSame /\ UNCHANGED empty
         /\ cons[c].pc = "front" /\ cons'[c].pc = "base" /\ cons'[c].ver = cons[c].ver
         /\ cons'[c].front = blockIndex[cons[c].ver].front
<1>1. Goto(c, "base", [front |-> blockIndex[cons[c].ver].front]) /\ cons[c].pc = "front"
  BY ExplicitSame DEF E!LoadFront
<1>2. RingSame /\ UNCHANGED empty /\ UNCHANGED counters
  BY ExplicitSame, SameRing DEF E!LoadFront, E!ringVars, E!counters, counters
<1> QED
  BY <1>1, <1>2, GotoKeeps DEF Taking

LEMMA LoadBaseDoes ==
  ASSUME CountInv, NEW c \in Consumers, E!LoadBase(c)
  PROVE  /\ Keeping(c) /\ RingSame /\ UNCHANGED empty
         /\ cons[c].pc = "base" /\ cons'[c].pc = "block" /\ cons'[c].ver = cons[c].ver
         /\ cons'[c].slot =
              (cons[c].front + ((BaseOf(cons[c].first)
                                  - blockIndex[cons[c].ver].entries[cons[c].front].base)
                                 \div BlockSize)) % blockIndex[cons[c].ver].size
<1> DEFINE slot == (cons[c].front + ((BaseOf(cons[c].first)
                                  - blockIndex[cons[c].ver].entries[cons[c].front].base)
                                 \div BlockSize)) % blockIndex[cons[c].ver].size
<1>1. Goto(c, "block", [slot |-> slot, front |-> 0]) /\ cons[c].pc = "base"
  BY ExplicitSame, ExplicitParts DEF E!LoadBase
<1>2. RingSame /\ UNCHANGED empty /\ UNCHANGED counters
  BY ExplicitSame, SameRing DEF E!LoadBase, E!ringVars, E!counters, counters
<1> HIDE DEF slot
<1>3. /\ Keeping(c) /\ cons'[c].pc = "block" /\ cons'[c].ver = cons[c].ver
      /\ cons'[c].slot = slot
  BY <1>1, <1>2, GotoKeeps DEF Taking
<1> QED
  BY <1>1, <1>2, <1>3 DEF slot

LEMMA LoadBlockDoes ==
  ASSUME CountInv, NEW c \in Consumers, E!LoadBlock(c)
  PROVE  /\ Keeping(c) /\ RingSame /\ UNCHANGED empty
         /\ cons[c].pc = "block" /\ cons'[c].pc = "read" /\ cons'[c].ver = cons[c].ver
         /\ cons'[c].slot = cons[c].slot
         /\ cons'[c].block = blockIndex[cons[c].ver].entries[cons[c].slot].block
<1>1. /\ Goto(c, "read", [block |-> blockIndex[cons[c].ver].entries[cons[c].slot].block])
      /\ cons[c].pc = "block"
  BY ExplicitSame DEF E!LoadBlock
<1>2. RingSame /\ UNCHANGED empty /\ UNCHANGED counters
  BY ExplicitSame, SameRing DEF E!LoadBlock, E!ringVars, E!counters, counters
<1> QED
  BY <1>1, <1>2, GotoKeeps DEF Taking

LEMMA ReadItemsDoes ==
  ASSUME CountInv, NEW c \in Consumers, E!ReadItems(c), UNCHANGED E!ringVars
  PROVE  /\ Keeping(c) /\ RingSame /\ UNCHANGED empty
         /\ cons[c].pc = "read" /\ cons'[c].pc = "empty" /\ cons'[c].ver = cons[c].ver
         /\ cons'[c].slot = cons[c].slot /\ cons'[c].block = cons[c].block
<1>1. PICK got : Goto(c, "empty", [got |-> got]) /\ cons[c].pc = "read"
  BY ExplicitSame DEF E!ReadItems
<1>2. RingSame /\ UNCHANGED empty /\ UNCHANGED counters
  BY ExplicitSame, SameRing DEF E!ReadItems, E!ringVars, E!counters, counters
<1> QED
  BY <1>1, <1>2, GotoKeeps DEF Taking

LEMMA SetManyEmptyDoes ==
  ASSUME CountInv, NEW c \in Consumers, E!SetManyEmpty(c)
  PROVE  /\ GoesOn(c) /\ RingSame /\ cons[c].pc = "empty"
         /\ empty' = [a \in Blocks |-> [o \in Offsets |->
                        empty[a][o] \/ (a = cons[c].block
                          /\ \E i \in cons[c].pos..(Until(c) - 1) : o = Off(i))]]
         /\ cons'[c].pc = "block" =>
              /\ cons'[c].ver = cons[c].ver
              /\ cons'[c].slot = (cons[c].slot + 1) % blockIndex[cons[c].ver].size
<1>1. NextBlock(c, blockIndex[cons[c].ver].size) /\ cons[c].pc = "empty"
  BY ExplicitSame, ExplicitParts DEF E!SetManyEmpty
<1>2. RingSame /\ UNCHANGED counters
  BY ExplicitSame, SameRing DEF E!SetManyEmpty, E!ringVars, E!counters, counters
<1>3. empty' = [a \in Blocks |-> [o \in Offsets |->
                  empty[a][o] \/ (a = cons[c].block
                    /\ \E i \in cons[c].pos..(Until(c) - 1) : o = Off(i))]]
  BY ExplicitParts DEF E!SetManyEmpty, E!MarkedEmpty, Off
<1> QED
  BY <1>1, <1>2, <1>3, NextGoesOn

-----------------------------------------------------------------------------
(* Steps of consumers keep it.                                             *)

LEMMA SeqAt ==
  ASSUME NEW S, NEW s \in Seq(S), NEW k \in Nat, 1 <= k, k <= Len(s)
  PROVE  s[k] \in S
OBVIOUS

LEMMA HeaderIs ==
  ASSUME NEW h \in Headers
  PROVE  /\ h.size \in Nat \ {0} /\ h.front \in Int
         /\ h.entries \in [0..(h.size - 1) -> Entries]
         /\ h = [size |-> h.size, front |-> h.front, entries |-> h.entries]
<1>1. PICK k \in Nat \ {0} : h \in [size : {k}, front : Int, entries : [0..(k - 1) -> Entries]]
  BY DEF Headers
<1> QED
  BY <1>1

LEMMA IndexTyped ==
  ASSUME RingTyped, NEW v \in Nat, 1 <= v, v <= Version
  PROVE  /\ SizeOf(v) \in Nat \ {0} /\ FrontOf(v) \in Int
         /\ \A p \in Nat : p < SizeOf(v) =>
              /\ EntryAt(v, p).base \in Nat /\ EntryAt(v, p).block \in Nat
<1>1. blockIndex[v] \in Headers
  BY SeqAt DEF RingTyped, Version
<1>2. PICK h \in Headers : h = blockIndex[v]
  BY <1>1
<1>3. /\ h.size \in Nat \ {0} /\ h.front \in Int
      /\ h.entries \in [0..(h.size - 1) -> Entries]
  BY HeaderIs
<1>4. ASSUME NEW p \in Nat, p < h.size PROVE h.entries[p] \in Entries
  <2>1. p \in 0..(h.size - 1)
    BY <1>3, <1>4
  <2> QED
    BY <1>3, <2>1
<1> QED
  BY <1>2, <1>3, <1>4 DEF SizeOf, FrontOf, EntryAt, Entries

LEMMA PlaceTyped ==
  ASSUME NEW x \in Int, NEW m \in Nat \ {0}
  PROVE  x % m \in Nat /\ x % m < m
OBVIOUS

LEMMA BegunTyped ==
  ASSUME CountInv
  PROVE  Begun \in Nat /\ tailIndex \in Nat /\ Num(tailIndex) \in Nat
<1>1. tailIndex \in Nat /\ Num(tailIndex) \in Nat
  BY NumNat DEF CountInv, CountersTyped
<1> QED
  BY <1>1 DEF Begun

LEMMA BeforeBase ==
  ASSUME NEW i \in Int, NEW t \in Int, Off(t) = 0, i < t
  PROVE  Num(i) < Num(t)
<1>1. Num(i) \in Int /\ Num(t) \in Int /\ Num(i) <= Num(t)
  <2>1. i <= t
    OBVIOUS
  <2>2. Num(i) <= Num(t)
    BY <2>1, NumOrder
  <2> QED
    BY <2>2, NumParts
<1>2. ASSUME Num(i) = Num(t) PROVE FALSE
  <2>1. t = BaseOf(i)
    BY <1>2, SameBase
  <2> QED
    BY <2>1, BaseIs
<1> QED
  BY <1>1, <1>2

(* A block with items that were put has been begun, and listed.            *)
LEMMA BegunCovers ==
  ASSUME CountInv, RingTyped, NEW i \in Nat, i < tailIndex
  PROVE  /\ Num(i) \in Nat /\ Num(i) < Begun /\ Num(i) < Listed
         /\ (ppc \in {"entry", "front", "elem"} => Num(i) < Begun - 1)
<1>1. Begun \in Nat /\ tailIndex \in Nat /\ Num(tailIndex) \in Nat /\ Num(i) \in Nat /\ i \in Int
  BY BegunTyped, NumNat
<1>2. Num(i) <= Num(tailIndex)
  BY <1>1, NumOrder
<1>3. Off(tailIndex) = 0 => Num(i) < Num(tailIndex)
  BY <1>1, BeforeBase
<1>4. ppc \in {"entry", "front", "elem"} => Off(tailIndex) = 0
  BY DEF RingTyped, Staged
<1> QED
  BY <1>1, <1>2, <1>3, <1>4 DEF Begun, Listed

LEMMA HeldItem ==
  ASSUME CountInv, RangeInv, NEW c \in Consumers, NEW i \in Nat, Keeps(c, i)
  PROVE  i < headIndex /\ i < tailIndex
<1>1. i < headIndex
  BY KeepsInside
<1>2. HeadBehindTail
  BY CountInvBehind
<1> QED
  BY <1>1, <1>2 DEF HeadBehindTail, CountInv, CountersTyped

LEMMA TakesPos ==
  ASSUME RangeInv, NEW c \in Consumers, Takes(c)
  PROVE  /\ RangeTyped(c) /\ cons[c].pos \in Nat /\ cons[c].first \in Nat
         /\ (cons[c].pc \notin {"clear", "release"} => Keeps(c, cons[c].pos))
BY DEF RangeInv, RangesTyped, RangeTyped, Keeps, From

(* The newest index leads to each block of which items are taken.          *)
LEMMA NewestFinds ==
  ASSUME CountInv, RangeInv, NEW ring, NEW shift, RingInv(ring, shift), KeptInRing,
         NEW c \in Consumers, Takes(c), cons[c].pc \notin {"clear", "release"}
  PROVE  /\ FrontGood(Version)
         /\ \A i \in Nat : Keeps(c, i) =>
              EntryAt(Version, PlaceOf(shift, Version, Num(i))).block = ring[Num(i)]
<1>1. RingTyped /\ RingListed(ring, shift) /\ FrontSet
  BY DEF RingInv
<1>2. ASSUME NEW i \in Nat, Keeps(c, i)
      PROVE  /\ Num(i) \in Nat /\ Oldest <= Num(i) /\ Num(i) < Begun /\ Num(i) < Listed
             /\ (ppc = "entry" => Num(i) < Begun - 1)
    BY <1>1, <1>2, HeldItem, BegunCovers DEF KeptInRing
<1>3. Version \in Nat /\ 1 <= Version
  BY <1>1 DEF RingTyped, Version
<1>4. Begun \in Nat /\ Listed \in Int
  BY BegunTyped DEF Listed
<1>5. Listed > 0
  <2>1. cons[c].pos \in Nat /\ Keeps(c, cons[c].pos)
    BY TakesPos
  <2>2. Num(cons[c].pos) \in Nat /\ Num(cons[c].pos) < Listed
    BY <1>2, <2>1
  <2> QED
    BY <1>4, <2>2
<1>6. FrontGood(Version)
  BY <1>1, <1>3, <1>5 DEF FrontSet
<1>7. ASSUME NEW i \in Nat, Keeps(c, i)
      PROVE  EntryAt(Version, PlaceOf(shift, Version, Num(i))).block = ring[Num(i)]
  <2>1. PICK n \in Nat : n = Num(i)
    BY <1>2, <1>7
  <2>2. Ringed(n) /\ (n + 1 < Begun \/ ppc # "entry")
    BY <1>2, <1>4, <1>7, <2>1 DEF Ringed
  <2> QED
    BY <1>1, <2>1, <2>2 DEF RingListed
<1> QED
  BY <1>6, <1>7

LEMMA RingNames ==
  ASSUME RingSame
  PROVE  /\ Begun' = Begun /\ Listed' = Listed /\ Oldest' = Oldest /\ Version' = Version
         /\ \A n : Ringed(n)' <=> Ringed(n)
         /\ \A v : SizeOf(v)' = SizeOf(v) /\ FrontOf(v)' = FrontOf(v)
         /\ \A v : FrontGood(v)' <=> FrontGood(v)
         /\ \A v, p : EntryAt(v, p)' = EntryAt(v, p)
         /\ \A shift, v, n : PlaceOf(shift, v, n)' = PlaceOf(shift, v, n)
<1>1. Begun' = Begun
  BY DEF RingSame
<1>2. Listed' = Listed /\ Oldest' = Oldest /\ Version' = Version
  BY <1>1 DEF RingSame, Oldest, Version
<1>3. \A v : SizeOf(v)' = SizeOf(v) /\ FrontOf(v)' = FrontOf(v)
  BY DEF RingSame, SizeOf, FrontOf
<1>4. \A v, p : EntryAt(v, p)' = EntryAt(v, p)
  BY DEF RingSame, EntryAt
<1>5. \A v : FrontGood(v)' <=> FrontGood(v)
  BY <1>3, <1>4 DEF FrontGood
<1> QED
  BY <1>1, <1>2, <1>3, <1>4, <1>5 DEF Ringed, PlaceOf

LEMMA RingStays ==
  ASSUME NEW ring, NEW shift, RingInv(ring, shift), RingSame
  PROVE  RingInv(ring, shift)'
<1>1. RingTyped'
  BY RingNames DEF RingInv, RingTyped, RingSame
<1>5. RingLinked(ring)'
  BY RingNames DEF RingInv, RingLinked, RingSame
<1>2. RingListed(ring, shift)'
  BY RingNames DEF RingInv, RingListed, RingSame
<1>3. Congruent(shift)'
  BY RingNames DEF RingInv, Congruent, RingSame
<1>4. FrontSet'
  BY RingNames DEF RingInv, FrontSet
<1> QED
  BY <1>1, <1>2, <1>3, <1>4, <1>5 DEF RingInv

LEMMA FindsAllStays ==
  ASSUME NEW ring, NEW shift, NEW c \in Consumers, FindsAll(ring, shift, c), RingSame,
         cons'[c].ver = cons[c].ver, \A i \in Nat : Keeps(c, i)' => Keeps(c, i)
  PROVE  FindsAll(ring, shift, c)'
BY RingNames DEF FindsAll

LEMMA OthersFind ==
  ASSUME NEW ring, NEW shift, NEW d \in Consumers, Finds(ring, shift, d), RingSame,
         cons'[d] = cons[d], \A i \in Nat : Keeps(d, i)' => Keeps(d, i)
  PROVE  Finds(ring, shift, d)'
<1>1. Searching(d)' <=> Searching(d)
  BY DEF Searching
<1>2. Searching(d)' => FindsAll(ring, shift, d)'
  BY <1>1, FindsAllStays DEF Finds
<1> QED
  BY <1>2, RingNames DEF Finds

(* What a step of one consumer has to show.                                *)
LEMMA OneFinds ==
  ASSUME NEW ring, NEW shift, ExplicitWell(ring, shift), RingSame,
         NEW c \in Consumers, Only(c), Finds(ring, shift, c)',
         \A d \in Consumers \ {c}, i \in Int : Keeps(d, i)' <=> Keeps(d, i)
  PROVE  RingInv(ring, shift)' /\ AllFind(ring, shift)'
<1>1. RingInv(ring, shift)'
  BY RingStays DEF ExplicitWell
<1>2. ASSUME NEW d \in Consumers \ {c} PROVE Finds(ring, shift, d)'
  BY <1>2, OthersFind DEF ExplicitWell, AllFind, Only
<1> QED
  BY <1>1, <1>2 DEF AllFind

LEMMA FlagsStay ==
  ASSUME NEW ring, FlagsRight(ring), RingSame, UNCHANGED empty,
         \A i \in Int : Gone(i)' <=> Gone(i)
  PROVE  FlagsRight(ring)'
BY RingNames DEF FlagsRight

LEMMA KeptStays ==
  ASSUME KeptInRing, RingSame, headIndex' = headIndex,
         \A c \in Consumers, i \in Nat : Keeps(c, i)' => Keeps(c, i)
  PROVE  KeptInRing'
BY RingNames DEF KeptInRing, Start

(* A step that leaves what consumers keep as it is.                        *)
LEMMA CalmStep ==
  ASSUME CountInv, RangeInv, NEW ring, NEW shift, ExplicitWell(ring, shift), RingSame,
         UNCHANGED empty, NEW c \in Consumers, Aside(c) \/ Keeping(c), Finds(ring, shift, c)'
  PROVE  ExplicitWell(ring, shift)'
<1>1. KeepsSame /\ Only(c) /\ headIndex' = headIndex
  BY RangesAside DEF Aside, Keeping
<1>2. RingInv(ring, shift)' /\ AllFind(ring, shift)'
  BY <1>1, OneFinds DEF KeepsSame
<1>3. FlagsRight(ring)'
  BY <1>1, FlagsStay DEF ExplicitWell, KeepsSame
<1>4. KeptInRing'
  BY <1>1, KeptStays DEF ExplicitWell, KeepsSame
<1> QED
  BY <1>2, <1>3, <1>4 DEF ExplicitWell

LEMMA WellByClaim ==
  ASSUME CountInv, RangeInv, NEW ring, NEW shift, ExplicitWell(ring, shift),
         NEW c \in Consumers, E!Claim(c), UNCHANGED E!ringVars
  PROVE  ExplicitWell(ring, shift)'
<1>1. (Aside(c) \/ TakesNew(c)) /\ RingSame /\ UNCHANGED empty
  BY ExplicitClaim, ClaimTakes, SameRing DEF E!ringVars
<1>2. Finds(ring, shift, c)'
  BY <1>1 DEF Aside, TakesNew, Finds, Searching, Taking
<1>3. CASE Aside(c)
  BY <1>1, <1>2, <1>3, CalmStep
<1>4. CASE TakesNew(c)
  <2>1. KeepsMore(c) /\ Only(c)
    BY <1>4, RangesNew DEF TakesNew
  <2>2. RingInv(ring, shift)' /\ AllFind(ring, shift)'
    <3>1. \A d \in Consumers \ {c}, i \in Int : Keeps(d, i)' <=> Keeps(d, i)
      BY <2>1 DEF KeepsMore
    <3> QED
      BY <1>1, <1>2, <2>1, <3>1, OneFinds
  <2>3. FlagsRight(ring)'
    BY <1>1, <2>1, FlagsStay DEF ExplicitWell, KeepsMore
  <2>4. KeptInRing'
    <3>1. Oldest \in Int /\ Start(Oldest) \in Int /\ Num(Start(Oldest)) = Oldest
      <4>1. Oldest \in Int
        BY BegunTyped DEF Oldest, ExplicitWell, RingInv, RingTyped
      <4>2. 0 \in Offsets
        BY OffsetIs, SizeIs
      <4>3. Start(Oldest) \in Int /\ Num(Start(Oldest) + 0) = Oldest
        BY <4>1, <4>2, ItemOf, StartIs
      <4> QED
        BY <4>1, <4>3
    <3>2. Start(Oldest) <= headIndex /\ headIndex \in Nat /\ headIndex <= headIndex'
          /\ headIndex' \in Nat
      BY <1>4 DEF ExplicitWell, KeptInRing, CountInv, CountersTyped, TakesNew
    <3>3. ASSUME NEW d \in Consumers, NEW i \in Nat, Keeps(d, i)' PROVE Oldest <= Num(i)
      <4>1. CASE Keeps(d, i)
        BY <4>1 DEF ExplicitWell, KeptInRing
      <4>2. CASE ~ Keeps(d, i)
        <5>1. headIndex <= i
          BY <2>1, <3>3, <4>2 DEF KeepsMore
        <5>2. Start(Oldest) <= i
          BY <3>1, <3>2, <5>1
        <5> QED
          BY <3>1, <5>2, NumOrder
      <4> QED
        BY <4>1, <4>2
    <3>4. Oldest' = Oldest /\ Start(Oldest)' = Start(Oldest) /\ Start(Oldest) <= headIndex'
      BY <1>1, <3>1, <3>2, RingNames DEF Start
    <3> QED
      BY <3>3, <3>4 DEF KeptInRing
  <2> QED
    BY <1>1, <2>2, <2>3, <2>4 DEF ExplicitWell
<1> QED
  BY <1>1, <1>3, <1>4

LEMMA KeepingKeeps ==
  ASSUME RangeInv, NEW c \in Consumers, Keeping(c)
  PROVE  /\ HeldSame(c) /\ \A i \in Nat : Keeps(c, i)' => Keeps(c, i)
BY RangesAside DEF KeepsSame, Keeping

LEMMA WellByLoadIndex ==
  ASSUME CountInv, RangeInv, NEW ring, NEW shift, ExplicitWell(ring, shift),
         NEW c \in Consumers, E!LoadIndex(c)
  PROVE  ExplicitWell(ring, shift)'
<1>1. /\ Keeping(c) /\ RingSame /\ UNCHANGED empty
      /\ cons[c].pc = "index" /\ cons'[c].pc = "front" /\ cons'[c].ver = Version
  BY LoadIndexDoes DEF Version
<1>2. HeldSame(c) /\ \A i \in Nat : Keeps(c, i)' => Keeps(c, i)
  BY <1>1, KeepingKeeps
<1>3. /\ FrontGood(Version)
      /\ \A i \in Nat : Keeps(c, i) =>
           EntryAt(Version, PlaceOf(shift, Version, Num(i))).block = ring[Num(i)]
  BY <1>1, NewestFinds DEF ExplicitWell, Takes, Taking
<1>4. Version \in Nat /\ 1 <= Version
  BY DEF ExplicitWell, RingInv, RingTyped, Version
<1>5. FindsAll(ring, shift, c)'
  BY <1>1, <1>2, <1>3, <1>4, RingNames DEF FindsAll
<1>6. cons'[c].pos = cons'[c].first
  BY <1>1, <1>2 DEF ExplicitWell, AllFind, Finds, HeldSame
<1>7. Finds(ring, shift, c)'
  BY <1>1, <1>5, <1>6 DEF Finds
<1> QED
  BY <1>1, <1>7, CalmStep

LEMMA WellByLoadFront ==
  ASSUME CountInv, RangeInv, NEW ring, NEW shift, ExplicitWell(ring, shift),
         NEW c \in Consumers, E!LoadFront(c)
  PROVE  ExplicitWell(ring, shift)'
<1>1. /\ Keeping(c) /\ RingSame /\ UNCHANGED empty
      /\ cons[c].pc = "front" /\ cons'[c].pc = "base" /\ cons'[c].ver = cons[c].ver
      /\ cons'[c].front = FrontOf(cons[c].ver)
  BY LoadFrontDoes DEF FrontOf
<1>2. HeldSame(c) /\ \A i \in Nat : Keeps(c, i)' => Keeps(c, i)
  BY <1>1, KeepingKeeps
<1>3. Finds(ring, shift, c)
  BY DEF ExplicitWell, AllFind
<1>4. FindsAll(ring, shift, c) /\ FindsAll(ring, shift, c)'
  BY <1>1, <1>2, <1>3, FindsAllStays DEF Finds, Searching
<1>5. FrontGood(cons[c].ver)
  BY <1>4 DEF FindsAll
<1>6. cons'[c].pos = cons'[c].first
  BY <1>1, <1>2, <1>3 DEF Finds, HeldSame
<1>7. (/\ cons[c].front \in Nat /\ cons[c].front < SizeOf(cons[c].ver)
       /\ EntryAt(cons[c].ver, cons[c].front).block # 0)'
  BY <1>1, <1>5, RingNames DEF FrontGood
<1>8. Finds(ring, shift, c)'
  BY <1>1, <1>4, <1>6, <1>7 DEF Finds
<1> QED
  BY <1>1, <1>8, CalmStep

LEMMA WellByLoadBase ==
  ASSUME CountInv, RangeInv, NEW ring, NEW shift, ExplicitWell(ring, shift),
         NEW c \in Consumers, E!LoadBase(c)
  PROVE  ExplicitWell(ring, shift)'
<1> DEFINE v == cons[c].ver
           f == cons[c].front
           b == EntryAt(v, f).base
<1>1. /\ Keeping(c) /\ RingSame /\ UNCHANGED empty
      /\ cons[c].pc = "base" /\ cons'[c].pc = "block" /\ cons'[c].ver = v
      /\ cons'[c].slot = (f + ((BaseOf(cons[c].first) - b) \div BlockSize)) % SizeOf(v)
  BY LoadBaseDoes DEF EntryAt, SizeOf
<1>2. HeldSame(c) /\ \A i \in Nat : Keeps(c, i)' => Keeps(c, i)
  BY <1>1, KeepingKeeps
<1>3. Finds(ring, shift, c) /\ RingTyped /\ Congruent(shift)
  BY DEF ExplicitWell, AllFind, RingInv
<1>4. FindsAll(ring, shift, c) /\ FindsAll(ring, shift, c)'
  BY <1>1, <1>2, <1>3, FindsAllStays DEF Finds, Searching
<1>5. /\ v \in Nat /\ 1 <= v /\ v <= Version /\ f \in Nat /\ f < SizeOf(v)
      /\ EntryAt(v, f).block # 0 /\ cons[c].pos = cons[c].first
  BY <1>1, <1>3, <1>4 DEF Finds, FindsAll
<1>6. /\ SizeOf(v) \in Nat \ {0} /\ b \in Nat /\ Off(b) = 0 /\ shift[v] \in Int
      /\ (f - Num(b)) % SizeOf(v) = shift[v] % SizeOf(v)
  BY <1>3, <1>5, IndexTyped DEF Congruent
<1>7. cons[c].first \in Nat /\ cons'[c].pos = cons[c].first
  BY <1>1, <1>2, <1>5, TakesPos DEF Takes, Taking, HeldSame
<1> HIDE DEF v, f, b
<1>8. (BaseOf(cons[c].first) - b) \div BlockSize = Num(cons[c].first) - Num(b)
  <2>1. /\ BaseOf(cons[c].first) \in Int /\ Off(BaseOf(cons[c].first)) = 0
        /\ Num(BaseOf(cons[c].first)) = Num(cons[c].first)
    BY <1>7, BaseIs
  <2> QED
    BY <1>6, <2>1, DivOfBases
<1>9. PICK n \in Int, m \in Int, z \in Nat \ {0}, s \in Int, g \in Int :
        /\ n = Num(cons[c].first) /\ m = Num(b) /\ z = SizeOf(v) /\ s = shift[v] /\ g = f
  BY <1>5, <1>6, <1>7, NumNat
<1>10. (g + (n - m)) % z = (s + n) % z
  <2>1. (g - m) % z = s % z
    BY <1>6, <1>9
  <2>4. g - m \in Int
    OBVIOUS
  <2>5. Shifts(g - m, s, n, z)
    BY <2>4, ModShifts
  <2>2. ((g - m) + n) % z = (s + n) % z
    BY <2>1, <2>5 DEF Shifts
  <2>3. g + (n - m) = (g - m) + n
    OBVIOUS
  <2> QED
    BY <2>2, <2>3
<1>11. cons'[c].slot = PlaceOf(shift, v, Num(cons[c].first))
  BY <1>1, <1>8, <1>9, <1>10 DEF PlaceOf
<1>12. Finds(ring, shift, c)'
  BY <1>1, <1>4, <1>7, <1>11, RingNames DEF Finds
<1> QED
  BY <1>1, <1>12, CalmStep

LEMMA WellByLoadBlock ==
  ASSUME CountInv, RangeInv, NEW ring, NEW shift, ExplicitWell(ring, shift),
         NEW c \in Consumers, E!LoadBlock(c)
  PROVE  ExplicitWell(ring, shift)'
<1>1. /\ Keeping(c) /\ RingSame /\ UNCHANGED empty
      /\ cons[c].pc = "block" /\ cons'[c].pc = "read" /\ cons'[c].ver = cons[c].ver
      /\ cons'[c].slot = cons[c].slot
      /\ cons'[c].block = EntryAt(cons[c].ver, cons[c].slot).block
  BY LoadBlockDoes DEF EntryAt
<1>2. HeldSame(c) /\ \A i \in Nat : Keeps(c, i)' => Keeps(c, i)
  BY <1>1, KeepingKeeps
<1>3. Finds(ring, shift, c)
  BY DEF ExplicitWell, AllFind
<1>4. FindsAll(ring, shift, c) /\ FindsAll(ring, shift, c)'
  BY <1>1, <1>2, <1>3, FindsAllStays DEF Finds, Searching
<1>5. Keeps(c, cons[c].pos) /\ cons[c].pos \in Nat
  BY <1>1, TakesPos DEF Takes, Taking
<1>6. cons[c].slot = PlaceOf(shift, cons[c].ver, Num(cons[c].pos))
  BY <1>1, <1>3 DEF Finds
<1>7. cons'[c].block = ring[Num(cons[c].pos)]
  BY <1>1, <1>4, <1>5, <1>6 DEF FindsAll
<1>8. Finds(ring, shift, c)'
  BY <1>1, <1>2, <1>4, <1>6, <1>7, RingNames DEF Finds, HeldSame
<1> QED
  BY <1>1, <1>8, CalmStep

LEMMA WellByReadItems ==
  ASSUME CountInv, RangeInv, NEW ring, NEW shift, ExplicitWell(ring, shift),
         NEW c \in Consumers, E!ReadItems(c), UNCHANGED E!ringVars
  PROVE  ExplicitWell(ring, shift)'
<1>1. /\ Keeping(c) /\ RingSame /\ UNCHANGED empty
      /\ cons[c].pc = "read" /\ cons'[c].pc = "empty" /\ cons'[c].ver = cons[c].ver
      /\ cons'[c].slot = cons[c].slot /\ cons'[c].block = cons[c].block
  BY ReadItemsDoes
<1>2. HeldSame(c) /\ \A i \in Nat : Keeps(c, i)' => Keeps(c, i)
  BY <1>1, KeepingKeeps
<1>3. Finds(ring, shift, c)
  BY DEF ExplicitWell, AllFind
<1>4. FindsAll(ring, shift, c)'
  BY <1>1, <1>2, <1>3, FindsAllStays DEF Finds, Searching
<1>5. Finds(ring, shift, c)'
  BY <1>1, <1>2, <1>3, <1>4, RingNames DEF Finds, HeldSame
<1> QED
  BY <1>1, <1>5, CalmStep

LEMMA NextPlace ==
  ASSUME NEW x \in Int, NEW m \in Nat \ {0}
  PROVE  ((x % m) + 1) % m = (x + 1) % m
<1>1. PICK r \in Int : r = x % m
  BY PlaceTyped
<1>2. r % m = x % m
  BY <1>1, ModMod
<1>3. Shifts(r, x, 1, m)
  BY ModShifts
<1>4. (r + 1) % m = (x + 1) % m
  BY <1>2, <1>3 DEF Shifts
<1> QED
  BY <1>1, <1>4

(* The block of kept items is in the ring.                                 *)
LEMMA KeptRinged ==
  ASSUME CountInv, RangeInv, NEW ring, NEW shift, RingInv(ring, shift), KeptInRing,
         NEW c \in Consumers, NEW i \in Nat, Keeps(c, i)
  PROVE  Num(i) \in Nat /\ Ringed(Num(i)) /\ ring[Num(i)] \in Blocks
<1>1. Num(i) \in Nat /\ Num(i) < Begun
  BY HeldItem, BegunCovers DEF RingInv
<1>2. Ringed(Num(i))
  BY <1>1 DEF KeptInRing, Ringed
<1>3. 1 <= ring[Num(i)] /\ ring[Num(i)] <= slotsUsed /\ ring[Num(i)] \in Nat
  BY <1>1, <1>2 DEF RingInv, RingLinked
<1>4. slotsUsed <= BlockNum /\ slotsUsed \in Nat /\ BlockNum \in Nat
  BY SizeAssumption DEF RingInv, RingTyped
<1> QED
  BY <1>1, <1>2, <1>3, <1>4 DEF Blocks

LEMMA WellBySetManyEmpty ==
  ASSUME CountInv, RangeInv, NEW ring, NEW shift, ExplicitWell(ring, shift),
         NEW c \in Consumers, E!SetManyEmpty(c)
  PROVE  ExplicitWell(ring, shift)'
<1>1. /\ GoesOn(c) /\ RingSame /\ cons[c].pc = "empty" /\ Only(c) /\ headIndex' = headIndex
      /\ cons'[c].pc = "block" =>
              /\ cons'[c].ver = cons[c].ver
              /\ cons'[c].slot = (cons[c].slot + 1) % SizeOf(cons[c].ver)
  BY SetManyEmptyDoes DEF SizeOf, GoesOn
<1>2. KeepsLess(c)
  BY <1>1, RangesMark
<1>3. Finds(ring, shift, c) /\ RingInv(ring, shift) /\ RingTyped /\ KeptInRing
      /\ RingLinked(ring) /\ FlagsRight(ring)
  BY DEF ExplicitWell, AllFind, RingInv
<1>4. Takes(c) /\ RangeTyped(c) /\ cons[c].pos \in Nat /\ Keeps(c, cons[c].pos)
  BY <1>1, TakesPos DEF Takes, Taking
<1>5. /\ Num(cons[c].pos) \in Nat /\ Ringed(Num(cons[c].pos))
      /\ cons[c].block = ring[Num(cons[c].pos)] /\ cons[c].block \in Blocks
  BY <1>1, <1>3, <1>4, KeptRinged DEF Finds
<1>6. ASSUME cons'[c].pc = "block" PROVE Finds(ring, shift, c)'
  <2>1. Until(c) # End(c) /\ cons'[c].pos = Until(c) /\ Num(Until(c)) = Num(cons[c].pos) + 1
    BY <1>1, <1>4, <1>6, UntilNum DEF GoesOn
  <2>2. FindsAll(ring, shift, c) /\ FindsAll(ring, shift, c)'
    BY <1>1, <1>2, <1>3, <1>6, FindsAllStays DEF Finds, Searching, KeepsLess
  <2>3. /\ cons[c].slot = PlaceOf(shift, cons[c].ver, Num(cons[c].pos))
        /\ cons[c].ver \in Nat /\ 1 <= cons[c].ver /\ cons[c].ver <= Version
    BY <1>1, <1>3, <2>2 DEF Finds, FindsAll
  <2>4. PICK s \in Int, n \in Nat, z \in Nat \ {0} :
          s = shift[cons[c].ver] /\ n = Num(cons[c].pos) /\ z = SizeOf(cons[c].ver)
    BY <1>3, <1>5, <2>3, IndexTyped DEF RingInv, Congruent
  <2>5. (((s + n) % z) + 1) % z = (s + (n + 1)) % z
    <3>1. (((s + n) % z) + 1) % z = ((s + n) + 1) % z
      <4>1. s + n \in Int
        OBVIOUS
      <4> QED
        BY <4>1, NextPlace
    <3>2. (s + n) + 1 = s + (n + 1)
      OBVIOUS
    <3> QED
      BY <3>1, <3>2
  <2>6. cons'[c].slot = PlaceOf(shift, cons[c].ver, Num(cons'[c].pos))
    BY <1>1, <1>6, <2>1, <2>3, <2>4, <2>5 DEF PlaceOf
  <2> QED
    BY <1>1, <1>6, <2>2, <2>6, RingNames DEF Finds
<1>7. Finds(ring, shift, c)'
  <2>1. cons'[c].pc = "block" \/ cons'[c].pc = "idle"
    BY <1>1 DEF GoesOn
  <2> QED
    BY <1>6, <2>1 DEF Finds, Searching
<1>8. RingInv(ring, shift)' /\ AllFind(ring, shift)'
  <2>1. \A d \in Consumers \ {c}, i \in Int : Keeps(d, i)' <=> Keeps(d, i)
    BY <1>2 DEF KeepsLess
  <2> QED
    BY <1>1, <1>7, <2>1, OneFinds
<1>9. KeptInRing'
  <2>1. \A d \in Consumers, i \in Nat : Keeps(d, i)' => Keeps(d, i)
    BY <1>2 DEF KeepsLess
  <2> QED
    BY <1>1, <1>3, <2>1, KeptStays
<1>10. empty' = [a \in Blocks |-> [o \in Offsets |->
                        empty[a][o] \/ (a = cons[c].block
                          /\ \E i \in cons[c].pos..(Until(c) - 1) : o = Off(i))]]
  BY SetManyEmptyDoes
<1>11. empty' \in [Blocks -> [Offsets -> BOOLEAN]]
  BY <1>10
<1>12. FlagsRight(ring)'
  <2> SUFFICES ASSUME NEW i \in Nat, Ringed(Num(i))
               PROVE  empty'[ring[Num(i)]][Off(i)] <=> Gone(i)'
    BY <1>1, RingNames DEF FlagsRight
  <2>1. Num(i) \in Nat /\ Off(i) \in Offsets /\ ring[Num(i)] \in Blocks
    <3>1. Num(i) \in Nat /\ Off(i) \in Offsets
      BY NumNat
    <3>2. 1 <= ring[Num(i)] /\ ring[Num(i)] <= slotsUsed /\ ring[Num(i)] \in Nat
      BY <1>3, <3>1 DEF RingLinked
    <3>3. slotsUsed <= BlockNum /\ slotsUsed \in Nat /\ BlockNum \in Nat
      BY <1>3, SizeAssumption DEF RingTyped
    <3> QED
      BY <3>1, <3>2, <3>3 DEF Blocks
  <2>2. ring[Num(i)] = cons[c].block => Num(i) = Num(cons[c].pos)
    BY <1>3, <1>5, <2>1 DEF RingLinked
  <2>3. PICK p \in Nat, u \in Nat : p = cons[c].pos /\ u = Until(c)
    BY <1>4, UntilIs
  <2>4. ASSUME NEW j \in p..(u - 1), Off(i) = Off(j), ring[Num(i)] = cons[c].block
        PROVE  Marks(c, i)
    <3>1. j \in Int /\ p <= j /\ j < u
      OBVIOUS
    <3>2. Num(j) = Num(i)
      BY <1>4, <2>2, <2>3, <2>4, <3>1, UntilNum
    <3>3. i = j
      BY <2>4, <3>1, <3>2, SameItem
    <3> QED
      BY <2>3, <3>1, <3>3 DEF Marks
  <2>5. ASSUME Marks(c, i) PROVE i \in p..(u - 1) /\ ring[Num(i)] = cons[c].block
    <3>1. p <= i /\ i < u
      BY <2>3, <2>5 DEF Marks
    <3>2. Num(i) = Num(cons[c].pos)
      BY <1>4, <2>3, <3>1, UntilNum
    <3> QED
      BY <1>5, <3>1, <3>2
  <2>6. empty'[ring[Num(i)]][Off(i)] <=>
          empty[ring[Num(i)]][Off(i)]
            \/ (ring[Num(i)] = cons[c].block /\ \E j \in p..(u - 1) : Off(i) = Off(j))
    BY <1>10, <2>1, <2>3
  <2>7. empty'[ring[Num(i)]][Off(i)] <=> empty[ring[Num(i)]][Off(i)] \/ Marks(c, i)
    BY <2>4, <2>5, <2>6
  <2>8. Gone(i)' <=> Gone(i) \/ Marks(c, i)
    BY <1>2 DEF KeepsLess
  <2>9. empty[ring[Num(i)]][Off(i)] <=> Gone(i)
    BY <1>3 DEF FlagsRight
  <2> QED
    BY <2>7, <2>8, <2>9
<1> QED
  BY <1>8, <1>9, <1>11, <1>12 DEF ExplicitWell

LEMMA WellByDequeue ==
  ASSUME CountInv, RangeInv, NEW ring, NEW shift, ExplicitWell(ring, shift),
         NEW c \in Consumers, E!Dequeue(c)
  PROVE  ExplicitWell(ring, shift)'
BY WellByClaim, WellByReadItems, WellByLoadIndex, WellByLoadFront, WellByLoadBase,
   WellByLoadBlock, WellBySetManyEmpty DEF E!Dequeue

-----------------------------------------------------------------------------
(* Steps of the producer keep it.                                          *)

LEMMA ExceptSeq ==
  ASSUME NEW S, NEW s \in Seq(S), NEW k \in 1..Len(s), NEW e \in S
  PROVE  /\ [s EXCEPT ![k] = e] \in Seq(S) /\ Len([s EXCEPT ![k] = e]) = Len(s)
         /\ \A j \in 1..Len(s) : [s EXCEPT ![k] = e][j] = IF j = k THEN e ELSE s[j]
OBVIOUS

LEMMA AppendSeq ==
  ASSUME NEW S, NEW s \in Seq(S), NEW e \in S
  PROVE  /\ Append(s, e) \in Seq(S) /\ Len(Append(s, e)) = Len(s) + 1 /\ Len(s) \in Nat
         /\ \A j \in 1..Len(s) : Append(s, e)[j] = s[j]
         /\ Append(s, e)[Len(s) + 1] = e
OBVIOUS

(* Consumers are not disturbed by what the producer adds.                  *)
LEMMA FindsOn ==
  ASSUME CountInv, RangeInv, RingTyped, UNCHANGED <<headIndex, cons>>,
         NEW ring, NEW shift, NEW c \in Consumers, Finds(ring, shift, c),
         NEW r2, NEW s2, \A n \in Nat : n < Begun => r2[n] = ring[n],
         Version' \in Nat, Version <= Version',
         \A v \in Nat : 1 <= v /\ v <= Version =>
           /\ SizeOf(v)' = SizeOf(v) /\ s2[v] = shift[v] /\ (FrontGood(v) => FrontGood(v)')
           /\ \A p \in Nat : p < SizeOf(v) /\ EntryAt(v, p).block # 0 => EntryAt(v, p).block' # 0,
         LET v == cons[c].ver IN
           Searching(c) => \A i \in Nat : Keeps(c, i) =>
             EntryAt(v, PlaceOf(shift, v, Num(i))).block' = EntryAt(v, PlaceOf(shift, v, Num(i))).block
  PROVE  Finds(r2, s2, c)'
<1> DEFINE v == cons[c].ver
<1>1. \A i \in Int : Keeps(c, i)' <=> Keeps(c, i)
  BY RangesOther DEF KeepsSame
<1>2. ASSUME NEW i \in Nat, Keeps(c, i) PROVE r2[Num(i)] = ring[Num(i)]
  BY <1>2, HeldItem, BegunCovers
<1>3. ASSUME Searching(c)
      PROVE  /\ v \in Nat /\ 1 <= v /\ v <= Version /\ v <= Version' /\ FrontGood(v)'
             /\ SizeOf(v)' = SizeOf(v) /\ s2[v] = shift[v]
  <2>1. v \in Nat /\ 1 <= v /\ v <= Version /\ FrontGood(v)
    BY <1>3 DEF Finds, FindsAll
  <2>2. Version \in Nat
    BY DEF RingTyped, Version
  <2> QED
    BY <2>1, <2>2
<1>4. ASSUME Searching(c) PROVE FindsAll(r2, s2, c)'
  <2>1. ASSUME NEW i \in Nat, Keeps(c, i)
        PROVE  EntryAt(v, PlaceOf(s2, v, Num(i))).block' = r2[Num(i)]
    <3>1. EntryAt(v, PlaceOf(shift, v, Num(i))).block' = ring[Num(i)]
      BY <1>4, <2>1 DEF Finds, FindsAll
    <3>2. PlaceOf(s2, v, Num(i))' = PlaceOf(shift, v, Num(i))'
      BY <1>3, <1>4 DEF PlaceOf
    <3> QED
      BY <1>2, <2>1, <3>1, <3>2 DEF EntryAt
  <2> QED
    BY <1>1, <1>3, <1>4, <2>1 DEF FindsAll
<1>5. cons[c].pc \in {"block", "read", "empty"} => cons[c].slot = PlaceOf(s2, v, Num(cons[c].pos))'
  BY <1>3 DEF Finds, PlaceOf, Searching
<1>6. cons[c].pc \in {"read", "empty"} => cons[c].block = r2[Num(cons[c].pos)]
  BY <1>2, TakesPos DEF Finds, Takes, Taking
<1>7. cons[c].pc = "base" => /\ cons[c].front \in Nat /\ cons[c].front < SizeOf(v)'
                             /\ EntryAt(v, cons[c].front).block' # 0
  BY <1>3 DEF Finds, Searching
<1>8. Searching(c)' <=> Searching(c)
  BY DEF Searching
<1> QED
  BY <1>4, <1>5, <1>6, <1>7, <1>8 DEF Finds

LEMMA WellByProduce ==
  ASSUME CountInv, RangeInv, NEW ring, NEW shift, ExplicitWell(ring, shift),
         E!Produce, UNCHANGED E!ringVars
  PROVE  ExplicitWell(ring, shift)'
<1>1. Staged /\ tailIndex \in Nat
  BY DEF ExplicitWell, RingInv, RingTyped, CountInv, CountersTyped
<1>2. UNCHANGED <<headIndex, cons, empty, tailBlock, next, blockIndex, slotsUsed, indexFront>>
  BY DEF E!Produce, E!StoreElem, E!StoreTail, E!counters, E!ringVars
<1>3. RingSame
  <2>1. CASE E!StoreElem
    <3>1. (ppc = "idle" /\ Off(tailIndex) # 0) \/ ppc = "elem"
      BY <2>1 DEF E!StoreElem, E!HasRoom, Off
    <3>2. ppc' = "tail" /\ tailIndex' = tailIndex
      BY <2>1 DEF E!StoreElem, E!counters
    <3>3. Begun' = Begun
      BY <3>1, <3>2 DEF Begun
    <3>4. Listed' = Listed
      BY <3>1, <3>2, <3>3 DEF Listed
    <3> QED
      BY <1>2, <3>1, <3>2, <3>3, <3>4 DEF RingSame, Staged
  <2>2. CASE E!StoreTail
    <3>1. ppc = "tail" /\ ppc' = "idle" /\ tailIndex' = tailIndex + 1
      BY <2>2 DEF E!StoreTail
    <3>2. PICK t \in Nat, u \in Int : t = tailIndex /\ u = t + 1
      BY <1>1
    <3>3. /\ Off(u) = 0 => Num(u) = Num(t) + 1
          /\ Off(u) # 0 => Num(u) = Num(t)
      BY <3>2, NextNum
    <3>4. Begun = Num(t) + 1
      BY <3>1, <3>2 DEF Begun
    <3>5. Begun' = IF Off(u) = 0 THEN Num(u) ELSE Num(u) + 1
      BY <3>1, <3>2 DEF Begun, Off, Num
    <3>6. Begun' = Begun
      BY <3>3, <3>4, <3>5
    <3>7. Listed' = Listed
      BY <3>1, <3>6 DEF Listed
    <3> QED
      BY <1>2, <3>1, <3>6, <3>7 DEF RingSame, Staged
  <2> QED
    BY <2>1, <2>2 DEF E!Produce
<1>4. KeepsSame
  BY <1>2, RangesOther
<1>5. RingInv(ring, shift)'
  BY <1>3, RingStays DEF ExplicitWell
<1>6. AllFind(ring, shift)'
  BY <1>2, <1>3, <1>4, OthersFind DEF AllFind, KeepsSame, ExplicitWell
<1>7. FlagsRight(ring)'
  BY <1>2, <1>3, <1>4, FlagsStay DEF ExplicitWell, KeepsSame
<1>8. KeptInRing'
  BY <1>2, <1>3, <1>4, KeptStays DEF ExplicitWell, KeepsSame
<1> QED
  BY <1>2, <1>5, <1>6, <1>7, <1>8 DEF ExplicitWell

(* What holds when a block is to be begun.                                 *)
LEMMA AtNeedsBlock ==
  ASSUME CountInv, NEW ring, NEW shift, RingInv(ring, shift), E!NeedsBlock
  PROVE  /\ ppc = "idle" /\ Off(tailIndex) = 0 /\ tailIndex \in Nat
         /\ Begun = Num(tailIndex) /\ Listed = Begun /\ Begun \in Nat
         /\ Oldest \in Nat /\ slotsUsed \in Nat /\ Oldest + slotsUsed = Begun
         /\ (Begun > 0 => slotsUsed > 0)
         /\ (tailBlock = 0 <=> Begun = 0)
         /\ (Begun > 0 => /\ tailBlock = ring[Begun - 1] /\ Ringed(Begun - 1) /\ Ringed(Oldest)
                          /\ next[tailBlock] = ring[Oldest]
                          /\ tailBlock \in 1..slotsUsed /\ ring[Oldest] \in 1..slotsUsed)
         /\ 1..slotsUsed \subseteq Blocks
<1>1. ppc = "idle" /\ Off(tailIndex) = 0
  BY DEF E!NeedsBlock, Off
<1>2. Begun = Num(tailIndex) /\ Listed = Begun /\ tailIndex \in Nat /\ Begun \in Nat
  BY <1>1, BegunTyped DEF Begun, Listed
<1>3. /\ slotsUsed \in Nat /\ slotsUsed <= Begun /\ slotsUsed <= BlockNum /\ BlockNum \in Nat
      /\ (Begun > 0 => slotsUsed > 0) /\ (Begun = 0 => tailBlock = 0)
  BY SizeAssumption DEF RingInv, RingTyped
<1>4. Oldest \in Nat /\ Oldest + slotsUsed = Begun
  BY <1>2, <1>3 DEF Oldest
<1>5. ASSUME Begun > 0
      PROVE  /\ tailBlock = ring[Begun - 1] /\ Ringed(Begun - 1) /\ Ringed(Oldest)
             /\ next[tailBlock] = ring[Oldest]
             /\ tailBlock \in 1..slotsUsed /\ ring[Oldest] \in 1..slotsUsed
  <2>1. Ringed(Begun - 1) /\ Ringed(Oldest) /\ Begun - 1 \in Nat
    BY <1>2, <1>3, <1>4, <1>5 DEF Ringed
  <2>2. /\ tailBlock = ring[Begun - 1] /\ next[tailBlock] = ring[Oldest]
        /\ ring[Begun - 1] \in Nat /\ ring[Oldest] \in Nat
        /\ 1 <= ring[Begun - 1] /\ ring[Begun - 1] <= slotsUsed
        /\ 1 <= ring[Oldest] /\ ring[Oldest] <= slotsUsed
    BY <1>4, <1>5, <2>1 DEF RingInv, RingLinked
  <2> QED
    BY <1>3, <2>1, <2>2
<1>6. 1..slotsUsed \subseteq Blocks
  BY <1>3 DEF Blocks
<1>7. tailBlock = 0 <=> Begun = 0
  BY <1>2, <1>3, <1>5
<1> QED
  BY <1>1, <1>2, <1>3, <1>4, <1>5, <1>6, <1>7

(* The items of the block to be begun are not gone.                        *)
LEMMA NewNotGone ==
  ASSUME CountInv, Off(tailIndex) = 0, NEW i \in Nat, Num(tailIndex) <= Num(i)
  PROVE  ~ Gone(i)
<1>1. tailIndex \in Nat /\ headIndex \in Nat /\ headIndex <= tailIndex
  BY CountInvBehind DEF CountInv, CountersTyped, HeadBehindTail
<1>2. Num(i) \in Int /\ Num(tailIndex) \in Int
  BY <1>1, NumNat
<1>3. ~ (i < tailIndex)
  BY <1>1, <1>2, BeforeBase
<1> QED
  BY <1>1, <1>3 DEF Gone

LEMMA FlagsTyped ==
  ASSUME empty \in [Blocks -> [Offsets -> BOOLEAN]], NEW b \in Blocks,
         empty' = [empty EXCEPT ![b] = [o \in Offsets |-> FALSE]]
  PROVE  /\ empty' \in [Blocks -> [Offsets -> BOOLEAN]]
         /\ \A o \in Offsets : empty'[b][o] = FALSE
         /\ \A a \in Blocks : a # b => empty'[a] = empty[a]
OBVIOUS

(* The oldest block is empty and becomes the newest.                       *)
LEMMA WellByReuseBlock ==
  ASSUME CountInv, RangeInv, NEW ring, NEW shift, ExplicitWell(ring, shift), E!ReuseBlock
  PROVE  \E r2 : ExplicitWell(r2, shift)'
<1>a. PICK b : b = ring[Oldest]
  OBVIOUS
<1>b. PICK r2 : r2 = [n \in Nat |-> IF n = Begun THEN b ELSE ring[n]]
  OBVIOUS
<1>1. /\ RingInv(ring, shift) /\ RingTyped /\ RingLinked(ring) /\ RingListed(ring, shift)
      /\ Congruent(shift) /\ FrontSet /\ FlagsRight(ring) /\ KeptInRing /\ AllFind(ring, shift)
      /\ empty \in [Blocks -> [Offsets -> BOOLEAN]]
  BY DEF ExplicitWell, RingInv
<1>2. /\ E!NeedsBlock /\ tailBlock # 0 /\ \A o \in Offsets : empty[next[tailBlock]][o]
      /\ tailBlock' = next[tailBlock] /\ ppc' = "entry"
      /\ empty' = [empty EXCEPT ![next[tailBlock]] = [o \in Offsets |-> FALSE]]
      /\ UNCHANGED <<tailIndex, headIndex, cons, next, blockIndex, slotsUsed, indexFront>>
  BY ExplicitParts DEF E!ReuseBlock, E!CanReuse, E!IsEmpty, E!ResetEmpty, E!counters
<1>3. /\ ppc = "idle" /\ Off(tailIndex) = 0 /\ tailIndex \in Nat
      /\ Begun = Num(tailIndex) /\ Listed = Begun /\ Begun \in Nat
      /\ Oldest \in Nat /\ slotsUsed \in Nat /\ Oldest + slotsUsed = Begun
      /\ (tailBlock = 0 <=> Begun = 0)
      /\ 1..slotsUsed \subseteq Blocks
  BY <1>1, <1>2, AtNeedsBlock
<1>4. /\ Begun > 0 /\ slotsUsed > 0
      /\ tailBlock = ring[Begun - 1] /\ Ringed(Begun - 1) /\ Ringed(Oldest)
      /\ next[tailBlock] = b /\ b \in 1..slotsUsed /\ b \in Blocks
  BY <1>1, <1>2, <1>3, <1>a, AtNeedsBlock
<1>5. /\ Begun' = Begun + 1 /\ Listed' = Begun /\ Oldest' = Oldest + 1 /\ Version' = Version
      /\ \A n \in Nat : Ringed(n)' <=> n = Begun \/ (Ringed(n) /\ n # Oldest)
      /\ \A v : SizeOf(v)' = SizeOf(v) /\ FrontOf(v)' = FrontOf(v)
      /\ \A v : FrontGood(v)' <=> FrontGood(v)
      /\ \A v, p : EntryAt(v, p)' = EntryAt(v, p)
      /\ \A v, n : PlaceOf(shift, v, n)' = PlaceOf(shift, v, n)
  <2>1. Begun' = Begun + 1
    BY <1>2, <1>3 DEF Begun
  <2>2. Listed' = Begun
    BY <1>2, <1>3, <2>1 DEF Listed
  <2>3. Oldest' = Oldest + 1 /\ Version' = Version
    BY <1>2, <1>3, <2>1 DEF Oldest, Version
  <2>4. \A n \in Nat : Ringed(n)' <=> n = Begun \/ (Ringed(n) /\ n # Oldest)
    BY <1>3, <1>4, <2>1, <2>3 DEF Ringed
  <2>5. \A v : SizeOf(v)' = SizeOf(v) /\ FrontOf(v)' = FrontOf(v)
    BY <1>2 DEF SizeOf, FrontOf
  <2>6. \A v, p : EntryAt(v, p)' = EntryAt(v, p)
    BY <1>2 DEF EntryAt
  <2>7. \A v : FrontGood(v)' <=> FrontGood(v)
    BY <2>5, <2>6 DEF FrontGood
  <2> QED
    BY <2>1, <2>2, <2>3, <2>4, <2>5, <2>6, <2>7 DEF PlaceOf
<1>6. /\ r2 \in [Nat -> Nat] /\ r2[Begun] = b
      /\ \A n \in Nat : n # Begun => r2[n] = ring[n]
  BY <1>1, <1>3, <1>4, <1>b DEF RingLinked
<1>7. ASSUME NEW n \in Nat, Ringed(n) PROVE ring[n] = b => n = Oldest
  BY <1>a, <1>1, <1>3, <1>4, <1>7 DEF RingLinked
<1>8. ASSUME NEW n \in Nat, Ringed(n) PROVE n < Begun /\ ring[n] \in 1..slotsUsed /\ ring[n] \in Blocks
  <2>1. n < Begun /\ ring[n] \in Nat /\ 1 <= ring[n] /\ ring[n] <= slotsUsed
    BY <1>1, <1>8 DEF RingLinked, Ringed
  <2> QED
    BY <1>3, <2>1
<1>9. RingTyped'
  <2>1. Staged'
    BY <1>2, <1>3 DEF Staged
  <2>2. /\ blockIndex' \in Seq(Headers) /\ Version' >= 1 /\ slotsUsed' \in Nat
        /\ slotsUsed' <= SizeOf(Version)' /\ slotsUsed' <= BlockNum
        /\ indexFront' \in Nat /\ indexFront' < SizeOf(Version)' /\ next' \in [Blocks -> Nat]
    BY <1>1, <1>2, <1>5 DEF RingTyped
  <2>3. slotsUsed' <= Begun' /\ slotsUsed' > 0 /\ Begun' # 0
    <3>1. slotsUsed <= Begun
      BY <1>3
    <3> QED
      BY <1>2, <1>3, <1>4, <1>5, <3>1
  <2> QED
    BY <2>1, <2>2, <2>3 DEF RingTyped
<1>10. RingLinked(r2)'
  <2>1. ASSUME NEW n \in Nat, Ringed(n)' PROVE 1 <= r2[n] /\ r2[n] <= slotsUsed'
    BY <1>2, <1>4, <1>5, <1>6, <1>8, <2>1
  <2>2. ASSUME NEW n \in Nat, NEW m \in Nat, Ringed(n)', Ringed(m)', r2[n] = r2[m] PROVE n = m
    <3>1. CASE n = Begun /\ m # Begun
      BY <1>5, <1>6, <1>7, <2>2, <3>1
    <3>2. CASE n # Begun /\ m = Begun
      BY <1>5, <1>6, <1>7, <2>2, <3>2
    <3>3. CASE n # Begun /\ m # Begun
      BY <1>1, <1>5, <1>6, <2>2, <3>3 DEF RingLinked
    <3> QED
      BY <3>1, <3>2, <3>3
  <2>3. ASSUME NEW n \in Nat, Ringed(n)', n + 1 < Begun' PROVE next'[r2[n]] = r2[n + 1]
    <3>1. n < Begun /\ Ringed(n) /\ r2[n] = ring[n] /\ n + 1 \in Nat
      BY <1>3, <1>5, <1>6, <2>3
    <3>2. CASE n + 1 = Begun
      <4>1. n = Begun - 1
        BY <1>3, <3>2
      <4> QED
        <5>1. r2[n] = tailBlock /\ r2[n + 1] = b
          BY <1>4, <1>6, <3>1, <3>2, <4>1
        <5> QED
          BY <1>2, <1>4, <5>1
    <3>3. CASE n + 1 # Begun
      <4>1. n + 1 < Begun
        BY <1>3, <3>1, <3>3
      <4>2. next[ring[n]] = ring[n + 1]
        BY <1>1, <3>1, <4>1 DEF RingLinked
      <4> QED
        BY <1>2, <1>6, <3>1, <3>3, <4>2
    <3> QED
      BY <3>2, <3>3
  <2>4. tailBlock' = r2[Begun' - 1]
    BY <1>2, <1>3, <1>4, <1>5, <1>6
  <2>5. next'[tailBlock'] = r2[Oldest']
    <3>1. next'[tailBlock'] = next[b] /\ Oldest' = Oldest + 1 /\ Oldest + 1 \in Nat
      BY <1>2, <1>3, <1>4, <1>5
    <3>2. CASE Oldest + 1 = Begun
      <4>1. Oldest = Begun - 1
        BY <1>3, <3>2
      <4> QED
        BY <1>a, <1>4, <1>6, <3>1, <3>2, <4>1
    <3>3. CASE Oldest + 1 # Begun
      <4>1. Oldest + 1 < Begun
        BY <1>3, <1>4, <3>3
      <4>2. next[ring[Oldest]] = ring[Oldest + 1]
        BY <1>1, <1>3, <1>4, <4>1 DEF RingLinked
      <4> QED
        BY <1>a, <1>6, <3>1, <3>3, <4>2
    <3> QED
      BY <3>2, <3>3
  <2> QED
    BY <1>6, <2>1, <2>2, <2>3, <2>4, <2>5 DEF RingLinked
<1>11. RingListed(r2, shift)'
  <2> SUFFICES ASSUME NEW n \in Nat, Ringed(n)', n + 1 < Begun' \/ ppc' # "entry"
               PROVE  /\ EntryAt(Version, PlaceOf(shift, Version, n)).base = Start(n)
                      /\ EntryAt(Version, PlaceOf(shift, Version, n)).block = r2[n]
    BY <1>5 DEF RingListed, Start
  <2>1. n # Begun /\ Ringed(n)
    BY <1>2, <1>3, <1>5
  <2> QED
    BY <1>1, <1>3, <1>6, <2>1 DEF RingListed
<1>12. Congruent(shift)'
  BY <1>1, <1>2, <1>3, <1>5 DEF Congruent
<1>13. FrontSet'
  BY <1>1, <1>3, <1>5 DEF FrontSet
<1>14. KeepsSame
  BY <1>2, RangesOther
<1>15. /\ empty' \in [Blocks -> [Offsets -> BOOLEAN]]
       /\ \A o \in Offsets : empty'[b][o] = FALSE
       /\ \A a \in Blocks : a # b => empty'[a] = empty[a]
  BY <1>1, <1>2, <1>4, FlagsTyped
<1>16. FlagsRight(r2)'
  <2> SUFFICES ASSUME NEW i \in Nat, Ringed(Num(i))'
               PROVE  empty'[r2[Num(i)]][Off(i)] <=> Gone(i)'
    BY DEF FlagsRight
  <2>1. Num(i) \in Nat /\ Off(i) \in Offsets /\ i \in Int
    BY NumNat
  <2>2. Gone(i)' <=> Gone(i)
    BY <1>14, <2>1 DEF KeepsSame
  <2>3. CASE Num(i) = Begun
    <3>1. ~ Gone(i)
      BY <1>3, <2>3, NewNotGone
    <3> QED
      BY <1>6, <1>15, <2>1, <2>2, <2>3, <3>1
  <2>4. CASE Num(i) # Begun
    <3>1. Ringed(Num(i)) /\ r2[Num(i)] = ring[Num(i)] /\ ring[Num(i)] # b /\ ring[Num(i)] \in Blocks
      BY <1>5, <1>6, <1>7, <1>8, <2>1, <2>4
    <3>2. empty[ring[Num(i)]][Off(i)] <=> Gone(i)
      BY <1>1, <3>1 DEF FlagsRight
    <3> QED
      BY <1>15, <2>2, <3>1, <3>2
  <2> QED
    BY <2>3, <2>4
<1>17. ASSUME NEW i \in Nat, Num(i) = Oldest PROVE Gone(i)
  <2>1. Off(i) \in Offsets
    BY NumNat
  <2> QED
    BY <1>1, <1>2, <1>4, <1>17, <2>1, <1>a DEF FlagsRight
<1>18. KeptInRing'
  <2>1. Start(Oldest + 1) <= headIndex
    <3>1. PICK z \in Nat \ {0} : z = BlockSize
      BY SizeIs
    <3>2. PICK s \in Nat : s = Start(Oldest)
      BY <1>3, StartIs
    <3>3. z - 1 \in Offsets
      BY <3>1, OffsetIs
    <3>4. Num(s + (z - 1)) = Oldest /\ s + (z - 1) \in Nat
      BY <1>3, <3>2, <3>3, ItemOf
    <3>5. s + (z - 1) < headIndex
      BY <1>17, <3>4 DEF Gone
    <3>6. Start(Oldest + 1) = s + z /\ headIndex \in Nat
      BY <1>3, <3>1, <3>2, StartNext DEF CountInv, CountersTyped
    <3> QED
      BY <3>5, <3>6
  <2>2. ASSUME NEW c \in Consumers, NEW i \in Nat, Keeps(c, i)' PROVE Oldest + 1 <= Num(i)
    <3>1. Keeps(c, i)
      BY <1>14, <2>2 DEF KeepsSame
    <3>2. Oldest <= Num(i) /\ Num(i) \in Nat
      BY <1>1, <3>1, NumNat DEF KeptInRing
    <3>3. Num(i) # Oldest
      BY <1>17, <3>1 DEF Gone
    <3> QED
      BY <1>3, <3>2, <3>3
  <2> QED
    BY <1>2, <1>5, <2>1, <2>2 DEF KeptInRing, Start
<1>19. AllFind(r2, shift)'
  <2> SUFFICES ASSUME NEW c \in Consumers PROVE Finds(r2, shift, c)'
    BY DEF AllFind
  <2>1. Finds(ring, shift, c) /\ \A n \in Nat : n < Begun => r2[n] = ring[n]
    BY <1>1, <1>3, <1>6 DEF AllFind
  <2>2. Version \in Nat /\ Version' \in Nat /\ Version <= Version'
    BY <1>1, <1>5 DEF RingTyped, Version
  <2>3. \A v \in Nat : 1 <= v /\ v <= Version =>
           /\ SizeOf(v)' = SizeOf(v) /\ shift[v] = shift[v] /\ (FrontGood(v) => FrontGood(v)')
           /\ \A p \in Nat : p < SizeOf(v) /\ EntryAt(v, p).block # 0 => EntryAt(v, p).block' # 0
    BY <1>5
  <2>4. LET v == cons[c].ver IN
           Searching(c) => \A i \in Nat : Keeps(c, i) =>
             EntryAt(v, PlaceOf(shift, v, Num(i))).block' = EntryAt(v, PlaceOf(shift, v, Num(i))).block
    BY <1>2, <1>5 DEF EntryAt, PlaceOf, SizeOf
  <2> QED
    BY <1>1, <1>2, <2>1, <2>2, <2>3, <2>4, FindsOn
<1> QED
  BY <1>9, <1>10, <1>11, <1>12, <1>13, <1>15, <1>16, <1>18, <1>19 DEF ExplicitWell, RingInv

(* The index has room for another block, and leads to the same ones.       *)
Grown(ring, shift, s2) ==
  /\ blockIndex' \in Seq(Headers) /\ Version' \in Nat /\ Version <= Version'
  /\ s2 \in [Nat -> Int]
  /\ \A v \in Nat : 1 <= v /\ v <= Version => s2[v] = shift[v] /\ blockIndex'[v] = blockIndex[v]
  /\ indexFront' \in Nat /\ indexFront' < SizeOf(Version)' /\ slotsUsed < SizeOf(Version)'
  /\ \A n \in Nat : Ringed(n) =>
       /\ EntryAt(Version, PlaceOf(s2, Version, n)).base' = Start(n)
       /\ EntryAt(Version, PlaceOf(s2, Version, n)).block' = ring[n]
  /\ s2[Version'] % SizeOf(Version)' = (indexFront' - Begun) % SizeOf(Version)'
  /\ \A v, p \in Nat : 1 <= v /\ v <= Version' /\ p < SizeOf(v)' /\ EntryAt(v, p).block' # 0 =>
       /\ Off(EntryAt(v, p).base') = 0
       /\ (p - Num(EntryAt(v, p).base')) % SizeOf(v)' = s2[v] % SizeOf(v)'
  /\ \A v \in Nat : 1 <= v /\ v <= Version' /\ (v < Version' \/ Begun > 0) => FrontGood(v)'

LEMMA GrownFull ==
  ASSUME CountInv, NEW ring, NEW shift, RingInv(ring, shift), E!NeedsBlock,
         slotsUsed = SizeOf(Version),
         blockIndex' = Append(blockIndex, E!NewBlockIndex), indexFront' = slotsUsed
  PROVE  \E s2 : Grown(ring, shift, s2)
<1>1. RingTyped /\ RingLinked(ring) /\ RingListed(ring, shift) /\ Congruent(shift) /\ FrontSet
  BY DEF RingInv
<1>2. PICK V \in Nat : V = Version /\ V >= 1
  BY <1>1 DEF RingTyped, Version
<1>3. PICK z \in Nat \ {0} : z = SizeOf(V)
  BY <1>1, <1>2, IndexTyped
<1>4. /\ ppc = "idle" /\ Listed = Begun /\ Begun \in Nat
      /\ Oldest \in Nat /\ slotsUsed \in Nat /\ Oldest + slotsUsed = Begun
  BY AtNeedsBlock
<1>5. PICK w \in Nat, u \in Nat, B \in Nat, f \in Nat :
        w = Oldest /\ u = slotsUsed /\ B = Begun /\ f = indexFront /\ w + u = B /\ u = z
  BY <1>1, <1>2, <1>3, <1>4 DEF RingTyped
<1>6. PICK s2 : s2 = [n \in Nat |-> IF n = V + 1 THEN -w ELSE shift[n]]
  OBVIOUS
<1>7. s2 \in [Nat -> Int] /\ s2[V + 1] = -w /\ \A n \in Nat : n <= V => s2[n] = shift[n]
  BY <1>1, <1>6 DEF Congruent
<1>8. PICK es : es = [i \in 0..(2 * z - 1) |->
                        IF i < u THEN EntryAt(V, (f - u + i) % z) ELSE [base |-> 0, block |-> 0]]
  OBVIOUS
<1>9. PICK h : h = [size |-> 2 * z, front |-> u - 1, entries |-> es]
  OBVIOUS
<1>10. E!NewBlockIndex = h
  <2>1. V = Len(blockIndex) /\ E!index.size = z
    BY <1>2, <1>3, IndexIs DEF Version, SizeOf
  <2> QED
    BY <1>2, <1>5, <1>8, <1>9, <2>1, IndexIs DEF E!NewBlockIndex, E!Header, E!NoEntry, EntryAt
<1>11. \A p \in Nat : p < z => EntryAt(V, p) \in Entries
  <2>1. PICK g \in Headers : g = blockIndex[V]
    BY <1>1, <1>2, SeqAt DEF RingTyped, Version
  <2>2. g.entries \in [0..(z - 1) -> Entries]
    BY <1>3, <2>1, HeaderIs DEF SizeOf
  <2> QED
    BY <1>3, <2>1, <2>2 DEF EntryAt
<1>12. es \in [0..(2 * z - 1) -> Entries]
  <2>1. ASSUME NEW i \in 0..(2 * z - 1)
        PROVE  (IF i < u THEN EntryAt(V, (f - u + i) % z) ELSE [base |-> 0, block |-> 0]) \in Entries
    <3>1. f - u + i \in Int
      OBVIOUS
    <3>2. (f - u + i) % z \in Nat /\ (f - u + i) % z < z
      BY <3>1, PlaceTyped
    <3>3. [base |-> 0, block |-> 0] \in Entries
      BY DEF Entries
    <3> QED
      BY <1>11, <3>2, <3>3
  <2> QED
    BY <1>8, <2>1
<1>13. h \in Headers
  <2>1. 2 * z \in Nat \ {0} /\ u - 1 \in Int
    OBVIOUS
  <2>2. h \in [size : {2 * z}, front : Int, entries : [0..(2 * z - 1) -> Entries]]
    BY <1>9, <1>12, <2>1
  <2> QED
    BY <2>1, <2>2 DEF Headers
<1>14. /\ blockIndex' \in Seq(Headers) /\ Version' = V + 1
       /\ \A v \in 1..V : blockIndex'[v] = blockIndex[v]
       /\ blockIndex'[V + 1] = h
  <2>1. blockIndex \in Seq(Headers) /\ V = Len(blockIndex) /\ blockIndex' = Append(blockIndex, h)
    BY <1>1, <1>2, <1>10 DEF RingTyped, Version
  <2> QED
    BY <1>13, <2>1, AppendSeq DEF Version
<1>15. /\ \A v \in 1..V : SizeOf(v)' = SizeOf(v) /\ FrontOf(v)' = FrontOf(v)
                          /\ (FrontGood(v)' <=> FrontGood(v)) /\ \A p : EntryAt(v, p)' = EntryAt(v, p)
       /\ blockIndex'[V + 1].size = 2 * z /\ blockIndex'[V + 1].front = u - 1
       /\ blockIndex'[V + 1].entries = es
  <2>1. ASSUME NEW v \in 1..V
        PROVE  /\ SizeOf(v)' = SizeOf(v) /\ FrontOf(v)' = FrontOf(v)
               /\ \A p : EntryAt(v, p)' = EntryAt(v, p)
    <3>1. blockIndex'[v] = blockIndex[v]
      BY <1>14
    <3> QED
      BY <3>1 DEF SizeOf, FrontOf, EntryAt
  <2>2. ASSUME NEW v \in 1..V PROVE FrontGood(v)' <=> FrontGood(v)
    <3>1. EntryAt(v, FrontOf(v))' = EntryAt(v, FrontOf(v))
      BY <2>1 DEF EntryAt
    <3> QED
      BY <2>1, <3>1 DEF FrontGood
  <2> QED
    BY <1>9, <1>14, <2>1, <2>2
<1>16. SizeOf(Version)' = 2 * z /\ \A p : EntryAt(Version, p)' = es[p]
  BY <1>14, <1>15 DEF SizeOf, EntryAt
<1>17. ASSUME NEW n \in Nat, Ringed(n)
       PROVE  /\ n - w \in 0..(2 * z - 1) /\ n - w < u
              /\ es[n - w].base = Start(n) /\ es[n - w].block = ring[n] /\ ring[n] # 0
  <2>1. w <= n /\ n < B /\ n - w \in 0..(2 * z - 1) /\ n - w < u
    BY <1>5, <1>17 DEF Ringed
  <2>2. es[n - w] = EntryAt(V, (f - u + (n - w)) % z)
    BY <1>8, <2>1
  <2>3. (f - u + (n - w)) % z = PlaceOf(shift, V, n)
    <3>1. PICK s \in Int : s = shift[V]
      BY <1>1 DEF Congruent
    <3>2. s % z = (f - B) % z
      BY <1>1, <1>2, <1>3, <1>4, <1>5, <3>1 DEF Congruent
    <3>3. f - B \in Int
      OBVIOUS
    <3>4. Shifts(s, f - B, n, z)
      BY <3>3, ModShifts
    <3>5. (s + n) % z = ((f - B) + n) % z
      BY <3>2, <3>4 DEF Shifts
    <3>6. (f - B) + n = f - u + (n - w)
      BY <1>5
    <3> QED
      BY <1>3, <3>1, <3>5, <3>6 DEF PlaceOf
  <2>4. EntryAt(V, PlaceOf(shift, V, n)).base = Start(n) /\ EntryAt(V, PlaceOf(shift, V, n)).block = ring[n]
    BY <1>1, <1>2, <1>4, <1>17 DEF RingListed
  <2>5. 1 <= ring[n] /\ ring[n] \in Nat
    BY <1>1, <1>17 DEF RingLinked
  <2> QED
    BY <2>1, <2>2, <2>3, <2>4, <2>5
<1>18. ASSUME NEW n \in Nat, Ringed(n)
       PROVE  /\ EntryAt(Version, PlaceOf(s2, Version, n)).base' = Start(n)
              /\ EntryAt(Version, PlaceOf(s2, Version, n)).block' = ring[n]
  <2>1. PlaceOf(s2, Version, n)' = (-w + n) % (2 * z)
    BY <1>7, <1>14, <1>16 DEF PlaceOf
  <2>2. -w + n = n - w /\ n - w \in 0..(2 * z - 1) /\ 2 * z \in Nat \ {0}
    BY <1>17, <1>18
  <2>3. (n - w) % (2 * z) = n - w
    BY <2>2, ModSmall
  <2> QED
    BY <1>14, <1>15, <1>17, <1>18, <2>1, <2>2, <2>3 DEF EntryAt
<1>19. ASSUME NEW p \in Nat, p < 2 * z, es[p].block # 0
       PROVE  Off(es[p].base) = 0 /\ p - Num(es[p].base) = -w
  <2>1. p \in 0..(2 * z - 1)
    BY <1>19
  <2>2. p < u
    BY <1>8, <1>19, <2>1
  <2>3. PICK n \in Nat : n = p + w
    OBVIOUS
  <2>4. Ringed(n) /\ n - w = p
    BY <1>5, <2>2, <2>3 DEF Ringed
  <2>5. es[p].base = Start(n)
    BY <1>17, <2>4
  <2>6. 0 \in Offsets
    BY OffsetIs, SizeIs
  <2>7. Start(n) \in Int /\ Num(Start(n) + 0) = n /\ Off(Start(n) + 0) = 0
    BY <2>6, ItemOf, StartIs
  <2> QED
    BY <2>3, <2>5, <2>7
<1>20. ASSUME NEW v \in Nat, NEW p \in Nat, 1 <= v, v <= V + 1, p < SizeOf(v)', EntryAt(v, p).block' # 0
       PROVE  /\ Off(EntryAt(v, p).base') = 0
              /\ (p - Num(EntryAt(v, p).base')) % SizeOf(v)' = s2[v] % SizeOf(v)'
  <2>1. CASE v <= V
    <3>2. v \in 1..V /\ v \in Nat /\ s2[v] = shift[v]
      BY <1>7, <1>20, <2>1
    <3>1. /\ v \in 1..V /\ SizeOf(v)' = SizeOf(v) /\ EntryAt(v, p)' = EntryAt(v, p)
          /\ EntryAt(v, p).block' = EntryAt(v, p).block /\ EntryAt(v, p).base' = EntryAt(v, p).base
          /\ s2[v] = shift[v]
      BY <1>15, <3>2 DEF EntryAt
    <3> QED
      BY <1>1, <1>2, <1>20, <2>1, <3>1 DEF Congruent
  <2>2. CASE ~ (v <= V)
    <3>1. v = V + 1
      BY <1>20, <2>2
    <3>2. /\ SizeOf(v)' = 2 * z /\ EntryAt(v, p)' = es[p]
          /\ EntryAt(v, p).block' = es[p].block /\ EntryAt(v, p).base' = es[p].base
      BY <1>15, <3>1 DEF SizeOf, EntryAt
    <3>3. p < 2 * z /\ es[p].block # 0
      BY <1>20, <3>2
    <3>4. Off(es[p].base) = 0 /\ p - Num(es[p].base) = -w
      BY <1>19, <3>3
    <3> QED
      BY <1>7, <3>1, <3>2, <3>4
  <2> QED
    BY <2>1, <2>2
<1>21. ASSUME NEW v \in Nat, 1 <= v, v <= V + 1 PROVE FrontGood(v)'
  <2>1. CASE v <= V
    <3>1. v \in 1..V /\ FrontGood(v)
      BY <1>1, <1>2, <1>4, <1>5, <1>21, <2>1 DEF FrontSet
    <3> QED
      BY <1>15, <3>1
  <2>2. CASE ~ (v <= V)
    <3>1. v = V + 1
      BY <1>21, <2>2
    <3>2. PICK n \in Nat : n = B - 1 /\ Ringed(n) /\ n - w = u - 1
      <4>1. B - 1 \in Nat /\ Ringed(B - 1) /\ (B - 1) - w = u - 1
        BY <1>5 DEF Ringed
      <4> QED
        BY <4>1
    <3>3. es[u - 1].block # 0 /\ u - 1 \in Nat /\ u - 1 < 2 * z
      BY <1>17, <3>2
    <3> QED
      BY <1>15, <3>1, <3>3 DEF FrontGood, FrontOf, SizeOf, EntryAt
  <2> QED
    BY <2>1, <2>2
<1>22. /\ indexFront' = u /\ indexFront' \in Nat /\ indexFront' < 2 * z /\ slotsUsed < 2 * z
       /\ s2[V + 1] = indexFront' - Begun
  BY <1>5, <1>7
<1>23. Grown(ring, shift, s2)
  <2>1. /\ blockIndex' \in Seq(Headers) /\ Version' \in Nat /\ Version <= Version' /\ s2 \in [Nat -> Int]
        /\ \A v \in Nat : 1 <= v /\ v <= Version => s2[v] = shift[v] /\ blockIndex'[v] = blockIndex[v]
    <3>1. \A v \in Nat : 1 <= v /\ v <= Version => v \in 1..V /\ v <= V
      BY <1>2
    <3>2. Version' \in Nat /\ Version <= Version'
      BY <1>2, <1>14
    <3> QED
      BY <1>7, <1>14, <3>1, <3>2
  <2>2. /\ indexFront' \in Nat /\ indexFront' < SizeOf(Version)' /\ slotsUsed < SizeOf(Version)'
        /\ s2[Version'] % SizeOf(Version)' = (indexFront' - Begun) % SizeOf(Version)'
    BY <1>14, <1>16, <1>22
  <2>3. \A v, p \in Nat : 1 <= v /\ v <= Version' /\ p < SizeOf(v)' /\ EntryAt(v, p).block' # 0 =>
          /\ Off(EntryAt(v, p).base') = 0
          /\ (p - Num(EntryAt(v, p).base')) % SizeOf(v)' = s2[v] % SizeOf(v)'
    BY <1>14, <1>20
  <2>4. \A v \in Nat : 1 <= v /\ v <= Version' /\ (v < Version' \/ Begun > 0) => FrontGood(v)'
    BY <1>14, <1>21
  <2> QED
    BY <1>18, <2>1, <2>2, <2>3, <2>4 DEF Grown
<1> QED
  BY <1>23

LEMMA GrowIndexGrows ==
  ASSUME CountInv, NEW ring, NEW shift, RingInv(ring, shift), E!NeedsBlock, E!GrowIndex
  PROVE  \E s2 : Grown(ring, shift, s2)
<1>1. RingTyped /\ RingListed(ring, shift) /\ Congruent(shift) /\ FrontSet
  BY DEF RingInv
<1>2. E!index.size = SizeOf(Version) /\ Version \in Nat /\ Version >= 1
  BY <1>1, IndexIs DEF SizeOf, Version, RingTyped
<1>3. ppc = "idle" /\ Listed = Begun
  BY AtNeedsBlock
<1>4. CASE slotsUsed = SizeOf(Version)
  <2>1. blockIndex' = Append(blockIndex, E!NewBlockIndex) /\ indexFront' = slotsUsed
    BY <1>2, <1>4 DEF E!GrowIndex
  <2> QED
    BY <1>4, <2>1, GrownFull
<1>5. CASE slotsUsed # SizeOf(Version)
  <2>1. UNCHANGED <<blockIndex, indexFront>>
    BY <1>2, <1>5 DEF E!GrowIndex
  <2>2. /\ Version' = Version /\ \A v : SizeOf(v)' = SizeOf(v) /\ (FrontGood(v)' <=> FrontGood(v))
        /\ \A v, p : EntryAt(v, p)' = EntryAt(v, p)
        /\ \A v, n : PlaceOf(shift, v, n)' = PlaceOf(shift, v, n)
    BY <2>1 DEF Version, SizeOf, FrontGood, FrontOf, EntryAt, PlaceOf
  <2>3. slotsUsed < SizeOf(Version)
    <3>1. SizeOf(Version) \in Nat
      BY <1>1, <1>2, IndexTyped
    <3> QED
      BY <1>1, <1>5, <3>1 DEF RingTyped
  <2>4. Grown(ring, shift, shift)
    <3>1. /\ blockIndex' \in Seq(Headers) /\ Version' \in Nat /\ Version <= Version'
          /\ indexFront' \in Nat /\ indexFront' < SizeOf(Version)' /\ slotsUsed < SizeOf(Version)'
      BY <1>1, <1>2, <2>1, <2>2, <2>3 DEF RingTyped
    <3>2. \A n \in Nat : Ringed(n) =>
            /\ EntryAt(Version, PlaceOf(shift, Version, n)).base' = Start(n)
            /\ EntryAt(Version, PlaceOf(shift, Version, n)).block' = ring[n]
      BY <1>1, <1>3, <2>1 DEF RingListed, Version, EntryAt, PlaceOf, SizeOf
    <3>3. /\ shift \in [Nat -> Int]
          /\ shift[Version'] % SizeOf(Version)' = (indexFront' - Begun) % SizeOf(Version)'
      BY <1>1, <1>3, <2>1, <2>2 DEF Congruent
    <3>4. \A v, p \in Nat : 1 <= v /\ v <= Version' /\ p < SizeOf(v)' /\ EntryAt(v, p).block' # 0 =>
            /\ Off(EntryAt(v, p).base') = 0
            /\ (p - Num(EntryAt(v, p).base')) % SizeOf(v)' = shift[v] % SizeOf(v)'
      BY <1>1, <2>2 DEF Congruent
    <3>5. \A v \in Nat : 1 <= v /\ v <= Version' /\ (v < Version' \/ Begun > 0) => FrontGood(v)'
      BY <1>1, <1>3, <2>2 DEF FrontSet
    <3> QED
      BY <2>1, <3>1, <3>2, <3>3, <3>4, <3>5 DEF Grown
  <2> QED
    BY <2>4
<1> QED
  BY <1>4, <1>5

-----------------------------------------------------------------------------
(* What the index that has room keeps of the old one.                      *)
LEMMA GrownKeeps ==
  ASSUME RingTyped, NEW ring, NEW shift, NEW s2, Grown(ring, shift, s2)
  PROVE  /\ Version \in Nat
         /\ \A v \in Nat : 1 <= v /\ v <= Version =>
              /\ SizeOf(v)' = SizeOf(v) /\ s2[v] = shift[v] /\ (FrontGood(v)' <=> FrontGood(v))
              /\ \A p : EntryAt(v, p)' = EntryAt(v, p)
              /\ \A n : PlaceOf(s2, v, n)' = PlaceOf(shift, v, n)

<1>1. Version \in Nat
  BY DEF RingTyped, Version
<1>2. ASSUME NEW v \in Nat, 1 <= v, v <= Version
      PROVE  /\ SizeOf(v)' = SizeOf(v) /\ s2[v] = shift[v] /\ (FrontGood(v)' <=> FrontGood(v))
             /\ \A p : EntryAt(v, p)' = EntryAt(v, p)
             /\ \A n : PlaceOf(s2, v, n)' = PlaceOf(shift, v, n)
  <2>1. blockIndex'[v] = blockIndex[v] /\ s2[v] = shift[v]
    BY <1>2 DEF Grown
  <2>2. SizeOf(v)' = SizeOf(v) /\ FrontOf(v)' = FrontOf(v)
    BY <2>1 DEF SizeOf, FrontOf
  <2>3. \A p : EntryAt(v, p)' = EntryAt(v, p)
    BY <2>1 DEF EntryAt
  <2>4. EntryAt(v, FrontOf(v))' = EntryAt(v, FrontOf(v))
    BY <2>1 DEF EntryAt, FrontOf
  <2>5. FrontGood(v)' <=> FrontGood(v)
    BY <2>2, <2>4 DEF FrontGood
  <2>6. \A n : PlaceOf(s2, v, n)' = PlaceOf(shift, v, n)
    BY <2>1, <2>2 DEF PlaceOf
  <2> QED
    BY <2>1, <2>2, <2>3, <2>5, <2>6
<1> QED
  BY <1>1, <1>2

LEMMA GrownSize ==
  ASSUME NEW ring, NEW shift, NEW s2, Grown(ring, shift, s2), Version >= 1, Version \in Nat
  PROVE  SizeOf(Version)' \in Nat \ {0}
<1>1. blockIndex' \in Seq(Headers) /\ Version' \in 1..Version'
  BY DEF Grown
<1>2. blockIndex'[Version'] \in Headers
  <2>1. PICK s : s = blockIndex'
    OBVIOUS
  <2>2. s \in Seq(Headers) /\ Version' = Len(s)
    BY <1>1, <2>1 DEF Version
  <2>3. s[Version'] \in Headers
    BY <1>1, <2>2, SeqAt
  <2> QED
    BY <2>1, <2>3
<1> QED
  BY <1>2, HeaderIs DEF SizeOf

LEMMA GrownFinds ==
  ASSUME CountInv, RangeInv, RingTyped, UNCHANGED <<headIndex, cons>>,
         NEW ring, NEW shift, NEW s2, Grown(ring, shift, s2),
         NEW r2, \A n \in Nat : n < Begun => r2[n] = ring[n],
         AllFind(ring, shift)
  PROVE  AllFind(r2, s2)'
<1> SUFFICES ASSUME NEW c \in Consumers PROVE Finds(r2, s2, c)'
  BY DEF AllFind
<1>1. Finds(ring, shift, c)
  BY DEF AllFind
<1>2. Version' \in Nat /\ Version <= Version'
  BY DEF Grown
<1>3. \A v \in Nat : 1 <= v /\ v <= Version =>
        /\ SizeOf(v)' = SizeOf(v) /\ s2[v] = shift[v] /\ (FrontGood(v)' <=> FrontGood(v))
        /\ \A p : EntryAt(v, p)' = EntryAt(v, p)
  BY GrownKeeps
<1>4. \A v \in Nat : 1 <= v /\ v <= Version =>
        /\ SizeOf(v)' = SizeOf(v) /\ s2[v] = shift[v] /\ (FrontGood(v) => FrontGood(v)')
        /\ \A p \in Nat : p < SizeOf(v) /\ EntryAt(v, p).block # 0 => EntryAt(v, p).block' # 0
  BY <1>3
<1>5. LET v == cons[c].ver IN
        Searching(c) => \A i \in Nat : Keeps(c, i) =>
          EntryAt(v, PlaceOf(shift, v, Num(i))).block' = EntryAt(v, PlaceOf(shift, v, Num(i))).block
  <2> SUFFICES ASSUME Searching(c), NEW i \in Nat
               PROVE  EntryAt(cons[c].ver, PlaceOf(shift, cons[c].ver, Num(i))).block'
                      = EntryAt(cons[c].ver, PlaceOf(shift, cons[c].ver, Num(i))).block
    OBVIOUS
  <2>1. PICK v \in Nat : v = cons[c].ver /\ 1 <= v /\ v <= Version
    BY <1>1 DEF Finds, FindsAll
  <2>2. PICK p : p = PlaceOf(shift, v, Num(i))
    OBVIOUS
  <2>3. p = PlaceOf(shift, v, Num(i))'
    BY <1>3, <2>1, <2>2 DEF PlaceOf
  <2>4. EntryAt(v, p).block' = EntryAt(v, p).block
    BY <1>3, <2>1
  <2> QED
    BY <2>1, <2>2, <2>3, <2>4
<1> QED
  BY <1>1, <1>2, <1>4, <1>5, FindsOn

(* No memory for the block: the index may have grown, nothing else changes.*)
LEMMA WellByEnqueueFails ==
  ASSUME CountInv, RangeInv, NEW ring, NEW shift, ExplicitWell(ring, shift), E!EnqueueFails
  PROVE  \E s2 : ExplicitWell(ring, s2)'
<1>1. /\ RingInv(ring, shift) /\ RingTyped /\ RingLinked(ring) /\ RingListed(ring, shift)
      /\ Congruent(shift) /\ FrontSet /\ FlagsRight(ring) /\ KeptInRing /\ AllFind(ring, shift)
      /\ empty \in [Blocks -> [Offsets -> BOOLEAN]]
  BY DEF ExplicitWell, RingInv
<1>2. /\ E!NeedsBlock /\ E!GrowIndex
      /\ UNCHANGED <<tailIndex, headIndex, ppc, cons, empty, tailBlock, next, slotsUsed>>
  BY DEF E!EnqueueFails, E!counters
<1>3. PICK s2 : Grown(ring, shift, s2)
  BY <1>1, <1>2, GrowIndexGrows
<1>4. ppc = "idle" /\ Listed = Begun /\ Begun \in Nat
  BY <1>1, <1>2, AtNeedsBlock
<1>5. /\ Begun' = Begun /\ Listed' = Begun /\ Oldest' = Oldest
      /\ \A n : Ringed(n)' <=> Ringed(n)
  BY <1>2, <1>4 DEF Begun, Listed, Oldest, Ringed
<1>6. RingTyped'
  <2>1. /\ blockIndex' \in Seq(Headers) /\ Version' >= 1 /\ slotsUsed' \in Nat
        /\ slotsUsed' <= SizeOf(Version)' /\ indexFront' \in Nat /\ indexFront' < SizeOf(Version)'
    <3>1. /\ blockIndex' \in Seq(Headers) /\ Version' \in Nat /\ Version <= Version' /\ Version >= 1
          /\ indexFront' \in Nat /\ indexFront' < SizeOf(Version)' /\ slotsUsed < SizeOf(Version)'
      BY <1>1, <1>3 DEF Grown, RingTyped
    <3>2. Version \in Nat
      BY <1>1 DEF RingTyped, Version
    <3>3. PICK z \in Nat : z = SizeOf(Version)'
      BY <1>3, <3>1, <3>2, GrownSize
    <3>4. PICK u \in Nat : u = slotsUsed
      BY <1>1 DEF RingTyped
    <3>5. u < z => u <= z
      OBVIOUS
    <3>6. slotsUsed' \in Nat /\ slotsUsed' <= SizeOf(Version)'
      BY <1>2, <3>1, <3>3, <3>4, <3>5
    <3>7. Version' >= 1
      BY <3>1, <3>2
    <3> QED
      BY <3>1, <3>6, <3>7
  <2>2. Staged'
    BY <1>2, <1>4 DEF Staged
  <2> QED
    BY <1>1, <1>2, <1>5, <2>1, <2>2 DEF RingTyped
<1>7. RingLinked(ring)'
  BY <1>1, <1>2, <1>5 DEF RingLinked
<1>8. RingListed(ring, s2)'
  BY <1>3, <1>5 DEF Grown, RingListed, Start
<1>9. Congruent(s2)'
  BY <1>3, <1>5 DEF Grown, Congruent
<1>10. FrontSet'
  BY <1>3, <1>5 DEF Grown, FrontSet
<1>11. AllFind(ring, s2)'
  BY <1>1, <1>2, <1>3, GrownFinds
<1>12. KeepsSame
  BY <1>2, RangesOther
<1>13. FlagsRight(ring)'
  BY <1>1, <1>2, <1>5, <1>12, NumNat DEF FlagsRight, KeepsSame
<1>14. KeptInRing'
  BY <1>1, <1>2, <1>5, <1>12 DEF KeptInRing, KeepsSame, Start
<1> QED
  BY <1>1, <1>2, <1>6, <1>7, <1>8, <1>9, <1>10, <1>11, <1>13, <1>14 DEF ExplicitWell, RingInv

(* A new block becomes the newest, between the newest and the oldest.      *)
LEMMA WellByAddBlock ==
  ASSUME CountInv, RangeInv, NEW ring, NEW shift, ExplicitWell(ring, shift), E!AddBlock
  PROVE  \E r2, s2 : ExplicitWell(r2, s2)'
<1>a. PICK b : b = slotsUsed + 1
  OBVIOUS
<1>b. PICK r2 : r2 = [n \in Nat |-> IF n = Begun THEN b ELSE ring[n]]
  OBVIOUS
<1>1. /\ RingInv(ring, shift) /\ RingTyped /\ RingLinked(ring) /\ RingListed(ring, shift)
      /\ Congruent(shift) /\ FrontSet /\ FlagsRight(ring) /\ KeptInRing /\ AllFind(ring, shift)
      /\ empty \in [Blocks -> [Offsets -> BOOLEAN]]
  BY DEF ExplicitWell, RingInv
<1>2. /\ E!NeedsBlock /\ E!GrowIndex /\ slotsUsed < BlockNum
      /\ next' = IF tailBlock = 0 THEN [next EXCEPT ![b] = b]
                 ELSE [next EXCEPT ![b] = next[tailBlock], ![tailBlock] = b]
      /\ tailBlock' = b /\ slotsUsed' = b /\ ppc' = "entry"
      /\ empty' = [empty EXCEPT ![b] = [o \in Offsets |-> FALSE]]
      /\ UNCHANGED <<tailIndex, headIndex, cons>>
  BY <1>a, ExplicitParts DEF E!AddBlock, E!ResetEmpty, E!counters
<1>3. /\ ppc = "idle" /\ Off(tailIndex) = 0 /\ tailIndex \in Nat
      /\ Begun = Num(tailIndex) /\ Listed = Begun /\ Begun \in Nat
      /\ Oldest \in Nat /\ slotsUsed \in Nat /\ Oldest + slotsUsed = Begun
      /\ (Begun > 0 => slotsUsed > 0)
      /\ (tailBlock = 0 <=> Begun = 0)
      /\ 1..slotsUsed \subseteq Blocks
  BY <1>1, <1>2, AtNeedsBlock
<1>4. /\ b \in Nat /\ b >= 1 /\ b \in Blocks /\ b = slotsUsed + 1
  <2>1. BlockNum \in Nat
    BY SizeAssumption
  <2> QED
    BY <1>a, <1>2, <1>3, <2>1 DEF Blocks
<1>5. ASSUME Begun > 0
      PROVE  /\ tailBlock = ring[Begun - 1] /\ Ringed(Begun - 1) /\ Ringed(Oldest)
             /\ next[tailBlock] = ring[Oldest]
             /\ tailBlock \in 1..slotsUsed /\ ring[Oldest] \in 1..slotsUsed
             /\ tailBlock \in Blocks /\ tailBlock # b /\ tailBlock # 0
  <2>1. /\ tailBlock = ring[Begun - 1] /\ Ringed(Begun - 1) /\ Ringed(Oldest)
        /\ next[tailBlock] = ring[Oldest]
        /\ tailBlock \in 1..slotsUsed /\ ring[Oldest] \in 1..slotsUsed
    BY <1>1, <1>2, <1>5, AtNeedsBlock
  <2> QED
    BY <1>3, <1>4, <2>1
<1>6. PICK s2 : Grown(ring, shift, s2)
  BY <1>1, <1>2, GrowIndexGrows
<1>7. /\ Begun' = Begun + 1 /\ Listed' = Begun /\ Oldest' = Oldest
      /\ \A n \in Nat : Ringed(n)' <=> n = Begun \/ Ringed(n)
  <2>1. Begun' = Begun + 1
    BY <1>2, <1>3 DEF Begun
  <2>2. Listed' = Begun
    BY <1>2, <1>3, <2>1 DEF Listed
  <2>3. Oldest' = Oldest
    BY <1>2, <1>3, <1>4, <2>1 DEF Oldest
  <2>4. \A n \in Nat : Ringed(n)' <=> n = Begun \/ Ringed(n)
    BY <1>3, <2>1, <2>3 DEF Ringed
  <2> QED
    BY <2>1, <2>2, <2>3, <2>4
<1>8. /\ r2 \in [Nat -> Nat] /\ r2[Begun] = b
      /\ \A n \in Nat : n # Begun => r2[n] = ring[n]
  BY <1>1, <1>3, <1>4, <1>b DEF RingLinked
<1>9. ASSUME NEW n \in Nat, Ringed(n)
      PROVE  /\ n < Begun /\ n # Begun /\ r2[n] = ring[n]
             /\ ring[n] \in 1..slotsUsed /\ ring[n] \in Blocks /\ ring[n] # b
  <2>1. n < Begun /\ ring[n] \in Nat /\ 1 <= ring[n] /\ ring[n] <= slotsUsed
    BY <1>1, <1>9 DEF RingLinked, Ringed
  <2>2. n # Begun /\ ring[n] \in 1..slotsUsed /\ ring[n] # b
    BY <1>3, <1>4, <2>1
  <2> QED
    BY <1>3, <1>8, <2>1, <2>2
<1>10. /\ next' \in [Blocks -> Nat]
       /\ Begun = 0 => next'[b] = b
       /\ Begun > 0 => /\ next'[b] = ring[Oldest] /\ next'[tailBlock] = b
                       /\ \A a \in Blocks : a # b /\ a # tailBlock => next'[a] = next[a]
  <2>1. next \in [Blocks -> Nat]
    BY <1>1 DEF RingTyped
  <2>2. CASE Begun = 0
    <3>1. next' = [next EXCEPT ![b] = b]
      BY <1>2, <1>3, <2>2
    <3> QED
      BY <1>4, <2>1, <2>2, <3>1
  <2>3. CASE Begun # 0
    <3>1. Begun > 0
      BY <1>3, <2>3
    <3>2. PICK t \in Blocks : t = tailBlock /\ t # b /\ next[t] = ring[Oldest]
      BY <1>5, <3>1
    <3>3. PICK x \in Nat : x = ring[Oldest]
      BY <1>3, <1>5, <3>1
    <3>4. next' = [next EXCEPT ![b] = x, ![t] = b]
      BY <1>2, <1>5, <3>1, <3>2, <3>3
    <3> QED
      BY <1>4, <2>1, <2>3, <3>2, <3>3, <3>4
  <2> QED
    BY <2>2, <2>3
<1>11. RingTyped'
  <2>1. Staged'
    BY <1>2, <1>3 DEF Staged
  <2>2. /\ blockIndex' \in Seq(Headers) /\ Version' \in Nat /\ Version <= Version' /\ Version >= 1
        /\ Version \in Nat
        /\ indexFront' \in Nat /\ indexFront' < SizeOf(Version)' /\ slotsUsed < SizeOf(Version)'
    BY <1>1, <1>6 DEF Grown, RingTyped, Version
  <2>3. PICK z \in Nat : z = SizeOf(Version)'
    BY <1>6, <2>2, GrownSize
  <2>4. slotsUsed' <= z
    BY <1>2, <1>3, <1>4, <2>2, <2>3
  <2>5. Version' >= 1 /\ slotsUsed' \in Nat /\ slotsUsed' > 0
    BY <1>2, <1>4, <2>2
  <2>6. slotsUsed' <= Begun' /\ Begun' # 0
    BY <1>2, <1>3, <1>4, <1>7
  <2>7. slotsUsed' <= BlockNum
    BY <1>2, <1>4 DEF Blocks
  <2> QED
    BY <1>10, <2>1, <2>2, <2>3, <2>4, <2>5, <2>6, <2>7 DEF RingTyped
<1>12. RingLinked(r2)'
  <2>1. ASSUME NEW n \in Nat, Ringed(n)' PROVE 1 <= r2[n] /\ r2[n] <= slotsUsed'
    <3>1. CASE n = Begun
      BY <1>2, <1>4, <1>8, <3>1
    <3>2. CASE n # Begun
      <4>1. r2[n] = ring[n] /\ ring[n] \in 1..slotsUsed
        BY <1>7, <1>9, <2>1, <3>2
      <4> QED
        BY <1>2, <1>3, <1>4, <4>1
    <3> QED
      BY <3>1, <3>2
  <2>2. ASSUME NEW n \in Nat, NEW m \in Nat, Ringed(n)', Ringed(m)', r2[n] = r2[m] PROVE n = m
    <3>1. CASE n = Begun /\ m # Begun
      BY <1>7, <1>8, <1>9, <2>2, <3>1
    <3>2. CASE n # Begun /\ m = Begun
      BY <1>7, <1>8, <1>9, <2>2, <3>2
    <3>3. CASE n # Begun /\ m # Begun
      BY <1>1, <1>7, <1>8, <2>2, <3>3 DEF RingLinked
    <3> QED
      BY <3>1, <3>2, <3>3
  <2>3. ASSUME NEW n \in Nat, Ringed(n)', n + 1 < Begun' PROVE next'[r2[n]] = r2[n + 1]
    <3>1. n < Begun /\ Ringed(n) /\ r2[n] = ring[n] /\ n + 1 \in Nat /\ Begun > 0
      BY <1>3, <1>7, <1>9, <2>3
    <3>2. CASE n + 1 = Begun
      <4>1. n = Begun - 1
        BY <1>3, <3>2
      <4>2. r2[n] = tailBlock /\ r2[n + 1] = b
        BY <1>5, <1>8, <3>1, <3>2, <4>1
      <4> QED
        BY <1>10, <3>1, <4>2
    <3>3. CASE n + 1 # Begun
      <4>1. n + 1 < Begun
        BY <1>3, <3>1, <3>3
      <4>2. next[ring[n]] = ring[n + 1]
        BY <1>1, <3>1, <4>1 DEF RingLinked
      <4>3. ring[n] # tailBlock
        <5>1. Begun - 1 \in Nat /\ n # Begun - 1
          BY <1>3, <3>1, <3>3
        <5> QED
          BY <1>1, <1>5, <3>1, <5>1 DEF RingLinked
      <4>4. ring[n] \in Blocks /\ ring[n] # b
        BY <1>9, <3>1
      <4> QED
        BY <1>8, <1>10, <3>1, <3>3, <4>2, <4>3, <4>4
    <3> QED
      BY <3>2, <3>3
  <2>4. tailBlock' = r2[Begun' - 1]
    BY <1>2, <1>3, <1>7, <1>8
  <2>5. next'[tailBlock'] = r2[Oldest']
    <3>1. CASE Begun = 0
      <4>1. Oldest = 0
        BY <1>3, <3>1
      <4> QED
        BY <1>2, <1>7, <1>8, <1>10, <3>1, <4>1
    <3>2. CASE Begun # 0
      <4>1. Begun > 0 /\ Ringed(Oldest)
        BY <1>3, <1>5, <3>2
      <4>2. r2[Oldest] = ring[Oldest]
        BY <1>3, <1>9, <4>1
      <4> QED
        BY <1>2, <1>7, <1>10, <4>1, <4>2
    <3> QED
      BY <3>1, <3>2
  <2> QED
    BY <1>8, <2>1, <2>2, <2>3, <2>4, <2>5 DEF RingLinked
<1>13. RingListed(r2, s2)'
  <2> SUFFICES ASSUME NEW n \in Nat, Ringed(n)', n + 1 < Begun' \/ ppc' # "entry"
               PROVE  /\ EntryAt(Version, PlaceOf(s2, Version, n)).base' = Start(n)
                      /\ EntryAt(Version, PlaceOf(s2, Version, n)).block' = r2[n]
    BY DEF RingListed, Start
  <2>1. n # Begun /\ Ringed(n)
    BY <1>2, <1>3, <1>7
  <2> QED
    BY <1>6, <1>9, <2>1 DEF Grown
<1>14. Congruent(s2)'
  BY <1>6, <1>7 DEF Grown, Congruent
<1>15. FrontSet'
  BY <1>6, <1>7 DEF Grown, FrontSet
<1>16. KeepsSame
  BY <1>2, RangesOther
<1>17. /\ empty' \in [Blocks -> [Offsets -> BOOLEAN]]
       /\ \A o \in Offsets : empty'[b][o] = FALSE
       /\ \A a \in Blocks : a # b => empty'[a] = empty[a]
  BY <1>1, <1>2, <1>4, FlagsTyped
<1>18. FlagsRight(r2)'
  <2> SUFFICES ASSUME NEW i \in Nat, Ringed(Num(i))'
               PROVE  empty'[r2[Num(i)]][Off(i)] <=> Gone(i)'
    BY DEF FlagsRight
  <2>1. Num(i) \in Nat /\ Off(i) \in Offsets /\ i \in Int
    BY NumNat
  <2>2. Gone(i)' <=> Gone(i)
    BY <1>16, <2>1 DEF KeepsSame
  <2>3. CASE Num(i) = Begun
    <3>1. ~ Gone(i)
      BY <1>3, <2>3, NewNotGone
    <3> QED
      BY <1>8, <1>17, <2>1, <2>2, <2>3, <3>1
  <2>4. CASE Num(i) # Begun
    <3>1. Ringed(Num(i)) /\ r2[Num(i)] = ring[Num(i)] /\ ring[Num(i)] # b /\ ring[Num(i)] \in Blocks
      BY <1>7, <1>9, <2>1, <2>4
    <3>2. empty[ring[Num(i)]][Off(i)] <=> Gone(i)
      BY <1>1, <3>1 DEF FlagsRight
    <3> QED
      BY <1>17, <2>2, <3>1, <3>2
  <2> QED
    BY <2>3, <2>4
<1>19. KeptInRing'
  BY <1>1, <1>2, <1>7, <1>16 DEF KeptInRing, KeepsSame, Start
<1>20. AllFind(r2, s2)'
  <2>1. \A n \in Nat : n < Begun => r2[n] = ring[n]
    BY <1>3, <1>8
  <2> QED
    BY <1>1, <1>2, <1>6, <2>1, GrownFinds
<1> QED
  BY <1>11, <1>12, <1>13, <1>14, <1>15, <1>17, <1>18, <1>19, <1>20 DEF ExplicitWell, RingInv

LEMMA StartOff ==
  ASSUME NEW t \in Nat, Off(t) = 0
  PROVE  t = Start(Num(t))
<1>1. Num(t) \in Int /\ 0 \in Offsets
  BY NumNat, OffsetIs, SizeIs
<1>2. /\ Start(Num(t)) + 0 \in Int /\ Num(Start(Num(t)) + 0) = Num(t)
      /\ Off(Start(Num(t)) + 0) = 0 /\ Start(Num(t)) \in Int
  BY <1>1, ItemOf, StartIs
<1>3. Start(Num(t)) + 0 = t
  BY <1>2, SameItem
<1> QED
  BY <1>2, <1>3

Separates(a, b, m) == a % m = b % m /\ a - b < m /\ b - a < m => a = b

LEMMA ModSeparates ==
  ASSUME NEW a \in Int, NEW b \in Int, NEW m \in Nat \ {0}
  PROVE  Separates(a, b, m)
BY ModApart DEF Separates

(* The places of the blocks of the ring in the newest index differ, and the *)
(* next place to fill is none of theirs, or that of the block not listed.  *)
LEMMA PlacesApart ==
  ASSUME CountInv, NEW ring, NEW shift, RingInv(ring, shift), NEW n \in Nat, Ringed(n)
  PROVE  /\ PlaceOf(shift, Version, n) \in Nat /\ PlaceOf(shift, Version, n) < SizeOf(Version)
         /\ (n = Listed => PlaceOf(shift, Version, n) = indexFront)
         /\ (Listed < Begun /\ PlaceOf(shift, Version, n) = indexFront => n = Listed)
<1>1. RingTyped /\ Congruent(shift) /\ Version \in Nat /\ Version >= 1
  BY DEF RingInv, RingTyped, Version
<1>2. PICK z \in Nat \ {0} : z = SizeOf(Version)
  BY <1>1, IndexTyped
<1>3. PICK f \in Nat : f = indexFront /\ f < z
  BY <1>1, <1>2 DEF RingTyped
<1>4. PICK B \in Nat, u \in Nat : B = Begun /\ u = slotsUsed /\ u <= B /\ u <= z /\ B - u <= n /\ n < B
  <2>1. Begun \in Nat /\ slotsUsed \in Nat /\ slotsUsed <= Begun /\ slotsUsed <= SizeOf(Version)
    BY <1>1, BegunTyped DEF RingTyped
  <2> QED
    BY <1>2, <2>1 DEF Ringed, Oldest
<1>5. PICK l \in Int : l = Listed /\ (l = B \/ l = B - 1)
  <2>1. Listed \in Int /\ (Listed = B \/ Listed = B - 1)
    BY <1>4 DEF Listed
  <2> QED
    BY <2>1
<1>6. PICK s \in Int : s = shift[Version] /\ s % z = (f - l) % z
  BY <1>1, <1>2, <1>3, <1>5 DEF Congruent
<1>7. PlaceOf(shift, Version, n) = (s + n) % z
  BY <1>2, <1>6 DEF PlaceOf
<1>8. (s + n) % z = ((f - l) + n) % z
  <2>1. f - l \in Int
    OBVIOUS
  <2>2. Shifts(s, f - l, n, z)
    BY <2>1, ModShifts
  <2> QED
    BY <1>6, <2>2 DEF Shifts
<1>9. f % z = f
  <2>1. f \in 0..(z - 1)
    BY <1>3
  <2> QED
    BY <2>1, ModSmall
<1>10. n = l => PlaceOf(shift, Version, n) = f
  <2>1. n = l => (f - l) + n = f
    OBVIOUS
  <2> QED
    BY <1>7, <1>8, <1>9, <2>1
<1>11. ASSUME l < B, PlaceOf(shift, Version, n) = f PROVE n = l
  <2>1. PICK a \in Int : a = (f - l) + n
    <3>1. (f - l) + n \in Int
      OBVIOUS
    <3> QED
      BY <3>1
  <2>2. a % z = f % z
    BY <1>7, <1>8, <1>9, <1>11, <2>1
  <2>3. a - f < z /\ f - a < z
    <3>1. l = B - 1
      BY <1>5, <1>11
    <3>2. a - f = n - (B - 1) /\ f - a = (B - 1) - n
      BY <2>1, <3>1
    <3> QED
      BY <1>4, <3>2
  <2>4. a = f
    <3>1. Separates(a, f, z)
      BY ModSeparates
    <3> QED
      BY <2>2, <2>3, <3>1 DEF Separates
  <2> QED
    BY <2>1, <2>4
<1>12. (s + n) % z \in Nat /\ (s + n) % z < z
  <2>1. s + n \in Int
    OBVIOUS
  <2> QED
    BY <2>1, PlaceTyped
<1> QED
  BY <1>2, <1>3, <1>4, <1>5, <1>7, <1>10, <1>11, <1>12

(* One entry of the newest index changes.                                  *)
LEMMA StoreEntryDoes ==
  ASSUME RingTyped, NEW ring, NEW shift, RingInv(ring, shift), CountInv, E!StoreEntry
  PROVE  /\ ppc = "entry" /\ ppc' = "front"
         /\ UNCHANGED <<tailIndex, headIndex, cons, empty, tailBlock, next, slotsUsed, indexFront>>
         /\ blockIndex' \in Seq(Headers) /\ Version' = Version
         /\ \A v \in Nat : 1 <= v /\ v <= Version =>
              /\ SizeOf(v)' = SizeOf(v) /\ FrontOf(v)' = FrontOf(v)
              /\ \A p \in Nat : p < SizeOf(v) /\ ~ (v = Version /\ p = indexFront) =>
                   EntryAt(v, p)' = EntryAt(v, p)
         /\ EntryAt(Version, indexFront)' = [base |-> tailIndex, block |-> tailBlock]
<1>1. /\ ppc = "entry" /\ ppc' = "front"
      /\ UNCHANGED <<tailIndex, headIndex, cons, empty, tailBlock, next, slotsUsed, indexFront>>
  BY DEF E!StoreEntry, E!counters
<1>2. PICK V \in Nat : V = Version /\ 1 <= V /\ V = Len(blockIndex) /\ V \in 1..V
  BY DEF RingTyped, Version
<1>3. PICK h \in Headers : h = blockIndex[V]
  BY <1>2, SeqAt DEF RingTyped, Version
<1>4. /\ h.size \in Nat \ {0} /\ h.front \in Int /\ h.size = SizeOf(V)
      /\ h.entries \in [0..(h.size - 1) -> Entries]
  BY <1>3, HeaderIs DEF SizeOf
<1>5. PICK p \in Nat : p = indexFront /\ p \in 0..(h.size - 1)
  <2>1. indexFront \in Nat /\ indexFront < h.size
    BY <1>2, <1>4 DEF RingTyped
  <2> QED
    BY <1>4, <2>1
<1>6. PICK e : e = [base |-> tailIndex, block |-> tailBlock]
  OBVIOUS
<1>7. e \in Entries
  <2>1. tailIndex \in Nat
    BY DEF CountInv, CountersTyped
  <2>2. tailBlock \in Nat
    <3>1. CASE Begun > 0
      <4>1. tailBlock = ring[Begun - 1] /\ ring \in [Nat -> Nat] /\ Begun - 1 \in Nat
        BY <3>1, BegunTyped DEF RingInv, RingLinked
      <4> QED
        BY <4>1
    <3>2. CASE ~ (Begun > 0)
      BY <3>2, BegunTyped DEF RingTyped
    <3> QED
      BY <3>1, <3>2
  <2> QED
    BY <1>6, <2>1, <2>2 DEF Entries
<1>8. PICK es : es = [h.entries EXCEPT ![p] = e]
  OBVIOUS
<1>9. es \in [0..(h.size - 1) -> Entries] /\ es[p] = e
      /\ \A q \in 0..(h.size - 1) : q # p => es[q] = h.entries[q]
  BY <1>4, <1>5, <1>7, <1>8
<1>10. PICK g : g = [h EXCEPT !.entries = es]
  OBVIOUS
<1>11. g = [size |-> h.size, front |-> h.front, entries |-> es]
  <2>1. h = [size |-> h.size, front |-> h.front, entries |-> h.entries]
    BY HeaderIs
  <2> QED
    BY <1>10, <2>1
<1>12. g \in Headers /\ g.size = h.size /\ g.front = h.front /\ g.entries = es
  <2>1. g \in [size : {h.size}, front : Int, entries : [0..(h.size - 1) -> Entries]]
    BY <1>4, <1>9, <1>11
  <2> QED
    BY <1>4, <1>11, <2>1 DEF Headers
<1>13. blockIndex' = [blockIndex EXCEPT ![V] = g]
  <2>1. blockIndex' = [blockIndex EXCEPT ![V].entries[p] = e]
    BY <1>2, <1>5, <1>6 DEF E!StoreEntry
  <2> QED
    BY <1>3, <1>8, <1>10, <2>1
<1>14. /\ blockIndex' \in Seq(Headers) /\ Version' = V
       /\ \A j \in 1..V : blockIndex'[j] = IF j = V THEN g ELSE blockIndex[j]
  <2>1. blockIndex \in Seq(Headers)
    BY DEF RingTyped
  <2> QED
    BY <1>2, <1>12, <1>13, <2>1, ExceptSeq DEF Version
<1>15. ASSUME NEW v \in Nat, 1 <= v, v <= V
       PROVE  /\ SizeOf(v)' = SizeOf(v) /\ FrontOf(v)' = FrontOf(v)
              /\ \A q \in Nat : q < SizeOf(v) /\ ~ (v = V /\ q = p) => EntryAt(v, q)' = EntryAt(v, q)
  <2>1. v \in 1..V
    BY <1>15
  <2>2. CASE v # V
    <3>1. blockIndex'[v] = blockIndex[v]
      BY <1>14, <2>1, <2>2
    <3> QED
      BY <3>1 DEF SizeOf, FrontOf, EntryAt
  <2>3. CASE v = V
    <3>1. blockIndex'[v] = g /\ blockIndex[v] = h
      BY <1>3, <1>14, <2>1, <2>3
    <3>2. SizeOf(v)' = SizeOf(v) /\ FrontOf(v)' = FrontOf(v)
      BY <1>12, <3>1 DEF SizeOf, FrontOf
    <3>3. ASSUME NEW q \in Nat, q < SizeOf(v), q # p PROVE EntryAt(v, q)' = EntryAt(v, q)
      <4>1. q \in 0..(h.size - 1)
        BY <1>4, <2>3, <3>3
      <4> QED
        BY <1>9, <1>12, <3>1, <3>3, <4>1 DEF EntryAt
    <3> QED
      BY <2>3, <3>2, <3>3
  <2> QED
    BY <2>2, <2>3
<1>16. EntryAt(V, p)' = e
  BY <1>2, <1>9, <1>12, <1>14 DEF EntryAt
<1>17. EntryAt(Version, indexFront)' = EntryAt(V, p)'
  BY <1>1, <1>2, <1>5, <1>14 DEF EntryAt
<1> QED
  BY <1>1, <1>2, <1>5, <1>6, <1>14, <1>15, <1>16, <1>17

LEMMA WellByStoreEntry ==
  ASSUME CountInv, RangeInv, NEW ring, NEW shift, ExplicitWell(ring, shift), E!StoreEntry
  PROVE  ExplicitWell(ring, shift)'
<1>1. /\ RingInv(ring, shift) /\ RingTyped /\ RingLinked(ring) /\ RingListed(ring, shift)
      /\ Congruent(shift) /\ FrontSet /\ FlagsRight(ring) /\ KeptInRing /\ AllFind(ring, shift)
      /\ empty \in [Blocks -> [Offsets -> BOOLEAN]]
  BY DEF ExplicitWell, RingInv
<1>2. /\ ppc = "entry" /\ ppc' = "front"
      /\ UNCHANGED <<tailIndex, headIndex, cons, empty, tailBlock, next, slotsUsed, indexFront>>
      /\ blockIndex' \in Seq(Headers) /\ Version' = Version
  BY <1>1, StoreEntryDoes
<1>3. \A v \in Nat : 1 <= v /\ v <= Version =>
        /\ SizeOf(v)' = SizeOf(v) /\ FrontOf(v)' = FrontOf(v)
        /\ \A p \in Nat : p < SizeOf(v) /\ ~ (v = Version /\ p = indexFront) =>
             EntryAt(v, p)' = EntryAt(v, p)
  BY <1>1, StoreEntryDoes
<1>4. PICK V \in Nat, f \in Nat : V = Version /\ f = indexFront /\ 1 <= V /\ f < SizeOf(V)
  BY <1>1 DEF RingTyped, Version
<1>5. /\ EntryAt(V, f).base' = tailIndex /\ EntryAt(V, f).block' = tailBlock
  <2>1. EntryAt(Version, indexFront)' = [base |-> tailIndex, block |-> tailBlock]
    BY <1>1, StoreEntryDoes
  <2>2. EntryAt(Version, indexFront)' = EntryAt(V, f)'
    BY <1>2, <1>4 DEF EntryAt
  <2> QED
    BY <2>1, <2>2
<1>6. /\ Begun \in Nat /\ Begun = Num(tailIndex) + 1 /\ Listed = Begun - 1 /\ Off(tailIndex) = 0
      /\ Num(tailIndex) \in Nat /\ tailIndex \in Nat
  BY <1>1, <1>2, BegunTyped DEF Begun, Listed, RingTyped, Staged
<1>7. tailIndex = Start(Listed)
  <2>1. tailIndex \in Nat /\ Num(tailIndex) = Listed
    BY <1>6
  <2> QED
    BY <1>6, <2>1, StartOff
<1>8. tailBlock = ring[Listed] /\ tailBlock # 0 /\ Ringed(Listed)
  <2>1. /\ slotsUsed \in Nat /\ slotsUsed > 0 /\ slotsUsed <= Begun
    BY <1>1, <1>6 DEF RingTyped
  <2>2. Ringed(Listed) /\ Listed \in Nat
    BY <1>6, <2>1 DEF Ringed, Oldest
  <2>3. ring[Listed] \in Nat /\ 1 <= ring[Listed] /\ tailBlock = ring[Listed]
    BY <1>1, <1>6, <2>2 DEF RingLinked
  <2> QED
    BY <2>2, <2>3
<1>9. /\ Begun' = Begun /\ Listed' = Listed /\ Oldest' = Oldest
      /\ \A n : Ringed(n)' <=> Ringed(n)
  BY <1>2 DEF Begun, Listed, Oldest, Ringed
<1>10. ASSUME NEW v \in Nat, 1 <= v, v <= V, NEW p \in Nat, p < SizeOf(v), EntryAt(v, p).block # 0
       PROVE  EntryAt(v, p).block' # 0
  <2>1. CASE v = V /\ p = f
    BY <1>5, <1>8, <2>1
  <2>2. CASE ~ (v = V /\ p = f)
    <3>1. EntryAt(v, p)' = EntryAt(v, p)
      BY <1>3, <1>4, <1>10, <2>2
    <3> QED
      BY <1>10, <3>1
  <2> QED
    BY <2>1, <2>2
<1>11. ASSUME NEW v \in Nat, 1 <= v, v <= V, FrontGood(v) PROVE FrontGood(v)'
  <2>1. PICK p : p = FrontOf(v)
    OBVIOUS
  <2>2. p \in Nat /\ p < SizeOf(v) /\ EntryAt(v, p).block # 0 /\ p = FrontOf(v)' /\ SizeOf(v)' = SizeOf(v)
    BY <1>3, <1>4, <1>11, <2>1 DEF FrontGood
  <2>3. EntryAt(v, p).block' # 0
    BY <1>10, <1>11, <2>2
  <2>4. EntryAt(v, FrontOf(v))' = EntryAt(v, p)'
    BY <2>2 DEF EntryAt
  <2> QED
    BY <2>2, <2>3, <2>4 DEF FrontGood
<1>12. \A n : PlaceOf(shift, V, n)' = PlaceOf(shift, V, n)
  BY <1>3, <1>4 DEF PlaceOf
<1>13. ASSUME NEW n \in Nat, Ringed(n)
       PROVE  /\ PlaceOf(shift, V, n) \in Nat /\ PlaceOf(shift, V, n) < SizeOf(V)
              /\ (n = Listed => PlaceOf(shift, V, n) = f)
              /\ (n # Listed => PlaceOf(shift, V, n) # f)
  BY <1>1, <1>4, <1>6, <1>13, PlacesApart
<1>14. RingTyped'
  <2>1. SizeOf(Version)' = SizeOf(Version)
    <3>1. SizeOf(V)' = SizeOf(V)
      BY <1>3, <1>4
    <3> QED
      BY <1>2, <1>4, <3>1 DEF SizeOf
  <2>2. Staged'
    BY <1>2, <1>6 DEF Staged
  <2> QED
    BY <1>1, <1>2, <1>9, <2>1, <2>2 DEF RingTyped
<1>15. RingLinked(ring)'
  BY <1>1, <1>2, <1>9 DEF RingLinked
<1>16. ASSUME NEW n \in Nat, Ringed(n)
       PROVE  /\ EntryAt(V, PlaceOf(shift, V, n)).base' = Start(n)
              /\ EntryAt(V, PlaceOf(shift, V, n)).block' = ring[n]
  <2>1. PICK p : p = PlaceOf(shift, V, n)
    OBVIOUS
  <2>2. EntryAt(V, PlaceOf(shift, V, n))' = EntryAt(V, p)'
    BY <1>12, <2>1 DEF EntryAt
  <2>3. CASE n = Listed
    BY <1>5, <1>7, <1>8, <1>13, <1>16, <2>1, <2>2, <2>3
  <2>4. CASE n # Listed
    <3>1. EntryAt(V, p)' = EntryAt(V, p)
      BY <1>3, <1>4, <1>13, <1>16, <2>1, <2>4
    <3>2. n + 1 < Begun
      BY <1>6, <1>16, <2>4 DEF Ringed
    <3>3. EntryAt(V, p).base = Start(n) /\ EntryAt(V, p).block = ring[n]
      BY <1>1, <1>4, <1>16, <2>1, <3>2 DEF RingListed
    <3> QED
      BY <2>2, <3>1, <3>3
  <2> QED
    BY <2>3, <2>4
<1>17. RingListed(ring, shift)'
  <2> SUFFICES ASSUME NEW n \in Nat, Ringed(n)'
               PROVE  /\ EntryAt(Version, PlaceOf(shift, Version, n)).base' = Start(n)
                      /\ EntryAt(Version, PlaceOf(shift, Version, n)).block' = ring[n]
    BY DEF RingListed, Start
  <2>1. EntryAt(Version, PlaceOf(shift, Version, n))' = EntryAt(V, PlaceOf(shift, V, n))'
    BY <1>2, <1>4 DEF EntryAt, PlaceOf, SizeOf
  <2> QED
    BY <1>9, <1>16, <2>1
<1>18. ASSUME NEW v \in Nat, NEW p \in Nat, 1 <= v, v <= V, p < SizeOf(v), EntryAt(v, p).block' # 0
       PROVE  /\ Off(EntryAt(v, p).base') = 0
              /\ (p - Num(EntryAt(v, p).base')) % SizeOf(v) = shift[v] % SizeOf(v)
  <2>1. CASE v = V /\ p = f
    <3>1. p - Num(tailIndex) = indexFront - Listed
      BY <1>4, <1>6, <2>1
    <3> QED
      BY <1>1, <1>4, <1>5, <1>6, <2>1, <3>1 DEF Congruent
  <2>2. CASE ~ (v = V /\ p = f)
    <3>1. EntryAt(v, p)' = EntryAt(v, p)
      BY <1>3, <1>4, <1>18, <2>2
    <3> QED
      BY <1>1, <1>4, <1>18, <3>1 DEF Congruent
  <2> QED
    BY <2>1, <2>2
<1>19. Congruent(shift)'
  <2>1. /\ shift \in [Nat -> Int]
        /\ shift[Version'] % SizeOf(Version)' = (indexFront' - Listed') % SizeOf(Version)'
    <3>1. SizeOf(Version)' = SizeOf(Version)
      <4>1. SizeOf(V)' = SizeOf(V)
        BY <1>3, <1>4
      <4> QED
        BY <1>2, <1>4, <4>1 DEF SizeOf
    <3> QED
      BY <1>1, <1>2, <1>9, <3>1 DEF Congruent
  <2>2. \A v, p \in Nat : 1 <= v /\ v <= Version' /\ p < SizeOf(v)' /\ EntryAt(v, p).block' # 0 =>
          /\ Off(EntryAt(v, p).base') = 0
          /\ (p - Num(EntryAt(v, p).base')) % SizeOf(v)' = shift[v] % SizeOf(v)'
    BY <1>2, <1>3, <1>4, <1>18
  <2> QED
    BY <2>1, <2>2 DEF Congruent
<1>20. FrontSet'
  BY <1>1, <1>2, <1>4, <1>9, <1>11 DEF FrontSet
<1>21. KeepsSame
  BY <1>2, RangesOther
<1>22. FlagsRight(ring)'
  BY <1>1, <1>2, <1>9, <1>21, NumNat DEF FlagsRight, KeepsSame
<1>23. KeptInRing'
  BY <1>1, <1>2, <1>9, <1>21 DEF KeptInRing, KeepsSame, Start
<1>24. ASSUME NEW c \in Consumers PROVE Finds(ring, shift, c)'
  <2>1. Finds(ring, shift, c) /\ \A n \in Nat : n < Begun => ring[n] = ring[n]
    BY <1>1 DEF AllFind
  <2>2. Version' \in Nat /\ Version <= Version'
    BY <1>2, <1>4
  <2>3. \A v \in Nat : 1 <= v /\ v <= Version =>
          /\ SizeOf(v)' = SizeOf(v) /\ shift[v] = shift[v] /\ (FrontGood(v) => FrontGood(v)')
          /\ \A p \in Nat : p < SizeOf(v) /\ EntryAt(v, p).block # 0 => EntryAt(v, p).block' # 0
    BY <1>3, <1>4, <1>10, <1>11
  <2>4. ASSUME Searching(c), NEW i \in Nat, Keeps(c, i)
        PROVE  EntryAt(cons[c].ver, PlaceOf(shift, cons[c].ver, Num(i))).block'
               = EntryAt(cons[c].ver, PlaceOf(shift, cons[c].ver, Num(i))).block
    <3>1. PICK v \in Nat : v = cons[c].ver /\ 1 <= v /\ v <= V
      BY <1>4, <2>1, <2>4 DEF Finds, FindsAll
    <3>2. PICK n \in Nat : n = Num(i) /\ Ringed(n) /\ n # Listed
      <4>1. Num(i) \in Nat /\ Num(i) < Listed /\ Oldest <= Num(i) /\ Num(i) < Begun
        BY <1>1, <2>4, HeldItem, BegunCovers DEF KeptInRing
      <4>2. Ringed(Num(i)) /\ Num(i) # Listed
        BY <1>6, <4>1 DEF Ringed
      <4> QED
        BY <4>1, <4>2
    <3>3. PICK p : p = PlaceOf(shift, v, n)
      OBVIOUS
    <3>4. p = PlaceOf(shift, v, n)'
      BY <1>3, <1>4, <3>1, <3>3 DEF PlaceOf
    <3>5. EntryAt(cons[c].ver, PlaceOf(shift, cons[c].ver, Num(i)))' = EntryAt(v, p)'
      BY <1>2, <3>1, <3>2, <3>3, <3>4 DEF EntryAt, PlaceOf, SizeOf
    <3>6. ~ (v = V /\ p = f)
      BY <1>13, <3>2, <3>3
    <3>7. p \in Nat /\ p < SizeOf(v)
      <4>1. SizeOf(v) \in Nat \ {0}
        BY <1>1, <1>4, <3>1, IndexTyped
      <4>2. shift[v] + n \in Int
        BY <1>1, <3>1, <3>2 DEF Congruent
      <4> QED
        BY <3>3, <4>1, <4>2, PlaceTyped DEF PlaceOf
    <3>8. EntryAt(v, p)' = EntryAt(v, p)
      BY <1>3, <1>4, <3>1, <3>6, <3>7
    <3> QED
      BY <3>1, <3>2, <3>3, <3>5, <3>8
  <2> QED
    BY <1>1, <1>2, <2>1, <2>2, <2>3, <2>4, FindsOn
<1> QED
  BY <1>1, <1>2, <1>14, <1>15, <1>17, <1>19, <1>20, <1>22, <1>23, <1>24
  DEF ExplicitWell, RingInv, AllFind

(* The front of the newest index changes.                                  *)
LEMMA StoreFrontDoes ==
  ASSUME RingTyped, CountInv, E!StoreFront
  PROVE  /\ ppc = "front" /\ ppc' = "elem"
         /\ UNCHANGED <<tailIndex, headIndex, cons, empty, tailBlock, next, slotsUsed>>
         /\ indexFront' = (indexFront + 1) % SizeOf(Version)
         /\ blockIndex' \in Seq(Headers) /\ Version' = Version
         /\ \A v \in Nat : 1 <= v /\ v <= Version =>
              /\ SizeOf(v)' = SizeOf(v)
              /\ FrontOf(v)' = (IF v = Version THEN indexFront ELSE FrontOf(v))
              /\ \A p : EntryAt(v, p)' = EntryAt(v, p)
<1>1. /\ ppc = "front" /\ ppc' = "elem"
      /\ UNCHANGED <<tailIndex, headIndex, cons, empty, tailBlock, next, slotsUsed>>
      /\ indexFront' = (indexFront + 1) % SizeOf(Version)
  BY IndexIs DEF E!StoreFront, E!counters, SizeOf, Version
<1>2. PICK V \in Nat : V = Version /\ 1 <= V /\ V = Len(blockIndex) /\ V \in 1..V
  BY DEF RingTyped, Version
<1>3. PICK h \in Headers : h = blockIndex[V]
  BY <1>2, SeqAt DEF RingTyped, Version
<1>4. /\ h.size \in Nat \ {0} /\ h.front \in Int
      /\ h.entries \in [0..(h.size - 1) -> Entries]
      /\ h = [size |-> h.size, front |-> h.front, entries |-> h.entries]
  BY HeaderIs
<1>5. PICK f \in Nat : f = indexFront
  BY DEF RingTyped
<1>6. PICK g : g = [h EXCEPT !.front = f]
  OBVIOUS
<1>7. g = [size |-> h.size, front |-> f, entries |-> h.entries]
  BY <1>4, <1>6
<1>8. g \in Headers /\ g.size = h.size /\ g.front = f /\ g.entries = h.entries
  <2>1. g \in [size : {h.size}, front : Int, entries : [0..(h.size - 1) -> Entries]]
    BY <1>4, <1>7
  <2> QED
    BY <1>4, <1>7, <2>1 DEF Headers
<1>9. blockIndex' = [blockIndex EXCEPT ![V] = g]
  <2>1. blockIndex' = [blockIndex EXCEPT ![V].front = f]
    BY <1>2, <1>5 DEF E!StoreFront
  <2> QED
    BY <1>3, <1>6, <2>1
<1>10. /\ blockIndex' \in Seq(Headers) /\ Version' = V
       /\ \A j \in 1..V : blockIndex'[j] = IF j = V THEN g ELSE blockIndex[j]
  <2>1. blockIndex \in Seq(Headers)
    BY DEF RingTyped
  <2> QED
    BY <1>2, <1>8, <1>9, <2>1, ExceptSeq DEF Version
<1>11. ASSUME NEW v \in Nat, 1 <= v, v <= V
       PROVE  /\ SizeOf(v)' = SizeOf(v)
              /\ FrontOf(v)' = (IF v = V THEN f ELSE FrontOf(v))
              /\ \A p : EntryAt(v, p)' = EntryAt(v, p)
  <2>1. v \in 1..V
    BY <1>11
  <2>2. CASE v # V
    <3>1. blockIndex'[v] = blockIndex[v]
      BY <1>10, <2>1, <2>2
    <3> QED
      BY <2>2, <3>1 DEF SizeOf, FrontOf, EntryAt
  <2>3. CASE v = V
    <3>1. blockIndex'[v] = g /\ blockIndex[v] = h
      BY <1>3, <1>10, <2>1, <2>3
    <3> QED
      BY <1>8, <2>3, <3>1 DEF SizeOf, FrontOf, EntryAt
  <2> QED
    BY <2>2, <2>3
<1> QED
  BY <1>1, <1>2, <1>5, <1>10, <1>11

LEMMA WellByStoreFront ==
  ASSUME CountInv, RangeInv, NEW ring, NEW shift, ExplicitWell(ring, shift), E!StoreFront
  PROVE  ExplicitWell(ring, shift)'
<1>1. /\ RingInv(ring, shift) /\ RingTyped /\ RingLinked(ring) /\ RingListed(ring, shift)
      /\ Congruent(shift) /\ FrontSet /\ FlagsRight(ring) /\ KeptInRing /\ AllFind(ring, shift)
      /\ empty \in [Blocks -> [Offsets -> BOOLEAN]]
  BY DEF ExplicitWell, RingInv
<1>2. /\ ppc = "front" /\ ppc' = "elem"
      /\ UNCHANGED <<tailIndex, headIndex, cons, empty, tailBlock, next, slotsUsed>>
      /\ indexFront' = (indexFront + 1) % SizeOf(Version)
      /\ blockIndex' \in Seq(Headers) /\ Version' = Version
  BY <1>1, StoreFrontDoes
<1>3. \A v \in Nat : 1 <= v /\ v <= Version =>
        /\ SizeOf(v)' = SizeOf(v)
        /\ FrontOf(v)' = (IF v = Version THEN indexFront ELSE FrontOf(v))
        /\ \A p : EntryAt(v, p)' = EntryAt(v, p)
  BY <1>1, StoreFrontDoes
<1>4. PICK V \in Nat, f \in Nat, z \in Nat \ {0} :
        V = Version /\ f = indexFront /\ z = SizeOf(V) /\ 1 <= V /\ f < z
  <2>1. Version \in Nat /\ 1 <= Version /\ indexFront \in Nat /\ indexFront < SizeOf(Version)
    BY <1>1 DEF RingTyped, Version
  <2>2. SizeOf(Version) \in Nat \ {0}
    BY <1>1, <2>1, IndexTyped
  <2> QED
    BY <2>1, <2>2
<1>5. /\ SizeOf(V)' = z /\ SizeOf(Version)' = z
  <2>1. SizeOf(V)' = z
    BY <1>3, <1>4
  <2> QED
    BY <1>2, <1>4, <2>1 DEF SizeOf
<1>6. /\ Begun \in Nat /\ Begun = Num(tailIndex) + 1 /\ Listed = Begun - 1 /\ Off(tailIndex) = 0
      /\ Listed \in Nat
  BY <1>1, <1>2, BegunTyped DEF Begun, Listed, RingTyped, Staged
<1>7. /\ Begun' = Begun /\ Listed' = Listed + 1 /\ Oldest' = Oldest
      /\ \A n : Ringed(n)' <=> Ringed(n)
  <2>1. Begun' = Begun
    BY <1>2, <1>6 DEF Begun
  <2>2. Listed' = Begun
    BY <1>2, <2>1 DEF Listed
  <2> QED
    BY <1>2, <1>6, <2>1, <2>2 DEF Oldest, Ringed
<1>8. Ringed(Listed) /\ EntryAt(V, f).block # 0
  <2>1. /\ slotsUsed \in Nat /\ slotsUsed > 0 /\ slotsUsed <= Begun
    BY <1>1, <1>6 DEF RingTyped
  <2>2. Ringed(Listed)
    BY <1>6, <2>1 DEF Ringed, Oldest
  <2>3. ring[Listed] \in Nat /\ 1 <= ring[Listed]
    BY <1>1, <1>6, <2>2 DEF RingLinked
  <2>4. PlaceOf(shift, V, Listed) = f
    BY <1>1, <1>4, <1>6, <2>2, PlacesApart
  <2>5. EntryAt(V, PlaceOf(shift, V, Listed)).block = ring[Listed]
    BY <1>1, <1>2, <1>4, <1>6, <2>2 DEF RingListed
  <2> QED
    BY <2>2, <2>3, <2>4, <2>5
<1>9. ASSUME NEW v \in Nat, 1 <= v, v <= V, v = V \/ FrontGood(v) PROVE FrontGood(v)'
  <2>1. PICK p : p = IF v = V THEN f ELSE FrontOf(v)
    OBVIOUS
  <2>2. p \in Nat /\ p < SizeOf(v) /\ EntryAt(v, p).block # 0 /\ p = FrontOf(v)' /\ SizeOf(v)' = SizeOf(v)
    <3>1. CASE v = V
      BY <1>3, <1>4, <1>8, <2>1, <3>1
    <3>2. CASE v # V
      BY <1>3, <1>4, <1>9, <2>1, <3>2 DEF FrontGood
    <3> QED
      BY <3>1, <3>2
  <2>3. EntryAt(v, p)' = EntryAt(v, p)
    BY <1>3, <1>4, <1>9
  <2>4. EntryAt(v, FrontOf(v))' = EntryAt(v, p)'
    BY <2>2 DEF EntryAt
  <2> QED
    BY <2>2, <2>3, <2>4 DEF FrontGood
<1>10. RingTyped'
  <2>1. indexFront' \in Nat /\ indexFront' < SizeOf(Version)'
    <3>1. f + 1 \in Int
      OBVIOUS
    <3>2. (f + 1) % z \in Nat /\ (f + 1) % z < z
      BY <3>1, PlaceTyped
    <3> QED
      BY <1>2, <1>4, <1>5, <3>2
  <2>2. Staged'
    BY <1>2, <1>6 DEF Staged
  <2> QED
    BY <1>1, <1>2, <1>4, <1>5, <1>7, <2>1, <2>2 DEF RingTyped
<1>11. RingLinked(ring)'
  BY <1>1, <1>2, <1>7 DEF RingLinked
<1>12. ASSUME NEW n PROVE EntryAt(Version, PlaceOf(shift, Version, n))' = EntryAt(Version, PlaceOf(shift, Version, n))
  <2>1. PICK p : p = PlaceOf(shift, V, n)
    OBVIOUS
  <2>2. EntryAt(Version, PlaceOf(shift, Version, n)) = EntryAt(V, p)
    BY <1>4, <2>1
  <2>3. EntryAt(Version, PlaceOf(shift, Version, n))' = EntryAt(V, p)'
    BY <1>2, <1>4, <1>5, <2>1 DEF EntryAt, PlaceOf, SizeOf
  <2>4. EntryAt(V, p)' = EntryAt(V, p)
    BY <1>3, <1>4
  <2> QED
    BY <2>2, <2>3, <2>4
<1>13. RingListed(ring, shift)'
  <2> SUFFICES ASSUME NEW n \in Nat, Ringed(n)'
               PROVE  /\ EntryAt(Version, PlaceOf(shift, Version, n)).base' = Start(n)
                      /\ EntryAt(Version, PlaceOf(shift, Version, n)).block' = ring[n]
    BY DEF RingListed, Start
  <2>1. /\ EntryAt(Version, PlaceOf(shift, Version, n)).base = Start(n)
        /\ EntryAt(Version, PlaceOf(shift, Version, n)).block = ring[n]
    BY <1>1, <1>2, <1>7 DEF RingListed
  <2> QED
    BY <1>12, <2>1
<1>14. shift[V] % z = (indexFront' - Listed') % z
  <2>0. PICK g \in Int : g = f + 1
    OBVIOUS
  <2>1. PICK a \in Int : a = g % z
    BY PlaceTyped
  <2>2. PICK l \in Int : l = Listed /\ -(l + 1) \in Int
    BY <1>6
  <2>3. a % z = g % z
    BY <2>1, ModMod
  <2>4. Shifts(a, g, -(l + 1), z)
    BY <2>2, <2>3, ModShifts
  <2>5. (a + (-(l + 1))) % z = (g + (-(l + 1))) % z
    BY <2>3, <2>4 DEF Shifts
  <2>6. a + (-(l + 1)) = a - (l + 1) /\ g + (-(l + 1)) = f - l
    BY <2>0
  <2>7. shift[V] % z = (f - l) % z
    BY <1>1, <1>4, <2>2 DEF Congruent
  <2>8. indexFront' = a /\ Listed' = l + 1
    BY <1>2, <1>4, <1>7, <2>0, <2>1, <2>2
  <2> QED
    BY <2>5, <2>6, <2>7, <2>8
<1>15. Congruent(shift)'
  <2>1. /\ shift \in [Nat -> Int]
        /\ shift[Version'] % SizeOf(Version)' = (indexFront' - Listed') % SizeOf(Version)'
    BY <1>1, <1>2, <1>4, <1>5, <1>14 DEF Congruent
  <2>2. ASSUME NEW v \in Nat, NEW p \in Nat, 1 <= v, v <= Version', p < SizeOf(v)', EntryAt(v, p).block' # 0
        PROVE  /\ Off(EntryAt(v, p).base') = 0
               /\ (p - Num(EntryAt(v, p).base')) % SizeOf(v)' = shift[v] % SizeOf(v)'
    <3>1. v <= Version
      BY <1>2, <2>2
    <3>2. EntryAt(v, p)' = EntryAt(v, p) /\ SizeOf(v)' = SizeOf(v)
      BY <1>3, <2>2, <3>1
    <3> QED
      BY <1>1, <2>2, <3>1, <3>2 DEF Congruent
  <2> QED
    BY <2>1, <2>2 DEF Congruent
<1>16. FrontSet'
  <2> SUFFICES ASSUME NEW v \in Nat, 1 <= v, v <= Version' PROVE FrontGood(v)'
    BY DEF FrontSet
  <2>1. v <= V /\ (v = V \/ v < V)
    BY <1>2, <1>4
  <2>2. v < V => FrontGood(v)
    BY <1>1, <1>4 DEF FrontSet
  <2> QED
    BY <1>9, <2>1, <2>2
<1>17. KeepsSame
  BY <1>2, RangesOther
<1>18. FlagsRight(ring)'
  BY <1>1, <1>2, <1>7, <1>17, NumNat DEF FlagsRight, KeepsSame
<1>19. KeptInRing'
  BY <1>1, <1>2, <1>7, <1>17 DEF KeptInRing, KeepsSame, Start
<1>20. ASSUME NEW c \in Consumers PROVE Finds(ring, shift, c)'
  <2>1. Finds(ring, shift, c) /\ \A n \in Nat : n < Begun => ring[n] = ring[n]
    BY <1>1 DEF AllFind
  <2>2. Version' \in Nat /\ Version <= Version'
    BY <1>2, <1>4
  <2>3. ASSUME NEW v \in Nat, 1 <= v, v <= Version
        PROVE  /\ SizeOf(v)' = SizeOf(v) /\ shift[v] = shift[v] /\ (FrontGood(v) => FrontGood(v)')
               /\ \A p \in Nat : p < SizeOf(v) /\ EntryAt(v, p).block # 0 => EntryAt(v, p).block' # 0
    <3>1. \A p : EntryAt(v, p)' = EntryAt(v, p)
      BY <1>3, <2>3
    <3> QED
      BY <1>3, <1>4, <1>9, <2>3, <3>1
  <2>4. ASSUME Searching(c), NEW i \in Nat, Keeps(c, i)
        PROVE  EntryAt(cons[c].ver, PlaceOf(shift, cons[c].ver, Num(i))).block'
               = EntryAt(cons[c].ver, PlaceOf(shift, cons[c].ver, Num(i))).block
    <3>1. PICK v \in Nat : v = cons[c].ver /\ 1 <= v /\ v <= Version
      BY <1>4, <2>1, <2>4 DEF Finds, FindsAll
    <3>2. PICK p : p = PlaceOf(shift, v, Num(i))
      OBVIOUS
    <3>3. p = PlaceOf(shift, v, Num(i))'
      BY <1>3, <3>1, <3>2 DEF PlaceOf
    <3>4. EntryAt(cons[c].ver, PlaceOf(shift, cons[c].ver, Num(i)))' = EntryAt(v, p)'
      BY <1>2, <3>1, <3>2, <3>3 DEF EntryAt, PlaceOf, SizeOf
    <3>5. EntryAt(v, p)' = EntryAt(v, p)
      BY <1>3, <3>1
    <3> QED
      BY <3>1, <3>2, <3>4, <3>5
  <2> QED
    BY <1>1, <1>2, <2>1, <2>2, <2>3, <2>4, FindsOn
<1> QED
  BY <1>1, <1>2, <1>10, <1>11, <1>13, <1>15, <1>16, <1>18, <1>19, <1>20
  DEF ExplicitWell, RingInv, AllFind

-----------------------------------------------------------------------------
(* The steps of a consumer of an implicit producer.                        *)

LEMMA ImplicitParts ==
  /\ \A c : I!End(c) = End(c) /\ I!Until(c) = Until(c)
  /\ \A i : I!BaseOf(i) = BaseOf(i)
  /\ \A c, size : I!NextBlock(c, size) => NextBlock(c, size)
  /\ I!Offsets = Offsets /\ I!Blocks = Blocks
BY ImplicitSame DEF I!End, End, I!Until, Until, I!Min, Min, I!BaseOf, BaseOf, I!NextBlock, NextBlock,
  I!Goto, Goto, I!Leave, Leave, I!Idle, Idle, I!Offsets, Offsets, I!Blocks, Blocks

LEMMA ImplicitClaim ==
  ASSUME NEW c, I!Claim(c)
  PROVE  Claim(c)
BY DEF I!Claim, Claim, I!LoadTail, LoadTail, I!LoadOvercommit, LoadOvercommit,
    I!LoadOptimistic, LoadOptimistic, I!AddOptimistic, AddOptimistic, I!ReloadTail, ReloadTail,
    I!GiveBack, GiveBack, I!AddHead, AddHead, I!At, At, I!Goto, Goto, I!Leave, Leave,
    I!Idle, Idle, I!counters, counters, I!Min, Min, I!Max, Max

(* The list stays as it is.                                                *)
ListSame == UNCHANGED <<tailIndex, headIndex, tailBlock, ppc, headers, entries, dequeued, free>>

LEMMA LoadHeaderDoes ==
  ASSUME CountInv, NEW c \in Consumers, I!LoadHeader(c)
  PROVE  /\ Keeping(c) /\ ListSame
         /\ cons[c].pc = "index" /\ cons'[c].pc = "front" /\ cons'[c].ver = Len(headers)
<1>1. Goto(c, "front", [ver |-> Len(headers)]) /\ cons[c].pc = "index"
  BY ImplicitSame DEF I!LoadHeader
<1>2. ListSame /\ UNCHANGED counters
  BY ImplicitSame DEF I!LoadHeader, I!listVars, I!counters, counters, ListSame
<1> QED
  BY <1>1, <1>2, GotoKeeps DEF Taking

LEMMA LoadHeaderTailDoes ==
  ASSUME CountInv, NEW c \in Consumers, I!LoadHeaderTail(c)
  PROVE  /\ Keeping(c) /\ ListSame
         /\ cons[c].pc = "front" /\ cons'[c].pc = "base" /\ cons'[c].ver = cons[c].ver
         /\ cons'[c].front = headers[cons[c].ver].tail
<1>1. Goto(c, "base", [front |-> headers[cons[c].ver].tail]) /\ cons[c].pc = "front"
  BY ImplicitSame DEF I!LoadHeaderTail
<1>2. ListSame /\ UNCHANGED counters
  BY ImplicitSame DEF I!LoadHeaderTail, I!listVars, I!counters, counters, ListSame
<1> QED
  BY <1>1, <1>2, GotoKeeps DEF Taking

LEMMA LoadKeyDoes ==
  ASSUME CountInv, NEW c \in Consumers, I!LoadKey(c)
  PROVE  /\ Keeping(c) /\ ListSame
         /\ cons[c].pc = "base" /\ cons'[c].pc = "block" /\ cons'[c].ver = cons[c].ver
         /\ cons'[c].slot = (cons[c].front + ((BaseOf(cons[c].first) - I!TailKey(c)) \div BlockSize))
                              % I!Size(headers[cons[c].ver])
<1> DEFINE slot == (cons[c].front + ((BaseOf(cons[c].first) - I!TailKey(c)) \div BlockSize))
                     % I!Size(headers[cons[c].ver])
<1>1. Goto(c, "block", [slot |-> slot, front |-> 0]) /\ cons[c].pc = "base"
  BY ImplicitSame, ImplicitParts DEF I!LoadKey
<1>2. ListSame /\ UNCHANGED counters
  BY ImplicitSame DEF I!LoadKey, I!listVars, I!counters, counters, ListSame
<1> HIDE DEF slot
<1>3. /\ Keeping(c) /\ cons'[c].pc = "block" /\ cons'[c].ver = cons[c].ver
      /\ cons'[c].slot = slot
  BY <1>1, <1>2, GotoKeeps DEF Taking
<1> QED
  BY <1>1, <1>2, <1>3 DEF slot

LEMMA LoadValueDoes ==
  ASSUME CountInv, NEW c \in Consumers, I!LoadValue(c)
  PROVE  /\ Keeping(c) /\ ListSame
         /\ cons[c].pc = "block" /\ cons'[c].pc = "read" /\ cons'[c].ver = cons[c].ver
         /\ cons'[c].slot = cons[c].slot
         /\ cons'[c].block = entries[I!Place(c)].value
<1>1. Goto(c, "read", [block |-> entries[I!Place(c)].value]) /\ cons[c].pc = "block"
  BY ImplicitSame DEF I!LoadValue
<1>2. ListSame /\ UNCHANGED counters
  BY ImplicitSame DEF I!LoadValue, I!listVars, I!counters, counters, ListSame
<1> QED
  BY <1>1, <1>2, GotoKeeps DEF Taking

LEMMA ReadListDoes ==
  ASSUME CountInv, NEW c \in Consumers, I!ReadItems(c), UNCHANGED I!listVars
  PROVE  /\ Keeping(c) /\ ListSame
         /\ cons[c].pc = "read" /\ cons'[c].pc = "empty" /\ cons'[c].ver = cons[c].ver
         /\ cons'[c].slot = cons[c].slot /\ cons'[c].block = cons[c].block
<1>1. PICK got : Goto(c, "empty", [got |-> got]) /\ cons[c].pc = "read"
  BY ImplicitSame DEF I!ReadItems
<1>2. ListSame /\ UNCHANGED counters
  BY ImplicitSame DEF I!ReadItems, I!listVars, I!counters, counters, ListSame
<1> QED
  BY <1>1, <1>2, GotoKeeps DEF Taking

(* The items are counted; whoever counts the last stays with the block.    *)
LEMMA CountDequeuedDoes ==
  ASSUME CountInv, NEW c \in Consumers, I!CountDequeued(c)
  PROVE  /\ cons[c].pc = "empty"
         /\ UNCHANGED <<tailIndex, headIndex, tailBlock, ppc, headers, entries, free>>
         /\ dequeued' = [dequeued EXCEPT ![cons[c].block] = @ + (Until(c) - cons[c].pos)]
         /\ \/ /\ dequeued[cons[c].block] + (Until(c) - cons[c].pos) = BlockSize
               /\ Marking(c) /\ cons'[c].ver = cons[c].ver
               /\ cons'[c].slot = cons[c].slot /\ cons'[c].block = cons[c].block
            \/ /\ dequeued[cons[c].block] + (Until(c) - cons[c].pos) # BlockSize
               /\ GoesOn(c)
               /\ cons'[c].pc = "block" =>
                    /\ cons'[c].ver = cons[c].ver
                    /\ cons'[c].slot = (cons[c].slot + 1) % I!Size(headers[cons[c].ver])
<1>1. /\ cons[c].pc = "empty" /\ UNCHANGED counters
      /\ UNCHANGED <<tailIndex, headIndex, tailBlock, ppc, headers, entries, free>>
  BY ImplicitSame DEF I!CountDequeued, I!counters
<1>2. /\ dequeued' = [dequeued EXCEPT ![cons[c].block] = @ + (Until(c) - cons[c].pos)]
      /\ IF dequeued[cons[c].block] + (Until(c) - cons[c].pos) = BlockSize
         THEN Goto(c, "clear", <<>>) ELSE NextBlock(c, I!Size(headers[cons[c].ver]))
  BY ImplicitSame, ImplicitParts DEF I!CountDequeued
<1>3. CASE dequeued[cons[c].block] + (Until(c) - cons[c].pos) = BlockSize
  <2>1. Goto(c, "clear", <<>>)
    BY <1>2, <1>3
  <2>2. DOMAIN cons = Consumers /\ DOMAIN <<>> = {}
    BY DEF CountInv, CountersTyped
  <2>3. /\ Only(c) /\ cons'[c].pc = "clear"
        /\ \A f \in DOMAIN Idle \ {"pc"} : cons'[c][f] = cons[c][f]
    BY <2>1, <2>2, Went
  <2>4. /\ cons'[c].first = cons[c].first /\ cons'[c].count = cons[c].count
        /\ cons'[c].pos = cons[c].pos /\ cons'[c].ver = cons[c].ver
        /\ cons'[c].slot = cons[c].slot /\ cons'[c].block = cons[c].block
    BY <2>3, Fields
  <2> QED
    BY <1>1, <1>2, <1>3, <2>3, <2>4 DEF Marking, HeldSame, counters
<1>4. CASE dequeued[cons[c].block] + (Until(c) - cons[c].pos) # BlockSize
  <2>1. NextBlock(c, I!Size(headers[cons[c].ver]))
    BY <1>2, <1>4
  <2> QED
    BY <1>1, <1>2, <1>4, <2>1, NextGoesOn
<1> QED
  BY <1>3, <1>4

LEMMA ClearEntryDoes ==
  ASSUME CountInv, NEW c \in Consumers, I!ClearEntry(c)
  PROVE  /\ Keeping(c) /\ UNCHANGED <<tailIndex, headIndex, tailBlock, ppc, headers, dequeued, free>>
         /\ entries' = [entries EXCEPT ![I!Place(c)].value = 0]
         /\ cons[c].pc = "clear" /\ cons'[c].pc = "release" /\ cons'[c].ver = cons[c].ver
         /\ cons'[c].slot = cons[c].slot /\ cons'[c].block = cons[c].block
<1>1. Goto(c, "release", <<>>) /\ cons[c].pc = "clear"
  BY ImplicitSame DEF I!ClearEntry
<1>2. /\ UNCHANGED counters /\ UNCHANGED <<tailIndex, headIndex, tailBlock, ppc, headers, dequeued, free>>
      /\ entries' = [entries EXCEPT ![I!Place(c)].value = 0]
  BY ImplicitSame DEF I!ClearEntry, I!counters, I!NoBlock
<1>3. DOMAIN <<>> = {}
  OBVIOUS
<1> QED
  BY <1>1, <1>2, <1>3, GotoKeeps DEF Taking

LEMMA ReleaseBlockDoes ==
  ASSUME CountInv, NEW c \in Consumers, I!ReleaseBlock(c)
  PROVE  /\ GoesOn(c) /\ cons[c].pc = "release"
         /\ UNCHANGED <<tailIndex, headIndex, tailBlock, ppc, headers, entries, dequeued>>
         /\ free' = free \cup {cons[c].block}
         /\ cons'[c].pc = "block" =>
              /\ cons'[c].ver = cons[c].ver
              /\ cons'[c].slot = (cons[c].slot + 1) % I!Size(headers[cons[c].ver])
<1>1. NextBlock(c, I!Size(headers[cons[c].ver])) /\ cons[c].pc = "release"
  BY ImplicitSame, ImplicitParts DEF I!ReleaseBlock
<1>2. /\ UNCHANGED counters
      /\ UNCHANGED <<tailIndex, headIndex, tailBlock, ppc, headers, entries, dequeued>>
      /\ free' = free \cup {cons[c].block}
  BY ImplicitSame DEF I!ReleaseBlock, I!counters
<1> QED
  BY <1>1, <1>2, NextGoesOn

-----------------------------------------------------------------------------
(* What is taken is taken by one consumer.                                 *)

LEMMA RangeInvInit == Init => RangeInv
<1> SUFFICES ASSUME Init PROVE RangeInv
  OBVIOUS
<1>1. headIndex = 0 /\ \A c \in Consumers : cons[c].pc = "idle"
  BY DEF Init, BaseInit, Idle
<1> QED
  BY <1>1 DEF RangeInv, RangesTyped, RangesApart, Takes, Taking

LEMMA RangeInvStep == CountInv /\ RangeInv /\ [Next]_vars => RangeInv'
<1> SUFFICES ASSUME CountInv, RangeInv, [Next]_vars PROVE RangeInv'
  OBVIOUS
<1>1. CASE Enqueue
  <2>1. UNCHANGED headIndex /\ UNCHANGED cons
    BY <1>1, EnqueueCounts DEF StoreTail, counters
  <2> QED
    BY <2>1, RangesOther
<1>2. ASSUME NEW c \in Consumers, Claim(c) PROVE RangeInv'
  BY <1>2, ClaimTakes, RangesAside, RangesNew
<1>3. ASSUME NEW c \in Consumers, isExplicit, E!Dequeue(c) PROVE RangeInv'
  <2>1. CASE E!SetManyEmpty(c)
    BY <2>1, SetManyEmptyDoes, RangesMark
  <2>2. CASE E!LoadIndex(c) \/ E!LoadFront(c) \/ E!LoadBase(c) \/ E!LoadBlock(c)
    BY <2>2, LoadIndexDoes, LoadFrontDoes, LoadBaseDoes, LoadBlockDoes, RangesAside
  <2>3. CASE (E!Claim(c) \/ E!ReadItems(c)) /\ UNCHANGED E!ringVars
    BY <1>2, <2>3, ExplicitClaim, ReadItemsDoes, RangesAside
  <2> QED
    BY <1>3, <2>1, <2>2, <2>3 DEF E!Dequeue
<1>4. ASSUME NEW c \in Consumers, ~isExplicit, I!Dequeue(c) PROVE RangeInv'
  <2>1. CASE I!CountDequeued(c)
    BY <2>1, CountDequeuedDoes, RangesMark
  <2>2. CASE I!ReleaseBlock(c)
    BY <2>2, ReleaseBlockDoes, RangesOn
  <2>3. CASE I!LoadHeader(c) \/ I!LoadHeaderTail(c) \/ I!LoadKey(c) \/ I!LoadValue(c) \/ I!ClearEntry(c)
    BY <2>3, LoadHeaderDoes, LoadHeaderTailDoes, LoadKeyDoes, LoadValueDoes, ClearEntryDoes, RangesAside
  <2>4. CASE (I!Claim(c) \/ I!ReadItems(c)) /\ UNCHANGED I!listVars
    BY <1>2, <2>4, ImplicitClaim, ReadListDoes, RangesAside
  <2> QED
    BY <1>4, <2>1, <2>2, <2>3, <2>4 DEF I!Dequeue
<1>5. CASE UNCHANGED vars
  BY <1>5, RangesOther DEF vars, baseVars, counters
<1> QED
  BY <1>1, <1>3, <1>4, <1>5 DEF Next, Dequeue

(* dequeue and dequeue_bulk: the consumers that have claimed items have    *)
(* each a range of its own, below headIndex, for any number of them and of *)
(* items asked for.  No item is taken twice.                               *)
THEOREM TakenOnce == Spec => []RangeInv
BY RangeInvInit, RangeInvStep, AlwaysCountInv, PTL DEF Spec

-----------------------------------------------------------------------------
(* The ring of an explicit producer, always.                               *)

LEMMA ExplicitInit == Init => ExplicitInv
<1> SUFFICES ASSUME Init PROVE ExplicitInv
  OBVIOUS
<1>a. PICK ring, shift : ring = [n \in Nat |-> 0] /\ shift = [n \in Nat |-> 0]
  OBVIOUS
<1>1. /\ headIndex = 0 /\ tailIndex = 0 /\ ppc = "idle" /\ tailBlock = 0
      /\ next = [b \in Blocks |-> 0] /\ empty = [b \in Blocks |-> [o \in Offsets |-> FALSE]]
      /\ blockIndex = <<[size |-> IndexSize, front |-> -1,
                         entries |-> [i \in 0..(IndexSize - 1) |-> [base |-> 0, block |-> 0]]]>>
      /\ slotsUsed = 0 /\ indexFront = 0
      /\ \A c \in Consumers : cons[c].pc = "idle"
  BY ExplicitParts DEF Init, BaseInit, Idle, E!RingInit, E!Header, E!NoEntry
<1>2. PICK z \in Nat \ {0} : z = IndexSize
  BY SizeAssumption
<1>3. Off(0) = 0 /\ Num(0) = 0
  <2>1. 0 \in Int /\ 0 \in Offsets
    BY OffsetIs, SizeIs
  <2>2. Num(Start(0) + 0) = 0 /\ Off(Start(0) + 0) = 0
    BY <2>1, ItemOf
  <2> QED
    BY <2>2, StartZero
<1>4. Begun = 0 /\ Listed = 0 /\ Oldest = 0 /\ Version = 1 /\ \A n \in Nat : ~ Ringed(n)
  BY <1>1, <1>3 DEF Begun, Listed, Oldest, Version, Ringed
<1>5. /\ SizeOf(1) = z /\ \A p \in 0..(z - 1) : EntryAt(1, p) = [base |-> 0, block |-> 0]
  BY <1>1, <1>2 DEF SizeOf, EntryAt
<1>6. RingTyped
  <2>1. PICK h : h = [size |-> z, front |-> -1, entries |-> [i \in 0..(z - 1) |-> [base |-> 0, block |-> 0]]]
    OBVIOUS
  <2>2. [i \in 0..(z - 1) |-> [base |-> 0, block |-> 0]] \in [0..(z - 1) -> Entries]
    BY DEF Entries
  <2>3. h \in Headers
    <3>1. h \in [size : {z}, front : Int, entries : [0..(z - 1) -> Entries]]
      BY <2>1, <2>2
    <3> QED
      BY <3>1 DEF Headers
  <2>4. blockIndex = <<h>>
    BY <1>1, <1>2, <2>1
  <2>5. blockIndex \in Seq(Headers)
    BY <2>3, <2>4
  <2>6. Staged
    BY <1>1 DEF Staged
  <2>7. BlockNum \in Nat /\ next \in [Blocks -> Nat]
    BY <1>1, SizeAssumption
  <2> QED
    BY <1>1, <1>4, <1>5, <2>5, <2>6, <2>7 DEF RingTyped
<1>7. RingLinked(ring)
  BY <1>a, <1>4 DEF RingLinked
<1>8. RingListed(ring, shift)
  BY <1>4 DEF RingListed
<1>9. Congruent(shift)
  <2>1. shift \in [Nat -> Int] /\ shift[1] = 0
    BY <1>a
  <2>2. ASSUME NEW p \in Nat, p < z PROVE EntryAt(1, p).block = 0
    <3>1. p \in 0..(z - 1)
      BY <2>2
    <3> QED
      BY <1>5, <3>1
  <2>3. \A v \in Nat : 1 <= v /\ v <= 1 => v = 1
    OBVIOUS
  <2> QED
    BY <1>1, <1>4, <1>5, <2>1, <2>2, <2>3 DEF Congruent
<1>10. FrontSet
  BY <1>4 DEF FrontSet
<1>11. FlagsRight(ring)
  BY <1>4, NumNat DEF FlagsRight
<1>12. KeptInRing
  <2>1. Start(0) = 0
    BY StartZero
  <2> QED
    BY <1>1, <1>4, <2>1 DEF KeptInRing, Keeps, Takes, Taking
<1>13. AllFind(ring, shift)
  BY <1>1 DEF AllFind, Finds, Searching
<1>14. empty \in [Blocks -> [Offsets -> BOOLEAN]]
  BY <1>1
<1>15. ExplicitWell(ring, shift)
  BY <1>6, <1>7, <1>8, <1>9, <1>10, <1>11, <1>12, <1>13, <1>14 DEF ExplicitWell, RingInv
<1> QED
  BY <1>15 DEF ExplicitInv

LEMMA ExplicitStep ==
  CountInv /\ RangeInv /\ (isExplicit => ExplicitInv) /\ [Next]_vars => (isExplicit => ExplicitInv)'
<1> SUFFICES ASSUME CountInv, RangeInv, isExplicit => ExplicitInv, [Next]_vars, isExplicit'
             PROVE  ExplicitInv'
  OBVIOUS
<1>1. isExplicit
  BY DEF Next, vars
<1>2. PICK ring, shift : ExplicitWell(ring, shift)
  BY <1>1 DEF ExplicitInv
<1>3. CASE E!Enqueue
  <2>1. CASE E!ReuseBlock
    BY <1>2, <2>1, WellByReuseBlock DEF ExplicitInv
  <2>2. CASE E!AddBlock
    BY <1>2, <2>2, WellByAddBlock DEF ExplicitInv
  <2>3. CASE E!EnqueueFails
    BY <1>2, <2>3, WellByEnqueueFails DEF ExplicitInv
  <2>4. CASE E!StoreEntry
    BY <1>2, <2>4, WellByStoreEntry DEF ExplicitInv
  <2>5. CASE E!StoreFront
    BY <1>2, <2>5, WellByStoreFront DEF ExplicitInv
  <2>6. CASE E!Produce /\ UNCHANGED E!ringVars
    BY <1>2, <2>6, WellByProduce DEF ExplicitInv
  <2> QED
    BY <1>3, <2>1, <2>2, <2>3, <2>4, <2>5, <2>6 DEF E!Enqueue
<1>4. ASSUME NEW c \in Consumers, E!Dequeue(c) PROVE ExplicitInv'
  BY <1>2, <1>4, WellByDequeue DEF ExplicitInv
<1>5. CASE UNCHANGED vars
  <2>1. RingSame /\ UNCHANGED <<headIndex, cons, empty>>
    BY <1>5, SameRing DEF vars, baseVars, ringVars, counters
  <2>2. KeepsSame
    BY <2>1, RangesOther
  <2>3. RingInv(ring, shift)'
    BY <1>2, <2>1, RingStays DEF ExplicitWell
  <2>4. AllFind(ring, shift)'
    BY <1>2, <2>1, <2>2, OthersFind DEF AllFind, KeepsSame, ExplicitWell
  <2>5. FlagsRight(ring)'
    BY <1>2, <2>1, <2>2, FlagsStay DEF ExplicitWell, KeepsSame
  <2>6. KeptInRing'
    BY <1>2, <2>1, <2>2, KeptStays DEF ExplicitWell, KeepsSame
  <2> QED
    BY <1>2, <2>1, <2>3, <2>4, <2>5, <2>6 DEF ExplicitWell, ExplicitInv
<1> QED
  BY <1>1, <1>3, <1>4, <1>5 DEF Next, Enqueue, Dequeue

LEMMA AlwaysExplicit == Spec => [](isExplicit => ExplicitInv)
<1>1. Init => (isExplicit => ExplicitInv)
  BY ExplicitInit
<1> QED
  BY <1>1, ExplicitStep, AlwaysCountInv, TakenOnce, PTL DEF Spec

(* The blocks of the ring lead to blocks.                                  *)
NextTyped == next \in [Blocks -> Blocks \cup {0}]

LEMMA NextTypedInit == Init => NextTyped
BY ExplicitParts DEF Init, E!RingInit, NextTyped

LEMMA NextTypedStep ==
  CountInv /\ (isExplicit => ExplicitInv) /\ NextTyped /\ [Next]_vars => NextTyped'
<1> SUFFICES ASSUME CountInv, isExplicit => ExplicitInv, NextTyped, [Next]_vars PROVE NextTyped'
  OBVIOUS
<1>1. CASE isExplicit /\ E!AddBlock
  <2>1. PICK ring, shift : RingInv(ring, shift)
    BY <1>1 DEF ExplicitInv, ExplicitWell
  <2>2. E!NeedsBlock /\ slotsUsed < BlockNum
    BY <1>1 DEF E!AddBlock
  <2>3. slotsUsed \in Nat /\ 1..slotsUsed \subseteq Blocks /\ (tailBlock # 0 => tailBlock \in 1..slotsUsed)
    BY <2>1, <2>2, AtNeedsBlock
  <2>4. PICK b \in Blocks : b = slotsUsed + 1
    <3>1. BlockNum \in Nat
      BY SizeAssumption
    <3> QED
      BY <2>2, <2>3, <3>1 DEF Blocks
  <2>5. next' = IF tailBlock = 0 THEN [next EXCEPT ![b] = b]
                ELSE [next EXCEPT ![b] = next[tailBlock], ![tailBlock] = b]
    BY <1>1, <2>4 DEF E!AddBlock
  <2> QED
    BY <2>3, <2>4, <2>5 DEF NextTyped
<1>2. CASE UNCHANGED next
  BY <1>2 DEF NextTyped
<1>3. UNCHANGED next \/ (isExplicit /\ E!AddBlock)
  <2>1. ASSUME isExplicit /\ E!Enqueue PROVE UNCHANGED next \/ E!AddBlock
    BY <2>1 DEF E!Enqueue, E!ReuseBlock, E!EnqueueFails, E!StoreEntry, E!StoreFront, E!ringVars
  <2>2. ASSUME NEW c, E!Dequeue(c) PROVE UNCHANGED next
    BY <2>2 DEF E!Dequeue, E!LoadIndex, E!LoadFront, E!LoadBase, E!LoadBlock, E!SetManyEmpty, E!ringVars
  <2> QED
    BY <2>1, <2>2 DEF Next, Enqueue, Dequeue, vars, ringVars
<1> QED
  BY <1>1, <1>2, <1>3

LEMMA AlwaysNextTyped == Spec => []NextTyped
BY NextTypedInit, NextTypedStep, AlwaysCountInv, AlwaysExplicit, PTL DEF Spec

LEMMA ExplicitIsTyped ==
  ASSUME CountInv, ExplicitInv, NextTyped
  PROVE  E!TypeOK
<1>1. PICK ring, shift : ExplicitWell(ring, shift)
  BY DEF ExplicitInv
<1>2. RingTyped /\ RingLinked(ring) /\ empty \in [Blocks -> [Offsets -> BOOLEAN]]
  BY <1>1 DEF ExplicitWell, RingInv
<1>3. PICK z \in Nat \ {0} : z = SizeOf(Version)
  <2>1. Version \in Nat /\ 1 <= Version /\ Version <= Version
    BY <1>2 DEF RingTyped, Version
  <2> QED
    BY <1>2, <2>1, IndexTyped
<1>4. E!index.size = z
  BY <1>3, IndexIs DEF SizeOf, Version
<1>5. /\ slotsUsed \in Nat /\ slotsUsed <= z /\ indexFront \in 0..(z - 1)
  <2>1. slotsUsed \in Nat /\ slotsUsed <= z /\ indexFront \in Nat /\ indexFront < z
    BY <1>2, <1>3 DEF RingTyped
  <2> QED
    BY <2>1
<1>6. tailBlock \in Blocks \cup {0}
  <2>1. CASE Begun > 0
    <3>1. /\ Begun \in Nat /\ slotsUsed \in Nat /\ slotsUsed > 0 /\ slotsUsed <= BlockNum
          /\ BlockNum \in Nat
      BY <1>2, <2>1, BegunTyped, SizeAssumption DEF RingTyped
    <3>2. Begun - 1 \in Nat /\ Ringed(Begun - 1)
      BY <2>1, <3>1 DEF Ringed, Oldest
    <3>3. /\ tailBlock = ring[Begun - 1] /\ ring[Begun - 1] \in Nat
          /\ 1 <= ring[Begun - 1] /\ ring[Begun - 1] <= slotsUsed
      BY <1>2, <2>1, <3>2 DEF RingLinked
    <3> QED
      BY <3>1, <3>3 DEF Blocks
  <2>2. CASE ~ (Begun > 0)
    BY <1>2, <2>2, BegunTyped DEF RingTyped
  <2> QED
    BY <2>1, <2>2
<1>7. {tailIndex, headIndex, dequeueOptimisticCount, dequeueOvercommit, slotsUsed} \subseteq Nat
  BY <1>5 DEF CountInv, CountersTyped
<1> QED
  BY <1>2, <1>4, <1>5, <1>6, <1>7, ExplicitParts DEF E!TypeOK, NextTyped

LEMMA ExplicitEmpties ==
  ASSUME CountInv, RangeInv, ExplicitInv
  PROVE  E!EmptiedOnce
<1>1. PICK ring, shift : ExplicitWell(ring, shift)
  BY DEF ExplicitInv
<1> SUFFICES ASSUME NEW c \in Consumers, cons[c].pc = "empty",
                    NEW i \in cons[c].pos..(Until(c) - 1)
             PROVE  cons[c].block \in Blocks /\ ~empty[cons[c].block][Off(i)]
  BY ExplicitParts, ExplicitSame DEF E!EmptiedOnce, Off
<1>2. Takes(c) /\ RangeTyped(c)
  BY DEF Takes, Taking, RangeInv, RangesTyped
<1>3. /\ i \in Nat /\ cons[c].pos \in Nat /\ cons[c].pos <= i /\ i < Until(c) /\ i < End(c)
  BY <1>2, UntilIs DEF RangeTyped
<1>4. Keeps(c, i)
  BY <1>2, <1>3 DEF Keeps, From
<1>5. Num(i) = Num(cons[c].pos)
  BY <1>2, <1>3, UntilNum
<1>6. cons[c].block = ring[Num(i)]
  BY <1>1, <1>5 DEF ExplicitWell, AllFind, Finds
<1>7. Ringed(Num(i)) /\ Num(i) \in Nat
  BY <1>1, <1>3, <1>4, KeptRinged, NumNat DEF ExplicitWell
<1>8. ring[Num(i)] \in Blocks
  <2>1. /\ ring[Num(i)] \in Nat /\ 1 <= ring[Num(i)] /\ ring[Num(i)] <= slotsUsed
        /\ slotsUsed \in Nat /\ slotsUsed <= BlockNum /\ BlockNum \in Nat
    BY <1>1, <1>7, SizeAssumption DEF ExplicitWell, RingInv, RingLinked, RingTyped
  <2> QED
    BY <2>1 DEF Blocks
<1>9. ~ Gone(i)
  BY <1>4 DEF Gone
<1> QED
  BY <1>1, <1>3, <1>6, <1>7, <1>8, <1>9 DEF ExplicitWell, FlagsRight

(* An explicit producer's variables have values of their kind, whatever    *)
(* the sizes: the ring consists of blocks that there is memory for, and    *)
(* the position in the circular index stays inside it.                     *)
THEOREM ExplicitTypeCorrect == Spec => [](isExplicit => TypeOK)
<1>1. CountInv /\ (isExplicit => ExplicitInv) /\ NextTyped => (isExplicit => TypeOK)
  BY ExplicitIsTyped DEF TypeOK
<1> QED
  BY <1>1, AlwaysCountInv, AlwaysExplicit, AlwaysNextTyped, PTL

(* The assertion of set_many_empty holds for an explicit producer: the     *)
(* consumer has found the block that the item was put into, whichever      *)
(* index it loaded and however the producer changed the ring since, the    *)
(* block has not been taken for other items, and the place was not emptied *)
(* before.                                                                 *)
THEOREM ExplicitAssertsHold == Spec => [](isExplicit => AssertsHold)
<1>1. CountInv /\ RangeInv /\ (isExplicit => ExplicitInv) => (isExplicit => AssertsHold)
  BY ExplicitEmpties DEF AssertsHold
<1> QED
  BY <1>1, AlwaysCountInv, TakenOnce, AlwaysExplicit, PTL
=============================================================================
