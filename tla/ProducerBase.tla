---------------------------- MODULE ProducerBase -----------------------------
(***************************************************************************)
(* What the two kinds of sub-queue of concurrentqueue.hpp, ExplicitProducer*)
(* and ImplicitProducer, have in common: the counters by which threads     *)
(* claim items without a lock, one at a time or several, and the blocks    *)
(* the items are in.  Each action is at most one access to memory that is  *)
(* shared; accesses take effect at once and in the order of the program.   *)
(*                                                                         *)
(* Indices are 64 bits wide in the code and do not wrap here, so that      *)
(* circular_less_than is <.  Item i is the one that is put at index i.     *)
(***************************************************************************)
EXTENDS Integers, Sequences, SequencesExt, FiniteSetsExt

CONSTANTS
  Consumers,  \* threads that dequeue
  Maxima,     \* how many items they ask for
  BlockSize,  \* BLOCK_SIZE
  IndexSize,  \* entries of the first block index
  PoolSize,   \* blocks of the initial pool
  BlockNum,   \* these and the blocks there is memory for
  MaxItems,       \* bound: items that are ever put
  MaxOvercommit   \* bound: a dequeue begins only below it

ASSUME SizeAssumption ==
  /\ Maxima \subseteq Nat \ {0}
  /\ {BlockSize, IndexSize, BlockNum, MaxItems, MaxOvercommit} \subseteq Nat \ {0}
  /\ BlockSize > 1 /\ PoolSize \in 0..BlockNum
  /\ IsFiniteSet(Consumers)

VARIABLES
  tailIndex, headIndex, dequeueOptimisticCount, dequeueOvercommit,
  tailBlock,  \* the block being filled, 0 before the first
  elem,       \* elem[b][o]: item at offset o of block b
  ppc,        \* where the producer is in enqueue
  cons        \* cons[c]: where consumer c is in dequeue, and its locals

counters == <<tailIndex, headIndex, dequeueOptimisticCount, dequeueOvercommit>>
baseVars == <<counters, tailBlock, elem, ppc, cons>>

Blocks  == 1..BlockNum
Offsets == 0..(BlockSize - 1)
NoItem  == -1

(* A consumer outside dequeue.                                             *)
Idle == [pc |-> "idle", max |-> 0, tail |-> 0, over |-> 0, want |-> 0, my |-> 0,
         count |-> 0, first |-> 0, ver |-> 0, front |-> 0, slot |-> 0,
         block |-> 0, pos |-> 0, got |-> <<>>]

BaseInit ==
  /\ tailIndex = 0 /\ headIndex = 0
  /\ dequeueOptimisticCount = 0 /\ dequeueOvercommit = 0
  /\ tailBlock = 0
  /\ elem = [b \in Blocks |-> [o \in Offsets |-> NoItem]]
  /\ ppc  = "idle"
  /\ cons = [c \in Consumers |-> Idle]

-----------------------------------------------------------------------------
(* The producer.                                                           *)

(* enqueue needs a block when the item is the first of one.                *)
NeedsBlock == ppc = "idle" /\ tailIndex < MaxItems /\ tailIndex % BlockSize = 0
HasRoom    == ppc = "idle" /\ tailIndex < MaxItems /\ tailIndex % BlockSize # 0

(* The item is written, then it becomes visible.                           *)
StoreElem ==
  /\ HasRoom \/ ppc = "elem"
  /\ elem' = [elem EXCEPT ![tailBlock][tailIndex % BlockSize] = tailIndex]
  /\ ppc' = "tail"
  /\ UNCHANGED <<counters, tailBlock, cons>>

StoreTail ==
  /\ ppc = "tail"
  /\ tailIndex' = tailIndex + 1
  /\ ppc' = "idle"
  /\ UNCHANGED <<headIndex, dequeueOptimisticCount, dequeueOvercommit, tailBlock, elem, cons>>

Produce == StoreElem \/ StoreTail

-----------------------------------------------------------------------------
(* A consumer claims items, in dequeue_bulk; dequeue does the same         *)
(* accesses with a maximum of one.                                         *)

At(c, pc) == cons[c].pc = pc
Goto(c, pc, locals) ==
  cons' = [cons EXCEPT ![c] = [f \in DOMAIN Idle |->
             IF f = "pc" THEN pc ELSE IF f \in DOMAIN locals THEN locals[f] ELSE @[f]]]
Leave(c) == cons' = [cons EXCEPT ![c] = Idle]

(* Three loads decide whether it is worth trying.                          *)
LoadTail(c, max) ==
  /\ At(c, "idle") /\ dequeueOvercommit < MaxOvercommit
  /\ Goto(c, "over", [max |-> max, tail |-> tailIndex])
  /\ UNCHANGED <<counters, tailBlock, elem, ppc>>

LoadOvercommit(c) ==
  /\ At(c, "over")
  /\ Goto(c, "desired", [over |-> dequeueOvercommit])
  /\ UNCHANGED <<counters, tailBlock, elem, ppc>>

LoadOptimistic(c) ==
  /\ At(c, "desired")
  /\ LET desired == cons[c].tail - (dequeueOptimisticCount - cons[c].over) IN
       IF desired > 0
       THEN Goto(c, "optimistic", [want |-> Min({desired, cons[c].max}), tail |-> 0, max |-> 0])
       ELSE Leave(c)
  /\ UNCHANGED <<counters, tailBlock, elem, ppc>>

(* Claim, optimistically ...                                               *)
AddOptimistic(c) ==
  /\ At(c, "optimistic")
  /\ dequeueOptimisticCount' = dequeueOptimisticCount + cons[c].want
  /\ Goto(c, "tail", [my |-> dequeueOptimisticCount])
  /\ UNCHANGED <<tailIndex, headIndex, dequeueOvercommit, tailBlock, elem, ppc>>

(* Mutant: the number asked for is not cut down to what there is.          *)
ReloadTailUncut(c) ==
  /\ At(c, "tail")
  /\ LET actual == tailIndex - (cons[c].my - cons[c].over) IN
       IF actual > 0 THEN Goto(c, "head", [count |-> cons[c].want])
                     ELSE Goto(c, "giveback", [count |-> 0])
  /\ UNCHANGED <<counters, tailBlock, elem, ppc>>

(* ... see what there is by now ...                                        *)
ReloadTail(c) ==
  /\ At(c, "tail")
  /\ LET actual == tailIndex - (cons[c].my - cons[c].over)
         count  == Min({cons[c].want, Max({actual, 0})}) IN
       Goto(c, IF count = cons[c].want THEN "head" ELSE "giveback", [count |-> count])
  /\ UNCHANGED <<counters, tailBlock, elem, ppc>>

(* Mutant: after a partial claim the rest is not given back.               *)
GiveBackOnlyAll(c) ==
  /\ At(c, "giveback")
  /\ IF cons[c].count = 0
     THEN dequeueOvercommit' = dequeueOvercommit + cons[c].want /\ Leave(c)
     ELSE UNCHANGED dequeueOvercommit /\ Goto(c, "head", <<>>)
  /\ UNCHANGED <<tailIndex, headIndex, dequeueOptimisticCount, tailBlock, elem, ppc>>

(* ... give back what was claimed too much ...                             *)
GiveBack(c) ==
  /\ At(c, "giveback")
  /\ dequeueOvercommit' = dequeueOvercommit + (cons[c].want - cons[c].count)
  /\ IF cons[c].count = 0 THEN Leave(c) ELSE Goto(c, "head", [over |-> 0])
  /\ UNCHANGED <<tailIndex, headIndex, dequeueOptimisticCount, tailBlock, elem, ppc>>

(* ... and take the rest: these items are now this consumer's.             *)
AddHead(c) ==
  /\ At(c, "head")
  /\ headIndex' = headIndex + cons[c].count
  /\ Goto(c, "index", [first |-> headIndex, pos |-> headIndex, want |-> 0, my |-> 0, over |-> 0])
  /\ UNCHANGED <<tailIndex, dequeueOptimisticCount, dequeueOvercommit, tailBlock, elem, ppc>>

Claim(c) ==
  \/ \E max \in Maxima : LoadTail(c, max)
  \/ LoadOvercommit(c) \/ LoadOptimistic(c) \/ AddOptimistic(c) \/ ReloadTail(c)
  \/ GiveBack(c) \/ AddHead(c)

-----------------------------------------------------------------------------
(* Then it takes them out of their blocks, one block after the other.      *)

BaseOf(i) == i - (i % BlockSize)

End(c)   == cons[c].first + cons[c].count
Until(c) == Min({End(c), BaseOf(cons[c].pos) + BlockSize})

ItemAt(b, i) == IF b \in Blocks THEN elem[b][i % BlockSize] ELSE NoItem

(* Move the items of a block out, and destroy what is left in their places.*)
ReadItems(c) ==
  /\ At(c, "read")
  /\ LET k  == cons[c]
         is == k.pos..(Until(c) - 1) IN
       /\ Goto(c, "empty", [got |-> k.got \o [i \in 1..Cardinality(is) |->
                                               ItemAt(k.block, k.pos + i - 1)]])
       /\ elem' = IF k.block \in Blocks
                  THEN [elem EXCEPT ![k.block] = [o \in Offsets |->
                          IF \E i \in is : i % BlockSize = o THEN NoItem ELSE @[o]]]
                  ELSE elem
  /\ UNCHANGED <<counters, tailBlock, ppc>>

(* The call goes on with the items of the next block, or ends.             *)
NextBlock(c, size) ==
  IF Until(c) = End(c) THEN Leave(c)
  ELSE Goto(c, "block", [slot |-> (cons[c].slot + 1) % size, pos |-> Until(c), block |-> 0])

-----------------------------------------------------------------------------
(* A sub-queue is destroyed when nobody is in it.                          *)
Quiet == ppc = "idle" /\ \A c \in Consumers : At(c, "idle")

-----------------------------------------------------------------------------
(* Properties.                                                             *)

(* The counters that decide about a dequeue agree: what has been claimed   *)
(* and not given back is what has been taken and what is still in doubt.   *)
(* If they did not, items would stay in the queue for ever.                *)
Claimed(c) ==
  CASE At(c, "tail")     -> cons[c].want
    [] At(c, "giveback") -> cons[c].want
    [] At(c, "head")     -> cons[c].count
    [] OTHER             -> 0

ClaimedItems == UNION {{c} \X (1..Claimed(c)) : c \in Consumers}

CountsAgree ==
  dequeueOptimisticCount - dequeueOvercommit = headIndex + Cardinality(ClaimedItems)

(* "this will never exceed tail": nothing is taken that was not put.       *)
HeadBehindTail == headIndex <= tailIndex

(* What a consumer has got or will get, where Lookup says what is where.   *)
Held(c, Lookup(_)) ==
  IF cons[c].pc \in {"idle", "over", "desired", "optimistic", "tail", "giveback", "head"}
  THEN <<>>
  ELSE cons[c].got \o [i \in 1..(cons[c].count - Len(cons[c].got)) |->
                         Lookup(cons[c].first + Len(cons[c].got) + i - 1)]
=============================================================================
