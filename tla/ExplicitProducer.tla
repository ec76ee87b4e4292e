-------------------------- MODULE ExplicitProducer ---------------------------
(***************************************************************************)
(* The sub-queue of a producer token in concurrentqueue.hpp.  Its blocks   *)
(* stay in a ring, to be filled again when they are empty, and a circular  *)
(* index leads consumers to them.                                          *)
(***************************************************************************)
EXTENDS ProducerBase

VARIABLES
  next,        \* next[b]: its successor in the ring of blocks
  empty,       \* empty[b][o]: emptyFlags
  blockIndex,  \* the block indices, the current one last
  slotsUsed,   \* pr_blockIndexSlotsUsed, the blocks in the ring
  indexFront   \* pr_blockIndexFront

ringVars == <<next, empty, blockIndex, slotsUsed, indexFront>>

Header(size, front, entries) == [size |-> size, front |-> front, entries |-> entries]
NoEntry == [base |-> 0, block |-> 0]

RingInit ==
  /\ next       = [b \in Blocks |-> 0]
  /\ empty      = [b \in Blocks |-> [o \in Offsets |-> FALSE]]
  /\ blockIndex = <<Header(IndexSize, -1, [i \in 0..(IndexSize - 1) |-> NoEntry])>>
  /\ slotsUsed  = 0
  /\ indexFront = 0

Init == BaseInit /\ RingInit

-----------------------------------------------------------------------------
(* enqueue, for the first item of a block.                                 *)

IsEmpty(b) == \A o \in Offsets : empty[b][o]
ResetEmpty(b) == empty' = [empty EXCEPT ![b] = [o \in Offsets |-> FALSE]]

index == Last(blockIndex)

CanReuse == tailBlock # 0 /\ IsEmpty(next[tailBlock])

(* Mutant: the flags of the block are left as they are.                    *)
ReuseBlockNoReset ==
  /\ NeedsBlock /\ CanReuse
  /\ tailBlock' = next[tailBlock]
  /\ ppc' = "entry"
  /\ UNCHANGED <<counters, next, elem, empty, blockIndex, slotsUsed, indexFront, cons>>

(* The block is full and the one ahead, the oldest, is empty.              *)
ReuseBlock ==
  /\ NeedsBlock /\ CanReuse
  /\ tailBlock' = next[tailBlock]
  /\ ResetEmpty(next[tailBlock])
  /\ ppc' = "entry"
  /\ UNCHANGED <<counters, next, elem, blockIndex, slotsUsed, indexFront, cons>>

(* new_block_index: an index of twice the size, the blocks in use at its   *)
(* beginning, oldest first.                                                *)
NewBlockIndex ==
  LET size == index.size
      old(i) == index.entries[(indexFront - slotsUsed + i) % size] IN
  Header(2 * size, slotsUsed - 1,
         [i \in 0..(2 * size - 1) |-> IF i < slotsUsed THEN old(i) ELSE NoEntry])

(* The block is full and the one ahead is not empty: grow the index if it  *)
(* is full ...                                                             *)
GrowIndex ==
  IF slotsUsed = index.size
  THEN /\ blockIndex' = Append(blockIndex, NewBlockIndex)
       /\ indexFront' = slotsUsed
  ELSE UNCHANGED <<blockIndex, indexFront>>

(* ... and put a new block into the ring, from the pool or the heap ...    *)
AddBlock ==
  /\ NeedsBlock /\ ~CanReuse
  /\ slotsUsed < BlockNum
  /\ GrowIndex
  /\ LET b == slotsUsed + 1 IN
       /\ next' = IF tailBlock = 0 THEN [next EXCEPT ![b] = b]
                  ELSE [next EXCEPT ![b] = next[tailBlock], ![tailBlock] = b]
       /\ tailBlock' = b
       /\ slotsUsed' = slotsUsed + 1
       /\ ResetEmpty(b)
  /\ ppc' = "entry"
  /\ UNCHANGED <<counters, elem, cons>>

(* ... unless there is no memory for it: the item is not put.              *)
EnqueueFails ==
  /\ NeedsBlock /\ ~CanReuse
  /\ GrowIndex
  /\ UNCHANGED <<counters, tailBlock, next, elem, empty, slotsUsed, ppc, cons>>

(* The block gets the next entry of the index.                             *)
StoreEntry ==
  /\ ppc = "entry"
  /\ blockIndex' = [blockIndex EXCEPT ![Len(blockIndex)].entries[indexFront] =
                      [base |-> tailIndex, block |-> tailBlock]]
  /\ ppc' = "front"
  /\ UNCHANGED <<counters, tailBlock, next, elem, empty, slotsUsed, indexFront, cons>>

(* Mutant: the position in the circular index does not wrap.               *)
StoreFrontNoWrap ==
  /\ ppc = "front"
  /\ blockIndex' = [blockIndex EXCEPT ![Len(blockIndex)].front = indexFront]
  /\ indexFront' = indexFront + 1
  /\ ppc' = "elem"
  /\ UNCHANGED <<counters, tailBlock, next, elem, empty, slotsUsed, cons>>

(* The entry is published, and with it the block.                          *)
StoreFront ==
  /\ ppc = "front"
  /\ blockIndex' = [blockIndex EXCEPT ![Len(blockIndex)].front = indexFront]
  /\ indexFront' = (indexFront + 1) % index.size
  /\ ppc' = "elem"
  /\ UNCHANGED <<counters, tailBlock, next, elem, empty, slotsUsed, cons>>

Enqueue ==
  \/ Produce /\ UNCHANGED ringVars
  \/ ReuseBlock \/ AddBlock \/ EnqueueFails \/ StoreEntry \/ StoreFront

-----------------------------------------------------------------------------
(* dequeue_bulk and dequeue, once items are claimed.                       *)

(* Find the entry of the block in the index of this moment.                *)
LoadIndex(c) ==
  /\ At(c, "index")
  /\ Goto(c, "front", [ver |-> Len(blockIndex)])
  /\ UNCHANGED <<counters, tailBlock, elem, ppc, ringVars>>

LoadFront(c) ==
  /\ At(c, "front")
  /\ Goto(c, "base", [front |-> blockIndex[cons[c].ver].front])
  /\ UNCHANGED <<counters, tailBlock, elem, ppc, ringVars>>

LoadBase(c) ==
  /\ At(c, "base")
  /\ LET idx    == blockIndex[cons[c].ver]
         offset == (BaseOf(cons[c].first) - idx.entries[cons[c].front].base) \div BlockSize IN
       Goto(c, "block", [slot |-> (cons[c].front + offset) % idx.size, front |-> 0])
  /\ UNCHANGED <<counters, tailBlock, elem, ppc, ringVars>>

(* The places of some items in a block become empty.                       *)
MarkedEmpty(b, items) ==
  [a \in Blocks |-> [o \in Offsets |->
     empty[a][o] \/ (a = b /\ \E i \in items : o = i % BlockSize)]]

(* Mutant: the places are marked empty before the items are moved out.     *)
LoadBlockMarks(c) ==
  /\ At(c, "block")
  /\ LET b == blockIndex[cons[c].ver].entries[cons[c].slot].block IN
       /\ Goto(c, "read", [block |-> b])
       /\ empty' = MarkedEmpty(b, cons[c].pos..(Until(c) - 1))
  /\ UNCHANGED <<counters, tailBlock, next, elem, blockIndex, slotsUsed, indexFront, ppc>>

(* For each block that has some of the items: load its address, ...        *)
LoadBlock(c) ==
  /\ At(c, "block")
  /\ Goto(c, "read", [block |-> blockIndex[cons[c].ver].entries[cons[c].slot].block])
  /\ UNCHANGED <<counters, tailBlock, elem, ppc, ringVars>>

(* Mark the places of the items that were read empty, and go on.           *)
SetManyEmpty(c) ==
  /\ At(c, "empty")
  /\ empty' = MarkedEmpty(cons[c].block, cons[c].pos..(Until(c) - 1))
  /\ NextBlock(c, blockIndex[cons[c].ver].size)
  /\ UNCHANGED <<counters, tailBlock, next, elem, blockIndex, slotsUsed, indexFront, ppc>>

Dequeue(c) ==
  \/ (Claim(c) \/ ReadItems(c)) /\ UNCHANGED ringVars
  \/ LoadIndex(c) \/ LoadFront(c) \/ LoadBase(c) \/ LoadBlock(c) \/ SetManyEmpty(c)

Next == Enqueue \/ \E c \in Consumers : Dequeue(c)

-----------------------------------------------------------------------------
(* ~ExplicitProducer: what it destroys and gives back in this state.       *)

(* The ring from the tail block on, up to where it comes back to it.       *)
Ring ==
  LET at[k \in 0..BlockNum] == IF k = 0 THEN tailBlock ELSE next[at[k - 1]]
  IN  IF tailBlock = 0 THEN {}
      ELSE {<<k, at[k]>> : k \in {i \in 0..BlockNum : \A j \in 1..i : at[j] # tailBlock}}

(* Mutant: the search begins with the first entry, not with the oldest.    *)
HalfDequeuedFromFirst ==
  LET entry(k) == index.entries[k % index.size]
      found(k) == entry(k).base + BlockSize >= headIndex IN
  IF headIndex % BlockSize = 0 THEN 0
  ELSE entry(Min({k \in 0..(index.size - 1) : found(k)})).block

(* The block that the head is inside of, found from the oldest on.         *)
HalfDequeued ==
  LET entry(k) == index.entries[(indexFront - slotsUsed + k) % index.size]
      found(k) == entry(k).base + BlockSize >= headIndex IN
  IF headIndex % BlockSize = 0 THEN 0
  ELSE entry(Min({k \in 0..(index.size - 1) : found(k)})).block

(* The places destroyed in a block: what is behind the head and before the *)
(* tail.                                                                   *)
LeftIn(b) ==
  IF IsEmpty(b) THEN {}
  ELSE {o \in Offsets :
          /\ b = HalfDequeued => o >= headIndex % BlockSize
          /\ b = tailBlock /\ tailIndex % BlockSize # 0 => o < tailIndex % BlockSize}

Destroyed == UNION {{<<r[2], o>> : o \in LeftIn(r[2])} : r \in Ring}

(* Each block of the ring goes to the free list.                           *)
Released == Ring

-----------------------------------------------------------------------------
(* Properties.                                                             *)

(* Counters are numbers, the ring consists of blocks, and the position in  *)
(* the block index stays inside it.                                        *)
TypeOK ==
  /\ {tailIndex, headIndex, dequeueOptimisticCount, dequeueOvercommit, slotsUsed} \subseteq Nat
  /\ tailBlock \in Blocks \cup {0}
  /\ next  \in [Blocks -> Blocks \cup {0}]
  /\ empty \in [Blocks -> [Offsets -> BOOLEAN]]
  /\ slotsUsed <= index.size
  /\ indexFront \in 0..(index.size - 1)

(* The assertion of set_many_empty: no place is emptied twice.             *)
EmptiedOnce ==
  \A c \in Consumers :
    At(c, "empty") =>
      \A i \in cons[c].pos..(Until(c) - 1) :
        cons[c].block \in Blocks /\ ~empty[cons[c].block][i % BlockSize]

(* Where an item is now, by the newest index.                              *)
Lookup(i) ==
  LET at == {k \in DOMAIN index.entries :
               index.entries[k].block # 0 /\ index.entries[k].base = BaseOf(i)} IN
  IF at = {} THEN NoItem ELSE ItemAt(index.entries[CHOOSE k \in at : TRUE].block, i)
=============================================================================
