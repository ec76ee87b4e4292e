-------------------------- MODULE ImplicitProducer ---------------------------
(***************************************************************************)
(* The sub-queue of a thread that enqueues without a token (kv_app's       *)
(* kv_app_send_without_token).  A block leaves it when its last item is    *)
(* taken: the consumer that empties it gives it back to the free list, and *)
(* its entry in the circular index becomes free for another block.  The    *)
(* entries stay where they are when the index grows; the free list is a    *)
(* set of blocks here.                                                     *)
(***************************************************************************)
EXTENDS ProducerBase

VARIABLES
  headers,   \* the block indices, the current one last: their tail and index
  entries,   \* what the indices point to: key and value of each entry
  dequeued,  \* dequeued[b]: elementsCompletelyDequeued
  free       \* blocks of the pool, the free list and the heap

listVars == <<headers, entries, dequeued, free>>

Invalid == 1   \* INVALID_BLOCK_BASE
NoBlock == 0   \* nullptr

(* new_block_index: twice the size, the entries in use oldest first, and   *)
(* behind them new ones.                                                   *)
NewEntries(n) == [i \in 1..n |-> [key |-> Invalid, value |-> NoBlock]]

NewHeader(old, n) ==
  LET size == Len(old.index) IN
  [tail  |-> size - 1,
   index |-> [i \in 1..size |-> old.index[((old.tail + i) % size) + 1]]
             \o [i \in 1..n |-> Len(entries) + i]]

ListInit ==
  /\ headers  = <<[tail |-> IndexSize - 1, index |-> [i \in 1..IndexSize |-> i]]>>
  /\ entries  = NewEntries(IndexSize)
  /\ dequeued = [b \in Blocks |-> 0]
  /\ free     = Blocks

Init == BaseInit /\ ListInit

header   == Last(headers)
Size(h)  == Len(h.index)
Entry(h, i) == h.index[(i % Size(h)) + 1]

-----------------------------------------------------------------------------
(* enqueue, for the first item of a block.                                 *)

(* insert_block_index_entry: the entry after the tail is taken if it is    *)
(* free ...                                                                *)
IsFree(e) == entries[e].key = Invalid \/ entries[e].value = NoBlock

(* Mutant: the entry is not looked at.                                     *)
InsertKeyAlways ==
  /\ NeedsBlock
  /\ entries' = [entries EXCEPT ![Entry(header, header.tail + 1)].key = tailIndex]
  /\ ppc' = "publish"
  /\ UNCHANGED <<counters, tailBlock, elem, cons, headers, dequeued, free>>

InsertKey ==
  /\ NeedsBlock
  /\ IsFree(Entry(header, header.tail + 1))
  /\ entries' = [entries EXCEPT ![Entry(header, header.tail + 1)].key = tailIndex]
  /\ ppc' = "publish"
  /\ UNCHANGED <<counters, tailBlock, elem, cons, headers, dequeued, free>>

(* ... else the index grows, if there is memory for it ...                 *)
GrowHeader ==
  /\ NeedsBlock
  /\ ~IsFree(Entry(header, header.tail + 1))
  /\ headers' = Append(headers, NewHeader(header, Size(header)))
  /\ entries' = entries \o NewEntries(Size(header))
  /\ UNCHANGED <<counters, tailBlock, elem, ppc, cons, dequeued, free>>

(* ... and the entry becomes the tail of the index.                        *)
PublishTail ==
  /\ ppc = "publish"
  /\ headers' = [headers EXCEPT ![Len(headers)].tail = (@ + 1) % Size(header)]
  /\ ppc' = "block"
  /\ UNCHANGED <<counters, tailBlock, elem, cons, entries, dequeued, free>>

(* requisition_block: the next block of the pool, else one that was given  *)
(* back to the free list, else memory for a new one; such a block goes     *)
(* back to the heap (RECYCLE_ALLOCATED_BLOCKS is false).                   *)
InPool   == {b \in free : b <= PoolSize /\ dequeued[b] = 0}
InList   == {b \in free : b <= PoolSize /\ dequeued[b] # 0}
Lowest(S) == {b \in S : \A d \in S : b <= d}
NextFree == IF InPool # {} THEN Lowest(InPool)
            ELSE IF InList # {} THEN InList ELSE Lowest(free)

(* Mutant: the count of the block is left as it is.                        *)
RequisitionNoReset(b) ==
  /\ ppc = "block" /\ b \in NextFree
  /\ free' = free \ {b}
  /\ tailBlock' = b
  /\ ppc' = "value"
  /\ UNCHANGED <<counters, elem, cons, headers, entries, dequeued>>

Requisition(b) ==
  /\ ppc = "block" /\ b \in NextFree
  /\ free' = free \ {b}
  /\ dequeued' = [dequeued EXCEPT ![b] = 0]
  /\ tailBlock' = b
  /\ ppc' = "value"
  /\ UNCHANGED <<counters, elem, cons, headers, entries>>

(* Without memory for a new block the tail goes back and the entry is free *)
(* again; the item is not put.                                             *)
Rewind ==
  /\ ppc = "block" /\ InPool = {} /\ InList = {}
  /\ headers' = [headers EXCEPT ![Len(headers)].tail = (@ + Size(header) - 1) % Size(header)]
  /\ ppc' = "rewound"
  /\ UNCHANGED <<counters, tailBlock, elem, cons, entries, dequeued, free>>

FreeEntry ==
  /\ ppc = "rewound"
  /\ entries' = [entries EXCEPT ![Entry(header, header.tail + 1)].value = NoBlock]
  /\ ppc' = "idle"
  /\ UNCHANGED <<counters, tailBlock, elem, cons, headers, dequeued, free>>

(* The entry leads to the block.                                           *)
StoreValue ==
  /\ ppc = "value"
  /\ entries' = [entries EXCEPT ![Entry(header, header.tail)].value = tailBlock]
  /\ ppc' = "elem"
  /\ UNCHANGED <<counters, tailBlock, elem, cons, headers, dequeued, free>>

Enqueue ==
  \/ Produce /\ UNCHANGED listVars
  \/ InsertKey \/ GrowHeader \/ PublishTail \/ Rewind \/ FreeEntry \/ StoreValue
  \/ \E b \in Blocks : Requisition(b)

-----------------------------------------------------------------------------
(* dequeue_bulk and dequeue, once items are claimed.                       *)

(* get_block_index_index_for_index: from the tail of the index back.       *)
LoadHeader(c) ==
  /\ At(c, "index")
  /\ Goto(c, "front", [ver |-> Len(headers)])
  /\ UNCHANGED <<counters, tailBlock, elem, ppc, listVars>>

LoadHeaderTail(c) ==
  /\ At(c, "front")
  /\ Goto(c, "base", [front |-> headers[cons[c].ver].tail])
  /\ UNCHANGED <<counters, tailBlock, elem, ppc, listVars>>

TailKey(c) == entries[Entry(headers[cons[c].ver], cons[c].front)].key

LoadKey(c) ==
  /\ At(c, "base")
  /\ LET size   == Size(headers[cons[c].ver])
         offset == (BaseOf(cons[c].first) - TailKey(c)) \div BlockSize IN
       Goto(c, "block", [slot |-> (cons[c].front + offset) % size, front |-> 0])
  /\ UNCHANGED <<counters, tailBlock, elem, ppc, listVars>>

Place(c) == Entry(headers[cons[c].ver], cons[c].slot)

LoadValue(c) ==
  /\ At(c, "block")
  /\ Goto(c, "read", [block |-> entries[Place(c)].value])
  /\ UNCHANGED <<counters, tailBlock, elem, ppc, listVars>>

(* set_many_empty: whoever takes the last item of the block ...            *)
CountDequeued(c) ==
  /\ At(c, "empty")
  /\ LET b == cons[c].block
         n == Until(c) - cons[c].pos IN
       /\ dequeued' = [dequeued EXCEPT ![b] = @ + n]
       /\ IF dequeued[b] + n = BlockSize THEN Goto(c, "clear", <<>>)
          ELSE NextBlock(c, Size(headers[cons[c].ver]))
  /\ UNCHANGED <<counters, tailBlock, elem, ppc, headers, entries, free>>

(* Mutant: the block is given back before its entry is free.               *)
ClearFrees(c) ==
  /\ At(c, "clear")
  /\ free' = free \cup {cons[c].block}
  /\ Goto(c, "release", <<>>)
  /\ UNCHANGED <<counters, tailBlock, elem, ppc, headers, dequeued, entries>>

(* ... frees its entry ...                                                 *)
ClearEntry(c) ==
  /\ At(c, "clear")
  /\ entries' = [entries EXCEPT ![Place(c)].value = NoBlock]
  /\ Goto(c, "release", <<>>)
  /\ UNCHANGED <<counters, tailBlock, elem, ppc, headers, dequeued, free>>

(* ... and gives it back.                                                  *)
ReleaseBlock(c) ==
  /\ At(c, "release")
  /\ free' = free \cup {cons[c].block}
  /\ NextBlock(c, Size(headers[cons[c].ver]))
  /\ UNCHANGED <<counters, tailBlock, elem, ppc, headers, entries, dequeued>>

Dequeue(c) ==
  \/ (Claim(c) \/ ReadItems(c)) /\ UNCHANGED listVars
  \/ LoadHeader(c) \/ LoadHeaderTail(c) \/ LoadKey(c) \/ LoadValue(c)
  \/ CountDequeued(c) \/ ClearEntry(c) \/ ReleaseBlock(c)

Next == Enqueue \/ \E c \in Consumers : Dequeue(c)

-----------------------------------------------------------------------------
(* ~ImplicitProducer: what it destroys and gives back in this state.       *)

Left  == headIndex..(tailIndex - 1)
Bases == {BaseOf(i) : i \in Left}

BlockAt(base) ==
  LET offset == (base - entries[Entry(header, header.tail)].key) \div BlockSize IN
  entries[Entry(header, header.tail + offset + Size(header))].value

Destroyed == {<<BlockAt(BaseOf(i)), i % BlockSize>> : i \in Left}

(* Each block that the loop over the items leaves, and in the end the last *)
(* one, unless its last item was taken and it has been given back.         *)
Released ==
  {<<base, BlockAt(base)>> : base \in {b \in Bases : b + BlockSize < tailIndex}}
  \cup IF tailBlock # NoBlock /\ (Left # {} \/ tailIndex % BlockSize # 0)
       THEN {<<tailIndex, tailBlock>>} ELSE {}

-----------------------------------------------------------------------------
(* Properties.                                                             *)

(* Counters are numbers, and the indices point to entries.                 *)
TypeOK ==
  /\ {tailIndex, headIndex, dequeueOptimisticCount, dequeueOvercommit} \subseteq Nat
  /\ tailBlock \in Blocks \cup {NoBlock}
  /\ free \subseteq Blocks
  /\ \A e \in DOMAIN entries : entries[e].key \in Nat /\ entries[e].value \in Blocks \cup {NoBlock}
  /\ \A v \in DOMAIN headers :
       /\ headers[v].tail \in 0..(Size(headers[v]) - 1)
       /\ ToSet(headers[v].index) \subseteq DOMAIN entries
  /\ \A b \in Blocks : dequeued[b] \in Nat

(* The assertions of the consumer's side: the tail of the index has a key, *)
(* the entry found is the block's and leads to it until its last item is   *)
(* taken, and no more items are counted than it has.                       *)
FindsItsBlock ==
  \A c \in Consumers :
    /\ At(c, "base") => TailKey(c) # Invalid
    /\ At(c, "block") => entries[Place(c)].key = BaseOf(cons[c].pos)
    /\ cons[c].pc \in {"block", "read", "empty", "clear"} => entries[Place(c)].value # NoBlock
    /\ At(c, "empty") => dequeued[cons[c].block] + (Until(c) - cons[c].pos) <= BlockSize

(* Who has a block: the free list, an entry of the index, the producer     *)
(* that is to enter it, a consumer that is about to give it back.    *)
Owners(b) ==
  (IF b \in free THEN {<<"free">>} ELSE {})
  \cup {<<"entry", e>> : e \in {f \in DOMAIN entries : entries[f].value = b}}
  \cup (IF ppc = "value" /\ tailBlock = b THEN {<<"producer">>} ELSE {})
  \cup {<<"consumer", c>> : c \in {d \in Consumers : At(d, "release") /\ cons[d].block = b}}

(* A block has one owner: it is given back once, by whoever empties it,    *)
(* and not entered again before.                                           *)
OneOwner == \A b \in Blocks : Cardinality(Owners(b)) = 1

(* Where an item is now, by the newest index.                              *)
Lookup(i) ==
  LET at == {e \in DOMAIN entries : entries[e].value # NoBlock /\ entries[e].key = BaseOf(i)} IN
  IF at = {} THEN NoItem ELSE ItemAt(entries[CHOOSE e \in at : TRUE].value, i)
=============================================================================
