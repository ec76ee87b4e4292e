------------------------------ MODULE Producer -------------------------------
(***************************************************************************)
(* A sub-queue of either kind, as ProducerBase::dequeue and the enqueues   *)
(* of ConcurrentQueue reach it: explicit for a producer token, implicit    *)
(* for a thread without one.                                               *)
(***************************************************************************)
EXTENDS ProducerBase

VARIABLES
  isExplicit,
  next, empty, blockIndex, slotsUsed, indexFront,  \* see ExplicitProducer
  headers, entries, dequeued, free                 \* see ImplicitProducer

ringVars == <<next, empty, blockIndex, slotsUsed, indexFront>>
listVars == <<headers, entries, dequeued, free>>
vars     == <<baseVars, isExplicit, ringVars, listVars>>

E == INSTANCE ExplicitProducer
I == INSTANCE ImplicitProducer

Init == isExplicit \in BOOLEAN /\ BaseInit /\ E!RingInit /\ I!ListInit

Enqueue ==
  \/ isExplicit /\ E!Enqueue /\ UNCHANGED listVars
  \/ ~isExplicit /\ I!Enqueue /\ UNCHANGED ringVars

Dequeue(c) ==
  \/ isExplicit /\ E!Dequeue(c) /\ UNCHANGED listVars
  \/ ~isExplicit /\ I!Dequeue(c) /\ UNCHANGED ringVars

Next == (Enqueue \/ \E c \in Consumers : Dequeue(c)) /\ UNCHANGED isExplicit

Spec == Init /\ [][Next]_vars

-----------------------------------------------------------------------------
(* Properties.                                                             *)

(* The variables of either kind have values of their kind.                 *)
TypeOK == IF isExplicit THEN E!TypeOK ELSE I!TypeOK

(* The assertions of set_many_empty and get_block_index_index_for_index:   *)
(* a consumer finds the block of its item, and empties no place twice.     *)
AssertsHold == IF isExplicit THEN E!EmptiedOnce ELSE I!FindsItsBlock

Owned == IF isExplicit THEN 1..slotsUsed ELSE Blocks \ free

(* Whenever a queue is destroyed (kv_mempool_free does it with each        *)
(* connection, kv_app_start at the end), with whatever is left in it, the  *)
(* destructor finds each item that was not taken, and gives each block     *)
(* back that the sub-queue has, once.                                      *)
EndsClean ==
  LET destroyed == IF isExplicit THEN E!Destroyed ELSE I!Destroyed
      released  == IF isExplicit THEN E!Released ELSE I!Released IN
  Quiet =>
    /\ destroyed = {p \in Blocks \X Offsets : elem[p[1]][p[2]] # NoItem}
    /\ \A b \in Blocks :
         Cardinality({r \in released : r[2] = b}) = IF b \in Owned THEN 1 ELSE 0

(* A block of an implicit producer is in the free list or in use, once.    *)
OneOwner == ~isExplicit => I!OneOwner

Lookup(i) == IF isExplicit THEN E!Lookup(i) ELSE I!Lookup(i)

Fifo == INSTANCE SubQueue WITH
  Items <- 0..(MaxItems - 1),
  queue <- [i \in 1..(tailIndex - headIndex) |-> Lookup(headIndex + i - 1)],
  hand  <- [c \in Consumers |-> Held(c, Lookup)]

(* A sub-queue of either kind is a FIFO: blocks, index and counters lose,  *)
(* repeat and exchange nothing, and an item is not overwritten before it   *)
(* is read.                                                                *)
FifoSpec == Fifo!Spec
=============================================================================
