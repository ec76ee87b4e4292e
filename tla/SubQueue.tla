------------------------------ MODULE SubQueue -------------------------------
(***************************************************************************)
(* What a producer token of the lock-free queue promises: items leave in   *)
(* the order in which they were put, each exactly once, and a consumer     *)
(* keeps what it has taken.  Taking may come back with nothing although    *)
(* something is there.                                                     *)
(***************************************************************************)
EXTENDS Naturals, Sequences

CONSTANTS
  Items,      \* what can be put
  Consumers   \* threads that take

VARIABLES
  queue,  \* items put and not taken, oldest first
  hand    \* hand[c]: what c has taken and not yet returned to its caller

Init ==
  /\ queue = <<>>
  /\ hand  = [c \in Consumers |-> <<>>]

Put(item) ==
  /\ queue' = Append(queue, item)
  /\ UNCHANGED hand

Take(c, n) ==
  /\ hand[c] = <<>>
  /\ hand'  = [hand EXCEPT ![c] = SubSeq(queue, 1, n)]
  /\ queue' = SubSeq(queue, n + 1, Len(queue))

Return(c) ==
  /\ hand[c] # <<>>
  /\ hand' = [hand EXCEPT ![c] = <<>>]
  /\ UNCHANGED queue

Next ==
  \/ \E item \in Items : Put(item)
  \/ \E c \in Consumers : Return(c) \/ \E n \in 1..Len(queue) : Take(c, n)

Spec == Init /\ [][Next]_<<queue, hand>>
=============================================================================
