----------------------------- MODULE TokenQueue ------------------------------
(***************************************************************************)
(* The queue of concurrentqueue.hpp as its users reach it, through tokens: *)
(* a sub-queue for each producer token, linked in a ring, and consumer     *)
(* tokens that move along the ring.  The program uses it in two ways: a    *)
(* pool of kv_memory.c, which every thread takes one element from, and the *)
(* tasks for a thread of kv_app.c, which one thread takes in bulk.         *)
(*                                                                         *)
(* What happens inside a sub-queue is ExplicitProducer's matter.  Here a   *)
(* put is one step and a try to take from a sub-queue two: alone, it gets  *)
(* what was there when it began (ExplicitProducer.CountsAgree: what is     *)
(* claimed is then what is taken); with another in the way, perhaps less.  *)
(***************************************************************************)
EXTENDS Integers, Sequences, SequencesExt, FiniteSetsExt

CONSTANTS
  ThreadNum,  \* g_app.task_num: producer tokens of a queue
  Elems,      \* what circulates: pool elements, messages of the event pool
  MaxPoll,    \* MAX_POLL_SZ
  Quota,      \* EXPLICIT_CONSUMER_CONSUMPTION_QUOTA_BEFORE_ROTATE
  OffsetNum,  \* values of globalExplicitConsumerOffset (2^32)
  None

Threads == 0..(ThreadNum - 1)

Token == [known : 0..(OffsetNum - 1), consumed : 0..Quota,
          current : Threads \cup {None}, desired : Threads \cup {None}]

Call == [prod : Threads, alone : BOOLEAN, seen : Nat, first : BOOLEAN, max : Nat,
         got : Seq(Elems), raced : BOOLEAN, stayed : SUBSET Elems]

ASSUME TokenAssumption ==
  /\ {ThreadNum, MaxPoll, Quota, OffsetNum} \subseteq Nat \ {0}
  /\ MaxPoll <= Quota
  /\ IsFiniteSet(Elems) /\ None \notin Threads \cup Call

VARIABLES
  use,     \* "pool" or "messages"
  sub,     \* sub[p]: the sub-queue of thread p's producer token
  out,     \* elements that are not in the queue
  offset,  \* globalExplicitConsumerOffset
  token,   \* token[t]: thread t's consumer token
  call     \* call[t]: the dequeue thread t is in

vars == <<use, sub, out, offset, token, call>>

(* A thread of a pool has a token of its own and asks for one element; a   *)
(* task queue has one consumer, thread 0 here.                             *)
Consumers == IF use = "pool" THEN Threads ELSE {0}
Asked     == IF use = "pool" THEN 1 ELSE MaxPoll

NewToken == [known |-> OffsetNum - 1, consumed |-> 0, current |-> None, desired |-> None]

(* kv_mempool_create, on any thread: the elements go to its own sub-queue. *)
Create(t) ==
  /\ use = "pool"
  /\ sub = [p \in Threads |-> IF p = t THEN SetToSeq(Elems) ELSE <<>>]
  /\ out = {}

(* thread_init: the queue of a thread is empty.                            *)
Empty ==
  /\ use = "messages"
  /\ sub = [p \in Threads |-> <<>>]
  /\ out = Elems

Init ==
  /\ Empty \/ \E t \in Threads : Create(t)
  /\ offset = 0
  /\ token = [t \in Threads |-> NewToken]
  /\ call  = [t \in Threads |-> None]

(* kv_mempool_put and kv_app_send: to the end of the own sub-queue.        *)
Put(t, e) ==
  /\ call[t] = None /\ e \in out
  /\ out' = out \ {e}
  /\ sub' = [sub EXCEPT ![t] = Append(@, e)]
  /\ UNCHANGED <<use, offset, token, call>>

-----------------------------------------------------------------------------
(* try_dequeue and try_dequeue_bulk with a consumer token; the first is    *)
(* the second for one element.                                             *)

(* next_prod, from the oldest on to the newest: a producer is linked in    *)
(* front of the older ones.                                                *)
NextProd(p) == IF p = 0 THEN ThreadNum - 1 ELSE p - 1
Beyond(p, n) == (p + ThreadNum - (n % ThreadNum)) % ThreadNum

(* update_current_producer_after_rotation: the token moves on by as many   *)
(* producers as there were rotations.  The first time it starts from the   *)
(* place its number (initialOffset) gives, counted from the oldest.        *)
Moved(t) ==
  LET k       == token[t]
      initial == IF use = "pool" THEN t ELSE 0
      place   == IF k.desired = None THEN initial % ThreadNum ELSE k.desired
      delta   == (offset + OffsetNum - k.known) % OffsetNum
      desired == Beyond(place, delta) IN
  IF k.desired = None \/ k.known # offset
  THEN [known |-> offset, consumed |-> 0, current |-> desired, desired |-> desired]
  ELSE k

InSub(p)  == {u \in Threads : call[u] # None /\ call[u].prod = p}
InQueue   == UNION {ToSet(sub[p]) : p \in Threads}

(* Thread t comes to the sub-queue of p: those in it are no longer alone.  *)
Arrive(t, p, c, calls) ==
  LET others == InSub(p) \ {t} IN
  [u \in Threads |->
     IF u = t THEN [c EXCEPT !.prod = p, !.alone = others = {}, !.seen = Len(sub[p])]
     ELSE IF u \in others THEN [calls[u] EXCEPT !.alone = FALSE] ELSE calls[u]]

Begin(t) ==
  /\ t \in Consumers /\ call[t] = None
  /\ token' = [token EXCEPT ![t] = Moved(t)]
  /\ call' = Arrive(t, Moved(t).current,
                    [prod |-> None, alone |-> TRUE, seen |-> 0, first |-> TRUE, max |-> Asked,
                     got |-> <<>>, raced |-> FALSE, stayed |-> InQueue], call)
  /\ UNCHANGED <<use, sub, out, offset>>

(* Mutant: the room is not reduced by what earlier tries brought.          *)
FoundUnreduced(c) ==
  LET most == Min({Asked, c.seen, Len(sub[c.prod])}) IN
  IF c.alone THEN {most} ELSE 0..most

(* How many a try can bring.                                               *)
Found(c) ==
  LET most == Min({c.max, c.seen, Len(sub[c.prod])}) IN
  IF c.alone THEN {most} ELSE 0..most

(* What the token remembers of a try that brought n; a count beyond the    *)
(* quota is as good as the quota.                                          *)
Consumed(k, c, n) ==
  IF c.first THEN [k EXCEPT !.consumed = Min({@ + n, Quota})]
  ELSE IF n # 0 THEN [k EXCEPT !.current = c.prod, !.consumed = n]
  ELSE k

(* Mutant: the offset never changes.                                       *)
RotatesNever(k, c, n) == FALSE

(* The quota is used up: all consumers are to rotate.                      *)
Rotates(k, c, n) == c.first /\ n = c.max /\ k.consumed + n >= Quota

(* Mutant: the offset does not wrap.                                       *)
NextOffsetNoWrap(k, c, n) == IF Rotates(k, c, n) THEN offset + 1 ELSE offset

NextOffset(k, c, n) == IF Rotates(k, c, n) THEN (offset + 1) % OffsetNum ELSE offset

(* Mutant: what a producer gives is stored over what was there before.     *)
BroughtOver(c, taken) == IF taken = <<>> THEN c.got ELSE taken

Brought(c, taken) == c.got \o taken

(* Mutant: something is enough.                                            *)
DoneWithSome(c, k, n) == n > 0 \/ NextProd(c.prod) = k.current

(* The call has all it asked for, or is back where it last found something.*)
Done(c, k, n) == n = c.max \/ NextProd(c.prod) = k.current

(* The end of a try, and of the call or the beginning of the next try.     *)
Try(t) ==
  /\ call[t] # None
  /\ \E n \in Found(call[t]) :
       LET c     == call[t]
           k     == Consumed(token[t], c, n)
           taken == SubSeq(sub[c.prod], 1, n)
           now   == [c EXCEPT !.first = FALSE, !.max = @ - n, !.got = Brought(c, taken),
                              !.raced = @ \/ ~c.alone]
           left  == [u \in Threads |->
                       IF call[u] = None THEN None
                       ELSE [call[u] EXCEPT !.stayed = @ \ ToSet(taken)]] IN
       /\ sub'    = [sub EXCEPT ![c.prod] = SubSeq(@, n + 1, Len(@))]
       /\ token'  = [token EXCEPT ![t] = k]
       /\ offset' = NextOffset(token[t], c, n)
       /\ IF Done(c, k, n)
          THEN /\ out'  = out \cup ToSet(now.got)
               /\ call' = [left EXCEPT ![t] = None]
          ELSE /\ UNCHANGED out
               /\ call' = Arrive(t, NextProd(c.prod), [now EXCEPT !.stayed = left[t].stayed], left)
  /\ UNCHANGED use

Next == \E t \in Threads : Begin(t) \/ Try(t) \/ \E e \in Elems : Put(t, e)

(* The msg_poller of a thread polls for ever; nobody has to use a pool.    *)
Fairness == WF_vars(use = "messages" /\ (Begin(0) \/ Try(0)))

Spec == Init /\ [][Next]_vars /\ Fairness

-----------------------------------------------------------------------------
(* Properties.                                                             *)

(* Every variable holds a value of its kind; the counters wrap.            *)
TypeOK ==
  /\ use \in {"pool", "messages"}
  /\ sub \in [Threads -> Seq(Elems)] /\ out \subseteq Elems
  /\ offset \in 0..(OffsetNum - 1)
  /\ token \in [Threads -> Token]
  /\ call \in [Threads -> Call \cup {None}]
  /\ \A t \in Threads : call[t] # None => t \in Consumers

Got(t) == IF call[t] = None THEN <<>> ELSE call[t].got

Places   == {"sub", "got"} \X Threads
Contents == [p \in Places |-> IF p[1] = "sub" THEN sub[p[2]] ELSE Got(p[2])]

(* An element of a pool, a message of the event pool, is in one place,     *)
(* once: no dequeue loses it on the way from one producer to the next, and *)
(* no two threads get the same.                                            *)
Conserved(c, o) ==
  /\ \A e \in Elems : e \in o <=> \A p \in Places : \A i \in DOMAIN c[p] : c[p][i] # e
  /\ \A p, q \in Places : \A i \in DOMAIN c[p], j \in DOMAIN c[q] :
       c[p][i] = c[q][j] => p = q /\ i = j

ElementsConserved == Conserved(Contents, out)

(* A dequeue that goes on from producer to producer never brings more than *)
(* there is room for in msg_buf (kv_app.c:56), or in the one value of      *)
(* kv_mempool_get.                                                         *)
BatchFits == \A t \in Threads : Len(Got(t)) <= Asked

(* If a dequeue with no other in its way comes back with less than it was  *)
(* asked for, everything that stayed in the queue while it looked is in    *)
(* what it brought: kv_mempool_get returns NULL (kv_memory.c:46) only from *)
(* an empty pool or when it was raced, and msg_poller leaves no task       *)
(* behind.                                                                 *)
ComesBack(t) == call[t] # None /\ call'[t] = None
EmptyIsTrue ==
  [][\A t \in Threads :
       ComesBack(t) /\ ~call[t].raced /\ call[t].alone =>
         \A e \in call[t].stayed : e \in out' \/ Cardinality(out' \ out) = Asked]_vars

(* No task waits for ever, however many others are sent: the rotation      *)
(* leads the one consumer of a task queue to every producer.               *)
NothingStarves ==
  \A e \in Elems : use = "messages" /\ e \in InQueue ~> e \notin InQueue
=============================================================================
