------------------------------- MODULE KvApp --------------------------------
(***************************************************************************)
(* The threads of kv_app.c and the messages between them.  Each thread has *)
(* a queue of tasks that its msg_poller empties; a sender uses a producer  *)
(* token of its own, so a queue keeps the order of each sender and none    *)
(* between senders (TokenQueue).  kv_app_start makes the queues one by one *)
(* and then sends each thread its first task; kv_app_stop takes threads    *)
(* out again, and with the last one the application ends.                  *)
(*                                                                         *)
(* A module that uses the threads supplies the tasks: its actions run the  *)
(* head of a batch with AtTask and end with TaskDone, and Send others.     *)
(***************************************************************************)
EXTENDS Integers, Sequences, SequencesExt, FiniteSetsExt

CONSTANTS
  ThreadNum,  \* g_app.task_num
  MaxPoll,    \* MAX_POLL_SZ, tasks a msg_poller takes at a time
  EventNum    \* messages of g_event_mempool

ASSUME AppAssumption == {ThreadNum, MaxPoll, EventNum} \subseteq Nat \ {0}

VARIABLES
  queue,    \* queue[t][p]: tasks thread p has sent to thread t
  batch,    \* batch[t]: msg_buf, tasks t has dequeued and not finished
  events,   \* messages taken from g_event_mempool
  phase,    \* "starting", "up", "stopping" from spdk_app_stop on, "over"
  ready,    \* threads that thread_init has run on, from 0 on
  polling,  \* threads whose msg_poller is registered
  running,  \* g_app.running_thread
  inStop,   \* inStop[t]: where t is in kv_app_stop, and with which rc
  locker,   \* the thread that holds g_lock, -1 if none does
  stops     \* calls of spdk_app_stop

msgVars  == <<queue, batch, events>>
lifeVars == <<phase, ready, polling, running, inStop, locker, stops>>
appVars  == <<msgVars, lifeVars>>

Threads == 0..(ThreadNum - 1)
Outside == [pc |-> "out", rc |-> 0, mask |-> {}]

AppTypeOK(Task) ==
  /\ queue   \in [Threads -> [Threads -> Seq(Task)]]
  /\ batch   \in [Threads -> Seq(Task)]
  /\ events  \in Nat
  /\ phase   \in {"starting", "up", "stopping", "over"}
  /\ ready   \in 0..ThreadNum
  /\ polling \in SUBSET (0..(ready - 1))
  /\ running \in SUBSET Threads
  /\ inStop  \in [Threads -> [pc : {"out", "lock", "write"}, rc : {0, 1}, mask : SUBSET Threads]]
  /\ locker  \in Threads \cup {-1}
  /\ stops   \in Nat
  /\ \A t \in Threads : t >= ready => \A p \in Threads : queue[t][p] = <<>>

(* kv_app_start up to the first function that SPDK calls.                  *)
AppInit ==
  /\ queue   = [t \in Threads |-> [p \in Threads |-> <<>>]]
  /\ batch   = [t \in Threads |-> <<>>]
  /\ events  = 0
  /\ phase   = "starting"
  /\ ready   = 0
  /\ polling = {}
  /\ running = Threads
  /\ inStop  = [t \in Threads |-> Outside]
  /\ locker  = -1
  /\ stops   = 0

-----------------------------------------------------------------------------
(* Messages.                                                               *)

(* Mutant: the task goes before the ones already waiting.                  *)
SentFirst(src, dsts, tasks) ==
  [t \in Threads |->
     IF t \in dsts THEN [queue[t] EXCEPT ![src] = <<tasks[t]>> \o @]
     ELSE queue[t]]

(* kv_app_send of tasks[t] to each thread t of a set, on thread src.       *)
Sent(src, dsts, tasks) ==
  [t \in Threads |->
     IF t \in dsts THEN [queue[t] EXCEPT ![src] = Append(@, tasks[t])]
     ELSE queue[t]]

SendAll(src, dsts, tasks) ==
  /\ queue'  = Sent(src, dsts, tasks)
  /\ events' = events + Cardinality(dsts)

Send(src, dst, task) == queue' = Sent(src, {dst}, [t \in {dst} |-> task])

(* msg_poller: a bulk dequeue brings the oldest tasks of some producers,   *)
(* those of each in their order; it may come back to a producer, and miss  *)
(* an enqueue that is under way.                                           *)
MsgPoller(t) ==
  /\ t \in polling /\ batch[t] = <<>>
  /\ \E n \in 1..MaxPoll : \E from \in [1..n -> Threads] :
       LET before(i) == Cardinality({j \in 1..(i - 1) : from[j] = from[i]})
           taken(p)  == Cardinality({i \in 1..n : from[i] = p}) IN
       /\ \A p \in Threads : taken(p) <= Len(queue[t][p])
       /\ batch' = [batch EXCEPT ![t] = [i \in 1..n |-> queue[t][from[i]][before(i) + 1]]]
       /\ queue' = [queue EXCEPT ![t] =
                      [p \in Threads |-> SubSeq(@[p], taken(p) + 1, Len(@[p]))]]
  /\ UNCHANGED <<events, lifeVars>>

(* The loop of msg_poller is at a task of this kind, ...                   *)
AtTask(t, func) == batch[t] # <<>> /\ Head(batch[t]).func = func

(* Mutant: the message is not put back into the event pool.                *)
TaskDoneKeeps(t, n) ==
  /\ batch'  = [batch EXCEPT ![t] = Tail(@)]
  /\ events' = events + n

(* ... which returns after having sent n messages.                         *)
TaskDone(t, n) ==
  /\ batch'  = [batch EXCEPT ![t] = Tail(@)]
  /\ events' = events + n - 1

-----------------------------------------------------------------------------
(* The start: send_msg_to_all and register_func run thread_init on each    *)
(* thread in turn, ...                                                     *)
ThreadInit ==
  /\ phase = "starting" /\ ready < ThreadNum
  /\ ready'   = ready + 1
  /\ polling' = polling \cup {ready}
  /\ UNCHANGED <<msgVars, phase, running, inStop, locker, stops>>

(* Mutant: the tasks are sent when the first thread is ready.              *)
AppStartEarly(tasks) ==
  /\ phase = "starting" /\ ready > 0
  /\ phase' = "up"
  /\ SendAll(0, DOMAIN tasks, tasks)
  /\ UNCHANGED <<batch, ready, polling, running, inStop, locker, stops>>

(* ... then app_start, on thread 0, sends every thread its task.           *)
AppStart(tasks) ==
  /\ phase = "starting" /\ ready = ThreadNum
  /\ phase' = "up"
  /\ SendAll(0, DOMAIN tasks, tasks)
  /\ UNCHANGED <<batch, ready, polling, running, inStop, locker, stops>>

(* kv_app_stop(rc): thread t takes no more messages ...                    *)
StopBegin(t, rc) ==
  /\ polling' = polling \ {t}
  /\ inStop'  = [inStop EXCEPT ![t] = [pc |-> "lock", rc |-> rc, mask |-> {}]]
  /\ UNCHANGED <<phase, ready, running, locker, stops>>

SpdkAppStop == phase' = "stopping" /\ stops' = stops + 1

(* Mutant: without the lock.                                               *)
StopEnterUnlocked(t) ==
  /\ inStop[t].pc = "lock"
  /\ \/ /\ running = {}
        /\ inStop' = [inStop EXCEPT ![t] = Outside]
        /\ UNCHANGED <<phase, running, locker, stops>>
     \/ /\ running # {} /\ inStop[t].rc # 0
        /\ SpdkAppStop
        /\ running' = {}
        /\ inStop'  = [inStop EXCEPT ![t] = Outside]
        /\ UNCHANGED locker
     \/ /\ running # {} /\ inStop[t].rc = 0
        /\ inStop' = [inStop EXCEPT ![t].pc = "write", ![t].mask = running]
        /\ UNCHANGED <<phase, running, locker, stops>>
  /\ UNCHANGED <<msgVars, ready, polling>>

(* Mutant: it is not checked whether the application is being stopped.     *)
StopEnterAgain(t) ==
  /\ inStop[t].pc = "lock" /\ locker = -1
  /\ \/ /\ inStop[t].rc # 0
        /\ SpdkAppStop
        /\ running' = {}
        /\ inStop'  = [inStop EXCEPT ![t] = Outside]
        /\ UNCHANGED locker
     \/ /\ inStop[t].rc = 0
        /\ locker' = t
        /\ inStop' = [inStop EXCEPT ![t].pc = "write", ![t].mask = running]
        /\ UNCHANGED <<phase, running, stops>>
  /\ UNCHANGED <<msgVars, ready, polling>>

(* ... and, under the lock, unless the application is being stopped, stops *)
(* it on an error; else it reads who is running ...                        *)
StopEnter(t) ==
  /\ inStop[t].pc = "lock" /\ locker = -1
  /\ \/ /\ running = {}
        /\ inStop' = [inStop EXCEPT ![t] = Outside]
        /\ UNCHANGED <<phase, running, locker, stops>>
     \/ /\ running # {} /\ inStop[t].rc # 0
        /\ SpdkAppStop
        /\ running' = {}
        /\ inStop'  = [inStop EXCEPT ![t] = Outside]
        /\ UNCHANGED locker
     \/ /\ running # {} /\ inStop[t].rc = 0
        /\ locker' = t
        /\ inStop' = [inStop EXCEPT ![t].pc = "write", ![t].mask = running]
        /\ UNCHANGED <<phase, running, stops>>
  /\ UNCHANGED <<msgVars, ready, polling>>

(* ... and writes this back without t.  The last one stops the application.*)
StopLeave(t) ==
  /\ inStop[t].pc = "write"
  /\ running' = inStop[t].mask \ {t}
  /\ IF running' = {} THEN SpdkAppStop ELSE UNCHANGED <<phase, stops>>
  /\ inStop'  = [inStop EXCEPT ![t] = Outside]
  /\ locker'  = -1
  /\ UNCHANGED <<msgVars, ready, polling>>

(* The reactors come to rest, spdk_app_start returns, and kv_app_start     *)
(* destroys the queues with what is left in them.                          *)
AppEnd ==
  /\ phase = "stopping"
  /\ \A t \in Threads : batch[t] = <<>> /\ inStop[t] = Outside
  /\ phase' = "over"
  /\ queue' = [t \in Threads |-> [p \in Threads |-> <<>>]]
  /\ UNCHANGED <<batch, events, ready, polling, running, inStop, locker, stops>>

-----------------------------------------------------------------------------
(* Properties.                                                             *)

(* The messages on their way to thread t, each with its place: the number  *)
(* of its sender's queue, or ThreadNum in the batch, and how far behind.   *)
Pending(t) ==
  (UNION {{<<t, p, i, queue[t][p][i].func>> : i \in DOMAIN queue[t][p]} : p \in Threads})
  \cup {<<t, ThreadNum, i, batch[t][i].func>> : i \in DOMAIN batch[t]}

Messages == UNION {Pending(t) : t \in Threads}
InFlight == Cardinality(Messages)

(* Every message that is not on its way is back in the event pool, and the *)
(* pool, which kv_app_send takes from without a check (kv_app.c:42), never *)
(* runs out.                                                               *)
EventPoolLasts ==
  phase # "over" => events = InFlight /\ events <= EventNum

(* On whichever threads kv_app_stop is called, one after the other or at   *)
(* once, with or without an error, SPDK is told to stop at most once.      *)
StopsOnce == stops <= 1
=============================================================================
