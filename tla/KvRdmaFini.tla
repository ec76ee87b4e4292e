----------------------------- MODULE KvRdmaFini -----------------------------
(***************************************************************************)
(* The end of a kv_rdma handle: kv_rdma_fini unregisters the pollers of    *)
(* the connection manager and of the completion queue, each on its own     *)
(* thread, and the last of them to report frees the handle and sends the   *)
(* final callback back to the thread that called kv_rdma_fini.  Around it  *)
(* is the life of the application: the handle is made by a first task, the *)
(* first connection creates the completion queue and registers its pollers *)
(* by messages too, and threads may stop before all this has ended.        *)
(*                                                                         *)
(* The handle is made on LibThread (kv_rdma_init) and has PollNum          *)
(* completion pollers, on that thread and the ones after it.               *)
(***************************************************************************)
EXTENDS KvApp

CONSTANTS
  LibThread,  \* self->thread_id
  PollNum     \* self->thread_num

Pollers == LibThread..(LibThread + PollNum - 1)

ASSUME LibAssumption ==
  LibThread \in Nat /\ PollNum \in Nat \ {0} /\ Pollers \subseteq Threads

VARIABLES
  ctx,      \* self->ctx: "none", or whether it came before or after the
            \* call of kv_rdma_fini: "early", "late"
  cm,       \* the connection manager's poller is registered and its event
            \* channel open
  pollers,  \* threads with a registered rdma_cq_poller
  ioCnt,    \* self->fini_ctx.io_cnt
  caller,   \* self->fini_ctx.thread_id, -1 before the call
  pc,       \* "none" before kv_rdma_init, "idle", "count" and "send" inside kv_rdma_fini, "returned"
  told,     \* i, the completion pollers kv_rdma_fini has told to go
  freed,    \* the handle, its completion queue and cq_pollers are freed
  cbs,      \* how often the final callback has run
  fault     \* a freed handle or cq_pollers array has been used

libVars == <<ctx, cm, pollers, ioCnt, caller, pc, told, freed, cbs, fault>>
vars    == <<appVars, libVars>>

Task == [func : {"start", "poller_register", "cm_poller_unregister",
                 "cq_poller_unregister", "poller_unregister_done", "fini_cb"}]

(* Every variable holds a value of its kind; io_cnt counts the pollers.    *)
TypeOK ==
  /\ AppTypeOK(Task)
  /\ ctx     \in {"none", "early", "late"}
  /\ cm      \in BOOLEAN
  /\ pollers \in SUBSET Pollers
  /\ ioCnt   \in 0..(PollNum + 1)
  /\ caller  \in Threads \cup {-1}
  /\ pc      \in {"none", "idle", "count", "send", "returned"}
  /\ told    \in 0..PollNum
  /\ freed   \in BOOLEAN
  /\ cbs     \in Nat
  /\ fault   \in BOOLEAN

Init ==
  /\ AppInit
  /\ ctx     = "none"
  /\ cm      = FALSE
  /\ pollers = {}
  /\ ioCnt   = 0
  /\ caller  = -1
  /\ pc      = "none"
  /\ told    = 0
  /\ freed   = FALSE
  /\ cbs     = 0
  /\ fault   = FALSE

(* A thread runs one function at a time; inside kv_rdma_fini and           *)
(* kv_app_stop it is busy.                                                 *)
Free(t) == ~(pc \in {"count", "send"} /\ caller = t) /\ inStop[t] = Outside

Msg(func) == [func |-> func]

-----------------------------------------------------------------------------
(* kv_rdma_init, in the first task of a thread: the connection manager's   *)
(* poller is registered.                                                   *)
RdmaInit(t) ==
  /\ Free(t) /\ AtTask(t, "start")
  /\ cm' = TRUE /\ pc' = "idle"
  /\ TaskDone(t, 0)
  /\ UNCHANGED <<queue, lifeVars, ctx, pollers, ioCnt, caller, told, freed, cbs, fault>>

(* create_connetion for the first connection, in the connection manager's  *)
(* poller: completion queue, cq_pollers, and a message to each thread.     *)
CreateContext ==
  /\ Free(LibThread) /\ batch[LibThread] = <<>>
  /\ cm /\ ctx = "none"
  /\ ctx'   = IF pc = "idle" THEN "early" ELSE "late"
  /\ SendAll(LibThread, Pollers, [t \in Pollers |-> Msg("poller_register")])
  /\ UNCHANGED <<batch, lifeVars, cm, pollers, ioCnt, caller, pc, told,
                 freed, cbs, fault>>

(* poller_register: the poller's handle is written into cq_pollers.        *)
PollerRegister(t) ==
  /\ Free(t) /\ AtTask(t, "poller_register")
  /\ pollers' = pollers \cup {t}
  /\ fault'   = freed
  /\ TaskDone(t, 0)
  /\ UNCHANGED <<queue, lifeVars, ctx, cm, ioCnt, caller, pc, told, freed, cbs>>

(* A registered rdma_cq_poller reads its entry of cq_pollers.              *)
CqPoller(t) ==
  /\ Free(t) /\ batch[t] = <<>>
  /\ t \in pollers /\ freed
  /\ fault' = TRUE
  /\ UNCHANGED <<appVars, ctx, cm, pollers, ioCnt, caller, pc, told, freed, cbs>>

-----------------------------------------------------------------------------
(* kv_rdma_fini, called once, on any thread: the count starts at one and   *)
(* the connection manager's poller is told to go ...                       *)
Fini(t) ==
  /\ pc = "idle" /\ Free(t)
  /\ ioCnt' = 1 /\ caller' = t /\ pc' = "count"
  /\ SendAll(t, {LibThread}, [l \in {LibThread} |-> Msg("cm_poller_unregister")])
  /\ UNCHANGED <<batch, lifeVars, ctx, cm, pollers, told, freed, cbs, fault>>

(* Mutant: the completion pollers are not counted.                         *)
FiniCountNone ==
  /\ pc = "count"
  /\ pc' = IF ctx = "none" THEN "returned" ELSE "send"
  /\ fault' = freed
  /\ UNCHANGED <<appVars, ctx, cm, pollers, ioCnt, caller, told, freed, cbs>>

(* ... then, if there is a completion queue, its pollers are counted ...   *)
FiniCount ==
  /\ pc = "count"
  /\ fault' = freed
  /\ IF freed \/ ctx = "none" THEN pc' = "returned" /\ UNCHANGED ioCnt
     ELSE pc' = "send" /\ ioCnt' = ioCnt + PollNum
  /\ UNCHANGED <<appVars, ctx, cm, pollers, caller, told, freed, cbs>>

(* Mutant: a poller is counted again when it is told.                      *)
FiniSendCountsAgain ==
  /\ pc = "send"
  /\ fault' = freed
  /\ IF freed \/ told = PollNum THEN pc' = "returned" /\ UNCHANGED <<queue, events, ioCnt, told>>
     ELSE /\ told' = told + 1 /\ ioCnt' = ioCnt + 1
          /\ SendAll(caller, {LibThread + told}, [t \in Threads |-> Msg("cq_poller_unregister")])
          /\ UNCHANGED pc
  /\ UNCHANGED <<batch, lifeVars, ctx, cm, pollers, caller, freed, cbs>>

(* ... and told; the loop reads self->thread_num after each message.       *)
FiniSend ==
  /\ pc = "send"
  /\ fault' = freed
  /\ IF freed \/ told = PollNum THEN pc' = "returned" /\ UNCHANGED <<queue, events, told>>
     ELSE /\ told' = told + 1
          /\ SendAll(caller, {LibThread + told}, [t \in Threads |-> Msg("cq_poller_unregister")])
          /\ UNCHANGED pc
  /\ UNCHANGED <<batch, lifeVars, ctx, cm, pollers, ioCnt, caller, freed, cbs>>

-----------------------------------------------------------------------------
(* Mutant: nobody is told that the poller is gone.                         *)
CmPollerUnregisterSilent(t) ==
  /\ Free(t) /\ AtTask(t, "cm_poller_unregister")
  /\ cm' = FALSE
  /\ TaskDone(t, 0)
  /\ UNCHANGED <<queue, lifeVars, ctx, pollers, ioCnt, caller, pc, told,
                 freed, cbs, fault>>

(* cm_poller_unregister.                                                   *)
CmPollerUnregister(t) ==
  /\ Free(t) /\ AtTask(t, "cm_poller_unregister")
  /\ cm' = FALSE
  /\ Send(t, LibThread, Msg("poller_unregister_done"))
  /\ TaskDone(t, 1)
  /\ UNCHANGED <<lifeVars, ctx, pollers, ioCnt, caller, pc, told, freed, cbs,
                 fault>>

(* Mutant: the poller reports and stays registered.                        *)
CqPollerUnregisterKeeps(t) ==
  /\ Free(t) /\ AtTask(t, "cq_poller_unregister")
  /\ fault' = freed
  /\ Send(t, LibThread, Msg("poller_unregister_done"))
  /\ TaskDone(t, 1)
  /\ UNCHANGED <<lifeVars, ctx, cm, pollers, ioCnt, caller, pc, told, freed,
                 cbs>>

(* cq_poller_unregister; a poller that is not registered yet stays out of  *)
(* its reach.                                                              *)
CqPollerUnregister(t) ==
  /\ Free(t) /\ AtTask(t, "cq_poller_unregister")
  /\ fault'   = freed
  /\ pollers' = pollers \ {t}
  /\ Send(t, LibThread, Msg("poller_unregister_done"))
  /\ TaskDone(t, 1)
  /\ UNCHANGED <<lifeVars, ctx, cm, ioCnt, caller, pc, told, freed, cbs>>

(* poller_unregister_done: the last one frees everything and sends the     *)
(* final callback.                                                         *)
PollerUnregisterDone(t) ==
  /\ Free(t) /\ AtTask(t, "poller_unregister_done")
  /\ \/ /\ freed
        /\ fault' = TRUE
        /\ TaskDone(t, 0)
        /\ UNCHANGED <<queue, ioCnt, freed>>
     \/ /\ ~freed /\ ioCnt > 1
        /\ ioCnt' = ioCnt - 1
        /\ TaskDone(t, 0)
        /\ UNCHANGED <<queue, freed, fault>>
     \/ /\ ~freed /\ ioCnt = 1
        /\ ioCnt' = 0
        /\ freed' = TRUE
        /\ Send(t, caller, Msg("fini_cb"))
        /\ TaskDone(t, 1)
        /\ UNCHANGED fault
  /\ UNCHANGED <<lifeVars, ctx, cm, pollers, caller, pc, told, cbs>>

(* The final callback; in both examples it is kv_app_stop(0).              *)
FiniCb(t) ==
  /\ Free(t) /\ AtTask(t, "fini_cb")
  /\ cbs' = cbs + 1
  /\ StopBegin(t, 0)
  /\ TaskDone(t, 0)
  /\ UNCHANGED <<queue, ctx, cm, pollers, ioCnt, caller, pc, told, freed, fault>>

(* A poller of the application calls kv_app_stop; once on each thread, as  *)
(* a bound.                                                                *)
AppStop(t, rc) ==
  /\ Free(t) /\ batch[t] = <<>> /\ t \in polling
  /\ StopBegin(t, rc)
  /\ UNCHANGED <<msgVars, libVars>>

Start == (ThreadInit \/ AppStart([t \in {LibThread} |-> Msg("start")])) /\ UNCHANGED libVars

Poll(t) == Free(t) /\ MsgPoller(t) /\ UNCHANGED libVars

RunTask(t) ==
  \/ RdmaInit(t) \/ PollerRegister(t) \/ CmPollerUnregister(t) \/ CqPollerUnregister(t)
  \/ PollerUnregisterDone(t) \/ FiniCb(t)

Stop(t) == (StopEnter(t) \/ StopLeave(t)) /\ UNCHANGED libVars

End == AppEnd /\ pc \notin {"count", "send"} /\ UNCHANGED libVars

Step(t) ==
  /\ phase \in {"up", "stopping"}
  /\ Poll(t) \/ RunTask(t) \/ CqPoller(t) \/ Fini(t) \/ Stop(t) \/ \E rc \in {0, 1} : AppStop(t, rc)

Next ==
  /\ ~fault
  /\ \/ Start \/ End \/ \E t \in Threads : Step(t)
     \/ phase \in {"up", "stopping"} /\ (CreateContext \/ FiniCount \/ FiniSend)

(* Reactors keep running, the caller of kv_rdma_fini comes to its end, and *)
(* so does one of kv_app_stop.                                             *)
Fairness ==
  /\ WF_vars(~fault /\ (Start \/ End))
  /\ WF_vars(~fault /\ (FiniCount \/ FiniSend))
  /\ \A t \in Threads :
       /\ WF_vars(~fault /\ phase \in {"up", "stopping"} /\ (Poll(t) \/ RunTask(t)))
       /\ WF_vars(~fault /\ Stop(t))

Spec == Init /\ [][Next]_vars /\ Fairness

-----------------------------------------------------------------------------
(* Properties.                                                             *)

(* What the API asks for without saying so: kv_rdma_fini is called on the  *)
(* handle's own thread, and no first connection is made after the call.    *)
Orderly == caller \in {LibThread, -1} /\ ctx # "late"

(* An orderly end uses nothing it has freed, whoever stops meanwhile.      *)
OrderlyIsSafe == Orderly => ~fault

Outstanding ==
  {m \in Messages :
     m[4] \in {"cm_poller_unregister", "cq_poller_unregister", "poller_unregister_done"}}

(* When an orderly end frees the handle no poller is registered and no     *)
(* message but the final callback is on its way.                           *)
FreedWhenQuiet ==
  freed /\ Orderly =>
    /\ pollers = {} /\ ~cm
    /\ \A t \in Threads : \A m \in Pending(t) : m[4] = "fini_cb"

(* From the return of kv_rdma_fini to the end io_cnt is the number of      *)
(* pollers that have not been told to go or whose report has not been      *)
(* handled, in whatever order threads and messages took.                   *)
CountMatches ==
  pc = "returned" /\ ~freed /\ ~fault /\ phase # "over" =>
    ioCnt = Cardinality(Outstanding)

(* A thread of the handle has left, or the application was stopped, before *)
(* the final callback: messages to it are never handled.                   *)
CutShort == cbs = 0 /\ (phase # "up" \/ ~(Pollers \subseteq polling))

(* kv_rdma_fini ends with its callback, once, unless a race destroys the   *)
(* handle under it or kv_app_stop does not wait for it.                    *)
FiniCompletes == caller # -1 ~> [](cbs = 1 \/ ~Orderly \/ CutShort)

(* When every thread has called kv_app_stop the application ends, unless   *)
(* the process died of such a race.                                        *)
AppEnds == phase = "up" /\ polling = {} ~> phase = "over" \/ fault
=============================================================================
