----------------------------- MODULE RpcService -----------------------------
(***************************************************************************)
(* What the RPC library promises the application that calls                *)
(* kv_rdma_send_req, one request/response buffer pair (memory region) at a *)
(* time: the handler of the server runs once for a request, the callback   *)
(* runs once, a successful callback finds the answer to this very request  *)
(* in the response buffer, a failed one means the handler never ran, and   *)
(* the buffers of a pair that is not outstanding are left alone.           *)
(*                                                                         *)
(* It promises this while its connections are up.  When one breaks, the    *)
(* callback of a request whose receive is flushed fails too, although the  *)
(* handler may have run.                                                   *)
(*                                                                         *)
(* The answer to a request is the request's own value: the handler of      *)
(* kv_rdma_server.c echoes, and with an echo two answers are equal only if *)
(* their requests are.                                                     *)
(***************************************************************************)
CONSTANTS Mrs,    \* request/response memory-region pairs
          Vals,   \* payloads
          None    \* "no value"

VARIABLES status,  \* "idle", "pending" (sent, not handled) or "served"
          asked,   \* the request's payload
          answer   \* what the application finds in the response buffer

vars == <<status, asked, answer>>

TypeOK ==
  /\ status \in [Mrs -> {"idle", "pending", "served"}]
  /\ asked  \in [Mrs -> Vals \cup {None}]
  /\ answer \in [Mrs -> Vals \cup {None}]

Init ==
  /\ status = [m \in Mrs |-> "idle"]
  /\ asked  = [m \in Mrs |-> None]
  /\ answer = [m \in Mrs |-> None]

(* The application submits a request; from here on the pair is the         *)
(* library's and its response buffer has no meaning.                       *)
Issue(m, v) ==
  /\ status[m] = "idle"
  /\ status' = [status EXCEPT ![m] = "pending"]
  /\ asked'  = [asked  EXCEPT ![m] = v]
  /\ answer' = [answer EXCEPT ![m] = None]

(* The server's handler is called with the request.                        *)
Serve(m) ==
  /\ status[m] = "pending"
  /\ status' = [status EXCEPT ![m] = "served"]
  /\ UNCHANGED <<asked, answer>>

(* The callback runs with success.                                         *)
Complete(m) ==
  /\ status[m] = "served"
  /\ status' = [status EXCEPT ![m] = "idle"]
  /\ answer' = [answer EXCEPT ![m] = asked[m]]
  /\ UNCHANGED asked

(* The callback runs without success: nobody handled the request, and the  *)
(* response buffer holds whatever it held before.                          *)
Reject(m) ==
  /\ status[m] = "pending"
  /\ status' = [status EXCEPT ![m] = "idle"]
  /\ \E v \in Vals \cup {None} : answer' = [answer EXCEPT ![m] = v]
  /\ UNCHANGED asked

Next == \E m \in Mrs : \/ \E v \in Vals : Issue(m, v)
                       \/ Serve(m)
                       \/ Complete(m)
                       \/ Reject(m)

Safety == Init /\ [][Next]_vars

(* Every submitted request is answered.                                    *)
Liveness == \A m \in Mrs : WF_vars(Serve(m)) /\ WF_vars(Complete(m))

Spec == Safety /\ Liveness
=============================================================================
