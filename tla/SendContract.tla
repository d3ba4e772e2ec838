---------------------------- MODULE SendContract ----------------------------
(***************************************************************************)
(* What quota_aware_send_message() promises the code that calls it         *)
(* (run_category and warm_up_local_model in scripts/run_eval_client.py):   *)
(* one message is sent, and exactly one verdict comes back.  Either the    *)
(* verdict is the reply the POST produced, from a session nobody aborted,  *)
(* or the session was told to stop before the verdict was handed out.      *)
(*                                                                         *)
(* The module is abstract: it says nothing of threads, polls or clocks.    *)
(* SendMessage is shown to implement it.                                   *)
(***************************************************************************)

VARIABLES
  result,    \* what the POST came back with, "none" while it is outstanding
  aborted,   \* whether an abort of the session was attempted
  verdict    \* what the caller was told, "none" until the call is over

vars == <<result, aborted, verdict>>

Results  == {"reply", "aborted", "error", "timeout"}
GiveUps  == {"quota", "server_log_error", "unproductive_loop"}
Verdicts == {"reply", "raised"} \cup GiveUps

TypeOK ==
  /\ result  \in Results \cup {"none"}
  /\ aborted \in BOOLEAN
  /\ verdict \in Verdicts \cup {"none"}

Init ==
  /\ result  = "none"
  /\ aborted = FALSE
  /\ verdict = "none"

\* The outstanding POST comes back, possibly after the caller has given up.
PostReturns ==
  /\ result  = "none"
  /\ result' \in Results
  /\ UNCHANGED <<aborted, verdict>>

\* The caller's side decides to stop the session.
TryAbort ==
  /\ verdict  = "none"
  /\ aborted' = TRUE
  /\ UNCHANGED <<result, verdict>>

\* The call returns the reply of a session that was left alone.
Return ==
  /\ verdict  = "none"
  /\ result   = "reply"
  /\ ~aborted
  /\ verdict' = "reply"
  /\ UNCHANGED <<result, aborted>>

\* The POST failed: its exception is raised, after an abort.
Raise ==
  /\ verdict  = "none"
  /\ result   \in {"error", "timeout"}
  /\ aborted
  /\ verdict' = "raised"
  /\ UNCHANGED <<result, aborted>>

\* The call gives up on a POST it no longer waits for, after an abort.
GiveUp ==
  /\ verdict  = "none"
  /\ aborted
  /\ verdict' \in GiveUps
  /\ UNCHANGED <<result, aborted>>

Next == PostReturns \/ TryAbort \/ Return \/ Raise \/ GiveUp

Spec == Init /\ [][Next]_vars

=============================================================================
