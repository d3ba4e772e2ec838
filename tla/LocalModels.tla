----------------------------- MODULE LocalModels -----------------------------
(***************************************************************************)
(* Ollama with one of the programs that load and unload its models: a run  *)
(* of the eval client or a notebook (module Residency), or the switch      *)
(* script (module ModelSwitch).  What runs beside it is in `demand`.       *)
(***************************************************************************)
EXTENDS Residency, ModelSwitch

VARIABLE used  \* history: the model was in use, or loading, since its unload was asked for

vars == <<client, script, ollama, used>>

\* One of the programs runs; models it has nothing to do with are left out.
Init ==
  /\ ClientInit /\ SwitchInit /\ OllamaInit
  /\ program = "none" <=> command # "none"
  /\ program # "none" => \A m \in Models \ {Model} : resident[m] = "out"
  /\ used = FALSE

Watched == IF program = "none" THEN Models ELSE {Model}
InUse   == Busy \cup Queued

\* What Ollama and the others do; which models begin to load is kept.
LoadsAgain(m) == resident[m] = "out" /\ resident'[m] = "loading"

ServerStep ==
  /\ OllamaNext(InUse, Watched)
  /\ reloaded' = IF step = "idle" THEN {} ELSE reloaded \cup {m \in Models : LoadsAgain(m)}
  /\ UNCHANGED <<client, step, command, loaded, left, waiting, elapsed, sent, stalled, misled>>

ClientStep == ClientNext /\ UNCHANGED script
SwitchStep == SwitchNext(InUse) /\ UNCHANGED client

\* With every step: is the model in use?  The request for its unload begins anew.
AsksUnload == main = "unload" /\ main' = "polling"
Uses ==
  used' = \/ Model \in InUse'
          \/ IF AsksUnload THEN resident[Model] = "loading" ELSE used

Next == (ClientStep \/ SwitchStep \/ ServerStep) /\ Uses

\* The threads are scheduled, and every request of a Python program has a
\* timeout.  A request of the script has none: while it is stalled, the script
\* owes nothing, and neither does Ollama.
Fairness ==
  /\ WF_vars(MainSteps /\ UNCHANGED script /\ Uses)
  /\ WF_vars(Poller /\ UNCHANGED script /\ Uses)
  /\ WF_vars(ScriptSteps /\ UNCHANGED client /\ Uses)

Spec == Init /\ [][Next]_vars /\ Fairness

TypeOK == OllamaTypeOK /\ ResidencyTypeOK /\ SwitchTypeOK /\ used \in BOOLEAN

-----------------------------------------------------------------------------
(* Properties.                                                             *)

\* The program does not end with a turn of its own still running that an abort
\* of its could have stopped: the warm-up's message may come before the handler's
\* abort, between that and the finally clause's, or while the send gives up.  What
\* comes after the last of the aborts nobody stops (`late`); a failed abort leaves
\* an `orphan`; and a signal may cut the clean-up itself, in a notebook the first.
NoTurnOutlivesRun ==
  main = "ended" /\ (message = "running" \/ turn) =>
    late \/ signals > (IF program = "eval" THEN 1 ELSE 0)

\* "unload confirmed" means the memory is free for "whatever runs next": from then
\* on the model is out, unless somebody has used it since the unload was asked for.
\* That may be others, or a turn of the program's own that outlived its abort.
\* Of a listing that failed, or of a model that was loading, it says nothing.
ConfirmedIsFree ==
  verdict = "confirmed" => resident[Model] = "out" \/ used \/ pollFailed

\* The handler's unload is "short-timeout so this doesn't hang": its time is
\* over with the first pause that crosses it.
HandlerIsBrief ==
  resume # "none" /\ main \in Polling =>
    spent < HandlerTimeout + RequestTime + PollInterval

\* The poller never says that the message was not sent while the send of it is
\* being waited for: dispatched_at is reset only when the thread is joined.
NeverDeniesTheMessage ==
  [][PollerPrints /\ dispatched # "no" /\ main \in {"sending", "settle", "join"} =>
       report' = "outstanding"]_vars

\* A script that goes on to the load, or ends well, has left nothing in memory
\* but its target and what came there since its listing, unless a listing that
\* failed, the first one or one of a wait, was taken for "nothing loaded".
SwitchClears ==
  step \in {"loading", "ok"} =>
    \A m \in Models : \/ resident[m] = "out"
                      \/ m = Target /\ command = "switch-to"
                      \/ m \in misled \cup reloaded

\* Programs end, whatever Ollama does: every wait of the client's has a limit.  The
\* waits of the script have one as well, and still it may never end: curl is given
\* no time limit, and Ollama may keep a listing for ever.
ProgramsEnd ==
  /\ main # "start" ~> main = "ended"
  /\ command # "none" ~> step \in {"ok", "failed"} \/ stalled

=============================================================================
