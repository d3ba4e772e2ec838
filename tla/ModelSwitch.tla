----------------------------- MODULE ModelSwitch -----------------------------
(***************************************************************************)
(* scripts/ollama-model-switch.sh: lists what is loaded once, orders each  *)
(* unload and the load in the background, and polls /api/ps until the      *)
(* order shows or OLLAMA_SWITCH_TIMEOUT is over.  The background requests  *)
(* are on their own: they may come late, or not at all, unnoticed.  Its    *)
(* own requests have no time limit: while one is kept, the script waits.   *)
(***************************************************************************)
EXTENDS Integers, FiniteSets, OllamaServer

CONSTANTS
  Target,         \* the model of switch-to
  SwitchTimeout,  \* OLLAMA_SWITCH_TIMEOUT
  SwitchPoll      \* OLLAMA_SWITCH_POLL_INTERVAL

ASSUME SwitchAssumption ==
  /\ Target \in Models /\ IsFiniteSet(Models)
  /\ SwitchTimeout \in Nat /\ SwitchPoll \in Nat \ {0}

VARIABLES
  step,      \* what the script is doing
  command,   \* "switch-to", "unload-all", or "none": it does not run
  loaded,    \* the models of its one listing
  left,      \* those it still has to unload
  waiting,   \* the models it is waiting for: one, or none
  elapsed,   \* what wait_until has counted
  sent,      \* the background requests under way
  stalled,   \* Ollama has its listing request, and does not answer
  misled,    \* history: models taken for unloaded because a listing failed
  reloaded   \* history: models loaded since the listing, or loading at it

script == <<step, command, loaded, left, waiting, elapsed, sent, stalled, misled, reloaded>>

Orders == Models \X {"unload", "load", "queued"}

Asking == {"idle", "unloading", "loading"}   \* at these steps it asks for a listing

SwitchTypeOK ==
  /\ step \in {"idle", "next", "unloading", "loading", "ok", "failed"}
  /\ command \in {"switch-to", "unload-all", "none"}
  /\ {loaded, left, waiting, misled, reloaded} \subseteq SUBSET Models
  /\ stalled \in BOOLEAN
  /\ left \subseteq loaded
  /\ elapsed \in Nat
  /\ sent \subseteq Orders
  /\ stalled => command # "none" /\ step \in Asking

SwitchInit ==
  /\ step = "idle" /\ command \in {"switch-to", "unload-all", "none"}
  /\ loaded = {} /\ left = {} /\ waiting = {} /\ elapsed = 0
  /\ sent = {} /\ stalled = FALSE /\ misled = {} /\ reloaded = {}

\* The requests that wait for their model are in use of it.
Queued == {m \in Models : <<m, "queued">> \in sent}

-----------------------------------------------------------------------------

\* curl without --max-time: a request may be kept as long as Ollama likes.
Stall ==
  /\ command # "none" /\ step \in Asking /\ ~stalled
  /\ stalled' = TRUE
  /\ UNCHANGED <<step, command, loaded, left, waiting, elapsed, sent, misled, reloaded, ollama>>

Resume ==
  /\ stalled /\ stalled' = FALSE
  /\ UNCHANGED <<step, command, loaded, left, waiting, elapsed, sent, misled, reloaded, ollama>>

\* `loaded="$(ollama_list_loaded)"`: a listing; or an HTTP error, whose body has
\* no models, so that nothing seems loaded; or no answer, which under set -e
\* ends the script.
List ==
  /\ step = "idle" /\ command # "none" /\ ~stalled
  /\ \/ /\ step' = "next" /\ loaded' = Listed
        /\ left' = Listed \ (IF command = "switch-to" THEN {Target} ELSE {})
        /\ UNCHANGED misled
     \/ step' = "next" /\ misled' = Listed /\ UNCHANGED <<loaded, left>>
     \/ step' = "failed" /\ UNCHANGED <<loaded, left, misled>>
  /\ reloaded' = {m \in Models : resident[m] = "loading"}
  /\ UNCHANGED <<command, waiting, elapsed, sent, stalled, ollama>>

\* ollama_unload_bg, of one model after the other.
OrderUnload(m) ==
  /\ step = "next" /\ m \in left
  /\ step' = "unloading" /\ waiting' = {m} /\ elapsed' = 0
  /\ left' = left \ {m}
  /\ sent' = sent \cup {<<m, "unload">>}
  /\ UNCHANGED <<command, loaded, stalled, misled, reloaded, ollama>>

\* ollama_load_bg, unless the target was in the listing.
OrderLoad ==
  /\ step = "next" /\ left = {} /\ command = "switch-to" /\ Target \notin loaded
  /\ step' = "loading" /\ waiting' = {Target} /\ elapsed' = 0
  /\ sent' = sent \cup {<<Target, "load">>}
  /\ UNCHANGED <<command, loaded, left, stalled, misled, reloaded, ollama>>

Finish ==
  /\ step = "next" /\ left = {} /\ (command = "switch-to" => Target \in loaded)
  /\ step' = "ok"
  /\ UNCHANGED <<command, loaded, left, waiting, elapsed, sent, stalled, misled, reloaded,
                 ollama>>

\* (mutant) "stopping" reads as unloaded.
SeenIn(m, answers) == answers /\ resident[m] = "in"
\* ollama_is_loaded, whose failure reads as "no".
SeenLoaded(m, answers) == answers /\ m \in Listed

\* One round of wait_until.
Sleep ==
  /\ step' = step /\ waiting' = waiting
  /\ elapsed' = elapsed + SwitchPoll

Give ==
  /\ step' = "failed" /\ waiting' = {} /\ UNCHANGED elapsed

\* (mutant) it waits without a limit.
WaitOn == IF elapsed >= SwitchTimeout THEN UNCHANGED <<step, waiting, elapsed>> ELSE Sleep
KeepWaiting == IF elapsed >= SwitchTimeout THEN Give ELSE Sleep

WaitUnloaded(m, answers) ==
  /\ step = "unloading" /\ m \in waiting /\ ~stalled
  /\ IF SeenLoaded(m, answers)
     THEN KeepWaiting /\ UNCHANGED misled
     ELSE /\ step' = "next" /\ waiting' = {} /\ UNCHANGED elapsed
          /\ misled' = IF answers THEN misled ELSE misled \cup {m}
  /\ UNCHANGED <<command, loaded, left, sent, stalled, reloaded, ollama>>

WaitLoaded(answers) ==
  /\ step = "loading" /\ ~stalled
  /\ IF SeenLoaded(Target, answers)
     THEN step' = "ok" /\ waiting' = {} /\ UNCHANGED elapsed
     ELSE KeepWaiting
  /\ UNCHANGED <<command, loaded, left, sent, stalled, misled, reloaded, ollama>>

\* A background request reaches Ollama, is answered, or fails: nobody looks.
Arrives(order, busy) ==
  /\ order \in sent
  /\ \/ /\ order[2] = "unload"
        /\ AskUnload(order[1], busy) /\ sent' = sent \ {order}
     \/ /\ order[2] = "load"
        /\ sent' = (sent \ {order}) \cup {<<order[1], "queued">>} /\ UNCHANGED ollama
     \/ /\ order[2] = "queued" /\ resident[order[1]] = "in"
        /\ sent' = sent \ {order} /\ UNCHANGED ollama
  /\ UNCHANGED <<step, command, loaded, left, waiting, elapsed, stalled, misled, reloaded>>

Lost(order) ==
  /\ order \in sent /\ sent' = sent \ {order}
  /\ UNCHANGED <<step, command, loaded, left, waiting, elapsed, stalled, misled, reloaded,
                 ollama>>

ScriptSteps ==
  \/ List \/ OrderLoad \/ Finish
  \/ \E m \in Models : OrderUnload(m) \/ \E answers \in BOOLEAN : WaitUnloaded(m, answers)
  \/ \E answers \in BOOLEAN : WaitLoaded(answers)

SwitchNext(busy) ==
  ScriptSteps \/ Stall \/ Resume \/ \E order \in sent : Arrives(order, busy) \/ Lost(order)

=============================================================================
