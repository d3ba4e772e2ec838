---------------------------- MODULE OllamaServer ----------------------------
(***************************************************************************)
(* Ollama, as the programs of this repository use it (external).  A model  *)
(* is loaded when a request for it comes, and is let go once idle: when    *)
(* its keep-alive is over, or at once when asked with keep_alive 0.        *)
(* Letting go takes time: the model is "stopping", and still listed.       *)
(***************************************************************************)
CONSTANT Models

VARIABLES
  resident,  \* what Ollama has of each model
  demand     \* the models that somebody outside this repository is using

ollama == <<resident, demand>>

OllamaTypeOK ==
  /\ resident \in [Models -> {"out", "loading", "in", "stopping"}]
  /\ demand \subseteq Models

OllamaInit ==
  /\ resident \in [Models -> {"out", "in"}]
  /\ demand = {}

\* GET /api/ps, when it is answered.
Listed == {m \in Models : resident[m] \in {"in", "stopping"}}

Becomes(m, state) == resident' = [resident EXCEPT ![m] = state] /\ UNCHANGED demand

\* A request that waits for m has it loaded; busy are the models in use.
Load(m, busy)   == m \in busy /\ resident[m] = "out" /\ Becomes(m, "loading")
Loaded(m)       == resident[m] = "loading" /\ Becomes(m, "in")
Expire(m, busy) == m \notin busy /\ resident[m] = "in" /\ Becomes(m, "stopping")
Stopped(m)      == resident[m] = "stopping" /\ Becomes(m, "out")

\* POST /api/generate with keep_alive 0: a busy model goes when it is idle.
AskUnload(m, busy) ==
  Becomes(m, IF resident[m] = "in" /\ m \notin busy THEN "stopping" ELSE resident[m])

\* Others take a model into use, and are done with it.
OthersBegin(m) == m \notin demand /\ demand' = demand \cup {m} /\ UNCHANGED resident
OthersEnd(m)   == m \in demand /\ demand' = demand \ {m} /\ UNCHANGED resident

OllamaNext(busy, watched) ==
  \E m \in watched : \/ Load(m, busy) \/ Loaded(m) \/ Expire(m, busy) \/ Stopped(m)
                    \/ OthersBegin(m) \/ OthersEnd(m)

=============================================================================
