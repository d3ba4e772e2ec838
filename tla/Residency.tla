------------------------------ MODULE Residency ------------------------------
(***************************************************************************)
(* A run of the eval client, or a notebook's `with OllamaModel(...)`, seen *)
(* from the model's residency: warm_up_local_model and its poller thread,  *)
(* the work in between, unload_local_model, and signals at any step.       *)
(*                                                                         *)
(* The main thread is one program counter; a signal handler runs on it, so *)
(* `resume` keeps what it interrupted.  The send is the contract of module *)
(* SendMessage: it may give up while its POST is still on its way.  A tier *)
(* is what module RunCategory shows of one.                                *)
(***************************************************************************)
EXTENDS Integers, OllamaServer

CONSTANTS
  Model,           \* the model of the run, at provider local/ollama
  Tiers,           \* bound: tiers, or chats, between warm-up and unload
  MaxSignals,      \* bound: signals in a run
  RequestTime,     \* how long a request to Ollama may take
  PollInterval,    \* OLLAMA_PS_POLL_INTERVAL_S
  UnloadTimeout,   \* OLLAMA_UNLOAD_TIMEOUT_S
  HandlerTimeout   \* timeout_s of the handler's unload

ASSUME ResidencyAssumption ==
  /\ Model \in Models
  /\ {Tiers, MaxSignals, RequestTime, PollInterval, UnloadTimeout, HandlerTimeout}
       \subseteq Nat
  /\ PollInterval > 0

VARIABLES
  program,     \* "eval", "notebook", or "none": neither runs
  main,        \* where the main thread is
  resume,      \* where the handler interrupted it, or "none"
  handled,     \* _INTERRUPT_HANDLING
  signals,     \* signals received
  exiting,     \* an exception nothing catches is on its way up
  published,   \* _CURRENT_RUN_STATE["session_id"] names the session
  message,     \* the warm-up's message: "none", "coming" or "running"
  turn,        \* a tier's turn, or a chat, is running
  orphan,      \* a turn is left whose abort failed, or overtook a tier's message
  tiers,       \* tiers still to run
  late,        \* history: the message arrived when no abort of it was to come
  spent,       \* time spent waiting for the unload
  verdict,     \* what the last unload logged
  listing,     \* what ollama_ps has returned, until it is looked at
  pollFailed,  \* history: the last listing was ollama_ps's [] for a failure
  poller,      \* the poller thread
  done,        \* done_event
  dispatched,  \* _WARMUP_REQUEST_STATE["dispatched_at"]: "set", or None twice over
  report       \* what the poller last printed of the request

control == <<program, main, resume, handled, signals, exiting>>
work    == <<published, message, turn, orphan, tiers, late>>
unload  == <<spent, verdict, listing, pollFailed>>
thread  == <<poller, done, dispatched, report>>
client  == <<control, work, unload, thread>>

Warming  == {"create", "publish", "dispatch", "sending"}  \* the try clause
Settling == {"settle", "join", "reset", "close"}          \* its finally
Working  == {"ready", "tier"}
Polling  == {"polling", "listed", "napping"}
Handling == {"abort", "unload"} \cup Polling

\* The model is in use by a turn of the program's, by an orphan, or by others.
Busy == demand \cup (IF message = "running" \/ turn \/ orphan THEN {Model} ELSE {})

ResidencyTypeOK ==
  /\ program \in {"eval", "notebook", "none"}
  /\ main \in {"start", "ended"} \cup Warming \cup Settling \cup Working \cup Handling
  /\ resume \in {"none", "start"} \cup Warming \cup Settling \cup Working \cup Handling
  /\ resume # "none" => main \in Handling /\ handled
  /\ signals \in 0 .. MaxSignals
  /\ {handled, exiting, published, turn, orphan, late, pollFailed, done} \subseteq BOOLEAN
  /\ dispatched \in {"no", "set", "reset"}
  /\ message \in {"none", "coming", "running"}
  /\ tiers \in 0 .. Tiers
  /\ spent \in Nat
  /\ verdict \in {"none", "failed", "confirmed", "unconfirmed"}
  /\ listing \subseteq Models
  /\ poller \in {"off", "waiting", "asking", "ended"}
  /\ report \in {"none", "unsent", "outstanding"}

ClientInit ==
  /\ program \in {"eval", "notebook", "none"}
  /\ main = "start" /\ resume = "none" /\ handled = FALSE
  /\ signals = 0 /\ exiting = FALSE
  /\ published = FALSE /\ message = "none" /\ turn = FALSE /\ orphan = FALSE
  /\ tiers = Tiers /\ late = FALSE
  /\ spent = 0 /\ verdict = "none" /\ listing = {} /\ pollFailed = FALSE
  /\ poller = "off" /\ done = FALSE /\ dispatched = "no" /\ report = "none"

Step(from, to) == main = from /\ main' = to
Same(keep) == UNCHANGED <<program, resume, handled, signals, keep>>

-----------------------------------------------------------------------------
(* warm_up_local_model.                                                    *)

StartPoller ==
  /\ Step("start", "create") /\ program # "none"
  /\ poller' = "waiting"
  /\ Same(<<exiting, work, unload, done, dispatched, report, ollama>>)

\* A RuntimeError is logged; anything else is raised again after the finally.
Create ==
  /\ main = "create"
  /\ \/ main' = "publish" /\ UNCHANGED exiting
     \/ main' = "settle" /\ exiting' \in BOOLEAN
  /\ Same(<<work, unload, thread, ollama>>)

Publish ==
  /\ Step("publish", "dispatch")
  /\ published' = TRUE
  /\ Same(<<exiting, message, turn, orphan, tiers, late, unload, thread, ollama>>)

\* dispatched_at is set, and the worker's POST is on its way.
Dispatch ==
  /\ Step("dispatch", "sending")
  /\ dispatched' = "set" /\ message' = "coming"
  /\ Same(<<exiting, published, turn, orphan, tiers, late, unload, poller, done, report, ollama>>)

\* An abort of the warm-up's session is still to come: that of the finally
\* clause, unless the handler runs in it and ends the program, or the handler's.
AbortAhead ==
  \/ main \in Warming \cup Settling
  \/ main \in Handling /\ resume \in Warming
  \/ main = "abort" /\ published /\ resume \in Settling

\* The message arrives when it will, or is lost: nobody waits for that.
PostArrives ==
  /\ message = "coming"
  /\ message' \in {"running", "none"}
  /\ late' = (message' = "running" /\ ~AbortAhead)
  /\ Same(<<main, exiting, published, turn, orphan, tiers, unload, thread, ollama>>)

\* What an abort of the warm-up's session does: it stops the turn, or it fails
\* and leaves it behind.  A message that is still on its way it does not stop.
AbortMessage ==
  IF message = "running"
  THEN message' = "none" /\ orphan' \in {orphan, TRUE}
  ELSE UNCHANGED <<message, orphan>>

\* The send answers, bails out or raises: every give-up aborts first.
SendReturns ==
  /\ Step("sending", "settle")
  /\ AbortMessage /\ exiting' \in BOOLEAN
  /\ Same(<<published, turn, tiers, late, unload, thread, ollama>>)

\* The finally clause: done_event.set(), poller.join(timeout=5), and the rest;
\* (mutant) the state is cleared before the poller is joined.
SettleAtOnce ==
  /\ Step("settle", "join")
  /\ done' = TRUE /\ dispatched' = "reset"
  /\ Same(<<exiting, work, unload, poller, report, ollama>>)
Settle ==
  /\ Step("settle", "join")
  /\ done' = TRUE
  /\ Same(<<exiting, work, unload, poller, dispatched, report, ollama>>)

Join ==
  /\ Step("join", "reset")
  /\ poller \in {"ended", "asking"}
  /\ Same(<<exiting, work, unload, thread, ollama>>)

Reset ==
  /\ Step("reset", "close")
  /\ dispatched' = "reset"
  /\ Same(<<exiting, work, unload, poller, done, report, ollama>>)

\* What was raised goes on up.
AfterClose == IF exiting THEN "ended" ELSE "ready"
\* (mutant) the finally clause leaves the session to the server.
CloseKept ==
  /\ main = "close"
  /\ main' = AfterClose
  /\ published' = FALSE
  /\ Same(<<exiting, message, turn, orphan, tiers, late, unload, thread, ollama>>)

\* abort_session, if there is a session.
Close ==
  /\ main = "close"
  /\ main' = AfterClose
  /\ AbortMessage /\ published' = FALSE
  /\ Same(<<exiting, turn, tiers, late, unload, thread, ollama>>)

-----------------------------------------------------------------------------
(* Between: the tiers of run_category, or the body of the `with`.          *)

BeginTier ==
  /\ Step("ready", "tier") /\ tiers > 0
  /\ turn' = TRUE /\ tiers' = tiers - 1
  /\ published' = (program = "eval")
  /\ Same(<<exiting, message, orphan, late, unload, thread, ollama>>)

\* A tier's answer, or its end by an abort, which may fail or come too early.
TierOver == turn' = FALSE /\ orphan' \in {orphan, TRUE}

\* A chat is over with its connection.
EndTier ==
  /\ Step("tier", "ready")
  /\ IF program = "eval" THEN TierOver ELSE turn' = FALSE /\ UNCHANGED orphan
  /\ published' = FALSE
  /\ Same(<<exiting, message, tiers, late, unload, thread, ollama>>)

\* The run is over; __exit__ unloads, after an exception of the body too.
BeginUnload ==
  /\ Step("ready", "unload")
  /\ exiting' \in (IF program = "eval" THEN {FALSE} ELSE BOOLEAN)
  /\ Same(<<work, unload, thread, ollama>>)

\* What run_category does not catch ends the run.
LadderFails ==
  /\ Step("ready", "ended") /\ program = "eval"
  /\ exiting' = TRUE
  /\ Same(<<work, unload, thread, ollama>>)

-----------------------------------------------------------------------------
(* unload_local_model, of the run or of the handler.                       *)

\* (mutant) the handler waits like a run that is over.
LimitOfRun == UnloadTimeout
Limit == IF resume = "none" THEN UnloadTimeout ELSE HandlerTimeout

\* Where an exception leads: to a finally clause, to __exit__, or out.
Unwound(at) ==
  IF at \in Warming THEN "settle"
  ELSE IF at \in Working /\ program = "notebook" THEN "unload" ELSE "ended"

\* The unload has returned: the run is over, or the handler exits; (mutant) the
\* handler's frame stays.
ReturnedInHandler ==
  /\ main' = IF resume = "none" THEN "ended" ELSE Unwound(resume)
  /\ exiting' = (exiting \/ resume # "none")
  /\ UNCHANGED <<program, resume, handled, signals>>
Returned ==
  /\ main' = IF resume = "none" THEN "ended" ELSE Unwound(resume)
  /\ exiting' = (exiting \/ resume # "none")
  /\ resume' = "none"
  /\ UNCHANGED <<program, handled, signals>>

\* POST /api/generate, keep_alive 0.
RequestUnload ==
  /\ main = "unload"
  /\ spent' = 0
  /\ \/ /\ AskUnload(Model, Busy)
        /\ main' = "polling" /\ verdict' = "none"
        /\ Same(<<exiting>>)
     \/ /\ verdict' = "failed" /\ Returned
        /\ UNCHANGED ollama
  /\ UNCHANGED <<work, listing, pollFailed, thread>>

\* ollama_ps returns [] when the request fails.
Poll ==
  /\ Step("polling", "listed") /\ spent < Limit
  /\ pollFailed' \in BOOLEAN
  /\ listing' = IF pollFailed' THEN {} ELSE Listed
  /\ \E took \in 0 .. RequestTime : spent' = spent + took
  /\ Same(<<exiting, work, verdict, thread, ollama>>)

\* (mutant) a model that is still being let go counts as gone.
AbsentFromUsed == Model \notin {m \in listing : resident[m] = "in"}
\* _ollama_model_entry is None.
Absent == Model \notin listing

\* By now the listing may be out of date.
Judge ==
  /\ main = "listed"
  /\ IF Absent THEN verdict' = "confirmed" /\ Returned
               ELSE main' = "napping" /\ UNCHANGED verdict /\ Same(<<exiting>>)
  /\ listing' = {}
  /\ UNCHANGED <<work, spent, pollFailed, thread, ollama>>

Nap ==
  /\ Step("napping", "polling")
  /\ spent' = spent + PollInterval
  /\ Same(<<exiting, work, verdict, listing, pollFailed, thread, ollama>>)

GiveUp ==
  /\ main = "polling" /\ spent >= Limit
  /\ verdict' = "unconfirmed" /\ Returned
  /\ UNCHANGED <<work, spent, listing, pollFailed, thread, ollama>>

-----------------------------------------------------------------------------
(* Signals.                                                                *)

\* _handle_interrupt, while the eval client is anywhere in its run.
Interrupt ==
  /\ program = "eval" /\ ~handled /\ main # "ended" /\ signals < MaxSignals
  /\ handled' = TRUE /\ signals' = signals + 1
  /\ resume' = main /\ main' = "abort"
  /\ UNCHANGED <<program, exiting, work, unload, thread, ollama>>

\* The session that is published: the tier's, or the warm-up's.
AbortPublished ==
  /\ Step("abort", "unload")
  /\ \/ ~published /\ UNCHANGED <<message, turn, orphan>>
     \/ published /\ resume = "tier" /\ TierOver /\ UNCHANGED message
     \/ published /\ resume # "tier" /\ AbortMessage /\ UNCHANGED turn
  /\ Same(<<exiting, published, tiers, late, unload, thread, ollama>>)

\* One more signal exits from wherever the thread is; a notebook's handler
\* knows of no run, so there the first one does.
Raise ==
  /\ handled \/ program = "notebook"
  /\ main # "ended" /\ signals < MaxSignals
  /\ signals' = signals + 1
  /\ main' = Unwound(IF resume = "none" THEN main ELSE resume)
  /\ resume' = "none" /\ exiting' = TRUE
  /\ turn' = (turn /\ program = "eval")
  /\ UNCHANGED <<program, handled, published, message, orphan, tiers, late, unload, thread,
                 ollama>>

-----------------------------------------------------------------------------
(* _poll_ollama_ps_during.  A daemon thread: it dies with the process, but *)
(* not with a notebook's cell.                                             *)

Alive == program = "notebook" \/ main # "ended"

\* done_event.wait(): set, or not within the interval.
PollerWakes ==
  /\ Alive /\ poller = "waiting"
  /\ poller' = IF done THEN "ended" ELSE "asking"
  /\ UNCHANGED <<control, work, unload, done, dispatched, report, ollama>>

\* The listing is in; only now is dispatched_at read.
PollerPrints ==
  /\ Alive /\ poller = "asking"
  /\ report' = IF dispatched = "set" THEN "outstanding" ELSE "unsent"
  /\ poller' = "waiting"
  /\ UNCHANGED <<control, work, unload, done, dispatched, ollama>>

\* A turn ends by itself once it has its model.
TurnEnds ==
  /\ resident[Model] = "in"
  /\ \/ message = "running" /\ message' = "none" /\ UNCHANGED orphan
     \/ orphan /\ orphan' = FALSE /\ UNCHANGED message
  /\ UNCHANGED <<control, published, turn, tiers, late, unload, thread, ollama>>

WarmUp    == StartPoller \/ Create \/ Publish \/ Dispatch \/ SendReturns
             \/ Settle \/ Join \/ Reset \/ Close
Unload    == RequestUnload \/ Poll \/ Judge \/ Nap \/ GiveUp
MainSteps == WarmUp \/ BeginTier \/ EndTier \/ BeginUnload \/ LadderFails \/ Unload
             \/ AbortPublished
Poller    == PollerWakes \/ PollerPrints

ClientNext == MainSteps \/ PostArrives \/ TurnEnds \/ Interrupt \/ Raise \/ Poller

=============================================================================
