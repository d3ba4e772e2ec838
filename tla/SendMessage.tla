---------------------------- MODULE SendMessage -----------------------------
(***************************************************************************)
(* quota_aware_send_message() of scripts/run_eval_client.py: one message   *)
(* sent to one opencode session by two threads of the eval client.  The    *)
(* worker thread blocks in POST /session/{id}/message; the main thread     *)
(* polls the session's status, the server's log and the session's message  *)
(* list, and decides whether to keep waiting or to abort and give up.      *)
(*                                                                         *)
(* The opencode server is external: its turn, its retry loop and its log   *)
(* are modelled from what the client's code says of them and relies on.    *)
(*                                                                         *)
(* Time is counted in poll intervals (STATUS_POLL_INTERVAL_S).  A step of  *)
(* the main thread that blocks has a deadline `due`; the clock cannot pass *)
(* the deadline of the step that is under way, nor the socket timeout of   *)
(* the POST.                                                               *)
(***************************************************************************)
EXTENDS Integers, Sequences

CONSTANTS
  PostTimeout,          \* `timeout` of the POST, in polls
  QuotaThreshold,       \* QUOTA_WAIT_THRESHOLD_S, in polls
  CheckInterval,        \* UNPRODUCTIVE_CHECK_INTERVAL_S, in polls
  LoopMessages,         \* UNPRODUCTIVE_LOOP_MESSAGES
  GetTimeout,           \* how long a GET of the main thread may take
  HeartbeatTimeout,     \* how long the heartbeat's GETs, children's too, may take
  AbortTimeout,         \* how long the abort POST may take
  RetryWaits,           \* waits opencode's own retry may announce, in polls
  Earlier,              \* what the session may hold when the message is sent
  MaxMessages,          \* bound: messages the session may come to hold
  MaxLog,               \* bound: ERROR lines the log may hold for the session
  LogMayFail            \* whether reading the log may fail (OSError)

ASSUME SendAssumption ==
  /\ PostTimeout \in Nat \ {0}
  /\ QuotaThreshold \in Nat
  /\ CheckInterval \in Nat
  /\ LoopMessages \in Nat \ {0}
  /\ GetTimeout \in Nat
  /\ HeartbeatTimeout \in Nat
  /\ AbortTimeout \in Nat
  /\ RetryWaits \subseteq Nat \ {0}
  /\ \A e \in Earlier : e.log \in Seq({"retryable", "fatal"})
                        /\ e.activity \in [messages : Nat, unknown : Nat,
                                           content : Nat]
  /\ MaxMessages \in Nat
  /\ MaxLog \in Nat
  /\ LogMayFail \in BOOLEAN

VARIABLES
  now,        \* the clock
  pc,         \* the main thread: which step of the polling loop it is at
  due,        \* when the main thread's current step is over at the latest
  status,     \* the status snapshot of this poll
  lastSnap,   \* last_unproductive_snapshot
  lastCheck,  \* last_unproductive_check
  cause,      \* why the main thread is aborting, "none" otherwise
  verdict,    \* what the call returned or raised, "none" while it runs
  holder,     \* result_holder / exception_holder, filled by the worker
  done,       \* done_event
  abort,      \* "none", or what became of the abort request
  post,       \* the POST's request: "flight", "arrived" or "lost"
  turn,       \* the server's status of the session
  next,       \* when opencode's own retry will try again, 0 outside a retry
  answer,     \* the response the server has produced for the POST
  log,        \* the session's level=ERROR lines, oldest first
  activity,   \* what GET /session/{id}/message would report
  open,       \* whether the turn has begun a message it has not finished
  announced,  \* history: the longest wait opencode's retry has announced
  hollow      \* history: a message of the turn ended with no content

client == <<pc, due, status, lastSnap, lastCheck, cause, verdict>>
worker == <<holder, done>>
server == <<turn, next, answer, log, activity, open, announced, hollow>>
vars   == <<now, client, worker, abort, post, server>>

-----------------------------------------------------------------------------
(* Data.                                                                   *)

LineClasses == {"retryable", "fatal"}   \* _classify_log_error: None, or not
GiveUps     == {"quota", "server_log_error", "unproductive_loop"}
Running     == {"busy", "retry"}
Statuses    == [type : Running \cup {"idle"}, next : Nat]
NoStatus    == [type |-> "idle", next |-> 0]   \* none read yet, or no longer needed

\* A reduced session_progress(): `content` stands for text_chars,
\* reasoning_chars and tools together, `unknown` for finish_unknown.
Snapshots == [messages : Nat, unknown : Nat, content : Nat]
NoSnap    == [messages |-> 0, unknown |-> 0, content |-> 0]   \* {}

\* What _check_session_log_error can find: nothing (no ERROR line yet, or the
\* log cannot be read), or the FIRST ERROR line of the session.
LogReadings ==
  {line \in LineClasses : log # <<>> /\ line = Head(log)}
    \cup {line \in {"none"} : log = <<>> \/ LogMayFail}

\* _classify_log_error: anything but None ends the wait.
Fatal(line) == line = "fatal"

\* _unproductive_loop.
UnproductiveLoop(previous, current) ==
  /\ previous # NoSnap
  /\ current # NoSnap
  /\ current.unknown >= LoopMessages
  /\ current.messages > previous.messages
  /\ current.content = previous.content

TypeOK ==
  /\ now \in Nat
  /\ pc \in {"wait", "status", "log", "loopcheck", "heartbeat", "quota",
             "abort", "unwind", "abortRaise", "raise", "returned"}
  /\ due \in Nat
  /\ status \in Statuses
  /\ lastSnap \in Snapshots
  /\ lastCheck \in Nat
  /\ cause \in GiveUps \cup {"none"}
  /\ verdict \in GiveUps \cup {"none", "reply", "raised"}
  /\ holder \in {"none", "reply", "aborted", "error", "timeout"}
  /\ done \in BOOLEAN
  /\ abort \in {"none", "failed", "early", "delivered"}
  /\ post \in {"flight", "arrived", "lost"}
  /\ turn \in Running \cup {"idle"}
  /\ next \in Nat
  /\ answer \in {"none", "reply", "aborted", "error"}
  /\ log \in Seq(LineClasses)
  /\ activity \in Snapshots
  /\ open \in BOOLEAN
  /\ announced \in Nat
  /\ hollow \in BOOLEAN

Init ==
  /\ now = 0
  /\ pc = "wait" /\ due = 1
  /\ status = NoStatus
  /\ lastSnap = NoSnap /\ lastCheck = 0
  /\ cause = "none" /\ verdict = "none"
  /\ holder = "none" /\ done = FALSE
  /\ abort = "none" /\ post = "flight"
  /\ turn = "idle" /\ next = 0 /\ answer = "none"
  /\ \E e \in Earlier : log = e.log /\ activity = e.activity
  /\ open = FALSE /\ announced = 0 /\ hollow = FALSE

-----------------------------------------------------------------------------
(* The main thread.                                                        *)

Goto(label, limit) == pc' = label /\ due' = now + limit

\* done_event.wait(poll_interval_s) times out.
PollDue ==
  /\ pc = "wait" /\ now >= due /\ ~done
  /\ Goto("status", GetTimeout)
  /\ UNCHANGED <<now, status, lastSnap, lastCheck, cause, verdict, worker,
                 abort, post, server>>

\* What the worker left is an exception; it is re-raised after an abort;
\* (mutants) a timeout is taken for none, or no abort is sent.
RaisedOnlyOnError == holder = "error"
Raised == holder \in {"error", "timeout"}

RaiseWithoutAbort == Goto("raise", 0)
StartRaise == Goto("abortRaise", AbortTimeout)

\* done_event is set: leave the loop with the reply, or go on to re-raise.
\* The None of an empty result_holder would be returned like a reply.
WorkerFinished ==
  /\ pc = "wait" /\ done
  /\ IF Raised
       THEN StartRaise /\ verdict' = verdict
       ELSE Goto("returned", 0) /\ verdict' = "reply"
  /\ UNCHANGED <<now, status, lastSnap, lastCheck, cause, worker, abort, post,
                 server>>

\* get_session_status succeeds: a snapshot that will be used after three more
\* reads.
StatusRead ==
  /\ pc = "status"
  /\ status' = [type |-> turn, next |-> next]
  /\ Goto("log", 0)
  /\ UNCHANGED <<now, lastSnap, lastCheck, cause, verdict, worker, abort,
                 post, server>>

\* get_session_status fails: `continue`, which skips every other check;
\* (mutant) it is tried again without a look at done_event.
StatusFailsAgain ==
  /\ pc = "status"
  /\ Goto("status", GetTimeout)
  /\ UNCHANGED <<now, status, lastSnap, lastCheck, cause, verdict, worker,
                 abort, post, server>>
StatusFails ==
  /\ pc = "status"
  /\ Goto("wait", 1)
  /\ UNCHANGED <<now, status, lastSnap, lastCheck, cause, verdict, worker,
                 abort, post, server>>

\* _check_session_log_error and _classify_log_error.
CheckLog ==
  /\ pc = "log"
  /\ \E line \in LogReadings :
       IF Fatal(line)
         THEN Goto("abort", AbortTimeout) /\ cause' = "server_log_error"
         ELSE Goto("loopcheck", GetTimeout) /\ cause' = cause
  /\ UNCHANGED <<now, status, lastSnap, lastCheck, verdict, worker, abort,
                 post, server>>

\* session_progress and _unproductive_loop, when the interval has passed; the
\* snapshot is {} when the GET fails.
CheckLoop ==
  /\ pc = "loopcheck" /\ now - lastCheck >= CheckInterval
  /\ \E snap \in {activity, NoSnap} :
       IF UnproductiveLoop(lastSnap, snap)
         THEN /\ Goto("abort", AbortTimeout)
              /\ cause' = "unproductive_loop"
              /\ UNCHANGED <<lastSnap, lastCheck>>
         ELSE /\ Goto("heartbeat", HeartbeatTimeout)
              /\ cause' = cause
              /\ lastSnap' = snap /\ lastCheck' = now
  /\ UNCHANGED <<now, status, verdict, worker, abort, post, server>>

SkipLoopCheck ==
  /\ pc = "loopcheck" /\ now - lastCheck < CheckInterval
  /\ Goto("heartbeat", HeartbeatTimeout)
  /\ UNCHANGED <<now, status, lastSnap, lastCheck, cause, verdict, worker,
                 abort, post, server>>

\* The event of a changed status, or the heartbeat with its session_progress:
\* they only report, but the read takes time.
Heartbeat ==
  /\ pc = "heartbeat"
  /\ Goto("quota", 0)
  /\ UNCHANGED <<now, status, lastSnap, lastCheck, cause, verdict, worker,
                 abort, post, server>>

\* Is the retry too far off to be waited for?  (mutant) every retry is.
AnyRetry(wait) == wait > 0
TooFar(wait) == wait > QuotaThreshold

\* The status snapshot of this poll against the clock of this moment; it is not
\* looked at again when the poll ends here.
CheckQuota ==
  /\ pc = "quota"
  /\ IF status.type = "retry" /\ TooFar(status.next - now)
       THEN Goto("abort", AbortTimeout) /\ cause' = "quota" /\ status' = status
       ELSE Goto("wait", 1) /\ cause' = cause /\ status' = NoStatus
  /\ UNCHANGED <<now, lastSnap, lastCheck, verdict, worker, abort,
                 post, server>>

\* abort_session, on the way to a give-up or to a re-raise.  The server stops
\* the turn it is running; an abort that finds no turn changes nothing, also
\* when the POST it was meant for is still on its way.
AfterAbort == IF pc = "abort" THEN Goto("unwind", 1) ELSE Goto("raise", 0)

AbortDelivered ==
  /\ pc \in {"abort", "abortRaise"}
  /\ AfterAbort
  /\ IF turn \in Running
       THEN turn' = "idle" /\ next' = 0 /\ answer' = "aborted" /\ open' = FALSE
       ELSE UNCHANGED <<turn, next, answer, open>>
  /\ abort' = IF post = "flight" THEN "early" ELSE "delivered"
  /\ UNCHANGED <<now, status, lastSnap, lastCheck, cause, verdict, worker, post,
                 log, activity, announced, hollow>>

AbortFails ==
  /\ pc \in {"abort", "abortRaise"}
  /\ AfterAbort
  /\ abort' = "failed"
  /\ UNCHANGED <<now, status, lastSnap, lastCheck, cause, verdict, worker,
                 post, server>>

\* The "kind" of the quota_info that is returned; (mutant) the status's.
KindFromStatus == status.type
Kind == cause

\* The brief window for the worker to unwind, then the give-up, whatever the
\* worker brought.
Unwind ==
  /\ pc = "unwind" /\ (done \/ now >= due)
  /\ Goto("returned", 0)
  /\ verdict' = Kind
  /\ UNCHANGED <<now, status, lastSnap, lastCheck, cause, worker, abort, post,
                 server>>

\* raise exception_holder["value"].
Reraise ==
  /\ pc = "raise"
  /\ Goto("returned", 0)
  /\ verdict' = "raised"
  /\ UNCHANGED <<now, status, lastSnap, lastCheck, cause, worker, abort, post,
                 server>>

Main ==
  \/ PollDue \/ WorkerFinished \/ StatusRead \/ StatusFails \/ CheckLog
  \/ CheckLoop \/ SkipLoopCheck \/ Heartbeat \/ CheckQuota
  \/ AbortDelivered \/ AbortFails \/ Unwind \/ Reraise

-----------------------------------------------------------------------------
(* The worker thread.                                                      *)

\* send_message returns, or raises: the holder is filled first.
WorkerAnswered ==
  /\ holder = "none" /\ answer # "none"
  /\ holder' = answer
  /\ UNCHANGED <<now, client, done, abort, post, server>>

\* Any failure of the connection, before or after the request got through.
WorkerFails ==
  /\ holder = "none"
  /\ holder' = "error"
  /\ post' \in (IF post = "flight" THEN {"flight", "lost"} ELSE {post})
  /\ UNCHANGED <<now, client, done, abort, server>>

WorkerTimesOut ==
  /\ holder = "none" /\ now >= PostTimeout
  /\ holder' = "timeout"
  /\ UNCHANGED <<now, client, done, abort, post, server>>

\* The `finally` clause: done_event.set(); (mutant) no `finally`.
WorkerDoneOnSuccess ==
  /\ holder = "reply" /\ ~done
  /\ done' = TRUE
  /\ UNCHANGED <<now, client, holder, abort, post, server>>

WorkerDone ==
  /\ holder # "none" /\ ~done
  /\ done' = TRUE
  /\ UNCHANGED <<now, client, holder, abort, post, server>>

Worker == WorkerAnswered \/ WorkerFails \/ WorkerTimesOut \/ WorkerDone

-----------------------------------------------------------------------------
(* The opencode server (external).                                         *)

PostArrives ==
  /\ post = "flight"
  /\ post' = "arrived" /\ turn' = "busy"
  /\ activity' = [activity EXCEPT !.messages = @ + 1]
  /\ UNCHANGED <<now, client, worker, abort, next, answer, log, open,
                 announced, hollow>>

\* The provider refuses; opencode's own retry announces its next attempt.
StartRetry ==
  /\ turn = "busy"
  /\ turn' = "retry"
  /\ \E wait \in RetryWaits :
       /\ next' = now + wait
       /\ announced' = IF wait > announced THEN wait ELSE announced
  /\ UNCHANGED <<now, client, worker, abort, post, answer, log, activity,
                 open, hollow>>

RetryAgain ==
  /\ turn = "retry" /\ now >= next
  /\ turn' = "busy" /\ next' = 0
  /\ UNCHANGED <<now, client, worker, abort, post, answer, log, activity,
                 open, announced, hollow>>

\* An ERROR line that names the session, from its turn or beside it.
LogError ==
  /\ post = "arrived" /\ Len(log) < MaxLog
  /\ \E line \in LineClasses : log' = Append(log, line)
  /\ UNCHANGED <<now, client, worker, abort, post, turn, next, answer,
                 activity, open, announced, hollow>>

\* The message list shows a message from the moment it is begun, and what it
\* carries once it is there.
BeginMessage ==
  /\ turn = "busy" /\ ~open /\ activity.messages < MaxMessages
  /\ open' = TRUE
  /\ activity' = [activity EXCEPT !.messages = @ + 1]
  /\ UNCHANGED <<now, client, worker, abort, post, turn, next, answer, log,
                 announced, hollow>>

EndMessage ==
  /\ turn = "busy" /\ open
  /\ open' = FALSE
  /\ \E unknown, content \in {0, 1} :
       /\ activity' = [activity EXCEPT !.unknown = @ + unknown,
                                       !.content = @ + content]
       /\ hollow' = (hollow \/ content = 0)
  /\ UNCHANGED <<now, client, worker, abort, post, turn, next, answer, log,
                 announced>>

\* The turn ends, with a message or with an HTTP error.
FinishTurn ==
  /\ turn = "busy"
  /\ turn' = "idle" /\ open' = FALSE
  /\ answer' \in {"reply", "error"}
  /\ UNCHANGED <<now, client, worker, abort, post, next, log, activity,
                 announced, hollow>>

Server ==
  \/ PostArrives \/ StartRetry \/ RetryAgain \/ LogError
  \/ BeginMessage \/ EndMessage \/ FinishTurn

-----------------------------------------------------------------------------
(* The clock, which the main thread's step and the POST's socket bound.    *)

WorkerPending == ~done /\ (holder # "none" \/ now >= PostTimeout)
WaitOver      == pc \in {"wait", "unwind"} /\ done

Tick ==
  /\ pc # "returned" /\ now < due
  /\ ~WorkerPending /\ ~WaitOver
  /\ now' = now + 1
  /\ UNCHANGED <<client, worker, abort, post, server>>

Next == Main \/ Worker \/ Server \/ Tick

\* Both threads are scheduled and time passes; the server owes nothing.
Fairness ==
  /\ WF_vars(Main)
  /\ WF_vars(WorkerTimesOut)
  /\ WF_vars(WorkerDone)
  /\ WF_vars(Tick)

Spec == Init /\ [][Next]_vars /\ Fairness

-----------------------------------------------------------------------------
(* Properties.                                                             *)

\* "Best-effort abort so this session isn't left orphaned": once the call is
\* over, the server goes on working for it only when the abort request itself
\* failed, or overtook the POST it was meant to stop.
NoOrphanedTurn ==
  pc = "returned" /\ turn \in Running => abort \in {"failed", "early"}

\* A wait is given up for quota when opencode's own retry "has stalled beyond a
\* reasonable wait".  The status this rests on is several requests old, and yet,
\* until the abort is delivered, the server is in that very retry, and further
\* from its next attempt than the threshold less the abort's time.  Of the other
\* give-ups this says nothing: an ERROR line that an earlier turn has left ends
\* the wait whatever retry is under way.
QuotaNeverStale ==
  pc = "abort" /\ cause = "quota" =>
    turn = "retry" /\ next - now > QuotaThreshold - AbortTimeout

\* However the server behaves, the caller is held no longer than the POST's
\* own timeout, the reads of the poll under way, the abort and one poll
\* interval.
BoundedReturn ==
  pc # "returned" =>
    now <= PostTimeout + 2 * GetTimeout + HeartbeatTimeout + AbortTimeout + 1

\* The contract run_category relies on: see SendContract.
Contract == INSTANCE SendContract
              WITH result <- holder, aborted <- (abort # "none")

ImplementsContract == Contract!Spec

\* The call always comes back, also from a server that never answers.
SendReturns == <>(pc = "returned")

\* The docstring of _unproductive_loop: "a model that is genuinely answering
\* is never caught however it reports finish".  A turn caught so has ended a
\* message with nothing in it.
AnsweringNeverCaught == cause = "unproductive_loop" => hollow

\* test_quota_aware_retry.py: "abort must never fire for an under-threshold
\* retry".  It does when the socket timeout of the POST ends the wait.
ShortRetryNotAborted ==
  [][abort = "none" /\ abort' # "none" /\ turn = "retry" /\ holder = "timeout"
       => announced > QuotaThreshold]_vars

\* The docstring of _ServerLogError: the log is used "DURING the wait".  A
\* read of a log that holds a line of a never-retried class gives up.
FatalLineActedOn ==
  [][pc = "log" /\ pc' # "log" /\ (\E i \in DOMAIN log : log[i] = "fatal")
       => cause' = "server_log_error"]_vars

=============================================================================
