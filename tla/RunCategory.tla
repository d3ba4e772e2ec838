---------------------------- MODULE RunCategory -----------------------------
(***************************************************************************)
(* run_category() of scripts/run_eval_client.py: one category of the test  *)
(* ladder, each tier in a session of its own on the opencode server, with  *)
(* the retry of a timed-out tier, the best-effort aborts, and the signal   *)
(* handler _handle_interrupt() that may break in between any two steps.    *)
(*                                                                         *)
(* The two messages of a tier go through quota_aware_send_message(), which *)
(* appears here by its contract (module SendContract): a reply from a      *)
(* session left alone, or a give-up or an exception after an abort was     *)
(* attempted.  The server is external: a session is open from its creation *)
(* until an abort reaches it, and busy while a turn runs in it.            *)
(***************************************************************************)
EXTENDS Integers, Sequences, FiniteSets

CONSTANTS
  Ladder,        \* the tier numbers of the category, in the order they run
  RetryLimit     \* TIER_TIMEOUT_RETRY_LIMIT

ASSUME CategoryAssumption ==
  /\ Ladder \in Seq(Nat \ {0})
  /\ RetryLimit \in Nat

VARIABLES
  pc,         \* the step run_category is at
  pos,        \* which tier of the ladder
  left,       \* timeout_retries_left
  sid,        \* session_id, 0 for None
  exc,        \* the exception being handled
  results,    \* tier_results
  dots,       \* summary_dots
  ceiling,
  current,    \* _CURRENT_RUN_STATE["session_id"], 0 for None
  handler,    \* the signal handler: "off", "abort" or "exit"
  impatient,  \* a second signal came while the handler was cleaning up
  created,    \* how many sessions the server has created
  flight,     \* sessions whose message is on its way to the server
  busy,       \* sessions with a turn running on the server
  opened,     \* sessions no abort has reached
  leaked,     \* sessions whose creation the client never learned of
  tried,      \* history: sessions an abort was attempted for
  unstopped   \* history: sessions whose abort failed or overtook the message

tier    == <<pos, left, sid, exc>>
report  == <<results, dots, ceiling>>
signals == <<current, handler, impatient>>
server  == <<created, flight, busy, opened, leaked>>
aborts  == <<tried, unstopped>>
vars    == <<pc, tier, report, signals, server, aborts>>

-----------------------------------------------------------------------------
(* Data.                                                                   *)

Marks      == {".", "F", "R", "E", "Q"}
Exceptions == {"quota", "log", "timeout", "error"}
Labels     == {"tier", "create", "bind", "setup", "setupWait", "probe",
               "probeWait", "close", "except", "judge", "score", "done"}

\* A tier record: its number, its mark and the session it names.
Records == [tier : Nat, mark : Marks, session : Nat]

Sessions == 1 .. created

\* cvv_scan.py's verdict on the transcript, as scan_transcript hands it over.
Scans == [scanned : BOOLEAN, forbidden : BOOLEAN, missing : BOOLEAN]

\* check_pass: what a scan and the tier's manual_check make of a tier.
CheckPass(scan, manual) ==
  IF ~scan.scanned \/ scan.forbidden \/ scan.missing THEN "F"
  ELSE IF manual THEN "R" ELSE "."

TypeOK ==
  /\ pc \in Labels
  /\ pos \in 1 .. Len(Ladder) + 1
  /\ left \in 0 .. RetryLimit
  /\ created \in Nat
  /\ sid \in 0 .. created
  /\ exc \in Exceptions \cup {"none"}
  /\ results \in Seq(Records)
  /\ dots \in Seq(Marks)
  /\ ceiling \in Nat
  /\ current \in 0 .. created
  /\ handler \in {"off", "abort", "exit"}
  /\ impatient \in BOOLEAN
  /\ flight \subseteq Sessions
  /\ busy \subseteq Sessions
  /\ opened \subseteq Sessions
  /\ leaked \subseteq Sessions
  /\ tried \subseteq Sessions
  /\ unstopped \subseteq Sessions

Init ==
  /\ pc = "tier" /\ pos = 1 /\ left = 0 /\ sid = 0 /\ exc = "none"
  /\ results = <<>> /\ dots = <<>> /\ ceiling = 0
  /\ current = 0 /\ handler = "off" /\ impatient = FALSE
  /\ created = 0
  /\ flight = {} /\ busy = {} /\ opened = {} /\ leaked = {}
  /\ tried = {} /\ unstopped = {}

-----------------------------------------------------------------------------
(* abort_session, which every caller treats as best effort.  An abort      *)
(* stops the turn it finds; a message still on its way starts a turn later.*)

AbortDelivered(s) ==
  /\ opened' = opened \ {s}
  /\ busy' = busy \ {s}
  /\ tried' = tried \cup {s}
  /\ unstopped' = IF s \in flight THEN unstopped \cup {s}
                                  ELSE unstopped \ {s}
  /\ UNCHANGED <<created, flight, leaked>>

AbortFails(s) ==
  /\ tried' = tried \cup {s}
  /\ unstopped' = unstopped \cup {s}
  /\ UNCHANGED server

TryAbort(s) == AbortDelivered(s) \/ AbortFails(s)

-----------------------------------------------------------------------------
(* A tier's session and its two messages.                                  *)

\* The next tier, or the end of the ladder.
BeginTier ==
  /\ pc = "tier"
  /\ IF pos <= Len(Ladder)
       THEN pc' = "create" /\ left' = RetryLimit
       ELSE pc' = "done" /\ left' = left
  /\ sid' = 0 /\ exc' = "none"
  /\ UNCHANGED <<pos, report, signals, server, aborts>>

CreateSession ==
  /\ pc = "create"
  /\ pc' = "bind"
  /\ created' = created + 1
  /\ sid' = created'
  /\ opened' = opened \cup {created'}
  /\ UNCHANGED <<pos, left, exc, report, signals, flight, busy, leaked, aborts>>

\* POST /session fails; when its answer is what got lost, the session exists.
CreateFails ==
  /\ pc = "create"
  /\ pc' = "except"
  /\ exc' \in {"timeout", "error"}
  /\ \/ UNCHANGED <<created, opened, leaked>>
     \/ /\ created' = created + 1
        /\ opened' = opened \cup {created'}
        /\ leaked' = leaked \cup {created'}
  /\ UNCHANGED <<pos, left, sid, report, signals, flight, busy, aborts>>

\* _CURRENT_RUN_STATE["session_id"] = session_id; (mutant) nothing is published.
BindLate ==
  /\ pc = "bind"
  /\ pc' = "setup"
  /\ UNCHANGED <<tier, report, signals, server, aborts>>
Bind ==
  /\ pc = "bind"
  /\ pc' = "setup"
  /\ current' = sid
  /\ UNCHANGED <<tier, report, handler, impatient, server, aborts>>

\* The worker thread posts the setup message, or the tier's prompt.
Post ==
  /\ pc \in {"setup", "probe"}
  /\ pc' = IF pc = "setup" THEN "setupWait" ELSE "probeWait"
  /\ flight' = flight \cup {sid}
  /\ UNCHANGED <<tier, report, signals, created, busy, opened, leaked, aborts>>

\* The send returns the reply, and extract_reply accepts it.
Reply ==
  /\ pc \in {"setupWait", "probeWait"} /\ sid \notin flight
  /\ pc' = IF pc = "setupWait" THEN "probe" ELSE "close"
  /\ busy' = busy \ {sid}
  /\ UNCHANGED <<tier, report, signals, created, flight, opened, leaked, aborts>>

\* The reply says finish "error": extract_reply raises.  Its text may happen
\* to speak of a timeout.
ErrorReply ==
  /\ pc \in {"setupWait", "probeWait"} /\ sid \notin flight
  /\ pc' = "except"
  /\ exc' \in {"timeout", "error"}
  /\ busy' = busy \ {sid}
  /\ UNCHANGED <<pos, left, sid, report, signals, created, flight, opened,
                 leaked, aborts>>

\* The send gives up or raises, an abort attempted on the way.
SendFails ==
  /\ pc \in {"setupWait", "probeWait"}
  /\ pc' = "except"
  /\ exc' \in Exceptions
  /\ TryAbort(sid)
  /\ UNCHANGED <<pos, left, sid, report, signals>>

\* Both replies are in: the session is closed whatever the scan will say;
\* (mutant) it is only forgotten.
CloseKept ==
  /\ pc = "close"
  /\ pc' = "score"
  /\ current' = 0
  /\ UNCHANGED <<tier, report, handler, impatient, server, aborts>>
Close ==
  /\ pc = "close"
  /\ pc' = "score"
  /\ TryAbort(sid)
  /\ current' = 0
  /\ UNCHANGED <<tier, report, handler, impatient>>

-----------------------------------------------------------------------------
(* The verdict on a tier.                                                  *)

Append1(mark, session) ==
  /\ results' = Append(results, [tier |-> Ladder[pos], mark |-> mark,
                                 session |-> session])
  /\ dots' = Append(dots, mark)

\* except _QuotaExhausted / except _ServerLogError: no second try, and no
\* abort beyond the one of the send.
GiveUpTier ==
  /\ pc = "except" /\ exc \in {"quota", "log"}
  /\ pc' = "done"
  /\ IF exc = "quota" THEN Append1("Q", sid) ELSE Append1("E", 0)
  /\ UNCHANGED <<tier, ceiling, signals, server, aborts>>

\* except RuntimeError: abort whatever session there is.
CleanUp ==
  /\ pc = "except" /\ exc \in {"timeout", "error"}
  /\ pc' = "judge"
  /\ IF sid # 0
       THEN TryAbort(sid) /\ current' = 0
       ELSE UNCHANGED <<server, aborts, current>>
  /\ UNCHANGED <<tier, report, handler, impatient>>

\* A timeout is tried again in a fresh session while retries are left; (mutants)
\* the count is not looked at, or not taken down.
MayRetryEver == exc = "timeout"
MayRetry     == exc = "timeout" /\ left > 0
LeftUnspent  == left
LeftAfter    == left - 1

\* (mutants) The session is kept, or its try recorded, or the count forgotten
RetryInSession ==
  /\ pc = "judge" /\ MayRetry
  /\ pc' = IF sid = 0 THEN "create" ELSE "setup"
  /\ left' = LeftAfter
  /\ UNCHANGED <<pos, sid, exc, report, signals, server, aborts>>
RetryRecorded ==
  /\ pc = "judge" /\ MayRetry
  /\ pc' = "create"
  /\ left' = LeftAfter /\ sid' = 0
  /\ Append1("E", 0)
  /\ UNCHANGED <<pos, exc, ceiling, signals, server, aborts>>
RetryForever ==
  /\ pc = "judge" /\ MayRetry
  /\ pc' = IF sid = 0 THEN "done" ELSE "setup"
  /\ UNCHANGED <<tier, report, signals, server, aborts>>
RetryTier ==
  /\ pc = "judge" /\ MayRetry
  /\ pc' = "create"
  /\ left' = LeftAfter
  /\ sid' = 0
  /\ UNCHANGED <<pos, exc, report, signals, server, aborts>>

FailTier ==
  /\ pc = "judge" /\ ~MayRetry
  /\ pc' = "done"
  /\ Append1("E", 0)
  /\ UNCHANGED <<tier, ceiling, signals, server, aborts>>

\* The transcript is scanned and scored; only a pass goes on to the next tier;
\* (mutant) so does a tier for review.
GoesOnReviewed(mark) == mark \in {".", "R"}
GoesOn(mark) == mark = "."

ScoreTier ==
  /\ pc = "score"
  /\ \E scan \in Scans, manual \in BOOLEAN :
       LET mark == CheckPass(scan, manual) IN
       /\ Append1(mark, sid)
       /\ IF GoesOn(mark)
            THEN pc' = "tier" /\ pos' = pos + 1 /\ ceiling' = Ladder[pos]
            ELSE pc' = "done" /\ UNCHANGED <<pos, ceiling>>
  /\ UNCHANGED <<left, sid, exc, signals, server, aborts>>

Category ==
  \/ BeginTier \/ CreateSession \/ CreateFails \/ Bind \/ Post
  \/ Reply \/ ErrorReply \/ SendFails \/ Close
  \/ GiveUpTier \/ CleanUp \/ RetryTier \/ FailTier \/ ScoreTier

-----------------------------------------------------------------------------
(* _handle_interrupt, run by the main thread between two of its steps.     *)

Signal ==
  /\ handler = "off"
  /\ handler' = IF current # 0 THEN "abort" ELSE "exit"
  /\ UNCHANGED <<pc, tier, report, current, impatient, server, aborts>>

HandlerAbort ==
  /\ handler = "abort"
  /\ handler' = "exit"
  /\ TryAbort(current)
  /\ UNCHANGED <<pc, tier, report, current, impatient>>

\* The re-entrancy guard: a second signal exits at once.
SecondSignal ==
  /\ handler = "abort"
  /\ handler' = "exit" /\ impatient' = TRUE
  /\ UNCHANGED <<pc, tier, report, current, server, aborts>>

-----------------------------------------------------------------------------
(* The opencode server (external).                                         *)

Receive(s) ==
  /\ s \in flight
  /\ flight' = flight \ {s}
  /\ busy' = busy \cup {s}
  /\ opened' = opened \cup {s}
  /\ UNCHANGED <<pc, tier, report, signals, created, leaked, aborts>>

Finish(s) ==
  /\ s \in busy
  /\ busy' = busy \ {s}
  /\ UNCHANGED <<pc, tier, report, signals, created, flight, opened, leaked, aborts>>

Step == handler = "off" /\ Category

Server == \E s \in Sessions : Receive(s) \/ Finish(s)

Next == Step \/ Signal \/ HandlerAbort \/ SecondSignal \/ Server

\* The client's own steps are scheduled; every send returns (SendMessage).
Fairness == WF_vars(Step) /\ WF_vars(HandlerAbort)

Spec == Init /\ [][Next]_vars /\ Fairness

-----------------------------------------------------------------------------
(* Properties.                                                             *)

\* The report is the story of the tiers: one entry a tier however often it
\* was retried, in the ladder's order, each with its dot, every entry but the
\* last a pass, and the ceiling the last tier passed.  A reader of the grid
\* (main(), "Progress grid") relies on all of it.
EntriesMatch ==
  /\ Len(results) = Len(dots)
  /\ \A i \in 1 .. Len(results) : /\ i <= Len(Ladder)
                               /\ results[i].tier = Ladder[i]
                               /\ results[i].mark = dots[i]
OnlyLastFails == \A i \in 1 .. Len(dots) : i < Len(dots) => dots[i] = "."
PassedTiers   == {i \in 1 .. Len(dots) : dots[i] = "."}
CeilingEarned ==
  /\ PassedTiers = {} => ceiling = 0
  /\ \A i \in PassedTiers : (\A j \in PassedTiers : j <= i) => ceiling = Ladder[i]
ReportConsistent == EntriesMatch /\ OnlyLastFails /\ CeilingEarned

\* No session but the present one is left open or at work, unless the abort
\* sent to it failed or came before its message, or the client never learned
\* its id: a tier that passed, failed, gave up or is retried has closed its
\* own (the comment at "Both round-trips succeeded").
NoRunawaySession == opened \cup busy \cup flight \subseteq {sid} \cup unstopped \cup leaked

\* A category costs at most one session a try, and a tier has RetryLimit + 1
\* tries whatever goes wrong (TIER_TIMEOUT_RETRY_LIMIT).
SessionBudget == created <= pos * (RetryLimit + 1)

\* A message is never posted to a session an abort was sent to, nor to one
\* with a turn running: abort_session's "NEVER just re-POST a new message to
\* the same session while the original might still be processing".
NeverReposts ==
  [][\A s \in flight' \ flight : s \notin tried \cup busy]_vars

\* When the handler ran to its end, no turn it could have stopped goes on: the
\* work that does is in a session whose abort failed or came too early.
InterruptStopsWork ==
  handler = "exit" /\ ~impatient => busy \cup flight \subseteq unstopped

\* The category comes to an end, or the interrupt does.
CategoryEnds == <>(pc = "done" \/ handler = "exit")

\* The tiers go by the ladder's escalation rule: a tier is tried once all the
\* ones before it passed, and the ceiling is the last one passed.
Rule == INSTANCE EscalationRule WITH
          passed <- Cardinality(PassedTiers), over <- (pc = "done")
FollowsEscalationRule == Rule!Spec

=============================================================================
