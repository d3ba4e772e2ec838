-------------------------------- MODULE Stack --------------------------------
(***************************************************************************)
(* The programs that open one session on a server they first have to find: *)
(*   "stage"     tools/pipeline.sh stage_containers, which starts the      *)
(*               stack unless it finds it up, probes it, and stops it      *)
(*   "hand"      scripts/e2e_session_probe.py by hand (stage_client)       *)
(*   "notebook"  `with OpencodeSession(...)` of scripts/harness_notebook   *)
(* Others start and stop servers meanwhile, and open sessions.             *)
(***************************************************************************)
EXTENDS ServerWait

CONSTANTS
  Home,          \* the address the stack is started at
  Hand,          \* the candidates when none is given
  CheckTimeout,  \* --ready-timeout of server_answering
  ReadyTimeout,  \* E2E_READY_TIMEOUT_S
  MaxAsks        \* bound: messages of a notebook's session

ASSUME StackAssumption ==
  /\ Home \in Addresses /\ Hand \in Seq(Addresses)
  /\ {CheckTimeout, ReadyTimeout, MaxAsks} \subseteq Nat

VARIABLES
  program,    \* which of the three runs
  pc,         \* where it is
  startedBy,  \* who started the server at Home
  mistaken,   \* stage: what made it find no server answering, or "no"
  started,    \* stage: started_here
  hasModel,   \* a provider and a model are selected
  rc,         \* the exit code so far
  session,    \* its session: "none", "open", "lost" (its id never came), "gone"
  turn,       \* a turn of that session is running
  asks,       \* notebook: messages still to send
  replied,    \* a reply with text came
  failed,     \* clean-up requests that failed, or were cut by a signal
  recorded,   \* the result written
  signalled   \* SIGINT or SIGTERM came

given  == <<program, hasModel, signalled>>
stage  == <<mistaken, started>>
server == <<srv, startedBy>>
live   == <<session, turn>>
notes  == <<asks, replied, failed, recorded>>
own    == <<given, pc, rc, stage, live, notes>>
vars   == <<own, wait, server>>

Try     == {"create", "send"}             \* main's try clause
Finally == {"abort", "delete", "after"}
Codes   == {0, 1, 2, 130}

TypeOK ==
  /\ WaitTypeOK
  /\ program \in {"stage", "hand", "notebook"}
  /\ pc \in {"begin", "check", "build", "up", "find", "waitup", "model", "write", "down",
             "over", "ended"} \cup Try \cup Finally
  /\ startedBy \in {"nobody", "stage", "others"}
  /\ (srv[Home] = "none") = (startedBy = "nobody")
  /\ started = (mistaken # "no")
  /\ mistaken \in {"no", "absent", "slow", "cut"}
  /\ {started, hasModel, turn, replied, signalled} \subseteq BOOLEAN
  /\ rc \in Codes
  /\ session \in {"none", "open", "lost", "gone"}
  /\ turn => session = "open"
  /\ asks \in 0 .. MaxAsks
  /\ failed \subseteq Finally
  /\ recorded \in {"none", "PASS", "FAIL"}

Init ==
  /\ srv \in [Addresses -> {"none", "slow", "up"}]
  /\ WaitInit
  /\ startedBy = IF srv[Home] = "none" THEN "nobody" ELSE "others"
  /\ program \in {"stage", "hand", "notebook"} /\ pc = "begin"
  /\ mistaken = "no" /\ started = FALSE /\ hasModel \in BOOLEAN /\ rc = 0
  /\ session = "none" /\ turn = FALSE /\ asks = MaxAsks /\ replied = FALSE
  /\ failed = {} /\ recorded = "none" /\ signalled = FALSE

Goto(from, to) == pc = from /\ pc' = to
Keeping(rest)  == UNCHANGED <<given, rest>>

-----------------------------------------------------------------------------
(* Finding the server.                                                     *)

\* server_answering: the probe with --check-only, on the stack's address.
BeginCheck ==
  /\ program = "stage" /\ Goto("begin", "check")
  /\ WaitFor(<<Home>>, CheckTimeout, FALSE)
  /\ Keeping(<<stage, rc, notes, server, live>>)

\* The stage takes the stack for its own if nobody answered; (mutant) always.
EndCheckStarted ==
  /\ pc = "check" /\ waiting \in {"answered", "gaveup"}
  /\ waiting' = "off"
  /\ started' = TRUE
  /\ IF waiting = "gaveup" THEN pc' = "build" /\ mistaken' = heard
                           ELSE pc' = "find" /\ UNCHANGED mistaken
  /\ UNCHANGED <<candidates, at, limit, expect, elapsed, heard>>
  /\ Keeping(<<rc, notes, server, live>>)
EndCheck ==
  /\ pc = "check" /\ waiting \in {"answered", "gaveup"}
  /\ waiting' = "off"
  /\ started' = (waiting = "gaveup")
  /\ IF waiting = "gaveup" THEN pc' = "build" /\ mistaken' = heard
                           ELSE pc' = "find" /\ UNCHANGED mistaken
  /\ UNCHANGED <<candidates, at, limit, expect, elapsed, heard>>
  /\ Keeping(<<rc, notes, server, live>>)

Build ==
  /\ pc = "build"
  /\ \/ pc' = "up" /\ UNCHANGED rc
     \/ pc' = "ended" /\ rc' = 1
  /\ Keeping(<<stage, notes, wait, server, live>>)

\* `compose up -d server` leaves a running server alone; its failure, with or
\* without a server, ends the stage.
Up ==
  /\ pc = "up"
  /\ \/ pc' = "find" /\ UNCHANGED rc
     \/ pc' = "ended" /\ rc' = 1
  /\ \/ /\ srv[Home] = "none"
        /\ srv' = [srv EXCEPT ![Home] = "starting"] /\ startedBy' = "stage"
     \/ (pc' = "ended" \/ srv[Home] # "none") /\ UNCHANGED <<srv, startedBy>>
  /\ Keeping(<<stage, notes, wait, live>>)

\* The probe itself; --require-server is the stage's.
Find ==
  /\ \/ program = "stage" /\ pc = "find" /\ WaitFor(<<Home>>, ReadyTimeout, TRUE)
     \/ program # "stage" /\ pc = "begin" /\ WaitFor(Hand, ReadyTimeout, FALSE)
  /\ pc' = "waitup"
  /\ Keeping(<<stage, rc, notes, server, live>>)

\* No server: a failure for who expects one, a skip for who does not; a
\* notebook raises.  (mutant) It is a skip for all.
AbsentSkips == 2
AbsentCode == IF program = "hand" THEN 2 ELSE 1

Found ==
  /\ pc = "waitup" /\ waiting \in {"answered", "gaveup"}
  /\ waiting' = "off"
  /\ IF waiting = "answered" THEN pc' = "model" /\ UNCHANGED rc
                             ELSE pc' = "over" /\ rc' = AbsentCode
  /\ UNCHANGED <<candidates, at, limit, expect, elapsed, heard>>
  /\ Keeping(<<stage, notes, server, live>>)

\* resolve_model; OpencodeSession refuses to be made without one.
ResolveModel ==
  /\ pc = "model"
  /\ IF hasModel THEN pc' = "create" /\ UNCHANGED rc
                 ELSE pc' = "over" /\ rc' = (IF program = "notebook" THEN 1 ELSE 2)
  /\ Keeping(<<stage, notes, wait, server, live>>)

-----------------------------------------------------------------------------
(* The session.                                                            *)

There == srv[candidates[at]] = "up"

\* What is raised in the try clause: the probe goes to its finally clause,
\* which has nothing to close without a session; a notebook leaves the `with`.
Raised(opened) ==
  IF opened THEN "abort" ELSE IF program = "notebook" THEN "over" ELSE "write"

Create ==
  /\ pc = "create"
  /\ \/ There /\ session' = "open" /\ pc' = "send" /\ UNCHANGED rc
     \/ session' \in {"none", "lost"} /\ pc' = Raised(FALSE) /\ rc' = 1
  /\ Keeping(<<stage, notes, wait, server, turn>>)

\* send_message and extract_reply.  A reply without text fails the probe; what
\* fails or times out leaves the turn to the server.
Asked(text, code) == replied' = text /\ rc' = code
\* An empty reply; (mutant) it is a reply like any other.
EmptyAccepted(earlier) == Asked(earlier, rc)
EmptyReply(earlier) == Asked(earlier, IF program = "notebook" THEN rc ELSE 1)

Send ==
  /\ pc = "send" /\ asks > 0
  /\ \/ /\ There /\ UNCHANGED turn
        /\ Asked(TRUE, rc) \/ EmptyReply(replied)
        /\ IF program = "notebook" THEN pc' \in {"send", "abort"} /\ asks' = asks - 1
                                   ELSE pc' = "abort" /\ UNCHANGED asks
     \/ /\ Asked(replied, 1) /\ turn' \in BOOLEAN
        /\ pc' = "abort" /\ UNCHANGED asks
  /\ Keeping(<<stage, failed, recorded, wait, server, session>>)

LeaveWith ==
  /\ program = "notebook" /\ Goto("send", "abort")
  /\ Keeping(<<stage, rc, notes, wait, server, live>>)

\* abort_session.  Raised in the probe's finally clause it ends the probe; in
\* close() the delete still comes.  (mutant) In both it ends the clean-up.
AbortEnds == "over"
AbortRaised == IF program = "notebook" THEN "delete" ELSE "over"

Abort ==
  /\ pc = "abort"
  /\ \/ pc' = "delete" /\ turn' = FALSE /\ UNCHANGED <<rc, failed>>
     \/ pc' = AbortRaised /\ rc' = 1 /\ failed' = failed \cup {"abort"} /\ UNCHANGED turn
  /\ Keeping(<<stage, asks, replied, recorded, wait, server, session>>)

\* delete_session never raises; the server cancels what runs.
Delete ==
  /\ pc = "delete"
  /\ pc' = IF program = "notebook" THEN "over" ELSE "after"
  /\ \/ session' = "gone" /\ turn' = FALSE /\ UNCHANGED failed
     \/ failed' = failed \cup {"delete"} /\ UNCHANGED <<session, turn>>
  /\ Keeping(<<stage, rc, asks, replied, recorded, wait, server>>)

\* The sessions after, less those before and its own: the new ones of others.
CompareSessions ==
  /\ Goto("after", "write")
  /\ rc' \in {rc, 1}
  /\ Keeping(<<stage, notes, wait, server, live>>)

Write ==
  /\ Goto("write", "over")
  /\ recorded' = IF rc = 0 THEN "PASS" ELSE "FAIL"
  /\ rc' = IF signalled THEN 130 ELSE rc
  /\ Keeping(<<stage, asks, replied, failed, wait, server, live>>)

-----------------------------------------------------------------------------
(* The end of the stage.                                                   *)

Report ==
  /\ pc = "over" /\ pc' = IF program = "stage" THEN "down" ELSE "ended"
  /\ Keeping(<<stage, rc, notes, wait, server, live>>)

\* A skip is no failure.
ExitOf(code) == IF code = 2 THEN 0 ELSE code

\* `compose down`, of what the stage started.
Down ==
  /\ Goto("down", "ended") /\ started
  /\ \/ /\ srv' = [srv EXCEPT ![Home] = "none"] /\ startedBy' = "nobody"
        /\ turn' = FALSE /\ rc' = ExitOf(rc)
     \/ rc' = 1 /\ UNCHANGED <<server, turn>>
  /\ Keeping(<<stage, notes, wait, session>>)

LeaveUp ==
  /\ Goto("down", "ended") /\ ~started
  /\ rc' = ExitOf(rc)
  /\ Keeping(<<stage, notes, wait, server, live>>)

-----------------------------------------------------------------------------
(* Signals and the others.                                                 *)

\* The handler of run_eval_client, imported with it, knows of no run: it exits.
\* `except Exception` does not see that, the finally clauses do.  The shell of
\* the stage goes on, as its child was not killed but exited.
Interrupt ==
  /\ ~signalled /\ signalled' = TRUE
  /\ \/ /\ pc \in Try
        /\ pc' = Raised(session = "open")
        /\ rc' = (IF program = "notebook" THEN 130 ELSE rc)
        /\ turn' = (pc = "send")
        /\ UNCHANGED <<waiting, stage, failed>>
     \/ /\ pc \in Finally
        /\ pc' = (IF pc = "abort" THEN AbortRaised ELSE "over")
        /\ rc' = 130 /\ failed' = failed \cup {pc}
        /\ UNCHANGED <<waiting, stage, turn>>
     \/ /\ pc \in {"write", "waitup", "model"}
        /\ pc' = "over" /\ rc' = 130 /\ waiting' = "off"
        /\ UNCHANGED <<stage, turn, failed>>
     \/ /\ pc = "check"
        /\ pc' = "build" /\ started' = TRUE /\ mistaken' = "cut" /\ waiting' = "off"
        /\ UNCHANGED <<rc, turn, failed>>
  /\ UNCHANGED <<program, hasModel, session, asks, replied, recorded, candidates, at, limit,
                 expect, elapsed, heard, server>>

\* entrypoint.sh on its way: discovery, the catalogue, then serve binds.
Boot(c) ==
  /\ \/ srv[c] = "starting" /\ srv' = [srv EXCEPT ![c] = "slow"]
     \/ srv[c] = "slow" /\ srv' = [srv EXCEPT ![c] = "up"]
  /\ UNCHANGED <<own, wait, startedBy>>

OthersUp(c) ==
  /\ srv[c] = "none" /\ srv' = [srv EXCEPT ![c] = "starting"]
  /\ startedBy' = IF c = Home THEN "others" ELSE startedBy
  /\ UNCHANGED <<own, wait>>

\* Somebody stops it, or it dies; its sessions are kept, their turns are not.
OthersDown(c) ==
  /\ srv[c] # "none" /\ srv' = [srv EXCEPT ![c] = "none"]
  /\ startedBy' = IF c = Home THEN "nobody" ELSE startedBy
  /\ turn' = (turn /\ candidates[at] # c)
  /\ UNCHANGED <<given, pc, rc, stage, session, notes, wait>>

Waits == pc \in {"check", "waitup"} /\ WaitStep /\ UNCHANGED <<own, startedBy>>

ProgramStep ==
  \/ BeginCheck \/ EndCheck \/ Build \/ Up \/ Find \/ Waits \/ Found \/ ResolveModel
  \/ Create \/ Send \/ LeaveWith \/ Abort \/ Delete \/ CompareSessions \/ Write
  \/ Report \/ Down \/ LeaveUp

Next ==
  \/ ProgramStep \/ Interrupt
  \/ \E c \in Addresses : Boot(c) \/ OthersUp(c) \/ OthersDown(c)

\* The program is scheduled, and each of its requests has a timeout.
Spec == Init /\ [][Next]_vars /\ WF_vars(ProgramStep)

-----------------------------------------------------------------------------
(* Properties.                                                             *)

\* wait_for_server: who has just started a server is not told that there is
\* none before the time is over, nor is anybody while a server is coming up;
\* and nobody waits much longer than told.
GivesUp == waiting' = "gaveup" /\ waiting # "gaveup"
WaitKeepsItsWord ==
  [][/\ GivesUp /\ (expect \/ waiting = "long") => elapsed' >= limit
     /\ elapsed' < limit + BindPoll + SweepTimeout]_vars

\* A stage that ends well found a server that answered, and leaves none of its
\* own behind, whoever else started or stopped servers meanwhile.
StageTellsTheTruth ==
  program = "stage" /\ pc = "ended" /\ rc = 0 =>
    /\ replied \/ ~hasModel
    /\ startedBy # "stage"

\* Nobody ends with a session left open, or a turn running in it, unless the
\* delete failed or was cut, or, in the probe, the abort before it.
SessionClosed ==
  pc = "ended" /\ session = "open" =>
    \/ "delete" \in failed
    \/ "abort" \in failed /\ program # "notebook"

\* The result file says PASS of a probe that had a reply, or was interrupted:
\* rc is still 0 when the handler's SystemExit runs through the finally clause.
PassMeansReply == recorded = "PASS" => replied \/ signalled

\* Whatever the server does, the program ends.
ProgramEnds == <>(pc = "ended")

\* The comment of stage_containers: "A stack that was already up is left alone
\* ... Tearing down a server someone else started, as a side effect of a check, is
\* not this stage's business".  Here it was listening when the stage looked, and
\* still starting when the look was over.
UpStackLeftAlone ==
  [][mistaken = "slow" /\ ~signalled /\ startedBy = "others" /\ pc = "down" /\ pc' = "ended"
       => srv'[Home] # "none"]_vars

=============================================================================
