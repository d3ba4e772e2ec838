----------------------------- MODULE StackProofs -----------------------------
(***************************************************************************)
(* What Stack promises of one session on a server that had to be found:    *)
(* for all addresses, waiting times and numbers of messages.               *)
(***************************************************************************)
EXTENDS Stack, TLAPS

USE DEF Goto, Keeping, given, stage, server, live, notes, own, wait, vars,
        Try, Finally, Codes

\* Where a wait is, and how long it may have taken to get there.
Timed ==
  /\ elapsed < limit + BindPoll + SweepTimeout
  /\ waiting = "sweep" => elapsed < limit + BindPoll
  /\ waiting = "nap" => elapsed < limit

\* The stage's look at its own address: it goes by the probes of one wait,
\* the last of which it has in `heard`.
Looked ==
  pc = "check" =>
    /\ candidates = <<Home>> /\ ~expect
    /\ waiting \in {"sweep", "long", "answered", "gaveup"}
    /\ waiting = "sweep" /\ at # 1 => heard = "absent"
    /\ waiting = "long" => heard \in {"slow", "absent"}
    /\ waiting = "gaveup" => heard \in {"slow", "absent"}

\* What the stage takes for its own, and what is.
Owner ==
  /\ pc \in {"begin", "check"} => mistaken = "no" /\ ~started
  /\ pc \in {"begin", "check", "build", "up"} => startedBy # "stage"
  /\ pc \in {"build", "up"} => started
  /\ startedBy = "stage" => started
  /\ pc \in {"check", "build", "up", "find", "down"} => program = "stage"

\* A session is open from its creation to its deletion, or for a reason.
BeforeSession == {"begin", "check", "build", "up", "find", "waitup", "model", "create"}
Sess ==
  /\ pc \in BeforeSession => session = "none"
  /\ pc = "send" => session = "open"
  /\ session = "open" =>
       \/ pc \in {"send", "abort", "delete"}
       \/ "delete" \in failed
       \/ "abort" \in failed /\ program # "notebook"

\* An exit code of 0 is for a reply, and of 2 for what the caller lacks.
Earned ==
  /\ program = "notebook" => pc \notin {"after", "write"}
  /\ program # "notebook" /\ pc \in Finally \cup {"write"} /\ rc = 0 => replied \/ signalled
  /\ rc = 2 => ~hasModel \/ program = "hand"
  /\ program = "stage" /\ pc \in {"over", "down"} /\ rc = 0 => replied

IInv == /\ TypeOK /\ Timed /\ Looked /\ Owner /\ Sess /\ Earned
        /\ PassMeansReply /\ StageTellsTheTruth

LEMMA InitIInv == Init => IInv
  <1> SUFFICES ASSUME Init PROVE IInv
    OBVIOUS
  <1> USE WaitAssumption, StackAssumption DEF Init, WaitInit
  <1>1. TypeOK
    <2>1. srv \in [Addresses -> States]
      BY DEF States
    <2>2. candidates \in Seq(Addresses) /\ at \in 1 .. Len(candidates) + 1
      OBVIOUS
    <2>3. WaitTypeOK
      BY <2>1, <2>2 DEF WaitTypeOK
    <2>4. (srv[Home] = "none") = (startedBy = "nobody")
      OBVIOUS
    <2>5. started = (mistaken # "no") /\ (turn => session = "open")
      OBVIOUS
    <2>6. {started, hasModel, turn, replied, signalled} \subseteq BOOLEAN
      OBVIOUS
    <2>7. asks \in 0 .. MaxAsks
      OBVIOUS
    <2> QED
      BY <2>3, <2>4, <2>5, <2>6, <2>7 DEF TypeOK
  <1>2. Timed /\ Looked /\ Owner /\ Sess /\ Earned
    BY DEF Timed, Looked, Owner, Sess, BeforeSession, Earned
  <1>3. PassMeansReply /\ StageTellsTheTruth
    BY DEF PassMeansReply, StageTellsTheTruth
  <1> QED
    BY <1>1, <1>2, <1>3 DEF IInv

-----------------------------------------------------------------------------
(* The wait.                                                               *)

\* wait_for_server keeps to its time, whoever called it.
LEMMA WaitTimed ==
  ASSUME WaitTypeOK, Timed, WaitStep
  PROVE  WaitTypeOK' /\ Timed'
  <1> USE WaitAssumption DEF WaitTypeOK, Timed, After, Settle, Probe, States
  <1>1. CASE SweepProbe
    BY <1>1 DEF SweepProbe
  <1>2. CASE SweepOver
    BY <1>2 DEF SweepOver
  <1>3. CASE Nap
    BY <1>3 DEF Nap
  <1>4. CASE LongProbe
    BY <1>4 DEF LongProbe
  <1>5. CASE LongOver
    BY <1>5 DEF LongOver
  <1> QED
    BY <1>1, <1>2, <1>3, <1>4, <1>5 DEF WaitStep

LEMMA WaitLooked ==
  ASSUME TypeOK, Looked, WaitStep, pc' = pc, mistaken' = mistaken
  PROVE  Looked'
  <1> USE WaitAssumption DEF TypeOK, WaitTypeOK, Looked, After, Settle, Probe, States
  <1>1. CASE SweepProbe
    BY <1>1 DEF SweepProbe
  <1>2. CASE SweepOver
    <2>1. at > Len(candidates) /\ waiting = "sweep" /\ heard' = heard
      BY <1>2 DEF SweepOver
    <2>2. pc = "check" => heard = "absent" /\ waiting' = "gaveup"
      <3>1. SUFFICES ASSUME pc = "check" PROVE heard = "absent" /\ waiting' = "gaveup"
        OBVIOUS
      <3>2. candidates = <<Home>> /\ Len(<<Home>>) = 1
        BY <3>1
      <3>3. at # 1
        BY <2>1, <3>2
      <3> QED
        BY <1>2, <2>1, <3>1, <3>3 DEF SweepOver
    <2> QED
      BY <1>2, <2>1, <2>2 DEF SweepOver
  <1>3. CASE Nap
    BY <1>3 DEF Nap
  <1>4. CASE LongProbe
    BY <1>4 DEF LongProbe
  <1>5. CASE LongOver
    BY <1>5 DEF LongOver
  <1> QED
    BY <1>1, <1>2, <1>3, <1>4, <1>5 DEF WaitStep

-----------------------------------------------------------------------------
(* The program, the signals and the others.                                *)

\* The parts of the invariant, one lemma for each: first the types.
LEMMA StepType == ASSUME IInv, [Next]_vars PROVE TypeOK'
  <1> USE WaitAssumption, StackAssumption DEF IInv, TypeOK, WaitTypeOK
  <1>1. CASE UNCHANGED vars
    BY <1>1
  <1>2. CASE BeginCheck
    <2>1. <<Home>> \in Seq(Addresses) /\ 1 \in 1 .. Len(<<Home>>) + 1
      OBVIOUS
    <2> QED
      BY <1>2, <2>1 DEF BeginCheck, WaitFor
  <1>3. CASE EndCheck
    BY <1>3 DEF EndCheck, Looked, Owner
  <1>4. CASE Build
    BY <1>4 DEF Build
  <1>5. CASE Up
    BY <1>5 DEF Up, States
  <1>6. CASE Find
    <2>1. <<Home>> \in Seq(Addresses) /\ 1 \in 1 .. Len(<<Home>>) + 1
      OBVIOUS
    <2>2. Hand \in Seq(Addresses) /\ 1 \in 1 .. Len(Hand) + 1
      OBVIOUS
    <2>3. PICK tried \in {<<Home>>, Hand}, expected \in BOOLEAN :
            WaitFor(tried, ReadyTimeout, expected)
      BY <1>6 DEF Find
    <2>4. WaitTypeOK'
      BY <1>6, <2>1, <2>2, <2>3 DEF WaitFor, Find
    <2> QED
      BY <1>6, <2>4 DEF Find
  <1>7. CASE Waits
    <2>1. WaitTypeOK'
      BY <1>7, WaitTimed DEF Waits
    <2>2. srv' = srv
      BY <1>7 DEF Waits, WaitStep, SweepProbe, SweepOver, Nap, LongProbe, LongOver
    <2> QED
      BY <1>7, <2>1, <2>2 DEF Waits
  <1>8. CASE Found
    BY <1>8 DEF Found, AbsentCode
  <1>9. CASE ResolveModel
    BY <1>9 DEF ResolveModel
  <1>10. CASE Create
    BY <1>10 DEF Create, Raised, Sess, BeforeSession
  <1>11. CASE Send
    <2>1. asks' \in 0 .. MaxAsks
      <3>1. asks \in 0 .. MaxAsks /\ MaxAsks \in Nat /\ asks > 0
        BY <1>11 DEF Send
      <3>2. asks' \in {asks, asks - 1}
        BY <1>11 DEF Send
      <3> QED
        BY <3>1, <3>2
    <2>2. replied' \in BOOLEAN /\ rc' \in Codes
      BY <1>11 DEF Send, Asked, EmptyReply
    <2>3. turn' \in BOOLEAN /\ session' = "open"
      BY <1>11 DEF Send, Sess
    <2>4. pc' \in {"send", "abort"}
      BY <1>11 DEF Send
    <2> QED
      BY <1>11, <2>1, <2>2, <2>3, <2>4 DEF Send
  <1>12. CASE LeaveWith
    BY <1>12 DEF LeaveWith
  <1>13. CASE Abort
    <2>1. failed' \subseteq Finally
      BY <1>13 DEF Abort
    <2>2. pc' \in {"delete", "over"} /\ rc' \in Codes
      BY <1>13 DEF Abort, AbortRaised
    <2>3. turn' \in BOOLEAN /\ (turn' => session' = "open")
      BY <1>13 DEF Abort
    <2> QED
      BY <1>13, <2>1, <2>2, <2>3 DEF Abort
  <1>14. CASE Delete
    <2>1. failed' \subseteq Finally /\ pc' \in {"over", "after"}
      BY <1>14 DEF Delete
    <2>2. turn' \in BOOLEAN /\ (turn' => session' = "open")
      BY <1>14 DEF Delete
    <2>3. session' \in {"none", "open", "lost", "gone"}
      BY <1>14 DEF Delete
    <2> QED
      BY <1>14, <2>1, <2>2, <2>3 DEF Delete
  <1>15. CASE CompareSessions
    BY <1>15 DEF CompareSessions
  <1>16. CASE Write
    BY <1>16 DEF Write
  <1>17. CASE Report
    BY <1>17 DEF Report
  <1>18. CASE Down
    <2>1. srv' \in [Addresses -> States] /\ startedBy' \in {"nobody", "stage", "others"}
      BY <1>18 DEF Down, States
    <2>2. (srv'[Home] = "none") = (startedBy' = "nobody")
      BY <1>18 DEF Down
    <2>3. turn' \in BOOLEAN /\ (turn' => session' = "open")
      BY <1>18 DEF Down
    <2>4. rc' \in Codes
      BY <1>18 DEF Down, ExitOf
    <2>5. WaitTypeOK' /\ pc' = "ended"
      BY <1>18, <2>1 DEF Down
    <2>6. UNCHANGED <<program, mistaken, started, hasModel, asks, replied, failed, recorded,
                      signalled, session>>
      BY <1>18 DEF Down
    <2> QED
      BY <2>1, <2>2, <2>3, <2>4, <2>5, <2>6
  <1>19. CASE LeaveUp
    BY <1>19 DEF LeaveUp, ExitOf
  <1>20. CASE Interrupt
    <2>1. turn' \in BOOLEAN /\ (turn' => session' = "open") /\ signalled' \in BOOLEAN
      BY <1>20 DEF Interrupt, Sess
    <2>2. started' \in BOOLEAN /\ started' = (mistaken' # "no")
          /\ mistaken' \in {"no", "absent", "slow", "cut"}
      BY <1>20 DEF Interrupt
    <2>3. failed' \subseteq Finally
      BY <1>20 DEF Interrupt
    <2>4. rc' \in Codes
      BY <1>20 DEF Interrupt
    <2>5. pc' \in {"abort", "over", "write", "delete", "build"}
      BY <1>20 DEF Interrupt, Raised, AbortRaised
    <2>6. waiting' \in {waiting, "off"}
      BY <1>20 DEF Interrupt
    <2> QED
      BY <1>20, <2>1, <2>2, <2>3, <2>4, <2>5, <2>6 DEF Interrupt
  <1>21. ASSUME NEW c \in Addresses, Boot(c) PROVE TypeOK'
    BY <1>21 DEF Boot, States
  <1>22. ASSUME NEW c \in Addresses, OthersUp(c) PROVE TypeOK'
    BY <1>22 DEF OthersUp, States
  <1>23. ASSUME NEW c \in Addresses, OthersDown(c) PROVE TypeOK'
    BY <1>23 DEF OthersDown, States
  <1> QED
    BY <1>1, <1>2, <1>3, <1>4, <1>5, <1>6, <1>7, <1>8, <1>9, <1>10, <1>11, <1>12, <1>13,
       <1>14, <1>15, <1>16, <1>17, <1>18, <1>19, <1>20, <1>21, <1>22, <1>23
    DEF Next, ProgramStep

\* Every step is one of these.
LEMMA Steps ==
  ASSUME [Next]_vars
  PROVE  \/ UNCHANGED vars \/ BeginCheck \/ EndCheck \/ Find \/ Waits \/ Found \/ Interrupt
         \/ Build \/ Up \/ ResolveModel \/ Create \/ Send \/ LeaveWith \/ Abort \/ Delete
         \/ CompareSessions \/ Write \/ Report \/ Down \/ LeaveUp
         \/ \E c \in Addresses : Boot(c) \/ OthersUp(c) \/ OthersDown(c)
  BY DEF Next, ProgramStep

\* What is done besides waiting leaves the wait alone.
LEMMA WaitAlone ==
  ASSUME \/ Build \/ Up \/ ResolveModel \/ Create \/ Send \/ LeaveWith \/ Abort \/ Delete
         \/ CompareSessions \/ Write \/ Report \/ Down \/ LeaveUp
         \/ \E c \in Addresses : Boot(c) \/ OthersUp(c) \/ OthersDown(c)
  PROVE  UNCHANGED wait
  BY DEF Build, Up, ResolveModel, Create, Send, LeaveWith, Abort, Delete, CompareSessions,
         Write, Report, Down, LeaveUp, Boot, OthersUp, OthersDown

LEMMA StepTimed == ASSUME IInv, [Next]_vars PROVE Timed'
  <1> USE WaitAssumption, StackAssumption DEF IInv, TypeOK, Timed
  <1>1. CASE UNCHANGED wait
    BY <1>1
  <1>2. CASE BeginCheck \/ Find
    BY <1>2 DEF BeginCheck, Find, WaitFor
  <1>3. CASE EndCheck \/ Found
    BY <1>3 DEF EndCheck, Found
  <1>4. CASE Waits
    BY <1>4, WaitTimed DEF Waits
  <1>5. CASE Interrupt
    BY <1>5 DEF Interrupt
  <1> QED
    BY <1>1, <1>2, <1>3, <1>4, <1>5, Steps, WaitAlone

LEMMA StepLooked == ASSUME IInv, [Next]_vars PROVE Looked'
  <1> USE StackAssumption DEF IInv, Looked
  <1>1. CASE UNCHANGED wait /\ mistaken' = mistaken /\ (pc' = "check" => pc = "check")
    BY <1>1
  <1>2. CASE BeginCheck
    BY <1>2 DEF BeginCheck, WaitFor
  <1>3. CASE Find
    BY <1>3 DEF Find
  <1>4. CASE EndCheck
    BY <1>4 DEF EndCheck
  <1>5. CASE Found
    BY <1>5 DEF Found
  <1>6. CASE Waits
    BY <1>6, WaitLooked DEF Waits
  <1>7. CASE Interrupt
    BY <1>7 DEF Interrupt, Raised, AbortRaised
  <1>8. ASSUME \/ Build \/ Up \/ ResolveModel \/ Create \/ Send \/ LeaveWith \/ Abort \/ Delete
               \/ CompareSessions \/ Write \/ Report \/ Down \/ LeaveUp
               \/ \E c \in Addresses : Boot(c) \/ OthersUp(c) \/ OthersDown(c)
        PROVE  mistaken' = mistaken /\ (pc' = "check" => pc = "check")
    BY <1>8 DEF Build, Up, ResolveModel, Create, Raised, Send, LeaveWith, Abort, AbortRaised,
         Delete, CompareSessions, Write, Report, Down, LeaveUp, Boot, OthersUp, OthersDown
  <1> QED
    BY <1>1, <1>2, <1>3, <1>4, <1>5, <1>6, <1>7, <1>8, Steps, WaitAlone

LEMMA StepOwner == ASSUME IInv, [Next]_vars PROVE Owner'
  <1> USE DEF IInv, Owner
  <1>1. CASE UNCHANGED vars
    BY <1>1
  <1>2. CASE BeginCheck \/ Find
    <2>1. CASE BeginCheck
      BY <2>1 DEF BeginCheck
    <2>2. CASE Find
      BY <2>2 DEF Find
    <2> QED
      BY <1>2, <2>1, <2>2
  <1>3. CASE Found \/ Waits
    BY <1>3 DEF Found, Waits
  <1>4. CASE EndCheck
    BY <1>4 DEF EndCheck
  <1>5. CASE Interrupt
    BY <1>5 DEF Interrupt, Raised, AbortRaised
  <1>6. CASE Build \/ Up
    BY <1>6 DEF Build, Up
  <1>7. CASE ResolveModel \/ Create \/ Send
    BY <1>7 DEF ResolveModel, Create, Raised, Send
  <1>8. CASE LeaveWith \/ Abort \/ Delete \/ CompareSessions \/ Write \/ Report
    BY <1>8 DEF LeaveWith, Abort, AbortRaised, Delete, CompareSessions, Write, Report
  <1>9. CASE Down \/ LeaveUp
    BY <1>9 DEF Down, LeaveUp
  <1>10. ASSUME NEW c \in Addresses, Boot(c) \/ OthersUp(c) \/ OthersDown(c) PROVE Owner'
    BY <1>10 DEF Boot, OthersUp, OthersDown
  <1> QED
    BY <1>1, <1>2, <1>3, <1>4, <1>5, <1>6, <1>7, <1>8, <1>9, <1>10, Steps

LEMMA StepSess == ASSUME IInv, [Next]_vars PROVE Sess'
  <1> USE DEF IInv, Sess, BeforeSession
  <1>1. CASE UNCHANGED vars
    BY <1>1
  <1>2. CASE BeginCheck \/ Find \/ Found \/ Waits \/ EndCheck \/ Build \/ Up \/ ResolveModel
    BY <1>2 DEF BeginCheck, Find, Found, Waits, EndCheck, Build, Up, ResolveModel
  <1>3. CASE Interrupt
    BY <1>3 DEF Interrupt, Raised, AbortRaised
  <1>4. CASE Create
    BY <1>4 DEF Create, Raised
  <1>5. CASE Send \/ LeaveWith
    BY <1>5 DEF Send, LeaveWith
  <1>6. CASE Abort
    BY <1>6 DEF Abort, AbortRaised
  <1>7. CASE Delete
    BY <1>7 DEF Delete
  <1>8. CASE CompareSessions \/ Write \/ Report \/ Down \/ LeaveUp
    BY <1>8 DEF CompareSessions, Write, Report, Down, LeaveUp
  <1>9. ASSUME NEW c \in Addresses, Boot(c) \/ OthersUp(c) \/ OthersDown(c) PROVE Sess'
    BY <1>9 DEF Boot, OthersUp, OthersDown
  <1> QED
    BY <1>1, <1>2, <1>3, <1>4, <1>5, <1>6, <1>7, <1>8, <1>9, Steps

LEMMA StepEarned == ASSUME IInv, [Next]_vars PROVE Earned'
  <1> USE DEF IInv, Earned
  <1>1. CASE UNCHANGED vars
    BY <1>1
  <1>2. CASE BeginCheck \/ Find
    <2>1. CASE BeginCheck
      BY <2>1 DEF BeginCheck
    <2>2. CASE Find
      BY <2>2 DEF Find
    <2> QED
      BY <1>2, <2>1, <2>2
  <1>3. CASE Waits \/ EndCheck
    BY <1>3 DEF Waits, EndCheck
  <1>4. CASE Build \/ Up
    BY <1>4 DEF Build, Up
  <1>5. CASE Found \/ ResolveModel
    BY <1>5 DEF Found, AbsentCode, ResolveModel
  <1>6. CASE Interrupt
    BY <1>6 DEF Interrupt, Raised, AbortRaised, Owner
  <1>7. CASE Create
    BY <1>7 DEF Create, Raised
  <1>8. CASE Send
    BY <1>8 DEF Send, Asked, EmptyReply
  <1>9. CASE LeaveWith \/ Abort \/ Delete \/ CompareSessions
    BY <1>9 DEF LeaveWith, Abort, AbortRaised, Delete, CompareSessions
  <1>10. CASE Write \/ Report \/ Down \/ LeaveUp
    BY <1>10 DEF Write, Report, Down, LeaveUp, ExitOf
  <1>11. ASSUME NEW c \in Addresses, Boot(c) \/ OthersUp(c) \/ OthersDown(c) PROVE Earned'
    BY <1>11 DEF Boot, OthersUp, OthersDown
  <1> QED
    BY <1>1, <1>2, <1>3, <1>4, <1>5, <1>6, <1>7, <1>8, <1>9, <1>10, <1>11, Steps

\* What is written, and how the stage ends.
LEMMA StepResult == ASSUME IInv, [Next]_vars PROVE PassMeansReply' /\ StageTellsTheTruth'
  <1> USE DEF IInv, PassMeansReply, StageTellsTheTruth
  <1>1. CASE UNCHANGED vars
    BY <1>1
  <1>2. CASE Write
    BY <1>2 DEF Write, Earned
  <1>3. CASE Build \/ Up
    BY <1>3 DEF Build, Up, Owner
  <1>4. CASE Send
    BY <1>4 DEF Send, Asked, EmptyReply, Sess, Earned
  <1>5. CASE Interrupt
    BY <1>5 DEF Interrupt, Raised, AbortRaised
  <1>6. CASE Report
    BY <1>6 DEF Report
  <1>7. CASE Down
    BY <1>7 DEF Down, ExitOf, Owner, Earned
  <1>8. CASE LeaveUp
    BY <1>8 DEF LeaveUp, ExitOf, Owner, Earned
  <1>9. ASSUME NEW c \in Addresses, Boot(c) \/ OthersUp(c) \/ OthersDown(c)
        PROVE  PassMeansReply' /\ StageTellsTheTruth'
    BY <1>9 DEF Boot, OthersUp, OthersDown
  <1>10. CASE Waits
    BY <1>10 DEF Waits
  <1>11. ASSUME \/ BeginCheck \/ EndCheck \/ Find \/ Found \/ ResolveModel \/ Create
                \/ LeaveWith \/ Abort \/ Delete \/ CompareSessions
         PROVE  pc' # "ended" /\ UNCHANGED <<recorded, replied, signalled>>
    BY <1>11 DEF BeginCheck, EndCheck, Find, Found, ResolveModel, Create, Raised, LeaveWith,
         Abort, AbortRaised, Delete, CompareSessions
  <1> QED
    BY <1>1, <1>2, <1>3, <1>4, <1>5, <1>6, <1>7, <1>8, <1>9, <1>10, <1>11, Steps

LEMMA NextIInv == IInv /\ [Next]_vars => IInv'
  BY StepType, StepTimed, StepLooked, StepOwner, StepSess, StepEarned, StepResult DEF IInv

LEMMA Invariant == Spec => []IInv
  BY InitIInv, NextIInv, PTL DEF Spec

-----------------------------------------------------------------------------
(* What the runs check.                                                    *)

\* TypeOK: the variables have their types, and what the stage started is on record.
THEOREM TypeCorrect == Spec => []TypeOK
  <1>1. IInv => TypeOK
    BY DEF IInv
  <1> QED
    BY Invariant, <1>1, PTL

\* StageTellsTheTruth: a stage that exits with 0 had a reply, or no model to ask,
\* and has left no server of its own behind, whatever others did to it meanwhile.
THEOREM TheStageTells == Spec => []StageTellsTheTruth
  <1>1. IInv => StageTellsTheTruth
    BY DEF IInv
  <1> QED
    BY Invariant, <1>1, PTL

\* SessionClosed: the finally clause and close() leave a session open only when a
\* request of theirs failed, or a signal cut it.
THEOREM SessionsAreClosed == Spec => []SessionClosed
  <1>1. IInv => SessionClosed
    BY DEF IInv, Sess, SessionClosed
  <1> QED
    BY Invariant, <1>1, PTL

\* PassMeansReply: a result file that says PASS is of a reply, or of a signal.
THEOREM APassIsAReply == Spec => []PassMeansReply
  <1>1. IInv => PassMeansReply
    BY DEF IInv
  <1> QED
    BY Invariant, <1>1, PTL

\* WaitKeepsItsWord: wait_for_server gives an expected or a slow server its whole
\* time, and takes no more than a sweep and a nap beyond it.
THEOREM TheWaitKeepsItsWord == Spec => WaitKeepsItsWord
  <1>1. ASSUME IInv, [Next]_vars, GivesUp, expect \/ waiting = "long"
        PROVE  elapsed' >= limit
    <2>1. WaitStep
      BY <1>1, Steps, WaitAlone DEF GivesUp, BeginCheck, EndCheck, Find, Found, WaitFor, Waits,
         Interrupt, IInv
    <2>2. CASE SweepOver
      BY <1>1, <2>2 DEF GivesUp, SweepOver, Settle, IInv, TypeOK, WaitTypeOK
    <2>3. CASE LongOver
      BY <1>1, <2>3 DEF LongOver
    <2>4. CASE SweepProbe \/ Nap \/ LongProbe
      BY <1>1, <2>4 DEF GivesUp, SweepProbe, Nap, LongProbe, Settle
    <2> QED
      BY <2>1, <2>2, <2>3, <2>4 DEF WaitStep
  <1>2. ASSUME IInv, [Next]_vars, IInv'
        PROVE  elapsed' < limit + BindPoll + SweepTimeout
    <2>1. UNCHANGED limit \/ elapsed' = 0
      BY <1>2, Steps, WaitAlone DEF BeginCheck, EndCheck, Find, Found, WaitFor, Waits, Interrupt,
         WaitStep, SweepProbe, SweepOver, Nap, LongProbe, LongOver, Settle
    <2>2. limit \in Nat /\ 0 < limit + BindPoll + SweepTimeout
      BY <1>2, WaitAssumption DEF IInv, TypeOK, WaitTypeOK
    <2> QED
      BY <1>2, <2>1, <2>2 DEF IInv, Timed
  <1>3. IInv /\ [Next]_vars /\ IInv' =>
          [/\ GivesUp /\ (expect \/ waiting = "long") => elapsed' >= limit
           /\ elapsed' < limit + BindPoll + SweepTimeout]_vars
    BY <1>1, <1>2
  <1> QED
    BY Invariant, <1>3, PTL DEF Spec, WaitKeepsItsWord

=============================================================================
