-------------------------- MODULE SendMessageProofs --------------------------
(***************************************************************************)
(* What SendMessage promises its caller, for all timeouts, thresholds and  *)
(* retries, every earlier state of the session, and a server that may do   *)
(* what it likes.                                                          *)
(***************************************************************************)
EXTENDS SendMessage, TLAPS

USE DEF Goto, client, worker, server, vars, GiveUps, Running

-----------------------------------------------------------------------------
(* Types.                                                                  *)

LEMMA InitTypeOK == Init => TypeOK
  <1> SUFFICES ASSUME Init PROVE TypeOK
    OBVIOUS
  <1>1. log \in Seq(LineClasses) /\ activity \in Snapshots
    BY SendAssumption DEF Init, LineClasses, Snapshots
  <1>2. status \in Statuses /\ lastSnap \in Snapshots
    BY DEF Init, Statuses, NoStatus, Snapshots, NoSnap
  <1> QED
    BY <1>1, <1>2 DEF Init, TypeOK

LEMMA Limits ==
  /\ GetTimeout \in Nat /\ HeartbeatTimeout \in Nat /\ AbortTimeout \in Nat
  /\ PostTimeout \in Nat /\ QuotaThreshold \in Nat
  BY SendAssumption

LEMMA MainTypeOK == ASSUME TypeOK, Main PROVE TypeOK'
  <1> USE Limits DEF TypeOK
  <1>1. CASE PollDue \/ WorkerFinished
    BY <1>1 DEF PollDue, WorkerFinished, StartRaise
  <1>2. CASE StatusRead \/ StatusFails
    BY <1>2 DEF StatusRead, StatusFails, Statuses
  <1>3. CASE CheckLog
    BY <1>3 DEF CheckLog
  <1>4. CASE CheckLoop
    BY <1>4 DEF CheckLoop, Snapshots, NoSnap
  <1>5. CASE SkipLoopCheck \/ Heartbeat
    BY <1>5 DEF SkipLoopCheck, Heartbeat
  <1>6. CASE CheckQuota
    BY <1>6 DEF CheckQuota, Statuses, NoStatus
  <1>7. CASE AbortDelivered
    <2>1. pc' \in {"unwind", "raise"} /\ due' \in Nat
      BY <1>7 DEF AbortDelivered, AfterAbort
    <2>2. abort' \in {"early", "delivered"}
      BY <1>7 DEF AbortDelivered
    <2>3. turn' \in Running \cup {"idle"} /\ next' \in Nat /\ open' \in BOOLEAN
          /\ answer' \in {"none", "reply", "aborted", "error"}
      <3>1. CASE turn \in Running
        <4>1. turn' = "idle" /\ next' = 0 /\ answer' = "aborted" /\ open' = FALSE
          BY <1>7, <3>1 DEF AbortDelivered
        <4> QED
          BY <4>1
      <3>2. CASE turn \notin Running
        BY <1>7, <3>2 DEF AbortDelivered
      <3> QED
        BY <3>1, <3>2
    <2>4. UNCHANGED <<now, status, lastSnap, lastCheck, cause, verdict, worker, post, log,
                      activity, announced, hollow>>
      BY <1>7 DEF AbortDelivered
    <2> QED
      BY <2>1, <2>2, <2>3, <2>4
  <1>8. CASE AbortFails
    BY <1>8 DEF AbortFails, AfterAbort
  <1>9. CASE Unwind \/ Reraise
    BY <1>9 DEF Unwind, Kind, Reraise
  <1> QED
    BY <1>1, <1>2, <1>3, <1>4, <1>5, <1>6, <1>7, <1>8, <1>9 DEF Main

LEMMA ServerTypeOK == ASSUME TypeOK, Server PROVE TypeOK'
  <1>1. UNCHANGED <<now, client, worker, abort>>
    BY DEF Server, PostArrives, StartRetry, RetryAgain, LogError, BeginMessage, EndMessage,
       FinishTurn
  <1>2. post' \in {"flight", "arrived", "lost"} /\ turn' \in Running \cup {"idle"}
        /\ answer' \in {"none", "reply", "aborted", "error"}
    BY DEF TypeOK, Server, PostArrives, StartRetry, RetryAgain, LogError, BeginMessage, EndMessage,
       FinishTurn
  <1>3. next' \in Nat /\ announced' \in Nat
    <2>1. CASE StartRetry
      <3>1. PICK wait \in RetryWaits : /\ next' = now + wait
                                       /\ announced' \in {wait, announced}
        BY <2>1 DEF StartRetry
      <3>2. wait \in Nat /\ now \in Nat /\ announced \in Nat
        BY SendAssumption DEF TypeOK
      <3> QED
        BY <3>1, <3>2
    <2>2. CASE ~StartRetry
      BY <2>2 DEF TypeOK, Server, PostArrives, RetryAgain, LogError, BeginMessage, EndMessage,
         FinishTurn
    <2> QED
      BY <2>1, <2>2
  <1>4. log' \in Seq(LineClasses)
    BY DEF TypeOK, Server, PostArrives, StartRetry, RetryAgain, LogError, BeginMessage, EndMessage,
       FinishTurn
  <1>5. activity' \in Snapshots
    <2>1. activity \in Snapshots
      BY DEF TypeOK
    <2>2. CASE PostArrives \/ BeginMessage
      <3>1. activity' = [activity EXCEPT !.messages = @ + 1]
        BY <2>2 DEF PostArrives, BeginMessage
      <3>2. activity' = [messages |-> activity.messages + 1, unknown |-> activity.unknown,
                         content |-> activity.content]
        BY <2>1, <3>1 DEF Snapshots
      <3> QED
        BY <2>1, <3>2 DEF Snapshots
    <2>3. CASE EndMessage
      <3>1. PICK unknown, content \in {0, 1} :
              activity' = [activity EXCEPT !.unknown = @ + unknown, !.content = @ + content]
        BY <2>3 DEF EndMessage
      <3>2. activity' = [messages |-> activity.messages, unknown |-> activity.unknown + unknown,
                         content |-> activity.content + content]
        BY <2>1, <3>1 DEF Snapshots
      <3> QED
        BY <2>1, <3>2 DEF Snapshots
    <2>4. CASE StartRetry \/ RetryAgain \/ LogError \/ FinishTurn
      BY <2>1, <2>4 DEF StartRetry, RetryAgain, LogError, FinishTurn
    <2> QED
      BY <2>2, <2>3, <2>4 DEF Server
  <1>6. open' \in BOOLEAN /\ hollow' \in BOOLEAN
    BY DEF TypeOK, Server, PostArrives, StartRetry, RetryAgain, LogError, BeginMessage, EndMessage,
       FinishTurn
  <1> QED
    BY <1>1, <1>2, <1>3, <1>4, <1>5, <1>6 DEF TypeOK

LEMMA NextTypeOK == TypeOK /\ [Next]_vars => TypeOK'
  <1> SUFFICES ASSUME TypeOK, [Next]_vars PROVE TypeOK'
    OBVIOUS
  <1>1. CASE UNCHANGED vars
    BY <1>1 DEF TypeOK
  <1>2. CASE Worker
    <2>1. holder' \in {"none", "reply", "aborted", "error", "timeout"} /\ done' \in BOOLEAN
          /\ post' \in {"flight", "arrived", "lost"}
      BY <1>2 DEF TypeOK, Worker, WorkerAnswered, WorkerFails, WorkerTimesOut, WorkerDone
    <2>2. UNCHANGED <<now, client, abort, server>>
      BY <1>2 DEF Worker, WorkerAnswered, WorkerFails, WorkerTimesOut, WorkerDone
    <2> QED
      BY <2>1, <2>2 DEF TypeOK
  <1>3. CASE Tick
    BY <1>3 DEF TypeOK, Tick
  <1> QED
    BY <1>1, <1>2, <1>3, MainTypeOK, ServerTypeOK DEF Next

\* TypeOK: the steps of the polling loop, and what the threads and the server
\* leave each other, stay among those the code knows.
THEOREM TypeCorrect == Spec => []TypeOK
  BY InitTypeOK, NextTypeOK, PTL DEF Spec

-----------------------------------------------------------------------------
(* Where the call is, and what became of its message.                      *)

Polling == {"wait", "status", "log", "loopcheck", "heartbeat", "quota"}

\* The main thread.
Stage ==
  /\ pc \in Polling => cause = "none"
  /\ pc \in Polling \cup {"abort", "abortRaise"} => abort = "none"
  /\ pc \in {"abort", "unwind"} => cause \in GiveUps
  /\ pc \in {"unwind", "raise"} => abort # "none"
  /\ pc \in {"abortRaise", "raise"} => holder \in {"error", "timeout"}
  /\ pc = "returned" => verdict # "none"
  /\ pc # "returned" => verdict = "none"
  /\ pc = "returned" /\ abort = "none" => holder = "reply"

\* The message: a POST that has not arrived has no turn, a turn has no answer
\* yet, and the worker's holder is the answer that was given.
Message ==
  /\ post # "arrived" => turn = "idle" /\ answer = "none"
  /\ answer # "none" => turn = "idle"
  /\ holder \in {"reply", "aborted"} => answer = holder
  /\ answer = "aborted" => abort = "delivered"
  /\ abort = "delivered" => turn = "idle" /\ post # "flight"
  /\ done => holder # "none"

IInv == TypeOK /\ Stage /\ Message

LEMMA MainIInv == ASSUME IInv, Main PROVE Stage' /\ Message'
  <1> USE DEF IInv, TypeOK, Stage, Message, Polling
  <1>1. CASE PollDue \/ StatusRead \/ StatusFails \/ SkipLoopCheck \/ Heartbeat
    BY <1>1 DEF PollDue, StatusRead, StatusFails, SkipLoopCheck, Heartbeat
  <1>2. CASE WorkerFinished
    BY <1>2 DEF WorkerFinished, StartRaise, Raised
  <1>3. CASE CheckLog
    BY <1>3 DEF CheckLog
  <1>4. CASE CheckLoop
    BY <1>4 DEF CheckLoop
  <1>5. CASE CheckQuota
    BY <1>5 DEF CheckQuota
  <1>6. CASE AbortDelivered
    BY <1>6 DEF AbortDelivered, AfterAbort
  <1>7. CASE AbortFails
    BY <1>7 DEF AbortFails, AfterAbort
  <1>8. CASE Unwind
    BY <1>8 DEF Unwind, Kind
  <1>9. CASE Reraise
    BY <1>9 DEF Reraise
  <1> QED
    BY <1>1, <1>2, <1>3, <1>4, <1>5, <1>6, <1>7, <1>8, <1>9 DEF Main

LEMMA NextIInv == IInv /\ [Next]_vars => IInv'
  <1> SUFFICES ASSUME IInv, [Next]_vars PROVE Stage' /\ Message'
    BY NextTypeOK DEF IInv
  <1> USE DEF IInv, TypeOK, Stage, Message, Polling
  <1>1. CASE UNCHANGED vars
    BY <1>1
  <1>2. CASE Worker
    BY <1>2 DEF Worker, WorkerAnswered, WorkerFails, WorkerTimesOut, WorkerDone
  <1>3. CASE Tick
    BY <1>3 DEF Tick
  <1>4. CASE PostArrives \/ StartRetry \/ RetryAgain \/ FinishTurn
    BY <1>4 DEF PostArrives, StartRetry, RetryAgain, FinishTurn
  <1>5. CASE LogError \/ BeginMessage \/ EndMessage
    BY <1>5 DEF LogError, BeginMessage, EndMessage
  <1> QED
    BY <1>1, <1>2, <1>3, <1>4, <1>5, MainIInv DEF Next, Server

LEMMA Invariant == Spec => []IInv
  <1>1. Init => IInv
    BY InitTypeOK DEF Init, IInv, Stage, Message, Polling
  <1> QED
    BY <1>1, NextIInv, PTL DEF Spec

\* NoOrphanedTurn: after the call the server works for it only if the abort
\* failed, or came before the message it was to stop.
THEOREM NoTurnIsOrphaned == Spec => []NoOrphanedTurn
  <1>1. IInv => NoOrphanedTurn
    BY DEF IInv, TypeOK, Stage, Message, NoOrphanedTurn
  <1> QED
    BY Invariant, <1>1, PTL

\* ImplementsContract: whatever the threads and the server do, the caller sees
\* one verdict of the contract, and an abort before every one but a reply.
THEOREM SendKeepsContract == Spec => ImplementsContract
  <1>1. Init => Contract!Init
    BY DEF Init, Contract!Init
  <1>2. ASSUME IInv, [Next]_vars PROVE [Contract!Next]_Contract!vars
    <2> USE DEF IInv, TypeOK, Stage, Message, Polling
    <2>1. CASE WorkerAnswered \/ WorkerFails \/ WorkerTimesOut
      <3>1. /\ holder = "none" /\ holder' \in {"reply", "aborted", "error", "timeout"}
            /\ abort' = abort /\ verdict' = verdict
        BY <1>2, <2>1 DEF WorkerAnswered, WorkerFails, WorkerTimesOut
      <3>2. Contract!PostReturns
        BY <3>1 DEF Contract!PostReturns, Contract!Results
      <3> QED
        BY <3>2 DEF Contract!Next
    <2>2. CASE AbortDelivered \/ AbortFails
      <3>1. abort' # "none" /\ verdict = "none" /\ verdict' = verdict /\ holder' = holder
        BY <1>2, <2>2 DEF AbortDelivered, AbortFails
      <3>2. Contract!TryAbort
        BY <3>1 DEF Contract!TryAbort
      <3> QED
        BY <3>2 DEF Contract!Next
    <2>3. CASE WorkerFinished
      <3>1. holder' = holder /\ abort' = abort /\ abort = "none" /\ verdict = "none"
        BY <1>2, <2>3 DEF WorkerFinished
      <3>2. CASE Raised
        BY <2>3, <3>1, <3>2 DEF WorkerFinished, Contract!vars
      <3>3. CASE ~Raised
        <4>1. holder = "reply" /\ verdict' = "reply"
          BY <1>2, <2>3, <3>1, <3>3 DEF WorkerFinished, Raised
        <4>2. Contract!Return
          BY <3>1, <4>1 DEF Contract!Return
        <4> QED
          BY <4>2 DEF Contract!Next
      <3> QED
        BY <3>2, <3>3
    <2>4. CASE Unwind
      <3>1. /\ holder' = holder /\ abort' = abort /\ abort # "none" /\ verdict = "none"
            /\ verdict' \in GiveUps
        BY <2>4, <1>2 DEF Unwind, Kind
      <3>2. Contract!GiveUp
        BY <3>1 DEF Contract!GiveUp, Contract!GiveUps
      <3> QED
        BY <3>2 DEF Contract!Next
    <2>5. CASE Reraise
      <3>1. /\ holder' = holder /\ abort' = abort /\ abort # "none" /\ verdict = "none"
            /\ verdict' = "raised" /\ holder \in {"error", "timeout"}
        BY <2>5, <1>2 DEF Reraise
      <3>2. Contract!Raise
        BY <3>1 DEF Contract!Raise
      <3> QED
        BY <3>2 DEF Contract!Next
    <2>6. ASSUME \/ PollDue \/ StatusRead \/ StatusFails \/ CheckLog \/ CheckLoop \/ SkipLoopCheck
                 \/ Heartbeat \/ CheckQuota \/ WorkerDone \/ Server \/ Tick \/ UNCHANGED vars
          PROVE  UNCHANGED Contract!vars
      <3>1. holder' = holder /\ abort' = abort /\ verdict' = verdict
        BY <2>6 DEF PollDue, StatusRead, StatusFails, CheckLog, CheckLoop, SkipLoopCheck,
           Heartbeat, CheckQuota, WorkerDone, Server, PostArrives, StartRetry, RetryAgain,
           LogError, BeginMessage, EndMessage, FinishTurn, Tick
      <3> QED
        BY <3>1 DEF Contract!vars
    <2> QED
      BY <1>2, <2>1, <2>2, <2>3, <2>4, <2>5, <2>6 DEF Next, Main, Worker
  <1> QED
    BY Invariant, <1>1, <1>2, PTL DEF Spec, ImplementsContract, Contract!Spec

-----------------------------------------------------------------------------
(* Time.                                                                   *)

\* What is left of the call at each step, when no more is waited for than the
\* step's own request.
Reads == PostTimeout + 2 * GetTimeout + HeartbeatTimeout
Timed ==
  /\ now <= due
  /\ ~done => now <= PostTimeout
  /\ pc \in {"status", "log"} => due <= PostTimeout + GetTimeout
  /\ pc = "loopcheck" => due <= PostTimeout + 2 * GetTimeout
  /\ pc \in {"heartbeat", "quota"} => due <= Reads
  /\ pc = "wait" => now <= Reads
  /\ pc \in {"abort", "abortRaise", "raise"} => due <= Reads + AbortTimeout
  /\ pc = "unwind" => due <= Reads + AbortTimeout + 1

LEMMA MainTimed == ASSUME TypeOK, Timed, Main PROVE Timed'
  <1> USE Limits DEF TypeOK, Timed, Reads
  <1>1. CASE PollDue
    BY <1>1 DEF PollDue
  <1>2. CASE WorkerFinished
    BY <1>2 DEF WorkerFinished, StartRaise
  <1>3. CASE StatusRead
    BY <1>3 DEF StatusRead
  <1>4. CASE StatusFails
    BY <1>4 DEF StatusFails
  <1>5. CASE CheckLog
    BY <1>5 DEF CheckLog
  <1>6. CASE CheckLoop
    BY <1>6 DEF CheckLoop
  <1>7. CASE SkipLoopCheck
    BY <1>7 DEF SkipLoopCheck
  <1>8. CASE Heartbeat
    BY <1>8 DEF Heartbeat
  <1>9. CASE CheckQuota
    BY <1>9 DEF CheckQuota
  <1>10. CASE AbortDelivered
    <2>1. AfterAbort /\ now' = now /\ done' = done /\ pc \in {"abort", "abortRaise"}
      BY <1>10 DEF AbortDelivered
    <2> QED
      BY <2>1 DEF AfterAbort
  <1>11. CASE AbortFails
    <2>1. AfterAbort /\ now' = now /\ done' = done /\ pc \in {"abort", "abortRaise"}
      BY <1>11 DEF AbortFails
    <2> QED
      BY <2>1 DEF AfterAbort
  <1>12. CASE Unwind
    BY <1>12 DEF Unwind
  <1>13. CASE Reraise
    BY <1>13 DEF Reraise
  <1> QED
    BY <1>1, <1>2, <1>3, <1>4, <1>5, <1>6, <1>7, <1>8, <1>9, <1>10, <1>11, <1>12, <1>13 DEF Main

LEMMA NextTimed == IInv /\ Timed /\ [Next]_vars => Timed'
  <1> SUFFICES ASSUME IInv, Timed, [Next]_vars PROVE Timed'
    OBVIOUS
  <1>1. CASE UNCHANGED <<now, pc, due, done>>
    BY <1>1 DEF Timed
  <1>2. CASE WorkerDone
    BY <1>2 DEF Timed, WorkerDone
  <1>3. CASE Tick
    <2>1. /\ now' = now + 1 /\ now < due /\ pc # "returned"
          /\ UNCHANGED <<pc, due, done>>
      BY <1>3 DEF Tick
    <2>2. done => pc \notin {"wait", "unwind"}
      BY <1>3 DEF Tick, WaitOver
    <2>3. ~done => now < PostTimeout
      BY <1>3, Limits DEF Tick, WorkerPending, IInv, TypeOK
    <2> QED
      BY <2>1, <2>2, <2>3, Limits DEF Timed, Reads, IInv, TypeOK
  <1>4. ASSUME WorkerAnswered \/ WorkerFails \/ WorkerTimesOut \/ Server \/ UNCHANGED vars
        PROVE  UNCHANGED <<now, pc, due, done>>
    BY <1>4 DEF WorkerAnswered, WorkerFails, WorkerTimesOut, Server, PostArrives, StartRetry,
       RetryAgain, LogError, BeginMessage, EndMessage, FinishTurn
  <1> QED
    BY <1>1, <1>2, <1>3, <1>4, MainTimed DEF Next, Worker, IInv

\* BoundedReturn: whatever the server does, the caller is held for the POST's
\* timeout, the reads of one poll, the abort and one more poll at most.
THEOREM ReturnsInTime == Spec => []BoundedReturn
  <1>1. Init => Timed
    BY SendAssumption DEF Init, Timed, Reads
  <1>2. IInv /\ Timed => BoundedReturn
    <2> SUFFICES ASSUME IInv, Timed, pc # "returned"
                 PROVE  now <= Reads + AbortTimeout + 1
      BY DEF BoundedReturn, Reads
    <2> QED
      BY Limits DEF IInv, TypeOK, Timed, Reads
  <1> QED
    BY Invariant, NextTimed, <1>1, <1>2, PTL DEF Spec

-----------------------------------------------------------------------------
(* The status snapshot.                                                    *)

\* From the status read to the end of the poll, a retry it shows is still the
\* server's, or its time has come.  A give-up for quota is decided with more
\* than the threshold left, and the abort takes no more than its own time.
Fresh ==
  /\ pc \in {"log", "loopcheck", "heartbeat", "quota"} /\ status.type = "retry" =>
       \/ turn = "retry" /\ next = status.next
       \/ now >= status.next
  /\ pc = "abort" /\ cause = "quota" =>
       /\ turn = "retry"
       /\ next > due - AbortTimeout + QuotaThreshold

LEMMA MainFresh == ASSUME IInv, Fresh, Main PROVE Fresh'
  <1>0. now \in Nat /\ next \in Nat /\ due \in Nat /\ status.next \in Nat
    BY DEF IInv, TypeOK, Statuses
  <1> USE Limits DEF Fresh
  <1>1. CASE PollDue \/ WorkerFinished \/ StatusFails
    BY <1>1 DEF PollDue, WorkerFinished, StatusFails, StartRaise
  <1>2. CASE StatusRead
    BY <1>2 DEF StatusRead
  <1>3. CASE CheckLog \/ CheckLoop \/ SkipLoopCheck \/ Heartbeat
    <2>1. /\ UNCHANGED <<now, status, turn, next>>
          /\ pc' = "abort" => cause' # "quota"
          /\ pc \in {"log", "loopcheck", "heartbeat"}
      BY <1>3 DEF CheckLog, CheckLoop, SkipLoopCheck, Heartbeat
    <2> QED
      BY <2>1
  <1>4. CASE CheckQuota
    <2>1. CASE status.type = "retry" /\ status.next - now > QuotaThreshold
      <3>1. /\ pc = "quota" /\ pc' = "abort" /\ due' = now + AbortTimeout
            /\ UNCHANGED <<now, turn, next>>
        BY <1>4, <2>1 DEF CheckQuota, TooFar
      <3>2. turn = "retry" /\ next = status.next
        BY <1>0, <2>1, <3>1
      <3> QED
        BY <1>0, <2>1, <3>1, <3>2
    <2>2. CASE ~(status.type = "retry" /\ status.next - now > QuotaThreshold)
      BY <1>4, <2>2 DEF CheckQuota, TooFar
    <2> QED
      BY <2>1, <2>2
  <1>5. CASE AbortDelivered \/ AbortFails \/ Unwind \/ Reraise
    <2>1. pc' \in {"unwind", "raise", "returned"}
      BY <1>5 DEF AbortDelivered, AbortFails, AfterAbort, Unwind, Reraise
    <2> QED
      BY <2>1
  <1> QED
    BY <1>1, <1>2, <1>3, <1>4, <1>5 DEF Main

LEMMA NextFresh ==
  ASSUME AbortTimeout <= QuotaThreshold
  PROVE  IInv /\ Timed /\ Fresh /\ [Next]_vars => Fresh'
  <1> SUFFICES ASSUME IInv, Timed, Fresh, [Next]_vars PROVE Fresh'
    OBVIOUS
  <1>0. now \in Nat /\ next \in Nat /\ due \in Nat /\ status.next \in Nat /\ now <= due
    BY DEF IInv, TypeOK, Statuses, Timed
  <1> USE Limits DEF Fresh
  <1>1. CASE UNCHANGED <<now, pc, due, status, cause, turn, next>>
    BY <1>1
  <1>2. CASE Tick
    BY <1>0, <1>2 DEF Tick
  <1>3. CASE PostArrives \/ StartRetry \/ RetryAgain \/ FinishTurn
    <2>1. /\ UNCHANGED <<now, pc, due, status, cause>>
          /\ turn = "retry" => now >= next
      BY <1>3 DEF PostArrives, StartRetry, RetryAgain, FinishTurn, IInv, Message
    <2> QED
      BY <1>0, <2>1
  <1>4. ASSUME Worker \/ LogError \/ BeginMessage \/ EndMessage \/ UNCHANGED vars
        PROVE  UNCHANGED <<now, pc, due, status, cause, turn, next>>
    BY <1>4 DEF Worker, WorkerAnswered, WorkerFails, WorkerTimesOut, WorkerDone, LogError,
       BeginMessage, EndMessage
  <1> QED
    BY <1>1, <1>2, <1>3, <1>4, MainFresh DEF Next, Server

\* QuotaNeverStale: with an abort that takes less than the threshold, a give-up
\* for quota meets the retry it was decided for, whatever the server did since
\* the status was read, and for any waits it announces.
THEOREM QuotaMeetsItsRetry ==
  ASSUME AbortTimeout <= QuotaThreshold
  PROVE  Spec => []QuotaNeverStale
  <1>1. Init => Timed /\ Fresh
    BY SendAssumption DEF Init, Timed, Reads, Fresh, NoStatus
  <1>2. IInv /\ Timed /\ Fresh => QuotaNeverStale
    <2> SUFFICES ASSUME IInv, Timed, Fresh, pc = "abort", cause = "quota"
                 PROVE  turn = "retry" /\ next - now > QuotaThreshold - AbortTimeout
      BY DEF QuotaNeverStale
    <2>1. now \in Nat /\ next \in Nat /\ due \in Nat /\ now <= due
      BY DEF IInv, TypeOK, Timed
    <2> QED
      BY <2>1, Limits DEF Fresh
  <1> QED
    BY Invariant, NextTimed, NextFresh, <1>1, <1>2, PTL DEF Spec

=============================================================================
