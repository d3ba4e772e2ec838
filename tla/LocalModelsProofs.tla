-------------------------- MODULE LocalModelsProofs --------------------------
(***************************************************************************)
(* What LocalModels promises of a run, a notebook and the switch script:   *)
(* for any models, limits and numbers of tiers and of signals.             *)
(***************************************************************************)
EXTENDS LocalModels, TLAPS

USE DEF vars, ollama, control, work, unload, thread, client, script, Step, Same,
        Warming, Settling, Working, Polling, Handling

-----------------------------------------------------------------------------
(* Types.                                                                  *)

LEMMA InitTypeOK == Init => TypeOK
  <1> SUFFICES ASSUME Init PROVE TypeOK
    OBVIOUS
  <1>1. OllamaTypeOK
    BY DEF Init, OllamaInit, OllamaTypeOK
  <1>2. ResidencyTypeOK
    <2>1. {handled, exiting, published, turn, orphan, late, pollFailed, done} \subseteq BOOLEAN
      BY DEF Init, ClientInit
    <2> QED
      BY <2>1, ResidencyAssumption DEF Init, ClientInit, ResidencyTypeOK
  <1>3. SwitchTypeOK
    BY DEF Init, SwitchInit, SwitchTypeOK
  <1> QED
    BY <1>1, <1>2, <1>3 DEF Init, TypeOK

\* Ollama's part, of a request that lets a model go and of Ollama's own steps.
LEMMA AskKeepsOllama ==
  ASSUME OllamaTypeOK, NEW m \in Models, NEW busy, AskUnload(m, busy)
  PROVE  OllamaTypeOK'
  BY DEF OllamaTypeOK, AskUnload, Becomes

LEMMA ServerKeepsOllama ==
  ASSUME OllamaTypeOK, NEW busy, OllamaNext(busy, Watched)
  PROVE  OllamaTypeOK'
  <1>1. PICK m \in Watched : \/ Load(m, busy) \/ Loaded(m) \/ Expire(m, busy) \/ Stopped(m)
                             \/ OthersBegin(m) \/ OthersEnd(m)
    BY DEF OllamaNext
  <1>2. m \in Models
    BY ResidencyAssumption DEF Watched
  <1> QED
    BY <1>1, <1>2 DEF OllamaTypeOK, Load, Loaded, Expire, Stopped, OthersBegin, OthersEnd, Becomes

\* All that the client does to Ollama is to ask for an unload.
LEMMA ClientAsks ==
  ASSUME ClientNext PROVE AskUnload(Model, Busy) \/ UNCHANGED ollama
  BY DEF ClientNext, MainSteps, WarmUp, StartPoller, Create, Publish, Dispatch, SendReturns,
     Settle, Join, Reset, Close, BeginTier, EndTier, BeginUnload, LadderFails, Unload,
     RequestUnload, Poll, Judge, Nap, GiveUp, AbortPublished, PostArrives, TurnEnds, Interrupt, Raise,
     Poller, PollerWakes, PollerPrints

LEMMA ClientTypes == ASSUME TypeOK, ClientNext PROVE ResidencyTypeOK'
  <1> USE ResidencyAssumption DEF TypeOK, ResidencyTypeOK
  <1>1. CASE StartPoller \/ Create \/ Publish \/ Dispatch
    BY <1>1 DEF StartPoller, Create, Publish, Dispatch
  <1>2. CASE SendReturns
    BY <1>2 DEF SendReturns, AbortMessage
  <1>3. CASE Settle \/ Join \/ Reset
    BY <1>3 DEF Settle, Join, Reset
  <1>4. CASE Close
    BY <1>4 DEF Close, AfterClose, AbortMessage
  <1>5. CASE BeginTier
    BY <1>5 DEF BeginTier
  <1>6. CASE EndTier
    BY <1>6 DEF EndTier, TierOver
  <1>7. CASE BeginUnload \/ LadderFails
    BY <1>7 DEF BeginUnload, LadderFails
  <1>8. CASE RequestUnload
    BY <1>8 DEF RequestUnload, Returned, Unwound
  <1>9. CASE Poll \/ Judge
    BY <1>9 DEF Poll, Judge, Listed, Returned, Unwound
  <1>10. CASE Nap
    BY <1>10 DEF Nap
  <1>11. CASE GiveUp
    BY <1>11 DEF GiveUp, Returned, Unwound
  <1>12. CASE AbortPublished
    <2>1. message' \in {"none", "coming", "running"} /\ {turn', orphan'} \subseteq BOOLEAN
      BY <1>12 DEF AbortPublished, AbortMessage, TierOver
    <2>2. /\ main' = "unload"
          /\ UNCHANGED <<program, resume, handled, signals, exiting, published, tiers, late>>
          /\ UNCHANGED <<unload, thread>>
      BY <1>12 DEF AbortPublished
    <2> QED
      BY <2>1, <2>2
  <1>13. CASE PostArrives \/ TurnEnds
    BY <1>13 DEF PostArrives, TurnEnds
  <1>14. CASE Interrupt
    BY <1>14 DEF Interrupt
  <1>15. CASE Raise
    BY <1>15 DEF Raise, Unwound
  <1>16. CASE Poller
    BY <1>16 DEF Poller, PollerWakes, PollerPrints
  <1> QED
    BY <1>1, <1>2, <1>3, <1>4, <1>5, <1>6, <1>7, <1>8, <1>9, <1>10, <1>11, <1>12, <1>13, <1>14,
       <1>15, <1>16 DEF ClientNext, MainSteps, WarmUp, Unload

LEMMA ScriptTypes ==
  ASSUME TypeOK, NEW busy, SwitchNext(busy) PROVE SwitchTypeOK' /\ OllamaTypeOK'
  <1> USE SwitchAssumption DEF TypeOK, SwitchTypeOK
  <1>1. CASE List
    BY <1>1 DEF List, Listed, OllamaTypeOK
  <1>2. ASSUME NEW m \in Models, OrderUnload(m) PROVE SwitchTypeOK' /\ OllamaTypeOK'
    BY <1>2 DEF OrderUnload, Orders, Asking, OllamaTypeOK
  <1>3. CASE OrderLoad \/ Finish
    BY <1>3 DEF OrderLoad, Finish, Orders, Asking, OllamaTypeOK
  <1>4. ASSUME NEW m \in Models, NEW answers \in BOOLEAN, WaitUnloaded(m, answers)
        PROVE  SwitchTypeOK' /\ OllamaTypeOK'
    BY <1>4 DEF WaitUnloaded, KeepWaiting, Give, Sleep, Asking, OllamaTypeOK
  <1>5. ASSUME NEW answers \in BOOLEAN, WaitLoaded(answers) PROVE SwitchTypeOK' /\ OllamaTypeOK'
    BY <1>5 DEF WaitLoaded, KeepWaiting, Give, Sleep, OllamaTypeOK
  <1>6. ASSUME NEW order \in sent, Arrives(order, busy) PROVE SwitchTypeOK' /\ OllamaTypeOK'
    <2>1. order[1] \in Models /\ <<order[1], "queued">> \in Orders
      BY DEF Orders
    <2>2. OllamaTypeOK'
      BY <1>6, <2>1, AskKeepsOllama DEF Arrives, OllamaTypeOK
    <2> QED
      BY <1>6, <2>1, <2>2 DEF Arrives
  <1>7. ASSUME NEW order \in sent, Lost(order) PROVE SwitchTypeOK' /\ OllamaTypeOK'
    BY <1>7 DEF Lost, OllamaTypeOK
  <1>8. CASE Stall \/ Resume
    BY <1>8 DEF Stall, Resume, OllamaTypeOK
  <1> QED
    BY <1>1, <1>2, <1>3, <1>4, <1>5, <1>6, <1>7, <1>8 DEF SwitchNext, ScriptSteps

LEMMA NextTypeOK == TypeOK /\ [Next]_vars => TypeOK'
  <1> SUFFICES ASSUME TypeOK, [Next]_vars PROVE TypeOK'
    OBVIOUS
  <1>1. used' \in BOOLEAN
    BY DEF TypeOK, Next, Uses
  <1>2. CASE UNCHANGED vars
    BY <1>2 DEF TypeOK, OllamaTypeOK, ResidencyTypeOK, SwitchTypeOK
  <1>3. CASE ClientStep
    <2>1. ClientNext /\ UNCHANGED script
      BY <1>3 DEF ClientStep
    <2>2. OllamaTypeOK'
      BY <2>1, ClientAsks, AskKeepsOllama, ResidencyAssumption DEF TypeOK, OllamaTypeOK
    <2>3. SwitchTypeOK'
      BY <2>1 DEF TypeOK, SwitchTypeOK
    <2> QED
      BY <1>1, <2>1, <2>2, <2>3, ClientTypes DEF TypeOK
  <1>4. CASE SwitchStep
    <2>1. SwitchNext(InUse) /\ UNCHANGED client
      BY <1>4 DEF SwitchStep
    <2>2. ResidencyTypeOK'
      BY <2>1 DEF TypeOK, ResidencyTypeOK
    <2> QED
      BY <1>1, <2>1, <2>2, ScriptTypes DEF TypeOK
  <1>5. CASE ServerStep
    <2>1. OllamaTypeOK'
      BY <1>5, ServerKeepsOllama DEF ServerStep, TypeOK
    <2>2. ResidencyTypeOK' /\ SwitchTypeOK'
      BY <1>5 DEF ServerStep, TypeOK, ResidencyTypeOK, SwitchTypeOK
    <2> QED
      BY <1>1, <2>1, <2>2 DEF TypeOK
  <1> QED
    BY <1>2, <1>3, <1>4, <1>5 DEF Next

\* TypeOK: the handler's frame is there only while the handler runs, and every
\* part of the composition keeps its types.
THEOREM TypeCorrect == Spec => []TypeOK
  BY InitTypeOK, NextTypeOK, PTL DEF Spec

-----------------------------------------------------------------------------
(* The program's turns.                                                    *)

\* The signal that cuts a clean-up: the handler's second, a notebook's first.
Cut == signals > (IF program = "eval" THEN 1 ELSE 0)

\* What is true of the thread at `at`, where it is or where the handler will
\* unwind it to: the message is sent after the session is published, and that
\* stays so until the finally clause is through with it.
At(at) ==
  /\ at \in {"start", "create", "publish", "dispatch"} => message = "none"
  /\ at = "dispatch" => published
  /\ at \in {"sending"} \cup Settling /\ message # "none" => published
  /\ at = "tier" /\ main \in {"tier", "abort"} => published \/ program # "eval"

\* Without that signal, every turn that runs has an abort ahead of it.
Quiet ==
  ~Cut =>
    /\ handled => signals > 0
    /\ main = "abort" => resume # "none"
    /\ At(main) /\ At(resume)
    /\ message = "running" => late \/ AbortAhead
    /\ turn => main = "tier" \/ (main = "abort" /\ resume = "tier")

LEMMA ClientQuiet == ASSUME TypeOK, Quiet, ClientNext PROVE Quiet'
  <1> USE ResidencyAssumption DEF TypeOK, ResidencyTypeOK, Quiet, Cut, At, AbortAhead
  <1>1. CASE StartPoller \/ Create \/ Publish \/ Dispatch
    BY <1>1 DEF StartPoller, Create, Publish, Dispatch
  <1>2. CASE SendReturns
    BY <1>2 DEF SendReturns, AbortMessage
  <1>3. CASE Settle \/ Join \/ Reset
    BY <1>3 DEF Settle, Join, Reset
  <1>4. CASE Close
    BY <1>4 DEF Close, AfterClose, AbortMessage
  <1>5. CASE BeginTier
    BY <1>5 DEF BeginTier
  <1>6. CASE EndTier
    BY <1>6 DEF EndTier, TierOver
  <1>7. CASE BeginUnload \/ LadderFails
    BY <1>7 DEF BeginUnload, LadderFails
  <1>8. CASE RequestUnload
    BY <1>8 DEF RequestUnload, Returned, Unwound
  <1>9. CASE Poll \/ Judge
    BY <1>9 DEF Poll, Judge, Returned, Unwound
  <1>10. CASE Nap
    BY <1>10 DEF Nap
  <1>11. CASE GiveUp
    BY <1>11 DEF GiveUp, Returned, Unwound
  <1>12. CASE AbortPublished
    BY <1>12 DEF AbortPublished, AbortMessage, TierOver
  <1>13. CASE PostArrives \/ TurnEnds
    BY <1>13 DEF PostArrives, TurnEnds
  <1>14. CASE Interrupt
    BY <1>14 DEF Interrupt
  <1>15. CASE Raise
    BY <1>15 DEF Raise, Unwound
  <1>16. CASE Poller
    BY <1>16 DEF Poller, PollerWakes, PollerPrints
  <1> QED
    BY <1>1, <1>2, <1>3, <1>4, <1>5, <1>6, <1>7, <1>8, <1>9, <1>10, <1>11, <1>12, <1>13, <1>14,
       <1>15, <1>16 DEF ClientNext, MainSteps, WarmUp, Unload

\* What is not the client's step leaves the client alone.
LEMMA OthersKeepClient ==
  ASSUME [Next]_vars, ~ClientStep PROVE UNCHANGED client
  BY DEF Next, SwitchStep, ServerStep

LEMMA NextQuiet == TypeOK /\ Quiet /\ [Next]_vars => Quiet'
  <1> SUFFICES ASSUME TypeOK, Quiet, [Next]_vars PROVE Quiet'
    OBVIOUS
  <1>1. CASE ClientStep
    BY <1>1, ClientQuiet DEF ClientStep
  <1>2. CASE ~ClientStep
    BY <1>2, OthersKeepClient DEF Quiet, Cut, At, AbortAhead
  <1> QED
    BY <1>1, <1>2

\* NoTurnOutlivesRun: for any number of tiers and signals, whatever the message
\* and the handler do to one another, no turn is left running that an abort of
\* the program's own was still to stop when it began.
THEOREM NothingOutlives == Spec => []NoTurnOutlivesRun
  <1>1. Init => Quiet
    BY DEF Init, ClientInit, Quiet, Cut, At, AbortAhead
  <1>2. TypeOK /\ Quiet => NoTurnOutlivesRun
    BY ResidencyAssumption DEF TypeOK, ResidencyTypeOK, Quiet, Cut, AbortAhead, NoTurnOutlivesRun
  <1> QED
    BY TypeCorrect, NextQuiet, <1>1, <1>2, PTL DEF Spec

-----------------------------------------------------------------------------
(* The unload.                                                             *)

\* The handler looks once more only while its time is not over.
Brief ==
  resume # "none" =>
    /\ main \in {"listed", "napping"} => spent < HandlerTimeout + RequestTime
    /\ main = "polling" => spent < HandlerTimeout + RequestTime + PollInterval

LEMMA NextBrief == TypeOK /\ Brief /\ [Next]_vars => Brief'
  <1> SUFFICES ASSUME TypeOK, Brief, ClientNext PROVE Brief'
    BY OthersKeepClient DEF ClientStep, Brief
  <1> USE ResidencyAssumption DEF TypeOK, ResidencyTypeOK, Brief
  <1>1. CASE WarmUp \/ BeginTier \/ EndTier \/ BeginUnload \/ LadderFails \/ AbortPublished
    BY <1>1 DEF WarmUp, StartPoller, Create, Publish, Dispatch, SendReturns, Settle, Join,
         Reset, Close, AfterClose, BeginTier, EndTier, BeginUnload, LadderFails, AbortPublished
  <1>2. CASE RequestUnload
    BY <1>2 DEF RequestUnload, Returned
  <1>3. CASE Poll \/ Judge
    BY <1>3 DEF Poll, Judge, Returned, Limit
  <1>4. CASE Nap \/ GiveUp
    BY <1>4 DEF Nap, GiveUp, Returned
  <1>5. CASE PostArrives \/ TurnEnds \/ Interrupt \/ Raise \/ Poller
    BY <1>5 DEF PostArrives, TurnEnds, Interrupt, Raise, Poller, PollerWakes, PollerPrints
  <1> QED
    BY <1>1, <1>2, <1>3, <1>4, <1>5 DEF ClientNext, MainSteps, Unload

\* HandlerIsBrief: for every interval and limit the handler's unload is over
\* with the first pause that crosses its time.
THEOREM TheHandlerIsBrief == Spec => []HandlerIsBrief
  <1>1. Init => Brief
    BY DEF Init, ClientInit, Brief
  <1>2. TypeOK /\ Brief => HandlerIsBrief
    BY ResidencyAssumption DEF TypeOK, ResidencyTypeOK, Brief, HandlerIsBrief
  <1> QED
    BY TypeCorrect, NextBrief, <1>1, <1>2, PTL DEF Spec

\* From the request on: what is in use, or loading, has been noted; and what the
\* poll did not list is out of memory, or has been noted.
Freed ==
  /\ main \in Polling => verdict = "none"
  /\ (main \in Polling \/ verdict = "confirmed") /\ (Model \in InUse \/ resident[Model] = "loading")
       => used
  /\ main = "listed" => pollFailed \/ used \/ Model \in listing \/ resident[Model] = "out"
  /\ ConfirmedIsFree

\* Every step but the request keeps what was noted, and notes what is in use.
LEMMA WhatIsNoted ==
  ASSUME TypeOK, Next
  PROVE  /\ used /\ ~AsksUnload => used'
         /\ Model \in InUse' => used'
         /\ AsksUnload /\ resident[Model] = "loading" => used'
  BY DEF Next, Uses, TypeOK

\* A model is loaded for those it is in use by, and for nobody else.
LEMMA LoadedForUse ==
  ASSUME TypeOK, Next
  PROVE  /\ resident[Model] = "out" => resident'[Model] = "out" \/ Model \in InUse
         /\ resident'[Model] = "loading" => resident[Model] = "loading" \/ Model \in InUse
  <1> USE ResidencyAssumption, SwitchAssumption DEF TypeOK, OllamaTypeOK
  <1>1. ASSUME NEW m \in Models, NEW busy, AskUnload(m, busy)
        PROVE  /\ resident[Model] = "out" => resident'[Model] = "out"
               /\ resident'[Model] = "loading" => resident[Model] = "loading"
    BY <1>1 DEF AskUnload, Becomes
  <1>2. CASE ClientStep
    BY <1>1, <1>2, ClientAsks DEF ClientStep
  <1>3. CASE SwitchStep
    <2>1. ASSUME NEW order \in sent, Arrives(order, InUse)
          PROVE  AskUnload(order[1], InUse) \/ UNCHANGED ollama
      BY <2>1 DEF Arrives
    <2>2. \A order \in sent : order[1] \in Models
      BY DEF SwitchTypeOK, Orders
    <2>3. \/ UNCHANGED ollama
          \/ \E order \in sent : AskUnload(order[1], InUse)
      BY <1>3, <2>1 DEF SwitchStep, SwitchNext, ScriptSteps, List, OrderLoad, Finish, OrderUnload,
         WaitUnloaded, WaitLoaded, Stall, Resume, Lost
    <2> QED
      BY <1>1, <2>2, <2>3
  <1>4. CASE ServerStep
    <2>1. PICK m \in Models : \/ Load(m, InUse) \/ Loaded(m) \/ Expire(m, InUse) \/ Stopped(m)
                              \/ OthersBegin(m) \/ OthersEnd(m)
      BY <1>4 DEF ServerStep, OllamaNext, Watched
    <2> QED
      BY <2>1 DEF Load, Loaded, Expire, Stopped, OthersBegin, OthersEnd, Becomes
  <1> QED
    BY <1>2, <1>3, <1>4 DEF Next

LEMMA NextFreed == TypeOK /\ Freed /\ [Next]_vars => Freed'
  <1> SUFFICES ASSUME TypeOK, Freed, Next PROVE Freed'
    BY DEF Freed, ConfirmedIsFree, InUse, Busy, Queued
  <1> USE DEF Freed, ConfirmedIsFree
  <1>1. /\ used /\ ~AsksUnload => used'
        /\ Model \in InUse' => used'
        /\ AsksUnload /\ resident[Model] = "loading" => used'
    BY WhatIsNoted
  <1>2. /\ resident[Model] = "out" => resident'[Model] = "out" \/ Model \in InUse
        /\ resident'[Model] = "loading" => resident[Model] = "loading" \/ Model \in InUse
    BY LoadedForUse
  <1>3. CASE UNCHANGED <<main, verdict, listing, pollFailed>>
    BY <1>1, <1>2, <1>3 DEF AsksUnload
  <1>4. CASE ClientNext
    <2>1. CASE RequestUnload
      <3>1. CASE main' = "polling" /\ verdict' = "none"
        BY <1>1, <1>2, <2>1, <3>1, ResidencyAssumption
        DEF RequestUnload, AsksUnload, AskUnload, Becomes, TypeOK, OllamaTypeOK
      <3>2. CASE verdict' = "failed" /\ Returned
        BY <2>1, <3>2 DEF Returned, Unwound
      <3> QED
        BY <2>1, <3>1, <3>2 DEF RequestUnload
    <2>2. CASE Poll
      <3>1. main = "polling" /\ main' = "listed" /\ UNCHANGED <<verdict, ollama>>
        BY <2>2 DEF Poll
      <3>2. ~AsksUnload /\ (Model \in InUse \/ resident[Model] = "loading" => used')
        BY <1>1, <3>1 DEF AsksUnload
      <3>3. pollFailed' \/ listing' = Listed
        BY <2>2 DEF Poll
      <3>4. Model \in Listed \/ resident[Model] \in {"out", "loading"}
        BY ResidencyAssumption DEF Listed, TypeOK, OllamaTypeOK
      <3> QED
        BY <1>1, <1>2, <3>1, <3>2, <3>3, <3>4
    <2>3. CASE Judge
      <3>1. main = "listed" /\ UNCHANGED <<pollFailed, ollama>> /\ ~AsksUnload
        BY <2>3 DEF Judge, AsksUnload
      <3>2. \/ Model \notin listing /\ verdict' = "confirmed" /\ main' \notin Polling
            \/ main' = "napping" /\ verdict' = "none"
        BY <2>3 DEF Judge, Absent, Returned, Unwound
      <3> QED
        BY <1>1, <1>2, <3>1, <3>2
    <2>4. CASE Nap \/ GiveUp
      BY <1>1, <1>2, <2>4 DEF Nap, GiveUp, Returned, Unwound, AsksUnload
    <2>5. CASE ~Unload
      <3>1. UNCHANGED <<verdict, listing, pollFailed>>
        BY <1>4, <2>5 DEF ClientNext, MainSteps, WarmUp, StartPoller, Create, Publish, Dispatch,
           SendReturns, Settle, Join, Reset, Close, BeginTier, EndTier, BeginUnload, LadderFails,
           AbortPublished, PostArrives, TurnEnds, Interrupt, Raise, Poller, PollerWakes,
           PollerPrints
      <3>2. main' \in Polling => main' = main
        BY <1>4, <2>5 DEF ClientNext, MainSteps, WarmUp, StartPoller, Create, Publish, Dispatch,
           SendReturns, Settle, Join, Reset, Close, AfterClose, BeginTier, EndTier, BeginUnload,
           LadderFails, AbortPublished, PostArrives, TurnEnds, Interrupt, Raise, Unwound, Poller,
           PollerWakes, PollerPrints
      <3> QED
        BY <1>1, <1>2, <3>1, <3>2 DEF AsksUnload
    <2> QED
      BY <2>1, <2>2, <2>3, <2>4, <2>5 DEF Unload
  <1> QED
    BY <1>3, <1>4 DEF Next, ClientStep, SwitchStep, ServerStep

\* ConfirmedIsFree: of any number of models, with any limits, the one whose
\* unload was confirmed is out of memory and stays out until somebody uses it,
\* however old the listing is by then and whatever turn was left running.
THEOREM ConfirmedMeansFree == Spec => []ConfirmedIsFree
  <1>1. Init => Freed
    BY DEF Init, ClientInit, Freed, ConfirmedIsFree
  <1>2. Freed => ConfirmedIsFree
    BY DEF Freed
  <1> QED
    BY TypeCorrect, NextFreed, <1>1, <1>2, PTL DEF Spec

-----------------------------------------------------------------------------
(* The poller.                                                             *)

\* dispatched_at is reset behind the join, and the warm-up does not begin anew.
Before == {"start"} \cup Warming \cup {"settle", "join"}
Undenied == main \in Before \/ resume \in Before => dispatched # "reset"

LEMMA NextUndenied == TypeOK /\ Undenied /\ [Next]_vars => Undenied'
  <1> SUFFICES ASSUME TypeOK, Undenied, ClientNext PROVE Undenied'
    BY OthersKeepClient DEF ClientStep, Undenied
  <1> USE DEF TypeOK, ResidencyTypeOK, Undenied, Before
  <1>1. CASE WarmUp
    BY <1>1 DEF WarmUp, StartPoller, Create, Publish, Dispatch, SendReturns, Settle, Join, Reset,
         Close, AfterClose
  <1>2. CASE BeginTier \/ EndTier \/ BeginUnload \/ LadderFails \/ AbortPublished
    BY <1>2 DEF BeginTier, EndTier, BeginUnload, LadderFails, AbortPublished
  <1>3. CASE Unload
    BY <1>3 DEF Unload, RequestUnload, Poll, Judge, Nap, GiveUp, Returned, Unwound
  <1>4. CASE PostArrives \/ TurnEnds \/ Interrupt \/ Raise \/ Poller
    BY <1>4 DEF PostArrives, TurnEnds, Interrupt, Raise, Unwound, Poller, PollerWakes,
         PollerPrints
  <1> QED
    BY <1>1, <1>2, <1>3, <1>4 DEF ClientNext, MainSteps

\* NeverDeniesTheMessage: while the message is waited for, and until the poller
\* has been joined, it says "outstanding" of what was sent.
THEOREM TheMessageIsNotDenied == Spec => NeverDeniesTheMessage
  <1>1. Init => Undenied
    BY DEF Init, ClientInit, Undenied
  <1>2. TypeOK /\ Undenied /\ [Next]_vars =>
          [PollerPrints /\ dispatched # "no" /\ main \in {"sending", "settle", "join"} =>
             report' = "outstanding"]_vars
    BY DEF TypeOK, ResidencyTypeOK, Undenied, Before, PollerPrints
  <1> QED
    BY TypeCorrect, NextUndenied, <1>1, <1>2, PTL DEF Spec, NeverDeniesTheMessage

-----------------------------------------------------------------------------
(* The switch script.                                                      *)

\* What the script may take for cleared of what it has found.
Cleared(m) ==
  resident[m] = "out" \/ (m = Target /\ command = "switch-to") \/ m \in misled \cup reloaded

\* A model is still to come, or waited for, or cleared; one that is loading, which
\* no listing shows, was loaded since the script's own.
Accounted ==
  /\ step = "idle" => loaded = {}
  /\ \A m, n \in waiting : m = n
  /\ step \in {"loading", "ok"} => left = {}
  /\ step # "idle" => \A m \in Models : resident[m] = "loading" => m \in reloaded
  /\ step \in {"next", "unloading", "loading", "ok"} =>
       \A m \in Models : m \in left \/ (step = "unloading" /\ m \in waiting) \/ Cleared(m)

\* What Ollama does for a program, other than to load, clears nothing less.
LEMMA AskKeepsAccounted ==
  ASSUME TypeOK, Accounted, NEW m \in Models, NEW busy, AskUnload(m, busy),
         UNCHANGED <<step, command, loaded, left, waiting, misled, reloaded>>
  PROVE  Accounted'
  BY DEF TypeOK, OllamaTypeOK, SwitchTypeOK, Accounted, Cleared, AskUnload, Becomes

LEMMA ServerKeepsAccounted == ASSUME TypeOK, Accounted, ServerStep PROVE Accounted'
  <1> USE DEF TypeOK, OllamaTypeOK, SwitchTypeOK, Accounted, Cleared
  <1>1. /\ UNCHANGED <<step, command, loaded, left, waiting, misled>>
        /\ reloaded' = IF step = "idle" THEN {} ELSE reloaded \cup {m \in Models : LoadsAgain(m)}
    BY DEF ServerStep
  <1>2. PICK m \in Models : \/ Load(m, InUse) \/ Loaded(m) \/ Expire(m, InUse) \/ Stopped(m)
                            \/ OthersBegin(m) \/ OthersEnd(m)
    BY ResidencyAssumption DEF ServerStep, OllamaNext, Watched
  <1>3. \A n \in Models : \/ resident'[n] = resident[n]
                          \/ resident[n] = "out" /\ resident'[n] = "loading"
                          \/ resident[n] = "loading" /\ resident'[n] = "in"
                          \/ resident[n] = "in" /\ resident'[n] = "stopping"
                          \/ resident[n] = "stopping" /\ resident'[n] = "out"
    BY <1>2 DEF Load, Loaded, Expire, Stopped, OthersBegin, OthersEnd, Becomes
  <1>4. step # "idle" => \A n \in Models :
          /\ n \in reloaded => n \in reloaded'
          /\ resident[n] = "out" => resident'[n] = "out" \/ n \in reloaded'
          /\ resident'[n] = "loading" => n \in reloaded'
    BY <1>1, <1>3 DEF LoadsAgain
  <1> QED
    BY <1>1, <1>4

LEMMA ScriptAccounted == ASSUME TypeOK, Accounted, SwitchNext(InUse) PROVE Accounted'
  <1> USE DEF TypeOK, OllamaTypeOK, SwitchTypeOK, Accounted, Cleared
  <1>1. CASE List
    <2>1. /\ step = "idle" /\ loaded = {} /\ UNCHANGED <<command, waiting, ollama>>
          /\ reloaded' = {m \in Models : resident[m] = "loading"}
      BY <1>1 DEF List
    <2>2. \A m \in Models : m \in Listed \/ m \in reloaded' \/ resident[m] = "out"
      BY <2>1 DEF Listed
    <2>3. CASE step' = "next" /\ loaded' = Listed
      BY <1>1, <2>1, <2>2, <2>3 DEF List
    <2>4. CASE step' = "next" /\ misled' = Listed
      BY <1>1, <2>1, <2>2, <2>4
    <2>5. CASE step' = "failed"
      BY <2>1, <2>5
    <2> QED
      BY <1>1, <2>3, <2>4, <2>5 DEF List
  <1>2. ASSUME NEW m \in Models, OrderUnload(m) PROVE Accounted'
    BY <1>2 DEF OrderUnload
  <1>3. CASE OrderLoad \/ Finish
    BY <1>3 DEF OrderLoad, Finish
  <1>4. ASSUME NEW m \in Models, NEW answers \in BOOLEAN, WaitUnloaded(m, answers)
        PROVE  Accounted'
    <2>1. CASE SeenLoaded(m, answers)
      BY <1>4, <2>1 DEF WaitUnloaded, KeepWaiting, Give, Sleep
    <2>2. CASE ~SeenLoaded(m, answers)
      <3>1. m \in waiting /\ resident' = resident /\ misled \subseteq misled'
        BY <1>4, <2>2 DEF WaitUnloaded
      <3>2. resident[m] = "out" \/ m \in misled' \cup reloaded
        BY <1>4, <2>2 DEF WaitUnloaded, SeenLoaded, Listed
      <3> QED
        BY <1>4, <2>2, <3>1, <3>2 DEF WaitUnloaded
    <2> QED
      BY <2>1, <2>2
  <1>5. ASSUME NEW answers \in BOOLEAN, WaitLoaded(answers) PROVE Accounted'
    BY <1>5 DEF WaitLoaded, KeepWaiting, Give, Sleep
  <1>6. ASSUME NEW order \in sent, Arrives(order, InUse) \/ Lost(order) PROVE Accounted'
    <2>1. order[1] \in Models
      BY DEF Orders
    <2>2. UNCHANGED <<step, command, loaded, left, waiting, misled, reloaded>>
      BY <1>6 DEF Arrives, Lost
    <2>3. CASE AskUnload(order[1], InUse)
      BY <2>1, <2>2, <2>3, AskKeepsAccounted
    <2>4. CASE UNCHANGED ollama
      BY <2>2, <2>4
    <2> QED
      BY <1>6, <2>3, <2>4 DEF Arrives, Lost
  <1>7. CASE Stall \/ Resume
    BY <1>7 DEF Stall, Resume
  <1> QED
    BY <1>1, <1>2, <1>3, <1>4, <1>5, <1>6, <1>7 DEF SwitchNext, ScriptSteps

LEMMA NextAccounted == TypeOK /\ Accounted /\ [Next]_vars => Accounted'
  <1> SUFFICES ASSUME TypeOK, Accounted, [Next]_vars PROVE Accounted'
    OBVIOUS
  <1>1. CASE ClientStep
    <2>1. CASE AskUnload(Model, Busy)
      BY <1>1, <2>1, AskKeepsAccounted, ResidencyAssumption DEF ClientStep
    <2>2. CASE UNCHANGED ollama
      BY <1>1, <2>2 DEF ClientStep, Accounted, Cleared
    <2> QED
      BY <1>1, <2>1, <2>2, ClientAsks DEF ClientStep
  <1>2. CASE UNCHANGED vars
    BY <1>2 DEF Accounted, Cleared
  <1>3. CASE SwitchStep
    BY <1>3, ScriptAccounted DEF SwitchStep
  <1> QED
    BY <1>1, <1>2, <1>3, ServerKeepsAccounted DEF Next

\* SwitchClears: of any number of models, those the script has found are out of
\* memory when it goes on, unless a poll failed or one was loaded again.
THEOREM TheSwitchClears == Spec => []SwitchClears
  <1>1. Init => Accounted
    BY DEF Init, SwitchInit, Accounted
  <1>2. TypeOK /\ Accounted => SwitchClears
    BY DEF TypeOK, SwitchTypeOK, Accounted, Cleared, SwitchClears
  <1> QED
    BY TypeCorrect, NextAccounted, <1>1, <1>2, PTL DEF Spec

=============================================================================
