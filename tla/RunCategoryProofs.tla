------------------------- MODULE RunCategoryProofs --------------------------
(***************************************************************************)
(* What run_category() guarantees for every ladder and every retry limit.  *)
(* The module's invariants are not inductive as they stand: Types adds     *)
(* where in a tier the session id is set.                                  *)
(***************************************************************************)
EXTENDS RunCategory, FiniteSetTheorems, TLAPS

Working == {"bind", "setup", "setupWait", "probe", "probeWait", "close", "score"}

Shape ==
  /\ pc \notin {"tier", "done"} => pos <= Len(Ladder)
  /\ pc = "create" => sid = 0
  /\ pc \in Working => sid # 0
  /\ handler = "abort" => current # 0

Types == TypeOK /\ Shape

-----------------------------------------------------------------------------
(* Type correctness.                                                       *)

\* abort_session leaves the server's sets and the abort history well typed.
LEMMA AbortTyped ==
  ASSUME TypeOK, NEW s \in Sessions, TryAbort(s)
  PROVE  /\ flight' \subseteq Sessions /\ busy' \subseteq Sessions
         /\ opened' \subseteq Sessions /\ leaked' \subseteq Sessions
         /\ tried' \subseteq Sessions /\ unstopped' \subseteq Sessions
         /\ created' = created
  BY DEF TypeOK, TryAbort, AbortDelivered, AbortFails, server

LEMMA InitTypes == Init => Types
  <1> SUFFICES ASSUME Init PROVE Types
    OBVIOUS
  <1>1. Len(Ladder) \in Nat /\ RetryLimit \in Nat
    BY CategoryAssumption
  <1>2. results \in Seq(Records) /\ dots \in Seq(Marks)
    BY DEF Init
  <1>3. pc \in Labels /\ exc \in Exceptions \cup {"none"} /\ pos \in 1 .. Len(Ladder) + 1
    BY <1>1 DEF Init, Labels, Exceptions
  <1>4. left \in 0 .. RetryLimit /\ sid \in 0 .. created /\ current \in 0 .. created
    BY <1>1 DEF Init
  <1>5. TypeOK
    BY <1>2, <1>3, <1>4 DEF Init, TypeOK
  <1>6. Shape
    BY DEF Init, Shape, Working
  <1> QED
    BY <1>5, <1>6 DEF Types

LEMMA AppendTyped ==
  ASSUME TypeOK, pos <= Len(Ladder), NEW mark \in Marks, NEW s \in Nat,
         Append1(mark, s)
  PROVE  results' \in Seq(Records) /\ dots' \in Seq(Marks)
  <1>1. Ladder[pos] \in Nat
    BY CategoryAssumption DEF TypeOK
  <1>2. [tier |-> Ladder[pos], mark |-> mark, session |-> s] \in Records
    BY <1>1 DEF Records
  <1> QED
    BY <1>2 DEF Append1, TypeOK

LEMMA NextTypes == Types /\ [Next]_vars => Types'
  <1> SUFFICES ASSUME Types, [Next]_vars
               PROVE  Types'
    OBVIOUS
  <1> USE DEF Types, Shape, Working, Labels, Exceptions, Sessions
  <1>1. CASE BeginTier
    BY <1>1, CategoryAssumption
       DEF BeginTier, TypeOK, report, signals, server, aborts
  <1>2. CASE CreateSession
    BY <1>2 DEF CreateSession, TypeOK, report, signals, aborts
  <1>3. CASE CreateFails
    <2>1. CASE UNCHANGED <<created, opened, leaked>>
      BY <1>3, <2>1 DEF CreateFails, TypeOK, report, signals, aborts
    <2>2. CASE /\ created' = created + 1
               /\ opened' = opened \cup {created'}
               /\ leaked' = leaked \cup {created'}
      BY <1>3, <2>2 DEF CreateFails, TypeOK, report, signals, aborts
    <2> QED
      BY <1>3, <2>1, <2>2 DEF CreateFails
  <1>4. CASE Bind
    BY <1>4 DEF Bind, TypeOK, tier, report, server, aborts
  <1>5. CASE Post
    BY <1>5 DEF Post, TypeOK, tier, report, signals, aborts
  <1>6. CASE Reply
    BY <1>6 DEF Reply, TypeOK, tier, report, signals, aborts
  <1>7. CASE ErrorReply
    BY <1>7 DEF ErrorReply, TypeOK, report, signals, aborts
  <1>8. CASE SendFails
    <2>1. sid \in Sessions /\ TryAbort(sid)
      BY <1>8 DEF SendFails, TypeOK
    <2> QED
      BY <1>8, <2>1, AbortTyped DEF SendFails, TypeOK, report, signals
  <1>9. CASE handler = "off" /\ Close
    <2>1. sid \in Sessions /\ TryAbort(sid)
      BY <1>9 DEF Close, TypeOK
    <2>2. /\ flight' \subseteq Sessions /\ busy' \subseteq Sessions
          /\ opened' \subseteq Sessions /\ leaked' \subseteq Sessions
          /\ tried' \subseteq Sessions /\ unstopped' \subseteq Sessions
          /\ created' = created
      BY <2>1, AbortTyped
    <2> QED
      BY <1>9, <2>2 DEF Close, TypeOK, tier, report
  <1>10. CASE GiveUpTier
    <2>1. \E mark \in Marks, s \in Nat : Append1(mark, s)
      BY <1>10 DEF GiveUpTier, TypeOK, Marks
    <2>2. results' \in Seq(Records) /\ dots' \in Seq(Marks)
      BY <1>10, <2>1, AppendTyped DEF GiveUpTier
    <2> QED
      BY <1>10, <2>2 DEF GiveUpTier, TypeOK, tier, signals, server, aborts
  <1>11. CASE handler = "off" /\ CleanUp
    <2>1. CASE sid # 0
      <3>1. sid \in Sessions /\ TryAbort(sid)
        BY <1>11, <2>1 DEF CleanUp, TypeOK
      <3>2. /\ flight' \subseteq Sessions /\ busy' \subseteq Sessions
            /\ opened' \subseteq Sessions /\ leaked' \subseteq Sessions
            /\ tried' \subseteq Sessions /\ unstopped' \subseteq Sessions
            /\ created' = created
        BY <3>1, AbortTyped
      <3> QED
        BY <1>11, <2>1, <3>2 DEF CleanUp, TypeOK, tier, report
    <2>2. CASE sid = 0
      BY <1>11, <2>2 DEF CleanUp, TypeOK, tier, report, server, aborts
    <2> QED
      BY <2>1, <2>2
  <1>12. CASE RetryTier
    BY <1>12, CategoryAssumption DEF RetryTier, MayRetry, LeftAfter, TypeOK, report, signals, server,
       aborts
  <1>13. CASE FailTier
    <2>1. results' \in Seq(Records) /\ dots' \in Seq(Marks)
      BY <1>13, AppendTyped DEF FailTier, Marks
    <2> QED
      BY <1>13, <2>1 DEF FailTier, TypeOK, tier, signals, server, aborts
  <1>14. CASE ScoreTier
    <2>1. PICK scan \in Scans, manual \in BOOLEAN :
            LET mark == CheckPass(scan, manual) IN
            /\ Append1(mark, sid)
            /\ IF GoesOn(mark)
                 THEN pc' = "tier" /\ pos' = pos + 1 /\ ceiling' = Ladder[pos]
                 ELSE pc' = "done" /\ UNCHANGED <<pos, ceiling>>
      BY <1>14 DEF ScoreTier
    <2>2. CheckPass(scan, manual) \in Marks
      BY DEF CheckPass, Marks
    <2>3. pos <= Len(Ladder) /\ sid \in Nat
      BY <1>14 DEF ScoreTier, TypeOK
    <2>4. results' \in Seq(Records) /\ dots' \in Seq(Marks)
      BY <2>1, <2>2, <2>3, AppendTyped
    <2>5. Ladder[pos] \in Nat
      BY <2>3, CategoryAssumption DEF TypeOK
    <2>6. pc' \in {"tier", "done"} /\ pos' \in 1 .. Len(Ladder) + 1 /\ ceiling' \in Nat
      BY <2>1, <2>3, <2>5, CategoryAssumption DEF TypeOK
    <2> QED
      BY <1>14, <2>4, <2>6 DEF ScoreTier, TypeOK, signals, server, aborts
  <1>15. CASE Signal
    BY <1>15 DEF Signal, TypeOK, tier, report, server, aborts
  <1>16. CASE HandlerAbort
    <2>1. current \in Sessions /\ TryAbort(current)
      BY <1>16 DEF HandlerAbort, TypeOK
    <2> QED
      BY <1>16, <2>1, AbortTyped DEF HandlerAbort, TypeOK, tier, report
  <1>17. CASE SecondSignal
    BY <1>17 DEF SecondSignal, TypeOK, tier, report, server, aborts
  <1>18. CASE Server
    <2>1. PICK s \in Sessions : Receive(s) \/ Finish(s)
      BY <1>18 DEF Server
    <2>2. /\ flight' \subseteq Sessions /\ busy' \subseteq Sessions
          /\ opened' \subseteq Sessions
      BY <2>1 DEF Receive, Finish, TypeOK
    <2>3. UNCHANGED <<pc, tier, report, signals, created, leaked, aborts>>
      BY <2>1 DEF Receive, Finish
    <2> QED
      BY <2>2, <2>3 DEF TypeOK, tier, report, signals, aborts
  <1>19. CASE UNCHANGED vars
    BY <1>19 DEF TypeOK, vars, tier, report, signals, server, aborts
  <1> QED
    BY <1>1, <1>2, <1>3, <1>4, <1>5, <1>6, <1>7, <1>8, <1>9, <1>10, <1>11, <1>12,
       <1>13, <1>14, <1>15, <1>16, <1>17, <1>18, <1>19
       DEF Next, Step, Category

\* Every reachable state is well typed.
THEOREM TypeCorrect == Spec => []TypeOK
  <1>1. Spec => []Types
    BY InitTypes, NextTypes, PTL DEF Spec
  <1> QED
    BY <1>1, PTL DEF Types

-----------------------------------------------------------------------------
(* Sessions left open.  NoRunawaySession lets go of a session when the id   *)
(* is cleared, so the invariant adds that by then it is no longer at work.  *)

Settled ==
  pc \in {"tier", "score", "judge"} =>
    opened \cup busy \cup flight \subseteq unstopped \cup leaked

Clean == NoRunawaySession /\ Settled

\* After an abort was tried the session is quiet or counted as unstopped, and
\* nothing else has changed for the worse.
LEMMA AbortEffect ==
  ASSUME NEW s, TryAbort(s)
  PROVE  /\ opened' \subseteq opened /\ busy' \subseteq busy /\ flight' = flight
         /\ leaked' = leaked /\ created' = created
         /\ tried' = tried \cup {s}
         /\ unstopped \subseteq unstopped' \cup {s}
         /\ s \in opened' \cup busy' \cup flight' => s \in unstopped'
  BY DEF TryAbort, AbortDelivered, AbortFails, server

LEMMA AbortClean ==
  ASSUME Types, Clean, NEW s, TryAbort(s)
  PROVE  /\ opened' \cup busy' \cup flight' \subseteq {sid} \cup unstopped' \cup leaked'
         /\ Settled => (pc \in {"tier", "score", "judge"} =>
              opened' \cup busy' \cup flight' \subseteq unstopped' \cup leaked')
         /\ s = sid =>
              opened' \cup busy' \cup flight' \subseteq unstopped' \cup leaked'
  BY AbortEffect DEF Clean, NoRunawaySession, Settled

LEMMA NextClean == Types /\ Clean /\ [Next]_vars => Clean'
  <1> SUFFICES ASSUME Types, Clean, [Next]_vars
               PROVE  Clean'
    OBVIOUS
  <1> USE DEF Clean, NoRunawaySession, Settled
  <1>0. \A s \in opened \cup busy \cup flight : s # 0
    BY DEF Types, TypeOK, Sessions
  <1>1. CASE BeginTier
    BY <1>1 DEF BeginTier, server, aborts
  <1>2. CASE CreateSession
    BY <1>0, <1>2 DEF CreateSession, aborts, Types, Shape
  <1>3. CASE CreateFails
    <2>1. opened' \ opened \subseteq leaked' /\ leaked \subseteq leaked'
      BY <1>3 DEF CreateFails
    <2> QED
      BY <1>3, <2>1 DEF CreateFails, aborts
  <1>4. CASE Bind
    BY <1>4 DEF Bind, tier, server, aborts
  <1>5. CASE Post
    BY <1>5 DEF Post, tier, aborts
  <1>6. CASE Reply
    BY <1>6 DEF Reply, tier, aborts
  <1>7. CASE ErrorReply
    BY <1>7 DEF ErrorReply, aborts
  <1>8. CASE SendFails
    BY <1>8, AbortClean DEF SendFails
  <1>9. CASE Close
    BY <1>9, AbortClean DEF Close, tier
  <1>10. CASE GiveUpTier
    BY <1>10 DEF GiveUpTier, tier, server, aborts
  <1>11. CASE CleanUp
    <2>1. CASE sid # 0
      BY <1>11, <2>1, AbortClean DEF CleanUp, tier
    <2>2. CASE sid = 0
      BY <1>0, <1>11, <2>2 DEF CleanUp, tier, server, aborts
    <2> QED
      BY <2>1, <2>2
  <1>12. CASE RetryTier
    BY <1>12 DEF RetryTier, server, aborts
  <1>13. CASE FailTier
    BY <1>13 DEF FailTier, tier, server, aborts
  <1>14. CASE ScoreTier
    BY <1>14 DEF ScoreTier, server, aborts
  <1>15. CASE Signal
    BY <1>15 DEF Signal, tier, server, aborts
  <1>16. CASE HandlerAbort
    BY <1>16, AbortClean DEF HandlerAbort, tier
  <1>17. CASE SecondSignal
    BY <1>17 DEF SecondSignal, tier, server, aborts
  <1>18. CASE Server
    BY <1>18 DEF Server, Receive, Finish, tier, aborts
  <1>19. CASE UNCHANGED vars
    BY <1>19 DEF vars, tier, server, aborts
  <1> QED
    BY <1>1, <1>2, <1>3, <1>4, <1>5, <1>6, <1>7, <1>8, <1>9, <1>10, <1>11, <1>12,
       <1>13, <1>14, <1>15, <1>16, <1>17, <1>18, <1>19
       DEF Next, Step, Category

\* No session is left open or at work but the present one, save where the
\* abort failed, came too early, or the id was never learned.
THEOREM NoSessionRunsAway == Spec => []NoRunawaySession
  <1>1. Init => Clean
    BY DEF Init, Clean, NoRunawaySession, Settled
  <1>2. Spec => [](Types /\ Clean)
    BY <1>1, InitTypes, NextTypes, NextClean, PTL DEF Spec
  <1> QED
    BY <1>2, PTL DEF Clean

-----------------------------------------------------------------------------
(* What an interrupt leaves running.  The handler reads only the session id *)
(* bound in _CURRENT_RUN_STATE, so the invariant says that at every moment  *)
(* the turns it cannot see are the ones an abort was already tried for.     *)

Bound ==
  /\ pc \in {"tier", "create", "bind", "score", "judge"} => current = 0
  /\ pc \in {"setup", "setupWait", "probe", "probeWait", "close", "except"} =>
       current = sid

Watched == Bound /\ busy \cup flight \subseteq {current} \cup unstopped

LEMMA AbortWatched ==
  ASSUME Watched, NEW s, TryAbort(s), s = current
  PROVE  busy' \cup flight' \subseteq unstopped'
  BY AbortEffect DEF Watched

LEMMA NextWatched == Types /\ Watched /\ [Next]_vars => Watched'
  <1> SUFFICES ASSUME Types, Watched, [Next]_vars
               PROVE  Watched'
    OBVIOUS
  <1> USE DEF Watched, Bound
  <1>0. \A s \in busy \cup flight : s # 0
    BY DEF Types, TypeOK, Sessions
  <1>1. CASE BeginTier
    BY <1>1 DEF BeginTier, signals, server, aborts
  <1>2. CASE CreateSession
    BY <1>2 DEF CreateSession, signals, aborts
  <1>3. CASE CreateFails
    BY <1>3 DEF CreateFails, signals, aborts, Types, Shape
  <1>4. CASE Bind
    BY <1>0, <1>4 DEF Bind, tier, server, aborts
  <1>5. CASE Post
    BY <1>5 DEF Post, tier, signals, aborts
  <1>6. CASE Reply
    BY <1>6 DEF Reply, tier, signals, aborts
  <1>7. CASE ErrorReply
    BY <1>7 DEF ErrorReply, signals, aborts
  <1>8. CASE SendFails
    BY <1>8, AbortWatched DEF SendFails, signals
  <1>9. CASE Close
    BY <1>9, AbortWatched DEF Close, tier
  <1>10. CASE GiveUpTier
    BY <1>10 DEF GiveUpTier, tier, signals, server, aborts
  <1>11. CASE CleanUp
    <2>1. CASE sid # 0
      BY <1>11, <2>1, AbortWatched DEF CleanUp, tier
    <2>2. CASE sid = 0
      BY <1>11, <2>2 DEF CleanUp, tier, server, aborts
    <2> QED
      BY <2>1, <2>2
  <1>12. CASE RetryTier
    BY <1>12 DEF RetryTier, signals, server, aborts
  <1>13. CASE FailTier
    BY <1>13 DEF FailTier, tier, signals, server, aborts
  <1>14. CASE ScoreTier
    BY <1>14 DEF ScoreTier, signals, server, aborts
  <1>15. CASE Signal
    BY <1>15 DEF Signal, tier, server, aborts
  <1>16. CASE HandlerAbort
    BY <1>16, AbortWatched DEF HandlerAbort, tier
  <1>17. CASE SecondSignal
    BY <1>17 DEF SecondSignal, tier, server, aborts
  <1>18. CASE Server
    BY <1>18 DEF Server, Receive, Finish, tier, signals, aborts
  <1>19. CASE UNCHANGED vars
    BY <1>19 DEF vars, tier, signals, server, aborts
  <1> QED
    BY <1>1, <1>2, <1>3, <1>4, <1>5, <1>6, <1>7, <1>8, <1>9, <1>10, <1>11, <1>12,
       <1>13, <1>14, <1>15, <1>16, <1>17, <1>18, <1>19
       DEF Next, Step, Category

LEMMA InitWatched == Init => Watched
  BY DEF Init, Watched, Bound

\* Once the handler has run to its end, only turns it could not stop go on.
LEMMA NextInterrupt ==
  Types /\ Watched /\ InterruptStopsWork /\ [Next]_vars => InterruptStopsWork'
  <1> SUFFICES ASSUME Types, Watched, InterruptStopsWork, [Next]_vars,
                      handler' = "exit", ~impatient'
               PROVE  busy' \cup flight' \subseteq unstopped'
    BY DEF InterruptStopsWork
  <1>1. CASE Step
    <2>1. handler' = handler
      BY <1>1 DEF Step, Category, BeginTier, CreateSession, CreateFails, Bind, Post,
         Reply, ErrorReply, SendFails, Close, GiveUpTier, CleanUp, RetryTier,
         FailTier, ScoreTier, signals
    <2> QED
      BY <1>1, <2>1 DEF Step
  <1>2. CASE Signal
    <2>1. current = 0
      BY <1>2 DEF Signal
    <2> QED
      BY <1>2, <2>1 DEF Signal, Watched, Types, TypeOK, Sessions, server, aborts
  <1>3. CASE HandlerAbort
    BY <1>3, AbortWatched DEF HandlerAbort
  <1>4. CASE SecondSignal
    BY <1>4 DEF SecondSignal
  <1>5. CASE Server
    BY <1>5 DEF Server, Receive, Finish, signals, aborts, InterruptStopsWork
  <1>6. CASE UNCHANGED vars
    BY <1>6 DEF vars, signals, server, aborts, InterruptStopsWork
  <1> QED
    BY <1>1, <1>2, <1>3, <1>4, <1>5, <1>6 DEF Next

\* After an interrupt no turn goes on that its handler could have stopped.
THEOREM InterruptIsEnough == Spec => []InterruptStopsWork
  <1>1. Init => InterruptStopsWork
    BY DEF Init, InterruptStopsWork
  <1> QED
    BY <1>1, InitTypes, NextTypes, InitWatched, NextWatched, NextInterrupt, PTL
       DEF Spec

-----------------------------------------------------------------------------
(* No message to a session that was aborted or is at work.                 *)

Fresh ==
  handler = "off" =>
    /\ pc \in {"bind", "setup", "setupWait", "probe", "probeWait", "close"} =>
         sid \notin tried
    /\ pc \in {"bind", "setup", "probe"} => sid \notin busy \cup flight

LEMMA NextFresh == Types /\ Fresh /\ [Next]_vars => Fresh'
  <1> SUFFICES ASSUME Types, Fresh, [Next]_vars
               PROVE  Fresh'
    OBVIOUS
  <1> USE DEF Fresh
  <1>1. CASE BeginTier
    BY <1>1 DEF BeginTier
  <1>2. CASE CreateSession
    <2>1. created + 1 \notin busy \cup flight \cup tried
      BY DEF Types, TypeOK, Sessions
    <2> QED
      BY <1>2, <2>1 DEF CreateSession, signals, aborts
  <1>3. CASE CreateFails
    BY <1>3 DEF CreateFails
  <1>4. CASE Bind
    BY <1>4 DEF Bind, tier, server, aborts
  <1>5. CASE Post
    BY <1>5 DEF Post, tier, signals, aborts
  <1>6. CASE Reply
    BY <1>6 DEF Reply, tier, signals, aborts
  <1>7. CASE ErrorReply
    BY <1>7 DEF ErrorReply
  <1>8. CASE SendFails
    BY <1>8 DEF SendFails
  <1>9. CASE Close
    BY <1>9 DEF Close
  <1>10. CASE GiveUpTier
    BY <1>10 DEF GiveUpTier
  <1>11. CASE CleanUp
    BY <1>11 DEF CleanUp
  <1>12. CASE RetryTier
    BY <1>12 DEF RetryTier
  <1>13. CASE FailTier
    BY <1>13 DEF FailTier
  <1>14. CASE ScoreTier
    BY <1>14 DEF ScoreTier
  <1>15. CASE Signal
    BY <1>15 DEF Signal
  <1>16. CASE HandlerAbort
    BY <1>16 DEF HandlerAbort
  <1>17. CASE SecondSignal
    BY <1>17 DEF SecondSignal
  <1>18. CASE Server
    BY <1>18 DEF Server, Receive, Finish, tier, signals, aborts
  <1>19. CASE UNCHANGED vars
    BY <1>19 DEF vars, tier, signals, server, aborts
  <1> QED
    BY <1>1, <1>2, <1>3, <1>4, <1>5, <1>6, <1>7, <1>8, <1>9, <1>10, <1>11, <1>12,
       <1>13, <1>14, <1>15, <1>16, <1>17, <1>18, <1>19
       DEF Next, Step, Category

LEMMA NextPosts ==
  Types /\ Fresh /\ [Next]_vars =>
    [\A s \in flight' \ flight : s \notin tried \cup busy]_vars
  <1> SUFFICES ASSUME Types, Fresh, [Next]_vars, NEW s \in flight' \ flight
               PROVE  s \notin tried \cup busy
    OBVIOUS
  <1>1. CASE Step /\ Post
    BY <1>1 DEF Step, Post, Fresh
  <1>2. CASE Step /\ ~Post
    <2>1. flight' = flight
      BY <1>2, AbortEffect DEF Step, Category, BeginTier, CreateSession, CreateFails,
         Bind, Reply, ErrorReply, SendFails, Close, GiveUpTier, CleanUp, RetryTier,
         FailTier, ScoreTier, server
    <2> QED
      BY <2>1
  <1>3. CASE ~Step
    <2>1. flight' \subseteq flight
      BY <1>3, AbortEffect DEF Next, Signal, HandlerAbort, SecondSignal, Server,
         Receive, Finish, vars, server
    <2> QED
      BY <2>1
  <1> QED
    BY <1>1, <1>2, <1>3

\* abort_session's rule is kept: a session that was aborted, or has a turn
\* running, gets no further message.
THEOREM NoRepost == Spec => NeverReposts
  <1>1. Init => Fresh
    BY DEF Init, Fresh
  <1> QED
    BY <1>1, InitTypes, NextTypes, NextFresh, NextPosts, PTL DEF Spec, NeverReposts

-----------------------------------------------------------------------------
(* The report.  While the ladder is climbed the report is the list of the   *)
(* tiers below pos, all passed; when it ends, the last entry may be another. *)

Story ==
  /\ EntriesMatch
  /\ Len(dots) \in {pos - 1, pos}
  /\ pc # "done" => Len(dots) = pos - 1
  /\ \A i \in 1 .. Len(dots) : dots[i] = "." <=> i < pos
  /\ ceiling = IF pos = 1 THEN 0 ELSE Ladder[pos - 1]

\* What a step does to the report and the ceiling: nothing, or it ends the
\* category on a tier that did not pass, or it passes one.
StopsOn(mark, s) ==
  /\ pc' = "done" /\ Append1(mark, s) /\ UNCHANGED <<pos, ceiling>>
Passes(s) ==
  /\ pc' = "tier" /\ Append1(".", s) /\ pos' = pos + 1 /\ ceiling' = Ladder[pos]
Verdict ==
  /\ pc \notin {"tier", "done"}
  /\ \/ \E mark \in Marks \ {"."}, s \in Nat : StopsOn(mark, s)
     \/ \E s \in Nat : Passes(s)

\* A tier's entry put at the end of the report of the tiers before it.
LEMMA AppendStory ==
  ASSUME Types, Story, pc \notin {"tier", "done"}, NEW mark \in Marks,
         NEW s \in Nat, Append1(mark, s)
  PROVE  /\ Len(dots') = pos /\ Len(results') = pos
         /\ \A i \in 1 .. pos - 1 : dots'[i] = dots[i] /\ results'[i] = results[i]
         /\ dots'[pos] = mark
         /\ results'[pos] = [tier |-> Ladder[pos], mark |-> mark, session |-> s]
         /\ pos \in 1 .. Len(Ladder)
         /\ Len(dots) = pos - 1 /\ Len(results) = pos - 1
  BY CategoryAssumption DEF Types, TypeOK, Shape, Story, EntriesMatch, Append1

LEMMA AppendedEntries ==
  ASSUME Types, Story, pc \notin {"tier", "done"}, NEW mark \in Marks,
         NEW s \in Nat, Append1(mark, s)
  PROVE  EntriesMatch'
  <1>1. Len(results') = pos /\ Len(results) = pos - 1 /\ pos \in 1 .. Len(Ladder)
    BY AppendStory
  <1>2. ASSUME NEW i \in 1 .. Len(results')
        PROVE  /\ i <= Len(Ladder)
               /\ results'[i].tier = Ladder[i] /\ results'[i].mark = dots'[i]
    <2>1. CASE i = pos
      <3>1. /\ results'[i] = [tier |-> Ladder[i], mark |-> mark, session |-> s]
            /\ dots'[i] = mark
        BY <2>1, AppendStory
      <3>2. results'[i].tier = Ladder[i] /\ results'[i].mark = mark
        BY <3>1
      <3>3. i <= Len(Ladder)
        BY <1>1, <2>1, CategoryAssumption
      <3> QED
        BY <3>1, <3>2, <3>3
    <2>2. CASE i \in 1 .. pos - 1
      BY <1>1, <2>2, AppendStory DEF Story, EntriesMatch
    <2> QED
      BY <1>1, <2>1, <2>2, AppendStory
  <1> QED
    BY <1>2, AppendStory DEF EntriesMatch

\* A category that ends with a tier that did not pass keeps its ceiling.
LEMMA StopStory ==
  ASSUME Types, Story, pc \notin {"tier", "done"}, NEW mark \in Marks \ {"."},
         NEW s \in Nat, StopsOn(mark, s)
  PROVE  Story'
  <1> USE DEF StopsOn
  <1>1. EntriesMatch'
    BY AppendedEntries
  <1>2. Len(dots') = pos /\ Len(dots) = pos - 1 /\ pos \in 1 .. Len(Ladder)
    BY AppendStory
  <1>3. /\ \A i \in 1 .. pos - 1 : dots'[i] = dots[i]
        /\ dots'[pos] = mark
    BY AppendStory
  <1>4. \A i \in 1 .. Len(dots') : dots'[i] = "." <=> i < pos
    BY <1>2, <1>3, CategoryAssumption DEF Story
  <1> QED
    BY <1>1, <1>2, <1>4 DEF Story, StopsOn

LEMMA PassStory ==
  ASSUME Types, Story, pc \notin {"tier", "done"}, NEW s \in Nat, Passes(s)
  PROVE  Story'
  <1> USE DEF Passes
  <1>1. EntriesMatch'
    BY AppendedEntries DEF Marks
  <1>2. Len(dots') = pos /\ Len(dots) = pos - 1 /\ pos \in 1 .. Len(Ladder)
    BY AppendStory DEF Marks
  <1>3. /\ \A i \in 1 .. pos - 1 : dots'[i] = dots[i]
        /\ dots'[pos] = "."
    BY AppendStory DEF Marks
  <1>4. \A i \in 1 .. Len(dots') : dots'[i] = "." <=> i < pos'
    BY <1>2, <1>3, CategoryAssumption DEF Story
  <1> QED
    BY <1>1, <1>2, <1>4, CategoryAssumption DEF Story

LEMMA StepVerdict ==
  ASSUME Types, [Next]_vars
  PROVE  \/ Verdict
         \/ UNCHANGED <<report, pos>> /\ (pc = "done" => pc' = "done")
                                      /\ (pc' = "done" => pc \in {"tier", "done"})
  <1>1. CASE Step
    <2>1. CASE BeginTier
      BY <2>1 DEF BeginTier
    <2>2. CASE GiveUpTier
      <3>1. pc' = "done" /\ UNCHANGED <<pos, ceiling>> /\ pc = "except"
        BY <2>2 DEF GiveUpTier, tier
      <3>2. Append1("Q", sid) \/ Append1("E", 0)
        BY <2>2 DEF GiveUpTier
      <3>3. sid \in Nat /\ "Q" \in Marks \ {"."} /\ "E" \in Marks \ {"."}
        BY DEF Types, TypeOK, Marks
      <3> QED
        BY <3>1, <3>2, <3>3 DEF Verdict, StopsOn
    <2>3. CASE FailTier
      <3>1. "E" \in Marks \ {"."} /\ pc = "judge" /\ StopsOn("E", 0)
        BY <2>3 DEF FailTier, Marks, StopsOn, tier
      <3> QED
        BY <3>1 DEF Verdict
    <2>4. CASE ScoreTier
      <3>1. PICK scan \in Scans, manual \in BOOLEAN :
              LET mark == CheckPass(scan, manual) IN
              /\ Append1(mark, sid)
              /\ IF GoesOn(mark)
                   THEN pc' = "tier" /\ pos' = pos + 1 /\ ceiling' = Ladder[pos]
                   ELSE pc' = "done" /\ UNCHANGED <<pos, ceiling>>
        BY <2>4 DEF ScoreTier
      <3>2. CheckPass(scan, manual) \in Marks /\ sid \in Nat /\ pc = "score"
        BY <2>4 DEF CheckPass, Marks, ScoreTier, Types, TypeOK
      <3>3. CASE CheckPass(scan, manual) = "."
        <4>1. Passes(sid)
          BY <3>1, <3>3 DEF GoesOn, Passes
        <4> QED
          BY <3>2, <4>1 DEF Verdict
      <3>4. CASE CheckPass(scan, manual) # "."
        <4>1. StopsOn(CheckPass(scan, manual), sid)
          BY <3>1, <3>4 DEF GoesOn, StopsOn
        <4> QED
          BY <3>2, <3>4, <4>1 DEF Verdict
      <3> QED
        BY <3>3, <3>4
    <2>5. CASE CreateSession \/ CreateFails \/ Bind \/ Post \/ Reply \/ ErrorReply
               \/ SendFails \/ Close \/ CleanUp \/ RetryTier
      BY <2>5 DEF CreateSession, CreateFails, Bind, Post, Reply, ErrorReply, SendFails,
         Close, CleanUp, RetryTier, tier
    <2> QED
      BY <1>1, <2>1, <2>2, <2>3, <2>4, <2>5 DEF Step, Category
  <1>2. CASE ~Step
    BY <1>2 DEF Next, Signal, HandlerAbort, SecondSignal, Server, Receive, Finish, vars,
       tier
  <1> QED
    BY <1>1, <1>2

LEMMA NextStory == Types /\ Story /\ [Next]_vars => Story'
  <1> SUFFICES ASSUME Types, Story, [Next]_vars
               PROVE  Story'
    OBVIOUS
  <1>1. CASE Verdict
    BY <1>1, StopStory, PassStory DEF Verdict, StopsOn, Passes
  <1>2. CASE UNCHANGED <<report, pos>> /\ (pc = "done" => pc' = "done")
    BY <1>2 DEF Story, EntriesMatch, report
  <1> QED
    BY <1>1, <1>2, StepVerdict

LEMMA InitStory == Init => Story
  BY DEF Init, Story, EntriesMatch

LEMMA StoryConsistent ==
  ASSUME Types, Story
  PROVE  ReportConsistent
  <1>1. Len(dots) \in Nat /\ pos \in Nat \ {0}
    BY DEF Types, TypeOK
  <1>2. OnlyLastFails
    BY <1>1 DEF Story, OnlyLastFails
  <1>3. PassedTiers = 1 .. pos - 1
    BY <1>1 DEF Story, PassedTiers
  <1>4. CeilingEarned
    <2>1. CASE pos = 1
      BY <1>3, <2>1 DEF Story, CeilingEarned
    <2>2. CASE pos > 1
      <3>1. pos - 1 \in PassedTiers /\ ceiling = Ladder[pos - 1]
        BY <1>1, <1>3, <2>2 DEF Story
      <3>2. \A i \in PassedTiers :
              (\A j \in PassedTiers : j <= i) => i = pos - 1
        BY <1>1, <1>3, <3>1
      <3> QED
        BY <3>1, <3>2 DEF CeilingEarned
    <2> QED
      BY <1>1, <2>1, <2>2
  <1> QED
    BY <1>2, <1>4 DEF Story, ReportConsistent

\* The report of every category, of any ladder, is consistent.
THEOREM ReportIsConsistent == Spec => []ReportConsistent
  <1>1. Spec => [](Types /\ Story)
    BY InitTypes, NextTypes, InitStory, NextStory, PTL DEF Spec
  <1> QED
    BY <1>1, StoryConsistent, PTL

-----------------------------------------------------------------------------
(* The escalation rule.  The tiers passed are those below pos, so a step    *)
(* that scores a tier is a Pass or a Stop of the rule, and any other step   *)
(* a stutter, or the Stop at the ladder's end.                              *)

LEMMA PassedCount == Types /\ Story => Cardinality(PassedTiers) = pos - 1
  <1> SUFFICES ASSUME Types, Story
               PROVE  Cardinality(PassedTiers) = pos - 1
    OBVIOUS
  <1>1. PassedTiers = 1 .. pos - 1
    BY DEF Types, TypeOK, Story, PassedTiers
  <1>2. pos \in Int /\ pos >= 1
    BY DEF Types, TypeOK
  <1> QED
    BY <1>1, <1>2, FS_Interval

LEMMA InitRule == Init => Rule!Init
  <1> SUFFICES ASSUME Init PROVE Rule!Init
    OBVIOUS
  <1>1. Cardinality(PassedTiers) = 0
    BY InitTypes, InitStory, PassedCount DEF Init
  <1> QED
    BY <1>1 DEF Init, Rule!Init

LEMMA NextRule ==
  ASSUME Types, Types', Story, Story', [Next]_vars
  PROVE  [Rule!Next]_Rule!vars
  <1>1. Cardinality(PassedTiers) = pos - 1
    BY PassedCount
  <1>2. (Cardinality(PassedTiers) = pos - 1)'
    BY PassedCount, PTL
  <1>3. pos \in Nat \ {0} /\ pos' \in Nat \ {0}
    BY DEF Types, TypeOK
  <1>4. ASSUME pc \notin {"tier", "done"}, NEW mark \in Marks, NEW s \in Nat,
               StopsOn(mark, s)
        PROVE  Rule!Stop
    BY <1>1, <1>2, <1>4 DEF StopsOn, Rule!Stop
  <1>5. ASSUME pc \notin {"tier", "done"}, NEW s \in Nat, Passes(s)
        PROVE  Rule!Pass
    <2>1. Cardinality(PassedTiers)' = pos /\ pos <= Len(Ladder)
      BY <1>2, <1>3, <1>5 DEF Passes, Types, Shape
    <2> QED
      BY <1>1, <1>3, <1>5, <2>1, CategoryAssumption DEF Passes, Rule!Pass
  <1>6. CASE Verdict
    BY <1>4, <1>5, <1>6 DEF Verdict, Rule!Next
  <1>7. CASE UNCHANGED <<report, pos>> /\ (pc = "done" => pc' = "done")
    <2>1. UNCHANGED <<Cardinality(PassedTiers), ceiling>>
      BY <1>1, <1>2, <1>7 DEF report
    <2>2. CASE pc # "done" /\ pc' = "done"
      BY <2>1, <2>2 DEF Rule!Next, Rule!Stop
    <2>3. CASE pc = "done" \/ pc' # "done"
      BY <1>7, <2>1, <2>3 DEF Rule!vars
    <2> QED
      BY <2>2, <2>3
  <1> QED
    BY <1>6, <1>7, StepVerdict

\* run_category() of any ladder goes by the escalation rule.
THEOREM CategoryFollowsRule == Spec => FollowsEscalationRule
  <1>1. Spec => [](Types /\ Story)
    BY InitTypes, NextTypes, InitStory, NextStory, PTL DEF Spec
  <1> QED
    BY <1>1, InitRule, NextRule, PTL DEF Spec, FollowsEscalationRule, Rule!Spec

-----------------------------------------------------------------------------
(* The session budget.  Every try takes one session, and a tier's tries are *)
(* counted down from RetryLimit + 1.                                        *)

Before == (pos - 1) * (RetryLimit + 1)    \* what the earlier tiers may cost

Spent ==
  /\ pc = "tier" => created <= Before
  /\ pc = "create" => created <= Before + (RetryLimit - left)
  /\ created <= Before + (RetryLimit + 1 - left)

LEMMA NextSpent == Types /\ Types' /\ Spent /\ [Next]_vars => Spent'
  <1> SUFFICES ASSUME Types, Types', Spent, [Next]_vars
               PROVE  Spent'
    OBVIOUS
  <1>0. /\ RetryLimit \in Nat /\ left \in 0 .. RetryLimit /\ left' \in 0 .. RetryLimit
        /\ created \in Nat /\ created' \in Nat /\ pos \in Nat \ {0} /\ pos' \in Nat \ {0}
    BY CategoryAssumption DEF Types, TypeOK
  <1>b. Before \in Int
    BY <1>0 DEF Before
  <1>1. CASE BeginTier
    <2>1. UNCHANGED <<pos, created>> /\ pc = "tier"
      BY <1>1 DEF BeginTier, server
    <2>2. Before' = Before
      BY <2>1 DEF Before
    <2>3. created <= Before
      BY <2>1 DEF Spent
    <2>4. PICK k \in 0 .. RetryLimit : left' = k
      BY <1>0
    <2>5. /\ created <= Before + (RetryLimit - k)
          /\ created <= Before + (RetryLimit + 1 - k)
      BY <1>0, <1>b, <2>3
    <2> QED
      BY <2>1, <2>2, <2>3, <2>4, <2>5 DEF Spent
  <1>2. CASE CreateSession \/ CreateFails
    <2>1. pc = "create" /\ pc' \notin {"tier", "create"} /\ UNCHANGED <<pos, left>>
      BY <1>2 DEF CreateSession, CreateFails
    <2>2. created' \in {created, created + 1}
      BY <1>2 DEF CreateSession, CreateFails
    <2>3. Before' = Before
      BY <2>1 DEF Before
    <2> QED
      BY <1>0, <1>b, <2>1, <2>2, <2>3 DEF Spent
  <1>3. CASE RetryTier
    <2>1. UNCHANGED <<pos, created>> /\ left' = left - 1 /\ pc' = "create"
      BY <1>3 DEF RetryTier, LeftAfter, server
    <2>2. Before' = Before
      BY <2>1 DEF Before
    <2> QED
      BY <1>0, <1>b, <2>1, <2>2 DEF Spent
  <1>4. CASE ScoreTier
    <2>1. UNCHANGED <<left, created>>
      BY <1>4 DEF ScoreTier, server
    <2>2. CASE pc' = "done" /\ pos' = pos
      BY <2>1, <2>2 DEF Spent, Before
    <2>3. CASE pc' = "tier" /\ pos' = pos + 1
      <3>1. Before' = Before + (RetryLimit + 1)
        BY <1>0, <2>3 DEF Before
      <3> QED
        BY <1>0, <1>b, <2>1, <2>3, <3>1 DEF Spent
    <2> QED
      BY <1>4, <2>2, <2>3 DEF ScoreTier
  <1>5. CASE UNCHANGED <<pos, left, created>> /\ (pc' = pc \/ pc' \notin {"tier", "create"})
    BY <1>5 DEF Spent, Before
  <1>6. CASE Bind \/ Post \/ Reply \/ ErrorReply \/ SendFails \/ Close
             \/ GiveUpTier \/ CleanUp \/ FailTier
    <2>1. UNCHANGED <<pos, left, created>> /\ pc' \notin {"tier", "create"}
      BY <1>6, AbortEffect DEF Bind, Post, Reply, ErrorReply, SendFails, Close,
         GiveUpTier, CleanUp, FailTier, tier, server
    <2> QED
      BY <1>5, <2>1
  <1>7. CASE ~Step
    <2>1. UNCHANGED <<pos, left, created, pc>>
      BY <1>7, AbortEffect DEF Next, Signal, HandlerAbort, SecondSignal, Server, Receive,
         Finish, vars, tier, server
    <2> QED
      BY <1>5, <2>1
  <1> QED
    BY <1>1, <1>2, <1>3, <1>4, <1>6, <1>7 DEF Step, Category

\* However its tiers fail, a category costs no more than its budget.
THEOREM WithinBudget == Spec => []SessionBudget
  <1>1. Init => Spent
    BY CategoryAssumption DEF Init, Spent, Before
  <1>2. Types /\ Spent => SessionBudget
    <2> SUFFICES ASSUME Types, Spent PROVE SessionBudget
      OBVIOUS
    <2>1. /\ RetryLimit \in Nat /\ left \in Nat /\ created \in Nat /\ pos \in Nat
      BY CategoryAssumption DEF Types, TypeOK
    <2>2. pos * (RetryLimit + 1) = Before + (RetryLimit + 1) /\ Before \in Int
      BY <2>1 DEF Before
    <2> QED
      BY <2>1, <2>2 DEF Spent, SessionBudget
  <1> QED
    BY <1>1, <1>2, InitTypes, NextTypes, NextSpent, PTL DEF Spec

=============================================================================
