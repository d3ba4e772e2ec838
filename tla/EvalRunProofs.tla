---------------------------- MODULE EvalRunProofs ----------------------------
(***************************************************************************)
(* What main() does to the results directory of a model, for any number of *)
(* runs, any selections and whatever earlier runs have left there.         *)
(*                                                                         *)
(* The argument: a run that is alive and has made its directory is, with   *)
(* the runs beside it, the only one with files in it (Owned), for it moved *)
(* away what was there and nobody could have come since without being      *)
(* beside it (Alone).                                                      *)
(***************************************************************************)
EXTENDS EvalRun, TLAPS

\* The steps of a run that has its directory.
Placed == {"open", "category", "tier", "capture", "unload"}

\* Which step has which locals.
Shape ==
  \A r \in Runs :
    /\ local[r].placed => pc[r] \in Placed \cup {"handler"}
    /\ pc[r] \in Placed => local[r].placed
    /\ pc[r] = "move" => local[r].stamp # 0
    /\ pc[r] = "tier" => local[r].todo # <<>>

Types == TypeOK /\ Shape

\* Files and sub-directories lie in directories, and a rotation that was nested
\* has a directory to be nested in.
Tidy ==
  /\ \A e \in dirs \cup files : Exists(e.place, "top")
  /\ \A d \in dirs : d.place.nested => Exists(Rotated(d.place.stamp), "top")

\* Runs that are alive at the same time know of it.
Alone == \A q, r \in Runs : Alive(q) /\ Alive(r) /\ q # r => q \in overlapped

\* What a run finds in the directory it has made.
Owned ==
  \A r \in Runs : \A e \in files :
    e.place = Current /\ (pc[r] = "mkdir" \/ local[r].placed)
      => e.by = r \/ e.by \in overlapped

\* The directory stays where it is while nobody else is there.
Standing ==
  \A r \in Runs \ overlapped :
    /\ pc[r] \in Placed \cup {"move"} => Exists(Current, "top")
    /\ pc[r] = "tier" => Exists(Current, Head(local[r].todo))

-----------------------------------------------------------------------------
(* Types.                                                                  *)

\* The three kinds of place are places, and differ.
LEMMA PlaceFacts ==
  /\ Current \in Places /\ Current.stamp = 0 /\ Current.nested = FALSE
  /\ \A t \in Stamps : /\ Rotated(t) \in Places /\ Nested(t) \in Places
                       /\ Rotated(t) # Current /\ Nested(t) # Current
                       /\ Rotated(t) # Nested(t)
  BY EvalAssumption DEF Current, Places, Rotated, Nested, Stamps

\* The types and the shape of a run's memory hold to begin with.
LEMMA InitTypes == Init => Types
  <1> SUFFICES ASSUME Init PROVE Types
    OBVIOUS
  <1>1. dirs \subseteq Dirs /\ files \subseteq Files
    BY EvalAssumption DEF Init, Left
  <1>2. wrote \subseteq (Runs \cup {Earlier}) \X Names
    BY <1>1 DEF Init, Files
  <1>3. NoLocal \in Locals
    BY DEF NoLocal, Locals
  <1>4. TypeOK
    BY <1>1, <1>2, <1>3, EvalAssumption DEF Init, TypeOK, Stamps
  <1>5. Shape
    BY DEF Init, Shape, NoLocal, Placed
  <1> QED
    BY <1>4, <1>5 DEF Types

\* The three ways a directory changes leave it well typed.
LEMMA TreeTyped ==
  ASSUME TypeOK, NEW r \in Runs
  PROVE  /\ \A names \in SUBSET Categories : Made(names) \subseteq Dirs
         /\ \A name \in Names : Write(r, name) \/ AppendTo(r, name)
              => files' \subseteq Files /\ wrote' \subseteq (Runs \cup {Earlier}) \X Names
         /\ \A p \in Places : /\ \A D \in SUBSET Dirs : Moved(D, p) \subseteq Dirs
                              /\ \A F \in SUBSET Files : Moved(F, p) \subseteq Files
  BY PlaceFacts DEF TypeOK, Made, Write, AppendTo, Moved, Dirs, Files

\* Every step of main(), of the handler and of the clock keeps them.
LEMMA NextTypes == Types /\ [Next]_vars => Types'
  <1> SUFFICES ASSUME Types, [Next]_vars PROVE Types'
    OBVIOUS
  <1> USE DEF Types
  <1>1. CASE UNCHANGED vars
    BY <1>1 DEF vars, tree, TypeOK, Shape
  <1>2. CASE Tick
    <2>1. second' \in Stamps
      BY <1>2, EvalAssumption DEF Tick, TypeOK, Stamps
    <2> QED
      BY <1>2, <2>1 DEF Tick, tree, TypeOK, Shape
  <1>3. ASSUME NEW r \in Runs, Step(r) PROVE Types'
    <2> DEFINE lr == local[r]
    <2>0. lr \in Locals /\ pc[r] \in Steps \cup Ends \cup {"idle", "handler"}
      BY DEF TypeOK
    <2>a. ASSUME NEW how \in Ends, End(r, how)
          PROVE  /\ pc' \in [Runs -> Steps \cup Ends \cup {"idle", "handler"}]
                 /\ local' \in [Runs -> Locals]
                 /\ Shape'
      BY <2>a DEF End, TypeOK, Shape, NoLocal, Locals, Ends, Placed
    <2>1. CASE Start(r)
      <3>1. PICK s \in Selections : local' = [local EXCEPT ![r].todo = s]
        BY <2>1 DEF Start
      <3>2. local' \in [Runs -> Locals]
        BY <3>1, <2>0, EvalAssumption DEF TypeOK, Locals
      <3>3. pc' \in [Runs -> Steps \cup Ends \cup {"idle", "handler"}] /\ overlapped' \subseteq Runs
        BY <2>1 DEF Start, TypeOK, Steps
      <3>4. Shape'
        BY <2>1, <3>1, <2>0 DEF Start, Shape, TypeOK, Placed, Locals
      <3> QED
        BY <2>1, <3>2, <3>3, <3>4 DEF Start, TypeOK, tree
    <2>2. CASE CheckPrevious(r)
      <3>1. CASE /\ pc' = [pc EXCEPT ![r] = "move"]
                 /\ local' = [local EXCEPT ![r].stamp = second]
        <4>1. local' \in [Runs -> Locals]
          BY <3>1, <2>0 DEF TypeOK, Locals
        <4>2. second # 0
          BY DEF TypeOK, Stamps
        <4>3. Shape'
          BY <3>1, <4>2, <2>2, <2>0 DEF CheckPrevious, Shape, TypeOK, Placed, Locals
        <4> QED
          BY <2>2, <3>1, <4>1, <4>3 DEF CheckPrevious, TypeOK, tree, Steps
      <3>2. CASE Goto(r, "mkdir")
        BY <2>2, <3>2, <2>0 DEF CheckPrevious, Goto, TypeOK, tree, Steps, Shape, Placed
      <3> QED
        BY <2>2, <3>1, <3>2 DEF CheckPrevious
    <2>3. CASE Rotate(r)
      <3>1. lr.stamp \in Stamps
        BY <2>3, <2>0 DEF Rotate, Shape, Locals
      <3>2. Destination(r) \in Places
        BY <3>1 DEF Destination, Places, Exists
      <3>3. dirs' \subseteq Dirs /\ files' \subseteq Files
        BY <2>3, <3>2, TreeTyped DEF Rotate, TypeOK
      <3>4. local' \in [Runs -> Locals]
        BY <2>3, <2>0 DEF Rotate, TypeOK, Locals
      <3>5. Shape'
        BY <2>3, <2>0 DEF Rotate, Shape, TypeOK, Placed, Locals
      <3> QED
        BY <2>3, <3>3, <3>4, <3>5 DEF Rotate, TypeOK, Steps
    <2>4. CASE RotateFails(r)
      BY <2>4, <2>a DEF RotateFails, TypeOK, tree, Ends
    <2>5. CASE MakeDir(r)
      <3>1. dirs' \subseteq Dirs
        BY <2>5, TreeTyped DEF MakeDir
      <3>2. local' \in [Runs -> Locals] /\ Shape'
        BY <2>5, <2>0 DEF MakeDir, Shape, TypeOK, Placed, Locals
      <3> QED
        BY <2>5, <3>1, <3>2 DEF MakeDir, TypeOK, Steps
    <2>6. CASE OpenLog(r)
      <3>1. CASE Goto(r, "category") /\ AppendTo(r, "log")
        BY <2>6, <3>1, <2>0, TreeTyped DEF OpenLog, Goto, TypeOK, Shape, Placed, Steps, Names
      <3>2. CASE End(r, "lost") /\ UNCHANGED <<files, wrote>>
        BY <2>6, <3>2, <2>a DEF OpenLog, TypeOK, Ends
      <3> QED
        BY <2>6, <3>1, <3>2 DEF OpenLog
    <2>7. CASE BeginCategory(r)
      <3>1. Head(lr.todo) \in Categories
        BY <2>7, <2>0 DEF BeginCategory, Locals
      <3>2. dirs' \subseteq Dirs
        BY <2>7, <3>1, TreeTyped DEF BeginCategory
      <3> QED
        BY <2>7, <3>2, <2>0 DEF BeginCategory, Goto, TypeOK, Shape, Placed, Steps
    <2>8. CASE ScoreTier(r)
      <3>1. Head(lr.todo) \in Names
        BY <2>8, <2>0 DEF ScoreTier, Locals, Shape, Names
      <3>2. CASE Goto(r, "tier") /\ Write(r, Head(lr.todo))
        BY <2>8, <3>1, <3>2, <2>0, TreeTyped DEF ScoreTier, Goto, TypeOK, Shape, Placed, Steps
      <3>3. CASE End(r, "lost") /\ UNCHANGED <<files, wrote>>
        BY <2>8, <3>3, <2>a DEF ScoreTier, TypeOK, Ends
      <3> QED
        BY <2>8, <3>2, <3>3 DEF ScoreTier
    <2>9. CASE EndCategory(r)
      <3>1. Tail(lr.todo) \in Seq(Categories)
        BY <2>9, <2>0 DEF EndCategory, Locals, Shape
      <3>2. local' \in [Runs -> Locals]
        BY <2>9, <2>0, <3>1 DEF EndCategory, TypeOK, Locals
      <3>3. Shape'
        BY <2>9, <2>0, <3>1 DEF EndCategory, TypeOK, Locals, Shape, Placed
      <3> QED
        BY <2>9, <3>2, <3>3 DEF EndCategory, TypeOK, Steps, tree
    <2>10. CASE WriteReport(r)
      <3>1. CASE Goto(r, "capture") /\ Write(r, "report")
        BY <2>10, <3>1, <2>0, TreeTyped DEF WriteReport, Goto, TypeOK, Shape, Placed, Steps, Names
      <3>2. CASE End(r, "lost") /\ UNCHANGED <<files, wrote>>
        BY <2>10, <3>2, <2>a DEF WriteReport, TypeOK, Ends
      <3> QED
        BY <2>10, <3>1, <3>2 DEF WriteReport
    <2>11. CASE CaptureLog(r)
      <3>1. files' \subseteq Files /\ wrote' \subseteq (Runs \cup {Earlier}) \X Names
        BY <2>11, TreeTyped DEF CaptureLog, TypeOK, Names
      <3> QED
        BY <2>11, <3>1, <2>0 DEF CaptureLog, Goto, TypeOK, Shape, Placed, Steps
    <2>12. CASE Finish(r)
      BY <2>12, <2>a DEF Finish, TypeOK, tree, Ends
    <2>13. CASE Signal(r)
      BY <2>13, <2>0 DEF Signal, Goto, TypeOK, tree, Shape, Placed, Steps
    <2>14. CASE HandlerCopies(r)
      <3>1. dirs' \subseteq Dirs
        BY <2>14, TreeTyped DEF HandlerCopies
      <3>2. files' \subseteq Files /\ wrote' \subseteq (Runs \cup {Earlier}) \X Names
        BY <2>14, TreeTyped DEF HandlerCopies, Names
      <3> QED
        BY <2>14, <3>1, <3>2, <2>a DEF HandlerCopies, TypeOK, Ends
    <2>15. CASE HandlerExits(r)
      BY <2>15, <2>a DEF HandlerExits, TypeOK, tree, Ends
    <2>16. CASE Die(r)
      BY <2>16, <2>a DEF Die, TypeOK, tree, Ends
    <2> QED
      BY <1>3, <2>1, <2>2, <2>3, <2>4, <2>5, <2>6, <2>7, <2>8, <2>9, <2>10, <2>11, <2>12,
         <2>13, <2>14, <2>15, <2>16 DEF Step
  <1> QED
    BY <1>1, <1>2, <1>3 DEF Next

-----------------------------------------------------------------------------
(* Who is there.                                                           *)

\* A step is its run's own: the others stay where they are, and only a start
\* brings a run to life.
LEMMA StepIsOwn ==
  ASSUME Types, NEW r \in Runs, Step(r)
  PROVE  /\ \A q \in Runs \ {r} : pc'[q] = pc[q] /\ local'[q] = local[q]
         /\ Start(r) \/ (Alive(r) /\ UNCHANGED overlapped)
         /\ second' = second
  <1> USE DEF Types, TypeOK, Alive, Steps
  <1>1. CASE Start(r)
    BY <1>1 DEF Start
  <1>2. CASE CheckPrevious(r)
    BY <1>2 DEF CheckPrevious, Goto
  <1>3. CASE Rotate(r)
    BY <1>3 DEF Rotate
  <1>4. CASE RotateFails(r)
    BY <1>4 DEF RotateFails, End
  <1>5. CASE MakeDir(r)
    BY <1>5 DEF MakeDir
  <1>6. CASE OpenLog(r)
    BY <1>6 DEF OpenLog, Goto, End
  <1>7. CASE BeginCategory(r)
    BY <1>7 DEF BeginCategory, Goto
  <1>8. CASE ScoreTier(r)
    BY <1>8 DEF ScoreTier, Goto, End
  <1>9. CASE EndCategory(r)
    BY <1>9 DEF EndCategory
  <1>10. CASE WriteReport(r)
    BY <1>10 DEF WriteReport, Goto, End
  <1>11. CASE CaptureLog(r)
    BY <1>11 DEF CaptureLog, Goto
  <1>12. CASE Finish(r)
    BY <1>12 DEF Finish, End
  <1>13. CASE Signal(r)
    BY <1>13 DEF Signal, Goto
  <1>14. CASE HandlerCopies(r)
    BY <1>14 DEF HandlerCopies, End
  <1>15. CASE HandlerExits(r)
    BY <1>15 DEF HandlerExits, End
  <1>16. CASE Die(r)
    BY <1>16 DEF Die, End
  <1> QED
    BY <1>1, <1>2, <1>3, <1>4, <1>5, <1>6, <1>7, <1>8, <1>9, <1>10, <1>11, <1>12, <1>13,
       <1>14, <1>15, <1>16 DEF Step

\* A run becomes alive only by Start, which notes who else is.
LEMMA NextAlone == Types /\ Alone /\ [Next]_vars => Alone'
  <1> SUFFICES ASSUME Types, Alone, [Next]_vars PROVE Alone'
    OBVIOUS
  <1>1. CASE UNCHANGED vars \/ Tick
    BY <1>1 DEF vars, Tick, Alone, Alive
  <1>2. ASSUME NEW r \in Runs, Step(r) PROVE Alone'
    <2>1. \A q \in Runs \ {r} : Alive(q)' <=> Alive(q)
      BY <1>2, StepIsOwn DEF Alive
    <2>2. CASE Start(r)
      <3>1. /\ \A q \in Runs : Alive(q) => q \in overlapped'
            /\ (\E q \in Runs : Alive(q)) => r \in overlapped'
        BY <2>2 DEF Start
      <3> QED
        BY <2>1, <3>1 DEF Alone
    <2>3. CASE Alive(r) /\ UNCHANGED overlapped
      BY <2>1, <2>3 DEF Alone
    <2> QED
      BY <1>2, <2>2, <2>3, StepIsOwn
  <1> QED
    BY <1>1, <1>2 DEF Next

-----------------------------------------------------------------------------
(* What a step does to the tree: nothing, a rotation, or something added by  *)
(* a run that has, or is making, its directory.                              *)

AtHome(r) == pc[r] = "mkdir" \/ local[r].placed

Adds(r) ==
  /\ AtHome(r)
  /\ dirs' = dirs \/ \E names \in SUBSET Categories : dirs' = Made(names)
  /\ \/ UNCHANGED <<files, wrote>>
     \/ Exists(Current, "top")' /\ \E name \in Names : Write(r, name) \/ AppendTo(r, name)

\* How a run comes to have a directory: it had one, found nothing in its place
\* or has moved away what was there.
LEMMA StepTree ==
  ASSUME Types, Tidy, NEW r \in Runs, Step(r)
  PROVE  /\ (UNCHANGED tree) \/ Rotate(r) \/ Adds(r)
         /\ AtHome(r)' => AtHome(r) \/ Rotate(r) \/ (UNCHANGED tree /\ ~Previous)
  <1> USE DEF Types, TypeOK, tree
  <1>0. local[r] \in Locals
    OBVIOUS
  <1>a. ASSUME NEW how \in Ends, End(r, how) PROVE ~AtHome(r)'
    BY <1>a DEF End, AtHome, NoLocal, Ends
  <1>1. CASE Start(r)
    <2>1. ~local[r].placed
      BY <1>1 DEF Start, Shape, Placed
    <2> QED
      BY <1>0, <1>1, <2>1 DEF Start, AtHome, Locals
  <1>2. CASE CheckPrevious(r)
    <2>1. ~local[r].placed
      BY <1>2 DEF CheckPrevious, Shape, Placed
    <2>2. CASE Previous
      BY <1>0, <1>2, <2>1, <2>2 DEF CheckPrevious, AtHome, Locals
    <2>3. CASE ~Previous
      BY <1>2, <2>3 DEF CheckPrevious
    <2> QED
      BY <2>2, <2>3
  <1>3. CASE Rotate(r)
    BY <1>3
  <1>4. CASE RotateFails(r)
    BY <1>4, <1>a DEF RotateFails, Ends
  <1>5. CASE MakeDir(r)
    BY <1>5 DEF MakeDir, Adds, AtHome
  <1>6. CASE OpenLog(r)
    <2>1. AtHome(r)
      BY <1>6 DEF OpenLog, AtHome, Shape, Placed
    <2>2. Adds(r)
      BY <1>6, <2>1 DEF OpenLog, Adds, Exists, Names
    <2> QED
      BY <2>1, <2>2
  <1>7. CASE BeginCategory(r)
    <2>1. AtHome(r)
      BY <1>7 DEF BeginCategory, AtHome, Shape, Placed
    <2>2. {Head(local[r].todo)} \subseteq Categories
      BY <1>0, <1>7 DEF BeginCategory, Locals
    <2>3. Adds(r)
      BY <1>7, <2>1, <2>2 DEF BeginCategory, Adds
    <2> QED
      BY <2>1, <2>3
  <1>8. CASE ScoreTier(r)
    <2>1. AtHome(r)
      BY <1>8 DEF ScoreTier, AtHome, Shape, Placed
    <2>2. Head(local[r].todo) \in Names
      BY <1>0, <1>8 DEF ScoreTier, Locals, Shape, Names
    <2>3. UNCHANGED dirs
      BY <1>8 DEF ScoreTier
    <2>4. \/ UNCHANGED <<files, wrote>>
          \/ Exists(Current, Head(local[r].todo)) /\ Write(r, Head(local[r].todo))
      BY <1>8 DEF ScoreTier
    <2> QED
      BY <2>1, <2>2, <2>3, <2>4 DEF Tidy, Adds, Exists
  <1>9. CASE EndCategory(r)
    BY <1>0, <1>9 DEF EndCategory, AtHome, Locals
  <1>10. CASE WriteReport(r)
    <2>1. AtHome(r)
      BY <1>10 DEF WriteReport, AtHome, Shape, Placed
    <2>2. Adds(r)
      BY <1>10, <2>1 DEF WriteReport, Adds, Exists, Names
    <2> QED
      BY <2>1, <2>2
  <1>11. CASE CaptureLog(r)
    <2>1. AtHome(r)
      BY <1>11 DEF CaptureLog, AtHome, Shape, Placed
    <2>2. Adds(r)
      BY <1>11, <2>1 DEF CaptureLog, Adds, Exists, Names
    <2> QED
      BY <2>1, <2>2
  <1>12. CASE Finish(r)
    BY <1>12, <1>a DEF Finish, Ends
  <1>13. CASE Signal(r)
    BY <1>13, <1>0 DEF Signal, Goto, AtHome
  <1>14. CASE HandlerCopies(r)
    <2>1. dirs' = Made({}) /\ Exists(Current, "top")'
      BY <1>14 DEF HandlerCopies, Exists, Made
    <2>2. Adds(r)
      BY <1>14, <2>1 DEF HandlerCopies, Adds, AtHome, Names
    <2> QED
      BY <1>14, <1>a, <2>2 DEF HandlerCopies, Ends
  <1>15. CASE HandlerExits(r)
    BY <1>15, <1>a DEF HandlerExits, Ends
  <1>16. CASE Die(r)
    BY <1>16, <1>a DEF Die, Ends
  <1> QED
    BY <1>1, <1>2, <1>3, <1>4, <1>5, <1>6, <1>7, <1>8, <1>9, <1>10, <1>11, <1>12, <1>13,
       <1>14, <1>15, <1>16 DEF Step

-----------------------------------------------------------------------------
(* The directories.                                                        *)

\* A rotation takes everything from the results directory to a place where
\* nothing was, and touches nothing else.
LEMMA RotationFacts ==
  ASSUME Types, Tidy, NEW r \in Runs, Rotate(r)
  PROVE  LET p == Destination(r) IN
         /\ p \in Places /\ p # Current
         /\ p.nested => Exists(Rotated(p.stamp), "top")
         /\ \A e \in dirs \cup files : e.place # p
         /\ dirs' = Moved(dirs, p) /\ files' = Moved(files, p) /\ wrote' = wrote
         /\ Exists(Current, "top")
  <1> DEFINE t == local[r].stamp
             p == Destination(r)
  <1>1. t \in Stamps
    BY DEF Rotate, Types, Shape, TypeOK, Locals
  <1>2. p \in Places /\ p # Current
    BY <1>1, PlaceFacts DEF Destination, Places, Exists, Stamps, Current
  <1>3. p.stamp = t /\ p.nested = Exists(Rotated(t), "top")
    BY DEF Destination
  <1>4. ~Exists(p, "top")
    <2>1. CASE Exists(Rotated(t), "top")
      <3>1. p = Nested(t)
        BY <2>1 DEF Destination, Nested, Exists
      <3> QED
        BY <3>1 DEF Rotate
    <2>2. CASE ~Exists(Rotated(t), "top")
      <3>0. Exists(Rotated(t), "top") = FALSE
        BY <2>2 DEF Exists
      <3>1. p = Rotated(t)
        BY <3>0 DEF Destination, Rotated
      <3> QED
        BY <2>2, <3>1
    <2> QED
      BY <2>1, <2>2
  <1>5. \A e \in dirs \cup files : e.place # p
    BY <1>4 DEF Tidy
  <1>6. {d \in dirs : d.place # p} = dirs /\ {e \in files : e.place # p} = files
    BY <1>5
  <1> QED
    BY <1>2, <1>3, <1>5, <1>6 DEF Rotate

\* Where things are after a rotation.
LEMMA MovedDirs ==
  \A S \in SUBSET Dirs, p \in Places \ {Current} :
         /\ Moved(S, p) \subseteq Dirs
         /\ \A m \in Dirs : m \in Moved(S, p) <=>
              \/ m.place # Current /\ m \in S
              \/ m.place = p /\ [place |-> Current, name |-> m.name] \in S
  <1> TAKE S \in SUBSET Dirs, p \in Places \ {Current}
  <1>1. \A e \in Dirs : /\ [e EXCEPT !.place = p] = [place |-> p, name |-> e.name]
                        /\ e = [place |-> e.place, name |-> e.name]
    BY DEF Dirs
  <1>2. Moved(S, p) = {IF e.place = Current THEN [place |-> p, name |-> e.name] ELSE e : e \in S}
    BY <1>1 DEF Moved
  <1>3. Current \in Places
    BY PlaceFacts
  <1>4. \A e \in Dirs : [place |-> p, name |-> e.name] \in Dirs
    BY DEF Dirs
  <1>5. Moved(S, p) \subseteq Dirs
    BY <1>2, <1>4
  <1>6. ASSUME NEW m \in Dirs, m \in Moved(S, p)
        PROVE  \/ m.place # Current /\ m \in S
               \/ m.place = p /\ [place |-> Current, name |-> m.name] \in S
    <2>1. PICK e \in S : m = IF e.place = Current THEN [place |-> p, name |-> e.name] ELSE e
      BY <1>2, <1>6
    <2> QED
      BY <2>1, <1>1
  <1>7. ASSUME NEW m \in Dirs, m.place # Current, m \in S
        PROVE  m \in Moved(S, p)
    BY <1>2, <1>7
  <1>8. ASSUME NEW m \in Dirs, m.place = p, [place |-> Current, name |-> m.name] \in S
        PROVE  m \in Moved(S, p)
    <2> DEFINE e == [place |-> Current, name |-> m.name]
    <2>1. e.place = Current /\ e.name = m.name
      OBVIOUS
    <2>2. m = IF e.place = Current THEN [place |-> p, name |-> e.name] ELSE e
      BY <2>1, <1>1, <1>8
    <2> HIDE DEF e
    <2>3. e \in S
      BY <1>8 DEF e
    <2> QED
      BY <1>2, <2>2, <2>3
  <1> QED
    BY <1>5, <1>6, <1>7, <1>8

\* The same for files, which carry the run that wrote them.
LEMMA MovedFiles ==
  \A S \in SUBSET Files, p \in Places \ {Current} :
         /\ Moved(S, p) \subseteq Files
         /\ \A m \in Files : m \in Moved(S, p) <=>
              \/ m.place # Current /\ m \in S
              \/ m.place = p /\ [place |-> Current, name |-> m.name, by |-> m.by] \in S
  <1> TAKE S \in SUBSET Files, p \in Places \ {Current}
  <1>1. \A e \in Files :
          /\ [e EXCEPT !.place = p] = [place |-> p, name |-> e.name, by |-> e.by]
          /\ e = [place |-> e.place, name |-> e.name, by |-> e.by]
    BY DEF Files
  <1>2. Moved(S, p) =
          {IF e.place = Current THEN [place |-> p, name |-> e.name, by |-> e.by] ELSE e : e \in S}
    BY <1>1 DEF Moved
  <1>4. \A e \in Files : [place |-> p, name |-> e.name, by |-> e.by] \in Files
    BY DEF Files
  <1>5. Moved(S, p) \subseteq Files
    BY <1>2, <1>4
  <1>6. ASSUME NEW m \in Files, m \in Moved(S, p)
        PROVE  \/ m.place # Current /\ m \in S
               \/ m.place = p /\ [place |-> Current, name |-> m.name, by |-> m.by] \in S
    <2>1. PICK e \in S :
            m = IF e.place = Current THEN [place |-> p, name |-> e.name, by |-> e.by] ELSE e
      BY <1>2, <1>6
    <2> QED
      BY <2>1, <1>1
  <1>7. ASSUME NEW m \in Files, m.place # Current, m \in S
        PROVE  m \in Moved(S, p)
    BY <1>2, <1>7
  <1>8. ASSUME NEW m \in Files, m.place = p,
               [place |-> Current, name |-> m.name, by |-> m.by] \in S
        PROVE  m \in Moved(S, p)
    <2> DEFINE e == [place |-> Current, name |-> m.name, by |-> m.by]
    <2>1. e.place = Current /\ e.name = m.name /\ e.by = m.by
      OBVIOUS
    <2>2. m = IF e.place = Current THEN [place |-> p, name |-> e.name, by |-> e.by] ELSE e
      BY <2>1, <1>1, <1>8
    <2> HIDE DEF e
    <2>3. e \in S
      BY <1>8 DEF e
    <2> QED
      BY <1>2, <2>2, <2>3
  <1> QED
    BY <1>5, <1>6, <1>7, <1>8

\* Earlier runs have left an orderly tree.
LEMMA InitTidy == Init => Tidy
  BY EvalAssumption DEF Init, Tidy, Exists, Orderly

\* A file or sub-directory is only made in, or moved with, its directory.
LEMMA NextTidy == Types /\ Tidy /\ [Next]_vars => Tidy'
  <1> SUFFICES ASSUME Types, Tidy, [Next]_vars PROVE Tidy'
    OBVIOUS
  <1>0. dirs \subseteq Dirs /\ files \subseteq Files
    BY DEF Types, TypeOK
  <1>1. CASE UNCHANGED <<dirs, files>>
    BY <1>1 DEF Tidy, Exists
  <1>2. ASSUME NEW r \in Runs, Rotate(r) PROVE Tidy'
    <2>0. PICK p \in Places : p = Destination(r)
      BY <1>2, RotationFacts
    <2>1. /\ p \in Places /\ p # Current
          /\ p.nested => Exists(Rotated(p.stamp), "top")
          /\ dirs' = Moved(dirs, p) /\ files' = Moved(files, p)
          /\ Exists(Current, "top")
      BY <1>2, <2>0, RotationFacts
    <2>d. /\ dirs' \subseteq Dirs
          /\ \A m \in Dirs : m \in dirs' <=>
               \/ m.place # Current /\ m \in dirs
               \/ m.place = p /\ [place |-> Current, name |-> m.name] \in dirs
      <3>1. dirs \in SUBSET Dirs /\ p \in Places \ {Current} /\ dirs' = Moved(dirs, p)
        BY <1>0, <2>1
      <3> QED
        BY <3>1, MovedDirs
    <2>f. /\ files' \subseteq Files
          /\ \A m \in Files : m \in files' <=>
               \/ m.place # Current /\ m \in files
               \/ m.place = p /\ [place |-> Current, name |-> m.name, by |-> m.by] \in files
      <3>1. files \in SUBSET Files /\ p \in Places \ {Current} /\ files' = Moved(files, p)
        BY <1>0, <2>1
      <3> QED
        BY <3>1, MovedFiles
    <2>2. /\ dirs' \subseteq Dirs /\ files' \subseteq Files
          /\ \A m \in dirs' : m.place # Current /\ (m \in dirs \/ m.place = p)
          /\ \A m \in files' : m.place # Current /\ (m \in files \/ m.place = p)
      <3>1. \A m \in dirs' : m.place # Current /\ (m \in dirs \/ m.place = p)
        BY <2>d, <2>1
      <3>2. \A m \in files' : m.place # Current /\ (m \in files \/ m.place = p)
        BY <2>f, <2>1
      <3> QED
        BY <2>d, <2>f, <3>1, <3>2
    <2>3. \A q \in Places : [place |-> q, name |-> "top"] \in Dirs
      BY DEF Dirs
    <2>4. Exists(p, "top")'
      BY <2>1, <2>3, <2>d DEF Exists
    <2>5. ASSUME NEW q \in Places, q # Current, Exists(q, "top")
          PROVE  Exists(q, "top")'
      BY <2>3, <2>5, <2>d DEF Exists
    <2>6. \A m \in dirs' \cup files' : m.place \in Places
      BY <2>2 DEF Dirs, Files
    <2>7. \A m \in dirs' \cup files' : Exists(m.place, "top")'
      BY <2>2, <2>4, <2>5, <2>6 DEF Tidy
    <2>8. ASSUME NEW m \in dirs', m.place.nested
          PROVE  Exists(Rotated(m.place.stamp), "top")'
      <3>1. Rotated(m.place.stamp) \in Places \ {Current}
        <4>1. m.place.stamp \in Stamps
          BY <2>6, <2>8, PlaceFacts DEF Places
        <4> QED
          BY <4>1, PlaceFacts
      <3>2. Exists(Rotated(m.place.stamp), "top")
        <4>1. CASE m \in dirs
          BY <2>8, <4>1 DEF Tidy
        <4>2. CASE m.place = p
          BY <2>1, <2>8, <4>2
        <4> QED
          BY <2>2, <4>1, <4>2
      <3> QED
        BY <2>5, <3>1, <3>2
    <2> QED
      BY <2>7, <2>8 DEF Tidy
  <1>3. ASSUME NEW r \in Runs, Adds(r) PROVE Tidy'
    <2>1. \/ dirs' = dirs
          \/ \E names \in SUBSET Categories : dirs' = Made(names)
      BY <1>3 DEF Adds
    <2>2. /\ dirs \subseteq dirs'
          /\ \A d \in dirs' \ dirs : d.place = Current /\ Exists(Current, "top")'
      BY <2>1 DEF Made, Exists
    <2>3. \A e \in files' \ files : e.place = Current /\ Exists(Current, "top")'
      BY <1>3 DEF Adds, Write, AppendTo
    <2>4. \A q : Exists(q, "top") => Exists(q, "top")'
      BY <2>2 DEF Exists
    <2>5. \A e \in dirs' \cup files' : Exists(e.place, "top")'
      BY <2>2, <2>3, <2>4 DEF Tidy
    <2>6. \A d \in dirs' : d.place.nested => Exists(Rotated(d.place.stamp), "top")'
      BY <2>2, <2>4, PlaceFacts DEF Tidy
    <2> QED
      BY <2>5, <2>6 DEF Tidy
  <1> QED
    BY <1>1, <1>2, <1>3, StepTree DEF Next, vars, tree, Tick

-----------------------------------------------------------------------------
(* The files.                                                              *)

\* A run that was once beside another stays counted as such.
LEMMA OverlapGrows ==
  ASSUME Types, [Next]_vars
  PROVE  overlapped \subseteq overlapped' /\ overlapped' \subseteq Runs
  <1>1. CASE UNCHANGED vars \/ Tick
    BY <1>1 DEF vars, Tick, Types, TypeOK
  <1>2. ASSUME NEW r \in Runs, Step(r)
        PROVE  overlapped \subseteq overlapped' /\ overlapped' \subseteq Runs
    <2>1. CASE Start(r)
      BY <2>1 DEF Start, Types, TypeOK
    <2>2. CASE UNCHANGED overlapped
      BY <2>2 DEF Types, TypeOK
    <2> QED
      BY <1>2, <2>1, <2>2, StepIsOwn
  <1> QED
    BY <1>1, <1>2 DEF Next

\* What a rotation does to the files, in terms of their place.
LEMMA RotatedFiles ==
  ASSUME Types, Tidy, NEW r \in Runs, Rotate(r)
  PROVE  \E p \in Places \ {Current} :
           /\ wrote' = wrote /\ \A e \in files : e.place # p
           /\ files' \subseteq Files
           /\ \A m \in Files : m \in files' <=>
                \/ m.place # Current /\ m \in files
                \/ m.place = p /\ [place |-> Current, name |-> m.name, by |-> m.by] \in files
  <1>1. files \in SUBSET Files /\ Destination(r) \in Places \ {Current}
    BY RotationFacts DEF Types, TypeOK
  <1>2. PICK p \in Places \ {Current} : p = Destination(r)
    BY <1>1
  <1>3. /\ wrote' = wrote /\ files' = Moved(files, p)
        /\ \A e \in files : e.place # p
    BY <1>2, RotationFacts
  <1>4. /\ files' \subseteq Files
        /\ \A m \in Files : m \in files' <=>
             \/ m.place # Current /\ m \in files
             \/ m.place = p /\ [place |-> Current, name |-> m.name, by |-> m.by] \in files
    BY <1>1, <1>3, MovedFiles
  <1> QED
    BY <1>3, <1>4

\* What a run that has its directory does to the files.
LEMMA AddedFiles ==
  ASSUME NEW r \in Runs, Adds(r), ~UNCHANGED <<files, wrote>>
  PROVE  \E name \in Names :
           /\ [place |-> Current, name |-> name, by |-> r] \in files'
           /\ wrote' = wrote \cup {<<r, name>>}
           /\ \A e \in files' : e \in files
                               \/ e = [place |-> Current, name |-> name, by |-> r]
           /\ \A e \in files : e \in files' \/ (e.place = Current /\ e.name = name)
  BY DEF Adds, Write, AppendTo

\* A run with a directory to write to has not ended.
LEMMA HomeIsAlive ==
  ASSUME Types, NEW r \in Runs, AtHome(r)
  PROVE  Alive(r)
  BY DEF Types, Shape, AtHome, Alive, Steps, Placed

\* No run has a directory to begin with.
LEMMA InitOwned == Init => Owned
  BY DEF Init, Owned, NoLocal

\* What a run finds beside its own files came while another was alive.
LEMMA NextOwned ==
  Types /\ Tidy /\ Alone /\ Owned /\ [Next]_vars => Owned'
  <1> SUFFICES ASSUME Types, Tidy, Alone, Owned, [Next]_vars PROVE Owned'
    OBVIOUS
  <1>1. CASE UNCHANGED vars \/ Tick
    BY <1>1 DEF vars, tree, Tick, Owned
  <1>2. ASSUME NEW r \in Runs, Step(r) PROVE Owned'
    <2>1. overlapped \subseteq overlapped'
      BY OverlapGrows
    <2>2. \A q \in Runs \ {r} : AtHome(q)' <=> AtHome(q)
      BY <1>2, StepIsOwn DEF AtHome
    <2>3. CASE Rotate(r)
      <3>1. \A m \in files' : m.place # Current
        BY <2>3, RotatedFiles
      <3> QED
        BY <3>1 DEF Owned
    <2>4. CASE UNCHANGED tree /\ ~Rotate(r)
      <3>1. AtHome(r)' => AtHome(r) \/ \A e \in files : e.place # Current
        BY <1>2, <2>4, StepTree DEF Previous
      <3> QED
        BY <2>1, <2>2, <2>4, <3>1 DEF Owned, AtHome, tree
    <2>5. CASE Adds(r) /\ ~UNCHANGED <<files, wrote>>
      <3>1. PICK name \in Names :
              \A e \in files' : e \in files
                               \/ e = [place |-> Current, name |-> name, by |-> r]
        BY <2>5, AddedFiles
      <3>2. AtHome(r)
        BY <2>5 DEF Adds
      <3>3. ASSUME NEW q \in Runs, q # r, AtHome(q) PROVE r \in overlapped
        BY <3>2, <3>3, HomeIsAlive DEF Alone
      <3>4. ASSUME NEW q \in Runs, AtHome(q)', NEW e \in files', e.place = Current
            PROVE  e.by = q \/ e.by \in overlapped'
        <4>1. AtHome(q)
          BY <2>2, <3>2, <3>4
        <4>2. CASE e \in files
          BY <2>1, <3>4, <4>1, <4>2 DEF Owned, AtHome
        <4>3. CASE e = [place |-> Current, name |-> name, by |-> r]
          BY <2>1, <3>3, <4>1, <4>3
        <4> QED
          BY <3>1, <4>2, <4>3
      <3> QED
        BY <3>4 DEF Owned, AtHome
    <2>6. CASE Adds(r) /\ UNCHANGED <<files, wrote>>
      <3>1. AtHome(r)
        BY <2>6 DEF Adds
      <3> QED
        BY <2>1, <2>2, <2>6, <3>1 DEF Owned, AtHome
    <2> QED
      BY <1>2, <2>3, <2>4, <2>5, <2>6, StepTree
  <1> QED
    BY <1>1, <1>2 DEF Next

-----------------------------------------------------------------------------
(* The directory of a run that is alone.                                   *)

\* No run relies on a directory to begin with.
LEMMA InitStanding == Init => Standing
  BY DEF Init, Standing, Placed

\* A run that is alone, and where its step takes it.
LEMMA OwnStep ==
  ASSUME Types, Tidy, Standing, NEW r \in Runs \ overlapped, Step(r)
  PROVE  /\ pc'[r] \in Placed \cup {"move"} => Exists(Current, "top")'
         /\ pc'[r] = "tier" => Exists(Current, Head(local[r].todo))'
         /\ pc'[r] # "lost"
  <1> USE DEF Types, TypeOK, Placed, tree
  <1>0. local[r] \in Locals
    OBVIOUS
  <1>1. CASE Start(r)
    BY <1>1 DEF Start
  <1>2. CASE CheckPrevious(r)
    <2>1. Previous => Exists(Current, "top")
      BY DEF Previous, Tidy
    <2> QED
      BY <1>2, <2>1 DEF CheckPrevious, Goto, Exists
  <1>3. CASE Rotate(r)
    BY <1>3 DEF Rotate
  <1>4. CASE RotateFails(r)
    BY <1>4 DEF RotateFails, End, Standing
  <1>5. CASE MakeDir(r)
    BY <1>5 DEF MakeDir, Made, Exists
  <1>6. CASE OpenLog(r)
    BY <1>6 DEF OpenLog, Goto, Standing, Exists
  <1>7. CASE BeginCategory(r)
    <2>1. Head(local[r].todo) \in Categories
      BY <1>0, <1>7 DEF BeginCategory, Locals
    <2> QED
      BY <1>7, <2>1 DEF BeginCategory, Goto, Made, Exists
  <1>8. CASE ScoreTier(r)
    BY <1>8 DEF ScoreTier, Goto, Standing, Exists
  <1>9. CASE EndCategory(r)
    BY <1>9 DEF EndCategory, Standing, Exists
  <1>10. CASE WriteReport(r)
    BY <1>10 DEF WriteReport, Goto, Standing, Exists
  <1>11. CASE CaptureLog(r)
    BY <1>11 DEF CaptureLog, Goto, Standing, Exists
  <1>12. CASE Finish(r)
    BY <1>12 DEF Finish, End
  <1>13. CASE Signal(r)
    BY <1>13 DEF Signal, Goto
  <1>14. CASE HandlerCopies(r)
    BY <1>14 DEF HandlerCopies, End
  <1>15. CASE HandlerExits(r)
    BY <1>15 DEF HandlerExits, End
  <1>16. CASE Die(r)
    BY <1>16 DEF Die, End
  <1> QED
    BY <1>1, <1>2, <1>3, <1>4, <1>5, <1>6, <1>7, <1>8, <1>9, <1>10, <1>11, <1>12, <1>13,
       <1>14, <1>15, <1>16 DEF Step

\* While a run is alone, every step is its own.
LEMMA NobodyElse ==
  ASSUME Types, Alone, NEW r \in Runs \ overlapped', Alive(r),
         NEW s \in Runs \ {r}, Step(s), overlapped \subseteq overlapped'
  PROVE  FALSE
  <1>1. CASE Start(s)
    BY <1>1 DEF Start
  <1>2. CASE Alive(s)
    BY <1>2 DEF Alone
  <1> QED
    BY <1>1, <1>2, StepIsOwn

\* The directory of a run that is alone is moved by no one but that run.
LEMMA NextStanding ==
  Types /\ Tidy /\ Alone /\ Standing /\ [Next]_vars => Standing'
  <1> SUFFICES ASSUME Types, Tidy, Alone, Standing, [Next]_vars PROVE Standing'
    OBVIOUS
  <1>1. CASE UNCHANGED vars \/ Tick
    BY <1>1 DEF vars, tree, Tick, Standing, Exists
  <1>2. ASSUME NEW s \in Runs, Step(s) PROVE Standing'
    <2>1. ASSUME NEW r \in Runs \ overlapped'
          PROVE  /\ pc'[r] \in Placed \cup {"move"} => Exists(Current, "top")'
                 /\ pc'[r] = "tier" => Exists(Current, Head(local[r].todo))'
      <3>1. overlapped \subseteq overlapped'
        BY OverlapGrows
      <3>2. CASE r = s
        BY <1>2, <2>1, <3>1, <3>2, OwnStep
      <3>3. CASE r # s
        <4>1. ~Alive(r)
          BY <1>2, <3>1, <3>3, NobodyElse
        <4>2. pc'[r] = pc[r]
          BY <1>2, <3>3, StepIsOwn
        <4> QED
          BY <4>1, <4>2 DEF Alive, Steps, Placed
      <3> QED
        BY <3>2, <3>3
    <2> QED
      BY <2>1 DEF Standing, Exists
  <1> QED
    BY <1>1, <1>2 DEF Next

-----------------------------------------------------------------------------
(* The properties.                                                         *)

\* The three properties hold to begin with.
LEMMA InitProperties == Init => NothingOverwritten /\ OneRunPerReport /\ NeverLost
  <1> SUFFICES ASSUME Init PROVE NothingOverwritten /\ OneRunPerReport /\ NeverLost
    OBVIOUS
  <1>1. NothingOverwritten
    BY DEF Init, NothingOverwritten
  <1>2. OneRunPerReport
    BY EvalAssumption DEF Init, OneRunPerReport, Orderly
  <1>3. NeverLost
    BY DEF Init, NeverLost
  <1> QED
    BY <1>1, <1>2, <1>3

\* write_text replaces files of the same run only, when it is alone.
LEMMA NextNothingOverwritten ==
  Types /\ Tidy /\ Owned /\ NothingOverwritten /\ [Next]_vars => NothingOverwritten'
  <1> SUFFICES ASSUME Types, Tidy, Owned, NothingOverwritten, [Next]_vars
               PROVE  NothingOverwritten'
    OBVIOUS
  <1>0. overlapped \subseteq overlapped'
    BY OverlapGrows
  <1>1. CASE UNCHANGED tree
    BY <1>0, <1>1 DEF tree, NothingOverwritten
  <1>2. ASSUME NEW r \in Runs, Rotate(r) PROVE NothingOverwritten'
    <2>1. PICK p \in Places \ {Current} :
            /\ wrote' = wrote
            /\ \A m \in Files : m \in files' <=>
                 \/ m.place # Current /\ m \in files
                 \/ m.place = p /\ [place |-> Current, name |-> m.name, by |-> m.by] \in files
      BY <1>2, RotatedFiles
    <2>2. ASSUME NEW e \in files
          PROVE  \E m \in files' : m.by = e.by /\ m.name = e.name
      <3>1. e \in Files /\ e = [place |-> e.place, name |-> e.name, by |-> e.by]
        BY DEF Types, TypeOK, Files
      <3>2. CASE e.place = Current
        <4>1. [place |-> p, name |-> e.name, by |-> e.by] \in Files
          BY <3>1 DEF Files
        <4>2. [place |-> p, name |-> e.name, by |-> e.by] \in files'
          BY <2>1, <3>1, <3>2, <4>1
        <4> QED
          BY <4>2
      <3>3. CASE e.place # Current
        BY <2>1, <3>1, <3>3
      <3> QED
        BY <3>2, <3>3
    <2> QED
      BY <1>0, <2>1, <2>2 DEF NothingOverwritten
  <1>3. ASSUME NEW r \in Runs, Adds(r), ~UNCHANGED <<files, wrote>>
        PROVE  NothingOverwritten'
    <2>1. PICK name \in Names :
            /\ [place |-> Current, name |-> name, by |-> r] \in files'
            /\ wrote' = wrote \cup {<<r, name>>}
            /\ \A e \in files : e \in files' \/ (e.place = Current /\ e.name = name)
      BY <1>3, AddedFiles
    <2>2. ASSUME NEW w \in wrote'
          PROVE  w[1] \in overlapped' \/ \E e \in files' : e.by = w[1] /\ e.name = w[2]
      <3>1. CASE w[1] = r /\ w[2] = name
        BY <2>1, <3>1
      <3>2. CASE w \in wrote /\ ~(w[1] = r /\ w[2] = name)
        <4>1. CASE w[1] \in overlapped
          BY <1>0, <4>1
        <4>2. ASSUME NEW e \in files, e.by = w[1], e.name = w[2]
              PROVE  w[1] \in overlapped' \/ e \in files'
          BY <1>0, <1>3, <2>1, <3>2, <4>2 DEF Adds, AtHome, Owned
        <4> QED
          BY <3>2, <4>1, <4>2 DEF NothingOverwritten
      <3> QED
        BY <2>1, <3>1, <3>2
    <2> QED
      BY <2>2 DEF NothingOverwritten
  <1>4. CASE UNCHANGED <<files, wrote>>
    BY <1>0, <1>4 DEF NothingOverwritten
  <1> QED
    BY <1>1, <1>2, <1>3, <1>4, StepTree DEF Next, vars, Tick

\* A report is written into a directory its run owns.
LEMMA NextOneRunPerReport ==
  Types /\ Tidy /\ Owned /\ OneRunPerReport /\ [Next]_vars => OneRunPerReport'
  <1> SUFFICES ASSUME Types, Tidy, Owned, OneRunPerReport, [Next]_vars
               PROVE  OneRunPerReport'
    OBVIOUS
  <1>0. overlapped \subseteq overlapped'
    BY OverlapGrows
  <1>1. CASE UNCHANGED files
    BY <1>0, <1>1 DEF OneRunPerReport
  <1>2. ASSUME NEW r \in Runs, Rotate(r) PROVE OneRunPerReport'
    <2>1. PICK p \in Places \ {Current} :
            /\ \A e \in files : e.place # p
            /\ files' \subseteq Files
            /\ \A m \in Files : m \in files' <=>
                 \/ m.place # Current /\ m \in files
                 \/ m.place = p /\ [place |-> Current, name |-> m.name, by |-> m.by] \in files
      BY <1>2, RotatedFiles
    <2>2. ASSUME NEW a \in files', NEW e \in files', a.name = "report",
                 e.place = a.place, e.by # a.by
          PROVE  a.by \in overlapped \/ e.by \in overlapped
      <3>1. a \in Files /\ e \in Files
        BY <2>1
      <3>2. CASE a.place = p
        <4> DEFINE a0 == [place |-> Current, name |-> a.name, by |-> a.by]
                   e0 == [place |-> Current, name |-> e.name, by |-> e.by]
        <4>1. a0 \in files /\ e0 \in files
          BY <2>1, <2>2, <3>1, <3>2
        <4>2. a0.name = "report" /\ a0.place = e0.place /\ a0.by = a.by /\ e0.by = e.by
          BY <2>2
        <4> HIDE DEF a0, e0
        <4> QED
          BY <2>2, <4>1, <4>2 DEF OneRunPerReport
      <3>3. CASE a.place # p
        BY <2>1, <2>2, <3>1, <3>3 DEF OneRunPerReport
      <3> QED
        BY <3>2, <3>3
    <2> QED
      BY <1>0, <2>2 DEF OneRunPerReport
  <1>3. ASSUME NEW r \in Runs, Adds(r), ~UNCHANGED <<files, wrote>>
        PROVE  OneRunPerReport'
    <2>1. PICK name \in Names :
            \A e \in files' : e \in files
                             \/ e = [place |-> Current, name |-> name, by |-> r]
      BY <1>3, AddedFiles
    <2>2. \A e \in files : e.place = Current => e.by = r \/ e.by \in overlapped
      BY <1>3 DEF Adds, AtHome, Owned
    <2>3. ASSUME NEW a \in files', NEW e \in files', a.name = "report",
                 e.place = a.place, e.by # a.by
          PROVE  a.by \in overlapped \/ e.by \in overlapped
      <3>1. CASE a \in files /\ e \in files
        BY <2>3, <3>1 DEF OneRunPerReport
      <3>2. CASE a = [place |-> Current, name |-> name, by |-> r]
        BY <2>1, <2>2, <2>3, <3>2
      <3>3. CASE e = [place |-> Current, name |-> name, by |-> r]
        BY <2>1, <2>2, <2>3, <3>3
      <3> QED
        BY <2>1, <3>1, <3>2, <3>3
    <2> QED
      BY <1>0, <2>3 DEF OneRunPerReport
  <1>4. CASE UNCHANGED <<files, wrote>>
    BY <1>0, <1>4 DEF OneRunPerReport
  <1> QED
    BY <1>1, <1>2, <1>3, <1>4, StepTree DEF Next, vars, tree, Tick

\* A run that is alone finds its directory where it made it.
LEMMA NextNeverLost ==
  Types /\ Tidy /\ Standing /\ NeverLost /\ [Next]_vars => NeverLost'
  <1> SUFFICES ASSUME Types, Tidy, Standing, NeverLost, [Next]_vars PROVE NeverLost'
    OBVIOUS
  <1>0. overlapped \subseteq overlapped'
    BY OverlapGrows
  <1>1. CASE UNCHANGED vars \/ Tick
    BY <1>1 DEF vars, Tick, NeverLost
  <1>2. ASSUME NEW s \in Runs, Step(s) PROVE NeverLost'
    <2>1. ASSUME NEW r \in Runs, pc'[r] = "lost", r \notin overlapped PROVE FALSE
      <3>1. CASE r = s
        BY <1>2, <2>1, <3>1, OwnStep
      <3>2. CASE r # s
        BY <1>2, <2>1, <3>2, StepIsOwn DEF NeverLost
      <3> QED
        BY <3>1, <3>2
    <2> QED
      BY <1>0, <2>1 DEF NeverLost
  <1> QED
    BY <1>1, <1>2 DEF Next

-----------------------------------------------------------------------------
(* The theorems.                                                           *)

\* Every variable of a run of main() keeps its type.
THEOREM TypeCorrect == Spec => []TypeOK
  <1>1. Spec => []Types
    BY InitTypes, NextTypes, PTL DEF Spec
  <1>2. Types => TypeOK
    BY DEF Types
  <1> QED
    BY <1>1, <1>2, PTL

\* The invariant the properties rest on.
Inv == Types /\ Tidy /\ Alone /\ Owned /\ Standing

\* The strengthened invariant, of which the properties are consequences.
LEMMA Invariant == Spec => []Inv
  <1>1. Init => Alone
    BY DEF Init, Alone, Alive, Steps
  <1>2. Init => Inv
    BY <1>1, InitTypes, InitTidy, InitOwned, InitStanding DEF Inv
  <1>3. Inv /\ [Next]_vars => Inv'
    BY NextTypes, NextTidy, NextAlone, NextOwned, NextStanding DEF Inv
  <1> QED
    BY <1>2, <1>3, PTL DEF Spec

\* main()'s rotation: what a run has written is still there, somewhere, however
\* many runs have come since and however they ended, unless another run of the
\* model was alive beside it.
THEOREM HistoryIsKept == Spec => []NothingOverwritten
  <1>1. Init => NothingOverwritten
    BY InitProperties
  <1>2. Inv /\ NothingOverwritten /\ [Next]_vars => NothingOverwritten'
    BY NextNothingOverwritten DEF Inv
  <1> QED
    BY <1>1, <1>2, Invariant, PTL DEF Spec

\* A report never lies beside what an earlier run has left.
THEOREM ReportsStandAlone == Spec => []OneRunPerReport
  <1>1. Init => OneRunPerReport
    BY InitProperties
  <1>2. Inv /\ OneRunPerReport /\ [Next]_vars => OneRunPerReport'
    BY NextOneRunPerReport DEF Inv
  <1> QED
    BY <1>1, <1>2, Invariant, PTL DEF Spec

\* A run of its own never fails for want of the directory it writes to.
THEOREM DirectoryStands == Spec => []NeverLost
  <1>1. Init => NeverLost
    BY InitProperties
  <1>2. Inv /\ NeverLost /\ [Next]_vars => NeverLost'
    BY NextNeverLost DEF Inv
  <1> QED
    BY <1>1, <1>2, Invariant, PTL DEF Spec
=============================================================================
