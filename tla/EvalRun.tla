------------------------------- MODULE EvalRun -------------------------------
(***************************************************************************)
(* main() of scripts/run_eval_client.py and what it does to the results    *)
(* directory of a model: a run moves what it finds there out of the way,   *)
(* makes the directory anew and fills it.  Runs of the same model follow   *)
(* one another or overlap; each may end, be interrupted or die at any      *)
(* step.  The categories themselves are RunCategory's: here a tier either  *)
(* writes its evidence or does not.                                        *)
(*                                                                         *)
(* A results directory is at a place: Current is where a run writes,       *)
(* Rotated(t) where it goes when it is rotated at time t, and Nested(t)    *)
(* where it goes when a directory of that name exists already.             *)
(***************************************************************************)
EXTENDS Integers, Sequences

CONSTANTS
  Runs,        \* the runs of one model, any of which may be started
  Categories,  \* category ids
  Selections,  \* the lists of categories a run may be asked for
  History,     \* what RESULTS_DIR may hold before: records [dirs, files]
  LastSecond   \* bound: the time stamps there are

VARIABLES
  second,      \* the clock of strftime
  pc,          \* which step of main each run is at, or how it ended
  local,       \* what each run holds in memory, see Locals
  dirs,        \* the directories there are
  files,       \* the files there are, each with the run that wrote it
  wrote,       \* history: the files each run has written
  overlapped   \* history: runs that were alive while another was

tree == <<dirs, files, wrote>>
vars == <<second, pc, local, tree, overlapped>>

-----------------------------------------------------------------------------
(* The tree.                                                               *)

Stamps     == 1..LastSecond
Current    == [stamp |-> 0, nested |-> FALSE]
Rotated(t) == [stamp |-> t, nested |-> FALSE]
Nested(t)  == [stamp |-> t, nested |-> TRUE]
Places     == {Current} \cup [stamp : Stamps, nested : BOOLEAN]
Earlier    == 0            \* stands for every run before the ones modelled

\* "top" is the directory itself, the others its sub-directories.
Dirs  == [place : Places, name : Categories \cup {"top"}]
\* A category's evidence goes by the name of the category.
Names == Categories \cup {"log", "report", "server", "dump"}
Files == [place : Places, name : Names, by : Runs \cup {Earlier}]

\* What earlier runs may have left: files lie in directories, and a rotation
\* that was nested had one to be nested in.
Left == [dirs : SUBSET Dirs, files : SUBSET Files]
Orderly(h) ==
  /\ \A e \in h.dirs \cup h.files : [place |-> e.place, name |-> "top"] \in h.dirs
  /\ \A e \in h.files : e.by = Earlier
  /\ \A d \in h.dirs :
       d.place.nested => [place |-> Rotated(d.place.stamp), name |-> "top"] \in h.dirs

ASSUME EvalAssumption ==
  /\ Runs \subseteq Nat \ {0}
  /\ Selections \subseteq Seq(Categories) \ {<<>>}
  /\ Categories \cap {"top", "log", "report", "server", "dump"} = {}
  /\ LastSecond \in Nat \ {0}
  /\ \A h \in History : h \in Left /\ Orderly(h)

Exists(p, name) == [place |-> p, name |-> name] \in dirs

\* results_dir.exists() and any(results_dir.iterdir()); (mutant) the check of
\* an earlier version, for a report only.
PreviousReport == \E e \in files : e.place = Current /\ e.name = "report"
Previous == \/ \E e \in files : e.place = Current
            \/ \E d \in dirs : d.place = Current /\ d.name # "top"

Moved(entries, p) ==
  {IF e.place = Current THEN [e EXCEPT !.place = p] ELSE e : e \in entries}

\* shutil.move onto a directory that exists moves into it; (mutants) it
\* replaces it, or goes to a path with the model's name twice.
DestinationReplaced(r) == Rotated(local[r].stamp)
DestinationDoubled(r)  == [stamp |-> 0, nested |-> TRUE]
Destination(r) == [stamp  |-> local[r].stamp,
                   nested |-> Exists(Rotated(local[r].stamp), "top")]

\* mkdir(parents=True, exist_ok=True).
Made(names) == dirs \cup [place : {Current}, name : names \cup {"top"}]

\* write_text: whatever had the name is gone.
Write(r, name) ==
  /\ files' = {e \in files : e.place # Current \/ e.name # name}
                \cup {[place |-> Current, name |-> name, by |-> r]}
  /\ wrote' = wrote \cup {<<r, name>>}

\* open("a"): what was there stays.
AppendTo(r, name) ==
  /\ files' = files \cup {[place |-> Current, name |-> name, by |-> r]}
  /\ wrote' = wrote \cup {<<r, name>>}

-----------------------------------------------------------------------------
Steps == {"check", "move", "mkdir", "open", "category", "tier",
          "capture", "unload"}
Ends  == {"done", "interrupted", "died", "lost", "full"}

Alive(r) == pc[r] \in Steps \cup {"handler"}

\* The categories still to go through, the time stamp of rotated_dir (0 when
\* there is none, or no longer a use for it), and whether
\* _CURRENT_RUN_STATE["results_dir"] is set.
Locals  == [todo : Seq(Categories), stamp : Stamps \cup {0}, placed : BOOLEAN]
NoLocal == [todo |-> <<>>, stamp |-> 0, placed |-> FALSE]

TypeOK ==
  /\ second \in Stamps
  /\ pc \in [Runs -> Steps \cup Ends \cup {"idle", "handler"}]
  /\ local \in [Runs -> Locals]
  /\ dirs \subseteq Dirs
  /\ files \subseteq Files
  /\ wrote \subseteq (Runs \cup {Earlier}) \X Names
  /\ overlapped \subseteq Runs

Init ==
  /\ second = 1
  /\ pc = [r \in Runs |-> "idle"]
  /\ local = [r \in Runs |-> NoLocal]
  /\ \E h \in History : dirs = h.dirs /\ files = h.files
  /\ wrote = {<<e.by, e.name>> : e \in files}
  /\ overlapped = {}

Goto(r, label) == pc' = [pc EXCEPT ![r] = label] /\ local' = local

\* A process that is over holds nothing any more.
End(r, how) ==
  /\ pc' = [pc EXCEPT ![r] = how]
  /\ local' = [local EXCEPT ![r] = NoLocal]

\* A valid selection: a run of no tier is refused before it touches anything.
Start(r) ==
  /\ pc[r] = "idle"
  /\ pc' = [pc EXCEPT ![r] = "check"]
  /\ \E s \in Selections : local' = [local EXCEPT ![r].todo = s]
  /\ LET others == {q \in Runs : Alive(q)}
     IN  overlapped' = IF others = {} THEN overlapped
                                      ELSE overlapped \cup others \cup {r}
  /\ UNCHANGED <<second, tree>>

\* Whether there is something to rotate, and where to.
CheckPrevious(r) ==
  /\ pc[r] = "check"
  /\ IF Previous
       THEN /\ pc' = [pc EXCEPT ![r] = "move"]
            /\ local' = [local EXCEPT ![r].stamp = second]
       ELSE Goto(r, "mkdir")
  /\ UNCHANGED <<second, tree, overlapped>>

\* shutil.move; it raises when there is nothing to move any more, and when the
\* place it would move to is taken.
Rotate(r) ==
  /\ pc[r] = "move"
  /\ Exists(Current, "top") /\ ~Exists(Nested(local[r].stamp), "top")
  /\ pc' = [pc EXCEPT ![r] = "mkdir"]
  /\ local' = [local EXCEPT ![r].stamp = 0]
  /\ LET p == Destination(r)
     IN  /\ dirs' = Moved({d \in dirs : d.place # p}, p)
         /\ files' = Moved({e \in files : e.place # p}, p)
  /\ UNCHANGED <<second, wrote, overlapped>>

RotateFails(r) ==
  /\ pc[r] = "move"
  /\ \/ ~Exists(Current, "top") /\ End(r, "lost")
     \/ /\ Exists(Current, "top") /\ Exists(Nested(local[r].stamp), "top")
        /\ End(r, "full")
  /\ UNCHANGED <<second, tree, overlapped>>

MakeDir(r) ==
  /\ pc[r] = "mkdir"
  /\ pc' = [pc EXCEPT ![r] = "open"]
  /\ local' = [local EXCEPT ![r].placed = TRUE]
  /\ dirs' = Made({})
  /\ UNCHANGED <<second, files, wrote, overlapped>>

\* eval_client.log; the warm-up that follows touches no file.
OpenLog(r) ==
  /\ pc[r] = "open"
  /\ IF Exists(Current, "top")
       THEN Goto(r, "category") /\ AppendTo(r, "log")
       ELSE End(r, "lost") /\ UNCHANGED <<files, wrote>>
  /\ UNCHANGED <<second, dirs, overlapped>>

\* run_category begins with its directory; (mutant) it takes it for granted.
BeginAssuming(r) ==
  /\ pc[r] = "category" /\ local[r].todo # <<>>
  /\ Goto(r, "tier")
  /\ UNCHANGED <<second, tree, overlapped>>

BeginCategory(r) ==
  /\ pc[r] = "category" /\ local[r].todo # <<>>
  /\ Goto(r, "tier")
  /\ dirs' = Made({Head(local[r].todo)})
  /\ UNCHANGED <<second, files, wrote, overlapped>>

\* A tier that is scored, passed or not, leaves its transcript and record.
ScoreTier(r) ==
  /\ pc[r] = "tier"
  /\ LET category == Head(local[r].todo)
     IN  IF Exists(Current, category)
           THEN Goto(r, "tier") /\ Write(r, category)
           ELSE End(r, "lost") /\ UNCHANGED <<files, wrote>>
  /\ UNCHANGED <<second, dirs, overlapped>>

\* The category is over: after a tier that was scored or one that was not.
EndCategory(r) ==
  /\ pc[r] = "tier"
  /\ pc' = [pc EXCEPT ![r] = "category"]
  /\ local' = [local EXCEPT ![r].todo = Tail(@)]
  /\ UNCHANGED <<second, tree, overlapped>>

WriteReport(r) ==
  /\ pc[r] = "category" /\ local[r].todo = <<>>
  /\ IF Exists(Current, "top")
       THEN Goto(r, "capture") /\ Write(r, "report")
       ELSE End(r, "lost") /\ UNCHANGED <<files, wrote>>
  /\ UNCHANGED <<second, dirs, overlapped>>

\* server.log, when the server's log can be read and the copy written.
CaptureLog(r) ==
  /\ pc[r] = "capture"
  /\ Goto(r, "unload")
  /\ \/ Exists(Current, "top") /\ Write(r, "server")
     \/ UNCHANGED <<files, wrote>>
  /\ UNCHANGED <<second, dirs, overlapped>>

\* unload_local_model never raises.
Finish(r) ==
  /\ pc[r] = "unload"
  /\ End(r, "done")
  /\ UNCHANGED <<second, tree, overlapped>>

-----------------------------------------------------------------------------
(* What may come in between.                                               *)

\* SIGINT or SIGTERM: what the run was doing is not resumed.
Signal(r) ==
  /\ pc[r] \in Steps
  /\ Goto(r, "handler")
  /\ UNCHANGED <<second, tree, overlapped>>

\* After the abort and the unload, server.log.interrupted, when there is a
\* results directory and a log to copy.
HandlerCopies(r) ==
  /\ pc[r] = "handler" /\ local[r].placed
  /\ End(r, "interrupted")
  /\ dirs' = Made({})
  /\ Write(r, "dump")
  /\ UNCHANGED <<second, overlapped>>

\* No copy, or a second signal, which ends the handler.
HandlerExits(r) ==
  /\ pc[r] = "handler"
  /\ End(r, "interrupted")
  /\ UNCHANGED <<second, tree, overlapped>>

\* SIGKILL, or an exception nobody catches.
Die(r) ==
  /\ Alive(r)
  /\ End(r, "died")
  /\ UNCHANGED <<second, tree, overlapped>>

Tick ==
  /\ second < LastSecond
  /\ second' = second + 1
  /\ UNCHANGED <<pc, local, tree, overlapped>>

Step(r) ==
  \/ Start(r) \/ CheckPrevious(r) \/ Rotate(r) \/ RotateFails(r)
  \/ MakeDir(r) \/ OpenLog(r) \/ BeginCategory(r) \/ ScoreTier(r)
  \/ EndCategory(r) \/ WriteReport(r) \/ CaptureLog(r) \/ Finish(r)
  \/ Signal(r) \/ HandlerCopies(r) \/ HandlerExits(r) \/ Die(r)

Next == (\E r \in Runs : Step(r)) \/ Tick

Spec == Init /\ [][Next]_vars

-----------------------------------------------------------------------------
(* Properties.                                                             *)

\* "Rotate a previous run's results before overwriting": whatever a run has
\* written, complete or not, is still somewhere, unless another run of the
\* model was going on beside it.
NothingOverwritten ==
  \A w \in wrote :
    w[1] \in overlapped \/ \E e \in files : e.by = w[1] /\ e.name = w[2]

\* What lies beside a report is of the same run: no left-over evidence of an
\* earlier one is taken for it.
OneRunPerReport ==
  \A report, e \in files :
    report.name = "report" /\ e.place = report.place /\ e.by # report.by
      => report.by \in overlapped \/ e.by \in overlapped

\* No run loses its directory under its feet, unless another run has moved it.
NeverLost == \A r \in Runs : pc[r] = "lost" => r \in overlapped
=============================================================================
