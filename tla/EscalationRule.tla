--------------------------- MODULE EscalationRule ---------------------------
(***************************************************************************)
(* The rule of task-suite/test_ladder.json, as run_category() promises it: *)
(* the tiers of a category are tried in order, the next one only after the *)
(* one before it has passed, and the category's ceiling is the last tier   *)
(* passed, 0 when there is none.                                           *)
(***************************************************************************)
EXTENDS Naturals, Sequences

CONSTANT Ladder    \* the tier numbers of the category, in the order they run

VARIABLES
  passed,    \* how many tiers have passed
  ceiling,   \* the number of the last of them
  over       \* whether the category is finished

vars == <<passed, ceiling, over>>

Init ==
  /\ passed  = 0
  /\ ceiling = 0
  /\ over    = FALSE

Pass ==
  /\ ~over
  /\ passed < Len(Ladder)
  /\ passed'  = passed + 1
  /\ ceiling' = Ladder[passed']
  /\ over'    = FALSE

Stop ==
  /\ ~over
  /\ over' = TRUE
  /\ UNCHANGED <<passed, ceiling>>

Next == Pass \/ Stop

Spec == Init /\ [][Next]_vars

=============================================================================
