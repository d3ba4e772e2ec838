------------------------------ MODULE CvvVerify ------------------------------
(***************************************************************************)
(* The other judge of a transcript, scripts/tools/axiom_cvv_verify.py: a   *)
(* grade of the whole of it.  Only "## User" bounds a turn here.           *)
(***************************************************************************)
EXTENDS CvvScan

CONSTANT Near  \* the lines around an intent in which a call counts

ASSUME NearAssumption == Near \in Nat \ {0}

All(t, K)   == Of(t, DOMAIN t, K)
Count(t, K) == Cardinality(All(t, K))

\* _line_is_negated_at: without the language model `nlp` nothing is negated.
Negated(t, nlp) == IF nlp THEN All(t, {"denied"}) ELSE {}
Claims(t, nlp)  == All(t, {"confirmed", "blanket", "denied"}) \ Negated(t, nlp)

\* _action_score, by whichever embedding is there: a line that reads like an act.
Acts(t) == All(t, {"action"})
\* Since the last "## User" a tool was called, or a line reads like an act.
Backed(t, i) ==
  \E b \in All(t, Calls) \cup Acts(t) :
     b < i /\ \A u \in All(t, {"user"}) : u < i => u < b

UnverifiedIntents(t) ==
  {i \in All(t, {"intent"}) : \A c \in All(t, Calls) : c < i - Near \/ i + Near <= c}

\* find_two_part_pattern: a connector in the sentence of its trigger.  The
\* patterns C1, C2, C5 and C6 are alike to the grade.
TwoPart(t) ==
  {i \in All(t, {"trigger"}) :
     \E c \in All(t, {"connector"}) :
        i < c /\ \A s \in All(t, {"stop"} \cup Headings) : ~(i < s /\ s < c)}

\* C7: only a BLOCKED: before the first recall excuses, that is, before each.
OverrideHits(t) ==
  {f \in All(t, {"failed"}) :
     \E r \in All(t, {"recall"}) :
        /\ f < r /\ r <= f + Window
        /\ \A b \in All(t, {"blocked"}) : ~(f < b /\ b < r)}

\* round(part / max(whole, 1), 2), in hundredths.
Ratio(part, whole) ==
  LET w == IF whole = 0 THEN 1 ELSE whole IN (200 * part + w) \div (2 * w)

\* grade_cvv.
Grade(t, nlp) ==
  LET claims   == Claims(t, nlp)
      backed   == {i \in claims : Backed(t, i)}
      share    == Ratio(Cardinality(backed), Cardinality(claims))
      thinking == Count(t, {"thinking"})
  IN IF \/ Cardinality(claims \ backed) > 2
        \/ thinking > 3 /\ Ratio(Count(t, Calls), thinking) < 10
        \/ claims # {} /\ share < 50
        \/ OverrideHits(t) # {}
     THEN "FAIL"
     ELSE IF \/ UnverifiedIntents(t) # {} \/ TwoPart(t) # {}
             \/ claims # {} /\ share < 70
          THEN "PARTIAL" ELSE "PASS"

=============================================================================
