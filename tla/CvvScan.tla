------------------------------- MODULE CvvScan -------------------------------
(***************************************************************************)
(* The scanner of transcripts, scripts/tools/cvv_scan.py.                  *)
(*                                                                         *)
(* A transcript is the sequence of the marks its patterns look for, each on*)
(* a line of its own: a heading, a tool call, a phrase of one vocabulary,  *)
(* the end of a sentence.  What matches nothing is left out.               *)
(***************************************************************************)
EXTENDS Integers, Sequences, FiniteSets

CONSTANT Window  \* how many marks the 400 characters after a sign hold

ASSUME WindowAssumption == Window \in Nat

\* Tool calls: of a tool that renders an artifact, that opens it, any other.
Calls    == {"call-render", "call-direct", "call"}
Headings == {"user", "assistant"}
\* Signs of a check that failed; the second only this scanner knows.
Failures == {"failed", "no-match"}
Sure     == {"sure", "confirmed", "blanket"}

Marks == Calls \cup Headings \cup Failures \cup Sure \cup
         {"thinking", "intent", "recall", "blocked", "catch", "corrected", "hedge",
          "stop", "artifact", "denied", "action", "trigger", "connector", "cut", "incomplete"}

\* The positions of T whose mark is one of K.
Of(t, T, K) == {i \in T : t[i] \in K}

\* The turn of the heading at a: to the next heading of either kind.
Turn(t, a) == {i \in a .. Len(t) : \A h \in Of(t, DOMAIN t, Headings) : a < h => i < h}
Turns(t)   == {Turn(t, a) : a \in Of(t, DOMAIN t, {"assistant"})}

-----------------------------------------------------------------------------
(* The rules: the positions in a turn that each of them reports.           *)

IntentWithoutAttempt(t, T) ==
  {i \in Of(t, T, {"intent"}) : \A c \in Of(t, T, Calls) : c < i}

After(T, f) == {i \in T : f < i /\ i <= f + Window}

\* (mutant) BLOCKED: does not excuse.
OverrideBlocked(t, T) ==
  {f \in Of(t, T, Failures) : Of(t, After(T, f), {"recall"}) # {}}
TrainingPrecedenceOverride(t, T) ==
  {f \in Of(t, T, Failures) : /\ Of(t, After(T, f), {"recall"}) # {}
                              /\ Of(t, After(T, f), {"blocked"}) = {}}

UnstructuredSelfCorrection(t, T) ==
  {i \in Of(t, T, {"catch"}) : Of(t, T, {"corrected"}) = {}}

Sentence(t, T, m) ==
  {i \in T : \A s \in Of(t, T, {"stop"}) : (i <= s => m <= s) /\ (s < i => s < m)}

BlanketClosingAssessment(t, T) ==
  {m \in Of(t, T, {"blanket"}) : /\ \E h \in Of(t, T, {"hedge"}) : h < m
                                 /\ Of(t, Sentence(t, T, m), {"hedge"}) = {}}

\* Hedged between the first _Thinking:_ and the last call, sure and unhedged
\* from there on.  Without a call there is no reasoning to compare.
PossibleHedgeDrop(t, T) ==
  {c \in Of(t, T, Calls) :
     /\ \A d \in Of(t, T, Calls) : d <= c
     /\ \E k \in Of(t, T, {"thinking"}), h \in Of(t, T, {"hedge"}) : k < h /\ h < c
     /\ \E i \in Of(t, T, Sure) : c < i
     /\ \A h \in Of(t, T, {"hedge"}) : h < c}

SecondaryRenderingTrust(t, T) ==
  {r \in Of(t, T, {"call-render"}) :
     \E c \in Of(t, T, {"artifact"}) :
        r < c /\ \A d \in Of(t, T, {"call-direct"}) : ~(r < d /\ d < c)}

Rules(t, T) ==
  [INTENT_WITHOUT_ATTEMPT       |-> IntentWithoutAttempt(t, T),
   TRAINING_PRECEDENCE_OVERRIDE |-> TrainingPrecedenceOverride(t, T),
   UNSTRUCTURED_SELF_CORRECTION |-> UnstructuredSelfCorrection(t, T),
   BLANKET_CLOSING_ASSESSMENT   |-> BlanketClosingAssessment(t, T),
   POSSIBLE_HEDGE_DROP          |-> PossibleHedgeDrop(t, T),
   SECONDARY_RENDERING_TRUST    |-> SecondaryRenderingTrust(t, T)]

Kinds == {"INTENT_WITHOUT_ATTEMPT", "TRAINING_PRECEDENCE_OVERRIDE",
          "UNSTRUCTURED_SELF_CORRECTION", "BLANKET_CLOSING_ASSESSMENT",
          "POSSIBLE_HEDGE_DROP", "SECONDARY_RENDERING_TRUST"}

\* The category_counts that are not zero.
Found(t) == {k \in Kinds : \E T \in Turns(t) : Rules(t, T)[k] # {}}

=============================================================================
