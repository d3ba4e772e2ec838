----------------------------- MODULE MCEvalRun ------------------------------
(* A small instance of EvalRun for TLC. *)
EXTENDS EvalRun

MCRuns       == 1..2
MCCategories == {"coding", "reasoning"}
MCSelections == {<<"coding">>, <<"reasoning">>}

Top(p)     == [place |-> p, name |-> "top"]
File(p, n) == [place |-> p, name |-> n, by |-> Earlier]

\* Nothing yet; an empty directory, of a run killed at once; the directory of a
\* run interrupted in its first category; that, after two runs were rotated in
\* the very second the modelled ones begin.
Interrupted == {File(Current, "log"), File(Current, "coding")}
MCHistory ==
  { [dirs |-> {}, files |-> {}], [dirs |-> {Top(Current)}, files |-> {}],
    [dirs |-> {Top(Current), [place |-> Current, name |-> "coding"]},
     files |-> Interrupted],
    [dirs |-> {Top(Current), Top(Rotated(1)), Top(Nested(1))},
     files |-> {File(Current, "report"), File(Rotated(1), "log"),
                File(Nested(1), "dump")}] }
=============================================================================
