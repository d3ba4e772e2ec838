------------------------------ MODULE Selection ------------------------------
(***************************************************************************)
(* --categories and --tiers of scripts/run_eval_client.py.  A selection is *)
(* a sequence of tokens, each the lowest and highest number it names.  A   *)
(* number, or a category's id, names itself; what is none of these is read *)
(* as the token 0-0, which is refused like it.                             *)
(***************************************************************************)
EXTENDS Integers, Lists

\* What a token adds to the chosen: in order, but for those already seen;
\* (mutant) those as well.
AddedAgain(chosen, low, high) == chosen \o [i \in 1 .. (high - low + 1) |-> low + i - 1]
Added(chosen, low, high) ==
  chosen \o Only(LAMBDA n : n \notin ToSet(chosen), [i \in 1 .. (high - low + 1) |-> low + i - 1])

\* What ranges name, each a lowest and a highest number.
Chosen(ranges) ==
  LET upto[i \in 0 .. Len(ranges)] ==
        IF i = 0 THEN <<>> ELSE Added(upto[i - 1], ranges[i][1], ranges[i][2])
  IN upto[Len(ranges)]

\* select_categories: out of range is an error.
CategoriesRefused(spec, n) ==
  \E i \in DOMAIN spec : ~(1 <= spec[i][1] /\ spec[i][1] <= spec[i][2] /\ spec[i][2] <= n)
SelectCategories(spec, n) ==
  IF spec = <<>> THEN [i \in 1 .. n |-> i]
  ELSE Chosen(spec)

\* select_tiers: out of range is cut to what there is; (mutant) it is not.
TiersRefused(spec) == \E i \in DOMAIN spec : spec[i][1] < 1
CutOff(high, n) == high
Clamp(high, n) == IF high < n THEN high ELSE n

SelectTiers(spec, n) ==
  IF spec = <<>> THEN [i \in 1 .. n |-> i]
  ELSE Chosen([i \in DOMAIN spec |-> <<spec[i][1], Clamp(spec[i][2], n)>>])

=============================================================================
