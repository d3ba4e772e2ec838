-------------------------------- MODULE Lists --------------------------------
(***************************************************************************)
(* A loop over a list that extends another, as the code of this repository *)
(* writes it: with what each element gives, or with the elements that pass *)
(* a test.                                                                 *)
(***************************************************************************)
EXTENDS Integers, SequencesExt

Each(Op(_), s) == FlattenSeq([i \in DOMAIN s |-> Op(s[i])])
Only(Test(_), s) == Each(LAMBDA x : IF Test(x) THEN <<x>> ELSE <<>>, s)

=============================================================================
