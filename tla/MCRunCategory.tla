--------------------------- MODULE MCRunCategory ----------------------------
(* A small category for RunCategory: a ladder of three tiers. *)
EXTENDS RunCategory

MCLadder == <<1, 2, 3>>

=============================================================================
