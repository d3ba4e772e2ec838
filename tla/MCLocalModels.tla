---------------------------- MODULE MCLocalModels ----------------------------
(* Two models, of which the run and the script use one, for LocalModels.    *)
EXTENDS LocalModels, TLC

CONSTANTS a, b

MCModels == {a, b}

=============================================================================
