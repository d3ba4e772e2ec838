------------------------------- MODULE MCStack -------------------------------
(* The stack's address, and another one that a sweep tries after it.        *)
EXTENDS Stack, TLC

CONSTANTS home, other

MCAddresses == {home, other}
MCHand      == <<home, other>>

=============================================================================
