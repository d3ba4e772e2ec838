-------------------------- MODULE MCSessionReaper ---------------------------
(* Two sessions, one of the local provider, for SessionReaper.              *)
EXTENDS SessionReaper, TLC

CONSTANTS s1, s2

MCSessions == {s1, s2}
MCLocal    == {s1}

=============================================================================
