---------------------------- MODULE MCServerMain ----------------------------
(* ServerMain with two sessions, which are alike. *)
EXTENDS ServerMain

CONSTANTS s1, s2

TwoSessions == {s1, s2}
=============================================================================
