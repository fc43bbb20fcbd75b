----------------------------- MODULE MCCServer -----------------------------
(* CServer with a few sessions.  None is a model value.  A leaked session is
   never used again, so the server of the model can run out of sessions. *)
EXTENDS CServer

CONSTANTS s1, s2, s3

TwoSessions == {s1, s2}
ThreeSessions == {s1, s2, s3}
=============================================================================
