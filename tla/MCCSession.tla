----------------------------- MODULE MCCSession -----------------------------
(***************************************************************************)
(* CSession for TLC.  Four requests and MAX_SENDQUE = 2 let the queue      *)
(* reach its limit of three, refuse a reply, drain and fill again; two I/O *)
(* threads are enough for two handlers of the session to overlap.          *)
(***************************************************************************)
EXTENDS CSession
=============================================================================
