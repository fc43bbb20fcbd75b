--------------------------- MODULE MCLogicSystem ---------------------------
(***************************************************************************)
(* LogicSystem for TLC.  Two I/O threads posting two messages each are     *)
(* enough for a post to find the queue empty, non-empty, and being emptied *)
(* while another post is between its push and its notification; one id has *)
(* a callback (MSG_HELLO_WORLD) and one has none.                          *)
(***************************************************************************)
EXTENDS LogicSystem, TLC
=============================================================================
