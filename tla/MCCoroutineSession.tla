------------------------- MODULE MCCoroutineSession -------------------------
(* CoroutineSession with two clients.  Alone, a client sends more requests
   than fit in the send queue; beside another, they compete for the pool, the
   worker and its queue. *)
EXTENDS CoroutineSession, TLC

CONSTANTS s1, s2, MSG_HELLO_WORLD, MSG_UNKNOWN, MSG_INVALID

Two == {s1, s2}
All == {MSG_HELLO_WORLD, MSG_UNKNOWN, MSG_INVALID}
Hello == {MSG_HELLO_WORLD}

OneClient(waits, asks) == [waits |-> waits, asks |-> asks]
Absent == OneClient(TRUE, <<>>)

LoadsUsed ==
  {s1 :> OneClient(waits, <<All, All, Hello>>) @@ s2 :> Absent : waits \in BOOLEAN}
  \cup
  {s1 :> OneClient(FALSE, <<Hello>>) @@ s2 :> OneClient(TRUE, <<All>>)}
=============================================================================
