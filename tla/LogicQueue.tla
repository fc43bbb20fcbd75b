----------------------------- MODULE LogicQueue -----------------------------
(***************************************************************************)
(* What LogicSystem promises its users: messages are served one at a time, *)
(* in the order in which they were posted, each exactly once; a message    *)
(* whose id has a registered callback is handed to it, any other message   *)
(* is dropped; and the service ends only when nothing is left to serve.    *)
(* The module says nothing of threads, locks or condition variables:       *)
(* LogicSystem implements it.                                              *)
(***************************************************************************)
EXTENDS Sequences

CONSTANTS Message,      \* the messages that may be posted
          Handled       \* those of them whose id has a registered callback

VARIABLES pending,      \* posted, not served yet
          called,       \* the messages given to a callback, in that order
          closed        \* the service has ended

vars == <<pending, called, closed>>

Init ==
  /\ pending = <<>>
  /\ called = <<>>
  /\ closed = FALSE

Post(m) ==
  /\ ~closed
  /\ pending' = Append(pending, m)
  /\ UNCHANGED <<called, closed>>

Serve ==
  /\ ~closed
  /\ pending # <<>>
  /\ pending' = Tail(pending)
  /\ called' = IF Head(pending) \in Handled
                THEN Append(called, Head(pending))
                ELSE called
  /\ UNCHANGED closed

Close ==
  /\ pending = <<>>
  /\ closed' = TRUE
  /\ UNCHANGED <<pending, called>>

Next ==
  \/ \E m \in Message : Post(m)
  \/ Serve
  \/ Close

Spec == Init /\ [][Next]_vars
=============================================================================
