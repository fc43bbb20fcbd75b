---------------------------- MODULE ReplyChannel ----------------------------
(***************************************************************************)
(* What CSession::Send promises the logic thread: the replies it accepts   *)
(* reach the client whole, one at a time and in the order of the calls,    *)
(* none twice; a reply is refused only when the channel is full, and none  *)
(* is taken when one more than that is waiting; once the connection has    *)
(* failed nothing more is delivered.  CSession and CoroutineSession        *)
(* implement this module.                                                  *)
(***************************************************************************)
EXTENDS Naturals, Sequences

CONSTANTS Reply,        \* the replies that may be sent
          Capacity      \* a reply is refused only if this many are waiting,
                        \* and accepted only if no more are

VARIABLES waiting,      \* accepted, not delivered
          delivered,    \* what the client has received
          refused,      \* the replies that were refused
          broken        \* the connection has failed

vars == <<waiting, delivered, refused, broken>>

Init ==
  /\ waiting = <<>>
  /\ delivered = <<>>
  /\ refused = <<>>
  /\ broken = FALSE

Accept(m) ==
  /\ Len(waiting) <= Capacity
  /\ waiting' = Append(waiting, m)
  /\ UNCHANGED <<delivered, refused, broken>>

Refuse(m) ==
  /\ Len(waiting) >= Capacity
  /\ refused' = Append(refused, m)
  /\ UNCHANGED <<waiting, delivered, broken>>

Deliver ==
  /\ ~broken
  /\ waiting # <<>>
  /\ waiting' = Tail(waiting)
  /\ delivered' = Append(delivered, Head(waiting))
  /\ UNCHANGED <<refused, broken>>

Break ==
  /\ broken' = TRUE
  /\ UNCHANGED <<waiting, delivered, refused>>

Next ==
  \/ \E m \in Reply : Accept(m) \/ Refuse(m)
  \/ Deliver
  \/ Break

Spec == Init /\ [][Next]_vars
=============================================================================
