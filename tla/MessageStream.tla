--------------------------- MODULE MessageStream ---------------------------
(***************************************************************************)
(* What reading a connection promises: the messages the client sent are    *)
(* received whole and in order, whatever pieces TCP delivers them in, up   *)
(* to the first invalid one, which ends the session.                       *)
(***************************************************************************)
EXTENDS Naturals, Sequences

CONSTANTS Message,      \* the messages a client may send
          Valid         \* those whose header is accepted

VARIABLES sent,         \* what the client has sent
          received,     \* what the session has posted to LogicSystem
          cleared       \* the session has rejected a message

vars == <<sent, received, cleared>>

Init ==
  /\ sent = <<>>
  /\ received = <<>>
  /\ cleared = FALSE

Send(m) ==
  /\ sent' = Append(sent, m)
  /\ UNCHANGED <<received, cleared>>

\* The first message not yet received is next.
FirstUnread == sent[Len(received) + 1]

Receive ==
  /\ ~cleared
  /\ Len(received) < Len(sent)
  /\ FirstUnread \in Valid
  /\ received' = Append(received, FirstUnread)
  /\ UNCHANGED <<sent, cleared>>

Reject ==
  /\ ~cleared
  /\ Len(received) < Len(sent)
  /\ FirstUnread \notin Valid
  /\ cleared' = TRUE
  /\ UNCHANGED <<sent, received>>

Next ==
  \/ \E m \in Message : Send(m)
  \/ Receive
  \/ Reject

Spec == Init /\ [][Next]_vars
=============================================================================
