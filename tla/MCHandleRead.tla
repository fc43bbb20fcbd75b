---------------------------- MODULE MCHandleRead ----------------------------
(* HandleRead on a few messages of up to three bytes. *)
EXTENDS HandleRead

\* The bytes of the bodies differ, so that a piece out of place shows; read as
\* a header they make valid and invalid ones.
Whole == {[id |-> 1, body |-> <<2, 3>>], [id |-> 3, body |-> <<1, 0, 11>>]}

\* A message with no body, and one whose id is out of range.
Odd == {[id |-> 2, body |-> <<>>], [id |-> 11, body |-> <<1>>]}

All == Whole \cup Odd

Both == BOOLEAN
Waits == {TRUE}
Pipelines == {FALSE}
=============================================================================
