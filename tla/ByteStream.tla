----------------------------- MODULE ByteStream -----------------------------
(***************************************************************************)
(* The client's side of a connection: messages encoded as a header, made   *)
(* of an id and a length, and a body, written to a stream that TCP cuts as *)
(* it likes.  The two fields of the header take one byte each here, two in *)
(* the code; a body is a sequence of bytes.                                *)
(***************************************************************************)
EXTENDS Naturals, Sequences, SequencesExt

CONSTANTS
  Messages,     \* the messages a client may send
  MAX_LENGHT,   \* MAX_LENGHT: bounds ids and lengths, and the read buffer
  MaxMessages,  \* bound: messages the client sends
  Patience      \* the clients there are: TRUE for one that waits for each
                \* reply, as Client does, FALSE for one that does not

\* Length of the header: HEAD_TOTAL_LEN.
HEAD_TOTAL_LEN == 2

ASSUME StreamAssumption ==
  /\ \A m \in Messages : m \in [id : Nat, body : Seq(Nat)]
  /\ MAX_LENGHT \in Nat
  /\ MaxMessages \in Nat
  /\ Patience \subseteq BOOLEAN

VARIABLES
  patient,      \* does this client wait for its replies?
  sent,         \* the messages the client has sent
  written,      \* all their bytes, one message after the other (a history)
  stream        \* the bytes of them that have not been read

\* SendNode's layout, which the clients use too.
Encode(m) == <<m.id, Len(m.body)>> \o m.body

\* The headers the session accepts.
Valid == {m \in Messages : m.id <= MAX_LENGHT /\ Len(m.body) <= MAX_LENGHT}

StreamInit ==
  /\ patient \in Patience
  /\ sent = <<>>
  /\ written = <<>>
  /\ stream = <<>>

\* The client sends m; a patient one only when answered, the number of its
\* messages that have been received, is all it has sent.
ClientSend(m, answered) ==
  /\ Len(sent) < MaxMessages
  /\ patient => answered = Len(sent)
  /\ sent' = Append(sent, m)
  /\ written' = written \o Encode(m)
  /\ stream' = stream \o Encode(m)
  /\ UNCHANGED patient
=============================================================================
