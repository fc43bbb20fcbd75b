----------------------------- MODULE HandleRead -----------------------------
(***************************************************************************)
(* CSession::HandleRead of AsioThreadPool and SingleThreadAsyncServer: it  *)
(* takes whatever async_read_some has put in _data and assembles headers   *)
(* and bodies from it, piece by piece, across reads.                       *)
(*                                                                         *)
(* Copies are modelled where the code puts them.  A node has one byte more *)
(* than its length; a copy that does not fit is undefined behaviour and    *)
(* ends the model in phase "undefined".  A connection that is lost is left *)
(* to CSession.                                                            *)
(***************************************************************************)
EXTENDS ByteStream

CONSTANT Splits   \* may TCP end a read inside a message?

ASSUME SplitsAssumption == Splits \in BOOLEAN

VARIABLES
  phase,          \* "waiting" for a read, in the loop ("head", "body",
                  \* "rest"), "cleared" or "undefined"
  data,           \* _data
  left,           \* bytes_transferred: bytes of _data not used yet
  copy_len,       \* copy_len: bytes of _data used
  head,           \* _recv_head_node: its _cur_len bytes
  b_head_parse,   \* _b_head_parse
  msg,            \* _recv_msg_node
  received        \* the messages posted to LogicSystem

streamVars == <<patient, sent, written, stream>>
readVars == <<data, left, copy_len>>
vars == <<streamVars, readVars, phase, head, b_head_parse, msg, received>>

\* A RecvNode: base is how far _data has been moved from where it was
\* allocated, body the _cur_len bytes that follow it.
Node(id, total) == [id |-> id, total |-> total, base |-> 0, body |-> <<>>]

Init ==
  /\ StreamInit
  /\ phase = "waiting"
  /\ data = <<>>
  /\ left = 0
  /\ copy_len = 0
  /\ head = <<>>
  /\ b_head_parse = FALSE
  /\ msg = Node(0, 0)
  /\ received = <<>>

-----------------------------------------------------------------------------
Send(m) ==
  /\ ClientSend(m, Len(received))
  /\ UNCHANGED <<readVars, phase, head, b_head_parse, msg, received>>

\* async_read_some completes with n bytes: HandleRead begins.
ReadSome(n) ==
  /\ phase = "waiting"
  /\ n <= Len(stream)
  /\ Splits \/ n = Len(stream)
  /\ data' = SubSeq(stream, 1, n)
  /\ stream' = SubSeq(stream, n + 1, Len(stream))
  /\ left' = n
  /\ copy_len' = 0
  /\ phase' = IF b_head_parse THEN "rest" ELSE "head"
  /\ UNCHANGED <<patient, sent, written, head, b_head_parse, msg, received>>

\* Clear _data, read again and return.
ReadAgain ==
  /\ phase' = "waiting"
  /\ data' = <<>>
  /\ left' = 0
  /\ copy_len' = 0

\* Mutant: bodies are copied from the start of _data too.
CopyFromStart(n) == SubSeq(data, 1, n)

\* The n bytes of _data from offset copy_len on.
Copy(n) == SubSeq(data, copy_len + 1, copy_len + n)

\* Nothing more is said of the session.
Undefined ==
  /\ phase' = "undefined"
  /\ UNCHANGED <<streamVars, readVars, head, b_head_parse, msg, received>>

-----------------------------------------------------------------------------
(***************************************************************************)
(* The header.  Both copies take it from the start of _data.               *)
(***************************************************************************)
\* Fewer bytes than a header: keep them, read again.
HeadShort ==
  /\ phase = "head"
  /\ left < HEAD_TOTAL_LEN
  /\ Len(head) + left <= HEAD_TOTAL_LEN + 1
  /\ head' = head \o SubSeq(data, 1, left)
  /\ ReadAgain
  /\ UNCHANGED <<streamVars, b_head_parse, msg, received>>

HeadOverrun ==
  /\ phase = "head"
  /\ \/ left < HEAD_TOTAL_LEN /\ Len(head) + left > HEAD_TOTAL_LEN + 1
     \/ left >= HEAD_TOTAL_LEN /\ Len(head) > HEAD_TOTAL_LEN
  /\ Undefined

\* Mutant: bytes_transferred is not reduced by the header.
HeadWholeKeepsLeft ==
  /\ phase = "head"
  /\ left >= HEAD_TOTAL_LEN
  /\ Len(head) <= HEAD_TOTAL_LEN
  /\ head' = head \o SubSeq(data, 1, HEAD_TOTAL_LEN - Len(head))
  /\ copy_len' = copy_len + HEAD_TOTAL_LEN - Len(head)
  /\ msg' = Node(head'[1], head'[2])
  /\ phase' = "body"
  /\ UNCHANGED <<streamVars, data, left, b_head_parse, received>>

\* Enough bytes: complete the header and decode it.
HeadWhole ==
  /\ phase = "head"
  /\ left >= HEAD_TOTAL_LEN
  /\ Len(head) <= HEAD_TOTAL_LEN
  /\ LET remain_head == HEAD_TOTAL_LEN - Len(head)
     IN  /\ head' = head \o SubSeq(data, 1, remain_head)
         /\ left' = left - remain_head
         /\ copy_len' = copy_len + remain_head
  /\ \/ /\ head'[1] <= MAX_LENGHT /\ head'[2] <= MAX_LENGHT
        /\ msg' = Node(head'[1], head'[2])
        /\ phase' = "body"
     \/ /\ head'[1] > MAX_LENGHT \/ head'[2] > MAX_LENGHT
        /\ phase' = "cleared"
        /\ UNCHANGED msg
  /\ UNCHANGED <<streamVars, data, b_head_parse, received>>

-----------------------------------------------------------------------------
(***************************************************************************)
(* The body: what the read that completed the header holds of it, or the   *)
(* rest, from a later read.                                                *)
(***************************************************************************)
\* The message is complete: post it and go on with what is left of _data.
\* @bytes: what completes its body
Post(bytes) ==
  /\ received' = Append(received, [id |-> msg.id, body |-> msg.body \o bytes])
  /\ b_head_parse' = FALSE
  /\ head' = <<>>
  /\ \/ /\ left = Len(bytes)
        /\ ReadAgain
     \/ /\ left > Len(bytes)
        /\ phase' = "head"
        /\ left' = left - Len(bytes)
        /\ copy_len' = copy_len + Len(bytes)
        /\ UNCHANGED data
  /\ UNCHANGED <<streamVars, msg>>

\* Part of the body: copied, and _data moved past it.
BodyShort ==
  /\ phase = "body"
  /\ left < msg.total
  /\ msg' = [msg EXCEPT !.base = left]
  /\ b_head_parse' = TRUE
  /\ ReadAgain
  /\ UNCHANGED <<streamVars, head, received>>

BodyWhole ==
  /\ phase = "body"
  /\ left >= msg.total
  /\ Post(Copy(msg.total))

RemainMsg == msg.total - Len(msg.body)

\* Mutant: a body that is just complete waits for more.
RestShortOrEqual ==
  /\ phase = "rest"
  /\ left <= RemainMsg
  /\ msg.base + Len(msg.body) + left <= msg.total + 1
  /\ msg' = [msg EXCEPT !.body = @ \o Copy(left)]
  /\ ReadAgain
  /\ UNCHANGED <<streamVars, head, b_head_parse, received>>

RestShort ==
  /\ phase = "rest"
  /\ left < RemainMsg
  /\ msg.base + Len(msg.body) + left <= msg.total + 1
  /\ msg' = [msg EXCEPT !.body = @ \o Copy(left)]
  /\ ReadAgain
  /\ UNCHANGED <<streamVars, head, b_head_parse, received>>

\* The final '\0' goes one past the body, counted from the moved _data.
RestWhole ==
  /\ phase = "rest"
  /\ left >= RemainMsg
  /\ msg.base = 0
  /\ Post(Copy(RemainMsg))

RestOverrun ==
  /\ phase = "rest"
  /\ \/ left < RemainMsg /\ msg.base + Len(msg.body) + left > msg.total + 1
     \/ left >= RemainMsg /\ msg.base # 0
  /\ Undefined

-----------------------------------------------------------------------------
HandleReadStep ==
  \/ HeadShort \/ HeadOverrun \/ HeadWhole
  \/ BodyShort \/ BodyWhole
  \/ RestShort \/ RestWhole \/ RestOverrun

Next ==
  \/ \E m \in Messages : Send(m)
  \/ \E n \in 1..MAX_LENGHT : ReadSome(n)
  \/ HandleReadStep

Spec == Init /\ [][Next]_vars

-----------------------------------------------------------------------------
(***************************************************************************)
(* Properties.                                                             *)
(***************************************************************************)
\* Every variable keeps its type, and every copy that is not reported as
\* undefined fits its node.
TypeOK ==
  /\ patient \in BOOLEAN
  /\ sent \in Seq(Messages)
  /\ written \in Seq(Nat)
  /\ stream \in Seq(Nat)
  /\ phase \in {"waiting", "head", "body", "rest", "cleared", "undefined"}
  /\ data \in Seq(Nat)
  /\ left \in Nat /\ copy_len \in Nat /\ copy_len + left = Len(data)
  /\ head \in Seq(Nat) /\ Len(head) <= HEAD_TOTAL_LEN + 1
  /\ b_head_parse \in BOOLEAN
  /\ msg \in [id : Nat, total : 0..MAX_LENGHT, base : 0..MAX_LENGHT, body : Seq(Nat)]
  /\ Len(msg.body) <= msg.total
  /\ \A i \in DOMAIN received :
       received[i] \in [id : 0..MAX_LENGHT, body : Seq(Nat)]

\* The number of bytes in the encodings of the messages of s.
Size(s) == FoldLeft(LAMBDA n, m : n + Len(Encode(m)), 0, s)

\* How many bytes the session keeps of the message being assembled.  After a
\* part of its body has been taken, that is how far _data has been moved and what
\* follows it.
Kept ==
  Len(head) + IF b_head_parse THEN msg.base + Len(msg.body) ELSE 0

\* How many bytes the session has used: those it has posted and those it keeps.
Used == Size(received) + Kept

\* How many bytes come before the body of received[i].
Place(i) == Size(SubSeq(received, 1, i - 1)) + HEAD_TOTAL_LEN

\* However the stream is cut, and whether or not the client waits, as long as
\* every copy has fitted: what the session has not used of its last read is the
\* client's bytes from the place it has come to, and every body it posts is what
\* the client has written at the body's place, byte by byte, no body overlapping
\* another or a gap between two but that of a header (the bookkeeping of
\* bytes_transferred, copy_len, _cur_len and the moved _data).  The places follow
\* from the lengths HandleRead has decoded.  Of a header only the length is
\* counted here, not where its bytes were taken from: one that is not the first
\* of its read is copied from the start of _data, and FramesIntact fails for it.
BytesInPlace ==
  phase # "undefined" =>
    /\ Len(written) = Used + left + Len(stream)
    /\ \A k \in 1..left : data[copy_len + k] = written[Used + k]
    /\ \A i \in DOMAIN received : \A k \in 1..Len(received[i].body) :
         received[i].body[k] = written[Place(i) + k]

MS == INSTANCE MessageStream
        WITH Message <- Messages, Valid <- Valid, cleared <- (phase = "cleared")

\* What HandleRead posts for a client that waits for its replies is what the
\* client sent, whole and in order, and only its invalid headers clear the
\* session, wherever TCP cuts the stream: a cut can make the session wait for
\* ever or overrun a node, it never makes it post a wrong message.
ReceivedAsSent == MS!Init /\ [][patient => MS!Next]_(MS!vars)

\* The message being assembled was torn: by an earlier read that held only a
\* part of its header, or of its header and a part of its body.
Torn == IF b_head_parse THEN msg.base # 0 ELSE head # <<>>

\* A client that waits for its replies is left without one only by a message
\* that was torn; one that is cut between its header and its body, or again
\* inside the rest of the body, is received.
OnlyTornAreLost ==
  patient /\ phase = "waiting" /\ stream = <<>> /\ ~Torn => received = sent

\* HandleRead assembles a message from whatever pieces it comes in: when it has
\* read all that was sent and waits for more, it has posted all that was sent.
FramesIntact ==
  phase = "waiting" /\ stream = <<>> => received = sent
=============================================================================
