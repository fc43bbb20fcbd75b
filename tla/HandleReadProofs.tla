-------------------------- MODULE HandleReadProofs --------------------------
(***************************************************************************)
(* HandleRead proved for any messages, any length bound and any cuts.      *)
(*                                                                         *)
(* A client that waits for its replies has one message on its way at most. *)
(* Everything the session holds is a piece of the encoding of that message *)
(* (Bytes): what is still in the stream, the part of _data not used yet,   *)
(* and, unless the message has been torn, the header and the body that     *)
(* have been put together (Assembling).  Taken counts the bytes used; the  *)
(* count, and not the text, is kept for a torn message as well, which is   *)
(* why it is never posted: the bytes it still waits for do not exist.      *)
(*                                                                         *)
(* That no byte is misplaced (InPlace) is proved for clients that do not   *)
(* wait too: first the number of the bytes (Counted), then that what is    *)
(* not used yet is what was written next (Ahead), and that each body is    *)
(* what was written at its place (Behind).  The size of a sequence of      *)
(* messages is a fold: that it grows by the message that is appended is    *)
(* proved by induction over the positions.                                 *)
(* A client that waits, and whose messages are never cut, finds each read  *)
(* to be one whole message (WholeReads).                                   *)
(***************************************************************************)
EXTENDS HandleRead, NumberedProofs

\* An id or a length that is in use has been accepted.
HeaderAccepted == msg.id <= MAX_LENGHT

\* The message that has been sent and not received, and its bytes.
Current == sent[Len(received) + 1]
Bytes == Encode(Current)

\* How many of its bytes have been used.
Taken == Len(Bytes) - Len(stream) - left

Assembling ==
  /\ Len(stream) + left <= Len(Bytes)
  /\ stream = SubSeq(Bytes, Len(Bytes) - Len(stream) + 1, Len(Bytes))
  /\ SubSeq(data, copy_len + 1, Len(data)) = SubSeq(Bytes, Taken + 1, Taken + left)
  /\ phase = "waiting" => left = 0
  /\ phase = "head" => copy_len = 0 /\ ~b_head_parse
  /\ phase = "body" => Taken = 2 /\ msg = Node(Bytes[1], Bytes[2]) /\ ~b_head_parse
  /\ phase = "rest" => b_head_parse
  /\ phase # "body" /\ ~b_head_parse => head = SubSeq(Bytes, 1, Taken)
  /\ b_head_parse =>
       /\ msg.id = Bytes[1] /\ msg.total = Bytes[2]
       /\ Taken = 2 + msg.base + Len(msg.body)
       /\ msg.base = 0 => msg.body = SubSeq(Bytes, 3, Taken)

\* Nothing is on its way: nothing is kept.
Idle ==
  /\ phase = "waiting" /\ ~b_head_parse
  /\ stream = <<>> /\ left = 0 /\ head = <<>>

\* What is known of a session whose client waits.
OneOnItsWay ==
  patient =>
    /\ \/ Len(sent) = Len(received) /\ Idle
       \/ /\ Len(sent) = Len(received) + 1
          /\ phase \in {"cleared", "undefined"} \/ Assembling
    /\ \A i \in 1..Len(received) : received[i] = sent[i]

Typed == TypeOK /\ HeaderAccepted /\ received \in Seq([id : 0..MAX_LENGHT, body : Seq(Nat)])

IInv == Typed /\ OneOnItsWay

-----------------------------------------------------------------------------
(***************************************************************************)
(* Pieces of sequences.                                                    *)
(***************************************************************************)
LEMMA Piece ==
  ASSUME NEW S, NEW e \in Seq(S), NEW i \in 1..Len(e) + 1, NEW j \in i - 1..Len(e)
  PROVE  /\ SubSeq(e, i, j) \in Seq(S)
         /\ Len(SubSeq(e, i, j)) = j - i + 1
         /\ \A k \in 1..j - i + 1 : SubSeq(e, i, j)[k] = e[i + k - 1]
<1>1. Len(e) \in Nat
  BY LenProperties
<1>2. \A k \in i..j : e[k] \in S
  BY <1>1, ElementOfSeq
<1> QED
  BY <1>1, <1>2, SubSeqProperties

LEMMA PieceOfPiece ==
  ASSUME NEW S, NEW e \in Seq(S), NEW i \in 1..Len(e) + 1, NEW j \in i - 1..Len(e),
         NEW m \in 1..j - i + 2, NEW n \in m - 1..j - i + 1
  PROVE  SubSeq(SubSeq(e, i, j), m, n) = SubSeq(e, i + m - 1, i + n - 1)
<1> DEFINE p == SubSeq(e, i, j)
           q == SubSeq(p, m, n)
           r == SubSeq(e, i + m - 1, i + n - 1)
<1>1. Len(e) \in Nat
  BY LenProperties
<1>2. /\ p \in Seq(S) /\ Len(p) = j - i + 1
      /\ \A k \in 1..j - i + 1 : p[k] = e[i + k - 1]
  BY Piece
<1>3. m \in 1..Len(p) + 1 /\ n \in m - 1..Len(p)
  BY <1>1, <1>2
<1> HIDE DEF p
<1>4. /\ q \in Seq(S) /\ Len(q) = n - m + 1
      /\ \A k \in 1..n - m + 1 : q[k] = p[m + k - 1]
  BY <1>2, <1>3, Piece
<1>5. i + m - 1 \in 1..Len(e) + 1 /\ i + n - 1 \in i + m - 1 - 1..Len(e)
  BY <1>1
<1>6. /\ r \in Seq(S) /\ Len(r) = n - m + 1
      /\ \A k \in 1..n - m + 1 : r[k] = e[i + m - 1 + k - 1]
  <2>1. /\ r \in Seq(S) /\ Len(r) = (i + n - 1) - (i + m - 1) + 1
        /\ \A k \in 1..(i + n - 1) - (i + m - 1) + 1 : r[k] = e[i + m - 1 + k - 1]
    BY <1>5, Piece
  <2>2. (i + n - 1) - (i + m - 1) + 1 = n - m + 1
    BY <1>1
  <2> QED
    BY <2>1, <2>2
<1> HIDE DEF q, r
<1>7. \A k \in 1..Len(q) : q[k] = r[k]
  <2> SUFFICES ASSUME NEW k \in 1..n - m + 1 PROVE q[k] = r[k]
    BY <1>4
  <2>1. m + k - 1 \in 1..j - i + 1 /\ i + (m + k - 1) - 1 = i + m - 1 + k - 1
    BY <1>1
  <2> QED
    BY <1>2, <1>4, <1>6, <2>1
<1>8. q = r
  BY <1>4, <1>6, <1>7, SeqEqual
<1> QED
  BY <1>8 DEF q, r, p

\* A piece cut in two.
LEMMA CutPiece ==
  ASSUME NEW S, NEW e \in Seq(S), NEW t \in 0..Len(e), NEW u \in t..Len(e),
         NEW n \in 0..u - t
  PROVE  /\ SubSeq(e, t + 1, u) \in Seq(S) /\ Len(SubSeq(e, t + 1, u)) = u - t
         /\ SubSeq(SubSeq(e, t + 1, u), 1, n) = SubSeq(e, t + 1, t + n)
         /\ SubSeq(SubSeq(e, t + 1, u), n + 1, u - t) = SubSeq(e, t + n + 1, u)
         /\ Len(SubSeq(e, t + 1, t + n)) = n
         /\ Len(SubSeq(e, t + n + 1, u)) = u - t - n
<1>1. Len(e) \in Nat
  BY LenProperties
<1>2. /\ t + 1 \in 1..Len(e) + 1 /\ u \in t + 1 - 1..Len(e)
      /\ t + n \in t + 1 - 1..Len(e) /\ t + n + 1 \in 1..Len(e) + 1
      /\ u \in t + n + 1 - 1..Len(e)
      /\ 1 \in 1..u - (t + 1) + 2 /\ n \in 1 - 1..u - (t + 1) + 1
      /\ n + 1 \in 1..u - (t + 1) + 2 /\ u - t \in n + 1 - 1..u - (t + 1) + 1
  BY <1>1
<1>3. /\ u - (t + 1) + 1 = u - t /\ t + n - (t + 1) + 1 = n
      /\ u - (t + n + 1) + 1 = u - t - n
      /\ t + 1 + 1 - 1 = t + 1 /\ t + 1 + n - 1 = t + n
      /\ t + 1 + (n + 1) - 1 = t + n + 1 /\ t + 1 + (u - t) - 1 = u
  BY <1>1
<1>4. SubSeq(e, t + 1, u) \in Seq(S) /\ Len(SubSeq(e, t + 1, u)) = u - (t + 1) + 1
  BY <1>2, Piece
<1>5. Len(SubSeq(e, t + 1, t + n)) = t + n - (t + 1) + 1
  BY <1>2, Piece
<1>6. Len(SubSeq(e, t + n + 1, u)) = u - (t + n + 1) + 1
  BY <1>2, Piece
<1>7. SubSeq(SubSeq(e, t + 1, u), 1, n) = SubSeq(e, t + 1 + 1 - 1, t + 1 + n - 1)
  BY <1>2, PieceOfPiece
<1>8. SubSeq(SubSeq(e, t + 1, u), n + 1, u - t) =
        SubSeq(e, t + 1 + (n + 1) - 1, t + 1 + (u - t) - 1)
  BY <1>2, PieceOfPiece
<1> QED
  BY <1>3, <1>4, <1>5, <1>6, <1>7, <1>8

\* Two pieces that adjoin make one.
LEMMA PiecesAdjoin ==
  ASSUME NEW S, NEW e \in Seq(S), NEW i \in 1..Len(e) + 1, NEW j \in i - 1..Len(e),
         NEW k \in j..Len(e)
  PROVE  SubSeq(e, i, j) \o SubSeq(e, j + 1, k) = SubSeq(e, i, k)
BY ConcatAdjacentSubSeq

LEMMA EncodeProperties ==
  ASSUME NEW m \in Messages
  PROVE  /\ Encode(m) \in Seq(Nat)
         /\ Len(m.body) \in Nat
         /\ Len(Encode(m)) = 2 + Len(m.body)
         /\ Encode(m)[1] = m.id /\ Encode(m)[2] = Len(m.body)
         /\ SubSeq(Encode(m), 3, Len(Encode(m))) = m.body
<1> DEFINE h == <<m.id, Len(m.body)>>
           e == Encode(m)
<1>1. m.id \in Nat /\ m.body \in Seq(Nat)
  BY StreamAssumption
<1>2. Len(m.body) \in Nat
  BY <1>1, LenProperties
<1>3. h \in Seq(Nat) /\ Len(h) = 2 /\ h[1] = m.id /\ h[2] = Len(m.body)
  BY <1>1, <1>2
<1>4. e = h \o m.body
  BY DEF Encode
<1> HIDE DEF h, e
<1>5. e \in Seq(Nat) /\ Len(e) = 2 + Len(m.body)
  <2>1. e \in Seq(Nat) /\ Len(e) = Len(h) + Len(m.body)
    BY <1>1, <1>3, <1>4, ConcatProperties
  <2> QED
    BY <1>3, <2>1
<1>c. \A i \in 1..Len(h) + Len(m.body) :
        e[i] = IF i <= Len(h) THEN h[i] ELSE m.body[i - Len(h)]
  BY <1>1, <1>3, <1>4, ConcatProperties
<1>6. e[1] = m.id /\ e[2] = Len(m.body)
  <2>1. 1 \in 1..Len(h) + Len(m.body) /\ 2 \in 1..Len(h) + Len(m.body)
    BY <1>2, <1>3
  <2> QED
    BY <1>3, <1>c, <2>1
<1>7. SubSeq(e, 3, Len(e)) = m.body
  <2> DEFINE b == SubSeq(e, 3, Len(e))
  <2>1. /\ b \in Seq(Nat) /\ Len(b) = Len(m.body)
        /\ \A k \in 1..Len(m.body) : b[k] = e[3 + k - 1]
    <3>1. Len(e) - 3 + 1 = Len(m.body) /\ Len(e) \in Nat /\ Len(e) >= 2
      BY <1>2, <1>5
    <3>2. 3 \in 1..Len(e) + 1 /\ Len(e) \in 3 - 1..Len(e)
      BY <3>1
    <3>3. /\ b \in Seq(Nat) /\ Len(b) = Len(e) - 3 + 1
          /\ \A k \in 1..Len(e) - 3 + 1 : b[k] = e[3 + k - 1]
      BY <1>5, <3>2, Piece
    <3> QED
      BY <3>1, <3>3
  <2> HIDE DEF b
  <2>2. \A k \in 1..Len(b) : b[k] = m.body[k]
    <3> SUFFICES ASSUME NEW k \in 1..Len(m.body) PROVE b[k] = m.body[k]
      BY <2>1
    <3>1. /\ 3 + k - 1 = k + 2 /\ k + 2 \in 1..2 + Len(m.body)
          /\ ~(k + 2 <= 2) /\ k + 2 - 2 = k
      BY <1>2
    <3>2. e[k + 2] = m.body[k]
      BY <1>3, <1>c, <3>1
    <3> QED
      BY <2>1, <3>1, <3>2
  <2>3. b = m.body
    BY <1>1, <2>1, <2>2, SeqEqual
  <2> QED
    BY <2>3 DEF b
<1> QED
  BY <1>2, <1>5, <1>6, <1>7 DEF e

-----------------------------------------------------------------------------
(***************************************************************************)
(* Types.                                                                  *)
(***************************************************************************)
\* What is used of _data is there.
LEMMA CopyIsThere ==
  ASSUME Typed, NEW n \in 0..left
  PROVE  /\ Copy(n) \in Seq(Nat) /\ Len(Copy(n)) = n
         /\ SubSeq(data, 1, n) \in Seq(Nat) /\ Len(SubSeq(data, 1, n)) = n
<1>1. /\ data \in Seq(Nat) /\ left \in Nat /\ copy_len \in Nat
      /\ Len(data) = copy_len + left
  BY DEF Typed, TypeOK
<1>2. copy_len + 1 \in 1..Len(data) + 1 /\ copy_len + n \in copy_len + 1 - 1..Len(data)
  BY <1>1
<1>3. /\ Copy(n) \in Seq(Nat) /\ Len(Copy(n)) = (copy_len + n) - (copy_len + 1) + 1
  BY <1>1, <1>2, Piece DEF Copy
<1>4. 1 \in 1..Len(data) + 1 /\ n \in 1 - 1..Len(data)
  BY <1>1
<1>5. SubSeq(data, 1, n) \in Seq(Nat) /\ Len(SubSeq(data, 1, n)) = n - 1 + 1
  BY <1>1, <1>4, Piece
<1> QED
  BY <1>1, <1>3, <1>5

LEMMA InitTyped == Init => Typed
<1> SUFFICES ASSUME Init PROVE Typed
  OBVIOUS
<1> USE DEF Init, StreamInit
<1>1. <<>> \in Seq(Nat) /\ Len(<<>>) = 0 /\ <<>> \in Seq(Messages)
  BY EmptySeq
<1>2. msg \in [id : Nat, total : 0..MAX_LENGHT, base : 0..MAX_LENGHT, body : Seq(Nat)]
  BY <1>1, StreamAssumption DEF Node
<1>r. DOMAIN received = {} /\ Len(msg.body) <= msg.total
  BY <1>1 DEF Node
<1>p. patient \in BOOLEAN
  BY StreamAssumption
<1>3. TypeOK
  <2>1. copy_len + left = Len(data) /\ Len(head) <= HEAD_TOTAL_LEN + 1
    BY <1>1 DEF HEAD_TOTAL_LEN
  <2>2. /\ sent \in Seq(Messages) /\ stream \in Seq(Nat) /\ data \in Seq(Nat)
        /\ head \in Seq(Nat) /\ written \in Seq(Nat)
    BY <1>1
  <2> QED
    BY <1>2, <1>r, <1>p, <2>1, <2>2 DEF TypeOK
<1>4. HeaderAccepted /\ received \in Seq([id : 0..MAX_LENGHT, body : Seq(Nat)])
  BY EmptySeq, StreamAssumption DEF HeaderAccepted, Node
<1> QED
  BY <1>3, <1>4 DEF Typed

LEMMA SendTyped ==
  ASSUME Typed, NEW m \in Messages, Send(m)
  PROVE  Typed'
<1>1. /\ sent' = Append(sent, m) /\ stream' = stream \o Encode(m)
      /\ written' = written \o Encode(m)
      /\ UNCHANGED <<patient, readVars, phase, head, b_head_parse, msg, received>>
  BY DEF Send, ClientSend
<1>2. Encode(m) \in Seq(Nat)
  BY EncodeProperties
<1>3. sent' \in Seq(Messages)
  BY <1>1, AppendProperties DEF Typed, TypeOK
<1>4. stream' \in Seq(Nat) /\ written' \in Seq(Nat)
  BY <1>1, <1>2, ConcatProperties DEF Typed, TypeOK
<1> QED
  BY <1>1, <1>3, <1>4 DEF Typed, TypeOK, HeaderAccepted, readVars

LEMMA ReadSomeTyped ==
  ASSUME Typed, NEW n \in 1..MAX_LENGHT, ReadSome(n)
  PROVE  Typed'
<1>1. stream \in Seq(Nat) /\ Len(stream) \in Nat /\ n <= Len(stream) /\ n \in Nat
  BY LenProperties, StreamAssumption DEF Typed, TypeOK, ReadSome
<1>2. /\ 1 \in 1..Len(stream) + 1 /\ n \in 1 - 1..Len(stream)
      /\ n + 1 \in 1..Len(stream) + 1 /\ Len(stream) \in n + 1 - 1..Len(stream)
  BY <1>1
<1>3. SubSeq(stream, 1, n) \in Seq(Nat) /\ Len(SubSeq(stream, 1, n)) = n
  BY <1>1, <1>2, Piece
<1>4. SubSeq(stream, n + 1, Len(stream)) \in Seq(Nat)
  BY <1>1, <1>2, Piece
<1>5. /\ stream' \in Seq(Nat) /\ data' \in Seq(Nat) /\ Len(data') = n
      /\ left' = n /\ copy_len' = 0 /\ phase' \in {"rest", "head"}
      /\ UNCHANGED <<patient, sent, written, head, b_head_parse, msg, received>>
  BY <1>3, <1>4 DEF ReadSome
<1>6. phase # "undefined" /\ copy_len' \in Nat /\ left' \in Nat /\ copy_len' + left' = Len(data')
  BY <1>1, <1>5 DEF ReadSome
<1> QED
  BY <1>5, <1>6 DEF Typed, TypeOK, HeaderAccepted

LEMMA ReadAgainTyped ==
  ASSUME ReadAgain
  PROVE  /\ data' \in Seq(Nat) /\ left' \in Nat /\ copy_len' \in Nat
         /\ copy_len' + left' = Len(data') /\ phase' = "waiting"
BY EmptySeq DEF ReadAgain

LEMMA HeadShortTyped ==
  ASSUME Typed, HeadShort
  PROVE  Typed'
<1>1. left \in Nat /\ head \in Seq(Nat) /\ Len(head) \in Nat
  BY LenProperties DEF Typed, TypeOK
<1>2. SubSeq(data, 1, left) \in Seq(Nat) /\ Len(SubSeq(data, 1, left)) = left
  BY <1>1, CopyIsThere
<1>3. head' \in Seq(Nat) /\ Len(head') = Len(head) + left
  BY <1>1, <1>2, ConcatProperties DEF HeadShort
<1>4. Len(head') <= HEAD_TOTAL_LEN + 1
  BY <1>3 DEF HeadShort
<1> QED
  BY <1>3, <1>4, ReadAgainTyped
    DEF Typed, TypeOK, HeaderAccepted, HeadShort, streamVars

LEMMA HeadWholeTyped ==
  ASSUME Typed, HeadWhole
  PROVE  Typed'
<1> DEFINE r == 2 - Len(head)
<1>1. /\ left \in Nat /\ copy_len \in Nat /\ head \in Seq(Nat) /\ Len(head) \in Nat
      /\ copy_len + left = Len(data) /\ Len(head) <= 2 /\ left >= 2
  BY LenProperties DEF Typed, TypeOK, HeadWhole, HEAD_TOTAL_LEN
<1>2. r \in 0..left
  BY <1>1
<1>3. /\ head' = head \o SubSeq(data, 1, r)
      /\ left' = left - r /\ copy_len' = copy_len + r
      /\ UNCHANGED <<streamVars, data, b_head_parse, received>>
      /\ \/ msg' = Node(head'[1], head'[2]) /\ phase' = "body"
            /\ head'[1] <= MAX_LENGHT /\ head'[2] <= MAX_LENGHT
         \/ phase' = "cleared" /\ UNCHANGED msg
  BY DEF HeadWhole, HEAD_TOTAL_LEN
<1>4. SubSeq(data, 1, r) \in Seq(Nat) /\ Len(SubSeq(data, 1, r)) = r
  BY <1>2, CopyIsThere
<1> HIDE DEF r
<1>5. head' \in Seq(Nat) /\ Len(head') = Len(head) + r
  BY <1>1, <1>3, <1>4, ConcatProperties
<1>6. Len(head') = 2
  BY <1>1, <1>5 DEF r
<1>7. head'[1] \in Nat /\ head'[2] \in Nat
  <2>1. 1 \in 1..Len(head') /\ 2 \in 1..Len(head')
    BY <1>6
  <2> QED
    BY <1>5, <2>1, ElementOfSeq
<1>8. /\ left' \in Nat /\ copy_len' \in Nat /\ copy_len' + left' = Len(data')
  <2>1. data' = data /\ left' = left - r /\ copy_len' = copy_len + r
    BY <1>3
  <2> QED
    BY <1>1, <1>2, <2>1
<1>9. /\ msg' \in [id : Nat, total : 0..MAX_LENGHT, base : 0..MAX_LENGHT, body : Seq(Nat)]
      /\ Len(msg'.body) <= msg'.total /\ msg'.id <= MAX_LENGHT
  <2>1. CASE UNCHANGED msg
    BY <2>1 DEF Typed, TypeOK, HeaderAccepted
  <2>2. CASE /\ msg' = Node(head'[1], head'[2])
             /\ head'[1] <= MAX_LENGHT /\ head'[2] <= MAX_LENGHT
    <3>1. <<>> \in Seq(Nat) /\ Len(<<>>) = 0
      BY EmptySeq
    <3> QED
      BY <1>7, <2>2, <3>1, StreamAssumption DEF Node
  <2> QED
    BY <1>3, <2>1, <2>2
<1>10. phase' \in {"body", "cleared"}
  BY <1>3
<1>11. Len(head') <= HEAD_TOTAL_LEN + 1
  BY <1>6 DEF HEAD_TOTAL_LEN
<1>12. UNCHANGED <<patient, sent, written, stream, data, b_head_parse, received>>
  BY <1>3 DEF streamVars
<1>13. TypeOK'
  BY <1>5, <1>8, <1>9, <1>10, <1>11, <1>12 DEF Typed, TypeOK
<1> QED
  BY <1>9, <1>12, <1>13 DEF Typed, HeaderAccepted

LEMMA PostTyped ==
  ASSUME Typed, NEW bytes \in Seq(Nat), Post(bytes)
  PROVE  Typed'
<1>1. /\ msg.id \in 0..MAX_LENGHT /\ msg.body \in Seq(Nat)
      /\ left \in Nat /\ copy_len \in Nat /\ copy_len + left = Len(data)
      /\ data \in Seq(Nat) /\ Len(bytes) \in Nat
  BY LenProperties, StreamAssumption DEF Typed, TypeOK, HeaderAccepted
<1>2. msg.body \o bytes \in Seq(Nat)
  BY <1>1, ConcatProperties
<1>3. [id |-> msg.id, body |-> msg.body \o bytes] \in [id : 0..MAX_LENGHT, body : Seq(Nat)]
  BY <1>1, <1>2
<1>4. received' \in Seq([id : 0..MAX_LENGHT, body : Seq(Nat)])
  BY <1>3, AppendProperties DEF Typed, Post
<1>5. \A i \in DOMAIN received' : received'[i] \in [id : 0..MAX_LENGHT, body : Seq(Nat)]
  BY <1>4, ElementOfSeq, LenProperties
<1>6. /\ data' \in Seq(Nat) /\ left' \in Nat /\ copy_len' \in Nat
      /\ copy_len' + left' = Len(data') /\ phase' \in {"waiting", "head"}
  <2>1. CASE ReadAgain
    BY <2>1, ReadAgainTyped
  <2>2. CASE ~ReadAgain
    <3>1. /\ left > Len(bytes) /\ phase' = "head" /\ data' = data
          /\ left' = left - Len(bytes) /\ copy_len' = copy_len + Len(bytes)
      BY <2>2 DEF Post
    <3>2. left' \in Nat /\ copy_len' \in Nat
      BY <1>1, <3>1
    <3>3. copy_len' + left' = copy_len + left
      BY <1>1, <3>1
    <3>4. Len(data') = Len(data)
      BY <3>1
    <3> QED
      BY <1>1, <3>1, <3>2, <3>3, <3>4
  <2> QED
    BY <2>1, <2>2
<1>7. head' \in Seq(Nat) /\ Len(head') <= HEAD_TOTAL_LEN + 1
  BY EmptySeq DEF Post, HEAD_TOTAL_LEN
<1> QED
  BY <1>4, <1>5, <1>6, <1>7 DEF Typed, TypeOK, HeaderAccepted, Post, streamVars

LEMMA BodyTyped ==
  ASSUME Typed, BodyShort \/ BodyWhole
  PROVE  Typed'
<1>1. /\ left \in Nat /\ msg.total \in Nat /\ msg.total <= MAX_LENGHT
      /\ msg \in [id : Nat, total : 0..MAX_LENGHT, base : 0..MAX_LENGHT, body : Seq(Nat)]
  BY StreamAssumption DEF Typed, TypeOK
<1>2. CASE BodyShort
  <2>1. left \in 0..MAX_LENGHT
    BY <1>1, <1>2, StreamAssumption DEF BodyShort
  <2>2. /\ msg' \in [id : Nat, total : 0..MAX_LENGHT, base : 0..MAX_LENGHT, body : Seq(Nat)]
        /\ msg'.body = msg.body /\ msg'.total = msg.total /\ msg'.id = msg.id
    BY <1>1, <1>2, <2>1 DEF BodyShort
  <2> QED
    BY <1>2, <2>2, ReadAgainTyped DEF Typed, TypeOK, HeaderAccepted, BodyShort, streamVars
<1>3. CASE BodyWhole
  <2>1. Copy(msg.total) \in Seq(Nat)
    BY <1>1, <1>3, CopyIsThere DEF BodyWhole
  <2> QED
    BY <1>3, <2>1, PostTyped DEF BodyWhole
<1> QED
  BY <1>2, <1>3

LEMMA RestTyped ==
  ASSUME Typed, RestShort \/ RestWhole
  PROVE  Typed'
<1>1. /\ left \in Nat /\ msg.total \in Nat /\ Len(msg.body) \in Nat
      /\ msg.body \in Seq(Nat) /\ Len(msg.body) <= msg.total
      /\ msg \in [id : Nat, total : 0..MAX_LENGHT, base : 0..MAX_LENGHT, body : Seq(Nat)]
  BY LenProperties, StreamAssumption DEF Typed, TypeOK
<1>2. CASE RestShort
  <2>1. Copy(left) \in Seq(Nat) /\ Len(Copy(left)) = left
    BY <1>1, CopyIsThere
  <2>2. /\ msg.body \o Copy(left) \in Seq(Nat)
        /\ Len(msg.body \o Copy(left)) = Len(msg.body) + Len(Copy(left))
    BY <1>1, <2>1, ConcatProperties
  <2>3. msg' = [msg EXCEPT !.body = msg.body \o Copy(left)]
    BY <1>2 DEF RestShort
  <2>4. /\ msg' \in [id : Nat, total : 0..MAX_LENGHT, base : 0..MAX_LENGHT, body : Seq(Nat)]
        /\ msg'.body = msg.body \o Copy(left)
        /\ msg'.total = msg.total /\ msg'.id = msg.id
    BY <1>1, <2>2, <2>3
  <2>5. Len(msg'.body) <= msg'.total
    BY <1>1, <1>2, <2>1, <2>2, <2>4 DEF RestShort, RemainMsg
  <2> QED
    BY <1>2, <2>4, <2>5, ReadAgainTyped
      DEF Typed, TypeOK, HeaderAccepted, RestShort, streamVars
<1>3. CASE RestWhole
  <2>1. RemainMsg \in 0..left
    BY <1>1, <1>3 DEF RestWhole, RemainMsg
  <2>2. Copy(RemainMsg) \in Seq(Nat)
    BY <2>1, CopyIsThere
  <2> QED
    BY <1>3, <2>2, PostTyped DEF RestWhole
<1> QED
  BY <1>2, <1>3

LEMMA UndefinedTyped ==
  ASSUME Typed, Undefined \/ UNCHANGED vars
  PROVE  Typed'
BY DEF Typed, TypeOK, HeaderAccepted, Undefined, vars, streamVars, readVars

LEMMA NextTyped == Typed /\ [Next]_vars => Typed'
BY SendTyped, ReadSomeTyped, HeadShortTyped, HeadWholeTyped, BodyTyped, RestTyped,
   UndefinedTyped
  DEF Next, HandleReadStep, HeadOverrun, RestOverrun

\* Every variable keeps its type, and every copy that is not reported as
\* undefined fits its node.
THEOREM TypeCorrect == Spec => []TypeOK
<1>1. Typed => TypeOK
  BY DEF Typed
<1> QED
  BY <1>1, InitTyped, NextTyped, PTL DEF Spec

-----------------------------------------------------------------------------
(***************************************************************************)
(* The message on its way.                                                 *)
(***************************************************************************)
Pending == Len(sent) = Len(received) + 1

LEMMA Numbers ==
  ASSUME Typed
  PROVE  /\ left \in Nat /\ copy_len \in Nat /\ Len(data) = copy_len + left
         /\ data \in Seq(Nat) /\ stream \in Seq(Nat) /\ head \in Seq(Nat)
         /\ written \in Seq(Nat) /\ Len(written) \in Nat
         /\ Len(stream) \in Nat /\ Len(head) \in Nat
         /\ Len(sent) \in Nat /\ Len(received) \in Nat
         /\ msg.total \in Nat /\ msg.total <= MAX_LENGHT
         /\ msg.base \in Nat /\ msg.body \in Seq(Nat) /\ Len(msg.body) \in Nat
BY LenProperties, StreamAssumption DEF Typed, TypeOK

LEMMA CurrentBytes ==
  ASSUME Typed, Pending
  PROVE  /\ Current \in Messages
         /\ Bytes \in Seq(Nat) /\ Len(Bytes) \in Nat /\ Len(Bytes) >= 2
         /\ Bytes[1] = Current.id /\ Bytes[2] = Len(Current.body)
         /\ Len(Bytes) = 2 + Bytes[2] /\ Bytes[2] \in Nat
         /\ SubSeq(Bytes, 3, Len(Bytes)) = Current.body
<1>1. sent \in Seq(Messages) /\ Len(received) + 1 \in 1..Len(sent)
  BY Numbers DEF Typed, TypeOK, Pending
<1>2. Current \in Messages
  BY <1>1, ElementOfSeq DEF Current
<1> DEFINE e == Encode(Current)
<1>3. /\ e \in Seq(Nat) /\ Len(Current.body) \in Nat /\ Len(e) = 2 + Len(Current.body)
      /\ e[1] = Current.id /\ e[2] = Len(Current.body)
      /\ SubSeq(e, 3, Len(e)) = Current.body
  BY <1>2, EncodeProperties
<1>4. Bytes = e
  BY DEF Bytes
<1> HIDE DEF e
<1> QED
  BY <1>2, <1>3, <1>4

LEMMA TakenNumbers ==
  ASSUME Typed, Pending, Assembling
  PROVE  /\ Taken \in Nat
         /\ Taken + left + Len(stream) = Len(Bytes)
<1>1. left \in Nat /\ Len(stream) \in Nat /\ Len(Bytes) \in Nat
  BY Numbers, CurrentBytes
<1>2. Len(stream) + left <= Len(Bytes)
  BY DEF Assembling
<1> QED
  BY <1>1, <1>2 DEF Taken

\* The bytes of the message are used, left in _data or still in the stream.
LEMMA BytesDivided ==
  ASSUME Typed, Pending, Assembling
  PROVE  /\ left \in Nat /\ Len(stream) \in Nat /\ Taken \in Nat /\ Len(Bytes) \in Nat
         /\ Taken + left + Len(stream) = Len(Bytes)
         /\ Taken + left <= Len(Bytes)
<1>1. left \in Nat /\ Len(stream) \in Nat
  BY Numbers
<1>2. Len(Bytes) \in Nat
  BY CurrentBytes
<1>3. Taken \in Nat /\ Taken + left + Len(stream) = Len(Bytes)
  BY TakenNumbers
<1> QED
  BY <1>1, <1>2, <1>3

\* What is used next of _data is what comes next in the message.
LEMMA UseNext ==
  ASSUME Typed, Pending, Assembling, NEW n \in 0..left
  PROVE  /\ Copy(n) = SubSeq(Bytes, Taken + 1, Taken + n)
         /\ SubSeq(data, copy_len + n + 1, Len(data)) =
              SubSeq(Bytes, Taken + n + 1, Taken + left)
<1> DEFINE d == SubSeq(data, copy_len + 1, Len(data))
           b == SubSeq(Bytes, Taken + 1, Taken + left)
<1>1. d = b
  BY DEF Assembling
<1>2. /\ left \in Nat /\ copy_len \in Nat /\ Len(data) = copy_len + left
      /\ data \in Seq(Nat) /\ Bytes \in Seq(Nat) /\ Len(Bytes) \in Nat
      /\ Taken \in Nat /\ Taken + left <= Len(Bytes) /\ n \in Nat /\ n <= left
  <2>1. /\ left \in Nat /\ copy_len \in Nat /\ Len(data) = copy_len + left
        /\ data \in Seq(Nat)
    BY Numbers
  <2>2. Bytes \in Seq(Nat)
    BY CurrentBytes
  <2>3. Taken \in Nat /\ Len(Bytes) \in Nat /\ Taken + left <= Len(Bytes)
    BY BytesDivided
  <2> QED
    BY <2>1, <2>2, <2>3
<1>3. /\ SubSeq(d, 1, n) = SubSeq(data, copy_len + 1, copy_len + n)
      /\ SubSeq(d, n + 1, left) = SubSeq(data, copy_len + n + 1, Len(data))
  <2>1. /\ copy_len \in 0..Len(data) /\ Len(data) \in copy_len..Len(data)
        /\ n \in 0..Len(data) - copy_len /\ Len(data) - copy_len = left
    BY <1>2
  <2> QED
    BY <1>2, <2>1, CutPiece
<1>4. /\ SubSeq(b, 1, n) = SubSeq(Bytes, Taken + 1, Taken + n)
      /\ SubSeq(b, n + 1, left) = SubSeq(Bytes, Taken + n + 1, Taken + left)
  <2>1. /\ Taken \in 0..Len(Bytes) /\ Taken + left \in Taken..Len(Bytes)
        /\ n \in 0..Taken + left - Taken /\ Taken + left - Taken = left
    BY <1>2
  <2> QED
    BY <1>2, <2>1, CutPiece
<1> QED
  BY <1>1, <1>3, <1>4 DEF Copy

\* Everything of _data is used, and the handler reads again.
LEMMA AgainAssembling ==
  ASSUME Typed, Pending, Assembling, ReadAgain, UNCHANGED <<sent, stream, received>>
  PROVE  /\ Bytes' = Bytes /\ Taken' = Taken + left
         /\ Len(stream') + left' <= Len(Bytes')
         /\ stream' = SubSeq(Bytes', Len(Bytes') - Len(stream') + 1, Len(Bytes'))
         /\ SubSeq(data', copy_len' + 1, Len(data')) =
              SubSeq(Bytes', Taken' + 1, Taken' + left')
         /\ phase' = "waiting" /\ left' = 0
<1>1. Bytes' = Bytes
  BY DEF Bytes, Current
<1>2. phase' = "waiting" /\ data' = <<>> /\ left' = 0 /\ copy_len' = 0
  BY DEF ReadAgain
<1>3. /\ Taken \in Nat /\ left \in Nat /\ Len(stream) \in Nat /\ Len(Bytes) \in Nat
      /\ Taken + left + Len(stream) = Len(Bytes)
  BY BytesDivided
<1>4. Taken' = Taken + left
  <2>1. Taken' = Len(Bytes) - Len(stream) - 0
    BY <1>1, <1>2 DEF Taken
  <2> QED
    BY <1>3, <2>1
<1>5. SubSeq(data', 0 + 1, Len(data')) = <<>>
  BY <1>2, EmptySeq, SubSeqEmpty
<1>6. SubSeq(Bytes, Taken + left + 1, Taken + left + 0) = <<>>
  BY <1>3, SubSeqEmpty
<1>7. stream' = SubSeq(Bytes', Len(Bytes') - Len(stream') + 1, Len(Bytes'))
  BY <1>1 DEF Assembling
<1>8. Len(stream') + left' <= Len(Bytes')
  BY <1>1, <1>2, <1>3
<1>9. SubSeq(data', copy_len' + 1, Len(data')) = SubSeq(Bytes', Taken' + 1, Taken' + left')
  BY <1>1, <1>2, <1>4, <1>5, <1>6
<1> QED
  BY <1>1, <1>2, <1>4, <1>7, <1>8, <1>9

\* The message is complete.
LEMMA PostCompletes ==
  ASSUME Typed, Pending, NEW bytes, Post(bytes), left = Len(bytes), Len(bytes) \in Nat,
         [id |-> msg.id, body |-> msg.body \o bytes] = Current, stream = <<>>,
         \A i \in 1..Len(received) : received[i] = sent[i]
  PROVE  /\ Len(sent') = Len(received') /\ Idle'
         /\ \A i \in 1..Len(received') : received'[i] = sent'[i]
         /\ received' = Append(received, Current)
<1>1. /\ received' = Append(received, Current)
      /\ b_head_parse' = FALSE /\ head' = <<>> /\ ReadAgain
      /\ UNCHANGED <<patient, sent, stream>>
  BY DEF Post, streamVars
<1>2. [id |-> msg.id, body |-> msg.body \o bytes] \in [id : 0..MAX_LENGHT, body : Seq(Nat)]
  <2>1. msg.id \in 0..MAX_LENGHT
    BY StreamAssumption DEF Typed, TypeOK, HeaderAccepted
  <2>2. msg.body \o bytes \in Seq(Nat)
    <3>1. Current.body \in Seq(Nat)
      BY CurrentBytes, StreamAssumption
    <3> QED
      BY <3>1
  <2> QED
    BY <2>1, <2>2
<1>3. /\ received \in Seq([id : 0..MAX_LENGHT, body : Seq(Nat)])
      /\ Current \in [id : 0..MAX_LENGHT, body : Seq(Nat)]
  BY <1>2 DEF Typed
<1>4. /\ Len(received') = Len(received) + 1
      /\ \A i \in 1..Len(received) : received'[i] = received[i]
      /\ received'[Len(received) + 1] = Current
  BY <1>1, <1>3, AppendProperties
<1>5. Len(sent') = Len(received')
  BY <1>1, <1>4 DEF Pending
<1>6. \A i \in 1..Len(received') : received'[i] = sent'[i]
  <2> SUFFICES ASSUME NEW i \in 1..Len(received) + 1 PROVE received'[i] = sent[i]
    BY <1>1, <1>4
  <2>1. CASE i = Len(received) + 1
    BY <1>4, <2>1 DEF Current
  <2>2. CASE i # Len(received) + 1
    <3>1. Len(received) \in Nat
      BY Numbers
    <3>2. i \in 1..Len(received)
      BY <2>2, <3>1
    <3> QED
      BY <1>4, <3>2
  <2> QED
    BY <2>1, <2>2
<1>7. Idle'
  BY <1>1 DEF Idle, ReadAgain
<1> QED
  BY <1>1, <1>5, <1>6, <1>7

LEMMA InAssembly ==
  ASSUME OneOnItsWay, patient, phase \in {"head", "body", "rest"}
  PROVE  /\ Pending /\ Assembling
         /\ \A i \in 1..Len(received) : received[i] = sent[i]
BY DEF OneOnItsWay, Idle, Pending

LEMMA StillPending ==
  ASSUME OneOnItsWay, patient, Pending, UNCHANGED <<patient, sent, received>>,
         Assembling' \/ phase' \in {"cleared", "undefined"}
  PROVE  OneOnItsWay'
BY DEF OneOnItsWay, Pending

-----------------------------------------------------------------------------
\* The client sends when nothing is on its way.
LEMMA SendOneOnItsWay ==
  ASSUME Typed, OneOnItsWay, NEW m \in Messages, Send(m)
  PROVE  OneOnItsWay'
<1> SUFFICES ASSUME patient PROVE OneOnItsWay'
  BY DEF OneOnItsWay, Send, ClientSend
<1>1. /\ Len(sent) = Len(received)
      /\ sent' = Append(sent, m) /\ stream' = stream \o Encode(m)
      /\ UNCHANGED <<patient, data, left, copy_len, phase, head, b_head_parse, msg, received>>
  BY DEF Send, ClientSend, readVars
<1>2. /\ Len(sent) \in Nat /\ left \in Nat /\ copy_len \in Nat
      /\ Len(data) = copy_len + left /\ sent \in Seq(Messages)
  BY Numbers DEF Typed, TypeOK
<1>3. Idle /\ \A i \in 1..Len(received) : received[i] = sent[i]
  BY <1>1, <1>2 DEF OneOnItsWay
<1>4. /\ Len(sent') = Len(sent) + 1
      /\ \A i \in 1..Len(sent) : sent'[i] = sent[i]
      /\ sent'[Len(sent) + 1] = m
  BY <1>1, <1>2, AppendProperties
<1>5. Bytes' = Encode(m)
  BY <1>1, <1>4 DEF Bytes, Current
<1> DEFINE e == Encode(m)
<1>6. e \in Seq(Nat) /\ Len(e) \in Nat
  BY EncodeProperties, LenProperties
<1> HIDE DEF e
<1>7. stream' = e
  BY <1>1, <1>3, <1>6, ConcatEmptySeq DEF Idle, e
<1>8. SubSeq(e, 1, Len(e)) = e
  BY <1>6, SubSeqFull
<1>9. SubSeq(e, 1, 0) = <<>> /\ SubSeq(data, Len(data) + 1, Len(data)) = <<>>
  BY <1>2, SubSeqEmpty
<1>10. left = 0 /\ copy_len = Len(data)
  BY <1>2, <1>3 DEF Idle
<1>11. Taken' = 0 /\ Len(e) - Len(stream') + 1 = 1
  BY <1>1, <1>5, <1>6, <1>7, <1>10 DEF Taken, e
<1>12. Assembling'
  <2>1. Len(stream') + left' <= Len(Bytes')
    BY <1>1, <1>5, <1>6, <1>7, <1>10 DEF e
  <2>2. stream' = SubSeq(Bytes', Len(Bytes') - Len(stream') + 1, Len(Bytes'))
    BY <1>5, <1>7, <1>8, <1>11 DEF e
  <2>3. SubSeq(data', copy_len' + 1, Len(data')) = SubSeq(Bytes', Taken' + 1, Taken' + left')
    BY <1>1, <1>5, <1>9, <1>10, <1>11 DEF e
  <2>4. phase' = "waiting" /\ ~b_head_parse' /\ head' = <<>> /\ left' = 0
    BY <1>1, <1>3 DEF Idle
  <2>5. head' = SubSeq(Bytes', 1, Taken')
    BY <1>5, <1>9, <1>11, <2>4 DEF e
  <2> QED
    BY <2>1, <2>2, <2>3, <2>4, <2>5 DEF Assembling
<1> QED
  BY <1>1, <1>3, <1>4, <1>12 DEF OneOnItsWay

\* A read brings the next bytes.
LEMMA ReadSomeOneOnItsWay ==
  ASSUME Typed, OneOnItsWay, NEW n \in 1..MAX_LENGHT, ReadSome(n)
  PROVE  OneOnItsWay'
<1> SUFFICES ASSUME patient PROVE OneOnItsWay'
  BY DEF OneOnItsWay, ReadSome
<1>1. /\ phase = "waiting" /\ n <= Len(stream)
      /\ data' = SubSeq(stream, 1, n)
      /\ stream' = SubSeq(stream, n + 1, Len(stream))
      /\ left' = n /\ copy_len' = 0
      /\ phase' = IF b_head_parse THEN "rest" ELSE "head"
      /\ UNCHANGED <<patient, sent, head, b_head_parse, msg, received>>
  BY DEF ReadSome
<1>2. n \in Nat /\ n >= 1
  BY StreamAssumption
<1>3. Pending /\ Assembling
  <2>1. stream # <<>>
    BY <1>1, <1>2, EmptySeq
  <2> QED
    BY <1>1, <2>1 DEF OneOnItsWay, Idle, Pending
<1>s. Bytes \in Seq(Nat) /\ stream \in Seq(Nat)
  BY <1>3, Numbers, CurrentBytes
<1>4. /\ Len(Bytes) \in Nat /\ Len(stream) \in Nat /\ Taken \in Nat
      /\ Taken + Len(stream) = Len(Bytes)
  <2>1. left = 0
    BY <1>1, <1>3 DEF Assembling
  <2>2. /\ Len(stream) \in Nat /\ Taken \in Nat /\ Len(Bytes) \in Nat
        /\ Taken + left + Len(stream) = Len(Bytes)
    BY <1>3, BytesDivided
  <2> QED
    BY <2>1, <2>2
<1>5. stream = SubSeq(Bytes, Taken + 1, Len(Bytes))
  <2>1. stream = SubSeq(Bytes, Len(Bytes) - Len(stream) + 1, Len(Bytes))
    BY <1>3 DEF Assembling
  <2>2. Len(Bytes) - Len(stream) = Taken
    BY <1>4
  <2> QED
    BY <2>1, <2>2
<1>t. /\ Taken \in 0..Len(Bytes) /\ Len(Bytes) \in Taken..Len(Bytes)
      /\ n \in 0..Len(Bytes) - Taken /\ Len(Bytes) - Taken = Len(stream)
  BY <1>1, <1>2, <1>4
<1> DEFINE b == SubSeq(Bytes, Taken + 1, Len(Bytes))
           b1 == SubSeq(Bytes, Taken + 1, Taken + n)
           b2 == SubSeq(Bytes, Taken + n + 1, Len(Bytes))
<1>p. /\ SubSeq(b, 1, n) = b1
      /\ SubSeq(b, n + 1, Len(Bytes) - Taken) = b2
      /\ Len(b1) = n /\ Len(b2) = Len(Bytes) - Taken - n
  <2> DEFINE e == Bytes
             t == Taken
             u == Len(Bytes)
  <2>1. e \in Seq(Nat) /\ t \in 0..Len(e) /\ u \in t..Len(e) /\ n \in 0..u - t
    BY <1>s, <1>t
  <2> HIDE DEF e, t, u
  <2>2. /\ SubSeq(SubSeq(e, t + 1, u), 1, n) = SubSeq(e, t + 1, t + n)
        /\ SubSeq(SubSeq(e, t + 1, u), n + 1, u - t) = SubSeq(e, t + n + 1, u)
        /\ Len(SubSeq(e, t + 1, t + n)) = n
        /\ Len(SubSeq(e, t + n + 1, u)) = u - t - n
    BY <2>1, CutPiece
  <2> QED
    BY <2>2 DEF e, t, u
<1> HIDE DEF b, b1, b2
<1>6. data' = b1 /\ stream' = b2
  BY <1>1, <1>5, <1>t, <1>p DEF b
<1>7. Len(data') = n /\ Len(stream') = Len(stream) - n
  BY <1>t, <1>p, <1>6
<1>8. SubSeq(data', 1, n) = data'
  <2>1. data' \in Seq(Nat)
    BY ReadSomeTyped DEF Typed, TypeOK
  <2> QED
    BY <1>7, <2>1, SubSeqFull
<1>9. Bytes' = Bytes
  BY <1>1 DEF Bytes, Current
<1>10. Taken' = Taken
  <2>1. Taken' = Len(Bytes) - (Len(stream) - n) - n
    BY <1>1, <1>7, <1>9 DEF Taken
  <2> QED
    BY <1>2, <1>4, <2>1
<1>11. Assembling'
  <2>1. Len(stream') + left' <= Len(Bytes')
    BY <1>1, <1>2, <1>4, <1>7, <1>9
  <2>2. stream' = SubSeq(Bytes', Len(Bytes') - Len(stream') + 1, Len(Bytes'))
    <3>1. Len(Bytes) - Len(stream') + 1 = Taken + n + 1
      BY <1>2, <1>4, <1>7
    <3> QED
      BY <1>6, <1>9, <3>1 DEF b2
  <2>3. SubSeq(data', copy_len' + 1, Len(data')) = SubSeq(Bytes', Taken' + 1, Taken' + left')
    <3>1. copy_len' + 1 = 1 /\ left' = n
      BY <1>1
    <3> QED
      BY <1>6, <1>7, <1>8, <1>9, <1>10, <3>1 DEF b1
  <2>4. /\ phase' # "waiting" /\ phase' # "body" /\ copy_len' = 0
        /\ phase' = "head" => ~b_head_parse'
        /\ phase' = "rest" => b_head_parse'
    BY <1>1
  <2>5. /\ ~b_head_parse' => head' = SubSeq(Bytes', 1, Taken')
        /\ b_head_parse' =>
             /\ msg'.id = Bytes'[1] /\ msg'.total = Bytes'[2]
             /\ Taken' = 2 + msg'.base + Len(msg'.body)
             /\ msg'.base = 0 => msg'.body = SubSeq(Bytes', 3, Taken')
    BY <1>1, <1>3, <1>9, <1>10 DEF Assembling
  <2> QED
    BY <2>1, <2>2, <2>3, <2>4, <2>5 DEF Assembling
<1> QED
  BY <1>1, <1>3, <1>11, StillPending

\* Part of a header is kept.
LEMMA HeadShortOneOnItsWay ==
  ASSUME Typed, OneOnItsWay, HeadShort
  PROVE  OneOnItsWay'
<1> SUFFICES ASSUME patient PROVE OneOnItsWay'
  BY DEF OneOnItsWay, HeadShort, streamVars
<1>1. /\ phase = "head" /\ head' = head \o SubSeq(data, 1, left) /\ ReadAgain
      /\ UNCHANGED <<patient, sent, stream, b_head_parse, msg, received>>
  BY DEF HeadShort, streamVars
<1>2. Pending /\ Assembling
  BY <1>1, InAssembly
<1>3. copy_len = 0 /\ ~b_head_parse /\ head = SubSeq(Bytes, 1, Taken)
  BY <1>1, <1>2 DEF Assembling
<1>4. /\ Bytes' = Bytes /\ Taken' = Taken + left
      /\ Len(stream') + left' <= Len(Bytes')
      /\ stream' = SubSeq(Bytes', Len(Bytes') - Len(stream') + 1, Len(Bytes'))
      /\ SubSeq(data', copy_len' + 1, Len(data')) =
           SubSeq(Bytes', Taken' + 1, Taken' + left')
      /\ phase' = "waiting" /\ left' = 0
  BY <1>1, <1>2, AgainAssembling
<1>5. head' = SubSeq(Bytes, 1, Taken + left)
  <2>1. /\ left \in Nat /\ Taken \in Nat /\ Len(Bytes) \in Nat
        /\ Taken + left <= Len(Bytes)
    BY <1>2, BytesDivided
  <2>2. Copy(left) = SubSeq(Bytes, Taken + 1, Taken + left)
    BY <1>2, <2>1, UseNext
  <2>3. Copy(left) = SubSeq(data, 1, left)
    BY <1>3, <2>1 DEF Copy
  <2>4. /\ 1 \in 1..Len(Bytes) + 1 /\ Taken \in 1 - 1..Len(Bytes)
        /\ Taken + left \in Taken..Len(Bytes)
    BY <2>1
  <2>5. Bytes \in Seq(Nat)
    BY <1>2, CurrentBytes
  <2>6. SubSeq(Bytes, 1, Taken) \o SubSeq(Bytes, Taken + 1, Taken + left) =
          SubSeq(Bytes, 1, Taken + left)
    BY <2>4, <2>5, PiecesAdjoin
  <2> QED
    BY <1>1, <1>3, <2>2, <2>3, <2>6
<1>6. Assembling'
  BY <1>1, <1>3, <1>4, <1>5 DEF Assembling
<1> QED
  BY <1>1, <1>2, <1>6, StillPending

\* The header is complete: it is that of the message.
LEMMA HeadWholeAssembles ==
  ASSUME Typed, OneOnItsWay, patient, HeadWhole
  PROVE  /\ Pending /\ Assembling
         /\ head'[1] = Bytes[1] /\ head'[2] = Bytes[2]
         /\ Bytes' = Bytes /\ Taken' = 2
         /\ Len(stream') + left' <= Len(Bytes')
         /\ stream' = SubSeq(Bytes', Len(Bytes') - Len(stream') + 1, Len(Bytes'))
         /\ SubSeq(data', copy_len' + 1, Len(data')) =
              SubSeq(Bytes', Taken' + 1, Taken' + left')
<1> DEFINE r == 2 - Len(head)
<1>1. /\ phase = "head" /\ left >= 2 /\ Len(head) <= 2
      /\ head' = head \o SubSeq(data, 1, r)
      /\ left' = left - r /\ copy_len' = copy_len + r
      /\ UNCHANGED <<patient, sent, stream, data, b_head_parse, received>>
  BY DEF HeadWhole, streamVars, HEAD_TOTAL_LEN
<1>2. Pending /\ Assembling
  BY <1>1, InAssembly
<1>3. copy_len = 0 /\ head = SubSeq(Bytes, 1, Taken)
  BY <1>1, <1>2 DEF Assembling
<1>4. /\ left \in Nat /\ Taken \in Nat /\ Len(Bytes) \in Nat /\ Len(stream) \in Nat
      /\ Taken + left + Len(stream) = Len(Bytes)
  BY <1>2, BytesDivided
<1>5. Bytes \in Seq(Nat)
  BY <1>2, CurrentBytes
<1>6. Len(head) = Taken
  <2>1. 1 \in 1..Len(Bytes) + 1 /\ Taken \in 1 - 1..Len(Bytes) /\ Taken - 1 + 1 = Taken
    BY <1>4
  <2>2. Len(SubSeq(Bytes, 1, Taken)) = Taken - 1 + 1
    BY <1>5, <2>1, Piece
  <2> QED
    BY <1>3, <2>1, <2>2
<1>7. r \in 0..left /\ r \in Nat /\ Taken + r = 2
  BY <1>1, <1>4, <1>6
<1> HIDE DEF r
<1>8. head' = SubSeq(Bytes, 1, 2)
  <2>1. Copy(r) = SubSeq(Bytes, Taken + 1, Taken + r)
    BY <1>2, <1>7, UseNext
  <2>2. Copy(r) = SubSeq(data, 1, r)
    BY <1>3, <1>7 DEF Copy
  <2>3. /\ 1 \in 1..Len(Bytes) + 1 /\ Taken \in 1 - 1..Len(Bytes)
        /\ Taken + r \in Taken..Len(Bytes)
    BY <1>4, <1>7
  <2>4. SubSeq(Bytes, 1, Taken) \o SubSeq(Bytes, Taken + 1, Taken + r) =
          SubSeq(Bytes, 1, Taken + r)
    BY <1>5, <2>3, PiecesAdjoin
  <2> QED
    BY <1>1, <1>3, <1>7, <2>1, <2>2, <2>4
<1>9. head'[1] = Bytes[1] /\ head'[2] = Bytes[2]
  <2>1. /\ 1 \in 1..Len(Bytes) + 1 /\ 2 \in 1 - 1..Len(Bytes)
        /\ 1 \in 1..2 - 1 + 1 /\ 2 \in 1..2 - 1 + 1
    BY <1>1, <1>4, <1>7
  <2>2. \A k \in 1..2 - 1 + 1 : SubSeq(Bytes, 1, 2)[k] = Bytes[1 + k - 1]
    BY <1>5, <2>1, Piece
  <2>3. /\ SubSeq(Bytes, 1, 2)[1] = Bytes[1 + 1 - 1]
        /\ SubSeq(Bytes, 1, 2)[2] = Bytes[1 + 2 - 1]
    BY <2>1, <2>2
  <2> QED
    BY <1>8, <2>3
<1>10. Bytes' = Bytes
  BY <1>1 DEF Bytes, Current
<1>11. Taken' = 2
  <2>1. Taken' = Len(Bytes) - Len(stream) - (left - r)
    BY <1>1, <1>10 DEF Taken
  <2> QED
    BY <1>4, <1>7, <2>1
<1>12. SubSeq(data', copy_len' + 1, Len(data')) = SubSeq(Bytes, Taken' + 1, Taken' + left')
  <2>1. SubSeq(data, copy_len + r + 1, Len(data)) = SubSeq(Bytes, Taken + r + 1, Taken + left)
    BY <1>2, <1>7, UseNext
  <2>2. Taken + r + 1 = 2 + 1 /\ Taken + left = 2 + (left - r)
    BY <1>4, <1>7
  <2> QED
    BY <1>1, <1>11, <2>1, <2>2
<1>13. Len(stream') + left' <= Len(Bytes')
  BY <1>1, <1>4, <1>7, <1>10
<1>14. stream' = SubSeq(Bytes', Len(Bytes') - Len(stream') + 1, Len(Bytes'))
  BY <1>1, <1>2, <1>10 DEF Assembling
<1> QED
  BY <1>2, <1>9, <1>10, <1>11, <1>12, <1>13, <1>14

LEMMA HeadWholeOneOnItsWay ==
  ASSUME Typed, OneOnItsWay, HeadWhole
  PROVE  OneOnItsWay'
<1> SUFFICES ASSUME patient PROVE OneOnItsWay'
  BY DEF OneOnItsWay, HeadWhole, streamVars
<1>1. /\ phase = "head"
      /\ UNCHANGED <<patient, sent, stream, data, b_head_parse, received>>
      /\ \/ msg' = Node(head'[1], head'[2]) /\ phase' = "body"
         \/ phase' = "cleared"
  BY DEF HeadWhole, streamVars
<1>2. /\ Pending /\ Assembling
      /\ head'[1] = Bytes[1] /\ head'[2] = Bytes[2]
      /\ Bytes' = Bytes /\ Taken' = 2
      /\ Len(stream') + left' <= Len(Bytes')
      /\ stream' = SubSeq(Bytes', Len(Bytes') - Len(stream') + 1, Len(Bytes'))
      /\ SubSeq(data', copy_len' + 1, Len(data')) =
           SubSeq(Bytes', Taken' + 1, Taken' + left')
  BY HeadWholeAssembles
<1>3. ~b_head_parse
  BY <1>1, <1>2 DEF Assembling
<1>4. Assembling' \/ phase' = "cleared"
  BY <1>1, <1>2, <1>3 DEF Assembling
<1> QED
  BY <1>1, <1>2, <1>4, StillPending

\* Part of the body, with the header that came before it in this read.
LEMMA BodyShortOneOnItsWay ==
  ASSUME Typed, OneOnItsWay, BodyShort
  PROVE  OneOnItsWay'
<1> SUFFICES ASSUME patient PROVE OneOnItsWay'
  BY DEF OneOnItsWay, BodyShort, streamVars
<1>1. /\ phase = "body" /\ msg' = [msg EXCEPT !.base = left] /\ ReadAgain
      /\ b_head_parse' = TRUE
      /\ UNCHANGED <<patient, sent, stream, head, received>>
  BY DEF BodyShort, streamVars
<1>2. Pending /\ Assembling
  BY <1>1, InAssembly
<1>3. Taken = 2 /\ msg = Node(Bytes[1], Bytes[2])
  BY <1>1, <1>2 DEF Assembling
<1>4. /\ Bytes' = Bytes /\ Taken' = Taken + left
      /\ Len(stream') + left' <= Len(Bytes')
      /\ stream' = SubSeq(Bytes', Len(Bytes') - Len(stream') + 1, Len(Bytes'))
      /\ SubSeq(data', copy_len' + 1, Len(data')) =
           SubSeq(Bytes', Taken' + 1, Taken' + left')
      /\ phase' = "waiting" /\ left' = 0
  BY <1>1, <1>2, AgainAssembling
<1>5. /\ msg'.id = Bytes[1] /\ msg'.total = Bytes[2]
      /\ msg'.base = left /\ msg'.body = <<>>
  BY <1>1, <1>3 DEF Node
<1>6. left \in Nat /\ Len(<<>>) = 0
  BY Numbers, EmptySeq
<1>7. Taken' = 2 + msg'.base + Len(msg'.body)
  BY <1>3, <1>4, <1>5, <1>6
<1>8. msg'.base = 0 => msg'.body = SubSeq(Bytes, 3, Taken')
  <2>1. SubSeq(Bytes, 3, 2) = <<>>
    BY SubSeqEmpty
  <2> QED
    BY <1>3, <1>4, <1>5, <1>6, <2>1
<1>9. Assembling'
  BY <1>1, <1>4, <1>5, <1>7, <1>8 DEF Assembling
<1> QED
  BY <1>1, <1>2, <1>9, StillPending

\* More of the body, which is in place only if the message is not torn.
LEMMA RestShortOneOnItsWay ==
  ASSUME Typed, OneOnItsWay, RestShort
  PROVE  OneOnItsWay'
<1> SUFFICES ASSUME patient PROVE OneOnItsWay'
  BY DEF OneOnItsWay, RestShort, streamVars
<1>1. /\ phase = "rest" /\ msg' = [msg EXCEPT !.body = msg.body \o Copy(left)]
      /\ ReadAgain
      /\ UNCHANGED <<patient, sent, stream, head, b_head_parse, received>>
  BY DEF RestShort, streamVars
<1>2. Pending /\ Assembling
  BY <1>1, InAssembly
<1>3. /\ b_head_parse
      /\ msg.id = Bytes[1] /\ msg.total = Bytes[2]
      /\ Taken = 2 + msg.base + Len(msg.body)
      /\ msg.base = 0 => msg.body = SubSeq(Bytes, 3, Taken)
  BY <1>1, <1>2 DEF Assembling
<1>4. /\ Bytes' = Bytes /\ Taken' = Taken + left
      /\ Len(stream') + left' <= Len(Bytes')
      /\ stream' = SubSeq(Bytes', Len(Bytes') - Len(stream') + 1, Len(Bytes'))
      /\ SubSeq(data', copy_len' + 1, Len(data')) =
           SubSeq(Bytes', Taken' + 1, Taken' + left')
      /\ phase' = "waiting" /\ left' = 0
  BY <1>1, <1>2, AgainAssembling
<1>5. /\ msg'.id = msg.id /\ msg'.total = msg.total /\ msg'.base = msg.base
      /\ msg'.body = msg.body \o Copy(left)
  BY <1>1 DEF Typed, TypeOK
<1>6. /\ left \in Nat /\ Taken \in Nat /\ Len(Bytes) \in Nat /\ Taken + left <= Len(Bytes)
      /\ Len(msg.body) \in Nat /\ msg.base \in Nat
  <2>1. Len(msg.body) \in Nat /\ msg.base \in Nat
    BY Numbers
  <2> QED
    BY <1>2, <2>1, BytesDivided
<1>7. Copy(left) \in Seq(Nat) /\ Len(Copy(left)) = left
  BY <1>6, CopyIsThere
<1>8. Taken' = 2 + msg'.base + Len(msg'.body)
  <2>1. msg.body \in Seq(Nat)
    BY Numbers
  <2>2. Len(msg.body \o Copy(left)) = Len(msg.body) + Len(Copy(left))
    BY <1>7, <2>1, ConcatProperties
  <2>3. Len(msg'.body) = Len(msg.body) + left
    BY <1>5, <1>7, <2>2
  <2>4. msg'.base = msg.base
    BY <1>5
  <2>5. 2 + msg.base + (Len(msg.body) + left) = (2 + msg.base + Len(msg.body)) + left
    BY <1>6
  <2> QED
    BY <1>3, <1>4, <2>3, <2>4, <2>5
<1>9. msg'.base = 0 => msg'.body = SubSeq(Bytes, 3, Taken')
  <2> SUFFICES ASSUME msg.base = 0 PROVE msg.body \o Copy(left) = SubSeq(Bytes, 3, Taken + left)
    BY <1>4, <1>5
  <2>1. Copy(left) = SubSeq(Bytes, Taken + 1, Taken + left)
    BY <1>2, <1>6, UseNext
  <2>2. /\ 3 \in 1..Len(Bytes) + 1 /\ Taken \in 3 - 1..Len(Bytes)
        /\ Taken + left \in Taken..Len(Bytes)
    BY <1>3, <1>6
  <2>3. Bytes \in Seq(Nat)
    BY <1>2, CurrentBytes
  <2>4. SubSeq(Bytes, 3, Taken) \o SubSeq(Bytes, Taken + 1, Taken + left) =
          SubSeq(Bytes, 3, Taken + left)
    BY <2>2, <2>3, PiecesAdjoin
  <2> QED
    BY <1>3, <2>1, <2>4
<1>10. Assembling'
  BY <1>1, <1>3, <1>4, <1>5, <1>8, <1>9 DEF Assembling
<1> QED
  BY <1>1, <1>2, <1>10, StillPending

\* What completes the message is all there is.
LEMMA LastPiece ==
  ASSUME Typed, Pending, Assembling, NEW n \in 0..left, Taken + n = Len(Bytes)
  PROVE  /\ left = n /\ stream = <<>>
         /\ Copy(n) = SubSeq(Bytes, Taken + 1, Len(Bytes)) /\ Len(Copy(n)) = n
<1>1. /\ left \in Nat /\ Len(stream) \in Nat /\ Taken \in Nat /\ Len(Bytes) \in Nat
      /\ Taken + left + Len(stream) = Len(Bytes)
  BY BytesDivided
<1>2. left = n /\ Len(stream) = 0
  BY <1>1
<1>3. stream = <<>>
  BY <1>2, Numbers, EmptySeq
<1>4. Copy(n) = SubSeq(Bytes, Taken + 1, Taken + n)
  BY UseNext
<1>5. Len(Copy(n)) = n
  BY CopyIsThere
<1> QED
  BY <1>2, <1>3, <1>4, <1>5

\* A message whose body is complete is the one that was sent, and is valid.
LEMMA WholeIsCurrent ==
  ASSUME Typed, Pending, msg.id = Bytes[1], msg.total = Bytes[2],
         NEW body, body = SubSeq(Bytes, 3, Len(Bytes))
  PROVE  [id |-> msg.id, body |-> body] = Current /\ Current \in Valid
<1>1. /\ Current \in Messages /\ Bytes[1] = Current.id
      /\ Bytes[2] = Len(Current.body)
      /\ SubSeq(Bytes, 3, Len(Bytes)) = Current.body
  BY CurrentBytes
<1>2. Current \in [id : Nat, body : Seq(Nat)]
  BY <1>1, StreamAssumption
<1>3. [id |-> msg.id, body |-> body] = Current
  BY <1>1, <1>2
<1>4. Current.id <= MAX_LENGHT
  BY <1>1 DEF Typed, HeaderAccepted
<1>5. Len(Current.body) <= MAX_LENGHT
  BY <1>1, Numbers
<1> QED
  BY <1>1, <1>3, <1>4, <1>5 DEF Valid

\* What posting the message on its way establishes.
Completed ==
  /\ Pending /\ Current \in Valid
  /\ received' = Append(received, Current)
  /\ phase # "cleared" /\ phase' # "cleared"
  /\ Len(sent') = Len(received') /\ Idle'
  /\ \A i \in 1..Len(received') : received'[i] = sent'[i]

\* The whole body came with the end of the header.
LEMMA BodyWholeCompletes ==
  ASSUME Typed, OneOnItsWay, patient, BodyWhole
  PROVE  Completed
<1>1. phase = "body" /\ left >= msg.total /\ Post(Copy(msg.total))
  BY DEF BodyWhole
<1>2. /\ Pending /\ Assembling
      /\ \A i \in 1..Len(received) : received[i] = sent[i]
  BY <1>1, InAssembly
<1>3. Taken = 2 /\ msg = Node(Bytes[1], Bytes[2])
  BY <1>1, <1>2 DEF Assembling
<1>4. msg.id = Bytes[1] /\ msg.total = Bytes[2] /\ msg.body = <<>>
  BY <1>3 DEF Node
<1>5. msg.total \in 0..left /\ msg.total \in Nat
  BY <1>1, Numbers
<1>6. Taken + msg.total = Len(Bytes)
  BY <1>2, <1>3, <1>4, CurrentBytes
<1>7. /\ left = msg.total /\ stream = <<>>
      /\ Copy(msg.total) = SubSeq(Bytes, Taken + 1, Len(Bytes))
      /\ Len(Copy(msg.total)) = msg.total
  BY <1>2, <1>5, <1>6, LastPiece
<1>8. msg.body \o Copy(msg.total) = SubSeq(Bytes, 3, Len(Bytes))
  <2>1. Copy(msg.total) \in Seq(Nat)
    BY <1>5, CopyIsThere
  <2>2. <<>> \o Copy(msg.total) = Copy(msg.total)
    BY <2>1, ConcatEmptySeq
  <2>3. Copy(msg.total) = SubSeq(Bytes, 3, Len(Bytes))
    BY <1>3, <1>7
  <2> QED
    BY <1>4, <2>2, <2>3
<1>9. /\ [id |-> msg.id, body |-> msg.body \o Copy(msg.total)] = Current
      /\ Current \in Valid
  BY <1>2, <1>4, <1>8, WholeIsCurrent
<1>10. /\ Len(sent') = Len(received') /\ Idle'
       /\ \A i \in 1..Len(received') : received'[i] = sent'[i]
       /\ received' = Append(received, Current)
  BY <1>1, <1>2, <1>5, <1>7, <1>9, PostCompletes
<1> QED
  BY <1>1, <1>2, <1>9, <1>10 DEF Completed, Idle

\* The rest of the body came, and none of it had been moved.
LEMMA RestWholeCompletes ==
  ASSUME Typed, OneOnItsWay, patient, RestWhole
  PROVE  Completed
<1>1. phase = "rest" /\ left >= RemainMsg /\ msg.base = 0 /\ Post(Copy(RemainMsg))
  BY DEF RestWhole
<1>2. /\ Pending /\ Assembling
      /\ \A i \in 1..Len(received) : received[i] = sent[i]
  BY <1>1, InAssembly
<1>3. /\ msg.id = Bytes[1] /\ msg.total = Bytes[2]
      /\ Taken = 2 + msg.base + Len(msg.body)
      /\ msg.body = SubSeq(Bytes, 3, Taken)
  BY <1>1, <1>2 DEF Assembling
<1>4. /\ msg.total \in Nat /\ Len(msg.body) \in Nat /\ Len(msg.body) <= msg.total
      /\ left \in Nat
  BY Numbers DEF Typed, TypeOK
<1>5. RemainMsg \in 0..left /\ RemainMsg \in Nat
  BY <1>1, <1>4 DEF RemainMsg
<1>t. Taken = 2 + Len(msg.body)
  BY <1>1, <1>3, <1>4
<1>6. Taken + RemainMsg = Len(Bytes)
  <2>1. Len(Bytes) = 2 + msg.total
    BY <1>2, <1>3, CurrentBytes
  <2> QED
    BY <1>4, <1>t, <2>1 DEF RemainMsg
<1>7. /\ left = RemainMsg /\ stream = <<>>
      /\ Copy(RemainMsg) = SubSeq(Bytes, Taken + 1, Len(Bytes))
      /\ Len(Copy(RemainMsg)) = RemainMsg
  BY <1>2, <1>5, <1>6, LastPiece
<1>8. msg.body \o Copy(RemainMsg) = SubSeq(Bytes, 3, Len(Bytes))
  <2>1. Bytes \in Seq(Nat) /\ Len(Bytes) \in Nat
    BY <1>2, CurrentBytes
  <2>2. Taken <= Len(Bytes)
    BY <1>4, <1>5, <1>6, <1>t, <2>1
  <2>3. /\ 3 \in 1..Len(Bytes) + 1 /\ Taken \in 3 - 1..Len(Bytes)
        /\ Len(Bytes) \in Taken..Len(Bytes)
    BY <1>4, <1>t, <2>1, <2>2
  <2>4. SubSeq(Bytes, 3, Taken) \o SubSeq(Bytes, Taken + 1, Len(Bytes)) =
          SubSeq(Bytes, 3, Len(Bytes))
    BY <2>1, <2>3, PiecesAdjoin
  <2> QED
    BY <1>3, <1>7, <2>4
<1>9. /\ [id |-> msg.id, body |-> msg.body \o Copy(RemainMsg)] = Current
      /\ Current \in Valid
  BY <1>2, <1>3, <1>8, WholeIsCurrent
<1>10. /\ Len(sent') = Len(received') /\ Idle'
       /\ \A i \in 1..Len(received') : received'[i] = sent'[i]
       /\ received' = Append(received, Current)
  BY <1>1, <1>2, <1>5, <1>7, <1>9, PostCompletes
<1> QED
  BY <1>1, <1>2, <1>9, <1>10 DEF Completed, Idle

LEMMA UndefinedOneOnItsWay ==
  ASSUME Typed, OneOnItsWay, HeadOverrun \/ RestOverrun
  PROVE  OneOnItsWay'
<1> SUFFICES ASSUME patient PROVE OneOnItsWay'
  BY DEF OneOnItsWay, HeadOverrun, RestOverrun, Undefined, streamVars
<1>1. /\ phase \in {"head", "rest"} /\ phase' = "undefined"
      /\ UNCHANGED <<patient, sent, received>>
  BY DEF HeadOverrun, RestOverrun, Undefined, streamVars
<1>2. Pending
  BY <1>1, InAssembly
<1> QED
  BY <1>1, <1>2, StillPending

LEMMA UnchangedOneOnItsWay ==
  ASSUME OneOnItsWay, UNCHANGED vars
  PROVE  OneOnItsWay'
BY DEF OneOnItsWay, Idle, Assembling, Taken, Bytes, Current, vars, streamVars, readVars

LEMMA InitOneOnItsWay == Init => OneOnItsWay
<1> SUFFICES ASSUME Init PROVE OneOnItsWay
  OBVIOUS
<1>1. /\ sent = <<>> /\ received = <<>> /\ stream = <<>> /\ phase = "waiting"
      /\ ~b_head_parse /\ left = 0 /\ head = <<>>
  BY DEF Init, StreamInit
<1>2. Idle
  BY <1>1 DEF Idle
<1>3. Len(sent) = Len(received) /\ Len(received) = 0
  BY <1>1, EmptySeq
<1>4. \A i \in 1..Len(received) : received[i] = sent[i]
  BY <1>1
<1> QED
  BY <1>2, <1>3, <1>4 DEF OneOnItsWay

LEMMA WholeOneOnItsWay ==
  ASSUME Typed, OneOnItsWay, BodyWhole \/ RestWhole
  PROVE  OneOnItsWay'
<1>1. patient' = patient
  BY DEF BodyWhole, RestWhole, Post, streamVars
<1>2. patient => Completed
  BY BodyWholeCompletes, RestWholeCompletes
<1> QED
  BY <1>1, <1>2 DEF Completed, OneOnItsWay

LEMMA NextIInv == IInv /\ [Next]_vars => IInv'
<1> SUFFICES ASSUME Typed, OneOnItsWay, [Next]_vars PROVE OneOnItsWay'
  BY NextTyped DEF IInv
<1>1. CASE \E m \in Messages : Send(m)
  BY <1>1, SendOneOnItsWay
<1>2. CASE \E n \in 1..MAX_LENGHT : ReadSome(n)
  BY <1>2, ReadSomeOneOnItsWay
<1>3. CASE HandleReadStep
  BY <1>3, HeadShortOneOnItsWay, HeadWholeOneOnItsWay, BodyShortOneOnItsWay,
     RestShortOneOnItsWay, WholeOneOnItsWay, UndefinedOneOnItsWay
    DEF HandleReadStep
<1>4. CASE UNCHANGED vars
  BY <1>4, UnchangedOneOnItsWay
<1> QED
  BY <1>1, <1>2, <1>3, <1>4 DEF Next

LEMMA Inductive == Spec => []IInv
<1>1. Init => IInv
  BY InitTyped, InitOneOnItsWay DEF IInv
<1> QED
  BY <1>1, NextIInv, PTL DEF Spec

-----------------------------------------------------------------------------
(***************************************************************************)
(* The stream of messages it promises.                                     *)
(***************************************************************************)
\* Only an invalid header clears the session.
LEMMA RejectsInvalid ==
  ASSUME Typed, OneOnItsWay, patient, HeadWhole, phase' = "cleared"
  PROVE  MS!Reject
<1>1. /\ phase = "head" /\ (head'[1] > MAX_LENGHT \/ head'[2] > MAX_LENGHT)
      /\ UNCHANGED <<sent, received>>
  BY DEF HeadWhole, streamVars
<1>2. Pending /\ head'[1] = Bytes[1] /\ head'[2] = Bytes[2]
  BY HeadWholeAssembles
<1>3. Bytes[1] = Current.id /\ Bytes[2] = Len(Current.body) /\ Current \in Messages
  BY <1>2, CurrentBytes
<1>4. Current.id \in Nat /\ Len(Current.body) \in Nat
  BY <1>3, StreamAssumption, LenProperties
<1>5. ~(Current.id <= MAX_LENGHT /\ Len(Current.body) <= MAX_LENGHT)
  BY <1>1, <1>2, <1>3, <1>4, StreamAssumption
<1>6. Current \notin Valid
  BY <1>5 DEF Valid
<1>7. Len(received) < Len(sent)
  BY <1>2, Numbers DEF Pending
<1> QED
  BY <1>1, <1>6, <1>7 DEF MS!Reject, MS!FirstUnread, Current

\* Posting the message on its way is receiving it.
LEMMA CompletedIsReceive ==
  ASSUME Typed, Completed, UNCHANGED sent
  PROVE  MS!Receive
<1>1. Len(received) < Len(sent)
  BY Numbers DEF Completed, Pending
<1> QED
  BY <1>1 DEF Completed, MS!Receive, MS!FirstUnread, Current

LEMMA StepReceives ==
  ASSUME Typed, OneOnItsWay, patient, [Next]_vars
  PROVE  [MS!Next]_(MS!vars)
<1>1. ASSUME NEW m \in Messages, Send(m) PROVE MS!Next
  BY <1>1 DEF Send, ClientSend, MS!Next, MS!Send
<1>2. ASSUME NEW n \in 1..MAX_LENGHT, ReadSome(n) PROVE UNCHANGED MS!vars
  BY <1>2 DEF ReadSome, MS!vars
<1>3. CASE HeadShort \/ BodyShort \/ RestShort
  BY <1>3 DEF HeadShort, BodyShort, RestShort, ReadAgain, MS!vars, streamVars
<1>4. CASE HeadOverrun \/ RestOverrun
  BY <1>4 DEF HeadOverrun, RestOverrun, Undefined, MS!vars, streamVars
<1>5. CASE HeadWhole
  <2>1. CASE phase' = "cleared"
    BY <1>5, <2>1, RejectsInvalid DEF MS!Next
  <2>2. CASE phase' # "cleared"
    BY <1>5, <2>2 DEF HeadWhole, MS!vars, streamVars
  <2> QED
    BY <2>1, <2>2
<1>6. CASE BodyWhole
  BY <1>6, BodyWholeCompletes, CompletedIsReceive
    DEF MS!Next, BodyWhole, Post, streamVars
<1>7. CASE RestWhole
  BY <1>7, RestWholeCompletes, CompletedIsReceive
    DEF MS!Next, RestWhole, Post, streamVars
<1>8. CASE UNCHANGED vars
  BY <1>8 DEF vars, streamVars, MS!vars
<1> QED
  BY <1>1, <1>2, <1>3, <1>4, <1>5, <1>6, <1>7, <1>8 DEF Next, HandleReadStep

\* What HandleRead posts for a client that waits for its replies is what the
\* client sent, whole and in order, and only its invalid headers clear the
\* session, wherever TCP cuts the stream.
THEOREM Refinement == Spec => ReceivedAsSent
<1>1. Init => MS!Init
  BY DEF Init, StreamInit, MS!Init
<1>2. IInv /\ [Next]_vars => [patient => MS!Next]_(MS!vars)
  BY StepReceives DEF IInv
<1> QED
  BY <1>1, <1>2, Inductive, PTL DEF Spec, ReceivedAsSent

-----------------------------------------------------------------------------
(***************************************************************************)
(* Messages that are not received.                                         *)
(***************************************************************************)
\* A header is kept only with a body that has not all come.
Unfinished ==
  /\ phase \in {"head", "body"} => ~b_head_parse
  /\ phase = "body" => msg.body = <<>>
  /\ b_head_parse => Len(msg.body) < msg.total

LEMMA InitUnfinished == Init => Unfinished
BY DEF Init, Unfinished

LEMMA PostUnfinished ==
  ASSUME NEW bytes, Post(bytes)
  PROVE  Unfinished'
BY DEF Post, ReadAgain, Unfinished

LEMMA NextUnfinished ==
  ASSUME Typed, Unfinished, [Next]_vars
  PROVE  Unfinished'
<1>1. ASSUME NEW m \in Messages, Send(m) PROVE Unfinished'
  BY <1>1 DEF Send, Unfinished, readVars
<1>2. ASSUME NEW n \in 1..MAX_LENGHT, ReadSome(n) PROVE Unfinished'
  BY <1>2 DEF ReadSome, Unfinished
<1>3. CASE HeadShort
  BY <1>3 DEF HeadShort, ReadAgain, Unfinished
<1>4. CASE HeadOverrun \/ RestOverrun
  BY <1>4 DEF HeadOverrun, RestOverrun, Undefined, Unfinished
<1>5. CASE HeadWhole
  BY <1>5 DEF HeadWhole, Node, Unfinished
<1>6. CASE BodyShort
  <2>1. /\ phase = "body" /\ left < msg.total /\ phase' = "waiting"
        /\ msg' = [msg EXCEPT !.base = left]
    BY <1>6 DEF BodyShort, ReadAgain
  <2>2. msg'.body = msg.body /\ msg'.total = msg.total
    BY <2>1 DEF Typed, TypeOK
  <2>3. Len(msg.body) < msg.total
    <3>1. Len(msg.body) = 0
      BY <2>1, EmptySeq DEF Unfinished
    <3> QED
      BY <2>1, <3>1, Numbers
  <2> QED
    BY <2>1, <2>2, <2>3 DEF Unfinished
<1>7. CASE RestShort
  <2>1. /\ phase = "rest" /\ left < RemainMsg /\ phase' = "waiting"
        /\ msg' = [msg EXCEPT !.body = msg.body \o Copy(left)]
    BY <1>7 DEF RestShort, ReadAgain
  <2>2. /\ msg'.body = msg.body \o Copy(left) /\ msg'.total = msg.total
    BY <2>1 DEF Typed, TypeOK
  <2>3. left \in Nat /\ msg.body \in Seq(Nat) /\ Len(msg.body) \in Nat /\ msg.total \in Nat
    BY Numbers
  <2>4. Copy(left) \in Seq(Nat) /\ Len(Copy(left)) = left
    BY <2>3, CopyIsThere
  <2>5. Len(msg.body \o Copy(left)) = Len(msg.body) + Len(Copy(left))
    BY <2>3, <2>4, ConcatProperties
  <2>6. Len(msg.body) + left < msg.total
    BY <2>1, <2>3 DEF RemainMsg
  <2>7. Len(msg'.body) < msg'.total
    BY <2>2, <2>4, <2>5, <2>6
  <2> QED
    BY <2>1, <2>7 DEF Unfinished
<1>8. CASE BodyWhole \/ RestWhole
  BY <1>8, PostUnfinished DEF BodyWhole, RestWhole
<1>9. CASE UNCHANGED vars
  BY <1>9 DEF vars, readVars, Unfinished
<1> QED
  BY <1>1, <1>2, <1>3, <1>4, <1>5, <1>6, <1>7, <1>8, <1>9 DEF Next, HandleReadStep

\* A client that waits for its replies is left without one only by a message
\* that was torn; one that is cut between its header and its body, or again
\* inside the rest of the body, is received.
THEOREM TornOnly == Spec => []OnlyTornAreLost
<1>1. ASSUME Typed, OneOnItsWay, Unfinished PROVE OnlyTornAreLost
  <2> SUFFICES ASSUME patient, phase = "waiting", stream = <<>>, ~Torn
               PROVE  received = sent
    BY DEF OnlyTornAreLost
  <2>1. Len(sent) = Len(received)
    <3> SUFFICES ASSUME Pending, Assembling PROVE FALSE
      BY <1>1 DEF OneOnItsWay, Pending
    <3>1. left = 0 /\ Len(stream) = 0
      BY EmptySeq DEF Assembling
    <3>2. /\ Taken \in Nat /\ Taken = Len(Bytes) /\ Len(Bytes) \in Nat /\ Len(Bytes) >= 2
          /\ Len(Bytes) = 2 + Bytes[2] /\ Bytes \in Seq(Nat)
      BY <1>1, <3>1, CurrentBytes, TakenNumbers
    <3>3. CASE b_head_parse
      <4>1. /\ msg.base = 0 /\ msg.total = Bytes[2]
            /\ Taken = 2 + msg.base + Len(msg.body)
        BY <3>3 DEF Torn, Assembling
      <4>2. Len(msg.body) < msg.total /\ Len(msg.body) \in Nat /\ msg.total \in Nat
        BY <1>1, <3>3, Numbers DEF Unfinished
      <4> QED
        BY <3>2, <4>1, <4>2
    <3>4. CASE ~b_head_parse
      <4>1. head = <<>> /\ head = SubSeq(Bytes, 1, Taken)
        BY <3>4 DEF Torn, Assembling
      <4>2. 1 \in 1..Len(Bytes) + 1 /\ Taken \in 1 - 1..Len(Bytes)
        BY <3>2
      <4>3. Len(SubSeq(Bytes, 1, Taken)) = Taken - 1 + 1
        BY <3>2, <4>2, Piece
      <4>4. Len(SubSeq(Bytes, 1, Taken)) = 0
        BY <4>1, EmptySeq
      <4> QED
        BY <3>2, <4>3, <4>4
    <3> QED
      BY <3>3, <3>4
  <2>2. \A i \in 1..Len(received) : received[i] = sent[i]
    BY <1>1 DEF OneOnItsWay
  <2>3. sent \in [1..Len(sent) -> Messages]
    BY <1>1, LenProperties DEF Typed, TypeOK
  <2>4. received \in [1..Len(received) -> [id : 0..MAX_LENGHT, body : Seq(Nat)]]
    BY <1>1, LenProperties DEF Typed
  <2> QED
    BY <2>1, <2>2, <2>3, <2>4
<1>2. Typed /\ Unfinished /\ [Next]_vars => Unfinished'
  BY NextUnfinished
<1>3. Typed /\ OneOnItsWay /\ Unfinished => OnlyTornAreLost
  BY <1>1
<1> QED
  BY <1>2, <1>3, Inductive, InitUnfinished, PTL DEF Spec, IInv

-----------------------------------------------------------------------------
(***************************************************************************)
(* Sizes.                                                                  *)
(***************************************************************************)
\* The values F that Size reaches on its way through s.
LEMMA SizeUnfolds ==
  ASSUME NEW M, \A m \in M : Len(Encode(m)) \in Nat, NEW s \in Seq(M)
  PROVE  \E F : /\ F[0] = 0 /\ F[Len(s)] = Size(s)
                /\ \A k \in 1..Len(s) : F[k] = F[k - 1] + Len(Encode(s[k]))
<1> DEFINE n == Len(s)
           Add(k, v) == v + Len(Encode(s[k]))
           Iterates(h) == h = [t \in SUBSET (1..n) |->
                                 IF t = {} THEN 0 ELSE Add(Max(t), h[t \ {Max(t)}])]
           iter == CHOOSE h : Iterates(h)
           step == [k \in 1..n |-> [v \in Nat |-> Add(k, v)]]
           F == [k \in 0..n |-> iter[1..k]]
<1>1. n \in Nat /\ DOMAIN s = 1..n /\ \A k \in 1..n : s[k] \in M
  BY LenProperties, ElementOfSeq
<1>2. Size(s) = iter[1..n]
  BY <1>1 DEF Size, FoldLeft, MapThenFoldSet
<1> HIDE DEF n
<1>3. \A k \in 1..n, v \in Nat : Add(k, v) \in Nat
  BY <1>1
<1> HIDE DEF Add
<1>4. \E h : Iterates(h)
  <2>1. step \in [1..n -> [Nat -> Nat]] /\ 0 \in Nat
    BY <1>3
  <2>2. \A k \in 1..n, v \in Nat : step[k][v] = Add(k, v)
    OBVIOUS
  <2> HIDE DEF step
  <2>p. PICK h : Folds(h, Nat, 0, step, n)
    BY <1>1, <2>1, FoldExists
  <2>3. /\ h \in [SUBSET (1..n) -> Nat]
        /\ \A t \in SUBSET (1..n) :
             h[t] = IF t = {} THEN 0 ELSE step[Max(t)][h[t \ {Max(t)}]]
    BY <2>p DEF Folds
  <2>4. ASSUME NEW t \in SUBSET (1..n), t # {}
        PROVE  h[t] = Add(Max(t), h[t \ {Max(t)}])
    <3>1. Max(t) \in 1..n /\ t \ {Max(t)} \in SUBSET (1..n)
      BY <1>1, <2>4, GreatestPosition
    <3>2. h[t \ {Max(t)}] \in Nat
      BY <2>3, <3>1
    <3> QED
      BY <2>2, <2>3, <2>4, <3>1, <3>2
  <2>5. \A t \in SUBSET (1..n) :
          h[t] = IF t = {} THEN 0 ELSE Add(Max(t), h[t \ {Max(t)}])
    BY <2>3, <2>4
  <2>6. h = [t \in SUBSET (1..n) |-> h[t]]
    BY <2>3
  <2> QED
    BY <2>5, <2>6
<1>5. Iterates(iter)
  BY <1>4
<1> HIDE DEF iter
<1>6. F[0] = 0
  <2>1. 1..0 = {} /\ {} \in SUBSET (1..n) /\ 0 \in 0..n
    BY <1>1
  <2> QED
    BY <1>5, <2>1
<1>7. ASSUME NEW k \in 1..n
      PROVE  F[k] = Add(k, F[k - 1])
  <2>1. /\ 1..k \in SUBSET (1..n) /\ 1..k # {}
        /\ Max(1..k) = k /\ (1..k) \ {k} = 1..k - 1
    BY <1>1, FirstPositions
  <2>2. k \in 0..n /\ k - 1 \in 0..n
    BY <1>1
  <2> QED
    BY <1>5, <2>1, <2>2
<1>8. F[n] = Size(s)
  BY <1>1, <1>2
<1> HIDE DEF F
<1> QED
  BY <1>6, <1>7, <1>8 DEF n, Add

\* One message more.
LEMMA SizeAppend ==
  ASSUME NEW M, \A m \in M : Len(Encode(m)) \in Nat, NEW s \in Seq(M), NEW m \in M
  PROVE  Size(Append(s, m)) = Size(s) + Len(Encode(m)) /\ Size(s) \in Nat
<1> DEFINE n == Len(s)
           r == Append(s, m)
<1>1. /\ n \in Nat /\ r \in Seq(M) /\ Len(r) = n + 1 /\ r[n + 1] = m
      /\ \A k \in 1..n : r[k] = s[k] /\ s[k] \in M
  BY LenProperties, ElementOfSeq, AppendProperties
<1>2. PICK F : /\ F[0] = 0 /\ F[n] = Size(s)
               /\ \A k \in 1..n : F[k] = F[k - 1] + Len(Encode(s[k]))
  BY SizeUnfolds
<1> HIDE DEF r
<1>3. PICK G : /\ G[0] = 0 /\ G[Len(r)] = Size(r)
               /\ \A k \in 1..Len(r) : G[k] = G[k - 1] + Len(Encode(r[k]))
  BY <1>1, SizeUnfolds
<1> HIDE DEF n
<1> DEFINE T == {k \in Nat : G[k] = F[k] /\ F[k] \in Nat}
<1>4. 0..n \subseteq T
  <2>1. 0 \in T
    BY <1>2, <1>3
  <2>2. ASSUME NEW k \in 0..n - 1, k \in T
        PROVE  k + 1 \in T
    <3>1. k \in Nat /\ k + 1 \in 1..n /\ k + 1 \in 1..n + 1 /\ k + 1 - 1 = k
      BY <1>1
    <3>2. F[k + 1] = F[k] + Len(Encode(s[k + 1])) /\ G[k + 1] = G[k] + Len(Encode(r[k + 1]))
      BY <1>1, <1>2, <1>3, <3>1
    <3>3. r[k + 1] = s[k + 1] /\ Len(Encode(s[k + 1])) \in Nat
      BY <1>1, <3>1
    <3>4. G[k] = F[k] /\ F[k] \in Nat
      BY <2>2
    <3> QED
      BY <3>1, <3>2, <3>3, <3>4
  <2> HIDE DEF T
  <2> QED
    BY <1>1, <2>1, <2>2, InductionUpTo
<1>5. G[n] = F[n] /\ F[n] \in Nat
  <2>1. n \in T
    <3> HIDE DEF T
    <3> QED
      BY <1>1, <1>4
  <2> QED
    BY <2>1
<1>6. n + 1 \in 1..Len(r) /\ n + 1 - 1 = n
  BY <1>1
<1>7. G[n + 1] = G[n] + Len(Encode(m))
  BY <1>1, <1>3, <1>6
<1> QED
  BY <1>1, <1>2, <1>3, <1>5, <1>7 DEF r

LEMMA SizeEmpty == Size(<<>>) = 0
<1>1. <<>> \in Seq({}) /\ Len(<<>>) = 0
  BY EmptySeq
<1> QED
  BY <1>1, SizeUnfolds

\* What is posted counts as its header and its body.
LEMMA SizeReceived ==
  ASSUME Typed, NEW m \in [id : 0..MAX_LENGHT, body : Seq(Nat)]
  PROVE  /\ Size(received) \in Nat
         /\ Size(Append(received, m)) = Size(received) + 2 + Len(m.body)
<1> DEFINE M == [id : 0..MAX_LENGHT, body : Seq(Nat)]
<1>1. ASSUME NEW x \in M
      PROVE  Len(Encode(x)) = 2 + Len(x.body) /\ Len(x.body) \in Nat
  <2> DEFINE h == <<x.id, Len(x.body)>>
  <2>1. x.id \in Nat /\ x.body \in Seq(Nat)
    BY StreamAssumption
  <2>2. Len(x.body) \in Nat
    BY <2>1, LenProperties
  <2>3. h \in Seq(Nat) /\ Len(h) = 2
    BY <2>1, <2>2
  <2>4. Encode(x) = h \o x.body
    BY DEF Encode
  <2> HIDE DEF h
  <2>5. \A u, v \in Seq(Nat) : Len(u \o v) = Len(u) + Len(v)
    BY ConcatProperties
  <2>6. Len(h \o x.body) = Len(h) + Len(x.body)
    BY <2>1, <2>3, <2>5
  <2> QED
    BY <2>2, <2>3, <2>4, <2>6
<1>2. received \in Seq(M) /\ m \in M
  BY DEF Typed
<1> HIDE DEF M
<1>3. \A x \in M : Len(Encode(x)) \in Nat
  BY <1>1
<1>4. Size(Append(received, m)) = Size(received) + Len(Encode(m)) /\ Size(received) \in Nat
  BY <1>2, <1>3, SizeAppend
<1>5. Len(Encode(m)) = 2 + Len(m.body) /\ Len(m.body) \in Nat
  BY <1>1, <1>2
<1>6. \A a, b, c \in Nat : a = 2 + b => c + a = c + 2 + b
  OBVIOUS
<1> QED
  BY <1>3, <1>2, <1>4, <1>5, <1>6

-----------------------------------------------------------------------------
(***************************************************************************)
(* Every byte in its place, for any client: first their number.            *)
(***************************************************************************)
\* What has been written is not read, left in _data, kept or posted.
ByteCount ==
  phase # "undefined" =>
    Len(written) = Len(stream) + left + Kept + Size(received)

\* What is known besides of the header and of what is left.
Counted ==
  /\ phase = "waiting" => left = 0
  /\ phase = "rest" => b_head_parse
  /\ phase = "body" \/ b_head_parse => Len(head) = 2
  /\ ByteCount

\* ByteCount of a session that goes on is a sum of naturals.
LEMMA CountedNumbers ==
  ASSUME Typed, Counted, phase # "undefined"
  PROVE  /\ Len(written) = Len(stream) + left + Kept + Size(received)
         /\ Len(stream) \in Nat /\ left \in Nat /\ Kept \in Nat
         /\ Size(received) \in Nat
<1>1. Size(received) \in Nat
  <2>1. [id |-> 0, body |-> <<>>] \in [id : 0..MAX_LENGHT, body : Seq(Nat)]
    BY EmptySeq, StreamAssumption
  <2> QED
    BY <2>1, SizeReceived
<1>2. Kept \in Nat
  <2>1. Len(head) \in Nat /\ msg.base \in Nat /\ Len(msg.body) \in Nat
    BY Numbers
  <2> QED
    BY <2>1 DEF Kept
<1>3. Len(stream) \in Nat /\ left \in Nat
  BY Numbers
<1>4. Len(written) = Len(stream) + left + Kept + Size(received)
  BY DEF Counted, ByteCount
<1> QED
  BY <1>1, <1>2, <1>3, <1>4

LEMMA InitCounted == Init => Counted
<1> SUFFICES ASSUME Init PROVE Counted
  OBVIOUS
<1>1. /\ written = <<>> /\ received = <<>> /\ stream = <<>> /\ phase = "waiting"
      /\ ~b_head_parse /\ left = 0 /\ head = <<>>
  BY DEF Init, StreamInit
<1>2. Len(<<>>) = 0
  BY EmptySeq
<1> QED
  BY <1>1, <1>2, SizeEmpty DEF Counted, ByteCount, Kept

LEMMA SendCounted ==
  ASSUME Typed, Counted, NEW m \in Messages, Send(m)
  PROVE  Counted'
<1>1. /\ written' = written \o Encode(m) /\ stream' = stream \o Encode(m)
      /\ UNCHANGED <<left, phase, head, b_head_parse, msg, received>>
  BY DEF Send, ClientSend, readVars
<1>2. CASE phase = "undefined"
  BY <1>1, <1>2 DEF Counted, ByteCount
<1>3. CASE phase # "undefined"
  <2>1. Len(stream') = Len(stream) + Len(Encode(m))
    BY <1>1, EncodeProperties, Numbers, ConcatProperties
  <2>2. /\ Len(written') = Len(written) + Len(Encode(m))
        /\ Len(written) \in Nat /\ Len(Encode(m)) \in Nat
    BY <1>1, EncodeProperties, Numbers, ConcatProperties
  <2>3. Kept' = Kept
    BY <1>1 DEF Kept
  <2>4. Len(written') = Len(stream') + left' + Kept' + Size(received')
    <3>1. /\ Len(written) = Len(stream) + left + Kept + Size(received)
          /\ Len(stream) \in Nat /\ left \in Nat /\ Kept \in Nat
          /\ Size(received) \in Nat
      BY <1>3, CountedNumbers
    <3>2. left' = left /\ Size(received') = Size(received)
      BY <1>1
    <3> QED
      BY ONLY <2>1, <2>2, <2>3, <3>1, <3>2
  <2> QED
    BY <1>1, <2>4 DEF Counted, ByteCount
<1> QED
  BY <1>2, <1>3

LEMMA ReadSomeCounted ==
  ASSUME Typed, Counted, NEW n \in 1..MAX_LENGHT, ReadSome(n)
  PROVE  Counted'
<1>1. /\ phase = "waiting" /\ left = 0 /\ left' = n
      /\ stream' = SubSeq(stream, n + 1, Len(stream))
      /\ phase' \in {"head", "rest"} /\ (phase' = "rest" => b_head_parse)
      /\ UNCHANGED <<written, head, b_head_parse, msg, received>>
  BY DEF ReadSome, Counted
<1>2. Len(stream') = Len(stream) - n
  <2>1. stream \in Seq(Nat) /\ Len(stream) \in Nat /\ n <= Len(stream) /\ n \in Nat
    BY Numbers, StreamAssumption DEF ReadSome
  <2>2. n + 1 \in 1..Len(stream) + 1 /\ Len(stream) \in n + 1 - 1..Len(stream)
    BY <2>1
  <2>3. Len(stream') = Len(stream) - (n + 1) + 1
    BY <1>1, <2>1, <2>2, Piece
  <2> QED
    BY <2>1, <2>3
<1>3. Kept' = Kept
  BY <1>1 DEF Kept
<1>4. n \in Nat
  BY StreamAssumption
<1>5. Len(written') = Len(stream') + left' + Kept' + Size(received')
  BY <1>1, <1>2, <1>3, <1>4, CountedNumbers
<1> QED
  BY <1>1, <1>5 DEF Counted, ByteCount

LEMMA HeadShortCounted ==
  ASSUME Typed, Counted, Unfinished, HeadShort
  PROVE  Counted'
<1>1. /\ phase = "head" /\ ~b_head_parse /\ phase' = "waiting" /\ left' = 0
      /\ head' = head \o SubSeq(data, 1, left)
      /\ UNCHANGED <<written, stream, b_head_parse, received>>
  BY DEF HeadShort, ReadAgain, Unfinished, streamVars
<1>2. Len(head') = Len(head) + left
  <2>1. left \in Nat /\ head \in Seq(Nat)
    BY Numbers
  <2>2. SubSeq(data, 1, left) \in Seq(Nat) /\ Len(SubSeq(data, 1, left)) = left
    BY <2>1, CopyIsThere
  <2> QED
    BY <1>1, <2>1, <2>2, ConcatProperties
<1>3. Kept = Len(head) /\ Kept' = Len(head')
  BY <1>1, Numbers, <1>2 DEF Kept
<1>4. Len(written') = Len(stream') + left' + Kept' + Size(received')
  BY <1>1, <1>2, <1>3, CountedNumbers
<1> QED
  BY <1>1, <1>4 DEF Counted, ByteCount

LEMMA HeadWholeCounted ==
  ASSUME Typed, Counted, Unfinished, HeadWhole
  PROVE  Counted'
<1> DEFINE r == 2 - Len(head)
<1>1. /\ phase = "head" /\ ~b_head_parse /\ phase' \in {"body", "cleared"}
      /\ head' = head \o SubSeq(data, 1, r) /\ left' = left - r
      /\ UNCHANGED <<written, stream, b_head_parse, received>>
  BY DEF HeadWhole, HEAD_TOTAL_LEN, Unfinished, streamVars
<1>2. /\ left \in Nat /\ head \in Seq(Nat) /\ Len(head) \in Nat
      /\ Len(head) <= 2 /\ left >= 2
  BY Numbers DEF HeadWhole, HEAD_TOTAL_LEN
<1>3. r \in 0..left
  BY <1>2
<1>4. SubSeq(data, 1, r) \in Seq(Nat) /\ Len(SubSeq(data, 1, r)) = r
  BY <1>3, CopyIsThere
<1> HIDE DEF r
<1>5. Len(head') = Len(head) + r
  BY <1>1, <1>2, <1>4, ConcatProperties
<1>6. Len(head') = 2 /\ r \in Nat /\ r <= left
  BY <1>2, <1>5, <1>3 DEF r
<1>7. Kept = Len(head) /\ Kept' = Len(head')
  BY <1>1, <1>2, <1>6 DEF Kept
<1>8. Len(written') = Len(stream') + left' + Kept' + Size(received')
  <2>1. /\ Len(written) = Len(stream) + left + Kept + Size(received)
        /\ Len(stream) \in Nat /\ Size(received) \in Nat
    BY <1>1, CountedNumbers
  <2>2. \A a, l, h, b, z \in Nat : a + l + h + z = a + (l - b) + (h + b) + z
    OBVIOUS
  <2>3. /\ Len(stream') = Len(stream) /\ received' = received /\ written' = written
        /\ left' = left - r /\ Kept = Len(head) /\ Kept' = Len(head) + r
    BY <1>1, <1>5, <1>7
  <2> QED
    BY <1>2, <1>6, <2>1, <2>2, <2>3
<1> QED
  BY <1>1, <1>6, <1>8 DEF Counted, ByteCount

\* Posting moves what is kept and what completes it to what is received.
LEMMA PostCounted ==
  ASSUME Typed, Counted, NEW bytes \in Seq(Nat), Post(bytes),
         phase # "undefined", Kept = 2 + Len(msg.body)
  PROVE  Counted'
<1>1. /\ received' = Append(received, [id |-> msg.id, body |-> msg.body \o bytes])
      /\ ~b_head_parse' /\ head' = <<>> /\ phase' \in {"waiting", "head"}
      /\ UNCHANGED <<written, stream>>
  BY DEF Post, ReadAgain, streamVars
<1>2. left' = left - Len(bytes) /\ (phase' = "waiting" => left' = 0)
  <2>1. left \in Nat
    BY Numbers
  <2> QED
    BY <2>1 DEF Post, ReadAgain
<1>3. msg.body \o bytes \in Seq(Nat) /\ Len(msg.body \o bytes) = Len(msg.body) + Len(bytes)
  BY Numbers, ConcatProperties
<1>4. Size(received') = Size(received) + 2 + (Len(msg.body) + Len(bytes))
  <2> DEFINE m == [id |-> msg.id, body |-> msg.body \o bytes]
  <2>1. msg.id \in 0..MAX_LENGHT
    BY StreamAssumption DEF Typed, TypeOK, HeaderAccepted
  <2>2. m \in [id : 0..MAX_LENGHT, body : Seq(Nat)] /\ m.body = msg.body \o bytes
    BY <1>3, <2>1
  <2> HIDE DEF m
  <2>3. Size(Append(received, m)) = Size(received) + 2 + Len(m.body)
    BY <2>2, SizeReceived
  <2>4. received' = Append(received, m)
    BY <1>1 DEF m
  <2> QED
    BY <1>3, <2>2, <2>3, <2>4
<1>5. Kept' = 0
  BY <1>1, EmptySeq DEF Kept
<1>6. Len(bytes) \in Nat /\ Len(msg.body) \in Nat
  BY Numbers, LenProperties
<1>7. Len(written') = Len(stream') + left' + Kept' + Size(received')
  <2> DEFINE b == Len(msg.body)
  <2>1. /\ Len(written) = Len(stream) + left + Kept + Size(received)
        /\ Len(stream) \in Nat /\ left \in Nat /\ Size(received) \in Nat
    BY CountedNumbers
  <2>2. /\ stream' = stream /\ written' = written /\ Kept' = 0 /\ Kept = 2 + b
        /\ left' = left - Len(bytes)
        /\ Size(received') = Size(received) + 2 + (b + Len(bytes))
        /\ b \in Nat /\ Len(bytes) \in Nat
    BY <1>1, <1>2, <1>4, <1>5, <1>6
  <2> HIDE DEF b
  <2> QED
    BY ONLY <2>1, <2>2
<1> QED
  BY <1>1, <1>2, <1>7 DEF Counted, ByteCount

LEMMA BodyCounted ==
  ASSUME Typed, Counted, Unfinished, BodyShort \/ BodyWhole
  PROVE  Counted'
<1>1. phase = "body" /\ ~b_head_parse /\ Len(head) = 2 /\ Len(msg.body) = 0
  BY EmptySeq DEF BodyShort, BodyWhole, Counted, Unfinished
<1>2. Kept = 2
  BY <1>1 DEF Kept
<1>3. CASE BodyShort
  <2>1. /\ msg' = [msg EXCEPT !.base = left]
        /\ b_head_parse' /\ phase' = "waiting" /\ left' = 0
        /\ UNCHANGED <<written, stream, head, received>>
    BY <1>3 DEF BodyShort, ReadAgain, streamVars
  <2>2. msg'.base = left /\ msg'.body = msg.body
    BY <2>1 DEF Typed, TypeOK
  <2>3. Kept' = 2 + left
    <3>1. left \in Nat /\ Len(msg'.body) = 0 /\ Len(head') = 2 /\ b_head_parse' = TRUE
      BY <1>1, <1>3, <2>1, <2>2, Numbers DEF BodyShort
    <3> QED
      BY <2>2, <3>1 DEF Kept
  <2>4. Len(written') = Len(stream') + left' + Kept' + Size(received')
    BY <1>1, <1>2, <2>1, <2>3, CountedNumbers
  <2> QED
    BY <1>1, <2>1, <2>4 DEF Counted, ByteCount
<1>4. CASE BodyWhole
  <2>1. msg.total \in 0..left /\ Post(Copy(msg.total))
    BY <1>4, Numbers DEF BodyWhole
  <2>2. Copy(msg.total) \in Seq(Nat)
    BY <2>1, CopyIsThere
  <2> QED
    BY <1>1, <1>2, <2>1, <2>2, PostCounted
<1> QED
  BY <1>3, <1>4

LEMMA RestCounted ==
  ASSUME Typed, Counted, RestShort \/ RestWhole
  PROVE  Counted'
<1>1. phase = "rest" /\ b_head_parse /\ Len(head) = 2
  BY DEF RestShort, RestWhole, Counted
<1>2. Kept = 2 + (msg.base + Len(msg.body))
  BY <1>1 DEF Kept
<1>n. /\ left \in Nat /\ msg.base \in Nat /\ msg.body \in Seq(Nat)
      /\ Len(msg.body) \in Nat /\ msg.total \in Nat
  BY Numbers
<1>3. CASE RestShort
  <2>1. /\ msg' = [msg EXCEPT !.body = msg.body \o Copy(left)]
        /\ phase' = "waiting" /\ left' = 0
        /\ UNCHANGED <<written, stream, head, b_head_parse, received>>
    BY <1>3 DEF RestShort, ReadAgain, streamVars
  <2>2. msg'.base = msg.base /\ msg'.body = msg.body \o Copy(left)
    BY <2>1 DEF Typed, TypeOK
  <2>3. Copy(left) \in Seq(Nat) /\ Len(Copy(left)) = left
    BY <1>n, CopyIsThere
  <2>4. Len(msg'.body) = Len(msg.body) + left
    <3>1. \A u, v \in Seq(Nat) : Len(u \o v) = Len(u) + Len(v)
      BY ConcatProperties
    <3> QED
      BY <1>n, <2>2, <2>3, <3>1
  <2>5. Kept' = 2 + (msg.base + (Len(msg.body) + left))
    BY <1>1, <2>1, <2>2, <2>4 DEF Kept
  <2>6. Len(written') = Len(stream') + left' + Kept' + Size(received')
    <3>1. /\ Len(written) = Len(stream) + left + Kept + Size(received)
          /\ Len(stream) \in Nat /\ Size(received) \in Nat
      BY <1>1, CountedNumbers
    <3>2. Len(written') = Len(written) /\ Len(stream') = Len(stream) /\ Size(received') = Size(received)
      BY <2>1
    <3> QED
      BY <1>2, <1>n, <2>1, <2>5, <3>1, <3>2
  <2> QED
    BY <1>1, <2>1, <2>6 DEF Counted, ByteCount
<1>4. CASE RestWhole
  <2>1. msg.base = 0 /\ left >= RemainMsg /\ Post(Copy(RemainMsg))
    BY <1>4 DEF RestWhole
  <2>2. RemainMsg \in 0..left
    BY <1>n, <2>1 DEF RemainMsg, Typed, TypeOK
  <2>3. Copy(RemainMsg) \in Seq(Nat)
    BY <2>2, CopyIsThere
  <2>4. Kept = 2 + Len(msg.body)
    BY <1>2, <1>n, <2>1
  <2> QED
    BY <1>1, <2>1, <2>3, <2>4, PostCounted
<1> QED
  BY <1>3, <1>4

LEMMA NextCounted ==
  ASSUME Typed, Counted, Unfinished, [Next]_vars
  PROVE  Counted'
<1>1. CASE \E m \in Messages : Send(m)
  BY <1>1, SendCounted
<1>2. CASE \E n \in 1..MAX_LENGHT : ReadSome(n)
  BY <1>2, ReadSomeCounted
<1>3. CASE HeadOverrun \/ RestOverrun
  BY <1>3 DEF HeadOverrun, RestOverrun, Undefined, Counted, ByteCount
<1>4. CASE HeadShort \/ HeadWhole \/ BodyShort \/ BodyWhole \/ RestShort \/ RestWhole
  BY <1>4, HeadShortCounted, HeadWholeCounted, BodyCounted, RestCounted
<1>5. CASE UNCHANGED vars
  BY <1>5 DEF vars, streamVars, readVars, Counted, ByteCount, Kept
<1> QED
  BY <1>1, <1>2, <1>3, <1>4, <1>5 DEF Next, HandleReadStep

-----------------------------------------------------------------------------
(***************************************************************************)
(* Then what they are.                                                     *)
(***************************************************************************)
\* The bytes from the first one not used on are those the client has written,
\* and so is what is kept of a body that was not torn.
Ahead ==
  phase # "undefined" =>
    /\ \A k \in 1..left : data[copy_len + k] = written[Used + k]
    /\ \A k \in 1..Len(stream) : stream[k] = written[Used + left + k]
    /\ b_head_parse /\ msg.base = 0 =>
         \A k \in 1..Len(msg.body) : msg.body[k] = written[Size(received) + 2 + k]

\* A piece of w begins at a place.
Placed(w, place, piece) ==
  /\ place \in Nat /\ place + Len(piece) <= Len(w)
  /\ \A k \in 1..Len(piece) : piece[k] = w[place + k]

\* A body that has been posted is the piece written at its place.
Behind == \A i \in 1..Len(received) : Placed(written, Place(i), received[i].body)

InPlace == Counted /\ Ahead /\ Behind

\* Positions in what has been written: behind u used bytes come l that are left
\* in _data and s that have not been read; z have been posted, 2 + b are kept.
LEMMA PositionsAhead ==
  \A u, l, s \in Nat :
    /\ \A k \in 1..l : u + k \in 1..u + l + s
    /\ \A k \in 1..s : u + l + k \in 1..u + l + s
OBVIOUS

LEMMA PositionsKept ==
  \A z, b, l, s \in Nat :
    /\ \A k \in 1..b : z + 2 + k \in 1..z + (2 + b) + l + s
    /\ \A n \in 0..l : z + 2 + (b + n) <= z + (2 + b) + l + s
OBVIOUS

LEMMA Joined ==
  ASSUME NEW u \in Seq(Nat), NEW v \in Seq(Nat)
  PROVE  /\ u \o v \in Seq(Nat) /\ Len(u \o v) = Len(u) + Len(v)
         /\ \A k \in 1..Len(u) + Len(v) :
              (u \o v)[k] = IF k <= Len(u) THEN u[k] ELSE v[k - Len(u)]
BY ConcatProperties

LEMMA UsedNumbers ==
  ASSUME Typed, Counted, phase # "undefined"
  PROVE  /\ Len(written) = Used + left + Len(stream)
         /\ Used = Size(received) + Kept
         /\ Used \in Nat /\ Size(received) \in Nat /\ Kept \in Nat
         /\ left \in Nat /\ copy_len \in Nat /\ Len(stream) \in Nat
<1>1. /\ Len(written) = Len(stream) + left + Kept + Size(received)
      /\ Len(stream) \in Nat /\ left \in Nat /\ Kept \in Nat /\ Size(received) \in Nat
  BY CountedNumbers
<1>2. copy_len \in Nat
  BY Numbers
<1>3. Used = Size(received) + Kept
  BY DEF Used
<1> QED
  BY <1>1, <1>2, <1>3

\* What has been written stays.
LEMMA WrittenStays ==
  ASSUME Typed, NEW m \in Messages, Send(m)
  PROVE  /\ Len(written') = Len(written) + Len(Encode(m)) /\ Len(Encode(m)) \in Nat
         /\ \A k \in 1..Len(written) : written'[k] = written[k]
         /\ \A k \in 1..Len(Encode(m)) : written'[Len(written) + k] = Encode(m)[k]
<1>1. written \in Seq(Nat) /\ Encode(m) \in Seq(Nat) /\ written' = written \o Encode(m)
  BY Numbers, EncodeProperties DEF Send, ClientSend
<1> DEFINE e == Encode(m)
<1>2. Len(written) \in Nat /\ Len(e) \in Nat
  BY <1>1, LenProperties
<1>3. Len(written') = Len(written) + Len(e)
  BY <1>1, ConcatProperties
<1>4. \A k \in 1..Len(written) + Len(e) :
        written'[k] = IF k <= Len(written) THEN written[k] ELSE e[k - Len(written)]
  BY <1>1, ConcatProperties
<1> HIDE DEF e
<1>5. \A k \in 1..Len(e) : written'[Len(written) + k] = e[k]
  BY <1>2, <1>4
<1>6. \A k \in 1..Len(written) : written'[k] = written[k]
  BY <1>2, <1>4
<1> QED
  BY <1>2, <1>3, <1>5, <1>6 DEF e

LEMMA PlacedStays ==
  ASSUME Typed, NEW m \in Messages, Send(m), NEW place, NEW piece \in Seq(Nat),
         Placed(written, place, piece)
  PROVE  Placed(written', place, piece)
<1>1. /\ Len(written) \in Nat /\ Len(piece) \in Nat /\ place \in Nat
      /\ place + Len(piece) <= Len(written)
      /\ \A k \in 1..Len(piece) : piece[k] = written[place + k]
  BY Numbers, LenProperties DEF Placed
<1>2. /\ Len(written') = Len(written) + Len(Encode(m)) /\ Len(Encode(m)) \in Nat
      /\ \A k \in 1..Len(written) : written'[k] = written[k]
  BY WrittenStays
<1>3. ASSUME NEW k \in 1..Len(piece) PROVE piece[k] = written'[place + k]
  <2>1. place + k \in 1..Len(written)
    BY <1>1
  <2> QED
    BY <1>1, <1>2, <2>1
<1>4. place + Len(piece) <= Len(written')
  BY <1>1, <1>2
<1> QED
  BY <1>1, <1>3, <1>4 DEF Placed

LEMMA BodiesTyped ==
  ASSUME Typed, NEW i \in 1..Len(received)
  PROVE  received[i].body \in Seq(Nat)
<1>1. received[i] \in [id : 0..MAX_LENGHT, body : Seq(Nat)]
  BY LenProperties, ElementOfSeq DEF Typed
<1> QED
  BY <1>1

LEMMA InitInPlace == Init => Ahead /\ Behind
<1> SUFFICES ASSUME Init PROVE Ahead /\ Behind
  OBVIOUS
<1>1. /\ received = <<>> /\ stream = <<>> /\ ~b_head_parse /\ left = 0
      /\ Len(<<>>) = 0
  BY EmptySeq DEF Init, StreamInit
<1> QED
  BY <1>1 DEF Ahead, Behind

LEMMA SendInPlace ==
  ASSUME Typed, Counted, Ahead, Behind, NEW m \in Messages, Send(m)
  PROVE  Ahead' /\ Behind'
<1>1. /\ stream' = stream \o Encode(m)
      /\ UNCHANGED <<data, left, copy_len, phase, head, b_head_parse, msg, received>>
  BY DEF Send, ClientSend, readVars
<1>2. Behind'
  <2> SUFFICES ASSUME NEW i \in 1..Len(received)
               PROVE  Placed(written', Place(i), received[i].body)
    BY <1>1 DEF Behind, Place
  <2>1. received[i].body \in Seq(Nat)
    BY BodiesTyped
  <2> QED
    BY <2>1, PlacedStays DEF Behind
<1>3. ASSUME phase # "undefined" PROVE Ahead'
  <2> DEFINE e == Encode(m)
  <2>1. /\ Len(written) = Used + left + Len(stream)
        /\ Used = Size(received) + Kept
        /\ Used \in Nat /\ Size(received) \in Nat /\ Kept \in Nat
        /\ left \in Nat /\ Len(stream) \in Nat
    BY <1>3, UsedNumbers
  <2>2. Used' = Used /\ Size(received') = Size(received)
    BY <1>1 DEF Used, Kept
  <2>3. /\ Len(e) \in Nat
        /\ \A k \in 1..Len(written) : written'[k] = written[k]
        /\ \A k \in 1..Len(e) : written'[Len(written) + k] = e[k]
    BY WrittenStays
  <2>4. /\ Len(stream') = Len(stream) + Len(e)
        /\ \A k \in 1..Len(stream) + Len(e) :
             stream'[k] = IF k <= Len(stream) THEN stream[k] ELSE e[k - Len(stream)]
    <3>1. stream \in Seq(Nat) /\ e \in Seq(Nat)
      BY Numbers, EncodeProperties
    <3> QED
      BY <1>1, <3>1, ConcatProperties
  <2> HIDE DEF e
  <2>5. ASSUME NEW k \in 1..left PROVE data'[copy_len' + k] = written'[Used' + k]
    <3>1. Used + k \in 1..Len(written)
      BY <2>1, PositionsAhead
    <3>2. data[copy_len + k] = written[Used + k]
      BY <1>3 DEF Ahead
    <3> QED
      BY <1>1, <2>2, <2>3, <3>1, <3>2
  <2>6. ASSUME NEW k \in 1..Len(stream') PROVE stream'[k] = written'[Used' + left' + k]
    <3>1. CASE k <= Len(stream)
      <4>0. k \in 1..Len(stream)
        BY <2>1, <3>1
      <4>1. Used + left + k \in 1..Len(written) /\ k \in 1..Len(stream)
        BY <2>1, <4>0, PositionsAhead
      <4>2. stream[k] = written[Used + left + k]
        BY <1>3, <4>1 DEF Ahead
      <4>3. stream'[k] = stream[k]
        BY <2>1, <2>3, <2>4, <3>1
      <4> QED
        BY <1>1, <2>2, <2>3, <4>1, <4>2, <4>3
    <3>2. CASE ~(k <= Len(stream))
      <4>1. k - Len(stream) \in 1..Len(e)
        BY <2>1, <2>3, <2>4, <3>2
      <4>2. Used + left + k = Len(written) + (k - Len(stream))
        BY <2>1, <2>4
      <4>3. stream'[k] = e[k - Len(stream)]
        BY <2>1, <2>3, <2>4, <3>2
      <4> QED
        BY <1>1, <2>2, <2>3, <4>1, <4>2, <4>3
    <3> QED
      BY <3>1, <3>2
  <2>7. ASSUME b_head_parse, msg.base = 0, NEW k \in 1..Len(msg.body)
        PROVE  msg.body[k] = written'[Size(received) + 2 + k]
    <3>1. Kept = 2 + Len(msg.body)
      <4>1. Len(head) = 2 /\ Len(msg.body) \in Nat
        BY <2>7, Numbers DEF Counted
      <4> QED
        BY <2>7, <4>1 DEF Kept
    <3>2. Size(received) + 2 + k \in 1..Len(written)
      <4>1. Len(msg.body) \in Nat /\ k \in 1..Len(msg.body)
        BY <2>7, Numbers
      <4>2. /\ Len(written) = Size(received) + (2 + Len(msg.body)) + left + Len(stream)
            /\ Size(received) \in Nat /\ left \in Nat /\ Len(stream) \in Nat
        BY <2>1, <3>1
      <4> QED
        BY <4>1, <4>2, PositionsKept
    <3>3. msg.body[k] = written[Size(received) + 2 + k]
      BY <1>3, <2>7 DEF Ahead
    <3> QED
      BY <2>3, <3>2, <3>3
  <2> QED
    BY <1>1, <2>2, <2>5, <2>6, <2>7 DEF Ahead
<1>4. phase = "undefined" => Ahead'
  BY <1>1 DEF Ahead
<1> QED
  BY <1>2, <1>3, <1>4

LEMMA ReadSomeInPlace ==
  ASSUME Typed, Counted, Ahead, Behind, NEW n \in 1..MAX_LENGHT, ReadSome(n)
  PROVE  Ahead' /\ Behind'
<1>1. /\ phase = "waiting" /\ left = 0 /\ left' = n /\ copy_len' = 0
      /\ data' = SubSeq(stream, 1, n)
      /\ stream' = SubSeq(stream, n + 1, Len(stream))
      /\ UNCHANGED <<written, head, b_head_parse, msg, received>>
  BY DEF ReadSome, Counted
<1>2. stream \in Seq(Nat) /\ Len(stream) \in Nat /\ n <= Len(stream) /\ n \in Nat
  BY Numbers, StreamAssumption DEF ReadSome
<1>3. /\ Len(stream') = Len(stream) - n
      /\ \A k \in 1..n : data'[k] = stream[k]
      /\ \A k \in 1..Len(stream) - n : stream'[k] = stream[n + k]
  <2>1. /\ 1 \in 1..Len(stream) + 1 /\ n \in 1 - 1..Len(stream)
        /\ n + 1 \in 1..Len(stream) + 1 /\ Len(stream) \in n + 1 - 1..Len(stream)
    BY <1>2
  <2>2. \A k \in 1..n - 1 + 1 : data'[k] = stream[1 + k - 1]
    BY <1>1, <1>2, <2>1, Piece
  <2>3. /\ Len(stream') = Len(stream) - (n + 1) + 1
        /\ \A k \in 1..Len(stream) - (n + 1) + 1 : stream'[k] = stream[n + 1 + k - 1]
    BY <1>1, <1>2, <2>1, Piece
  <2>4. /\ n - 1 + 1 = n /\ Len(stream) - (n + 1) + 1 = Len(stream) - n
        /\ \A k \in 1..n : 1 + k - 1 = k
        /\ \A k \in 1..Len(stream) - n : n + 1 + k - 1 = n + k
    BY <1>2
  <2> QED
    BY <2>2, <2>3, <2>4
<1>4. Used' = Used /\ Size(received') = Size(received)
  BY <1>1 DEF Used, Kept
<1>5. Used \in Nat /\ \A k \in 1..Len(stream) : stream[k] = written[Used + k]
  <2>1. Used \in Nat
    BY <1>1, UsedNumbers
  <2>2. \A k \in 1..Len(stream) : stream[k] = written[Used + left + k]
    BY <1>1 DEF Ahead
  <2> QED
    BY <1>1, <2>1, <2>2
<1>6. \A k \in 1..left' : data'[copy_len' + k] = written'[Used' + k]
  BY <1>1, <1>2, <1>3, <1>4, <1>5
<1>7. \A k \in 1..Len(stream') : stream'[k] = written'[Used' + left' + k]
  <2> SUFFICES ASSUME NEW k \in 1..Len(stream) - n
               PROVE  stream[n + k] = written[Used + n + k]
    BY <1>1, <1>3, <1>4
  <2>1. n + k \in 1..Len(stream) /\ Used + (n + k) = Used + n + k
    BY <1>2, <1>5
  <2> QED
    BY <1>5, <2>1
<1>8. Ahead'
  BY <1>1, <1>4, <1>6, <1>7 DEF Ahead
<1>9. Behind'
  BY <1>1 DEF Behind, Place
<1> QED
  BY <1>8, <1>9

\* n bytes of _data are used: what is left of it, or nothing when the session
\* reads again, is what was written next.
LEMMA UseInPlace ==
  ASSUME Typed, Counted, Ahead, phase # "undefined", NEW n \in 0..left,
         Used' = Used + n, UNCHANGED <<written, stream>>, left' = left - n,
         ReadAgain \/ (data' = data /\ copy_len' = copy_len + n)
  PROVE  /\ \A k \in 1..left' : data'[copy_len' + k] = written'[Used' + k]
         /\ \A k \in 1..Len(stream') : stream'[k] = written'[Used' + left' + k]
<1>1. Used \in Nat /\ left \in Nat /\ copy_len \in Nat /\ Len(stream) \in Nat
  BY UsedNumbers
<1>2. /\ \A k \in 1..left : data[copy_len + k] = written[Used + k]
      /\ \A k \in 1..Len(stream) : stream[k] = written[Used + left + k]
  BY DEF Ahead
<1>3. Used' + left' = Used + left
  BY <1>1
<1>4. ASSUME NEW k \in 1..left' PROVE data'[copy_len' + k] = written'[Used' + k]
  <2>1. ~ReadAgain
    BY DEF ReadAgain
  <2>2. n + k \in 1..left /\ copy_len + (n + k) = copy_len' + k /\ Used + (n + k) = Used' + k
    BY <1>1, <2>1
  <2> QED
    BY <1>2, <2>1, <2>2
<1> QED
  BY <1>2, <1>3, <1>4

LEMMA HeadInPlace ==
  ASSUME Typed, Counted, Unfinished, Ahead, Behind, HeadShort \/ HeadWhole
  PROVE  Ahead' /\ Behind'
<1>1. /\ phase = "head" /\ ~b_head_parse
      /\ UNCHANGED <<written, stream, b_head_parse, received>>
  BY DEF HeadShort, HeadWhole, Unfinished, streamVars
<1> DEFINE n == IF HeadShort THEN left ELSE 2 - Len(head)
<1>2. /\ n \in 0..left /\ left' = left - n
      /\ ReadAgain \/ (data' = data /\ copy_len' = copy_len + n)
      /\ head' = head \o SubSeq(data, 1, n)
  <2>1. left \in Nat /\ Len(head) \in Nat /\ copy_len \in Nat
    BY Numbers
  <2>2. CASE HeadShort
    <3>1. ReadAgain /\ left' = 0 /\ head' = head \o SubSeq(data, 1, left)
      BY <2>2 DEF HeadShort, ReadAgain
    <3> QED
      BY <2>1, <2>2, <3>1
  <2>3. CASE ~HeadShort
    <3>1. /\ left >= 2 /\ Len(head) <= 2 /\ data' = data
          /\ head' = head \o SubSeq(data, 1, 2 - Len(head))
          /\ left' = left - (2 - Len(head)) /\ copy_len' = copy_len + (2 - Len(head))
      <4>1. HeadWhole
        BY <2>3
      <4>2. copy_len + HEAD_TOTAL_LEN - Len(head) = copy_len + (2 - Len(head))
        BY <2>1 DEF HEAD_TOTAL_LEN
      <4> QED
        BY <4>1, <4>2 DEF HeadWhole, HEAD_TOTAL_LEN
    <3> QED
      BY <2>1, <2>3, <3>1
  <2> QED
    BY <2>2, <2>3
<1> HIDE DEF n
<1>3. Used' = Used + n
  <2>1. /\ Used = Size(received) + Len(head) /\ Used' = Size(received) + Len(head')
    BY <1>1 DEF Used, Kept
  <2>2. Len(head') = Len(head) + n
    <3>1. head \in Seq(Nat) /\ SubSeq(data, 1, n) \in Seq(Nat) /\ Len(SubSeq(data, 1, n)) = n
      BY <1>2, Numbers, CopyIsThere
    <3> QED
      BY <1>2, <3>1, ConcatProperties
  <2>3. Size(received) \in Nat /\ Len(head) \in Nat /\ n \in Nat
    BY <1>1, <1>2, Numbers, UsedNumbers
  <2> QED
    BY <2>1, <2>2, <2>3
<1>4. Ahead'
  BY <1>1, <1>2, <1>3, UseInPlace DEF Ahead
<1>5. Behind'
  BY <1>1 DEF Behind, Place
<1> QED
  BY <1>4, <1>5

\* Appending to received leaves the places of what was received, and gives the
\* new message the place after all of it.
LEMMA PlaceAppend ==
  ASSUME Typed, NEW m, m \in [id : 0..MAX_LENGHT, body : Seq(Nat)],
         received' = Append(received, m), NEW n, n = Len(received)
  PROVE  /\ \A i \in 1..n : Place(i)' = Place(i)
         /\ Place(n + 1)' = Size(received) + 2
<1> DEFINE M == [id : 0..MAX_LENGHT, body : Seq(Nat)]
<1>1. received \in Seq(M) /\ m \in M /\ n \in Nat /\ Len(received) = n
  BY LenProperties DEF Typed
<1> HIDE DEF M
<1> DEFINE q == Append(received, m)
<1>2. q \in Seq(M) /\ Len(q) = n + 1 /\ \A i \in 1..n : q[i] = received[i]
  BY <1>1, AppendProperties
<1> HIDE DEF q
<1>3. ASSUME NEW i \in 1..n + 1 PROVE SubSeq(q, 1, i - 1) = SubSeq(received, 1, i - 1)
  <2>1. /\ 1 \in 1..Len(q) + 1 /\ i - 1 \in 1 - 1..Len(q)
        /\ 1 \in 1..Len(received) + 1 /\ i - 1 \in 1 - 1..Len(received)
        /\ i - 1 - 1 + 1 = i - 1
    BY <1>1, <1>2
  <2>2. /\ SubSeq(q, 1, i - 1) \in Seq(M) /\ Len(SubSeq(q, 1, i - 1)) = i - 1
        /\ \A k \in 1..i - 1 : SubSeq(q, 1, i - 1)[k] = q[1 + k - 1]
    BY <1>2, <2>1, Piece
  <2>3. /\ SubSeq(received, 1, i - 1) \in Seq(M) /\ Len(SubSeq(received, 1, i - 1)) = i - 1
        /\ \A k \in 1..i - 1 : SubSeq(received, 1, i - 1)[k] = received[1 + k - 1]
    BY <1>1, <2>1, Piece
  <2>4. \A k \in 1..i - 1 : q[1 + k - 1] = received[1 + k - 1]
    BY <1>1, <1>2
  <2>5. \A k \in 1..Len(SubSeq(q, 1, i - 1)) :
          SubSeq(q, 1, i - 1)[k] = SubSeq(received, 1, i - 1)[k]
    BY <2>2, <2>3, <2>4
  <2> QED
    BY <2>2, <2>3, <2>5, SeqEqual
<1>4. SubSeq(received, 1, n) = received
  <2>1. /\ 1 \in 1..Len(received) + 1 /\ n \in 1 - 1..Len(received) /\ n - 1 + 1 = n
    BY <1>1
  <2>2. /\ SubSeq(received, 1, n) \in Seq(M) /\ Len(SubSeq(received, 1, n)) = n
        /\ \A k \in 1..n : SubSeq(received, 1, n)[k] = received[1 + k - 1]
    BY <1>1, <2>1, Piece
  <2>3. \A k \in 1..Len(SubSeq(received, 1, n)) : SubSeq(received, 1, n)[k] = received[k]
    BY <1>1, <2>2
  <2> QED
    BY <1>1, <2>2, <2>3, SeqEqual
<1>5. n + 1 - 1 = n /\ n + 1 \in 1..n + 1 /\ \A i \in 1..n : i \in 1..n + 1
  BY <1>1
<1>6. received' = q
  BY DEF q
<1>7. ASSUME NEW i \in 1..n PROVE Place(i)' = Place(i)
  BY <1>3, <1>5, <1>6 DEF Place
<1>8. Place(n + 1)' = Size(received) + 2
  <2>1. SubSeq(received', 1, n + 1 - 1) = received
    BY <1>3, <1>4, <1>5, <1>6
  <2>2. Place(n + 1)' = Size(SubSeq(received', 1, n + 1 - 1)) + 2
    BY DEF Place, HEAD_TOTAL_LEN
  <2>3. Size(SubSeq(received', 1, n + 1 - 1)) = Size(received)
    BY <2>1
  <2> QED
    BY <2>2, <2>3
<1> QED
  BY <1>7, <1>8

\* The n bytes copied from _data are those written next.
LEMMA CopyWritten ==
  ASSUME Typed, Counted, Ahead, phase # "undefined", NEW n \in 0..left
  PROVE  /\ Copy(n) \in Seq(Nat) /\ Len(Copy(n)) = n
         /\ \A k \in 1..n : Copy(n)[k] = written[Used + k]
<1>1. /\ data \in Seq(Nat) /\ left \in Nat /\ copy_len \in Nat
      /\ Len(data) = copy_len + left
  BY Numbers
<1>2. /\ copy_len + 1 \in 1..Len(data) + 1 /\ copy_len + n \in copy_len + 1 - 1..Len(data)
      /\ (copy_len + n) - (copy_len + 1) + 1 = n
  BY <1>1
<1>3. \A k \in 1..n : Copy(n)[k] = data[copy_len + 1 + k - 1]
  BY <1>1, <1>2, Piece DEF Copy
<1>4. \A k \in 1..n : k \in 1..left /\ copy_len + 1 + k - 1 = copy_len + k
  BY <1>1
<1>5. \A k \in 1..n : Copy(n)[k] = written[Used + k]
  BY <1>3, <1>4 DEF Ahead
<1> QED
  BY <1>5, CopyIsThere

\* What is kept of a body followed by what was written next is in place too.
LEMMA KeptGrows ==
  ASSUME Typed, Counted, Ahead, phase # "undefined", NEW n \in 0..left,
         Kept = 2 + Len(msg.body),
         \A k \in 1..Len(msg.body) : msg.body[k] = written[Size(received) + 2 + k]
  PROVE  /\ msg.body \o Copy(n) \in Seq(Nat)
         /\ Len(msg.body \o Copy(n)) = Len(msg.body) + n
         /\ Placed(written, Size(received) + 2, msg.body \o Copy(n))
<1> DEFINE b == msg.body
           c == Copy(n)
           w == b \o c
<1>1. /\ Len(written) = Used + left + Len(stream)
      /\ Used = Size(received) + (2 + Len(b))
      /\ Size(received) \in Nat /\ left \in Nat /\ Len(stream) \in Nat
  BY UsedNumbers
<1>2. b \in Seq(Nat) /\ Len(b) \in Nat
  BY Numbers
<1>3. /\ c \in Seq(Nat) /\ Len(c) = n
      /\ \A k \in 1..n : c[k] = written[Used + k]
  BY CopyWritten
<1> HIDE DEF c
<1>4. /\ w \in Seq(Nat) /\ Len(w) = Len(b) + n
      /\ \A k \in 1..Len(b) + n : w[k] = IF k <= Len(b) THEN b[k] ELSE c[k - Len(b)]
  <2> HIDE DEF b
  <2>1. /\ w \in Seq(Nat) /\ Len(w) = Len(b) + Len(c)
        /\ \A k \in 1..Len(b) + Len(c) : w[k] = IF k <= Len(b) THEN b[k] ELSE c[k - Len(b)]
    BY <1>2, <1>3, Joined
  <2> HIDE DEF w
  <2> QED
    BY <1>3, <2>1
<1>5. \A k \in 1..Len(b) : b[k] = written[Size(received) + 2 + k]
  OBVIOUS
<1> HIDE DEF w, b
<1>6. ASSUME NEW k \in 1..Len(b) + n PROVE w[k] = written[Size(received) + 2 + k]
  <2>1. CASE k <= Len(b)
    <3>1. k \in 1..Len(b)
      BY <2>1
    <3> QED
      BY <1>4, <1>5, <2>1, <3>1
  <2>2. CASE ~(k <= Len(b))
    <3>1. k - Len(b) \in 1..n
      BY <1>2, <2>2
    <3>2. Used + (k - Len(b)) = Size(received) + 2 + k
      BY <1>1, <1>2
    <3>3. w[k] = c[k - Len(b)]
      BY <1>4, <2>2
    <3> QED
      BY <1>3, <3>1, <3>2, <3>3
  <2> QED
    BY <2>1, <2>2
<1>7. Size(received) + 2 \in Nat /\ Size(received) + 2 + Len(w) <= Len(written)
  <2>1. Len(written) = Size(received) + (2 + Len(b)) + left + Len(stream)
    BY <1>1
  <2>2. Size(received) + 2 + (Len(b) + n) <= Len(written)
    BY <1>1, <1>2, <2>1, PositionsKept
  <2>3. Size(received) + 2 + Len(w) = Size(received) + 2 + (Len(b) + n)
    BY <1>4
  <2>4. Size(received) + 2 \in Nat
    BY <1>1
  <2> QED
    BY ONLY <2>2, <2>3, <2>4
<1>8. Placed(written, Size(received) + 2, w)
  BY <1>4, <1>6, <1>7 DEF Placed
<1> QED
  BY <1>4, <1>8 DEF w, b, c

LEMMA PostInPlace ==
  ASSUME Typed, Counted, Ahead, Behind, phase # "undefined", NEW n \in 0..left,
         Post(Copy(n)), Kept = 2 + Len(msg.body),
         \A k \in 1..Len(msg.body) : msg.body[k] = written[Size(received) + 2 + k]
  PROVE  Ahead' /\ Behind'
<1> DEFINE w == msg.body \o Copy(n)
           m == [id |-> msg.id, body |-> w]
<1>1. /\ w \in Seq(Nat) /\ Len(w) = Len(msg.body) + n
      /\ Placed(written, Size(received) + 2, w)
  BY KeptGrows
<1>2. Len(Copy(n)) = n
  BY CopyWritten
<1>3. received' = Append(received, m)
  BY DEF Post
<1>4. /\ ~b_head_parse' /\ head' = <<>>
      /\ UNCHANGED <<written, stream>>
  BY DEF Post, streamVars
<1>5. left' = left - n /\ (ReadAgain \/ (data' = data /\ copy_len' = copy_len + n))
  <2>1. left \in Nat
    BY Numbers
  <2>2. CASE left = n /\ ReadAgain
    BY <2>1, <2>2 DEF ReadAgain
  <2>3. CASE left > n /\ left' = left - n /\ copy_len' = copy_len + n /\ UNCHANGED data
    BY <2>3
  <2> QED
    BY <1>2, <2>2, <2>3 DEF Post
<1> HIDE DEF w
<1>6. m \in [id : 0..MAX_LENGHT, body : Seq(Nat)] /\ m.body = w
  <2>1. msg.id \in 0..MAX_LENGHT
    BY StreamAssumption DEF Typed, TypeOK, HeaderAccepted
  <2> QED
    BY <1>1, <2>1
<1> HIDE DEF m
<1>7. Used' = Used + n
  <2>1. Size(received') = Size(received) + 2 + Len(w)
    BY <1>3, <1>6, SizeReceived
  <2>2. Used' = Size(received')
    <3>1. Kept' = 0
      BY <1>4, EmptySeq DEF Kept
    <3>2. Size(received') \in Nat
      <4>1. Size(received) \in Nat /\ Len(w) \in Nat
        BY <1>1, LenProperties, UsedNumbers
      <4> QED
        BY <2>1, <4>1
    <3> QED
      BY <3>1, <3>2 DEF Used
  <2>3. Used = Size(received) + (2 + Len(msg.body)) /\ Size(received) \in Nat
    BY UsedNumbers
  <2>4. Len(msg.body) \in Nat /\ n \in Nat
    BY Numbers
  <2>5. Used' = Size(received) + 2 + (Len(msg.body) + n)
    BY <1>1, <2>1, <2>2
  <2>6. \A a, b, c \in Nat : a + 2 + (b + c) = a + (2 + b) + c
    OBVIOUS
  <2> QED
    BY <2>3, <2>4, <2>5, <2>6
<1>8. Ahead'
  BY <1>4, <1>5, <1>7, UseInPlace DEF Ahead
<1>9. Behind'
  <2>1. received \in Seq([id : 0..MAX_LENGHT, body : Seq(Nat)])
    BY DEF Typed
  <2>2. PICK r \in Nat : r = Len(received)
    BY Numbers
  <2>3. /\ Len(received') = r + 1
        /\ \A i \in 1..r : received'[i] = received[i]
        /\ received'[r + 1] = m
    BY <1>3, <1>6, <2>1, <2>2, AppendProperties
  <2>4. (\A i \in 1..r : Place(i)' = Place(i)) /\ Place(r + 1)' = Size(received) + 2
    BY <1>3, <1>6, <2>2, PlaceAppend
  <2>5. ASSUME NEW i \in 1..r
        PROVE  Placed(written', Place(i)', received'[i].body)
    <3>1. Placed(written, Place(i), received[i].body)
      BY <2>2 DEF Behind
    <3> QED
      BY <1>4, <2>3, <2>4, <3>1
  <2>6. Placed(written', Place(r + 1)', received'[r + 1].body)
    BY <1>1, <1>4, <1>6, <2>3, <2>4
  <2>7. ASSUME NEW i \in 1..r + 1
        PROVE  Placed(written', Place(i)', received'[i].body)
    <3>1. i \in 1..r \/ i = r + 1
      BY <2>2
    <3> QED
      BY <2>5, <2>6, <3>1
  <2> QED
    BY <2>3, <2>7 DEF Behind
<1> QED
  BY <1>8, <1>9

LEMMA BodyInPlace ==
  ASSUME Typed, Counted, Unfinished, Ahead, Behind, BodyShort \/ BodyWhole
  PROVE  Ahead' /\ Behind'
<1>1. phase = "body" /\ ~b_head_parse /\ Len(head) = 2 /\ msg.body = <<>>
  BY DEF BodyShort, BodyWhole, Counted, Unfinished
<1>2. Len(msg.body) = 0 /\ Kept = 2
  BY <1>1, EmptySeq DEF Kept
<1>3. CASE BodyShort
  <2>1. /\ msg' = [msg EXCEPT !.base = left]
        /\ b_head_parse' /\ ReadAgain /\ left' = 0
        /\ UNCHANGED <<written, stream, head, received>>
    BY <1>3 DEF BodyShort, ReadAgain, streamVars
  <2>2. msg'.base = left /\ msg'.body = msg.body
    BY <2>1 DEF Typed, TypeOK
  <2>3. left \in 0..left /\ left - left = 0 /\ left \in Nat
    BY Numbers
  <2>4. Used' = Used + left
    <3>1. b_head_parse' = TRUE /\ Len(head') = 2 /\ Len(msg'.body) = 0
      BY <1>1, <1>2, <1>3, <2>1, <2>2 DEF BodyShort
    <3>2. Kept' = 2 + left
      BY <2>2, <2>3, <3>1 DEF Kept
    <3>3. Size(received) \in Nat
      BY <1>1, UsedNumbers
    <3> QED
      BY <1>2, <2>1, <2>3, <3>2, <3>3 DEF Used
  <2>5. Len(msg'.body) = 0
    BY <1>2, <2>2
  <2>6. Ahead'
    BY <1>1, <2>1, <2>3, <2>4, <2>5, UseInPlace DEF Ahead
  <2>7. Behind'
    BY <2>1 DEF Behind, Place
  <2> QED
    BY <2>6, <2>7
<1>4. CASE BodyWhole
  <2>1. msg.total \in 0..left /\ Post(Copy(msg.total))
    BY <1>4, Numbers DEF BodyWhole
  <2>2. \A k \in 1..Len(msg.body) : msg.body[k] = written[Size(received) + 2 + k]
    BY <1>2
  <2> QED
    BY <1>1, <1>2, <2>1, <2>2, PostInPlace
<1> QED
  BY <1>3, <1>4

LEMMA RestInPlace ==
  ASSUME Typed, Counted, Ahead, Behind, RestShort \/ RestWhole
  PROVE  Ahead' /\ Behind'
<1>1. phase = "rest" /\ b_head_parse /\ Len(head) = 2
  BY DEF RestShort, RestWhole, Counted
<1>2. Kept = 2 + (msg.base + Len(msg.body))
  BY <1>1 DEF Kept
<1>n. /\ left \in Nat /\ msg.base \in Nat /\ msg.body \in Seq(Nat)
      /\ Len(msg.body) \in Nat /\ msg.total \in Nat
  BY Numbers
<1>3. msg.base = 0 =>
        /\ Kept = 2 + Len(msg.body)
        /\ \A k \in 1..Len(msg.body) : msg.body[k] = written[Size(received) + 2 + k]
  BY <1>1, <1>2, <1>n DEF Ahead
<1>4. CASE RestShort
  <2>1. /\ msg' = [msg EXCEPT !.body = msg.body \o Copy(left)]
        /\ ReadAgain /\ left' = 0
        /\ UNCHANGED <<written, stream, head, b_head_parse, received>>
    BY <1>4 DEF RestShort, ReadAgain, streamVars
  <2>2. msg'.base = msg.base /\ msg'.body = msg.body \o Copy(left)
    BY <2>1 DEF Typed, TypeOK
  <2>3. left \in 0..left /\ left - left = 0
    BY <1>n
  <2>4. Len(msg'.body) = Len(msg.body) + left
    <3>1. Copy(left) \in Seq(Nat) /\ Len(Copy(left)) = left
      BY <2>3, CopyIsThere
    <3>2. \A u, v \in Seq(Nat) : Len(u \o v) = Len(u) + Len(v)
      BY ConcatProperties
    <3> QED
      BY <1>n, <2>2, <3>1, <3>2
  <2>5. Used' = Used + left
    <3>1. Kept' = 2 + (msg.base + (Len(msg.body) + left))
      BY <1>1, <2>1, <2>2, <2>4 DEF Kept
    <3>2. Size(received) \in Nat
      BY <1>1, UsedNumbers
    <3>3. Used' = Size(received) + Kept' /\ Used = Size(received) + Kept
      BY <2>1 DEF Used
    <3>4. PICK e \in Nat : e = msg.base + Len(msg.body)
      BY <1>n
    <3>5. msg.base + (Len(msg.body) + left) = e + left
      BY <1>n, <3>4
    <3>6. Kept = 2 + e /\ Kept' = 2 + (e + left)
      BY <1>2, <3>1, <3>4, <3>5
    <3>7. Kept' = Kept + left /\ Kept \in Nat
      BY <1>n, <3>6
    <3> QED
      BY <1>n, <3>2, <3>3, <3>7
  <2>6. ASSUME msg.base = 0, NEW k \in 1..Len(msg'.body)
        PROVE  msg'.body[k] = written[Size(received) + 2 + k]
    <3>1. Placed(written, Size(received) + 2, msg'.body)
      BY <1>1, <1>3, <2>2, <2>3, <2>6, KeptGrows
    <3> QED
      BY <3>1 DEF Placed
  <2>7. Ahead'
    BY <1>1, <2>1, <2>2, <2>3, <2>5, <2>6, UseInPlace DEF Ahead
  <2>8. Behind'
    BY <2>1 DEF Behind, Place
  <2> QED
    BY <2>7, <2>8
<1>5. CASE RestWhole
  <2>1. msg.base = 0 /\ left >= RemainMsg /\ Post(Copy(RemainMsg))
    BY <1>5 DEF RestWhole
  <2>2. RemainMsg \in 0..left
    BY <1>n, <2>1 DEF RemainMsg, Typed, TypeOK
  <2> QED
    BY <1>1, <1>3, <2>1, <2>2, PostInPlace
<1> QED
  BY <1>4, <1>5

LEMMA NextInPlace ==
  ASSUME Typed, Unfinished, InPlace, [Next]_vars
  PROVE  InPlace'
<1> USE DEF InPlace
<1>1. Counted'
  BY NextCounted
<1>2. CASE \E m \in Messages : Send(m)
  BY <1>1, <1>2, SendInPlace
<1>3. CASE \E n \in 1..MAX_LENGHT : ReadSome(n)
  BY <1>1, <1>3, ReadSomeInPlace
<1>4. CASE HeadOverrun \/ RestOverrun
  BY <1>1, <1>4 DEF HeadOverrun, RestOverrun, Undefined, streamVars, Ahead, Behind, Place
<1>5. CASE HeadShort \/ HeadWhole \/ BodyShort \/ BodyWhole \/ RestShort \/ RestWhole
  BY <1>1, <1>5, HeadInPlace, BodyInPlace, RestInPlace
<1>6. CASE UNCHANGED vars
  BY <1>1, <1>6 DEF vars, streamVars, readVars, Ahead, Behind, Place, Used, Kept
<1> QED
  BY <1>2, <1>3, <1>4, <1>5, <1>6 DEF Next, HandleReadStep

\* For any client and any cuts, as long as every copy has fitted: HandleRead goes
\* on at the byte after those it has posted and keeps, which are as many as were
\* read, and every body it has posted is, byte by byte, what the client has
\* written at the place the decoded lengths give it.
THEOREM NoByteMisplaced == Spec => []BytesInPlace
<1>1. Init => Typed /\ Unfinished /\ InPlace
  BY InitTyped, InitUnfinished, InitCounted, InitInPlace DEF InPlace
<1>2. Typed /\ Unfinished /\ InPlace /\ [Next]_vars => (Typed /\ Unfinished /\ InPlace)'
  BY NextTyped, NextUnfinished, NextInPlace
<1>3. Typed /\ InPlace => BytesInPlace
  <2> SUFFICES ASSUME Typed, InPlace, phase # "undefined"
               PROVE  /\ Len(written) = Used + left + Len(stream)
                      /\ \A k \in 1..left : data[copy_len + k] = written[Used + k]
                      /\ \A i \in 1..Len(received) : \A k \in 1..Len(received[i].body) :
                           received[i].body[k] = written[Place(i) + k]
    BY LenProperties DEF BytesInPlace, Typed
  <2>1. Len(written) = Used + left + Len(stream)
    BY UsedNumbers DEF InPlace
  <2>2. \A k \in 1..left : data[copy_len + k] = written[Used + k]
    BY DEF InPlace, Ahead
  <2> QED
    BY <2>1, <2>2 DEF InPlace, Behind, Placed
<1> QED
  BY <1>1, <1>2, <1>3, PTL DEF Spec

-----------------------------------------------------------------------------
(***************************************************************************)
(* Messages that are not cut.                                              *)
(***************************************************************************)
\* A message that comes in one piece leaves nothing to keep between reads.
WholeReads ==
  patient /\ ~Splits =>
    /\ phase \notin {"rest", "undefined"} /\ ~b_head_parse
    /\ phase \in {"waiting", "head"} => head = <<>>
    /\ phase \in {"head", "body"} => stream = <<>>

LEMMA InitWholeReads == Init => WholeReads
BY DEF Init, WholeReads

LEMMA SendWholeReads ==
  ASSUME Typed, OneOnItsWay, WholeReads, NEW m \in Messages, Send(m)
  PROVE  WholeReads'
<1> SUFFICES ASSUME patient, ~Splits PROVE WholeReads'
  BY DEF WholeReads, Send, ClientSend
<1>1. Len(sent) = Len(received) /\ UNCHANGED <<phase, head, b_head_parse>>
  BY DEF Send, ClientSend
<1>2. phase = "waiting"
  <2>1. Len(sent) \in Nat
    BY Numbers
  <2> QED
    BY <1>1, <2>1 DEF OneOnItsWay, Idle
<1> QED
  BY <1>1, <1>2 DEF WholeReads

\* The whole message is in _data when its header is taken.
LEMMA HeadIsWhole ==
  ASSUME Typed, OneOnItsWay, WholeReads, patient, ~Splits, phase = "head"
  PROVE  left >= 2 /\ Len(head) = 0
<1>1. Pending /\ Assembling
  BY InAssembly
<1>2. head = <<>> /\ stream = <<>> /\ ~b_head_parse
  BY DEF WholeReads
<1>3. Len(head) = 0 /\ Len(stream) = 0
  BY <1>2, EmptySeq
<1>4. head = SubSeq(Bytes, 1, Taken)
  BY <1>1, <1>2 DEF Assembling
<1>5. /\ Taken \in Nat /\ Taken + left + Len(stream) = Len(Bytes)
      /\ Len(Bytes) \in Nat /\ Len(Bytes) >= 2 /\ Bytes \in Seq(Nat) /\ left \in Nat
  BY <1>1, TakenNumbers, CurrentBytes, Numbers
<1>6. Taken = 0
  <2>1. 1 \in 1..Len(Bytes) + 1 /\ Taken \in 1 - 1..Len(Bytes)
    BY <1>3, <1>5
  <2>2. Len(SubSeq(Bytes, 1, Taken)) = Taken - 1 + 1
    BY <1>5, <2>1, Piece
  <2> QED
    BY <1>3, <1>4, <1>5, <2>2
<1> QED
  BY <1>3, <1>5, <1>6

\* And its whole body when that is taken.
LEMMA BodyIsWhole ==
  ASSUME Typed, OneOnItsWay, WholeReads, patient, ~Splits, phase = "body"
  PROVE  left = msg.total
<1>1. Pending /\ Assembling
  BY InAssembly
<1>2. Len(stream) = 0
  BY EmptySeq DEF WholeReads
<1>3. Taken = 2 /\ msg.total = Bytes[2]
  BY <1>1 DEF Assembling, Node
<1>4. /\ Taken + left + Len(stream) = Len(Bytes)
      /\ Len(Bytes) = 2 + Bytes[2] /\ Bytes[2] \in Nat /\ left \in Nat
  BY <1>1, TakenNumbers, CurrentBytes, Numbers
<1> QED
  BY <1>2, <1>3, <1>4

LEMMA NextWholeReads ==
  ASSUME Typed, OneOnItsWay, WholeReads, [Next]_vars
  PROVE  WholeReads'
<1> SUFFICES ASSUME patient, ~Splits PROVE WholeReads'
  BY DEF WholeReads, vars, streamVars, Next, HandleReadStep, Send, ClientSend, ReadSome,
     HeadShort, HeadOverrun, HeadWhole, BodyShort, BodyWhole, RestShort, RestWhole,
     RestOverrun, Undefined, Post
<1>n. left \in Nat /\ msg.total \in Nat /\ Len(head) \in Nat
  BY Numbers
<1>1. ASSUME NEW m \in Messages, Send(m) PROVE WholeReads'
  BY <1>1, SendWholeReads
<1>2. ASSUME NEW n \in 1..MAX_LENGHT, ReadSome(n) PROVE WholeReads'
  <2>1. /\ phase = "waiting" /\ head = <<>> /\ ~b_head_parse /\ phase' = "head"
        /\ stream' = SubSeq(stream, Len(stream) + 1, Len(stream))
        /\ UNCHANGED <<head, b_head_parse>>
    BY <1>2 DEF ReadSome, WholeReads
  <2>2. stream \in Seq(Nat) /\ Len(stream) \in Nat
    BY Numbers
  <2>3. /\ Len(stream) + 1 \in 1..Len(stream) + 1
        /\ Len(stream) \in Len(stream) + 1 - 1..Len(stream)
        /\ Len(stream) - (Len(stream) + 1) + 1 = 0
    BY <2>2
  <2>4. stream' \in Seq(Nat) /\ Len(stream') = 0
    BY <2>1, <2>2, <2>3, Piece
  <2>5. stream' = <<>>
    BY <2>4, EmptySeq
  <2> QED
    BY <2>1, <2>5 DEF WholeReads
<1>3. ASSUME HeadShort \/ HeadOverrun PROVE FALSE
  BY <1>3, <1>n, HeadIsWhole DEF HeadShort, HeadOverrun, HEAD_TOTAL_LEN
<1>4. CASE HeadWhole
  BY <1>4 DEF HeadWhole, WholeReads, streamVars
<1>5. ASSUME BodyShort PROVE FALSE
  BY <1>5, <1>n, BodyIsWhole DEF BodyShort
<1>6. CASE BodyWhole
  BY <1>6, BodyWholeCompletes DEF Completed, Idle, WholeReads
<1>7. ASSUME RestShort \/ RestWhole \/ RestOverrun PROVE FALSE
  BY <1>7 DEF RestShort, RestWhole, RestOverrun, WholeReads
<1>8. CASE UNCHANGED vars
  BY <1>8 DEF vars, streamVars, WholeReads
<1> QED
  BY <1>1, <1>2, <1>3, <1>4, <1>5, <1>6, <1>7, <1>8 DEF Next, HandleReadStep

\* HandleRead does what it is for when TCP never cuts a message and the client
\* waits for each reply: no copy overruns, and when it has read all that was
\* sent it has posted all that was sent.  Both conditions are needed: the runs
\* framing_split and framing_pipelined drop one each.
THEOREM UncutIsIntact == Spec => [](patient /\ ~Splits => FramesIntact /\ phase # "undefined")
<1>1. Typed /\ OneOnItsWay /\ WholeReads /\ [Next]_vars => WholeReads'
  BY NextWholeReads
<1>2. WholeReads /\ OnlyTornAreLost => (patient /\ ~Splits => FramesIntact /\ phase # "undefined")
  BY DEF WholeReads, OnlyTornAreLost, FramesIntact, Torn
<1> QED
  BY <1>1, <1>2, Inductive, InitWholeReads, TornOnly, PTL DEF Spec, IInv
=============================================================================
