----------------------- MODULE CoroutineStreamProofs -----------------------
(***************************************************************************)
(* What the coroutine of a session posts is what its client has sent, and  *)
(* each of these requests is answered once, in order and on its own        *)
(* connection; proved for any connections, any requests and any ids, for   *)
(* clients that do not wait too.                                           *)
(*                                                                         *)
(* Positions in the stream are numbered: 2 * n is behind message n, and    *)
(* 2 * n - 1 is between its header and its body.  The parts in the stream  *)
(* lead from the position the coroutine has reached (Position) to the end  *)
(* of what was sent, as long as the client is there to complete it.  A     *)
(* message is then taken for what it is because header and body are read   *)
(* at the positions where they were written.                               *)
(*                                                                         *)
(* Requests are numbered too, and are never out of order: behind the       *)
(* replies of a session stand its requests in the queue that all sessions  *)
(* share, with greater numbers and in ascending order (Accounted).  Two    *)
(* ascending sequences of the same messages are equal, so what was posted, *)
(* without what was refused, is the replies and then what waits.  A client *)
(* that waits is one request ahead of its replies at most (Patience):      *)
(* the numbers leave no room for a full queue when Send is called for it.  *)
(***************************************************************************)
EXTENDS CoroutineSessionProofs, NumberedProofs

\* The part m of the stream is one of the message of its number, and leads
\* from one position to another.
Part(m, snt, from, to) ==
  /\ m.n \in 1..Len(snt) /\ m = snt[m.n]
  /\ from = 2 * m.n - 2 \/ from = 2 * m.n - 1
  /\ to = IF m.id \in Empty THEN from + 2 ELSE from + 1

\* The parts q of the messages snt lead from one position to another.
Leads(q, snt, from, to) ==
  \E pos \in [1..Len(q) + 1 -> Nat] :
    /\ pos[1] = from /\ pos[Len(q) + 1] = to
    /\ \A j \in 1..Len(q) : Part(q[j], snt, pos[j], pos[j + 1])

\* The coroutine goes on reading; it has accepted a header; it has one.
Reading == {"none", "spawned", "head", "gotHead", "body", "gotBody", "post", "loop"}
Accepted == {"body", "gotBody", "post"}
InMessage == {"gotHead"} \cup Accepted

\* How many headers it has taken, and where in the stream it is.
Taken(s) == IF co[s] \in InMessage THEN Len(received[s]) + 1 ELSE Len(received[s])
BodyDue(s) == co[s] \in {"gotHead", "body"} /\ recv[s].id \notin Empty
Position(s) == IF BodyDue(s) THEN 2 * Taken(s) - 1 ELSE 2 * Taken(s)

InStep(s) ==
  /\ co[s] # "gotHead" => ~Rejected(s)
  /\ co[s] \in InMessage =>
       Taken(s) \in 1..Len(sent[s]) /\ recv[s] = sent[s][Taken(s)]
  /\ co[s] = "body" => recv[s].id \notin Empty
  /\ co[s] \in Accepted => recv[s].id \in Valid
  /\ \E to \in Nat :
       /\ Leads(stream[s], sent[s], Position(s), to)
       /\ ~gone[s] => to = 2 * Len(sent[s])

StreamInv == \A s \in Session : co[s] \in Reading => InStep(s)

-----------------------------------------------------------------------------
(***************************************************************************)
(* Streams that lead from a position to another.                           *)
(***************************************************************************)
LEMMA NothingLeads ==
  ASSUME NEW snt, NEW from \in Nat
  PROVE  Leads(<<>>, snt, from, from)
<1> DEFINE pos == [j \in 1..1 |-> from]
<1>1. Len(<<>>) = 0 /\ 0 + 1 = 1
  BY EmptySeq
<1>2. pos \in [1..1 -> Nat] /\ pos[1] = from
  OBVIOUS
<1> HIDE DEF pos
<1>3. pos \in [1..Len(<<>>) + 1 -> Nat] /\ pos[Len(<<>>) + 1] = from
  BY <1>1, <1>2
<1>4. 1..Len(<<>>) = {}
  BY <1>1
<1> QED
  BY <1>2, <1>3, <1>4 DEF Leads

\* Reading a part.
LEMMA TakeLeads ==
  ASSUME NEW q \in Seq(Message), q # <<>>, NEW snt, NEW from, NEW to,
         Leads(q, snt, from, to)
  PROVE  \E mid \in Nat : Part(Head(q), snt, from, mid) /\ Leads(Tail(q), snt, mid, to)
<1>1. PICK pos \in [1..Len(q) + 1 -> Nat] :
        /\ pos[1] = from /\ pos[Len(q) + 1] = to
        /\ \A j \in 1..Len(q) : Part(q[j], snt, pos[j], pos[j + 1])
  BY DEF Leads
<1>2. Len(q) \in Nat /\ Len(q) >= 1
  BY EmptySeq, LenProperties
<1>3. /\ Len(Tail(q)) = Len(q) - 1
      /\ \A j \in 1..Len(Tail(q)) : Tail(q)[j] = q[j + 1]
  BY HeadTailProperties
<1>4. Head(q) = q[1]
  OBVIOUS
<1> DEFINE rest == [j \in 1..Len(q) |-> pos[j + 1]]
<1>5. Part(Head(q), snt, from, rest[1])
  BY <1>1, <1>2, <1>4
<1>6. rest \in [1..Len(Tail(q)) + 1 -> Nat] /\ rest[Len(Tail(q)) + 1] = to
  BY <1>1, <1>2, <1>3
<1>7. \A j \in 1..Len(Tail(q)) : Part(Tail(q)[j], snt, rest[j], rest[j + 1])
  <2> SUFFICES ASSUME NEW j \in 1..Len(q) - 1
               PROVE  Part(Tail(q)[j], snt, rest[j], rest[j + 1])
    BY <1>3
  <2>1. /\ j + 1 \in 1..Len(q) /\ j \in 1..Len(q) /\ j \in 1..Len(Tail(q))
    BY <1>2, <1>3
  <2>2. Part(q[j + 1], snt, pos[j + 1], pos[j + 1 + 1])
    BY <1>1, <2>1
  <2> QED
    BY <1>3, <2>1, <2>2
<1>8. rest[1] \in Nat
  BY <1>1, <1>2
<1> HIDE DEF rest
<1>9. Leads(Tail(q), snt, rest[1], to)
  BY <1>6, <1>7 DEF Leads
<1> QED
  BY <1>5, <1>8, <1>9

\* Losing the end of the stream.
LEMMA CutLeads ==
  ASSUME NEW q \in Seq(Message), NEW snt, NEW from, NEW to, Leads(q, snt, from, to),
         NEW n \in 0..Len(q)
  PROVE  \E mid \in Nat : Leads(SubSeq(q, 1, n), snt, from, mid)
<1>1. PICK pos \in [1..Len(q) + 1 -> Nat] :
        /\ pos[1] = from /\ pos[Len(q) + 1] = to
        /\ \A j \in 1..Len(q) : Part(q[j], snt, pos[j], pos[j + 1])
  BY DEF Leads
<1>2. Len(q) \in Nat /\ n \in Nat /\ n <= Len(q)
  BY LenProperties
<1>3. \A i \in 1..n : q[i] \in Message
  BY <1>2, ElementOfSeq
<1>4. /\ Len(SubSeq(q, 1, n)) = n
      /\ \A j \in 1..n : SubSeq(q, 1, n)[j] = q[j]
  <2>1. /\ Len(SubSeq(q, 1, n)) = IF 1 <= n THEN n - 1 + 1 ELSE 0
        /\ \A j \in 1..n - 1 + 1 : SubSeq(q, 1, n)[j] = q[1 + j - 1]
    BY <1>2, <1>3, SubSeqProperties
  <2> QED
    BY <1>2, <2>1
<1> DEFINE first == [j \in 1..n + 1 |-> pos[j]]
<1>5. first \in [1..n + 1 -> Nat] /\ first[1] = from /\ first[n + 1] \in Nat
  <2>1. 1 \in 1..n + 1 /\ n + 1 \in 1..n + 1 /\ \A j \in 1..n + 1 : j \in 1..Len(q) + 1
    BY <1>2
  <2> QED
    BY <1>1, <2>1
<1>6. \A j \in 1..n : Part(SubSeq(q, 1, n)[j], snt, first[j], first[j + 1])
  BY <1>1, <1>2, <1>4
<1> HIDE DEF first
<1>7. Leads(SubSeq(q, 1, n), snt, from, first[n + 1])
  BY <1>4, <1>5, <1>6 DEF Leads
<1> QED
  BY <1>5, <1>7

\* Sending a message, and writing a part of it.
LEMMA SentLeads ==
  ASSUME NEW q, NEW snt \in Seq(Message), NEW m \in Message, NEW from, NEW to,
         Leads(q, snt, from, to)
  PROVE  Leads(q, Append(snt, m), from, to)
<1>1. ASSUME NEW x, NEW f, NEW t, Part(x, snt, f, t)
      PROVE  Part(x, Append(snt, m), f, t)
  <2>1. /\ Len(Append(snt, m)) = Len(snt) + 1 /\ Len(snt) \in Nat
        /\ \A i \in 1..Len(snt) : Append(snt, m)[i] = snt[i]
    BY AppendProperties, LenProperties
  <2> QED
    BY <1>1, <2>1 DEF Part
<1> QED
  BY <1>1 DEF Leads

LEMMA MoreLeads ==
  ASSUME NEW q \in Seq(Message), NEW snt, NEW m \in Message, NEW from, NEW mid,
         Leads(q, snt, from, mid), NEW to \in Nat, Part(m, snt, mid, to)
  PROVE  Leads(Append(q, m), snt, from, to)
<1>1. PICK pos \in [1..Len(q) + 1 -> Nat] :
        /\ pos[1] = from /\ pos[Len(q) + 1] = mid
        /\ \A j \in 1..Len(q) : Part(q[j], snt, pos[j], pos[j + 1])
  BY DEF Leads
<1>2. Len(q) \in Nat
  BY LenProperties
<1>3. /\ Len(Append(q, m)) = Len(q) + 1
      /\ \A j \in 1..Len(q) : Append(q, m)[j] = q[j]
      /\ Append(q, m)[Len(q) + 1] = m
  BY AppendProperties
<1> DEFINE all == [j \in 1..Len(q) + 2 |-> IF j = Len(q) + 2 THEN to ELSE pos[j]]
<1>4. all \in [1..Len(q) + 2 -> Nat] /\ all[Len(q) + 2] = to
  BY <1>2
<1>5. \A j \in 1..Len(q) + 1 : all[j] = pos[j]
  BY <1>2
<1> HIDE DEF all
<1>6. \A j \in 1..Len(q) + 1 : Part(Append(q, m)[j], snt, all[j], all[j + 1])
  <2> SUFFICES ASSUME NEW j \in 1..Len(q) + 1
               PROVE  Part(Append(q, m)[j], snt, all[j], all[j + 1])
    OBVIOUS
  <2>1. CASE j = Len(q) + 1
    <3>1. j + 1 = Len(q) + 2
      BY <1>2, <2>1
    <3> QED
      BY <1>1, <1>3, <1>4, <1>5, <2>1, <3>1
  <2>2. CASE j # Len(q) + 1
    <3>1. j \in 1..Len(q) /\ j + 1 \in 1..Len(q) + 1
      BY <1>2, <2>2
    <3> QED
      BY <1>1, <1>3, <1>5, <3>1
  <2> QED
    BY <2>1, <2>2
<1>7. all[1] = from /\ Len(q) + 2 = Len(q) + 1 + 1
  BY <1>1, <1>2, <1>5
<1> QED
  BY <1>3, <1>4, <1>6, <1>7 DEF Leads

\* A whole message behind the stream leads on to its number.
LEMMA MessageLeads ==
  ASSUME NEW q \in Seq(Message), NEW snt \in Seq(Message), NEW m \in Message,
         NEW from, m.n = Len(snt) + 1, Leads(q, snt, from, 2 * Len(snt))
  PROVE  /\ q \o Parts(m) \in Seq(Message)
         /\ Leads(q \o Parts(m), Append(snt, m), from, 2 * Len(Append(snt, m)))
<1> DEFINE all == Append(snt, m)
           n == Len(snt)
<1>1. /\ n \in Nat /\ Len(all) = n + 1 /\ all[n + 1] = m
  BY AppendProperties, LenProperties
<1>2. Leads(q, all, from, 2 * n)
  BY SentLeads
<1>3. Append(q, m) = q \o <<m>> /\ Append(q, m) \in Seq(Message)
  BY AppendIsConcat, AppendProperties
<1>4. m.n \in 1..Len(all) /\ m = all[m.n]
  BY <1>1
<1> HIDE DEF all, n
<1>5. CASE m.id \in Empty
  <2>1. Part(m, all, 2 * n, 2 * n + 2)
    BY <1>1, <1>4, <1>5 DEF Part, n
  <2>2. Leads(Append(q, m), all, from, 2 * n + 2)
    BY <1>1, <1>2, <2>1, MoreLeads
  <2>3. 2 * n + 2 = 2 * Len(all)
    BY <1>1
  <2> QED
    BY <1>3, <1>5, <2>2, <2>3 DEF Parts, all
<1>6. CASE m.id \notin Empty
  <2>1. Part(m, all, 2 * n, 2 * n + 1) /\ Part(m, all, 2 * n + 1, 2 * n + 2)
    BY <1>1, <1>4, <1>6 DEF Part, n
  <2>2. Leads(Append(q, m), all, from, 2 * n + 1)
    BY <1>1, <1>2, <2>1, MoreLeads
  <2>3. Leads(Append(Append(q, m), m), all, from, 2 * n + 2)
    <3>1. 2 * n + 2 \in Nat /\ Append(q, m) \in Seq(Message)
      BY <1>1, <1>3
    <3> QED
      BY <2>1, <2>2, <3>1, MoreLeads
  <2>4. 2 * n + 2 = 2 * Len(all)
    BY <1>1
  <2>5. Append(Append(q, m), m) = q \o <<m, m>> /\ Append(Append(q, m), m) \in Seq(Message)
    <3>1. /\ Append(Append(q, m), m) = Append(q, m) \o <<m>>
          /\ Append(Append(q, m), m) \in Seq(Message)
      BY <1>3, AppendIsConcat, AppendProperties
    <3>2. (q \o <<m>>) \o <<m>> = q \o (<<m>> \o <<m>>)
      BY ConcatAssociative
    <3>3. <<m>> \o <<m>> = <<m, m>>
      <4>1. <<m>> \in Seq(Message)
        OBVIOUS
      <4>2. <<m, m>> \in Seq(Message) /\ Len(<<m, m>>) = 2 /\ Len(<<m>>) = 1
        OBVIOUS
      <4> DEFINE two == <<m>> \o <<m>>
      <4>3. two \in Seq(Message) /\ Len(two) = Len(<<m>>) + Len(<<m>>)
        BY <4>1, ConcatProperties
      <4>4. \A i \in 1..Len(<<m>>) + Len(<<m>>) :
              two[i] = IF i <= Len(<<m>>) THEN <<m>>[i] ELSE <<m>>[i - Len(<<m>>)]
        BY <4>1, ConcatProperties
      <4> HIDE DEF two
      <4>5. Len(two) = 2
        BY <4>2, <4>3
      <4>6. two[1] = m /\ two[2] = m
        BY <4>2, <4>4
      <4>7. \A i \in 1..2 : two[i] = <<m, m>>[i]
        BY <4>6
      <4>8. two = <<m, m>>
        BY <4>2, <4>3, <4>5, <4>7, SeqEqual
      <4> QED
        BY <4>8 DEF two
    <3> QED
      BY <1>3, <3>1, <3>2, <3>3
  <2> QED
    BY <1>6, <2>3, <2>4, <2>5 DEF Parts, all
<1> QED
  BY <1>5, <1>6

-----------------------------------------------------------------------------
(***************************************************************************)
(* The coroutine and its stream.                                           *)
(***************************************************************************)
LEMMA StreamTypes ==
  ASSUME TypeOK, NEW s \in Session
  PROVE  /\ stream[s] \in Seq(Message) /\ sent[s] \in Seq(Message)
         /\ received[s] \in Seq(Message)
         /\ Len(stream[s]) \in Nat /\ Len(sent[s]) \in Nat /\ Len(received[s]) \in Nat
         /\ Taken(s) \in Nat
<1>1. /\ stream[s] \in Seq(Message) /\ sent[s] \in Seq(Message)
      /\ received[s] \in Seq(Message)
  BY DEF TypeOK
<1>2. Len(stream[s]) \in Nat /\ Len(sent[s]) \in Nat /\ Len(received[s]) \in Nat
  BY <1>1, LenProperties
<1> QED
  BY <1>1, <1>2 DEF Taken

LEMMA InitStreamInv == Init => StreamInv
<1> SUFFICES ASSUME Init, NEW s \in Session PROVE InStep(s)
  BY DEF StreamInv
<1>1. /\ sent[s] = <<>> /\ stream[s] = <<>> /\ received[s] = <<>>
      /\ recv[s] = None /\ co[s] = "none" /\ Len(<<>>) = 0
  BY EmptySeq DEF Init
<1>2. Position(s) = 0 /\ 2 * Len(sent[s]) = 0
  BY <1>1 DEF Position, BodyDue, Taken, InMessage, Accepted
<1>3. Leads(stream[s], sent[s], 0, 0)
  BY <1>1, NothingLeads
<1>4. ~Rejected(s)
  BY <1>1 DEF Rejected
<1> QED
  BY <1>1, <1>2, <1>3, <1>4 DEF InStep, InMessage, Accepted

\* A session stays in step if its coroutine stays where it is in the stream.
LEMMA StaysInStep ==
  ASSUME NEW s \in Session, InStep(s),
         sent'[s] = sent[s], stream'[s] = stream[s], gone'[s] = gone[s],
         received'[s] = received[s], recv'[s] = recv[s], co'[s] = co[s]
  PROVE  InStep(s)'
BY DEF InStep, Position, BodyDue, Taken, Rejected

\* The client sends a message, on a connection it has not closed.
LEMMA SendInStep ==
  ASSUME TypeOK, NEW s \in Session, InStep(s), NEW id \in Ids, ClientSend(s, id)
  PROVE  InStep(s)'
<1> DEFINE m == [n |-> Len(sent[s]) + 1, id |-> id]
<1>1. /\ sent' = [sent EXCEPT ![s] = Append(@, m)]
      /\ stream' = [stream EXCEPT ![s] = @ \o Parts(m)]
      /\ ~gone[s] /\ UNCHANGED <<gone, received, recv, co>>
      /\ Len(sent[s]) < Len(load[s].asks)
  BY DEF ClientSend, listVars
<1>2. m \in Message /\ m.n = Len(sent[s]) + 1
  <2>1. /\ Len(load[s].asks) \in Nat /\ Len(load[s].asks) <= MaxRequests
        /\ MaxRequests \in Nat
    BY CoroutineAssumption, LenProperties DEF TypeOK
  <2>2. Len(sent[s]) + 1 \in 1..MaxRequests
    BY <1>1, <2>1, StreamTypes
  <2> QED
    BY <2>2 DEF Message
<1> HIDE DEF m
<1>3. sent'[s] = Append(sent[s], m) /\ stream'[s] = stream[s] \o Parts(m)
  BY <1>1 DEF TypeOK
<1>4. Leads(stream[s], sent[s], Position(s), 2 * Len(sent[s]))
  BY <1>1 DEF InStep
<1>5. Leads(stream'[s], sent'[s], Position(s), 2 * Len(sent'[s]))
  BY <1>2, <1>3, <1>4, MessageLeads, StreamTypes
<1>6. Position(s)' = Position(s) /\ Taken(s)' = Taken(s) /\ Rejected(s)' = Rejected(s)
  BY <1>1 DEF Position, BodyDue, Taken, Rejected
<1>7. /\ Len(sent'[s]) = Len(sent[s]) + 1 /\ Len(sent[s]) \in Nat
      /\ \A i \in 1..Len(sent[s]) : sent'[s][i] = sent[s][i]
  BY <1>2, <1>3, AppendProperties, StreamTypes
<1>8. co[s] \in InMessage =>
        Taken(s) \in 1..Len(sent'[s]) /\ recv[s] = sent'[s][Taken(s)]
  BY <1>7 DEF InStep
<1>9. 2 * Len(sent'[s]) \in Nat
  BY <1>7
<1>10. /\ co[s] # "gotHead" => ~Rejected(s)
       /\ co[s] = "body" => recv[s].id \notin Empty
       /\ co[s] \in Accepted => recv[s].id \in Valid
  BY DEF InStep
<1> QED
  BY <1>1, <1>5, <1>6, <1>8, <1>9, <1>10 DEF InStep

\* The client leaves; the end of the stream may be lost.
LEMMA LeaveInStep ==
  ASSUME TypeOK, NEW s \in Session, InStep(s), ClientLeave(s)
  PROVE  InStep(s)'
<1>1. /\ gone' = [gone EXCEPT ![s] = TRUE]
      /\ UNCHANGED <<sent, received, recv, co>>
  BY DEF ClientLeave, listVars
<1>2. PICK n \in 0..Len(stream[s]) : stream' = [stream EXCEPT ![s] = SubSeq(@, 1, n)]
  BY DEF ClientLeave
<1>3. gone'[s] /\ stream'[s] = SubSeq(stream[s], 1, n)
  BY <1>1, <1>2 DEF TypeOK
<1>4. PICK to \in Nat : Leads(stream[s], sent[s], Position(s), to)
  BY DEF InStep
<1>5. PICK mid \in Nat : Leads(stream'[s], sent[s], Position(s), mid)
  BY <1>3, <1>4, CutLeads, StreamTypes
<1>6. Position(s)' = Position(s) /\ Taken(s)' = Taken(s) /\ Rejected(s)' = Rejected(s)
  BY <1>1 DEF Position, BodyDue, Taken, Rejected
<1> QED
  BY <1>1, <1>3, <1>5, <1>6 DEF InStep

\* A read takes the part it was started for: the next header, or the body of
\* the message whose header it has.
LEMMA ReadTakesNext ==
  ASSUME TypeOK, NEW s \in Session, InStep(s), ReadDone(s)
  PROVE  /\ InStep(s)'
         /\ co[s] = "head" =>
              /\ Len(received[s]) + 1 \in 1..Len(sent[s])
              /\ recv'[s] = sent[s][Len(received[s]) + 1]
              /\ ~Rejected(s)
         /\ co[s] # "head" => recv'[s] = recv[s]
<1>1. /\ stream[s] # <<>> /\ stream' = [stream EXCEPT ![s] = Tail(@)]
      /\ UNCHANGED <<sent, gone, received>>
      /\ \/ /\ co[s] = "head"
            /\ co' = [co EXCEPT ![s] = "gotHead"]
            /\ recv' = [recv EXCEPT ![s] = Head(stream[s])]
         \/ /\ co[s] = "body"
            /\ co' = [co EXCEPT ![s] = "gotBody"]
            /\ UNCHANGED recv
  BY DEF ReadDone, clientVars
<1>2. stream'[s] = Tail(stream[s])
  BY <1>1 DEF TypeOK
<1>3. PICK to \in Nat :
        /\ Leads(stream[s], sent[s], Position(s), to)
        /\ ~gone[s] => to = 2 * Len(sent[s])
  BY DEF InStep
<1> DEFINE m == Head(stream[s])
           r == Len(received[s])
<1>4. PICK mid \in Nat :
        Part(m, sent[s], Position(s), mid) /\ Leads(stream'[s], sent[s], mid, to)
  <2>1. stream[s] \in Seq(Message) /\ stream[s] # <<>>
    BY <1>1, StreamTypes
  <2>2. \E mid \in Nat :
          /\ Part(Head(stream[s]), sent[s], Position(s), mid)
          /\ Leads(Tail(stream[s]), sent[s], mid, to)
    BY <1>3, <2>1, TakeLeads
  <2> QED
    BY <1>2, <2>2
<1>5. r \in Nat /\ Len(sent[s]) \in Nat
  BY StreamTypes
<1> HIDE DEF m, r
<1>6. CASE co[s] = "head"
  <2>1. co'[s] = "gotHead" /\ recv'[s] = m
    BY <1>1, <1>6 DEF TypeOK, m
  <2>2. Position(s) = 2 * r /\ ~Rejected(s)
    BY <1>6 DEF Position, BodyDue, Taken, InMessage, Accepted, InStep, r
  <2>3. m.n = r + 1 /\ m.n \in 1..Len(sent[s]) /\ m = sent[s][m.n]
    <3>1. /\ m.n \in 1..Len(sent[s]) /\ m = sent[s][m.n]
          /\ 2 * r = 2 * m.n - 2 \/ 2 * r = 2 * m.n - 1
      BY <1>4, <2>2 DEF Part
    <3>2. m.n = r + 1
      BY <1>5, <3>1
    <3> QED
      BY <3>1, <3>2
  <2>4. mid = IF m.id \in Empty THEN 2 * r + 2 ELSE 2 * r + 1
    BY <1>4, <2>2 DEF Part
  <2>5. Taken(s)' = r + 1
    BY <1>1, <2>1 DEF Taken, InMessage, Accepted, r
  <2>6. BodyDue(s)' <=> m.id \notin Empty
    BY <2>1 DEF BodyDue
  <2>7. Position(s)' = mid
    BY <1>5, <2>4, <2>5, <2>6 DEF Position
  <2>8. InStep(s)'
    <3>1. co'[s] = "gotHead" /\ co'[s] \notin Accepted
      BY <2>1 DEF Accepted
    <3>2. Taken(s)' \in 1..Len(sent'[s]) /\ recv'[s] = sent'[s][Taken(s)']
      BY <1>1, <2>1, <2>3, <2>5
    <3>3. Leads(stream'[s], sent'[s], Position(s)', to) /\ (~gone'[s] => to = 2 * Len(sent'[s]))
      BY <1>1, <1>3, <1>4, <2>7
    <3> QED
      BY <3>1, <3>2, <3>3 DEF InStep
  <2> QED
    BY <1>6, <2>1, <2>2, <2>3, <2>8 DEF r
<1>7. CASE co[s] = "body"
  <2>1. co'[s] = "gotBody" /\ recv'[s] = recv[s]
    BY <1>1, <1>7 DEF TypeOK
  <2>2. /\ ~Rejected(s) /\ recv[s].id \notin Empty
        /\ Taken(s) \in 1..Len(sent[s]) /\ recv[s] = sent[s][Taken(s)]
    BY <1>7 DEF InStep, InMessage, Accepted
  <2>3. Taken(s) = r + 1 /\ Position(s) = 2 * (r + 1) - 1
    BY <1>7, <2>2 DEF Position, BodyDue, Taken, InMessage, Accepted, r
  <2>4. m = recv[s]
    <3>1. /\ m.n \in 1..Len(sent[s]) /\ m = sent[s][m.n]
          /\ 2 * (r + 1) - 1 = 2 * m.n - 2 \/ 2 * (r + 1) - 1 = 2 * m.n - 1
      BY <1>4, <2>3 DEF Part
    <3>2. m.n = r + 1
      BY <1>5, <3>1
    <3> QED
      BY <2>2, <2>3, <3>1, <3>2
  <2>5. mid = 2 * (r + 1)
    <3>1. mid = Position(s) + 1
      BY <1>4, <2>2, <2>4 DEF Part
    <3> QED
      BY <1>5, <2>3, <3>1
  <2>6. Taken(s)' = r + 1 /\ ~BodyDue(s)'
    BY <1>1, <2>1 DEF Taken, InMessage, Accepted, BodyDue, r
  <2>7. Position(s)' = mid
    BY <2>5, <2>6 DEF Position
  <2>8. InStep(s)'
    <3>1. ~Rejected(s)' /\ recv'[s].id \in Valid
      BY <1>7, <2>1, <2>2 DEF Rejected, InStep, Accepted
    <3>2. Taken(s)' \in 1..Len(sent'[s]) /\ recv'[s] = sent'[s][Taken(s)']
      BY <1>1, <2>1, <2>2, <2>3, <2>6
    <3>3. Leads(stream'[s], sent'[s], Position(s)', to) /\ (~gone'[s] => to = 2 * Len(sent'[s]))
      BY <1>1, <1>3, <1>4, <2>7
    <3> QED
      BY <2>1, <3>1, <3>2, <3>3 DEF InStep
  <2> QED
    BY <1>7, <2>1, <2>8
<1> QED
  BY <1>1, <1>6, <1>7

\* The coroutine runs: it goes on in the message it has, or to the next one.
LEMMA RunInStep ==
  ASSUME IInv, NEW s \in Session, InStep(s), CoroutineStep(s)
  PROVE  co'[s] \in Reading => InStep(s)'
<1> SUFFICES ASSUME co'[s] \in Reading PROVE InStep(s)'
  OBVIOUS
<1>1. UNCHANGED <<sent, stream, gone, recv>>
  BY DEF CoroutineStep, ReadNext, AcceptHead, RejectHead, TakeBody, Post, CatchError,
    CoroutineClear, RunsStale, besideVars, clientVars
<1>2. PICK to \in Nat :
        /\ Leads(stream[s], sent[s], Position(s), to)
        /\ ~gone[s] => to = 2 * Len(sent[s])
  BY DEF InStep
<1>3. ASSUME received'[s] = received[s], Taken(s)' = Taken(s), BodyDue(s)' = BodyDue(s),
             co'[s] # "gotHead" => ~Rejected(s),
             co'[s] \in InMessage => co[s] \in InMessage,
             co'[s] = "body" => recv[s].id \notin Empty,
             co'[s] \in Accepted => recv[s].id \in Valid
      PROVE  InStep(s)'
  <2>1. Position(s)' = Position(s) /\ Rejected(s)' = Rejected(s)
    BY <1>1, <1>3 DEF Position, Rejected
  <2>2. co'[s] \in InMessage =>
          Taken(s)' \in 1..Len(sent'[s]) /\ recv'[s] = sent'[s][Taken(s)']
    BY <1>1, <1>3 DEF InStep
  <2> QED
    BY <1>1, <1>2, <1>3, <2>1, <2>2 DEF InStep
<1>4. CASE ReadNext(s, "spawned") \/ ReadNext(s, "loop")
  <2>1. co[s] \in {"spawned", "loop"} /\ co'[s] = "head" /\ received' = received
    BY <1>4 DEF ReadNext, Runs, StartRead, Reading, besideVars, IInv, TypeOK
  <2>2. Taken(s)' = Taken(s)
    BY <2>1 DEF Taken, InMessage, Accepted
  <2>3. BodyDue(s)' = BodyDue(s)
    BY <2>1 DEF BodyDue
  <2>4. ~Rejected(s)
    BY <2>1 DEF InStep
  <2>5. co'[s] # "body" /\ co'[s] \notin InMessage /\ co'[s] \notin Accepted
    BY <2>1 DEF InMessage, Accepted
  <2> QED
    BY <1>3, <2>1, <2>2, <2>3, <2>4, <2>5
<1>5. CASE AcceptHead(s)
  <2>1. /\ co[s] = "gotHead" /\ recv[s].id \in Valid /\ received' = received
        /\ \/ recv[s].id \in Empty /\ co'[s] = "gotBody"
           \/ recv[s].id \notin Empty /\ co'[s] = "body"
    BY <1>5 DEF AcceptHead, Runs, StartRead, Reading, besideVars, IInv, TypeOK
  <2>2. Taken(s)' = Taken(s) /\ BodyDue(s)' = BodyDue(s)
    BY <1>1, <2>1 DEF Taken, BodyDue, InMessage, Accepted
  <2>3. ~Rejected(s)
    BY <2>1 DEF Rejected
  <2> QED
    BY <1>3, <2>1, <2>2, <2>3 DEF InMessage, Accepted
<1>6. CASE TakeBody(s)
  <2>1. co[s] = "gotBody" /\ co'[s] = "post" /\ received' = received
    BY <1>6 DEF TakeBody, Runs, besideVars, IInv, TypeOK
  <2>2. Taken(s)' = Taken(s) /\ BodyDue(s)' = BodyDue(s)
    BY <2>1 DEF Taken, BodyDue, InMessage, Accepted
  <2>3. ~Rejected(s) /\ recv[s].id \in Valid
    BY <2>1 DEF InStep, Accepted
  <2> QED
    BY <1>3, <2>1, <2>2, <2>3 DEF InMessage, Accepted
<1>7. CASE Post(s)
  <2>1. /\ co[s] = "post" /\ co'[s] = "loop"
        /\ received'[s] = Append(received[s], recv[s])
    BY <1>7 DEF Post, Runs, IInv, TypeOK
  <2>2. received[s] \in Seq(Message) /\ recv[s] \in Message
    BY <2>1 DEF IInv, TypeOK, CoroutineSide, HeaderRead
  <2>3. Len(received'[s]) = Len(received[s]) + 1
    BY <2>1, <2>2, AppendProperties
  <2>4. Taken(s)' = Taken(s) /\ ~BodyDue(s)' /\ ~BodyDue(s)
    BY <2>1, <2>3 DEF Taken, BodyDue, InMessage, Accepted
  <2>5. Position(s)' = Position(s)
    BY <2>4 DEF Position
  <2>6. ~Rejected(s)'
    BY <1>1, <2>1 DEF InStep, Rejected
  <2>7. co'[s] \notin InMessage /\ co'[s] # "body" /\ co'[s] \notin Accepted
    BY <2>1 DEF InMessage, Accepted
  <2> QED
    BY <1>1, <1>2, <2>5, <2>6, <2>7 DEF InStep
<1>8. CASE RejectHead(s) \/ CatchError(s) \/ CoroutineClear(s) \/ RunsStale(s)
  <2>1. co'[s] \in {"clear", "done", "stale"}
    BY <1>8 DEF RejectHead, CatchError, CoroutineClear, RunsStale, Close, IInv, TypeOK
  <2> QED
    BY <2>1 DEF Reading
<1> QED
  BY <1>4, <1>5, <1>6, <1>7, <1>8 DEF CoroutineStep

\* A coroutine that has stopped reading does not start again.
LEMMA StillReading ==
  ASSUME IInv, [Next]_vars, NEW s \in Session, co'[s] \in Reading
  PROVE  co[s] \in Reading
<1> USE DEF IInv, TypeOK, Reading
<1>1. CASE UNCHANGED vars
  BY <1>1 DEF vars, readVars
<1>2. CASE ClientStep \/ MainStep
  BY <1>2 DEF ClientStep, MainStep, ClientLeave, ClientSend, AcceptStart, AcceptInsert,
    readVars
<1>3. CASE NetworkStep
  BY <1>3 DEF NetworkStep, ReadDone, ReadError, WriteDone, WriteFail, otherVars, readVars
<1>4. CASE \E u \in Session : CoroutineStep(u)
  BY <1>4 DEF CoroutineStep, ReadNext, AcceptHead, RejectHead, TakeBody, Post, CatchError,
    CoroutineClear, RunsStale, Runs, StartRead, Close
<1>5. CASE \E u \in Session : HandleWrite(u)
  BY <1>5 DEF HandleWrite, WritePop, WriteNext, WriteErrorClose, WriteErrorClear, Close,
    otherVars, readVars
<1>6. CASE WorkerStep
  BY <1>6 DEF WorkerStep, DealMsg, SendRefuse, SendPush, SendStart, otherVars, readVars
<1> QED
  BY <1>1, <1>2, <1>3, <1>4, <1>5, <1>6 DEF Next, PoolStep

\* The steps that touch a session on its reading side.
ReadingStep(s) ==
  \/ ClientLeave(s) \/ \E id \in Ids : ClientSend(s, id)
  \/ AcceptStart(s)
  \/ ReadDone(s) \/ ReadError(s)
  \/ CoroutineStep(s)
  \/ WriteErrorClose(s)

LEMMA OthersStay ==
  ASSUME IInv, [Next]_vars, NEW s \in Session, ~ReadingStep(s)
  PROVE  /\ sent'[s] = sent[s] /\ stream'[s] = stream[s] /\ gone'[s] = gone[s]
         /\ received'[s] = received[s] /\ recv'[s] = recv[s] /\ co'[s] = co[s]
<1> USE DEF IInv, TypeOK, ReadingStep, clientVars, readVars
<1>1. CASE UNCHANGED vars
  BY <1>1 DEF vars
<1>2. CASE ClientStep
  <2>1. PICK u \in Session : ClientLeave(u) \/ \E id \in Ids : ClientSend(u, id)
    BY <1>2 DEF ClientStep
  <2>2. u # s
    BY <2>1
  <2>3. CASE ClientLeave(u)
    BY <2>2, <2>3 DEF ClientLeave
  <2>4. CASE \E id \in Ids : ClientSend(u, id)
    BY <2>2, <2>4 DEF ClientSend
  <2> QED
    BY <2>1, <2>3, <2>4
<1>m. CASE MainStep
  <2>1. PICK u \in Session : AcceptStart(u) \/ AcceptInsert(u)
    BY <1>m DEF MainStep
  <2>2. CASE AcceptStart(u)
    <3>1. u # s
      BY <2>2
    <3> QED
      BY <2>2, <3>1 DEF AcceptStart, besideVars
  <2>3. CASE AcceptInsert(u)
    BY <2>3 DEF AcceptInsert
  <2> QED
    BY <2>1, <2>2, <2>3
<1>3. CASE NetworkStep
  <2>1. PICK u \in Session : ReadDone(u) \/ ReadError(u) \/ WriteDone(u) \/ WriteFail(u)
    BY <1>3 DEF NetworkStep
  <2>2. CASE ReadDone(u)
    <3>1. u # s
      BY <2>2
    <3>2. UNCHANGED <<sent, gone, received>>
      BY <2>2 DEF ReadDone
    <3> QED
      BY <2>2, <3>1, <3>2 DEF ReadDone
  <2>3. CASE ReadError(u)
    BY <2>3 DEF ReadError, besideVars
  <2>4. CASE WriteDone(u) \/ WriteFail(u)
    BY <2>4 DEF WriteDone, WriteFail, otherVars
  <2> QED
    BY <2>1, <2>2, <2>3, <2>4
<1>4. CASE \E u \in Session : CoroutineStep(u)
  <2>1. PICK u \in Session : CoroutineStep(u)
    BY <1>4
  <2>2. u # s
    BY <2>1
  <2>3. UNCHANGED <<sent, stream, gone, recv>>
    BY <2>1 DEF CoroutineStep, ReadNext, AcceptHead, RejectHead, TakeBody, Post, CatchError,
      CoroutineClear, RunsStale, besideVars
  <2>4. co'[s] = co[s]
    BY <2>1, <2>2 DEF CoroutineStep, ReadNext, AcceptHead, RejectHead, TakeBody, Post,
      CatchError, CoroutineClear, RunsStale, StartRead, Close
  <2>5. received'[s] = received[s]
    BY <2>1, <2>2 DEF CoroutineStep, ReadNext, AcceptHead, RejectHead, TakeBody, Post,
      CatchError, CoroutineClear, RunsStale, besideVars
  <2> QED
    BY <2>3, <2>4, <2>5
<1>5. CASE \E u \in Session : HandleWrite(u)
  BY <1>5 DEF HandleWrite, WritePop, WriteNext, WriteErrorClose, WriteErrorClear, Close,
    otherVars
<1>6. CASE WorkerStep
  BY <1>6 DEF WorkerStep, DealMsg, SendRefuse, SendPush, SendStart, otherVars
<1> QED
  BY <1>1, <1>2, <1>m, <1>3, <1>4, <1>5, <1>6 DEF Next, PoolStep

LEMMA NextStreamInv ==
  ASSUME IInv, StreamInv, [Next]_vars
  PROVE  StreamInv'
<1> SUFFICES ASSUME NEW s \in Session, co'[s] \in Reading PROVE InStep(s)'
  BY DEF StreamInv
<1>1. InStep(s)
  BY StillReading DEF StreamInv
<1>t. TypeOK
  BY DEF IInv
<1>2. CASE ~ReadingStep(s)
  BY <1>1, <1>2, OthersStay, StaysInStep
<1>3. CASE ClientLeave(s) \/ \E id \in Ids : ClientSend(s, id)
  BY <1>1, <1>t, <1>3, LeaveInStep, SendInStep
<1>4. CASE AcceptStart(s)
  <2>1. /\ co[s] = "none" /\ co'[s] = "spawned"
        /\ UNCHANGED <<sent, stream, gone, received, recv>>
    BY <1>t, <1>4 DEF AcceptStart, besideVars, clientVars, TypeOK
  <2>2. Position(s)' = Position(s) /\ Rejected(s)' = Rejected(s)
    BY <2>1 DEF Position, BodyDue, Taken, InMessage, Accepted, Rejected
  <2> QED
    BY <1>1, <2>1, <2>2 DEF InStep, InMessage, Accepted
<1>5. CASE ReadDone(s)
  BY <1>1, <1>t, <1>5, ReadTakesNext
<1>6. CASE ReadError(s)
  <2>1. co'[s] = "error"
    BY <1>t, <1>6 DEF ReadError, TypeOK
  <2> QED
    BY <2>1 DEF Reading
<1>7. CASE CoroutineStep(s)
  BY <1>1, <1>7, RunInStep
<1>8. CASE WriteErrorClose(s)
  <2>1. /\ UNCHANGED <<sent, stream, gone, received, recv>>
        /\ co'[s] = "error" \/ co'[s] = co[s]
    BY <1>t, <1>8 DEF WriteErrorClose, Close, clientVars, TypeOK
  <2> QED
    BY <1>1, <2>1, StaysInStep DEF Reading
<1> QED
  BY <1>2, <1>3, <1>4, <1>5, <1>6, <1>7, <1>8 DEF ReadingStep

-----------------------------------------------------------------------------
(***************************************************************************)
(* The stream of messages it promises.                                     *)
(***************************************************************************)
\* Reading a header that is refused is rejecting the first unread message.
LEMMA HeaderReceives ==
  ASSUME IInv, NEW s \in Session, InStep(s), ReadDone(s)
  PROVE  MS(s)!Reject \/ UNCHANGED MS(s)!vars
<1>1. UNCHANGED <<sent, received>> /\ co[s] \in Suspended
  BY DEF ReadDone, clientVars
<1>2. CASE co[s] = "head"
  <2>1. /\ Len(received[s]) + 1 \in 1..Len(sent[s])
        /\ recv'[s] = sent[s][Len(received[s]) + 1]
        /\ ~Rejected(s)
    BY <1>2, ReadTakesNext DEF IInv
  <2>2. Len(received[s]) < Len(sent[s])
    BY <2>1, StreamTypes DEF IInv
  <2>3. CASE Rejected(s)'
    <3>1. recv'[s] \notin [n : 1..MaxRequests, id : Valid]
      BY <2>3 DEF Rejected
    <3> QED
      BY <1>1, <2>1, <2>2, <2>3, <3>1 DEF MS!Reject, MS!FirstUnread
  <2>4. CASE ~Rejected(s)'
    BY <1>1, <2>1, <2>4 DEF MS!vars, Rejected
  <2> QED
    BY <2>3, <2>4
<1>3. CASE co[s] = "body"
  <2>1. recv'[s] = recv[s]
    BY <1>3, ReadTakesNext DEF IInv
  <2> QED
    BY <1>1, <2>1 DEF MS!vars, Rejected
<1> QED
  BY <1>1, <1>2, <1>3 DEF Suspended

\* Posting is receiving the first unread message.
LEMMA PostReceives ==
  ASSUME IInv, NEW s \in Session, InStep(s), Post(s)
  PROVE  MS(s)!Receive
<1>1. /\ co[s] = "post" /\ received'[s] = Append(received[s], recv[s])
      /\ UNCHANGED <<sent, recv>>
  BY DEF Post, Runs, IInv, TypeOK, clientVars
<1>2. /\ ~Rejected(s) /\ Taken(s) = Len(received[s]) + 1
      /\ Taken(s) \in 1..Len(sent[s]) /\ recv[s] = sent[s][Taken(s)]
  BY <1>1 DEF InStep, InMessage, Accepted, Taken
<1>3. Len(received[s]) < Len(sent[s])
  BY <1>2, StreamTypes DEF IInv
<1>4. recv[s] \in [n : 1..MaxRequests, id : Valid]
  <2>1. recv[s] \in Message
    BY <1>1 DEF IInv, CoroutineSide, HeaderRead
  <2>2. recv[s].id \in Valid
    BY <1>1 DEF InStep, Accepted
  <2> QED
    BY <2>1, <2>2 DEF Message
<1>5. Rejected(s)' = Rejected(s)
  BY <1>1 DEF Rejected
<1> QED
  BY <1>1, <1>2, <1>3, <1>4, <1>5 DEF MS!Receive, MS!FirstUnread

LEMMA SendSends ==
  ASSUME IInv, NEW s \in Session, NEW id \in Ids, ClientSend(s, id)
  PROVE  MS(s)!Next
<1> DEFINE m == [n |-> Len(sent[s]) + 1, id |-> id]
<1>1. /\ sent'[s] = Append(sent[s], m) /\ UNCHANGED <<received, recv>>
      /\ Len(sent[s]) < Len(load[s].asks)
  BY DEF ClientSend, IInv, TypeOK
<1>2. m.n \in 1..MaxRequests
  <2>1. /\ Len(load[s].asks) \in Nat /\ Len(load[s].asks) <= MaxRequests
        /\ MaxRequests \in Nat
    BY CoroutineAssumption, LenProperties DEF IInv, TypeOK
  <2> QED
    BY <1>1, <2>1, StreamTypes DEF IInv
<1>3. m \in Message
  BY <1>2 DEF Message
<1> QED
  BY <1>1, <1>3 DEF MS!Next, MS!Send, Rejected

LEMMA StepReceives ==
  ASSUME IInv, StreamInv, [Next]_vars, NEW s \in Session
  PROVE  MS(s)!Next \/ UNCHANGED MS(s)!vars
<1>s. ASSUME sent'[s] = sent[s], received'[s] = received[s], recv'[s] = recv[s]
      PROVE  UNCHANGED MS(s)!vars
  BY <1>s DEF MS!vars, Rejected
<1>1. CASE ~ReadingStep(s)
  BY <1>1, <1>s, OthersStay
<1>2. CASE \E id \in Ids : ClientSend(s, id)
  BY <1>2, SendSends
<1>3. CASE ReadDone(s)
  <2>1. InStep(s)
    BY <1>3 DEF ReadDone, Suspended, Reading, StreamInv
  <2> QED
    BY <1>3, <2>1, HeaderReceives DEF MS!Next
<1>4. CASE Post(s)
  <2>1. InStep(s)
    BY <1>4 DEF Post, Runs, Reading, StreamInv
  <2> QED
    BY <1>4, <2>1, PostReceives DEF MS!Next
<1>5. CASE CoroutineStep(s) /\ ~Post(s)
  BY <1>5, <1>s DEF CoroutineStep, ReadNext, AcceptHead, RejectHead, TakeBody, CatchError,
    CoroutineClear, RunsStale, besideVars, clientVars
<1>6. CASE ClientLeave(s)
  BY <1>6, <1>s DEF ClientLeave
<1>7. CASE AcceptStart(s) \/ ReadError(s)
  BY <1>7, <1>s DEF AcceptStart, ReadError, besideVars, clientVars
<1>8. CASE WriteErrorClose(s)
  BY <1>8, <1>s DEF WriteErrorClose, clientVars
<1> QED
  BY <1>1, <1>2, <1>3, <1>4, <1>5, <1>6, <1>7, <1>8 DEF ReadingStep

\* What a session posts is what its client has sent, whole and in order up to
\* an invalid header, for any number of connections and of requests and for
\* any ids: header and body are read where they were written, also when the
\* client does not wait for its replies.
THEOREM Framing == Spec => ImplementsMessageStream
<1>1. Init => \A s \in Session : MS(s)!Init
  BY DEF Init, MS!Init, Rejected
<1>2. IInv /\ StreamInv /\ [Next]_vars
        => [\A s \in Session : [MS(s)!Next]_(MS(s)!vars)]_vars
  BY StepReceives
<1>3. Spec => []StreamInv
  BY Inductive, InitStreamInv, NextStreamInv, PTL DEF Spec
<1> QED
  BY <1>1, <1>2, <1>3, Inductive, PTL DEF Spec, ImplementsMessageStream
-----------------------------------------------------------------------------
(***************************************************************************)
(* Every request accounted for.                                            *)
(***************************************************************************)
\* A request in the queue of LogicSystem.
Entry == [session : Session, msg : Message]

\* The requests q that wait for the worker, those of session s: they are posted
\* and not refused, they stand in order, and behind the replies a.
InQueue(q, s, rcv, a, ref) ==
  /\ \A i, j \in DOMAIN q :
       i < j /\ q[i].session = s /\ q[j].session = s => q[i].msg.n < q[j].msg.n
  /\ \A e \in Range(q) : e.session = s =>
       /\ e.msg \in Range(rcv) \ Range(ref)
       /\ \A m \in Range(a) : m.n < e.msg.n

\* The messages rcv that s has posted are numbered from one; their replies a
\* are in that order; each one with a callback has its reply, waits in q or was
\* refused, and in one of these ways alone.
Accounted(s, rcv, a, ref, q) ==
  /\ \A i \in DOMAIN rcv : rcv[i].n = i
  /\ Ascending(a)
  /\ Range(a) \subseteq Range(rcv) \ Range(ref)
  /\ \A m \in Range(a) : m.id \in Registered
  /\ Range(ref) \subseteq Range(rcv)
  /\ \A m \in Range(rcv) \ Range(ref) : m.id \in Registered =>
       m \in Range(a) \/ [session |-> s, msg |-> m] \in Range(q)
  /\ InQueue(q, s, rcv, a, ref)

\* The next message of s is posted.
LEMMA PostAccounted ==
  ASSUME NEW s \in Session, NEW rcv \in Seq(Message), NEW a \in Seq(Message),
         NEW ref \in Seq(Message), NEW q \in Seq(Entry),
         Accounted(s, rcv, a, ref, q), NEW m \in Message, m.n = Len(rcv) + 1
  PROVE  Accounted(s, Append(rcv, m), a, ref, Append(q, [session |-> s, msg |-> m]))
<1> DEFINE e == [session |-> s, msg |-> m]
           all == Append(rcv, m)
           queue == Append(q, e)
<1>1. e \in Entry /\ e.session = s /\ e.msg = m
  BY DEF Entry
<1>2. /\ DOMAIN rcv = 1..Len(rcv) /\ Len(rcv) \in Nat
      /\ DOMAIN all = 1..Len(rcv) + 1 /\ all[Len(rcv) + 1] = m
      /\ \A i \in 1..Len(rcv) : all[i] = rcv[i]
      /\ Range(all) = Range(rcv) \cup {m}
  BY PushedSequence, RangePush
<1>3. /\ DOMAIN q = 1..Len(q) /\ Len(q) \in Nat
      /\ DOMAIN queue = 1..Len(q) + 1 /\ queue[Len(q) + 1] = e
      /\ \A i \in 1..Len(q) : queue[i] = q[i]
      /\ Range(queue) = Range(q) \cup {e}
  <2> HIDE DEF e
  <2> QED
    BY <1>1, PushedSequence, RangePush
<1>i. \A i \in DOMAIN rcv : rcv[i].n = i
  BY DEF Accounted
<1> HIDE DEF e, all, queue
<1>4. ASSUME NEW i \in DOMAIN all PROVE all[i].n = i
  <2>1. CASE i \in 1..Len(rcv)
    BY <1>2, <1>i, <2>1
  <2>2. CASE i = Len(rcv) + 1
    BY <1>2, <2>2
  <2> QED
    BY <1>2, <2>1, <2>2
<1>5. \A x \in Range(rcv) : x.n < m.n
  <2>1. \A x \in Range(rcv) : \E i \in 1..Len(rcv) : x = rcv[i]
    BY <1>2 DEF Range
  <2>2. \A i \in 1..Len(rcv) : rcv[i].n = i
    BY <1>2 DEF Accounted
  <2> QED
    BY <1>2, <2>1, <2>2
<1>6. m \notin Range(rcv)
  <2>1. m.n \in Nat
    BY <1>2
  <2> QED
    BY <1>5, <2>1
<1>7. /\ Range(a) \subseteq Range(rcv) /\ Range(ref) \subseteq Range(rcv)
      /\ m \notin Range(ref)
  BY <1>6 DEF Accounted
<1>8. InQueue(queue, s, all, a, ref)
  <2>1. ASSUME NEW i \in DOMAIN queue, NEW j \in DOMAIN queue, i < j,
               queue[i].session = s, queue[j].session = s
        PROVE  queue[i].msg.n < queue[j].msg.n
    <3>1. i \in 1..Len(q) /\ queue[i] = q[i]
      BY <1>3, <2>1
    <3>2. CASE j = Len(q) + 1
      <4>1. q[i] \in Range(q)
        BY <1>3, <3>1 DEF Range
      <4>2. q[i].msg \in Range(rcv)
        BY <2>1, <3>1, <4>1 DEF Accounted, InQueue
      <4> QED
        BY <1>1, <1>3, <1>5, <3>1, <3>2, <4>2
    <3>3. CASE j # Len(q) + 1
      <4>1. j \in 1..Len(q) /\ queue[j] = q[j]
        BY <1>3, <3>3
      <4> QED
        BY <1>3, <2>1, <3>1, <4>1 DEF Accounted, InQueue
    <3> QED
      BY <3>2, <3>3
  <2>2. ASSUME NEW x \in Range(queue), x.session = s
        PROVE  x.msg \in Range(all) \ Range(ref) /\ \A y \in Range(a) : y.n < x.msg.n
    <3>1. CASE x = e
      BY <1>1, <1>2, <1>5, <1>7, <3>1
    <3>2. CASE x \in Range(q)
      BY <1>2, <2>2, <3>2 DEF Accounted, InQueue
    <3> QED
      BY <1>3, <3>1, <3>2
  <2> QED
    BY <2>1, <2>2 DEF InQueue
<1>9. \A x \in Range(all) \ Range(ref) : x.id \in Registered =>
        x \in Range(a) \/ [session |-> s, msg |-> x] \in Range(queue)
  BY <1>2, <1>3 DEF Accounted, e
<1> QED
  BY <1>2, <1>4, <1>7, <1>8, <1>9 DEF Accounted, all, queue, e

\* A message of another session is posted.
LEMMA PostElsewhereAccounted ==
  ASSUME NEW s \in Session, NEW rcv, NEW a, NEW ref, NEW q \in Seq(Entry),
         Accounted(s, rcv, a, ref, q), NEW e \in Entry, e.session # s
  PROVE  Accounted(s, rcv, a, ref, Append(q, e))
<1> DEFINE queue == Append(q, e)
<1>1. /\ DOMAIN q = 1..Len(q) /\ Len(q) \in Nat
      /\ DOMAIN queue = 1..Len(q) + 1 /\ queue[Len(q) + 1] = e
      /\ \A i \in 1..Len(q) : queue[i] = q[i]
      /\ Range(queue) = Range(q) \cup {e}
  BY PushedSequence, RangePush
<1> HIDE DEF queue
<1>2. InQueue(queue, s, rcv, a, ref)
  <2>1. ASSUME NEW i \in DOMAIN queue, NEW j \in DOMAIN queue, i < j,
               queue[i].session = s, queue[j].session = s
        PROVE  queue[i].msg.n < queue[j].msg.n
    <3>1. i \in 1..Len(q) /\ j \in 1..Len(q)
      <4>1. i # Len(q) + 1 /\ j # Len(q) + 1
        BY <1>1, <2>1
      <4> QED
        BY <1>1, <4>1
    <3> QED
      BY <1>1, <2>1, <3>1 DEF Accounted, InQueue
  <2>2. ASSUME NEW x \in Range(queue), x.session = s
        PROVE  x.msg \in Range(rcv) \ Range(ref) /\ \A y \in Range(a) : y.n < x.msg.n
    BY <1>1, <2>2 DEF Accounted, InQueue
  <2> QED
    BY <2>1, <2>2 DEF InQueue
<1>3. \A x \in Range(rcv) \ Range(ref) : x.id \in Registered =>
        x \in Range(a) \/ [session |-> s, msg |-> x] \in Range(queue)
  BY <1>1 DEF Accounted
<1> QED
  BY <1>2, <1>3 DEF Accounted, queue

\* Without its front the queue stays as it is.
LEMMA InQueuePopped ==
  ASSUME NEW s \in Session, NEW rcv, NEW a, NEW ref, NEW q \in Seq(Entry), q # <<>>,
         InQueue(q, s, rcv, a, ref)
  PROVE  /\ InQueue(Tail(q), s, rcv, a, ref)
         /\ Head(q).session = s =>
              \A e \in Range(Tail(q)) : e.session = s => Head(q).msg.n < e.msg.n
<1> DEFINE rest == Tail(q)
           first == Head(q)
<1>1. /\ DOMAIN q = 1..Len(q) /\ Len(q) \in Nat \ {0}
      /\ DOMAIN rest = 1..Len(q) - 1 /\ first = q[1]
      /\ \A i \in 1..Len(q) - 1 : rest[i] = q[i + 1]
      /\ Range(q) = {first} \cup Range(rest)
  BY PoppedSequence, RangePop
<1> HIDE DEF rest, first
<1>2. \A i \in DOMAIN rest : i + 1 \in DOMAIN q /\ rest[i] = q[i + 1] /\ i \in Nat
  BY <1>1
<1>3. ASSUME NEW i \in DOMAIN rest, NEW j \in DOMAIN rest, i < j,
             rest[i].session = s, rest[j].session = s
      PROVE  rest[i].msg.n < rest[j].msg.n
  <2>1. i + 1 < j + 1
    BY <1>2, <1>3
  <2> QED
    BY <1>2, <1>3, <2>1 DEF InQueue
<1>4. InQueue(rest, s, rcv, a, ref)
  BY <1>1, <1>3 DEF InQueue
<1>5. ASSUME first.session = s, NEW e \in Range(rest), e.session = s
      PROVE  first.msg.n < e.msg.n
  <2>1. PICK j \in DOMAIN rest : e = rest[j]
    BY DEF Range
  <2>2. 1 < j + 1 /\ j + 1 \in DOMAIN q /\ 1 \in DOMAIN q /\ e = q[j + 1]
    BY <1>1, <2>1
  <2> QED
    BY <1>1, <1>5, <2>2 DEF InQueue
<1> QED
  BY <1>4, <1>5 DEF rest, first

\* The front of the queue is answered.
LEMMA ReplyAccounted ==
  ASSUME NEW s \in Session, NEW rcv \in Seq(Message), NEW a \in Seq(Message),
         NEW ref \in Seq(Message), NEW q \in Seq(Entry), q # <<>>,
         Accounted(s, rcv, a, ref, q),
         Head(q).session = s, Head(q).msg.id \in Registered
  PROVE  Accounted(s, rcv, Append(a, Head(q).msg), ref, Tail(q))
<1> DEFINE rest == Tail(q)
           first == Head(q)
           m == first.msg
           b == Append(a, m)
<1>1. /\ first \in Entry /\ m \in Message /\ first \in Range(q)
      /\ Range(q) = {first} \cup Range(rest)
  <2>1. first \in Entry /\ Range(q) = {first} \cup Range(rest)
    BY RangePop, PoppedSequence
  <2> QED
    BY <2>1 DEF Entry
<1>2. /\ InQueue(q, s, rcv, a, ref) /\ InQueue(rest, s, rcv, a, ref)
      /\ \A e \in Range(rest) : e.session = s => m.n < e.msg.n
  BY InQueuePopped DEF Accounted
<1> HIDE DEF rest, m
<1>3. /\ DOMAIN a = 1..Len(a) /\ Len(a) \in Nat
      /\ DOMAIN b = 1..Len(a) + 1 /\ b[Len(a) + 1] = m
      /\ \A i \in 1..Len(a) : b[i] = a[i]
      /\ Range(b) = Range(a) \cup {m}
  BY <1>1, PushedSequence, RangePush
<1> HIDE DEF b
<1>4. m \in Range(rcv) \ Range(ref) /\ \A x \in Range(a) : x.n < m.n
  BY <1>1, <1>2 DEF InQueue, m
<1>5. Ascending(b)
  <2> SUFFICES ASSUME NEW i \in 1..Len(a) + 1, NEW j \in 1..Len(a) + 1, i < j
               PROVE  b[i].n < b[j].n
    BY <1>3 DEF Ascending
  <2>1. i \in 1..Len(a) /\ a[i] \in Range(a)
    BY <1>3 DEF Range
  <2>2. CASE j = Len(a) + 1
    BY <1>3, <1>4, <2>1, <2>2
  <2>3. CASE j # Len(a) + 1
    <3>1. j \in 1..Len(a)
      BY <1>3, <2>3
    <3> QED
      BY <1>3, <2>1, <3>1 DEF Accounted, Ascending
  <2> QED
    BY <2>2, <2>3
<1>6. InQueue(rest, s, rcv, b, ref)
  BY <1>2, <1>3 DEF InQueue
<1>7. \A x \in Range(rcv) \ Range(ref) : x.id \in Registered =>
        x \in Range(b) \/ [session |-> s, msg |-> x] \in Range(rest)
  <2>1. \A x : [session |-> s, msg |-> x] = first => x = m
    BY DEF m
  <2> QED
    BY <1>1, <1>3, <2>1 DEF Accounted
<1>8. Range(b) \subseteq Range(rcv) \ Range(ref) /\ \A x \in Range(b) : x.id \in Registered
  BY <1>3, <1>4 DEF Accounted, m
<1> QED
  BY <1>5, <1>6, <1>7, <1>8 DEF Accounted, b, m, rest

\* The front of the queue is refused.
LEMMA RefusalAccounted ==
  ASSUME NEW s \in Session, NEW rcv \in Seq(Message), NEW a \in Seq(Message),
         NEW ref \in Seq(Message), NEW q \in Seq(Entry), q # <<>>,
         Accounted(s, rcv, a, ref, q), Head(q).session = s
  PROVE  Accounted(s, rcv, a, Append(ref, Head(q).msg), Tail(q))
<1> DEFINE rest == Tail(q)
           first == Head(q)
           m == first.msg
           all == Append(ref, m)
<1>1. /\ first \in Entry /\ m \in Message /\ first \in Range(q)
      /\ Range(q) = {first} \cup Range(rest)
  <2>1. first \in Entry /\ Range(q) = {first} \cup Range(rest)
    BY RangePop, PoppedSequence
  <2> QED
    BY <2>1 DEF Entry
<1>2. /\ InQueue(q, s, rcv, a, ref) /\ InQueue(rest, s, rcv, a, ref)
      /\ \A e \in Range(rest) : e.session = s => m.n < e.msg.n
  BY InQueuePopped DEF Accounted
<1>3. Range(all) = Range(ref) \cup {m}
  BY <1>1, RangePush
<1> HIDE DEF rest, m, all
<1>4. m \in Range(rcv) /\ m.n \in Nat /\ \A x \in Range(a) : x.n < m.n
  <2>1. m.n \in Nat
    BY <1>1, CoroutineAssumption DEF Message
  <2> QED
    BY <1>1, <1>2, <2>1 DEF InQueue, m
<1>5. m \notin Range(a) /\ \A e \in Range(rest) : e.session = s => e.msg # m
  BY <1>2, <1>4
<1>6. InQueue(rest, s, rcv, a, all)
  BY <1>2, <1>3, <1>5 DEF InQueue
<1>7. \A x \in Range(rcv) \ Range(all) : x.id \in Registered =>
        x \in Range(a) \/ [session |-> s, msg |-> x] \in Range(rest)
  <2>1. \A x : [session |-> s, msg |-> x] = first => x = m
    BY DEF m
  <2> QED
    BY <1>1, <1>3, <2>1 DEF Accounted
<1>8. Range(all) \subseteq Range(rcv) /\ Range(a) \subseteq Range(rcv) \ Range(all)
  BY <1>3, <1>4, <1>5 DEF Accounted
<1> QED
  BY <1>6, <1>7, <1>8 DEF Accounted, all, m, rest

\* The front of the queue is another session's, or has no callback.
LEMMA DropAccounted ==
  ASSUME NEW s \in Session, NEW rcv, NEW a, NEW ref, NEW q \in Seq(Entry), q # <<>>,
         Accounted(s, rcv, a, ref, q),
         Head(q).session # s \/ Head(q).msg.id \notin Registered
  PROVE  Accounted(s, rcv, a, ref, Tail(q))
<1>1. Range(q) = {Head(q)} \cup Range(Tail(q)) /\ InQueue(Tail(q), s, rcv, a, ref)
  BY RangePop, InQueuePopped DEF Accounted
<1>2. \A x : [session |-> s, msg |-> x] = Head(q) =>
               Head(q).session = s /\ Head(q).msg = x
  OBVIOUS
<1>3. \A x \in Range(rcv) \ Range(ref) : x.id \in Registered =>
        x \in Range(a) \/ [session |-> s, msg |-> x] \in Range(Tail(q))
  BY <1>1, <1>2 DEF Accounted
<1> QED
  BY <1>1, <1>3 DEF Accounted

\* The messages of the requests in q that are of s and have a callback, and the
\* replies a before them.
Own(s) == [session : {s}, msg : Answerable]
WaitingIn(q, s) ==
  LET mine == Selected(q, Own(s)) IN [i \in DOMAIN mine |-> mine[i].msg]
InOrder(a, q, s) == a \o WaitingIn(q, s)

\* What was posted and not refused is the replies, then what still waits.
LEMMA AccountedInOrder ==
  ASSUME NEW s \in Session, NEW rcv \in Seq(Message), NEW a \in Seq(Message),
         NEW ref \in Seq(Message), NEW q \in Seq(Entry),
         Accounted(s, rcv, a, ref, q)
  PROVE  /\ WaitingIn(q, s) \in Seq(Message)
         /\ Selected(rcv, Answerable \ Range(ref)) = InOrder(a, q, s)
<1> DEFINE S == Own(s)
           mine == Selected(q, S)
           w == WaitingIn(q, s)
           l == Len(mine)
           t == Selected(rcv, Answerable \ Range(ref))
<1>1. /\ mine \in Seq(Entry) /\ l \in Nat /\ DOMAIN mine = 1..l
      /\ Range(mine) = Range(q) \cap S
  BY SelectedPicks, SelectedRange, LenProperties
<1>2. PICK p : Picks(mine, p, q, S, Len(q))
  BY SelectedPicks
<1>3. \A i \in 1..l : mine[i] \in Entry /\ mine[i].session = s /\ mine[i].msg \in Answerable
  <2>1. \A i \in 1..l : mine[i] \in Entry /\ mine[i] \in S
    BY <1>1, <1>2, ElementOfSeq DEF Picks
  <2> QED
    BY <2>1 DEF Own
<1> HIDE DEF l, S, t, mine
<1>4. w \in Seq(Message) /\ DOMAIN w = 1..l /\ \A i \in 1..l : w[i] = mine[i].msg
  <2>1. \A i \in 1..l : mine[i].msg \in Message
    BY <1>3 DEF Entry
  <2>2. w = [i \in 1..l |-> mine[i].msg]
    BY <1>1 DEF WaitingIn, mine, S
  <2> HIDE DEF w
  <2>3. w \in [1..l -> Message]
    BY <2>1, <2>2
  <2>4. w \in Seq(Message)
    BY <1>1, <2>3, SeqDef
  <2> QED
    BY <2>2, <2>4
<1> HIDE DEF w
<1>5. Ascending(w)
  <2> SUFFICES ASSUME NEW i \in 1..l, NEW j \in 1..l, i < j
               PROVE  mine[i].msg.n < mine[j].msg.n
    BY <1>4 DEF Ascending
  <2>1. /\ p[i] < p[j] /\ p[i] \in 1..Len(q) /\ p[j] \in 1..Len(q)
        /\ mine[i] = q[p[i]] /\ mine[j] = q[p[j]]
    BY <1>2 DEF Picks, l
  <2>2. DOMAIN q = 1..Len(q)
    BY LenProperties
  <2> QED
    BY <1>3, <2>1, <2>2 DEF Accounted, InQueue
<1>6. \A x : x \in Range(w) <=> [session |-> s, msg |-> x] \in Range(q) /\ x \in Answerable
  <2>1. ASSUME NEW x \in Range(w)
        PROVE  [session |-> s, msg |-> x] \in Range(q) /\ x \in Answerable
    <3>1. PICK i \in 1..l : x = mine[i].msg
      BY <1>4 DEF Range
    <3>2. mine[i] = [session |-> s, msg |-> x]
      BY <1>3, <3>1 DEF Entry
    <3>3. mine[i] \in Range(q)
      BY <1>1 DEF Range
    <3> QED
      BY <1>3, <3>1, <3>2, <3>3
  <2>2. ASSUME NEW x \in Answerable, [session |-> s, msg |-> x] \in Range(q)
        PROVE  x \in Range(w)
    <3> DEFINE e == [session |-> s, msg |-> x]
    <3>1. e \in Range(mine) /\ e.msg = x
      BY <1>1, <2>2 DEF S, Own
    <3> HIDE DEF e
    <3>2. PICK i \in 1..l : mine[i] = e
      BY <1>1, <3>1 DEF Range
    <3>3. w[i] = x
      BY <1>4, <3>1, <3>2
    <3> QED
      BY <1>4, <3>3 DEF Range
  <2> QED
    BY <2>1, <2>2
<1>7. \A x \in Range(a) : \A y \in Range(w) : x.n < y.n
  <2> SUFFICES ASSUME NEW x \in Range(a), NEW y \in Range(w) PROVE x.n < y.n
    OBVIOUS
  <2> DEFINE e == [session |-> s, msg |-> y]
  <2>1. e \in Range(q) /\ e.session = s /\ e.msg = y
    BY <1>6
  <2> HIDE DEF e
  <2> QED
    BY <2>1 DEF Accounted, InQueue
<1>8. a \o w \in Seq(Message) /\ Ascending(a \o w)
  BY <1>4, <1>5, <1>7, AscendingConcat, ConcatProperties DEF Accounted
<1>9. t \in Seq(Message) /\ Ascending(t)
  <2>1. \A i \in DOMAIN rcv : rcv[i].n = i /\ i \in Nat
    BY LenProperties DEF Accounted
  <2>2. Ascending(rcv)
    BY <2>1 DEF Ascending
  <2> QED
    BY <2>2, SelectedPicks, SelectedAscending DEF t
<1>10. Range(t) = Range(a \o w)
  <2>1. /\ Range(t) = Range(rcv) \cap (Answerable \ Range(ref))
        /\ Range(a \o w) = Range(a) \cup Range(w)
    BY <1>4, SelectedRange, RangeConcatenation DEF t
  <2>2. Range(a) \subseteq Range(t)
    <3>1. Range(a) \subseteq Message
      BY RangeOfSeq
    <3> QED
      BY <2>1, <3>1 DEF Accounted, Message, Answerable
  <2>3. Range(w) \subseteq Range(t)
    <3> SUFFICES ASSUME NEW x \in Range(w) PROVE x \in Range(t)
      OBVIOUS
    <3> DEFINE e == [session |-> s, msg |-> x]
    <3>1. e \in Range(q) /\ e.session = s /\ e.msg = x /\ x \in Answerable
      BY <1>6
    <3> HIDE DEF e
    <3> QED
      BY <2>1, <3>1 DEF Accounted, InQueue
  <2>4. \A x \in Range(t) : x \in Range(a) \cup Range(w)
    <3>1. \A x \in Answerable : x.id \in Registered
      BY DEF Answerable
    <3> QED
      BY <1>6, <2>1, <3>1 DEF Accounted
  <2> QED
    BY <2>1, <2>2, <2>3, <2>4
<1>11. \A m \in Message : m.n \in Nat
  BY CoroutineAssumption DEF Message
<1>12. t = a \o w
  BY <1>8, <1>9, <1>10, <1>11, AscendingRange
<1> QED
  BY <1>4, <1>12 DEF t, w, InOrder

-----------------------------------------------------------------------------
(***************************************************************************)
(* The account of every session is kept.                                   *)
(***************************************************************************)
\* The replies of s, on its connection or in its queue.
Replies(s) == wire[s] \o Unwritten(s)

\* The worker calls Send for requests that have a callback alone.
ServesRegistered == worker # "idle" => Request.msg.id \in Registered

\* The client numbers what it sends, and the session has posted the beginning
\* of it.
Numbering ==
  \A s \in Session :
    /\ \A i \in 1..Len(sent[s]) : sent[s][i].n = i
    /\ Len(received[s]) <= Len(sent[s])
    /\ \A i \in 1..Len(received[s]) : received[s][i] = sent[s][i]

AllAccounted ==
  \A s \in Session : Accounted(s, received[s], Replies(s), refused[s], Unserved)

\* A client that waits is at most one request ahead of its replies.
Patience == \A s \in Session : load[s].waits => Len(sent[s]) <= Len(wire[s]) + 1

AccountInv == ServesRegistered /\ Numbering /\ AllAccounted /\ Patience

LEMMA AccountTypes ==
  ASSUME IInv, NEW s \in Session
  PROVE  /\ sent[s] \in Seq(Message) /\ received[s] \in Seq(Message)
         /\ wire[s] \in Seq(Message) /\ refused[s] \in Seq(Message)
         /\ send_que[s] \in Seq(Message) /\ msg_que \in Seq(Entry)
         /\ Unwritten(s) \in Seq(Message)
         /\ Replies(s) \in Seq(Message)
         /\ Unserved \in Seq(Entry)
<1>1. /\ sent[s] \in Seq(Message) /\ received[s] \in Seq(Message)
      /\ wire[s] \in Seq(Message) /\ refused[s] \in Seq(Message)
      /\ send_que[s] \in Seq(Message) /\ msg_que \in Seq(Entry)
  BY DEF IInv, TypeOK, Entry
<1>2. handler[s] = "ok" => send_que[s] # <<>>
  BY DEF IInv, SendSide, FrontIsThere, InCharge
<1>3. Unwritten(s) \in Seq(Message)
  BY <1>1, <1>2, QueuePop DEF Unwritten
<1>4. Replies(s) \in Seq(Message)
  BY <1>1, <1>3, ConcatProperties DEF Replies
<1>5. worker = "start" => msg_que # <<>>
  BY DEF IInv, WorkerServes
<1>6. Unserved \in Seq(Entry)
  BY <1>1, <1>5, QueuePop DEF Unserved
<1> QED
  BY <1>1, <1>3, <1>4, <1>6

\* At the start there is nothing to account for.
LEMMA InitAccountInv == Init => AccountInv
<1> SUFFICES ASSUME Init PROVE AccountInv
  OBVIOUS
<1>1. Len(<<>>) = 0 /\ DOMAIN <<>> = {} /\ Range(<<>>) = {} /\ <<>> \o <<>> = <<>>
  <2>1. <<>> \in Seq({})
    BY EmptySeq
  <2>2. <<>> \o <<>> = <<>>
    BY <2>1, ConcatEmptySeq
  <2> QED
    BY <2>2, EmptySeq DEF Range
<1>2. \A s \in Session :
        /\ sent[s] = <<>> /\ received[s] = <<>> /\ refused[s] = <<>>
        /\ Replies(s) = <<>> /\ Unserved = <<>>
  BY <1>1 DEF Init, Replies, Unwritten, Unserved
<1>3. \A s \in Session : Accounted(s, <<>>, <<>>, <<>>, <<>>)
  BY <1>1 DEF Accounted, InQueue, Ascending
<1>4. AllAccounted
  BY <1>2, <1>3 DEF AllAccounted
<1>5. Numbering
  BY <1>1, <1>2 DEF Numbering
<1>6. Patience
  BY <1>1 DEF Patience, Init
<1>7. ServesRegistered
  BY DEF ServesRegistered, Init
<1> QED
  BY <1>4, <1>5, <1>6, <1>7 DEF AccountInv

\* What the client and the coroutine do to sent and received.
LEMMA PostsNext ==
  ASSUME IInv, StreamInv, NEW s \in Session, Post(s)
  PROVE  /\ recv[s] \in Message
         /\ received' = [received EXCEPT ![s] = Append(@, recv[s])]
         /\ msg_que' = Append(msg_que, [session |-> s, msg |-> recv[s]])
         /\ worker = "idle"
         /\ UNCHANGED <<clientVars, sendVars, worker>>
         /\ Len(received[s]) + 1 \in 1..Len(sent[s])
         /\ recv[s] = sent[s][Len(received[s]) + 1]
<1>1. co[s] = "post"
  BY DEF Post, Runs
<1>2. InStep(s) /\ Taken(s) = Len(received[s]) + 1
  BY <1>1 DEF StreamInv, Reading, Taken, InMessage, Accepted
<1>3. Len(received[s]) + 1 \in 1..Len(sent[s]) /\ recv[s] = sent[s][Len(received[s]) + 1]
  BY <1>1, <1>2 DEF InStep, InMessage, Accepted
<1>4. recv[s] \in Message
  BY <1>1 DEF IInv, CoroutineSide, HeaderRead
<1> QED
  BY <1>3, <1>4 DEF Post

\* Requests are posted in the order of their numbers, as they were sent.
LEMMA NextNumbering ==
  ASSUME IInv, StreamInv, AccountInv, [Next]_vars
  PROVE  Numbering'
<1> SUFFICES ASSUME NEW s \in Session
             PROVE  /\ \A i \in 1..Len(sent'[s]) : sent'[s][i].n = i
                    /\ Len(received'[s]) <= Len(sent'[s])
                    /\ \A i \in 1..Len(received'[s]) : received'[s][i] = sent'[s][i]
  BY DEF Numbering
<1>1. /\ \A i \in 1..Len(sent[s]) : sent[s][i].n = i
      /\ Len(received[s]) <= Len(sent[s])
      /\ \A i \in 1..Len(received[s]) : received[s][i] = sent[s][i]
      /\ Len(received[s]) \in Nat /\ Len(sent[s]) \in Nat
      /\ received[s] \in Seq(Message) /\ sent[s] \in Seq(Message)
  BY AccountTypes, LenProperties DEF AccountInv, Numbering
<1>s. CASE sent'[s] = sent[s] /\ received'[s] = received[s]
  BY <1>1, <1>s
<1>2. CASE ~ReadingStep(s)
  BY <1>s, <1>2, OthersStay
<1>3. ASSUME NEW id \in Ids, ClientSend(s, id)
      PROVE  /\ \A i \in 1..Len(sent'[s]) : sent'[s][i].n = i
             /\ Len(received'[s]) <= Len(sent'[s])
             /\ \A i \in 1..Len(received'[s]) : received'[s][i] = sent'[s][i]
  <2> DEFINE m == [n |-> Len(sent[s]) + 1, id |-> id]
             all == Append(sent[s], m)
  <2>1. sent'[s] = all /\ received' = received
    BY <1>3 DEF ClientSend, IInv, TypeOK
  <2>2. m \in Message
    <3>1. /\ Len(load[s].asks) \in Nat /\ Len(load[s].asks) <= MaxRequests
          /\ MaxRequests \in Nat /\ Len(sent[s]) < Len(load[s].asks)
      BY <1>3, CoroutineAssumption, LenProperties DEF IInv, TypeOK, ClientSend
    <3>2. Len(sent[s]) + 1 \in 1..MaxRequests
      BY <1>1, <3>1
    <3> QED
      BY <3>2 DEF Message
  <2>3. m.n = Len(sent[s]) + 1
    OBVIOUS
  <2> HIDE DEF m
  <2>4. /\ Len(all) = Len(sent[s]) + 1
        /\ \A i \in 1..Len(sent[s]) : all[i] = sent[s][i]
        /\ all[Len(sent[s]) + 1] = m
    BY <1>1, <2>2, AppendProperties
  <2> HIDE DEF all
  <2> QED
    BY <1>1, <2>1, <2>3, <2>4
<1>4. CASE Post(s)
  <2> DEFINE all == Append(received[s], recv[s])
  <2>1. received'[s] = all /\ sent' = sent
    BY <1>4, PostsNext DEF clientVars, IInv, TypeOK
  <2>2. /\ Len(all) = Len(received[s]) + 1
        /\ \A i \in 1..Len(received[s]) : all[i] = received[s][i]
        /\ all[Len(received[s]) + 1] = recv[s]
    BY <1>1, <1>4, PostsNext, AppendProperties
  <2>3. /\ Len(received[s]) + 1 \in 1..Len(sent[s])
        /\ recv[s] = sent[s][Len(received[s]) + 1]
    BY <1>4, PostsNext
  <2> HIDE DEF all
  <2>4. \A i \in 1..Len(received[s]) + 1 : all[i] = sent[s][i]
    <3> SUFFICES ASSUME NEW i \in 1..Len(received[s]) + 1, i \notin 1..Len(received[s])
                 PROVE  all[i] = sent[s][i]
      BY <1>1, <2>2
    <3>1. i = Len(received[s]) + 1
      BY <1>1
    <3> QED
      BY <2>2, <2>3, <3>1
  <2> QED
    BY <1>1, <2>1, <2>2, <2>3, <2>4
<1>5. CASE CoroutineStep(s) /\ ~Post(s)
  BY <1>s, <1>5 DEF CoroutineStep, ReadNext, AcceptHead, RejectHead, TakeBody, CatchError,
    CoroutineClear, RunsStale, besideVars, clientVars
<1>6. CASE ClientLeave(s) \/ AcceptStart(s) \/ ReadDone(s) \/ ReadError(s) \/ WriteErrorClose(s)
  BY <1>s, <1>6 DEF ClientLeave, AcceptStart, ReadDone, ReadError, WriteErrorClose,
    besideVars, clientVars
<1> QED
  BY <1>2, <1>3, <1>4, <1>5, <1>6 DEF ReadingStep

\* A reply that is written leaves the queue for the connection.
LEMMA WritesKeepReplies ==
  ASSUME IInv, NEW u \in Session, WriteDone(u) \/ WriteFail(u) \/ HandleWrite(u),
         NEW s \in Session
  PROVE  Replies(s)' = Replies(s) /\ refused'[s] = refused[s]
<1>1. RC(s)!Deliver \/ RC(s)!Break \/ UNCHANGED RC(s)!vars
  BY DoneIsDeliver, FailIsBreak, HandlerStutters
<1>2. CASE RC(s)!Deliver
  <2> DEFINE q == Unwritten(s)
             w == wire[s]
  <2>1. /\ q # <<>> /\ Unwritten(s)' = Tail(q) /\ wire'[s] = Append(w, Head(q))
        /\ refused'[s] = refused[s]
    BY <1>2 DEF RC!Deliver
  <2>2. q \in Seq(Message) /\ w \in Seq(Message)
    BY AccountTypes
  <2> HIDE DEF q, w
  <2>3. Append(w, Head(q)) \o Tail(q) = w \o q
    <3> DEFINE one == <<Head(q)>>
    <3>1. Head(q) \in Message /\ Tail(q) \in Seq(Message)
      BY <2>1, <2>2, QueuePop
    <3>2. one \in Seq(Message) /\ Append(w, Head(q)) = w \o one
      BY <2>2, <3>1, AppendIsConcat
    <3>3. q = one \o Tail(q)
      BY <2>1, <2>2, ConcatSimplifications, HeadTailProperties
    <3> HIDE DEF one
    <3>4. (w \o one) \o Tail(q) = w \o (one \o Tail(q))
      BY <2>2, <3>1, <3>2, ConcatAssociative
    <3> QED
      BY <3>2, <3>3, <3>4
  <2> QED
    BY <2>1, <2>3 DEF Replies, q, w
<1>3. CASE RC(s)!Break \/ UNCHANGED RC(s)!vars
  BY <1>3 DEF RC!Break, RC!vars, Replies
<1> QED
  BY <1>1, <1>2, <1>3

\* Send adds one to the replies of the session it is called for.
LEMMA PushAddsReply ==
  ASSUME IInv, SendPush
  PROVE  /\ \A s \in Session :
              Replies(s)' = IF s = Request.session THEN Append(Replies(s), Request.msg)
                            ELSE Replies(s)
         /\ UNCHANGED <<refused, received>>
         /\ Unserved = msg_que /\ Unserved' = Tail(msg_que)
<1> DEFINE r == Request.session
           m == Request.msg
<1>1. /\ r \in Session /\ m \in Message
      /\ send_que \in [Session -> Seq(Message)]
  BY FrontRequest DEF IInv, WorkerServes, SendPush, TypeOK
<1>2. /\ send_que' = [send_que EXCEPT ![r] = Append(@, m)]
      /\ UNCHANGED <<wire, handler, failed, refused, received>>
  BY DEF SendPush, otherVars, readVars
<1>3. Unserved = msg_que /\ Unserved' = Tail(msg_que)
  BY DEF SendPush, Return, Unserved
<1> HIDE DEF r, m
<1>4. ASSUME NEW s \in Session, s = r
      PROVE  Replies(s)' = Append(Replies(s), m)
  <2>1. handler[s] = "ok" => send_que[s] # <<>>
    BY DEF IInv, SendSide, FrontIsThere, InCharge
  <2>2. send_que[s] # <<>> => Tail(Append(send_que[s], m)) = Append(Tail(send_que[s]), m)
    BY <1>1, HeadTailAppend
  <2>3. Unwritten(s)' = Append(Unwritten(s), m)
    BY <1>1, <1>2, <1>4, <2>1, <2>2 DEF Unwritten
  <2>4. Append(wire[s] \o Unwritten(s), m) = wire[s] \o Append(Unwritten(s), m)
    <3> DEFINE one == <<m>>
               w == wire[s]
               q == Unwritten(s)
    <3>1. one \in Seq(Message) /\ w \in Seq(Message) /\ q \in Seq(Message)
      BY <1>1, AccountTypes
    <3> HIDE DEF w, q
    <3>2. Append(w \o q, m) = (w \o q) \o one /\ Append(q, m) = q \o one
      BY <1>1, <3>1, AppendIsConcat, ConcatProperties
    <3> HIDE DEF one
    <3>3. (w \o q) \o one = w \o (q \o one)
      BY <3>1, ConcatAssociative
    <3>4. Append(w \o q, m) = w \o Append(q, m)
      BY <3>2, <3>3
    <3> QED
      BY <3>4 DEF w, q
  <2> QED
    BY <1>2, <2>3, <2>4 DEF Replies
<1>5. ASSUME NEW s \in Session, s # r
      PROVE  Replies(s)' = Replies(s)
  BY <1>1, <1>2, <1>5 DEF Replies, Unwritten
<1> QED
  BY <1>2, <1>3, <1>4, <1>5 DEF r, m

\* A refusal takes the front of the queue.
LEMMA RefuseAddsRefusal ==
  ASSUME IInv, SendRefuse
  PROVE  /\ \A s \in Session : Replies(s)' = Replies(s)
         /\ refused' = [refused EXCEPT ![Request.session] = Append(@, Request.msg)]
         /\ UNCHANGED received
         /\ Unserved = msg_que /\ Unserved' = Tail(msg_que)
BY DEF SendRefuse, Return, Replies, Unwritten, Unserved, otherVars, readVars

\* The front is dropped only if it has no callback.
LEMMA DealsWithFront ==
  ASSUME IInv, DealMsg \/ SendStart
  PROVE  /\ \A s \in Session : Replies(s)' = Replies(s)
         /\ UNCHANGED <<refused, received>>
         /\ \/ Unserved' = Unserved
            \/ /\ Unserved = msg_que /\ Unserved' = Tail(msg_que)
               /\ msg_que # <<>> /\ Request.msg.id \notin Registered
BY DEF DealMsg, SendStart, Return, Replies, Unwritten, Unserved, otherVars, readVars, sendVars

\* The steps that touch neither the queues nor what is in them.
LEMMA KeepsAccount ==
  ASSUME IInv, UNCHANGED <<received, sendVars, logicVars>>
  PROVE  /\ \A s \in Session : Replies(s)' = Replies(s)
         /\ UNCHANGED <<refused, received>>
         /\ Unserved' = Unserved
BY DEF Replies, Unwritten, Unserved, sendVars, logicVars

\* Writes leave the requests alone.
LEMMA WritesKeepQueue ==
  ASSUME NEW u \in Session, WriteDone(u) \/ WriteFail(u) \/ HandleWrite(u)
  PROVE  UNCHANGED <<received, logicVars>>
BY DEF WriteDone, WriteFail, HandleWrite, WritePop, WriteNext, WriteErrorClose,
  WriteErrorClear, otherVars, readVars, logicVars

\* What a step may be, seen from the queues.
LEMMA QueueSteps ==
  ASSUME IInv, [Next]_vars
  PROVE  \/ UNCHANGED <<received, sendVars, logicVars>>
         \/ \E u \in Session : Post(u)
         \/ \E u \in Session : WriteDone(u) \/ WriteFail(u) \/ HandleWrite(u)
         \/ WorkerStep
<1>1. CASE UNCHANGED vars
  BY <1>1 DEF vars, readVars
<1>2. CASE ClientStep \/ MainStep
  BY <1>2 DEF ClientStep, MainStep, ClientLeave, ClientSend, AcceptStart, AcceptInsert,
    besideVars, readVars
<1>3. CASE NetworkStep
  BY <1>3 DEF NetworkStep, ReadDone, ReadError, besideVars
<1>4. CASE PoolStep
  BY <1>4 DEF PoolStep, CoroutineStep, ReadNext, AcceptHead, RejectHead, TakeBody,
    CatchError, CoroutineClear, RunsStale, besideVars
<1> QED
  BY <1>1, <1>2, <1>3, <1>4 DEF Next

\* The callback that is found stays the front's.
LEMMA NextServesRegistered ==
  ASSUME IInv, AccountInv, [Next]_vars
  PROVE  ServesRegistered'
<1> USE DEF AccountInv, ServesRegistered
<1>1. CASE UNCHANGED <<received, sendVars, logicVars>>
  BY <1>1 DEF logicVars, Request
<1>2. CASE \E u \in Session : Post(u)
  BY <1>2 DEF Post
<1>3. CASE \E u \in Session : WriteDone(u) \/ WriteFail(u) \/ HandleWrite(u)
  BY <1>3, WritesKeepQueue DEF logicVars, Request
<1>4. CASE WorkerStep
  BY <1>4 DEF WorkerStep, DealMsg, SendRefuse, SendPush, SendStart, Return, Request
<1> QED
  BY <1>1, <1>2, <1>3, <1>4, QueueSteps

\* PostMsgToQue, for every session.
LEMMA PostKeepsAccount ==
  ASSUME IInv, StreamInv, AccountInv, NEW u \in Session, Post(u), NEW s \in Session
  PROVE  Accounted(s, received[s], Replies(s), refused[s], Unserved)'
<1> DEFINE e == [session |-> u, msg |-> recv[u]]
<1>1. /\ recv[u] \in Message
      /\ received' = [received EXCEPT ![u] = Append(@, recv[u])]
      /\ Unserved = msg_que /\ Unserved' = Append(msg_que, e)
      /\ refused'[s] = refused[s] /\ Replies(s)' = Replies(s)
  <2>1. /\ recv[u] \in Message
        /\ received' = [received EXCEPT ![u] = Append(@, recv[u])]
        /\ msg_que' = Append(msg_que, e) /\ worker = "idle"
        /\ UNCHANGED <<clientVars, sendVars, worker>>
    BY PostsNext
  <2>2. UNCHANGED <<wire, send_que, handler, refused>>
    BY <2>1 DEF sendVars
  <2> HIDE DEF e
  <2>3. Unserved = msg_que /\ Unserved' = Append(msg_que, e)
    BY <2>1 DEF Unserved
  <2>4. refused'[s] = refused[s] /\ Replies(s)' = Replies(s)
    BY <2>2 DEF Replies, Unwritten
  <2> QED
    BY <2>1, <2>3, <2>4
<1>2. recv[u].n = Len(received[u]) + 1
  <2> DEFINE k == Len(received[u]) + 1
  <2>1. k \in 1..Len(sent[u]) /\ recv[u] = sent[u][k]
    BY PostsNext
  <2> HIDE DEF k
  <2>2. sent[u][k].n = k
    BY <2>1 DEF AccountInv, Numbering
  <2> QED
    BY <2>1, <2>2 DEF k
<1>3. /\ received[s] \in Seq(Message) /\ Replies(s) \in Seq(Message)
      /\ refused[s] \in Seq(Message) /\ msg_que \in Seq(Entry)
      /\ Accounted(s, received[s], Replies(s), refused[s], msg_que)
  BY <1>1, AccountTypes DEF AccountInv, AllAccounted
<1>4. CASE s = u
  <2>1. received'[s] = Append(received[s], recv[s])
    BY <1>1, <1>4 DEF IInv, TypeOK
  <2>2. Accounted(s, Append(received[s], recv[s]), Replies(s), refused[s],
                  Append(msg_que, [session |-> s, msg |-> recv[s]]))
    BY <1>1, <1>2, <1>3, <1>4, PostAccounted
  <2> QED
    BY <1>1, <1>4, <2>1, <2>2
<1>5. CASE s # u
  <2>1. received'[s] = received[s]
    BY <1>1, <1>5 DEF IInv, TypeOK
  <2>2. e \in Entry /\ e.session # s
    BY <1>1, <1>5 DEF Entry
  <2> HIDE DEF e
  <2>3. Accounted(s, received[s], Replies(s), refused[s], Append(msg_que, e))
    BY <1>3, <2>2, PostElsewhereAccounted
  <2> QED
    BY <1>1, <2>1, <2>3
<1> QED
  BY <1>4, <1>5

\* The worker, for every session.
LEMMA WorkerKeepsAccount ==
  ASSUME IInv, AccountInv, WorkerStep, NEW s \in Session
  PROVE  Accounted(s, received[s], Replies(s), refused[s], Unserved)'
<1>1. /\ received[s] \in Seq(Message) /\ Replies(s) \in Seq(Message)
      /\ refused[s] \in Seq(Message) /\ msg_que \in Seq(Entry)
      /\ Accounted(s, received[s], Replies(s), refused[s], Unserved)
  BY AccountTypes DEF AccountInv, AllAccounted
<1>2. CASE DealMsg \/ SendStart
  <2>1. CASE Unserved' = Unserved
    BY <1>1, <1>2, <2>1, DealsWithFront
  <2>2. CASE Unserved' # Unserved
    <3>1. /\ Unserved = msg_que /\ Unserved' = Tail(msg_que) /\ msg_que # <<>>
          /\ Request.msg.id \notin Registered
      BY <1>2, <2>2, DealsWithFront
    <3>2. Accounted(s, received[s], Replies(s), refused[s], Tail(msg_que))
      BY <1>1, <3>1, DropAccounted DEF Request
    <3> QED
      BY <1>2, <3>1, <3>2, DealsWithFront
  <2> QED
    BY <2>1, <2>2
<1>3. CASE SendRefuse
  <2>1. /\ msg_que # <<>> /\ Request.msg.id \in Registered
        /\ Unserved = msg_que /\ Unserved' = Tail(msg_que)
        /\ Replies(s)' = Replies(s) /\ received' = received
        /\ refused' = [refused EXCEPT ![Request.session] = Append(@, Request.msg)]
    BY <1>3, RefuseAddsRefusal DEF AccountInv, ServesRegistered, IInv, WorkerServes, SendRefuse
  <2>2. CASE Request.session = s
    <3>1. Accounted(s, received[s], Replies(s), Append(refused[s], Request.msg), Tail(msg_que))
      BY <1>1, <2>1, <2>2, RefusalAccounted DEF Request
    <3>2. refused'[s] = Append(refused[s], Request.msg)
      BY <2>1, <2>2 DEF IInv, TypeOK
    <3> QED
      BY <2>1, <3>1, <3>2
  <2>3. CASE Request.session # s
    <3>1. Accounted(s, received[s], Replies(s), refused[s], Tail(msg_que))
      BY <1>1, <2>1, <2>3, DropAccounted DEF Request
    <3>2. refused'[s] = refused[s]
      BY <2>1, <2>3 DEF IInv, TypeOK
    <3> QED
      BY <2>1, <3>1, <3>2
  <2> QED
    BY <2>2, <2>3
<1>4. CASE SendPush
  <2>1. /\ msg_que # <<>> /\ Request.msg.id \in Registered
        /\ Unserved = msg_que /\ Unserved' = Tail(msg_que)
        /\ Replies(s)' = IF s = Request.session THEN Append(Replies(s), Request.msg)
                         ELSE Replies(s)
        /\ received' = received /\ refused' = refused
    BY <1>4, PushAddsReply DEF AccountInv, ServesRegistered, IInv, WorkerServes, SendPush
  <2>2. CASE Request.session = s
    <3>1. Accounted(s, received[s], Append(Replies(s), Request.msg), refused[s], Tail(msg_que))
      BY <1>1, <2>1, <2>2, ReplyAccounted DEF Request
    <3> QED
      BY <2>1, <2>2, <3>1
  <2>3. CASE Request.session # s
    <3>1. Accounted(s, received[s], Replies(s), refused[s], Tail(msg_que))
      BY <1>1, <2>1, <2>3, DropAccounted DEF Request
    <3> QED
      BY <2>1, <2>3, <3>1
  <2> QED
    BY <2>2, <2>3
<1> QED
  BY <1>2, <1>3, <1>4 DEF WorkerStep

\* Every step, for every session.
LEMMA NextAllAccounted ==
  ASSUME IInv, StreamInv, AccountInv, [Next]_vars
  PROVE  AllAccounted'
<1> SUFFICES ASSUME NEW s \in Session
             PROVE  Accounted(s, received[s], Replies(s), refused[s], Unserved)'
  BY DEF AllAccounted
<1>1. Accounted(s, received[s], Replies(s), refused[s], Unserved)
  BY DEF AccountInv, AllAccounted
<1>2. CASE UNCHANGED <<received, sendVars, logicVars>>
  BY <1>1, <1>2, KeepsAccount
<1>3. CASE \E u \in Session : Post(u)
  BY <1>3, PostKeepsAccount
<1>4. CASE \E u \in Session : WriteDone(u) \/ WriteFail(u) \/ HandleWrite(u)
  <2>1. /\ Replies(s)' = Replies(s) /\ refused'[s] = refused[s]
        /\ UNCHANGED <<received, logicVars>>
    BY <1>4, WritesKeepReplies, WritesKeepQueue
  <2>2. Unserved' = Unserved
    BY <2>1 DEF Unserved, logicVars
  <2> QED
    BY <1>1, <2>1, <2>2
<1>5. CASE WorkerStep
  BY <1>5, WorkerKeepsAccount
<1> QED
  BY <1>2, <1>3, <1>4, <1>5, QueueSteps

\* Nothing changes what the clients do.
LEMMA LoadStays ==
  ASSUME [Next]_vars
  PROVE  load' = load
<1>1. CASE UNCHANGED vars
  BY <1>1 DEF vars, clientVars
<1>2. CASE ClientStep \/ MainStep
  BY <1>2 DEF ClientStep, MainStep, ClientLeave, ClientSend, AcceptStart, AcceptInsert,
    besideVars, clientVars
<1>3. CASE NetworkStep
  BY <1>3 DEF NetworkStep, ReadDone, ReadError, WriteDone, WriteFail, besideVars,
    otherVars, clientVars
<1>4. CASE \E u \in Session : CoroutineStep(u)
  BY <1>4 DEF CoroutineStep, ReadNext, AcceptHead, RejectHead, TakeBody, Post, CatchError,
    CoroutineClear, RunsStale, besideVars, clientVars
<1>5. CASE \E u \in Session : HandleWrite(u)
  BY <1>5 DEF HandleWrite, WritePop, WriteNext, WriteErrorClose, WriteErrorClear,
    otherVars, clientVars
<1>6. CASE WorkerStep
  BY <1>6 DEF WorkerStep, DealMsg, SendRefuse, SendPush, SendStart, otherVars, clientVars
<1> QED
  BY <1>1, <1>2, <1>3, <1>4, <1>5, <1>6 DEF Next, PoolStep

\* A client that waits sends when it has all its replies, and loses none.
LEMMA NextPatience ==
  ASSUME IInv, AccountInv, [Next]_vars
  PROVE  Patience'
<1> SUFFICES ASSUME NEW s \in Session, load'[s].waits
             PROVE  Len(sent'[s]) <= Len(wire'[s]) + 1
  BY DEF Patience
<1>1. load' = load
  BY LoadStays
<1>2. /\ Len(sent[s]) <= Len(wire[s]) + 1
      /\ sent[s] \in Seq(Message) /\ wire[s] \in Seq(Message)
      /\ Len(sent[s]) \in Nat /\ Len(wire[s]) \in Nat
  BY <1>1, AccountTypes, LenProperties DEF AccountInv, Patience
<1>3. wire'[s] \in Seq(Message) /\ Len(wire'[s]) \in Nat /\ Len(wire'[s]) >= Len(wire[s])
  <2>1. RC(s)!Next \/ UNCHANGED RC(s)!vars
    BY StepDelivers
  <2>2. CASE RC(s)!Deliver
    <3>1. Unwritten(s) # <<>> /\ wire'[s] = Append(wire[s], Head(Unwritten(s)))
      BY <2>2 DEF RC!Deliver
    <3>2. Head(Unwritten(s)) \in Message
      BY <3>1, AccountTypes, QueuePop
    <3>3. wire'[s] \in Seq(Message) /\ Len(wire'[s]) = Len(wire[s]) + 1
      BY <1>2, <3>1, <3>2, AppendProperties
    <3> QED
      BY <1>2, <3>3
  <2>3. CASE wire'[s] = wire[s]
    BY <1>2, <2>3
  <2> QED
    BY <2>1, <2>2, <2>3 DEF RC!Next, RC!Accept, RC!Refuse, RC!Break, RC!vars
<1>4. ASSUME NEW id \in Ids, ClientSend(s, id)
      PROVE  Len(sent'[s]) <= Len(wire'[s]) + 1
  <2> DEFINE m == [n |-> Len(sent[s]) + 1, id |-> id]
  <2>1. /\ Len(wire[s]) = Len(sent[s]) /\ wire' = wire
        /\ sent' = [sent EXCEPT ![s] = Append(@, m)]
    BY <1>1, <1>4 DEF ClientSend, Answered, sendVars
  <2>2. sent'[s] = Append(sent[s], m)
    BY <2>1 DEF IInv, TypeOK
  <2>3. Len(Append(sent[s], m)) = Len(sent[s]) + 1
    BY <1>2
  <2> QED
    BY <1>2, <2>1, <2>2, <2>3
<1>5. CASE sent'[s] = sent[s]
  BY <1>2, <1>3, <1>5
<1>6. CASE ~ReadingStep(s)
  BY <1>5, <1>6, OthersStay
<1>7. CASE CoroutineStep(s)
  BY <1>5, <1>7 DEF CoroutineStep, ReadNext, AcceptHead, RejectHead, TakeBody, Post, CatchError,
    CoroutineClear, RunsStale, besideVars, clientVars
<1>8. CASE ClientLeave(s) \/ AcceptStart(s) \/ ReadDone(s) \/ ReadError(s) \/ WriteErrorClose(s)
  BY <1>5, <1>8 DEF ClientLeave, AcceptStart, ReadDone, ReadError, WriteErrorClose,
    besideVars, clientVars
<1> QED
  BY <1>4, <1>6, <1>7, <1>8 DEF ReadingStep

\* Every step keeps the account.
LEMMA NextAccountInv ==
  ASSUME IInv, StreamInv, AccountInv, [Next]_vars
  PROVE  AccountInv'
BY NextServesRegistered, NextNumbering, NextAllAccounted, NextPatience DEF AccountInv

LEMMA AccountsKept == Spec => [](IInv /\ StreamInv /\ AccountInv)
<1>1. Spec => []StreamInv
  BY Inductive, InitStreamInv, NextStreamInv, PTL DEF Spec
<1> QED
  BY <1>1, Inductive, InitAccountInv, NextAccountInv, PTL DEF Spec

-----------------------------------------------------------------------------
\* The account in the words of RequestsAccounted.
LEMMA RequestsInOrder ==
  ASSUME IInv, AccountInv, NEW s \in Session
  PROVE  /\ Waiting(s) \in Seq(Message)
         /\ Selected(received[s], Answerable \ Range(refused[s])) = Replies(s) \o Waiting(s)
<1>1. /\ received[s] \in Seq(Message) /\ Replies(s) \in Seq(Message)
      /\ refused[s] \in Seq(Message) /\ Unserved \in Seq(Entry)
      /\ Accounted(s, received[s], Replies(s), refused[s], Unserved)
  BY AccountTypes DEF AccountInv, AllAccounted
<1>2. /\ WaitingIn(Unserved, s) \in Seq(Message)
      /\ Selected(received[s], Answerable \ Range(refused[s])) = InOrder(Replies(s), Unserved, s)
  BY <1>1, AccountedInOrder
<1>3. Waiting(s) = WaitingIn(Unserved, s)
  BY DEF Waiting, WaitingIn, Own
<1> QED
  BY <1>2, <1>3 DEF InOrder

\* No request of any session is lost, answered twice, answered out of turn or
\* answered to another client: each has its reply, waits or was refused.
THEOREM Accounting == Spec => []RequestsAccounted
<1>1. IInv /\ AccountInv => RequestsAccounted
  BY RequestsInOrder DEF RequestsAccounted, Replies
<1> QED
  BY <1>1, AccountsKept, PTL

\* From end to end a client reads the replies to its own requests in the order
\* in which it sent them.
THEOREM EndToEnd == Spec => []RepliesMatchRequests
<1>1. ASSUME IInv, AccountInv, NEW s \in Session
      PROVE  IsPrefix(wire[s], Selected(sent[s], Answerable \ Range(refused[s])))
  <2> DEFINE S == Answerable \ Range(refused[s])
             w == wire[s]
             u == Unwritten(s)
             v == Waiting(s)
             r == Selected(received[s], S)
             t == Selected(sent[s], S)
  <2>1. /\ w \in Seq(Message) /\ u \in Seq(Message) /\ v \in Seq(Message)
        /\ r \in Seq(Message) /\ t \in Seq(Message)
        /\ r = (w \o u) \o v
    BY <1>1, AccountTypes, RequestsInOrder, SelectedPicks DEF Replies
  <2>2. Len(r) <= Len(t) /\ \A i \in 1..Len(r) : r[i] = t[i]
    <3>1. /\ sent[s] \in Seq(Message) /\ received[s] \in Seq(Message)
          /\ Len(received[s]) <= Len(sent[s])
          /\ \A i \in 1..Len(received[s]) : received[s][i] = sent[s][i]
      BY <1>1, AccountTypes DEF AccountInv, Numbering
    <3> HIDE DEF S
    <3> QED
      BY <3>1, SelectedBeginning
  <2> HIDE DEF S, w, u, v, r, t
  <2>3. u \o v \in Seq(Message) /\ r = w \o (u \o v)
    BY <2>1, ConcatAssociative, ConcatProperties
  <2>4. /\ Len(w) \in Nat /\ Len(r) \in Nat /\ Len(t) \in Nat /\ Len(w) <= Len(r)
        /\ \A i \in 1..Len(w) : r[i] = w[i]
    <3> DEFINE x == u \o v
    <3>1. x \in Seq(Message) /\ r = w \o x
      BY <2>3
    <3> HIDE DEF x
    <3>2. /\ Len(w \o x) = Len(w) + Len(x)
          /\ \A i \in 1..Len(w) + Len(x) :
               (w \o x)[i] = IF i <= Len(w) THEN w[i] ELSE x[i - Len(w)]
      BY <2>1, <3>1, ConcatProperties
    <3>3. Len(w) \in Nat /\ Len(x) \in Nat /\ Len(t) \in Nat
      BY <2>1, <3>1, LenProperties
    <3> QED
      BY <3>1, <3>2, <3>3
  <2>5. Len(w) <= Len(t) /\ \A i \in 1..Len(w) : w[i] = t[i]
    BY <2>2, <2>4
  <2>6. SubSeq(w, 1, Len(w)) = SubSeq(t, 1, Len(w))
    <3>1. \A i \in 1..Len(w) : w[i] \in Message /\ t[i] \in Message
      BY <2>1, <2>5, ElementOfSeq
    <3>2. SubSeq(w, 1, Len(w)) = w
      BY <2>1, SubSeqFull
    <3>3. /\ SubSeq(t, 1, Len(w)) \in Seq(Message)
          /\ Len(SubSeq(t, 1, Len(w))) = Len(w)
          /\ \A i \in 1..Len(w) : SubSeq(t, 1, Len(w))[i] = t[i]
      <4> DEFINE n == Len(w)
      <4>1. n \in Nat /\ \A i \in 1..n : t[i] \in Message
        BY <2>4, <3>1
      <4> HIDE DEF n
      <4>2. /\ SubSeq(t, 1, n) \in Seq(Message)
            /\ Len(SubSeq(t, 1, n)) = IF 1 <= n THEN n - 1 + 1 ELSE 0
            /\ \A i \in 1..n - 1 + 1 : SubSeq(t, 1, n)[i] = t[1 + i - 1]
        BY <4>1, SubSeqProperties
      <4>3. /\ Len(SubSeq(t, 1, n)) = n
            /\ \A i \in 1..n : SubSeq(t, 1, n)[i] = t[i]
        BY <4>1, <4>2
      <4> QED
        BY <4>2, <4>3 DEF n
    <3> QED
      BY <2>1, <2>5, <3>2, <3>3, SeqEqual
  <2>7. IsPrefix(w, t)
    BY <2>5, <2>6 DEF IsPrefix
  <2> QED
    BY <2>7 DEF S, w, t
<1>2. IInv /\ AccountInv => RepliesMatchRequests
  BY <1>1 DEF RepliesMatchRequests
<1> QED
  BY <1>2, AccountsKept, PTL

\* A full queue has more replies than a client that waits may owe.
LEMMA PatientHasRoom ==
  ASSUME IInv, AccountInv, SendRefuse, MAX_SENDQUE > 0, load[Request.session].waits
  PROVE  FALSE
<1> DEFINE s == Request.session
           m == Request.msg
           a == Replies(s)
           w == wire[s]
           u == Unwritten(s)
           rcv == received[s]
<1>1. /\ s \in Session /\ m \in Message /\ msg_que # <<>>
      /\ Request \in Range(msg_que) /\ worker = "send"
      /\ Len(send_que[s]) > MAX_SENDQUE
  <2>1. msg_que # <<>> /\ worker = "send" /\ msg_que \in Seq(Entry)
    BY DEF IInv, TypeOK, Entry, WorkerServes, SendRefuse
  <2>2. Request \in Range(msg_que)
    BY <2>1, RangePop DEF Request
  <2> QED
    BY <2>1, <2>2, FrontRequest DEF IInv, SendRefuse
<1>2. Accounted(s, rcv, a, refused[s], msg_que)
  BY <1>1 DEF AccountInv, AllAccounted, Unserved
<1>3. m \in Range(rcv) /\ \A x \in Range(a) : x.n < m.n
  BY <1>1, <1>2 DEF Accounted, InQueue
<1>4. /\ w \in Seq(Message) /\ u \in Seq(Message) /\ a \in Seq(Message)
      /\ rcv \in Seq(Message) /\ send_que[s] \in Seq(Message) /\ a = w \o u
  BY <1>1, AccountTypes DEF Replies
<1>5. Len(u) \in Nat \ {0}
  <2>1. Len(send_que[s]) \in Nat /\ (Len(send_que[s]) = 0 <=> send_que[s] = <<>>)
    BY <1>4, EmptySeq, LenProperties
  <2>2. send_que[s] # <<>> /\ Len(Tail(send_que[s])) = Len(send_que[s]) - 1
    BY <1>1, <1>4, <2>1, QueuePop, CoroutineAssumption
  <2>3. Len(u) >= MAX_SENDQUE
    BY <1>1, <2>1, <2>2, CoroutineAssumption DEF Unwritten
  <2> QED
    BY <1>4, <2>3, LenProperties, CoroutineAssumption
<1>6. m.n <= Len(w) + 1
  <2>1. PICK i \in 1..Len(rcv) : m = rcv[i]
    BY <1>3, <1>4, LenProperties DEF Range
  <2>2. m.n = i /\ i \in Nat /\ i <= Len(rcv)
    BY <1>2, <1>4, <2>1, LenProperties DEF Accounted
  <2>3. Len(rcv) <= Len(sent[s]) /\ Len(sent[s]) <= Len(w) + 1
    BY <1>1 DEF AccountInv, Numbering, Patience
  <2>4. Len(rcv) \in Nat /\ Len(sent[s]) \in Nat /\ Len(w) \in Nat
    BY <1>1, AccountTypes, LenProperties
  <2> QED
    BY <2>2, <2>3, <2>4
<1> HIDE DEF s, m, a, w, u, rcv
<1>7. Len(a) = Len(w) + Len(u) /\ Len(w) \in Nat
  BY <1>4, ConcatProperties, LenProperties
<1>8. Len(a) \in 1..Len(a) /\ a[Len(a)].n >= Len(a)
  <2>1. \A x \in Message : x.n \in Nat \ {0}
    BY CoroutineAssumption DEF Message
  <2>2. Len(a) \in 1..Len(a)
    BY <1>5, <1>7
  <2> QED
    BY <1>2, <1>4, <2>1, <2>2, AscendingBound DEF Accounted
<1>9. a[Len(a)] \in Range(a) /\ a[Len(a)].n \in Nat /\ m.n \in Nat
  <2>1. a[Len(a)] \in Message
    BY <1>4, <1>8, ElementOfSeq
  <2>2. DOMAIN a = 1..Len(a)
    BY <1>4, LenProperties
  <2> QED
    BY <1>1, <1>8, <2>1, <2>2, CoroutineAssumption DEF Range, Message
<1>10. a[Len(a)].n < m.n
  BY <1>3, <1>9
<1> QED
  BY <1>5, <1>6, <1>7, <1>8, <1>9, <1>10

\* Only Send refuses, and for the session it is called for.
LEMMA RefusalsChange ==
  ASSUME IInv, [Next]_vars, NEW s \in Session, refused'[s] # refused[s]
  PROVE  SendRefuse /\ Request.session = s
<1>1. ~UNCHANGED refused
  OBVIOUS
<1>2. SendRefuse
  <2>1. CASE UNCHANGED <<received, sendVars, logicVars>>
    BY <1>1, <2>1 DEF sendVars
  <2>2. CASE \E u \in Session : Post(u)
    BY <1>1, <2>2 DEF Post, sendVars
  <2>3. CASE \E u \in Session : WriteDone(u) \/ WriteFail(u) \/ HandleWrite(u)
    BY <1>1, <2>3 DEF WriteDone, WriteFail, HandleWrite, WritePop, WriteNext,
      WriteErrorClose, WriteErrorClear
  <2>4. CASE WorkerStep
    BY <1>1, <2>4 DEF WorkerStep, DealMsg, SendPush, SendStart, sendVars
  <2> QED
    BY <2>1, <2>2, <2>3, <2>4, QueueSteps
<1> QED
  BY <1>2 DEF SendRefuse, IInv, TypeOK

\* A client that waits for its replies never has one refused, whatever
\* MAX_SENDQUE above zero, and whatever the other clients do.
THEOREM PatientServed == Spec => []PatientNeverRefused
<1>1. Init => PatientNeverRefused
  BY DEF Init, PatientNeverRefused
<1>2. ASSUME IInv, AccountInv, PatientNeverRefused, [Next]_vars
      PROVE  PatientNeverRefused'
  <2> SUFFICES ASSUME MAX_SENDQUE > 0, NEW s \in Session, load'[s].waits
               PROVE  refused'[s] = <<>>
    BY DEF PatientNeverRefused
  <2>1. load' = load
    BY <1>2, LoadStays
  <2>2. CASE refused'[s] = refused[s]
    BY <1>2, <2>1, <2>2 DEF PatientNeverRefused
  <2>3. CASE refused'[s] # refused[s]
    BY <1>2, <2>1, <2>3, RefusalsChange, PatientHasRoom
  <2> QED
    BY <2>2, <2>3
<1> QED
  BY <1>1, <1>2, AccountsKept, PTL DEF Spec
=============================================================================
