--------------------------- MODULE CSessionProofs ---------------------------
(***************************************************************************)
(* CSession proved for any number of I/O threads, requests and any         *)
(* MAX_SENDQUE, with and without a strand.                                 *)
(*                                                                         *)
(* The argument is that charge of the front of the queue passes from the   *)
(* thread that starts its write, to the write, to the handler that pops    *)
(* it, and on to the next reply: there is one charge while the queue is    *)
(* not empty, none while it is empty, and none any more once a write has   *)
(* failed.                                                                 *)
(***************************************************************************)
EXTENDS CSession, SequenceTheorems, TLAPS

\* Thread t is between taking and releasing _send_lock.
InLock(t) ==
  \/ t = Logic /\ pc[t] \in {"check", "start", "unlock"}
  \/ t \in IoThreads /\ pc[t] \in {"pop", "next", "unlock"}

SendLockHeld == \A t \in Threads : InLock(t) <=> send_lock = t

\* The reply of the request being served has a number of its own.
RequestCount ==
  /\ inbox <= requests
  /\ pc[Logic] = "check" => inbox < requests

\* Only a non-empty queue has a front to be in charge of.
ChargeOfFront == \A t \in Threads : InCharge(t) => send_queue # <<>>

\* A failed write ends the writing: its reply stays at the front of the queue
\* and nobody is in charge of it.
FailureIsFinal ==
  /\ failed => /\ send_queue # <<>>
               /\ \A t \in Threads : ~InCharge(t)
               /\ writes # <<>> => writes[1].result = "error"
  /\ writes # <<>> /\ writes[1].result = "error" => failed

\* A thread running HandleRead has the strand, if there is one.
ReaderHasStrand ==
  Strand => \A t \in IoThreads : pc[t] \in ReadLabels => strand = t

IInv ==
  /\ TypeOK
  /\ SendLockHeld
  /\ RequestCount
  /\ OneWriteAtATime
  /\ ChargeOfFront
  /\ FailureIsFinal
  /\ NoStrandedReply
  /\ ReaderHasStrand

-----------------------------------------------------------------------------
LEMMA DistinctThreads ==
  /\ IoThreads \subseteq Threads
  /\ Logic \in Threads /\ Logic \notin IoThreads
  /\ Nobody \notin Threads
  /\ Threads = IoThreads \cup {Logic}
BY SessionThreads DEF Threads

LEMMA QueuePush ==
  ASSUME NEW S, NEW q \in Seq(S), NEW m \in S
  PROVE  /\ Append(q, m) \in Seq(S)
         /\ Append(q, m) # <<>>
         /\ Len(q) \in Nat
         /\ Len(Append(q, m)) = Len(q) + 1
         /\ q # <<>> => /\ Head(Append(q, m)) = Head(q)
                        /\ Tail(Append(q, m)) = Append(Tail(q), m)
         /\ q = <<>> => /\ Len(Append(q, m)) = 1
                        /\ Append(q, m)[1] = m
                        /\ Head(Append(q, m)) = m
<1>1. /\ Append(q, m) \in Seq(S)
      /\ Append(q, m) # <<>>
      /\ Len(q) \in Nat
      /\ Len(Append(q, m)) = Len(q) + 1
      /\ q # <<>> => /\ Head(Append(q, m)) = Head(q)
                     /\ Tail(Append(q, m)) = Append(Tail(q), m)
      /\ q = <<>> => Head(Append(q, m)) = m
  BY AppendProperties, HeadTailAppend, LenProperties
<1>2. ASSUME q = <<>>
      PROVE  Len(Append(q, m)) = 1 /\ Append(q, m)[1] = m
  BY <1>2, AppendProperties, EmptySeq
<1> QED
  BY <1>1, <1>2

LEMMA QueuePop ==
  ASSUME NEW S, NEW q \in Seq(S), q # <<>>
  PROVE  /\ Tail(q) \in Seq(S)
         /\ Head(q) \in S
         /\ Len(q) \in Nat \ {0}
         /\ Len(Tail(q)) = Len(q) - 1
BY HeadTailProperties, LenProperties

\* Taking away the only element.
LEMMA RemoveOnly ==
  ASSUME NEW S, NEW q \in Seq(S), Len(q) <= 1, NEW i \in DOMAIN q
  PROVE  /\ i = 1
         /\ q # <<>>
         /\ Len(q) = 1
         /\ q[1] \in S
         /\ RemoveAt(q, i) = <<>>
<1>1. DOMAIN q = 1..Len(q) /\ Len(q) \in Nat
  BY LenProperties
<1>2. i = 1 /\ Len(q) = 1
  BY <1>1
<1>3. q # <<>> /\ q[1] \in S
  BY <1>2, EmptySeq, ElementOfSeq
<1>4. SubSeq(q, 1, 0) = <<>> /\ SubSeq(q, 2, 1) = <<>>
  BY SubSeqEmpty
<1>5. RemoveAt(q, i) = <<>> \o <<>>
  BY <1>2, <1>4 DEF RemoveAt
<1>6. <<>> \o <<>> = <<>>
  BY ConcatEmptySeq, EmptySeq
<1> QED
  BY <1>2, <1>3, <1>5, <1>6

LEMMA AtMostOne ==
  ASSUME NEW S, NEW q \in Seq(S), Len(q) <= 1
  PROVE  \/ q = <<>> /\ DOMAIN q = {}
         \/ /\ q # <<>> /\ Len(q) = 1 /\ q[1] \in S
            /\ DOMAIN q = 1..1 /\ DOMAIN q = {1}
<1>1. Len(q) \in Nat /\ DOMAIN q = 1..Len(q)
  BY LenProperties
<1>2. CASE q = <<>>
  BY <1>2
<1>3. CASE q # <<>>
  <2>1. Len(q) = 1
    BY <1>1, <1>3, EmptySeq
  <2>2. q[1] \in S
    BY <2>1, ElementOfSeq
  <2> QED
    BY <1>1, <1>3, <2>1, <2>2
<1> QED
  BY <1>2, <1>3

LEMMA InitIInv == Init => IInv
<1> SUFFICES ASSUME Init PROVE IInv
  OBVIOUS
<1> USE DistinctThreads, SessionLimits DEF Init
<1>1. /\ send_queue \in Seq(Reply) /\ wire \in Seq(Reply) /\ refused \in Seq(Reply)
      /\ writes \in Seq(Write)
  BY EmptySeq
<1>2. /\ pc \in [Threads -> IoLabels \cup LogicLabels]
      /\ \A t \in IoThreads : pc[t] \in IoLabels
      /\ pc[Logic] \in LogicLabels
  BY DEF IoLabels, LogicLabels
<1>3. TypeOK
  <2>1. requests \in 0..MaxRequests /\ inbox \in 0..MaxRequests
    OBVIOUS
  <2>2. reading \in Results \cup {"none"}
    BY DEF Results
  <2> QED
    BY <1>1, <1>2, <2>1, <2>2 DEF TypeOK
<1>4. SendLockHeld
  BY DEF SendLockHeld, InLock
<1>5. \A t \in Threads : ~InCharge(t)
  BY DEF InCharge
<1>6. RequestCount /\ ReaderHasStrand
  BY DEF RequestCount, ReaderHasStrand, ReadLabels
<1>7. OneWriteAtATime /\ ChargeOfFront /\ FailureIsFinal /\ NoStrandedReply
  BY <1>5, EmptySeq DEF OneWriteAtATime, ChargeOfFront, FailureIsFinal, NoStrandedReply
<1> QED
  BY <1>3, <1>4, <1>6, <1>7 DEF IInv

\* A step that neither moves the queue or the writes nor passes on the charge
\* keeps every fact about them.
LEMMA ChargeKept ==
  ASSUME IInv,
         UNCHANGED <<send_queue, writes, failed>>,
         \A u \in Threads : InCharge(u)' <=> InCharge(u)
  PROVE  OneWriteAtATime' /\ ChargeOfFront' /\ FailureIsFinal' /\ NoStrandedReply'
BY DEF IInv, OneWriteAtATime, ChargeOfFront, FailureIsFinal, NoStrandedReply

LEMMA NextIInv == IInv /\ [Next]_vars => IInv'
<1> SUFFICES ASSUME IInv, [Next]_vars PROVE IInv'
  OBVIOUS
<1> USE DistinctThreads, SessionLimits
    DEF IInv, Goto, queueVars, requestVars, socketVars
<1>1. ASSUME NEW r \in {"ok", "error"}, ReadDone(r) PROVE IInv'
  <2> USE <1>1 DEF ReadDone
  <2>1. TypeOK'
    BY DEF TypeOK, IoLabels, LogicLabels, ReadLabels, WriteLabels, Results
  <2>2. SendLockHeld' /\ RequestCount' /\ ReaderHasStrand'
    BY DEF TypeOK, SendLockHeld, InLock, RequestCount, ReaderHasStrand, ReadLabels, WriteLabels
  <2>3. \A u \in Threads : InCharge(u)' <=> InCharge(u)
    BY DEF TypeOK, InCharge
  <2> QED
    BY <2>1, <2>2, <2>3, ChargeKept
<1>2. ASSUME NEW i \in DOMAIN writes, NEW r \in {"ok", "error"}, WriteDone(i, r) PROVE IInv'
  <2> USE <1>2 DEF WriteDone
  <2>q. i = 1 /\ Len(writes) = 1 /\ writes[1] \in Write
    BY RemoveOnly DEF TypeOK, OneWriteAtATime
  <2>w. /\ writes' \in Seq(Write)
        /\ Len(writes') = 1
        /\ writes'[1] = [writes[1] EXCEPT !.result = r]
    <3>1. [writes[1] EXCEPT !.result = r] \in Write
      BY <2>q DEF Write, Results
    <3>2. i \in 1..Len(writes)
      BY <2>q
    <3>3. writes' = [writes EXCEPT ![i] = [writes[1] EXCEPT !.result = r]]
      BY <2>q
    <3> DEFINE e == [writes[1] EXCEPT !.result = r]
    <3>4. /\ [writes EXCEPT ![i] = e] \in Seq(Write)
          /\ Len([writes EXCEPT ![i] = e]) = Len(writes)
          /\ [writes EXCEPT ![i] = e][i] = e
      <4> HIDE DEF e
      <4> QED
        BY <3>1, <3>2, ExceptSeq DEF TypeOK, e
    <3> QED
      BY <2>q, <3>3, <3>4
  <2>1. TypeOK'
    <3>1. wire' \in Seq(Reply)
      BY <2>q, QueuePush DEF TypeOK, Write
    <3> QED
      BY <2>w, <3>1 DEF TypeOK
  <2>2. SendLockHeld' /\ RequestCount' /\ ReaderHasStrand'
    BY DEF TypeOK, SendLockHeld, InLock, RequestCount, ReaderHasStrand, ReadLabels, WriteLabels
  <2>m. /\ writes'[1].msg = writes[1].msg
        /\ writes'[1].result = r
        /\ writes # <<>> /\ writes' # <<>>
    BY <2>q, <2>w, EmptySeq DEF Write
  <2>3. OneWriteAtATime'
    BY <2>q, <2>w, <2>m DEF TypeOK, SendLockHeld, InLock, OneWriteAtATime, InCharge, ChargeOfFront, FailureIsFinal, NoStrandedReply
  <2>4. ChargeOfFront'
    BY <2>q, <2>w, <2>m DEF TypeOK, SendLockHeld, InLock, OneWriteAtATime, InCharge, ChargeOfFront, FailureIsFinal, NoStrandedReply
  <2>5. FailureIsFinal'
    BY <2>q, <2>w, <2>m DEF TypeOK, SendLockHeld, InLock, OneWriteAtATime, InCharge, ChargeOfFront, FailureIsFinal, NoStrandedReply
  <2>6. NoStrandedReply'
    BY <2>q, <2>w, <2>m DEF TypeOK, SendLockHeld, InLock, OneWriteAtATime, InCharge, ChargeOfFront, FailureIsFinal, NoStrandedReply
  <2> QED
    BY <2>1, <2>2, <2>3, <2>4, <2>5, <2>6
<1>3. ASSUME NEW t \in IoThreads, RunRead(t) PROVE IInv'
  <2> USE <1>3 DEF RunRead, EnterStrand
  <2>1. TypeOK'
    BY DEF TypeOK, IoLabels, LogicLabels, ReadLabels, WriteLabels, Results
  <2>2. SendLockHeld' /\ RequestCount' /\ ReaderHasStrand'
    BY DEF TypeOK, SendLockHeld, InLock, RequestCount, ReaderHasStrand, ReadLabels, WriteLabels
  <2>3. \A u \in Threads : InCharge(u)' <=> InCharge(u)
    BY DEF TypeOK, InCharge
  <2> QED
    BY <2>1, <2>2, <2>3, ChargeKept
<1>4. ASSUME NEW t \in IoThreads, NEW i \in DOMAIN writes, RunWrite(t, i) PROVE IInv'
  <2> USE <1>4 DEF RunWrite, EnterStrand
  <2>q. i = 1 /\ writes # <<>> /\ writes' = <<>>
    BY RemoveOnly DEF TypeOK, OneWriteAtATime
  <2>e. writes' \in Seq(Write)
    BY <2>q, EmptySeq
  <2>1. TypeOK'
    BY <2>e DEF TypeOK, IoLabels, WriteLabels
  <2>2. SendLockHeld' /\ RequestCount' /\ ReaderHasStrand'
    BY DEF TypeOK, SendLockHeld, InLock, RequestCount, ReaderHasStrand, ReadLabels, WriteLabels
  <2>3. OneWriteAtATime'
    BY <2>q, EmptySeq DEF TypeOK, SendLockHeld, InLock, OneWriteAtATime, InCharge, ChargeOfFront, FailureIsFinal, NoStrandedReply
  <2>4. ChargeOfFront'
    BY <2>q, EmptySeq DEF TypeOK, SendLockHeld, InLock, OneWriteAtATime, InCharge, ChargeOfFront, FailureIsFinal, NoStrandedReply
  <2>5. FailureIsFinal'
    BY <2>q, EmptySeq DEF TypeOK, SendLockHeld, InLock, OneWriteAtATime, InCharge, ChargeOfFront, FailureIsFinal, NoStrandedReply
  <2>6. NoStrandedReply'
    BY <2>q, EmptySeq DEF TypeOK, SendLockHeld, InLock, OneWriteAtATime, InCharge, ChargeOfFront, FailureIsFinal, NoStrandedReply
  <2> QED
    BY <2>1, <2>2, <2>3, <2>4, <2>5, <2>6
<1>5. ASSUME NEW t \in IoThreads, Leave(t) PROVE IInv'
  <2> USE <1>5 DEF Leave
  <2>1. TypeOK'
    BY DEF TypeOK, IoLabels, LogicLabels, ReadLabels, WriteLabels, Results
  <2>2. SendLockHeld' /\ RequestCount' /\ ReaderHasStrand'
    BY DEF TypeOK, SendLockHeld, InLock, RequestCount, ReaderHasStrand, ReadLabels, WriteLabels
  <2>3. \A u \in Threads : InCharge(u)' <=> InCharge(u)
    BY DEF TypeOK, InCharge
  <2> QED
    BY <2>1, <2>2, <2>3, ChargeKept
<1>6. ASSUME NEW t \in IoThreads, ReadMessage(t) PROVE IInv'
  <2> USE <1>6 DEF ReadMessage
  <2>1. TypeOK'
    <3>1. pc' \in [Threads -> IoLabels \cup LogicLabels] /\ \A u \in IoThreads : pc'[u] \in IoLabels
      BY DEF TypeOK, IoLabels, ReadLabels
    <3>2. inbox' \in 0..MaxRequests /\ requests' \in 0..MaxRequests
      BY DEF TypeOK, RequestCount
    <3> QED
      BY <3>1, <3>2 DEF TypeOK
  <2>2. SendLockHeld' /\ RequestCount' /\ ReaderHasStrand'
    BY DEF TypeOK, SendLockHeld, InLock, RequestCount, ReaderHasStrand, ReadLabels, WriteLabels
  <2>3. \A u \in Threads : InCharge(u)' <=> InCharge(u)
    BY DEF TypeOK, InCharge
  <2> QED
    BY <2>1, <2>2, <2>3, ChargeKept
<1>7. ASSUME NEW t \in IoThreads, ReadPart(t) PROVE IInv'
  <2> USE <1>7 DEF ReadPart
  <2>1. TypeOK'
    BY DEF TypeOK, IoLabels, LogicLabels, ReadLabels, WriteLabels, Results
  <2>2. SendLockHeld' /\ RequestCount' /\ ReaderHasStrand'
    BY DEF TypeOK, SendLockHeld, InLock, RequestCount, ReaderHasStrand, ReadLabels, WriteLabels
  <2>3. \A u \in Threads : InCharge(u)' <=> InCharge(u)
    BY DEF TypeOK, InCharge
  <2> QED
    BY <2>1, <2>2, <2>3, ChargeKept
<1>8. ASSUME NEW t \in IoThreads, ReadInvalid(t) PROVE IInv'
  <2> USE <1>8 DEF ReadInvalid
  <2>1. TypeOK'
    BY DEF TypeOK, IoLabels, LogicLabels, ReadLabels, WriteLabels, Results
  <2>2. SendLockHeld' /\ RequestCount' /\ ReaderHasStrand'
    BY DEF TypeOK, SendLockHeld, InLock, RequestCount, ReaderHasStrand, ReadLabels, WriteLabels
  <2>3. \A u \in Threads : InCharge(u)' <=> InCharge(u)
    BY DEF TypeOK, InCharge
  <2> QED
    BY <2>1, <2>2, <2>3, ChargeKept
<1>9. ASSUME NEW t \in IoThreads, ReadAgain(t) PROVE IInv'
  <2> USE <1>9 DEF ReadAgain, StartRead
  <2>1. TypeOK'
    BY DEF TypeOK, IoLabels, LogicLabels, ReadLabels, WriteLabels, Results
  <2>2. SendLockHeld' /\ RequestCount' /\ ReaderHasStrand'
    BY DEF TypeOK, SendLockHeld, InLock, RequestCount, ReaderHasStrand, ReadLabels, WriteLabels
  <2>3. \A u \in Threads : InCharge(u)' <=> InCharge(u)
    BY DEF TypeOK, InCharge
  <2> QED
    BY <2>1, <2>2, <2>3, ChargeKept
<1>10. ASSUME NEW t \in IoThreads, WriteLock(t) PROVE IInv'
  <2> USE <1>10 DEF WriteLock, Lock
  <2>1. TypeOK'
    BY DEF TypeOK, IoLabels, LogicLabels, ReadLabels, WriteLabels, Results
  <2>2. SendLockHeld' /\ RequestCount' /\ ReaderHasStrand'
    BY DEF TypeOK, SendLockHeld, InLock, RequestCount, ReaderHasStrand, ReadLabels, WriteLabels
  <2>3. \A u \in Threads : InCharge(u)' <=> InCharge(u)
    BY DEF TypeOK, InCharge
  <2> QED
    BY <2>1, <2>2, <2>3, ChargeKept
<1>11. ASSUME NEW t \in IoThreads, WritePop(t) PROVE IInv'
  <2> USE <1>11 DEF WritePop
  <2>q. send_queue # <<>>
    BY DEF ChargeOfFront, InCharge
  <2>1. TypeOK'
    <3>1. send_queue' \in Seq(Reply)
      BY <2>q, QueuePop DEF TypeOK
    <3> QED
      BY <3>1 DEF TypeOK, IoLabels, WriteLabels
  <2>2. SendLockHeld' /\ RequestCount' /\ ReaderHasStrand'
    BY DEF TypeOK, SendLockHeld, InLock, RequestCount, ReaderHasStrand, ReadLabels, WriteLabels
  <2>3. OneWriteAtATime'
    BY <2>q DEF TypeOK, SendLockHeld, InLock, OneWriteAtATime, InCharge, ChargeOfFront, FailureIsFinal, NoStrandedReply
  <2>4. ChargeOfFront'
    BY <2>q DEF TypeOK, SendLockHeld, InLock, OneWriteAtATime, InCharge, ChargeOfFront, FailureIsFinal, NoStrandedReply
  <2>5. FailureIsFinal'
    BY <2>q DEF TypeOK, SendLockHeld, InLock, OneWriteAtATime, InCharge, ChargeOfFront, FailureIsFinal, NoStrandedReply
  <2>6. NoStrandedReply'
    BY <2>q DEF TypeOK, SendLockHeld, InLock, OneWriteAtATime, InCharge, ChargeOfFront, FailureIsFinal, NoStrandedReply
  <2> QED
    BY <2>1, <2>2, <2>3, <2>4, <2>5, <2>6
<1>12. ASSUME NEW t \in IoThreads, WriteNext(t) PROVE IInv'
  <2> USE <1>12 DEF WriteNext, StartWrite
  <2> DEFINE w == [msg    |-> Head(send_queue),
                   bound  |-> FALSE,
                   result |-> IF open THEN "pending" ELSE "error"]
  <2>q. send_queue # <<>> /\ writes = <<>>
    BY DEF ChargeOfFront, OneWriteAtATime, InCharge
  <2>w. w \in Write
    BY <2>q, QueuePop DEF TypeOK, Write, Results
  <2>u. /\ writes' \in Seq(Write)
        /\ Len(writes') = 1
        /\ writes' # <<>>
        /\ writes'[1] = w
    BY <2>q, <2>w, QueuePush DEF TypeOK
  <2>1. TypeOK'
    BY <2>u DEF TypeOK, IoLabels, WriteLabels, LogicLabels
  <2>2. SendLockHeld' /\ RequestCount' /\ ReaderHasStrand'
    BY DEF TypeOK, SendLockHeld, InLock, RequestCount, ReaderHasStrand, ReadLabels, WriteLabels
  <2>c. ~failed /\ \A u \in Threads : InCharge(u) => u = t
    BY DEF InCharge, FailureIsFinal, OneWriteAtATime
  <2>v. /\ writes'[1].result = IF open THEN "pending" ELSE "error"
        /\ writes'[1].msg = Head(send_queue)
    BY <2>u
  <2>f. failed' <=> ~open
    BY <2>c
  <2>n. \A u \in Threads : ~InCharge(u)'
    BY <2>c DEF InCharge, TypeOK
  <2>3. OneWriteAtATime'
    BY <2>q, <2>u, <2>v, <2>f, <2>c, <2>n DEF TypeOK, SendLockHeld, InLock, OneWriteAtATime, InCharge, ChargeOfFront, FailureIsFinal, NoStrandedReply
  <2>4. ChargeOfFront'
    BY <2>q, <2>u, <2>v, <2>f, <2>c, <2>n DEF TypeOK, SendLockHeld, InLock, OneWriteAtATime, InCharge, ChargeOfFront, FailureIsFinal, NoStrandedReply
  <2>5. FailureIsFinal'
    BY <2>q, <2>u, <2>v, <2>f, <2>c, <2>n DEF TypeOK, SendLockHeld, InLock, OneWriteAtATime, InCharge, ChargeOfFront, FailureIsFinal, NoStrandedReply
  <2>6. NoStrandedReply'
    BY <2>q, <2>u, <2>v, <2>f, <2>c, <2>n DEF TypeOK, SendLockHeld, InLock, OneWriteAtATime, InCharge, ChargeOfFront, FailureIsFinal, NoStrandedReply
  <2> QED
    BY <2>1, <2>2, <2>3, <2>4, <2>5, <2>6
<1>13. ASSUME NEW t \in IoThreads, WriteUnlock(t) PROVE IInv'
  <2> USE <1>13 DEF WriteUnlock, Unlock
  <2>1. TypeOK'
    BY DEF TypeOK, IoLabels, LogicLabels, ReadLabels, WriteLabels, Results
  <2>2. SendLockHeld' /\ RequestCount' /\ ReaderHasStrand'
    BY DEF TypeOK, SendLockHeld, InLock, RequestCount, ReaderHasStrand, ReadLabels, WriteLabels
  <2>3. \A u \in Threads : InCharge(u)' <=> InCharge(u)
    BY DEF TypeOK, InCharge
  <2> QED
    BY <2>1, <2>2, <2>3, ChargeKept
<1>14. ASSUME NEW t \in IoThreads, ErrorClose(t) PROVE IInv'
  <2> USE <1>14 DEF ErrorClose, Close
  <2>d. \/ writes = <<>> /\ DOMAIN writes = {}
        \/ /\ writes # <<>> /\ Len(writes) = 1 /\ writes[1] \in Write
           /\ DOMAIN writes = 1..1 /\ DOMAIN writes = {1}
    BY AtMostOne DEF TypeOK, OneWriteAtATime
  <2>w. /\ writes' \in Seq(Write)
        /\ Len(writes') = Len(writes)
        /\ writes # <<>> => /\ writes' # <<>>
                            /\ writes'[1].msg = writes[1].msg
                            /\ writes'[1].result =
                                 IF writes[1].result = "pending"
                                   THEN "error" ELSE writes[1].result
        /\ writes = <<>> => writes' = <<>>
    <3>1. CASE writes = <<>>
      BY <3>1, EmptySeq
    <3>2. CASE writes # <<>>
      <4>1. Len(writes) = 1 /\ DOMAIN writes = 1..1 /\ writes[1] \in Write
        BY <2>d, <3>2 DEF TypeOK
      <4>2. writes' = [j \in 1..1 |-> [writes[j] EXCEPT !.result =
                                         IF @ = "pending" THEN "error" ELSE @]]
        BY <4>1
      <4>3. writes'[1] = [writes[1] EXCEPT !.result =
                            IF @ = "pending" THEN "error" ELSE @]
        BY <4>2
      <4>4. writes'[1] \in Write
        BY <4>1, <4>3 DEF Write, Results
      <4>5. writes' \in Seq(Write) /\ Len(writes') = 1
        BY <4>2, <4>3, <4>4
      <4> QED
        BY <3>2, <4>1, <4>3, <4>5, EmptySeq DEF Write
    <3> QED
      BY <3>1, <3>2
  <2>f. failed' = (failed \/ (writes # <<>> /\ writes[1].result = "pending"))
    BY <2>d
  <2>1. TypeOK'
    BY <2>w, <2>f DEF TypeOK, IoLabels, Results
  <2>2. SendLockHeld' /\ RequestCount' /\ ReaderHasStrand'
    BY DEF TypeOK, SendLockHeld, InLock, RequestCount, ReaderHasStrand, ReadLabels, WriteLabels
  <2>3. OneWriteAtATime'
    BY <2>w, <2>f DEF TypeOK, SendLockHeld, InLock, OneWriteAtATime, InCharge, ChargeOfFront, FailureIsFinal, NoStrandedReply
  <2>4. ChargeOfFront'
    BY <2>w, <2>f DEF TypeOK, SendLockHeld, InLock, OneWriteAtATime, InCharge, ChargeOfFront, FailureIsFinal, NoStrandedReply
  <2>5. FailureIsFinal'
    BY <2>w, <2>f DEF TypeOK, SendLockHeld, InLock, OneWriteAtATime, InCharge, ChargeOfFront, FailureIsFinal, NoStrandedReply
  <2>6. NoStrandedReply'
    BY <2>w, <2>f DEF TypeOK, SendLockHeld, InLock, OneWriteAtATime, InCharge, ChargeOfFront, FailureIsFinal, NoStrandedReply
  <2> QED
    BY <2>1, <2>2, <2>3, <2>4, <2>5, <2>6
<1>15. ASSUME NEW t \in IoThreads, ErrorClear(t) PROVE IInv'
  <2> USE <1>15 DEF ErrorClear
  <2>1. TypeOK'
    BY DEF TypeOK, IoLabels, LogicLabels, ReadLabels, WriteLabels, Results
  <2>2. SendLockHeld' /\ RequestCount' /\ ReaderHasStrand'
    BY DEF TypeOK, SendLockHeld, InLock, RequestCount, ReaderHasStrand, ReadLabels, WriteLabels
  <2>3. \A u \in Threads : InCharge(u)' <=> InCharge(u)
    BY DEF TypeOK, InCharge
  <2> QED
    BY <2>1, <2>2, <2>3, ChargeKept
<1>16. CASE SendLock
  <2> USE <1>16 DEF SendLock, Lock
  <2>1. TypeOK'
    BY DEF TypeOK, IoLabels, LogicLabels, ReadLabels, WriteLabels, Results
  <2>2. SendLockHeld' /\ RequestCount' /\ ReaderHasStrand'
    BY DEF TypeOK, SendLockHeld, InLock, RequestCount, ReaderHasStrand, ReadLabels, WriteLabels
  <2>3. \A u \in Threads : InCharge(u)' <=> InCharge(u)
    BY DEF TypeOK, InCharge
  <2> QED
    BY <2>1, <2>2, <2>3, ChargeKept
<1>17. CASE SendRefuse
  <2> USE <1>17 DEF SendRefuse
  <2>1. TypeOK'
    <3>1. ThisReply \in Reply
      BY DEF ThisReply, Reply, TypeOK, RequestCount
    <3>2. refused' \in Seq(Reply)
      BY <3>1, QueuePush DEF TypeOK
    <3> QED
      BY <3>2 DEF TypeOK, LogicLabels
  <2>2. SendLockHeld' /\ RequestCount' /\ ReaderHasStrand'
    BY DEF TypeOK, SendLockHeld, InLock, RequestCount, ReaderHasStrand, ReadLabels, WriteLabels
  <2>3. \A u \in Threads : InCharge(u)' <=> InCharge(u)
    BY DEF TypeOK, InCharge
  <2> QED
    BY <2>1, <2>2, <2>3, ChargeKept
<1>18. CASE SendPush
  <2> USE <1>18 DEF SendPush, ThisReply
  <2>q. ThisReply \in Reply
    BY DEF Reply, TypeOK, RequestCount
  <2>u. /\ send_queue' \in Seq(Reply)
        /\ send_queue' # <<>>
        /\ send_queue # <<>> => Head(send_queue') = Head(send_queue)
    BY <2>q, QueuePush DEF TypeOK
  <2>1. TypeOK'
    BY <2>u DEF TypeOK, LogicLabels
  <2>2. SendLockHeld' /\ RequestCount' /\ ReaderHasStrand'
    BY DEF TypeOK, SendLockHeld, InLock, RequestCount, ReaderHasStrand, ReadLabels, WriteLabels
  <2>3. OneWriteAtATime'
    BY <2>u DEF TypeOK, SendLockHeld, InLock, OneWriteAtATime, InCharge, ChargeOfFront, FailureIsFinal, NoStrandedReply
  <2>4. ChargeOfFront'
    BY <2>u DEF TypeOK, SendLockHeld, InLock, OneWriteAtATime, InCharge, ChargeOfFront, FailureIsFinal, NoStrandedReply
  <2>5. FailureIsFinal'
    BY <2>u DEF TypeOK, SendLockHeld, InLock, OneWriteAtATime, InCharge, ChargeOfFront, FailureIsFinal, NoStrandedReply
  <2>6. NoStrandedReply'
    BY <2>u DEF TypeOK, SendLockHeld, InLock, OneWriteAtATime, InCharge, ChargeOfFront, FailureIsFinal, NoStrandedReply
  <2> QED
    BY <2>1, <2>2, <2>3, <2>4, <2>5, <2>6
<1>19. CASE SendStart
  <2> USE <1>19 DEF SendStart, StartWrite
  <2> DEFINE w == [msg    |-> Head(send_queue),
                   bound  |-> TRUE,
                   result |-> IF open THEN "pending" ELSE "error"]
  <2>q. send_queue # <<>> /\ writes = <<>>
    BY DEF ChargeOfFront, OneWriteAtATime, InCharge
  <2>w. w \in Write
    BY <2>q, QueuePop DEF TypeOK, Write, Results
  <2>u. /\ writes' \in Seq(Write)
        /\ Len(writes') = 1
        /\ writes' # <<>>
        /\ writes'[1] = w
    BY <2>q, <2>w, QueuePush DEF TypeOK
  <2>1. TypeOK'
    BY <2>u DEF TypeOK, IoLabels, WriteLabels, LogicLabels
  <2>2. SendLockHeld' /\ RequestCount' /\ ReaderHasStrand'
    BY DEF TypeOK, SendLockHeld, InLock, RequestCount, ReaderHasStrand, ReadLabels, WriteLabels
  <2>c. ~failed /\ \A u \in Threads : InCharge(u) => u = Logic
    BY DEF InCharge, FailureIsFinal, OneWriteAtATime
  <2>v. /\ writes'[1].result = IF open THEN "pending" ELSE "error"
        /\ writes'[1].msg = Head(send_queue)
    BY <2>u
  <2>f. failed' <=> ~open
    BY <2>c
  <2>n. \A u \in Threads : ~InCharge(u)'
    BY <2>c DEF InCharge, TypeOK
  <2>3. OneWriteAtATime'
    BY <2>q, <2>u, <2>v, <2>f, <2>c, <2>n DEF TypeOK, SendLockHeld, InLock, OneWriteAtATime, InCharge, ChargeOfFront, FailureIsFinal, NoStrandedReply
  <2>4. ChargeOfFront'
    BY <2>q, <2>u, <2>v, <2>f, <2>c, <2>n DEF TypeOK, SendLockHeld, InLock, OneWriteAtATime, InCharge, ChargeOfFront, FailureIsFinal, NoStrandedReply
  <2>5. FailureIsFinal'
    BY <2>q, <2>u, <2>v, <2>f, <2>c, <2>n DEF TypeOK, SendLockHeld, InLock, OneWriteAtATime, InCharge, ChargeOfFront, FailureIsFinal, NoStrandedReply
  <2>6. NoStrandedReply'
    BY <2>q, <2>u, <2>v, <2>f, <2>c, <2>n DEF TypeOK, SendLockHeld, InLock, OneWriteAtATime, InCharge, ChargeOfFront, FailureIsFinal, NoStrandedReply
  <2> QED
    BY <2>1, <2>2, <2>3, <2>4, <2>5, <2>6
<1>20. CASE SendUnlock
  <2> USE <1>20 DEF SendUnlock, Unlock
  <2>1. TypeOK'
    BY DEF TypeOK, IoLabels, LogicLabels, ReadLabels, WriteLabels, Results
  <2>2. SendLockHeld' /\ RequestCount' /\ ReaderHasStrand'
    BY DEF TypeOK, SendLockHeld, InLock, RequestCount, ReaderHasStrand, ReadLabels, WriteLabels
  <2>3. \A u \in Threads : InCharge(u)' <=> InCharge(u)
    BY DEF TypeOK, InCharge
  <2> QED
    BY <2>1, <2>2, <2>3, ChargeKept
<1>21. CASE Destruct
  <2> USE <1>21 DEF Destruct
  <2>1. TypeOK'
    BY DEF TypeOK, IoLabels, LogicLabels, ReadLabels, WriteLabels, Results
  <2>2. SendLockHeld' /\ RequestCount' /\ ReaderHasStrand'
    BY DEF TypeOK, SendLockHeld, InLock, RequestCount, ReaderHasStrand, ReadLabels, WriteLabels
  <2>3. \A u \in Threads : InCharge(u)' <=> InCharge(u)
    BY DEF TypeOK, InCharge
  <2> QED
    BY <2>1, <2>2, <2>3, ChargeKept
<1>22. CASE UNCHANGED vars
  BY <1>22
  DEF vars, TypeOK, SendLockHeld, InLock, RequestCount, OneWriteAtATime, InCharge,
      ChargeOfFront, FailureIsFinal, NoStrandedReply, ReaderHasStrand
<1> QED
  BY <1>1, <1>2, <1>3, <1>4, <1>5, <1>6, <1>7, <1>8, <1>9, <1>10, <1>11, <1>12, <1>13, <1>14, <1>15, <1>16, <1>17, <1>18, <1>19, <1>20, <1>21, <1>22
  DEF Next, Network, RunAnyRead, RunAnyWrite, HandlerStep, LogicStep

-----------------------------------------------------------------------------
THEOREM Inductive == Spec => []IInv
BY InitIInv, NextIInv, PTL DEF Spec

\* Every variable keeps its type; HandleWrite never pops an empty queue.
THEOREM TypeCorrect == Spec => []TypeOK
<1>1. IInv => TypeOK
  BY DEF IInv
<1> QED
  BY <1>1, Inductive, PTL

\* Send on the logic thread and HandleWrite on the I/O threads never have two
\* writes under way, and never free the buffer of the one that is.
THEOREM OneWrite == Spec => []OneWriteAtATime
<1>1. IInv => OneWriteAtATime
  BY DEF IInv
<1> QED
  BY <1>1, Inductive, PTL

\* A waiting reply is always somebody's business, until a write fails.
THEOREM NoReplyForgotten == Spec => []NoStrandedReply
<1>1. IInv => NoStrandedReply
  BY DEF IInv
<1> QED
  BY <1>1, Inductive, PTL

\* The strand, or the only thread, keeps HandleRead to one thread at a time,
\* the code it runs after starting the next read included.
THEOREM OneRead == Spec => []OneReadAtATime
<1>1. IInv => OneReadAtATime
  <2> SUFFICES ASSUME IInv, NEW t \in IoThreads, NEW u \in IoThreads,
                      pc[t] \in ReadLabels, pc[u] \in ReadLabels
               PROVE  t = u
    BY DEF OneReadAtATime
  <2>1. CASE Strand
    BY <2>1 DEF IInv, ReaderHasStrand
  <2>2. CASE ~Strand
    BY <2>2, SessionThreads
  <2> QED
    BY <2>1, <2>2
<1> QED
  BY <1>1, Inductive, PTL

-----------------------------------------------------------------------------
(***************************************************************************)
(* The refinement: pushing a reply is an Accept, refusing it a Refuse, the *)
(* network's handing it over a Deliver, and a failure a Break.             *)
(***************************************************************************)
LEMMA InitRefines == Init => RC!Init
BY DistinctThreads DEF Init, RC!Init, FrontDelivered

LEMMA PushIsAccept ==
  ASSUME IInv, SendPush
  PROVE  \E m \in Reply : RC!Accept(m)
<1> USE DistinctThreads
<1>1. ThisReply \in Reply
  BY SessionLimits DEF SendPush, ThisReply, Reply, IInv, TypeOK, RequestCount
<1>2. FrontDelivered' <=> FrontDelivered
  BY DEF SendPush, socketVars, Goto, FrontDelivered, IInv, TypeOK
<1>3. FrontDelivered => send_queue # <<>>
  BY DEF FrontDelivered, IInv, OneWriteAtATime, ChargeOfFront, InCharge
<1>4. send_queue # <<>> => Tail(send_queue') = Append(Tail(send_queue), ThisReply)
  BY <1>1, QueuePush DEF SendPush, IInv, TypeOK
<1>5. /\ Len(send_queue) <= MAX_SENDQUE
      /\ send_queue # <<>> => Len(Tail(send_queue)) = Len(send_queue) - 1
  BY QueuePop DEF SendPush, IInv, TypeOK
<1>6. Len(send_queue) \in Nat
  BY LenProperties DEF IInv, TypeOK
<1>7. send_queue # <<>> => Len(Tail(send_queue)) <= MAX_SENDQUE
  BY <1>5, <1>6, SessionLimits
<1>8. RC!Accept(ThisReply)
  BY <1>2, <1>3, <1>4, <1>5, <1>7 DEF RC!Accept, SendPush, socketVars
<1> QED
  BY <1>1, <1>8

LEMMA RefuseIsRefuse ==
  ASSUME IInv, SendRefuse
  PROVE  \E m \in Reply : RC!Refuse(m)
<1> USE DistinctThreads
<1>1. ThisReply \in Reply
  BY SessionLimits DEF SendRefuse, ThisReply, Reply, IInv, TypeOK, RequestCount
<1>2. FrontDelivered' <=> FrontDelivered
  BY DEF SendRefuse, socketVars, Goto, FrontDelivered, IInv, TypeOK
<1>3. FrontDelivered => send_queue # <<>>
  BY DEF FrontDelivered, IInv, OneWriteAtATime, ChargeOfFront, InCharge
<1>4. send_queue # <<>> => Len(Tail(send_queue)) = Len(send_queue) - 1
  BY QueuePop DEF IInv, TypeOK
<1>5. Len(send_queue) \in Nat
  BY LenProperties DEF IInv, TypeOK
<1>6. /\ Len(send_queue) >= MAX_SENDQUE
      /\ send_queue # <<>> => Len(Tail(send_queue)) >= MAX_SENDQUE
  BY <1>4, <1>5, SessionLimits DEF SendRefuse
<1>7. RC!Refuse(ThisReply)
  BY <1>2, <1>3, <1>6 DEF RC!Refuse, SendRefuse, socketVars
<1> QED
  BY <1>1, <1>7

LEMMA DoneIsDeliver ==
  ASSUME IInv, NEW i \in DOMAIN writes, WriteDone(i, "ok")
  PROVE  RC!Deliver
<1> USE DistinctThreads
<1>1. i = 1 /\ writes # <<>> /\ Len(writes) = 1
  BY RemoveOnly DEF IInv, TypeOK, OneWriteAtATime
<1>2. writes' # <<>> /\ writes'[1].result = "ok"
  <2>1. writes[1] \in Write
    BY <1>1, RemoveOnly DEF IInv, TypeOK
  <2>2. writes' = [writes EXCEPT ![1].result = "ok"]
    BY <1>1 DEF WriteDone
  <2>3. DOMAIN writes' = DOMAIN writes /\ writes'[1] = [writes[1] EXCEPT !.result = "ok"]
    BY <1>1, <2>2
  <2>4. writes'[1].result = "ok"
    BY <2>1, <2>3 DEF Write
  <2>5. DOMAIN writes # {} /\ \A S : DOMAIN <<>> = {}
    BY <1>1
  <2> QED
    BY <2>3, <2>4, <2>5
<1>3. ~FrontDelivered /\ FrontDelivered'
  BY <1>1, <1>2 DEF FrontDelivered, WriteDone, IInv, OneWriteAtATime, InCharge
<1>4. ~failed /\ failed' = failed
  <2>1. failed = FALSE
    BY <1>1 DEF WriteDone, IInv, TypeOK, FailureIsFinal
  <2> QED
    BY <2>1 DEF WriteDone
<1>5. /\ send_queue # <<>> /\ send_queue' = send_queue
      /\ wire' = Append(wire, Head(send_queue)) /\ refused' = refused
  BY <1>1 DEF WriteDone, queueVars, IInv, OneWriteAtATime
<1> QED
  BY <1>3, <1>4, <1>5 DEF RC!Deliver

\* A step that moves neither the queue nor what has been delivered is a Break
\* or a stutter.
LEMMA OthersBreakOrStutter ==
  ASSUME UNCHANGED <<send_queue, wire, refused>>,
         FrontDelivered' <=> FrontDelivered,
         failed' = failed \/ failed' = TRUE
  PROVE  RC!Break \/ UNCHANGED RC!vars
BY DEF RC!Break, RC!vars

LEMMA StartBreaksOrStutters ==
  ASSUME IInv, SendStart \/ \E t \in IoThreads : WriteNext(t)
  PROVE  RC!Break \/ UNCHANGED RC!vars
<1> USE DistinctThreads
<1>1. writes = <<>> /\ ~failed /\ ~FrontDelivered
  <2>1. \E t \in Threads : InCharge(t) /\ pc[t] \in {"start", "next"}
    BY DEF SendStart, WriteNext, InCharge
  <2> QED
    BY <2>1 DEF FrontDelivered, IInv, OneWriteAtATime, FailureIsFinal, InCharge
<1>2. /\ Len(writes') = 1
      /\ writes'[1].result \in {"pending", "error"}
      /\ writes' # <<>>
  <2>1. PICK b \in BOOLEAN : StartWrite(b)
    BY DEF SendStart, WriteNext
  <2> DEFINE w == [msg    |-> Head(send_queue),
                   bound  |-> b,
                   result |-> IF open THEN "pending" ELSE "error"]
  <2>2. writes' = Append(<<>>, w)
    BY <1>1, <2>1 DEF StartWrite
  <2>3. /\ Len(writes') = 1 /\ writes'[1] = w /\ writes' # <<>>
    <3> HIDE DEF w
    <3>1. w \in {w} /\ <<>> \in Seq({w})
      BY EmptySeq
    <3> QED
      BY <2>2, <3>1, QueuePush
  <2> QED
    BY <2>3
<1>3. ~FrontDelivered'
  <2>1. writes'[1].result # "ok"
    BY <1>2
  <2>2. \A t \in IoThreads : pc'[t] \notin {"wrote", "pop"}
    BY <1>1 DEF FrontDelivered, SendStart, WriteNext, Goto, IInv, TypeOK
  <2> QED
    BY <2>1, <2>2 DEF FrontDelivered
<1>4. failed' = failed \/ failed' = TRUE
  <2>1. failed = FALSE /\ open \in BOOLEAN
    BY <1>1 DEF IInv, TypeOK
  <2>2. failed' = (failed \/ ~open)
    BY DEF SendStart, WriteNext, StartWrite
  <2> QED
    BY <2>1, <2>2
<1>5. UNCHANGED <<send_queue, wire, refused>>
  BY DEF SendStart, WriteNext, queueVars
<1> QED
  BY <1>1, <1>3, <1>4, <1>5, OthersBreakOrStutter

LEMMA CloseBreaksOrStutters ==
  ASSUME IInv, NEW t \in IoThreads, ErrorClose(t)
  PROVE  RC!Break \/ UNCHANGED RC!vars
<1> USE DistinctThreads
<1>1. FrontDelivered' <=> FrontDelivered
  <2>1. \A u \in IoThreads : pc'[u] \in {"wrote", "pop"} <=> pc[u] \in {"wrote", "pop"}
    BY DEF ErrorClose, Goto, IInv, TypeOK
  <2>2. (writes # <<>> /\ writes[1].result = "ok")
           <=> (writes' # <<>> /\ writes'[1].result = "ok")
    <3>1. CASE writes = <<>>
      <4>1. writes' = <<>>
        BY <3>1 DEF ErrorClose, Close
      <4> QED
        BY <3>1, <4>1
    <3>2. CASE writes # <<>>
      <4>1. 1 \in DOMAIN writes /\ writes[1] \in Write
        BY <3>2, EmptySeq, LenProperties, ElementOfSeq DEF IInv, TypeOK
      <4>2. writes'[1] = [writes[1] EXCEPT !.result =
                            IF @ = "pending" THEN "error" ELSE @]
        BY <4>1 DEF ErrorClose, Close
      <4>3. writes'[1].result = "ok" <=> writes[1].result = "ok"
        BY <4>1, <4>2 DEF Write
      <4>4. writes' # <<>>
        <5>1. DOMAIN writes' = DOMAIN writes
          BY DEF ErrorClose, Close
        <5> QED
          BY <4>1, <5>1
      <4> QED
        BY <3>2, <4>3, <4>4
    <3> QED
      BY <3>1, <3>2
  <2> QED
    BY <2>1, <2>2 DEF FrontDelivered
<1>2. failed' = failed \/ failed' = TRUE
  <2>1. failed \in BOOLEAN /\ failed' \in BOOLEAN /\ (failed => failed')
    BY DEF ErrorClose, Close, IInv, TypeOK
  <2> QED
    BY <2>1
<1>3. UNCHANGED <<send_queue, wire, refused>>
  BY DEF ErrorClose, queueVars
<1> QED
  BY <1>1, <1>2, <1>3, OthersBreakOrStutter

\* The handler of a write takes over the charge; the pop ends it.
LEMMA WriteHandlerStutters ==
  ASSUME IInv, NEW t \in IoThreads,
         WritePop(t) \/ \E i \in DOMAIN writes : RunWrite(t, i)
  PROVE  UNCHANGED RC!vars
<1> USE DistinctThreads
<1>1. CASE WritePop(t)
  <2>1. FrontDelivered /\ ~FrontDelivered'
    <3>1. writes = <<>> /\ \A u \in IoThreads : InCharge(u) => u = t
      BY <1>1 DEF WritePop, IInv, OneWriteAtATime, InCharge
    <3>2. \A u \in IoThreads : pc'[u] \notin {"wrote", "pop"}
      BY <1>1, <3>1 DEF WritePop, Goto, InCharge, IInv, TypeOK
    <3> QED
      BY <1>1, <3>1, <3>2 DEF FrontDelivered, WritePop, socketVars
  <2> QED
    BY <1>1, <2>1 DEF WritePop, socketVars, RC!vars
<1>2. ASSUME NEW i \in DOMAIN writes, RunWrite(t, i) PROVE UNCHANGED RC!vars
  <2>1. i = 1 /\ writes # <<>> /\ writes' = <<>>
    BY <1>2, RemoveOnly DEF RunWrite, IInv, TypeOK, OneWriteAtATime
  <2>2. \A u \in IoThreads : pc[u] \notin {"wrote", "pop"}
    BY <2>1 DEF IInv, OneWriteAtATime, InCharge
  <2>3. FrontDelivered' <=> FrontDelivered
    BY <1>2, <2>1, <2>2 DEF RunWrite, Goto, FrontDelivered, IInv, TypeOK
  <2> QED
    BY <1>2, <2>3 DEF RunWrite, queueVars, RC!vars
<1> QED
  BY <1>1, <1>2

\* The steps that neither touch the queue nor take part in a write.
LEMMA OthersStutter ==
  ASSUME IInv,
         \/ \E r \in {"ok", "error"} : ReadDone(r)
         \/ SendLock \/ SendUnlock \/ Destruct
         \/ \E t \in IoThreads :
              \/ RunRead(t) \/ Leave(t)
              \/ ReadMessage(t) \/ ReadPart(t) \/ ReadInvalid(t) \/ ReadAgain(t)
              \/ WriteLock(t) \/ WriteUnlock(t) \/ ErrorClear(t)
  PROVE  UNCHANGED RC!vars
<1> USE DistinctThreads DEF RC!vars, FrontDelivered, IInv, TypeOK, Goto,
        queueVars, requestVars, socketVars
<1>1. CASE (\E r \in {"ok", "error"} : ReadDone(r)) \/ Destruct
  BY <1>1 DEF ReadDone, Destruct
<1>2. CASE SendLock \/ SendUnlock
  BY <1>2 DEF SendLock, SendUnlock
<1>3. ASSUME NEW t \in IoThreads,
             \/ RunRead(t) \/ Leave(t)
             \/ ReadMessage(t) \/ ReadPart(t) \/ ReadInvalid(t) \/ ReadAgain(t)
             \/ WriteLock(t) \/ WriteUnlock(t) \/ ErrorClear(t)
      PROVE  UNCHANGED RC!vars
  <2>1. CASE RunRead(t)
    BY <2>1 DEF RunRead
  <2>2. CASE Leave(t)
    BY <2>2 DEF Leave
  <2>3. CASE ReadMessage(t)
    BY <2>3 DEF ReadMessage
  <2>4. CASE ReadPart(t) \/ ReadInvalid(t)
    BY <2>4 DEF ReadPart, ReadInvalid
  <2>5. CASE ReadAgain(t)
    BY <2>5 DEF ReadAgain
  <2>6. CASE WriteLock(t)
    BY <2>6 DEF WriteLock
  <2>7. CASE WriteUnlock(t) \/ ErrorClear(t)
    BY <2>7 DEF WriteUnlock, ErrorClear
  <2> QED
    BY <1>3, <2>1, <2>2, <2>3, <2>4, <2>5, <2>6, <2>7
<1> QED
  BY <1>1, <1>2, <1>3

LEMMA FailureIsBreak ==
  ASSUME IInv, NEW i \in DOMAIN writes, WriteDone(i, "error")
  PROVE  RC!Break
<1>1. i = 1 /\ writes # <<>> /\ Len(writes) = 1 /\ writes[1] \in Write
  BY RemoveOnly DEF IInv, TypeOK, OneWriteAtATime
<1>2. writes'[1].result = "error"
  <2>1. writes'[1] = [writes[1] EXCEPT !.result = "error"]
    BY <1>1 DEF WriteDone
  <2> QED
    BY <1>1, <2>1 DEF Write
<1>3. FrontDelivered' <=> FrontDelivered
  <2>1. writes[1].result # "ok"
    BY <1>1 DEF WriteDone
  <2> QED
    BY <1>2, <2>1 DEF WriteDone, FrontDelivered
<1> QED
  BY <1>3 DEF WriteDone, queueVars, RC!Break

\* Replies reach the client in the order of the calls of Send, none twice, and
\* are refused only when MAX_SENDQUE are waiting.
THEOREM Refinement == Spec => ImplementsReplyChannel
<1>1. IInv /\ [Next]_vars => [RC!Next]_(RC!vars)
  <2> SUFFICES ASSUME IInv, [Next]_vars
               PROVE  RC!Next \/ UNCHANGED RC!vars
    OBVIOUS
  <2>1. CASE UNCHANGED vars
    BY <2>1 DEF vars, RC!vars, FrontDelivered
  <2>2. CASE Network
    <3>1. ASSUME NEW i \in DOMAIN writes, WriteDone(i, "ok") PROVE RC!Next
      BY <3>1, DoneIsDeliver DEF RC!Next
    <3>2. ASSUME NEW i \in DOMAIN writes, WriteDone(i, "error") PROVE RC!Next
      BY <3>2, FailureIsBreak DEF RC!Next
    <3> QED
      BY <2>2, <3>1, <3>2, OthersStutter DEF Network
  <2>3. CASE RunAnyRead \/ RunAnyWrite
    BY <2>3, OthersStutter, WriteHandlerStutters DEF RunAnyRead, RunAnyWrite
  <2>4. ASSUME NEW t \in IoThreads, HandlerStep(t)
        PROVE  RC!Next \/ UNCHANGED RC!vars
    <3>1. CASE WritePop(t)
      BY <3>1, WriteHandlerStutters
    <3>2. CASE WriteNext(t)
      BY <3>2, StartBreaksOrStutters DEF RC!Next
    <3>3. CASE ErrorClose(t)
      BY <3>3, CloseBreaksOrStutters DEF RC!Next
    <3> QED
      BY <2>4, <3>1, <3>2, <3>3, OthersStutter DEF HandlerStep
  <2>5. CASE LogicStep
    <3>1. CASE SendPush
      BY <3>1, PushIsAccept DEF RC!Next
    <3>2. CASE SendRefuse
      BY <3>2, RefuseIsRefuse DEF RC!Next
    <3>3. CASE SendStart
      BY <3>3, StartBreaksOrStutters DEF RC!Next
    <3> QED
      BY <2>5, <3>1, <3>2, <3>3, OthersStutter DEF LogicStep
  <2>6. CASE Destruct
    BY <2>6, OthersStutter
  <2> QED
    BY <2>1, <2>2, <2>3, <2>4, <2>5, <2>6 DEF Next
<1> QED
  BY <1>1, InitRefines, Inductive, PTL DEF Spec, RC!Spec, ImplementsReplyChannel
=============================================================================
