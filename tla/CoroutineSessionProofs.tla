----------------------- MODULE CoroutineSessionProofs -----------------------
(***************************************************************************)
(* CoroutineSession proved for any number of connections and of requests,  *)
(* any ids and any MAX_SENDQUE.                                            *)
(*                                                                         *)
(* The sending side needs that the worker serves the front of the queue of *)
(* LogicSystem as long as it holds _mutex (WorkerServes), and that whoever *)
(* is in charge of a session's _send_que finds a reply there, to pop or to *)
(* write (FrontIsThere): then a Send that finds the queue empty starts the *)
(* only write.  That a coroutine outlives its session only after a failed  *)
(* write needs that until then main or the list refers to every session    *)
(* whose coroutine lives (CoroutineHeld).  The refinement needs that       *)
(* nothing is written after a failure (FailureIsFinal): Send finds the     *)
(* queue full of what is left.                                             *)
(***************************************************************************)
EXTENDS CoroutineSession, SequenceTheorems, TLAPS

\* With _mutex held the worker has a request: the front of _msg_que.
WorkerServes == worker # "idle" => msg_que # <<>>

\* Where the coroutine uses the header, it has read one.
HeaderRead ==
  \A s \in Session :
    co[s] \in {"gotHead", "body", "gotBody", "post"} => recv[s] \in Message

\* Whoever is in charge of _send_que finds a reply in it.
FrontIsThere == \A s \in Session : InCharge(s) => send_que[s] # <<>>

\* A coroutine that lives has its session listed, or about to be, until a
\* write fails; HandleWrite clears a session for that reason alone.
CoroutineHeld ==
  \A s \in Session :
    /\ co[s] \notin {"none", "done", "stale"} /\ ~failed[s] =>
         accepting = s \/ listed[s]
    /\ handler[s] \in {"error", "clear"} => failed[s]

\* After a failed write the replies stay in the queue, and nothing is written.
FailureIsFinal ==
  \A s \in Session : failed[s] =>
    /\ send_que[s] # <<>> /\ writing[s] = <<>> /\ ~Starting(s)
    /\ handler[s] \in {"none", "error", "clear"}

SendSide == OneWriteAtATime /\ NoStrandedReply /\ FrontIsThere /\ FailureIsFinal

CoroutineSide == HeaderRead /\ CoroutineHeld /\ StaleOnlyAfterFailure

IInv == TypeOK /\ WorkerServes /\ SendSide /\ CoroutineSide

-----------------------------------------------------------------------------
\* What push and pop do to a queue.
LEMMA QueuePush ==
  ASSUME NEW S, NEW q \in Seq(S), NEW m \in S
  PROVE  /\ Append(q, m) \in Seq(S)
         /\ Append(q, m) # <<>>
         /\ Len(q) \in Nat
         /\ Len(Append(q, m)) = Len(q) + 1
         /\ Head(Append(q, m)) = IF q = <<>> THEN m ELSE Head(q)
BY AppendProperties, HeadTailAppend, LenProperties

LEMMA QueuePop ==
  ASSUME NEW S, NEW q \in Seq(S), q # <<>>
  PROVE  /\ Tail(q) \in Seq(S)
         /\ Head(q) \in S
         /\ Len(q) \in Nat \ {0}
         /\ Len(Tail(q)) = Len(q) - 1
         /\ Tail(q) = <<>> <=> Len(q) = 1
<1>1. /\ Tail(q) \in Seq(S) /\ Head(q) \in S
      /\ Len(Tail(q)) = Len(q) - 1
  BY HeadTailProperties
<1>2. Len(q) \in Nat \ {0}
  BY EmptySeq
<1>3. Tail(q) = <<>> <=> Len(Tail(q)) = 0
  BY <1>1, EmptySeq
<1> QED
  BY <1>1, <1>2, <1>3

\* The one write there is starts from nothing and leaves nothing.
LEMMA OneElement ==
  ASSUME NEW S, NEW m \in S
  PROVE  /\ Append(<<>>, m) = <<m>>
         /\ <<m>> # <<>> /\ Len(<<m>>) = 1 /\ Head(<<m>>) = m
  OBVIOUS

LEMMA FrontRequest ==
  ASSUME TypeOK, msg_que # <<>>
  PROVE  /\ Request \in [session : Session, msg : Message]
         /\ Request.session \in Session
         /\ Request.msg \in Message
         /\ Tail(msg_que) \in Seq([session : Session, msg : Message])
<1>1. /\ Request \in [session : Session, msg : Message]
      /\ Tail(msg_que) \in Seq([session : Session, msg : Message])
  BY QueuePop DEF TypeOK, Request
<1> QED
  BY <1>1

LEMMA InitIInv == Init => IInv
<1> SUFFICES ASSUME Init PROVE IInv
  OBVIOUS
<1> USE CoroutineAssumption DEF Init
<1>1. TypeOK
  <2>1. /\ <<>> \in Seq(Message) /\ Len(<<>>) = 0
        /\ <<>> \in Seq([session : Session, msg : Message])
    BY EmptySeq
  <2> QED
    BY <2>1 DEF TypeOK
<1>2. WorkerServes /\ SendSide /\ CoroutineSide
  BY DEF WorkerServes, SendSide, OneWriteAtATime, NoStrandedReply, FrontIsThere, FailureIsFinal,
    InCharge, Starting, CoroutineSide, HeaderRead, CoroutineHeld,
    StaleOnlyAfterFailure
<1> QED
  BY <1>1, <1>2 DEF IInv

\* Steps of clients, main and coroutines touch nothing on the sending side.
LEMMA SendSideKept ==
  ASSUME SendSide, UNCHANGED <<send_que, writing, handler, failed>>,
         \A s \in Session : Starting(s)' <=> Starting(s)
  PROVE  SendSide'
BY DEF SendSide, OneWriteAtATime, NoStrandedReply, FrontIsThere, FailureIsFinal, InCharge

\* Steps of the worker and of writes that succeed touch nothing of a coroutine.
LEMMA CoroutineSideKept ==
  ASSUME CoroutineSide, UNCHANGED <<co, recv, accepting, listed, failed>>,
         \A s \in Session :
           handler'[s] \in {"error", "clear"} => handler[s] \in {"error", "clear"}
  PROVE  CoroutineSide'
BY DEF CoroutineSide, HeaderRead, CoroutineHeld, StaleOnlyAfterFailure

-----------------------------------------------------------------------------
\* The clients.
LEMMA ClientIInv ==
  ASSUME IInv, NEW s \in Session,
         ClientLeave(s) \/ \E id \in Ids : ClientSend(s, id)
  PROVE  IInv'
<1> USE DEF IInv, clientVars, listVars, readVars, sendVars, logicVars
<1>1. UNCHANGED <<load, wire, listVars, co, recv, received, closed, sendVars, logicVars>>
  BY DEF ClientLeave, ClientSend
<1>2. /\ sent' \in [Session -> Seq(Message)]
      /\ stream' \in [Session -> Seq(Message)]
      /\ gone' \in [Session -> BOOLEAN]
  <2>1. CASE ClientLeave(s)
    <3>1. PICK n \in 0..Len(stream[s]) :
            stream' = [stream EXCEPT ![s] = SubSeq(@, 1, n)]
      BY <2>1 DEF ClientLeave
    <3>2. stream[s] \in Seq(Message)
      BY DEF TypeOK
    <3>3. \A i \in 1..n : stream[s][i] \in Message
      BY <3>2, ElementOfSeq, LenProperties
    <3>4. SubSeq(stream[s], 1, n) \in Seq(Message)
      BY <3>2, <3>3, SubSeqProperties, LenProperties
    <3> QED
      BY <2>1, <3>1, <3>4 DEF TypeOK, ClientLeave
  <2>2. ASSUME NEW id \in Ids, ClientSend(s, id)
        PROVE  /\ sent' \in [Session -> Seq(Message)]
               /\ stream' \in [Session -> Seq(Message)]
               /\ gone' \in [Session -> BOOLEAN]
    <3> DEFINE m == [n |-> Len(sent[s]) + 1, id |-> id]
    <3>1. sent[s] \in Seq(Message) /\ stream[s] \in Seq(Message) /\ load \in Loads
      BY DEF TypeOK
    <3>2. Len(sent[s]) \in Nat
      BY <3>1, LenProperties
    <3>3. /\ Len(load[s].asks) \in Nat
          /\ Len(load[s].asks) <= MaxRequests
      BY <3>1, CoroutineAssumption, LenProperties
    <3>4. Len(sent[s]) < Len(load[s].asks)
      BY <2>2 DEF ClientSend
    <3>5. m \in Message
      BY <3>2, <3>3, <3>4, CoroutineAssumption DEF Message
    <3>6. /\ sent' = [sent EXCEPT ![s] = Append(@, m)]
          /\ stream' = [stream EXCEPT ![s] = @ \o Parts(m)]
          /\ gone' = gone
      BY <2>2 DEF ClientSend
    <3> HIDE DEF m
    <3>7. Parts(m) \in Seq(Message)
      BY <3>5 DEF Parts
    <3>8. /\ Append(sent[s], m) \in Seq(Message)
          /\ stream[s] \o Parts(m) \in Seq(Message)
      BY <3>1, <3>5, <3>7, AppendProperties, ConcatProperties
    <3> QED
      BY <3>6, <3>8 DEF TypeOK
  <2> QED
    BY <2>1, <2>2
<1>3. TypeOK'
  BY <1>1, <1>2 DEF TypeOK
<1>4. WorkerServes' /\ CoroutineSide'
  BY <1>1, CoroutineSideKept DEF WorkerServes
<1>5. SendSide'
  BY <1>1, SendSideKept DEF Starting, Request
<1> QED
  BY <1>3, <1>4, <1>5

\* main.
LEMMA MainIInv ==
  ASSUME IInv, NEW s \in Session, AcceptStart(s) \/ AcceptInsert(s)
  PROVE  IInv'
<1> USE CoroutineAssumption
    DEF IInv, clientVars, listVars, readVars, sendVars, logicVars, besideVars,
        AcceptStart, AcceptInsert
<1>1. TypeOK'
  BY DEF TypeOK, Due
<1>2. WorkerServes'
  BY DEF WorkerServes
<1>3. CoroutineSide'
  <2>1. HeaderRead' /\ StaleOnlyAfterFailure'
    <3>1. /\ UNCHANGED <<recv, failed>>
          /\ co'[s] \in {"spawned", co[s]}
          /\ \A u \in Session \ {s} : co'[u] = co[u]
      BY DEF TypeOK
    <3> HIDE DEF AcceptStart, AcceptInsert
    <3> QED
      BY <3>1 DEF CoroutineSide, HeaderRead, StaleOnlyAfterFailure
  <2>2. CoroutineHeld'
    <3> USE DEF TypeOK, CoroutineSide, CoroutineHeld
    <3>1. CASE AcceptStart(s)
      BY <3>1
    <3>2. CASE AcceptInsert(s)
      BY <3>2
    <3> QED
      BY <3>1, <3>2
  <2> QED
    BY <2>1, <2>2 DEF CoroutineSide
<1>4. SendSide'
  BY SendSideKept DEF Starting, Request
<1> QED
  BY <1>1, <1>2, <1>3, <1>4

-----------------------------------------------------------------------------
\* The reads.
LEMMA ReadIInv ==
  ASSUME IInv, NEW s \in Session, ReadDone(s) \/ ReadError(s)
  PROVE  IInv'
<1> USE DEF IInv, clientVars, listVars, readVars, sendVars, logicVars, besideVars
<1>1. UNCHANGED <<clientVars, listVars, received, closed, sendVars, logicVars>>
  BY DEF ReadDone, ReadError
<1>2. CASE ReadDone(s)
  <2>1. /\ stream[s] \in Seq(Message) /\ stream[s] # <<>>
        /\ stream' = [stream EXCEPT ![s] = Tail(@)]
    BY <1>2 DEF TypeOK, ReadDone
  <2>2. Tail(stream[s]) \in Seq(Message) /\ Head(stream[s]) \in Message
    BY <2>1, QueuePop
  <2>3. \/ /\ co[s] = "head"
           /\ co' = [co EXCEPT ![s] = "gotHead"]
           /\ recv' = [recv EXCEPT ![s] = Head(stream[s])]
        \/ /\ co[s] = "body"
           /\ co' = [co EXCEPT ![s] = "gotBody"]
           /\ UNCHANGED recv
    BY <1>2 DEF ReadDone
  <2>4. TypeOK'
    <3>1. stream' \in [Session -> Seq(Message)]
      BY <2>1, <2>2 DEF TypeOK
    <3>r. recv' \in [Session -> Message \cup {None}]
      BY <2>2, <2>3 DEF TypeOK
    <3>2. co' \in [Session -> {"none", "done", "stale"} \cup Suspended \cup Due \cup Running]
      BY <2>3 DEF TypeOK, Due
    <3> QED
      BY <1>1, <3>1, <3>r, <3>2 DEF TypeOK
  <2>5. CoroutineSide'
    <3>1. HeaderRead'
      BY <2>2, <2>3 DEF TypeOK, CoroutineSide, HeaderRead
    <3>2. CoroutineHeld' /\ StaleOnlyAfterFailure'
      BY <1>1, <2>3 DEF TypeOK, CoroutineSide, CoroutineHeld, StaleOnlyAfterFailure
    <3> QED
      BY <3>1, <3>2 DEF CoroutineSide
  <2> QED
    BY <1>1, <2>4, <2>5, SendSideKept DEF WorkerServes, Starting, Request
<1>3. CASE ReadError(s)
  <2>1. TypeOK'
    BY <1>3 DEF ReadError, TypeOK, Due
  <2>2. CoroutineSide'
    BY <1>3 DEF ReadError, TypeOK, Suspended, CoroutineSide, HeaderRead, CoroutineHeld,
      StaleOnlyAfterFailure
  <2> QED
    BY <1>1, <2>1, <2>2, SendSideKept DEF WorkerServes, Starting, Request
<1> QED
  BY <1>2, <1>3

\* The coroutine, but for PostMsgToQue: it stops only where it may, and leaves
\* the list only when it ends.
LEMMA CoroutineIInv ==
  ASSUME IInv, NEW s \in Session,
         \/ ReadNext(s, "spawned") \/ ReadNext(s, "loop")
         \/ AcceptHead(s) \/ RejectHead(s)
         \/ TakeBody(s)
         \/ CatchError(s) \/ CoroutineClear(s)
         \/ RunsStale(s)
  PROVE  IInv'
<1> USE DEF IInv, clientVars, listVars, readVars, sendVars, logicVars, besideVars
<1>1. UNCHANGED <<clientVars, stream, recv, received, sendVars, logicVars>>
  BY DEF ReadNext, AcceptHead, RejectHead, TakeBody, CatchError, CoroutineClear,
    RunsStale
<1>2. TypeOK'
  BY DEF TypeOK, Suspended, Due, Running, Runs, StartRead, Close, ClearSesseion,
    ReadNext, AcceptHead, RejectHead, TakeBody, CatchError, CoroutineClear, RunsStale
<1>3. CoroutineSide'
  <2> USE <1>1 DEF TypeOK, Suspended, Due, Running, Runs, StartRead, Close, ClearSesseion
  <2>1. HeaderRead'
    BY DEF CoroutineSide, HeaderRead, ReadNext, AcceptHead, RejectHead, TakeBody,
      CatchError, CoroutineClear, RunsStale
  <2>2. CASE RunsStale(s)
    <3>1. failed[s]
      BY <2>2 DEF CoroutineSide, CoroutineHeld, RunsStale, Alive
    <3> QED
      BY <2>1, <2>2, <3>1
        DEF CoroutineSide, CoroutineHeld, StaleOnlyAfterFailure, RunsStale
  <2>3. CASE CoroutineClear(s)
    BY <2>1, <2>3
      DEF CoroutineSide, CoroutineHeld, StaleOnlyAfterFailure, CoroutineClear
  <2>4. CASE \/ ReadNext(s, "spawned") \/ ReadNext(s, "loop")
             \/ AcceptHead(s) \/ RejectHead(s) \/ TakeBody(s) \/ CatchError(s)
    <3>1. /\ co[s] \notin {"none", "done", "stale"}
          /\ \E at \in {"head", "body", "gotBody", "error", "post", "clear", "done"} :
               co' = [co EXCEPT ![s] = at]
          /\ UNCHANGED <<listVars, failed, handler>>
      BY <2>4 DEF ReadNext, AcceptHead, RejectHead, TakeBody, CatchError
    <3> QED
      BY <2>1, <3>1 DEF CoroutineSide, CoroutineHeld, StaleOnlyAfterFailure
  <2> QED
    BY <2>2, <2>3, <2>4
<1> QED
  BY <1>1, <1>2, <1>3, SendSideKept DEF WorkerServes, Starting, Request

\* PostMsgToQue: the worker is between two requests.
LEMMA PostIInv ==
  ASSUME IInv, NEW s \in Session, Post(s)
  PROVE  IInv'
<1> USE DEF IInv, Post, clientVars, listVars, readVars, sendVars, logicVars
<1>1. recv[s] \in Message
  BY DEF Runs, CoroutineSide, HeaderRead
<1>2. /\ msg_que' \in Seq([session : Session, msg : Message])
      /\ msg_que' # <<>>
      /\ Append(received[s], recv[s]) \in Seq(Message)
  <2>1. [session |-> s, msg |-> recv[s]] \in [session : Session, msg : Message]
    BY <1>1
  <2>2. /\ msg_que \in Seq([session : Session, msg : Message])
        /\ received[s] \in Seq(Message)
    BY DEF TypeOK
  <2> QED
    BY <1>1, <2>1, <2>2, AppendProperties
<1>3. TypeOK'
  BY <1>2 DEF TypeOK, Running
<1>4. WorkerServes'
  BY <1>2 DEF WorkerServes
<1>5. CoroutineSide'
  BY DEF TypeOK, Runs, CoroutineSide, HeaderRead, CoroutineHeld, StaleOnlyAfterFailure
<1>6. SendSide'
  BY SendSideKept DEF Starting
<1> QED
  BY <1>3, <1>4, <1>5, <1>6

-----------------------------------------------------------------------------
\* The worker.
LEMMA WorkerIInv ==
  ASSUME IInv, WorkerStep
  PROVE  IInv'
<1> USE DEF IInv, clientVars, listVars, readVars, sendVars, logicVars, otherVars
<1> DEFINE r == Request.session
<1>1. msg_que # <<>>
  BY DEF WorkerStep, DealMsg, SendRefuse, SendPush, SendStart, WorkerServes
<1>2. /\ r \in Session /\ Request.msg \in Message
      /\ Tail(msg_que) \in Seq([session : Session, msg : Message])
  BY <1>1, FrontRequest
<1>3. /\ send_que \in [Session -> Seq(Message)]
      /\ writing \in [Session -> Seq(Message)]
      /\ refused \in [Session -> Seq(Message)]
      /\ \A s \in Session : Len(send_que[s]) <= MAX_SENDQUE + 1
  BY DEF TypeOK
<1>4. CoroutineSide'
  BY CoroutineSideKept DEF WorkerStep, DealMsg, SendRefuse, SendPush, SendStart
<1>5. CASE DealMsg
  <2>1. TypeOK' /\ WorkerServes'
    BY <1>1, <1>2, <1>5 DEF TypeOK, WorkerServes, DealMsg
  <2>2. SendSide'
    BY <1>5, SendSideKept DEF Starting, DealMsg
  <2> QED
    BY <1>4, <2>1, <2>2
<1>6. CASE SendRefuse
  <2>1. Append(refused[r], Request.msg) \in Seq(Message)
    BY <1>2, <1>3, QueuePush
  <2>2. TypeOK' /\ WorkerServes'
    BY <1>2, <1>6, <2>1 DEF TypeOK, WorkerServes, SendRefuse, Return
  <2>3. SendSide'
    BY <1>6, SendSideKept DEF Starting, SendRefuse, Return
  <2> QED
    BY <1>4, <2>2, <2>3
<1>7. CASE SendPush
  <2>1. /\ send_que' = [send_que EXCEPT ![r] = Append(@, Request.msg)]
        /\ worker = "send" /\ Len(send_que[r]) <= MAX_SENDQUE
        /\ UNCHANGED <<otherVars, wire, writing, handler, failed, refused>>
        /\ \/ /\ send_que[r] = <<>>
              /\ worker' = "start" /\ UNCHANGED msg_que
           \/ /\ send_que[r] # <<>>
              /\ msg_que' = Tail(msg_que) /\ worker' = "idle"
    BY <1>7 DEF SendPush, Return
  <2>2. /\ send_que'[r] \in Seq(Message) /\ send_que'[r] # <<>>
        /\ Len(send_que'[r]) <= MAX_SENDQUE + 1
        /\ send_que[r] # <<>> => Head(send_que'[r]) = Head(send_que[r])
        /\ \A s \in Session \ {r} : send_que'[s] = send_que[s]
    <3>1. send_que[r] \in Seq(Message) /\ send_que'[r] = Append(send_que[r], Request.msg)
      BY <1>2, <1>3, <2>1
    <3>2. /\ Append(send_que[r], Request.msg) \in Seq(Message)
          /\ Append(send_que[r], Request.msg) # <<>>
          /\ Len(send_que[r]) \in Nat
          /\ Len(Append(send_que[r], Request.msg)) = Len(send_que[r]) + 1
          /\ send_que[r] # <<>> =>
               Head(Append(send_que[r], Request.msg)) = Head(send_que[r])
      BY <1>2, <3>1, QueuePush
    <3>3. Len(send_que'[r]) <= MAX_SENDQUE + 1
      BY <2>1, <3>1, <3>2, CoroutineAssumption
    <3>4. \A s \in Session \ {r} : send_que'[s] = send_que[s]
      BY <1>3, <2>1
    <3> QED
      BY <3>1, <3>2, <3>3, <3>4
  <2>3. TypeOK' /\ WorkerServes'
    BY <1>1, <1>2, <1>3, <2>1, <2>2 DEF TypeOK, WorkerServes
  <2>4. \A s \in Session : Starting(s)' <=> s = r /\ send_que[r] = <<>>
    BY <1>2, <2>1 DEF Starting, Request
  <2>5. SendSide'
    BY <1>2, <2>1, <2>2, <2>4
      DEF SendSide, OneWriteAtATime, NoStrandedReply, FrontIsThere, FailureIsFinal, InCharge, Starting
  <2> QED
    BY <1>4, <2>3, <2>5
<1>8. CASE SendStart
  <2>1. Starting(r) /\ writing[r] = <<>> /\ handler[r] = "none" /\ send_que[r] # <<>>
    BY <1>2, <1>8 DEF SendStart, Starting, SendSide, OneWriteAtATime, FrontIsThere, FailureIsFinal, InCharge
  <2>2. Head(send_que[r]) \in Message
    BY <1>2, <1>3, <2>1, QueuePop
  <2>3. /\ writing' = [writing EXCEPT ![r] = <<Head(send_que[r])>>]
        /\ msg_que' = Tail(msg_que) /\ worker' = "idle"
        /\ UNCHANGED <<otherVars, wire, send_que, handler, failed, refused>>
    BY <1>2, <1>3, <1>8, <2>1, <2>2, OneElement DEF SendStart, StartWrite, Return
  <2>4. TypeOK' /\ WorkerServes'
    <3>1. writing' \in [Session -> Seq(Message)]
      BY <1>2, <1>3, <2>2, <2>3, EmptySeq
    <3> QED
      BY <1>2, <2>3, <3>1 DEF TypeOK, WorkerServes
  <2>5. \A s \in Session : Starting(s) <=> s = r
    BY <1>8 DEF SendStart, Starting
  <2>6. \A s \in Session : ~Starting(s)'
    BY <2>3 DEF Starting
  <2>7. /\ Len(writing'[r]) = 1 /\ Head(writing'[r]) = Head(send_que[r])
        /\ writing'[r] # <<>>
        /\ \A s \in Session \ {r} : writing'[s] = writing[s]
    BY <1>2, <1>3, <2>2, <2>3, OneElement
  <2>8. SendSide'
    <3>1. OneWriteAtATime' /\ FrontIsThere'
      BY <2>1, <2>3, <2>5, <2>6, <2>7
        DEF SendSide, OneWriteAtATime, FrontIsThere, InCharge
    <3>2. NoStrandedReply' /\ FailureIsFinal'
      BY <2>1, <2>3, <2>5, <2>6, <2>7
        DEF SendSide, NoStrandedReply, FailureIsFinal, InCharge
    <3> QED
      BY <3>1, <3>2 DEF SendSide
  <2> QED
    BY <1>4, <2>4, <2>8
<1> QED
  BY <1>5, <1>6, <1>7, <1>8 DEF WorkerStep

-----------------------------------------------------------------------------
\* A session with a write, or a handler of one, has one only, and a reply.
LEMMA OneInCharge ==
  ASSUME IInv, NEW s \in Session
  PROVE  /\ writing[s] # <<>> \/ handler[s] # "none" =>
              ~Starting(s) /\ send_que[s] # <<>>
         /\ handler[s] # "none" => writing[s] = <<>>
         /\ writing[s] # <<>> =>
              /\ Tail(writing[s]) = <<>>
              /\ Head(writing[s]) = Head(send_que[s])
              /\ Head(writing[s]) \in Message
<1>1. writing[s] # <<>> =>
        Tail(writing[s]) = <<>> /\ Head(writing[s]) \in Message
  BY QueuePop DEF IInv, TypeOK, SendSide, OneWriteAtATime
<1> QED
  BY <1>1 DEF IInv, SendSide, OneWriteAtATime, FrontIsThere, FailureIsFinal, InCharge

\* The end of a write.
LEMMA WriteIInv ==
  ASSUME IInv, NEW s \in Session, WriteDone(s) \/ WriteFail(s)
  PROVE  IInv'
<1> USE DEF IInv, clientVars, listVars, readVars, sendVars, logicVars, otherVars
<1>1. /\ ~Starting(s) /\ send_que[s] # <<>> /\ Tail(writing[s]) = <<>>
      /\ Head(writing[s]) \in Message
  BY OneInCharge DEF WriteDone, WriteFail
<1>2. /\ writing[s] # <<>> /\ handler[s] = "none"
      /\ writing' = [writing EXCEPT ![s] = <<>>]
      /\ UNCHANGED <<otherVars, send_que, refused, logicVars>>
      /\ \/ /\ handler' = [handler EXCEPT ![s] = "ok"]
            /\ wire' = [wire EXCEPT ![s] = Append(@, Head(writing[s]))]
            /\ UNCHANGED failed
         \/ /\ handler' = [handler EXCEPT ![s] = "error"]
            /\ failed' = [failed EXCEPT ![s] = TRUE]
            /\ UNCHANGED wire
  BY <1>1 DEF WriteDone, WriteFail
<1>3. Append(wire[s], Head(writing[s])) \in Seq(Message)
  BY <1>1, QueuePush DEF TypeOK
<1>4. TypeOK'
  <2>1. writing' \in [Session -> Seq(Message)]
    <3>1. <<>> \in Seq(Message)
      BY EmptySeq
    <3> QED
      BY <1>2, <3>1 DEF TypeOK
  <2>w. wire' \in [Session -> Seq(Message)]
    BY <1>2, <1>3 DEF TypeOK
  <2>2. /\ handler' \in [Session -> {"none", "ok", "error", "next", "clear"}]
        /\ failed' \in [Session -> BOOLEAN]
    BY <1>2 DEF TypeOK
  <2> QED
    BY <1>2, <2>1, <2>w, <2>2 DEF TypeOK
<1>5. WorkerServes' /\ \A u \in Session : Starting(u)' <=> Starting(u)
  BY <1>2 DEF WorkerServes, Starting, Request
<1>6. CoroutineSide'
  <2>1. HeaderRead'
    BY <1>2 DEF CoroutineSide, HeaderRead
  <2>2. /\ handler'[s] \in {"error", "clear"} => failed'[s]
        /\ failed[s] => failed'[s]
        /\ \A u \in Session \ {s} : handler'[u] = handler[u] /\ failed'[u] = failed[u]
        /\ UNCHANGED <<accepting, listed, co>>
    BY <1>2 DEF TypeOK
  <2>3. CoroutineHeld' /\ StaleOnlyAfterFailure'
    BY <2>2 DEF CoroutineSide, CoroutineHeld, StaleOnlyAfterFailure
  <2> QED
    BY <2>1, <2>3 DEF CoroutineSide
<1>7. SendSide'
  <2> SUFFICES ASSUME NEW u \in Session
               PROVE  /\ writing'[u] # <<>> => /\ Len(writing'[u]) = 1
                                              /\ send_que'[u] # <<>>
                                              /\ Head(writing'[u]) = Head(send_que'[u])
                                              /\ handler'[u] = "none"
                      /\ Starting(u)' => writing'[u] = <<>> /\ handler'[u] = "none"
                      /\ ~failed'[u] => (send_que'[u] # <<>> <=> InCharge(u)')
                      /\ InCharge(u)' => send_que'[u] # <<>>
                      /\ failed'[u] =>
                           /\ send_que'[u] # <<>> /\ writing'[u] = <<>> /\ ~Starting(u)'
                           /\ handler'[u] \in {"none", "error", "clear"}
    BY DEF SendSide, OneWriteAtATime, NoStrandedReply, FrontIsThere, FailureIsFinal
  <2>1. CASE u = s
    <3>1. writing'[u] = <<>> /\ ~Starting(u)' /\ send_que'[u] # <<>> /\ handler'[u] # "none"
      BY <1>1, <1>2, <1>5, <2>1 DEF TypeOK
    <3>2. failed'[u] => handler'[u] = "error"
      BY <1>2, <2>1 DEF TypeOK, SendSide, FailureIsFinal
    <3> QED
      BY <3>1, <3>2 DEF InCharge
  <2>2. CASE u # s
    <3>1. /\ writing'[u] = writing[u] /\ handler'[u] = handler[u]
          /\ send_que'[u] = send_que[u] /\ failed'[u] = failed[u]
          /\ Starting(u)' <=> Starting(u)
      BY <1>2, <1>5, <2>2 DEF TypeOK
    <3>2. InCharge(u)' <=> InCharge(u)
      BY <3>1 DEF InCharge
    <3> QED
      BY <3>1, <3>2
        DEF SendSide, OneWriteAtATime, NoStrandedReply, FrontIsThere, FailureIsFinal
  <2> QED
    BY <2>1, <2>2
<1> QED
  BY <1>4, <1>5, <1>6, <1>7

\* HandleWrite.
LEMMA HandleWriteIInv ==
  ASSUME IInv, NEW s \in Session, HandleWrite(s)
  PROVE  IInv'
<1> USE DEF IInv, clientVars, listVars, readVars, sendVars, logicVars, otherVars
<1>1. /\ handler[s] # "none" /\ writing[s] = <<>>
      /\ ~Starting(s) /\ send_que[s] # <<>>
  BY OneInCharge
    DEF HandleWrite, WritePop, WriteNext, WriteErrorClose, WriteErrorClear
<1>2. WorkerServes' /\ \A u \in Session : Starting(u)' <=> Starting(u)
  BY DEF HandleWrite, WritePop, WriteNext, WriteErrorClose, WriteErrorClear,
    WorkerServes, Starting, Request
<1>3. /\ Tail(send_que[s]) \in Seq(Message)
      /\ Head(send_que[s]) \in Message
      /\ Len(Tail(send_que[s])) <= MAX_SENDQUE + 1
      /\ Tail(send_que[s]) = <<>> <=> Len(send_que[s]) = 1
  <2>1. send_que[s] \in Seq(Message) /\ Len(send_que[s]) <= MAX_SENDQUE + 1
    BY DEF TypeOK
  <2>2. /\ Tail(send_que[s]) \in Seq(Message)
        /\ Head(send_que[s]) \in Message
        /\ Len(send_que[s]) \in Nat \ {0}
        /\ Len(Tail(send_que[s])) = Len(send_que[s]) - 1
        /\ Tail(send_que[s]) = <<>> <=> Len(send_que[s]) = 1
    BY <1>1, <2>1, QueuePop
  <2> QED
    BY <2>1, <2>2, CoroutineAssumption
<1>4. CASE WritePop(s)
  <2>1. TypeOK'
    BY <1>3, <1>4 DEF TypeOK, WritePop
  <2>2. CoroutineSide'
    BY <1>4, CoroutineSideKept DEF TypeOK, WritePop
  <2>3. /\ send_que'[s] = Tail(send_que[s]) /\ handler[s] = "ok"
        /\ handler'[s] = IF Tail(send_que[s]) = <<>> THEN "none" ELSE "next"
        /\ \A u \in Session \ {s} : send_que'[u] = send_que[u] /\ handler'[u] = handler[u]
        /\ UNCHANGED <<writing, failed>>
    BY <1>3, <1>4 DEF TypeOK, WritePop
  <2>4. SendSide'
    <3>1. OneWriteAtATime' /\ FrontIsThere'
      BY <1>1, <1>2, <2>3 DEF SendSide, OneWriteAtATime, FrontIsThere, InCharge
    <3>2. NoStrandedReply' /\ FailureIsFinal'
      BY <1>1, <1>2, <2>3 DEF SendSide, NoStrandedReply, FailureIsFinal, InCharge
    <3> QED
      BY <3>1, <3>2 DEF SendSide
  <2> QED
    BY <1>2, <2>1, <2>2, <2>4
<1>5. CASE WriteNext(s)
  <2>1. writing' = [writing EXCEPT ![s] = <<Head(send_que[s])>>]
    BY <1>1, <1>3, <1>5, OneElement DEF TypeOK, WriteNext, StartWrite
  <2>2. TypeOK'
    <3>1. writing' \in [Session -> Seq(Message)]
      BY <1>3, <2>1, EmptySeq DEF TypeOK
    <3>2. handler' \in [Session -> {"none", "ok", "error", "next", "clear"}]
      BY <1>5 DEF TypeOK, WriteNext
    <3> QED
      BY <1>5, <3>1, <3>2 DEF TypeOK, WriteNext
  <2>3. CoroutineSide'
    BY <1>5, CoroutineSideKept DEF TypeOK, WriteNext
  <2>4. /\ writing'[s] # <<>> /\ Len(writing'[s]) = 1
        /\ Head(writing'[s]) = Head(send_que[s])
        /\ handler[s] = "next" /\ handler'[s] = "none"
        /\ \A u \in Session \ {s} : writing'[u] = writing[u] /\ handler'[u] = handler[u]
        /\ UNCHANGED <<send_que, failed>>
    BY <1>3, <1>5, <2>1, OneElement DEF TypeOK, WriteNext
  <2>5. SendSide'
    <3>1. OneWriteAtATime' /\ FrontIsThere'
      BY <1>1, <1>2, <2>4 DEF SendSide, OneWriteAtATime, FrontIsThere, InCharge
    <3>2. NoStrandedReply' /\ FailureIsFinal'
      BY <1>1, <1>2, <2>4 DEF SendSide, NoStrandedReply, FailureIsFinal, InCharge
    <3> QED
      BY <3>1, <3>2 DEF SendSide
  <2> QED
    BY <1>2, <2>2, <2>3, <2>5
<1>6. CASE WriteErrorClose(s) \/ WriteErrorClear(s)
  <2>1. failed[s]
    BY <1>6 DEF CoroutineSide, CoroutineHeld, WriteErrorClose, WriteErrorClear
  <2>2. TypeOK'
    BY <1>6 DEF TypeOK, Suspended, Due, WriteErrorClose, WriteErrorClear, Close,
      ClearSesseion
  <2>3. CoroutineSide'
    <3>1. /\ co' = co \/ (co[s] \in Suspended /\ co' = [co EXCEPT ![s] = "error"])
          /\ UNCHANGED <<accepting, recv, failed>>
          /\ \A u \in Session \ {s} : listed'[u] = listed[u] /\ handler'[u] = handler[u]
      <4>1. CASE WriteErrorClose(s)
        BY <4>1 DEF TypeOK, WriteErrorClose, Close
      <4>2. CASE WriteErrorClear(s)
        BY <4>2 DEF TypeOK, WriteErrorClear, ClearSesseion
      <4> QED
        BY <1>6, <4>1, <4>2
    <3>2. HeaderRead'
      BY <3>1 DEF TypeOK, CoroutineSide, HeaderRead
    <3>3. CoroutineHeld' /\ StaleOnlyAfterFailure'
      BY <2>1, <3>1
        DEF TypeOK, Suspended, CoroutineSide, CoroutineHeld, StaleOnlyAfterFailure
    <3> QED
      BY <3>2, <3>3 DEF CoroutineSide
  <2>4. SendSide'
    <3>1. /\ handler'[s] \in {"none", "clear"}
          /\ \A u \in Session \ {s} : handler'[u] = handler[u]
          /\ UNCHANGED <<send_que, writing, failed>>
      BY <1>6 DEF TypeOK, WriteErrorClose, WriteErrorClear
    <3>2. OneWriteAtATime' /\ FrontIsThere'
      BY <1>1, <1>2, <3>1
        DEF SendSide, OneWriteAtATime, FrontIsThere, InCharge
    <3>3. NoStrandedReply' /\ FailureIsFinal'
      BY <1>1, <1>2, <2>1, <3>1
        DEF SendSide, NoStrandedReply, FailureIsFinal, InCharge
    <3> QED
      BY <3>2, <3>3 DEF SendSide
  <2> QED
    BY <1>2, <2>2, <2>3, <2>4
<1> QED
  BY <1>4, <1>5, <1>6 DEF HandleWrite

-----------------------------------------------------------------------------
LEMMA NextIInv == IInv /\ [Next]_vars => IInv'
<1> SUFFICES ASSUME IInv, [Next]_vars PROVE IInv'
  OBVIOUS
<1>1. CASE UNCHANGED vars
  <2>1. TypeOK' /\ WorkerServes'
    BY <1>1 DEF IInv, TypeOK, WorkerServes, vars, clientVars, listVars, readVars,
      sendVars, logicVars
  <2> QED
    BY <1>1, <2>1, SendSideKept, CoroutineSideKept DEF IInv, Starting, Request, vars,
      clientVars, listVars, readVars, sendVars, logicVars
<1>2. CASE ClientStep \/ MainStep
  BY <1>2, ClientIInv, MainIInv DEF ClientStep, MainStep
<1>3. CASE NetworkStep
  BY <1>3, ReadIInv, WriteIInv DEF NetworkStep
<1>4. CASE PoolStep
  BY <1>4, CoroutineIInv, PostIInv, HandleWriteIInv DEF PoolStep, CoroutineStep
<1>5. CASE WorkerStep
  BY <1>5, WorkerIInv
<1> QED
  BY <1>1, <1>2, <1>3, <1>4, <1>5 DEF Next

LEMMA Inductive == Spec => []IInv
BY InitIInv, NextIInv, PTL DEF Spec

\* Every variable keeps its type; _send_que never holds more than
\* MAX_SENDQUE + 1 replies.
THEOREM TypeCorrect == Spec => []TypeOK
<1>1. IInv => TypeOK
  BY DEF IInv
<1> QED
  BY <1>1, Inductive, PTL

\* No two writes of a session are in flight at a time, although they are
\* started without _send_lock, and what is written is the front of _send_que.
THEOREM OneWrite == Spec => []OneWriteAtATime
<1>1. IInv => OneWriteAtATime
  BY DEF IInv, SendSide
<1> QED
  BY <1>1, Inductive, PTL

\* Until a write fails, a queued reply has someone in charge of it.
THEOREM NoReplyForgotten == Spec => []NoStrandedReply
<1>1. IInv => NoStrandedReply
  BY DEF IInv, SendSide
<1> QED
  BY <1>1, Inductive, PTL

\* The coroutine runs in a session that is gone only after a failed write.
THEOREM OutlivesUnlessFailed == Spec => []StaleOnlyAfterFailure
<1>1. IInv => StaleOnlyAfterFailure
  BY DEF IInv, CoroutineSide
<1> QED
  BY <1>1, Inductive, PTL

-----------------------------------------------------------------------------
(***************************************************************************)
(* The sending side of every session implements ReplyChannel.              *)
(***************************************************************************)
LEMMA InitRefines == Init => \A s \in Session : RC(s)!Init
BY DEF Init, RC!Init, Unwritten

\* A session whose replies, refusals and failure stay as they are stutters.
LEMMA SessionStutters ==
  ASSUME NEW s \in Session,
         wire'[s] = wire[s], refused'[s] = refused[s], failed'[s] = failed[s],
         Unwritten(s)' = Unwritten(s)
  PROVE  UNCHANGED RC(s)!vars
BY DEF RC!vars

\* Send, into the queue.
LEMMA PushIsAccept ==
  ASSUME IInv, SendPush, NEW s \in Session
  PROVE  (\E m \in Message : RC(s)!Accept(m)) \/ UNCHANGED RC(s)!vars
<1> DEFINE r == Request.session
<1>1. /\ r \in Session /\ Request.msg \in Message
      /\ send_que \in [Session -> Seq(Message)]
  BY FrontRequest DEF IInv, WorkerServes, SendPush, TypeOK
<1>2. /\ send_que' = [send_que EXCEPT ![r] = Append(@, Request.msg)]
      /\ UNCHANGED <<wire, handler, failed, refused>>
      /\ Len(send_que[r]) <= MAX_SENDQUE
  BY DEF SendPush
<1>3. CASE s = r
  <2>1. handler[s] = "ok" => send_que[s] # <<>>
    BY DEF IInv, SendSide, FrontIsThere, InCharge
  <2>2. send_que[s] # <<>> =>
          Tail(Append(send_que[s], Request.msg)) = Append(Tail(send_que[s]), Request.msg)
    BY <1>1, HeadTailAppend
  <2>3. Unwritten(s)' = Append(Unwritten(s), Request.msg)
    BY <1>1, <1>2, <1>3, <2>1, <2>2 DEF Unwritten
  <2>4. Len(Unwritten(s)) <= MAX_SENDQUE
    <3>1. Len(send_que[s]) \in Nat
      BY <1>1, LenProperties
    <3>2. send_que[s] # <<>> => Len(Tail(send_que[s])) = Len(send_que[s]) - 1
      BY <1>1, QueuePop
    <3>3. /\ Len(send_que[s]) <= MAX_SENDQUE
          /\ send_que[s] # <<>> => Len(Tail(send_que[s])) <= MAX_SENDQUE
      BY <1>2, <1>3, <3>1, <3>2, CoroutineAssumption
    <3> QED
      BY <2>1, <3>3 DEF Unwritten
  <2>5. RC(s)!Accept(Request.msg)
    BY <1>2, <2>3, <2>4 DEF RC!Accept
  <2> QED
    BY <1>1, <2>5
<1>4. CASE s # r
  BY <1>1, <1>2, <1>4, SessionStutters DEF Unwritten
<1> QED
  BY <1>3, <1>4

\* Send, on a full queue: all but the reply that is being taken out wait.
LEMMA RefuseIsRefuse ==
  ASSUME IInv, SendRefuse, NEW s \in Session
  PROVE  (\E m \in Message : RC(s)!Refuse(m)) \/ UNCHANGED RC(s)!vars
<1> DEFINE r == Request.session
<1>1. /\ r \in Session /\ Request.msg \in Message
      /\ send_que[r] \in Seq(Message)
      /\ refused \in [Session -> Seq(Message)]
  BY FrontRequest DEF IInv, WorkerServes, SendRefuse, TypeOK
<1>2. /\ refused' = [refused EXCEPT ![r] = Append(@, Request.msg)]
      /\ UNCHANGED <<wire, send_que, handler, failed>>
      /\ Len(send_que[r]) > MAX_SENDQUE
  BY DEF SendRefuse
<1>3. CASE s = r
  <2>1. Len(send_que[r]) \in Nat /\ (Len(send_que[r]) = 0 <=> send_que[r] = <<>>)
    BY <1>1, EmptySeq, LenProperties
  <2>2. send_que[r] # <<>> /\ Len(Tail(send_que[r])) = Len(send_que[r]) - 1
    BY <1>1, <1>2, <2>1, QueuePop, CoroutineAssumption
  <2>3. Len(Unwritten(s)) >= MAX_SENDQUE
    BY <1>2, <1>3, <2>1, <2>2, CoroutineAssumption DEF Unwritten
  <2>4. Unwritten(s)' = Unwritten(s) /\ wire'[s] = wire[s] /\ failed'[s] = failed[s]
    BY <1>2 DEF Unwritten
  <2>5. refused'[s] = Append(refused[s], Request.msg)
    BY <1>1, <1>2, <1>3
  <2>6. RC(s)!Refuse(Request.msg)
    BY <2>3, <2>4, <2>5 DEF RC!Refuse
  <2> QED
    BY <1>1, <2>6
<1>4. CASE s # r
  BY <1>1, <1>2, <1>4, SessionStutters DEF Unwritten
<1> QED
  BY <1>3, <1>4

\* A write that succeeds delivers the front of the queue.
LEMMA DoneIsDeliver ==
  ASSUME IInv, NEW u \in Session, WriteDone(u), NEW s \in Session
  PROVE  RC(s)!Deliver \/ UNCHANGED RC(s)!vars
<1>1. /\ writing[u] # <<>> /\ handler[u] = "none"
      /\ handler' = [handler EXCEPT ![u] = "ok"]
      /\ wire' = [wire EXCEPT ![u] = Append(@, Head(writing[u]))]
      /\ UNCHANGED <<send_que, failed, refused>>
  BY DEF WriteDone
<1>2. handler \in [Session -> {"none", "ok", "error", "next", "clear"}]
      /\ wire \in [Session -> Seq(Message)]
  BY DEF IInv, TypeOK
<1>3. CASE s = u
  <2>1. send_que[s] # <<>> /\ Head(writing[s]) = Head(send_que[s]) /\ ~failed[s]
    BY <1>1, <1>3, OneInCharge DEF IInv, SendSide, FailureIsFinal
  <2>2. Unwritten(s) = send_que[s] /\ Unwritten(s)' = Tail(send_que[s])
    BY <1>1, <1>2, <1>3 DEF Unwritten
  <2>3. wire'[s] = Append(wire[s], Head(send_que[s]))
    BY <1>1, <1>2, <1>3, <2>1
  <2> QED
    BY <1>1, <2>1, <2>2, <2>3 DEF RC!Deliver
<1>4. CASE s # u
  BY <1>1, <1>2, <1>4, SessionStutters DEF Unwritten
<1> QED
  BY <1>3, <1>4

\* A write that fails breaks the channel.
LEMMA FailIsBreak ==
  ASSUME IInv, NEW u \in Session, WriteFail(u), NEW s \in Session
  PROVE  RC(s)!Break \/ UNCHANGED RC(s)!vars
<1>1. /\ handler[u] = "none"
      /\ handler' = [handler EXCEPT ![u] = "error"]
      /\ failed' = [failed EXCEPT ![u] = TRUE]
      /\ UNCHANGED <<wire, send_que, refused>>
  BY DEF WriteFail
<1>2. /\ handler \in [Session -> {"none", "ok", "error", "next", "clear"}]
      /\ failed \in [Session -> BOOLEAN]
  BY DEF IInv, TypeOK
<1>3. Unwritten(s)' = Unwritten(s)
  BY <1>1, <1>2 DEF Unwritten
<1>4. CASE s = u
  BY <1>1, <1>2, <1>3, <1>4 DEF RC!Break
<1>5. CASE s # u
  BY <1>1, <1>2, <1>3, <1>5, SessionStutters
<1> QED
  BY <1>4, <1>5

\* The handler pops the reply that is on the connection already.
LEMMA HandlerStutters ==
  ASSUME IInv, NEW u \in Session, HandleWrite(u), NEW s \in Session
  PROVE  UNCHANGED RC(s)!vars
<1>1. /\ handler \in [Session -> {"none", "ok", "error", "next", "clear"}]
      /\ send_que \in [Session -> Seq(Message)]
  BY DEF IInv, TypeOK
<1>2. UNCHANGED <<wire, refused, failed>>
  BY DEF HandleWrite, WritePop, WriteNext, WriteErrorClose, WriteErrorClear
<1>3. Unwritten(s)' = Unwritten(s)
  BY <1>1 DEF HandleWrite, WritePop, WriteNext, WriteErrorClose, WriteErrorClear,
    Unwritten
<1> QED
  BY <1>2, <1>3, SessionStutters

\* Everything else leaves the replies alone.
LEMMA OthersStutter ==
  ASSUME UNCHANGED <<wire, send_que, handler, failed, refused>>, NEW s \in Session
  PROVE  UNCHANGED RC(s)!vars
BY SessionStutters DEF Unwritten

\* Every step is one of the channel's, or leaves it alone.
LEMMA StepDelivers ==
  ASSUME IInv, [Next]_vars, NEW s \in Session
  PROVE  RC(s)!Next \/ UNCHANGED RC(s)!vars
<1>1. CASE SendPush \/ SendRefuse
  BY <1>1, PushIsAccept, RefuseIsRefuse DEF RC!Next
<1>2. CASE \E u \in Session : WriteDone(u) \/ WriteFail(u)
  BY <1>2, DoneIsDeliver, FailIsBreak DEF RC!Next
<1>3. CASE \E u \in Session : HandleWrite(u)
  BY <1>3, HandlerStutters
<1>4. CASE UNCHANGED <<wire, send_que, handler, failed, refused>>
  BY <1>4, OthersStutter
<1> QED
  <2>1. CASE UNCHANGED vars
    BY <1>4, <2>1 DEF vars, sendVars
  <2>2. CASE ClientStep \/ MainStep
    BY <1>4, <2>2 DEF ClientStep, MainStep, ClientLeave, ClientSend, AcceptStart,
      AcceptInsert, besideVars, sendVars
  <2>3. CASE NetworkStep
    BY <1>2, <1>4, <2>3 DEF NetworkStep, ReadDone, ReadError, besideVars, sendVars
  <2>4. CASE PoolStep
    BY <1>3, <1>4, <2>4 DEF PoolStep, CoroutineStep, ReadNext, AcceptHead, RejectHead,
      TakeBody, Post, CatchError, CoroutineClear, RunsStale, besideVars, sendVars
  <2>5. CASE WorkerStep
    BY <1>1, <1>4, <2>5 DEF WorkerStep, DealMsg, SendStart, sendVars
  <2> QED
    BY <2>1, <2>2, <2>3, <2>4, <2>5 DEF Next

\* Each session's replies reach its connection in the order of the calls of
\* Send, none twice and none after a failure; one is refused only when
\* MAX_SENDQUE are waiting.
THEOREM Refinement == Spec => ImplementsReplyChannel
<1>1. IInv /\ [Next]_vars => [\A s \in Session : [RC(s)!Next]_(RC(s)!vars)]_vars
  BY StepDelivers
<1>2. Init => \A s \in Session : RC(s)!Init
  BY InitRefines
<1> QED
  BY <1>1, <1>2, Inductive, PTL DEF Spec, ImplementsReplyChannel
=============================================================================
