-------------------------- MODULE CoroutineSession --------------------------
(***************************************************************************)
(* CorotineServer from end to end: its clients, the coroutine and the      *)
(* write handlers of each CSession, the list of CServer, and the worker of *)
(* LogicSystem, which calls Send for every request.                        *)
(*                                                                         *)
(*   main     HandleAcceptor starts a session, then lists it               *)
(*   pool     one thread: it resumes the coroutines and runs HandleWrite   *)
(*   worker   serves one request at a time, with LogicSystem's _mutex held *)
(*                                                                         *)
(* A co_await on async_read ends with as many bytes as were asked for, so  *)
(* a message is a header, which stands for its id and its length, and a    *)
(* body.  A critical section of _send_lock or of CServer's _mutex is one   *)
(* action: it never waits inside.  What LogicSystem does to wake its       *)
(* worker is in LogicSystem.                                               *)
(*                                                                         *)
(* The coroutine holds no reference to its session.  If it runs when the   *)
(* last one is gone its behaviour is undefined, and the model ends.        *)
(***************************************************************************)
EXTENDS Numbered

CONSTANTS
  Session,        \* the connections
  None,           \* not a session
  Ids,            \* the message ids clients use
  Valid,          \* those a header is accepted with
  Registered,     \* those with a callback: MSG_HELLO_WORLD
  Empty,          \* those of messages that have no body
  MAX_SENDQUE,    \* MAX_SENDQUE
  MaxRequests,    \* bound: the requests of a client
  Loads           \* what the clients do: whether each waits for its replies,
                  \* and the ids it may use for each of its requests; one
                  \* that asks nothing does not connect

ASSUME CoroutineAssumption ==
  /\ None \notin Session
  /\ Valid \subseteq Ids /\ Registered \subseteq Valid /\ Empty \subseteq Ids
  /\ MAX_SENDQUE \in Nat
  /\ MaxRequests \in Nat
  /\ \A l \in Loads : \A s \in Session :
       /\ l[s].waits \in BOOLEAN
       /\ l[s].asks \in Seq(SUBSET Ids)
       /\ Len(l[s].asks) <= MaxRequests

VARIABLES
  load,         \* what each client does
  sent,         \* the messages the client has sent
  stream,       \* the headers and bodies on their way to the session
  gone,         \* the client has closed the connection
  wire,         \* the replies written to the connection
  accepting,    \* the session HandleAcceptor is working on, or None
  listed,       \* CServer::_sessions holds the session
  missed,       \* the session was erased before it was inserted
  co,           \* the coroutine: where it is suspended, or runs
  recv,         \* _recv_head_node: the last header read
  closed,       \* _b_close, and _socket is closed
  received,     \* the messages posted to LogicSystem
  send_que,     \* _send_que
  writing,      \* the replies being written
  handler,      \* the HandleWrite that is due or runs
  failed,       \* a write has failed
  refused,      \* the replies Send has refused
  msg_que,      \* LogicSystem's _msg_que
  worker        \* what the worker does with its front; "idle": it does not
                \* hold LogicSystem's _mutex

clientVars == <<load, sent, gone>>
listVars == <<accepting, listed, missed>>
readVars == <<stream, co, recv, received>>
sendVars == <<wire, send_que, writing, handler, failed, refused>>
logicVars == <<msg_que, worker>>
vars == <<clientVars, listVars, readVars, closed, sendVars, logicVars>>

\* What no step of the worker or of a write touches, and what no step of a
\* coroutine touches that posts nothing.
otherVars == <<clientVars, listVars, readVars, closed>>
besideVars == <<clientVars, stream, recv, received, sendVars, logicVars>>

Message == [n : 1..MaxRequests, id : Ids]

\* Suspended, and resumed by a read that is pending; due to be resumed; running.
Suspended == {"head", "body"}
Due == {"spawned", "gotHead", "gotBody", "error"}
Running == {"post", "loop", "clear"}

Init ==
  /\ load \in Loads
  /\ sent = [s \in Session |-> <<>>]
  /\ stream = [s \in Session |-> <<>>]
  /\ gone = [s \in Session |-> FALSE]
  /\ wire = [s \in Session |-> <<>>]
  /\ accepting = None
  /\ listed = [s \in Session |-> FALSE]
  /\ missed = [s \in Session |-> FALSE]
  /\ co = [s \in Session |-> "none"]
  /\ recv = [s \in Session |-> None]
  /\ closed = [s \in Session |-> FALSE]
  /\ received = [s \in Session |-> <<>>]
  /\ send_que = [s \in Session |-> <<>>]
  /\ writing = [s \in Session |-> <<>>]
  /\ handler = [s \in Session |-> "none"]
  /\ failed = [s \in Session |-> FALSE]
  /\ refused = [s \in Session |-> <<>>]
  /\ msg_que = <<>>
  /\ worker = "idle"

\* The pool has one thread: what it runs, it runs until that waits or returns.
PoolFree ==
  \A s \in Session : co[s] \notin Running /\ handler[s] \notin {"next", "clear"}

\* Who holds a shared_ptr: HandleAcceptor, the list, the requests not yet
\* served, and the write handler.
Alive(s) ==
  \/ accepting = s
  \/ listed[s]
  \/ \E i \in DOMAIN msg_que : msg_que[i].session = s
  \/ writing[s] # <<>>
  \/ handler[s] # "none"

-----------------------------------------------------------------------------
(***************************************************************************)
(* The clients.                                                            *)
(***************************************************************************)
\* Client waits for the reply to all it has sent.
Answered(s) == Len(wire[s]) = Len(sent[s])

\* A message on the wire: its header, and its body if there is one.
Parts(m) == IF m.id \in Empty THEN <<m>> ELSE <<m, m>>

ClientSend(s, id) ==
  /\ co[s] # "none"
  /\ ~gone[s]
  /\ Len(sent[s]) < Len(load[s].asks)
  /\ id \in load[s].asks[Len(sent[s]) + 1]
  /\ load[s].waits => Answered(s)
  /\ LET m == [n |-> Len(sent[s]) + 1, id |-> id]
     IN  /\ sent' = [sent EXCEPT ![s] = Append(@, m)]
         /\ stream' = [stream EXCEPT ![s] = @ \o Parts(m)]
  /\ UNCHANGED <<load, gone, listVars, co, recv, received, closed, sendVars,
                 logicVars>>

\* The client ends, at any time; what it sent last may not arrive.
ClientLeave(s) ==
  /\ co[s] # "none"
  /\ ~gone[s]
  /\ gone' = [gone EXCEPT ![s] = TRUE]
  /\ \E n \in 0..Len(stream[s]) : stream' = [stream EXCEPT ![s] = SubSeq(@, 1, n)]
  /\ UNCHANGED <<load, sent, listVars, co, recv, received, closed, sendVars,
                 logicVars>>

-----------------------------------------------------------------------------
(***************************************************************************)
(* main: HandleAcceptor.                                                   *)
(***************************************************************************)
\* Start spawns the coroutine.
AcceptStart(s) ==
  /\ accepting = None
  /\ co[s] = "none"
  /\ load[s].asks # <<>>
  /\ accepting' = s
  /\ co' = [co EXCEPT ![s] = "spawned"]
  /\ UNCHANGED <<besideVars, listed, missed, closed>>

AcceptInsert(s) ==
  /\ accepting = s
  /\ accepting' = None
  /\ listed' = [listed EXCEPT ![s] = TRUE]
  /\ UNCHANGED <<clientVars, missed, readVars, closed, sendVars, logicVars>>

\* ClearSesseion.
ClearSesseion(s) ==
  /\ listed' = [listed EXCEPT ![s] = FALSE]
  /\ missed' = [missed EXCEPT ![s] = @ \/ accepting = s]
  /\ UNCHANGED accepting

-----------------------------------------------------------------------------
(***************************************************************************)
(* The reads of the coroutine: the network.                                *)
(***************************************************************************)
\* Mutant: the body stays in the stream.
ReadDoneKeepsBody(s) ==
  /\ co[s] \in Suspended
  /\ stream[s] # <<>>
  /\ \/ /\ co[s] = "head"
        /\ co' = [co EXCEPT ![s] = "gotHead"]
        /\ recv' = [recv EXCEPT ![s] = Head(stream[s])]
        /\ stream' = [stream EXCEPT ![s] = Tail(@)]
     \/ /\ co[s] = "body"
        /\ co' = [co EXCEPT ![s] = "gotBody"]
        /\ UNCHANGED <<recv, stream>>
  /\ UNCHANGED <<clientVars, listVars, received, closed, sendVars, logicVars>>

ReadDone(s) ==
  /\ co[s] \in Suspended
  /\ stream[s] # <<>>
  /\ stream' = [stream EXCEPT ![s] = Tail(@)]
  /\ \/ /\ co[s] = "head"
        /\ co' = [co EXCEPT ![s] = "gotHead"]
        /\ recv' = [recv EXCEPT ![s] = Head(stream[s])]
     \/ /\ co[s] = "body"
        /\ co' = [co EXCEPT ![s] = "gotBody"]
        /\ UNCHANGED recv
  /\ UNCHANGED <<clientVars, listVars, received, closed, sendVars, logicVars>>

\* The end of the connection inside or before a message.
ReadError(s) ==
  /\ co[s] \in Suspended
  /\ stream[s] = <<>>
  /\ gone[s]
  /\ co' = [co EXCEPT ![s] = "error"]
  /\ UNCHANGED <<besideVars, listVars, closed>>

-----------------------------------------------------------------------------
(***************************************************************************)
(* The coroutine of Start, on the pool.                                    *)
(***************************************************************************)
\* Close: the read that is pending ends with an error; so will a write.
Close(s, at) ==
  /\ closed' = [closed EXCEPT ![s] = TRUE]
  /\ co' = [co EXCEPT ![s] = at]

\* async_read into what the coroutine waits for; on a closed socket it fails.
StartRead(s, at) ==
  co' = [co EXCEPT ![s] = IF closed[s] THEN "error" ELSE at]

\* The coroutine may run: it is due and the pool is free, or it is running.
Runs(s, at) ==
  /\ co[s] = at
  /\ at \in Due => PoolFree
  /\ Alive(s)

\* The loop's test of _b_close, and the read of the next header.
ReadNext(s, at) ==
  /\ Runs(s, at)
  /\ \/ closed[s] /\ co' = [co EXCEPT ![s] = "done"]
     \/ ~closed[s] /\ StartRead(s, "head")
  /\ UNCHANGED <<besideVars, listVars, closed>>

\* Mutant: a body of no bytes is waited for.
AcceptHeadWaits(s) ==
  /\ Runs(s, "gotHead")
  /\ recv[s].id \in Valid
  /\ StartRead(s, "body")
  /\ UNCHANGED <<besideVars, listVars, closed>>

\* The header is accepted: read the body.  A read of no bytes ends at once.
AcceptHead(s) ==
  /\ Runs(s, "gotHead")
  /\ recv[s].id \in Valid
  /\ IF recv[s].id \in Empty
       THEN co' = [co EXCEPT ![s] = "gotBody"]
       ELSE StartRead(s, "body")
  /\ UNCHANGED <<besideVars, listVars, closed>>

\* The header is refused, or the read has thrown: Close, then ClearSesseion.
RejectHead(s) ==
  /\ Runs(s, "gotHead")
  /\ recv[s].id \notin Valid
  /\ Close(s, "clear")
  /\ UNCHANGED <<besideVars, listVars>>

\* Mutant: an exception ends the coroutine without ClearSesseion.
CatchErrorKeepsListed(s) ==
  /\ Runs(s, "error")
  /\ Close(s, "done")
  /\ UNCHANGED <<besideVars, listVars>>

CatchError(s) ==
  /\ Runs(s, "error")
  /\ Close(s, "clear")
  /\ UNCHANGED <<besideVars, listVars>>

\* Mutant: co_return is missing, and the loop goes on.
CoroutineClearContinues(s) ==
  /\ Runs(s, "clear")
  /\ ClearSesseion(s)
  /\ co' = [co EXCEPT ![s] = "loop"]
  /\ UNCHANGED <<besideVars, closed>>

CoroutineClear(s) ==
  /\ Runs(s, "clear")
  /\ ClearSesseion(s)
  /\ co' = [co EXCEPT ![s] = "done"]
  /\ UNCHANGED <<besideVars, closed>>

\* The body is there: the coroutine goes on to PostMsgToQue.
TakeBody(s) ==
  /\ Runs(s, "gotBody")
  /\ co' = [co EXCEPT ![s] = "post"]
  /\ UNCHANGED <<besideVars, listVars, closed>>

\* PostMsgToQue waits for the worker to give up _mutex.
Post(s) ==
  /\ Runs(s, "post")
  /\ worker = "idle"
  /\ msg_que' = Append(msg_que, [session |-> s, msg |-> recv[s]])
  /\ received' = [received EXCEPT ![s] = Append(@, recv[s])]
  /\ co' = [co EXCEPT ![s] = "loop"]
  /\ UNCHANGED <<clientVars, listVars, stream, recv, closed, sendVars, worker>>

\* The coroutine goes on in a session that has been destroyed.
RunsStale(s) ==
  /\ co[s] \in Due \cup Running
  /\ co[s] \in Due => PoolFree
  /\ ~Alive(s)
  /\ co' = [co EXCEPT ![s] = "stale"]
  /\ UNCHANGED <<besideVars, listVars, closed>>

CoroutineStep(s) ==
  \/ ReadNext(s, "spawned") \/ ReadNext(s, "loop")
  \/ AcceptHead(s) \/ RejectHead(s)
  \/ TakeBody(s) \/ Post(s)
  \/ CatchError(s) \/ CoroutineClear(s)
  \/ RunsStale(s)

-----------------------------------------------------------------------------
(***************************************************************************)
(* The worker: DealMsg, which calls HelloWorldCallBack, which calls Send.  *)
(***************************************************************************)
Request == Head(msg_que)

\* Take _mutex; a message without a callback is dropped.
DealMsg ==
  /\ worker = "idle"
  /\ msg_que # <<>>
  /\ \/ /\ Request.msg.id \in Registered
        /\ worker' = "send"
        /\ UNCHANGED msg_que
     \/ /\ Request.msg.id \notin Registered
        /\ msg_que' = Tail(msg_que)
        /\ UNCHANGED worker
  /\ UNCHANGED <<otherVars, sendVars>>

\* The callback returns: the request is popped and _mutex given up.
Return ==
  /\ msg_que' = Tail(msg_que)
  /\ worker' = "idle"

\* Mutant: the queue is full one reply earlier.
SendRefuseEarly ==
  /\ worker = "send"
  /\ LET s == Request.session
     IN  /\ Len(send_que[s]) >= MAX_SENDQUE
         /\ refused' = [refused EXCEPT ![s] = Append(@, Request.msg)]
  /\ Return
  /\ UNCHANGED <<otherVars, wire, send_que, writing, handler, failed>>

SendRefuse ==
  /\ worker = "send"
  /\ LET s == Request.session
     IN  /\ Len(send_que[s]) > MAX_SENDQUE
         /\ refused' = [refused EXCEPT ![s] = Append(@, Request.msg)]
  /\ Return
  /\ UNCHANGED <<otherVars, wire, send_que, writing, handler, failed>>

\* Mutant: the size of the queue is not looked at.
SendPushUnlimited ==
  /\ worker = "send"
  /\ LET s == Request.session
     IN  /\ send_que' = [send_que EXCEPT ![s] = Append(@, Request.msg)]
         /\ IF send_que[s] = <<>>
              THEN worker' = "start" /\ UNCHANGED msg_que
              ELSE Return
  /\ UNCHANGED <<otherVars, wire, writing, handler, failed, refused>>

\* Mutant: every reply is written at once.
SendPushStarts ==
  /\ worker = "send"
  /\ LET s == Request.session
     IN  /\ Len(send_que[s]) <= MAX_SENDQUE
         /\ send_que' = [send_que EXCEPT ![s] = Append(@, Request.msg)]
  /\ worker' = "start"
  /\ UNCHANGED <<otherVars, wire, writing, handler, failed, refused, msg_que>>

\* Push the reply; into an empty queue: unlock, then go on to write it.
SendPush ==
  /\ worker = "send"
  /\ LET s == Request.session
     IN  /\ Len(send_que[s]) <= MAX_SENDQUE
         /\ send_que' = [send_que EXCEPT ![s] = Append(@, Request.msg)]
         /\ IF send_que[s] = <<>>
              THEN worker' = "start" /\ UNCHANGED msg_que
              ELSE Return
  /\ UNCHANGED <<otherVars, wire, writing, handler, failed, refused>>

\* Mutant: the newest reply is written.
StartWriteNewest(s) == writing' = [writing EXCEPT ![s] = Append(@, Last(send_que[s]))]

\* async_write of the front of the queue.
StartWrite(s) == writing' = [writing EXCEPT ![s] = Append(@, Head(send_que[s]))]

SendStart ==
  /\ worker = "start"
  /\ StartWrite(Request.session)
  /\ Return
  /\ UNCHANGED <<otherVars, wire, send_que, handler, failed, refused>>

WorkerStep == DealMsg \/ SendRefuse \/ SendPush \/ SendStart

-----------------------------------------------------------------------------
(***************************************************************************)
(* The writes: the network, and HandleWrite on the pool.                   *)
(***************************************************************************)
\* A write ends: its reply is on the connection, or the connection is closed
\* at one of its ends.
WriteDone(s) ==
  /\ handler[s] = "none"
  /\ writing[s] # <<>>
  /\ ~closed[s]
  /\ wire' = [wire EXCEPT ![s] = Append(@, Head(writing[s]))]
  /\ writing' = [writing EXCEPT ![s] = Tail(@)]
  /\ handler' = [handler EXCEPT ![s] = "ok"]
  /\ UNCHANGED <<otherVars, send_que, failed, refused, logicVars>>

WriteFail(s) ==
  /\ handler[s] = "none"
  /\ writing[s] # <<>>
  /\ closed[s] \/ gone[s]
  /\ writing' = [writing EXCEPT ![s] = Tail(@)]
  /\ handler' = [handler EXCEPT ![s] = "error"]
  /\ failed' = [failed EXCEPT ![s] = TRUE]
  /\ UNCHANGED <<otherVars, wire, send_que, refused, logicVars>>

\* Mutant: HandleWrite leaves the replies that were queued meanwhile.
WritePopReturns(s) ==
  /\ handler[s] = "ok"
  /\ PoolFree
  /\ send_que' = [send_que EXCEPT ![s] = Tail(@)]
  /\ handler' = [handler EXCEPT ![s] = "none"]
  /\ UNCHANGED <<otherVars, wire, writing, failed, refused, logicVars>>

\* Mutant: the error is not looked at.
WritePopAnyway(s) ==
  /\ handler[s] \in {"ok", "error"}
  /\ PoolFree
  /\ send_que' = [send_que EXCEPT ![s] = Tail(@)]
  /\ handler' = [handler EXCEPT ![s] =
                   IF Len(send_que[s]) = 1 THEN "none" ELSE "next"]
  /\ UNCHANGED <<otherVars, wire, writing, failed, refused, logicVars>>

\* HandleWrite pops the reply and unlocks; it returns if the queue is empty.
WritePop(s) ==
  /\ handler[s] = "ok"
  /\ PoolFree
  /\ send_que' = [send_que EXCEPT ![s] = Tail(@)]
  /\ handler' = [handler EXCEPT ![s] =
                   IF Len(send_que[s]) = 1 THEN "none" ELSE "next"]
  /\ UNCHANGED <<otherVars, wire, writing, failed, refused, logicVars>>

\* The next write is started with _send_lock free.
WriteNext(s) ==
  /\ handler[s] = "next"
  /\ StartWrite(s)
  /\ handler' = [handler EXCEPT ![s] = "none"]
  /\ UNCHANGED <<otherVars, wire, send_que, failed, refused, logicVars>>

\* HandleWrite with an error: Close, then ClearSesseion.
WriteErrorClose(s) ==
  /\ handler[s] = "error"
  /\ PoolFree
  /\ Close(s, IF co[s] \in Suspended THEN "error" ELSE co[s])
  /\ handler' = [handler EXCEPT ![s] = "clear"]
  /\ UNCHANGED <<clientVars, listVars, stream, recv, received, wire, send_que,
                 writing, failed, refused, logicVars>>

WriteErrorClear(s) ==
  /\ handler[s] = "clear"
  /\ ClearSesseion(s)
  /\ handler' = [handler EXCEPT ![s] = "none"]
  /\ UNCHANGED <<clientVars, readVars, closed, wire, send_que, writing,
                 failed, refused, logicVars>>

HandleWrite(s) ==
  \/ WritePop(s) \/ WriteNext(s)
  \/ WriteErrorClose(s) \/ WriteErrorClear(s)

-----------------------------------------------------------------------------
Undefined == \E s \in Session : co[s] = "stale"

ClientStep == \E s \in Session : ClientLeave(s) \/ \E id \in Ids : ClientSend(s, id)
MainStep == \E s \in Session : AcceptStart(s) \/ AcceptInsert(s)
NetworkStep == \E s \in Session :
  ReadDone(s) \/ ReadError(s) \/ WriteDone(s) \/ WriteFail(s)
PoolStep == \E s \in Session : CoroutineStep(s) \/ HandleWrite(s)

Next ==
  /\ ~Undefined
  /\ ClientStep \/ MainStep \/ NetworkStep \/ PoolStep \/ WorkerStep

Spec == Init /\ [][Next]_vars

\* main, the pool and the worker keep running, and the network delivers what
\* was sent and ends what was started.  Nothing makes a client send, or leave.
Fairness ==
  /\ WF_vars(~Undefined /\ \E s \in Session : AcceptInsert(s))
  /\ WF_vars(~Undefined /\ NetworkStep)
  /\ WF_vars(~Undefined /\ PoolStep)
  /\ WF_vars(~Undefined /\ WorkerStep)

FairSpec == Spec /\ Fairness

-----------------------------------------------------------------------------
(***************************************************************************)
(* Properties.                                                             *)
(***************************************************************************)
\* Every variable has its type, and _send_que holds one reply more than
\* MAX_SENDQUE at most.
TypeOK ==
  /\ load \in Loads
  /\ sent \in [Session -> Seq(Message)]
  /\ stream \in [Session -> Seq(Message)]
  /\ gone \in [Session -> BOOLEAN]
  /\ wire \in [Session -> Seq(Message)]
  /\ accepting \in Session \cup {None}
  /\ listed \in [Session -> BOOLEAN]
  /\ missed \in [Session -> BOOLEAN]
  /\ co \in [Session -> {"none", "done", "stale"} \cup Suspended \cup Due \cup Running]
  /\ recv \in [Session -> Message \cup {None}]
  /\ closed \in [Session -> BOOLEAN]
  /\ received \in [Session -> Seq(Message)]
  /\ send_que \in [Session -> Seq(Message)]
  /\ \A s \in Session : Len(send_que[s]) <= MAX_SENDQUE + 1
  /\ writing \in [Session -> Seq(Message)]
  /\ handler \in [Session -> {"none", "ok", "error", "next", "clear"}]
  /\ failed \in [Session -> BOOLEAN]
  /\ refused \in [Session -> Seq(Message)]
  /\ msg_que \in Seq([session : Session, msg : Message])
  /\ worker \in {"idle", "send", "start"}

\* The worker is about to write a reply of s.
Starting(s) == worker = "start" /\ Request.session = s

\* Someone is in charge of the front of _send_que: a write, its handler, or
\* the worker, which starts a write after it has unlocked.
InCharge(s) == writing[s] # <<>> \/ handler[s] # "none" \/ Starting(s)

\* Although Send and HandleWrite start a write after they have given up
\* _send_lock, a session has one write at a time and one in charge of it, and
\* what is written is the front of _send_que, which stays there meanwhile.
OneWriteAtATime ==
  \A s \in Session :
    /\ writing[s] # <<>> => /\ Len(writing[s]) = 1
                            /\ send_que[s] # <<>>
                            /\ Head(writing[s]) = Head(send_que[s])
                            /\ handler[s] = "none"
    /\ Starting(s) => writing[s] = <<>> /\ handler[s] = "none"

\* No reply is stranded: unless a write has failed, a reply in the queue has
\* someone in charge, and an empty queue has no one.
NoStrandedReply ==
  \A s \in Session : ~failed[s] => (send_que[s] # <<>> <=> InCharge(s))

\* The session outlives its coroutine, which holds no reference to it, unless
\* a write has failed: main's and the list's references are enough when the
\* list is left by the coroutine's own ClearSesseion alone.
StaleOnlyAfterFailure == \A s \in Session : co[s] = "stale" => failed[s]

\* The replies in the queue that the connection does not have yet.
Unwritten(s) == IF handler[s] = "ok" THEN Tail(send_que[s]) ELSE send_que[s]

\* The requests that have a callback, which answers or refuses them.
Answerable == [n : 1..MaxRequests, id : Registered]

\* The requests of all sessions whose callback has not called Send yet, and
\* those of s that have one.
Unserved == IF worker = "start" THEN Tail(msg_que) ELSE msg_que
Waiting(s) ==
  LET mine == Selected(Unserved, [session : {s}, msg : Answerable])
  IN  [i \in DOMAIN mine |-> mine[i].msg]

\* Every request posted by a session is in one place, and in order: its reply
\* is on the connection or in _send_que, it waits in the queue that all
\* sessions share, or it was refused.  None is lost, answered twice, answered
\* out of turn or answered on the connection of another session.
RequestsAccounted ==
  \A s \in Session :
    Selected(received[s], Answerable \ Range(refused[s]))
      = wire[s] \o Unwritten(s) \o Waiting(s)

\* From end to end: what a client reads, in the order in which it reads it, is
\* the answer to its own requests in the order in which it sent them, without
\* a gap but for those that have no callback or were refused, however many it
\* has on their way and whoever else is served between them.
RepliesMatchRequests ==
  \A s \in Session :
    IsPrefix(wire[s], Selected(sent[s], Answerable \ Range(refused[s])))

\* A client that waits for its replies never has one refused, although a reply
\* that it has read may still stand in _send_que when its next request is
\* served: a queue for one reply besides is enough.
PatientNeverRefused ==
  MAX_SENDQUE > 0 => \A s \in Session : load[s].waits => refused[s] = <<>>

\* The session has read a header that it refuses.
Rejected(s) == recv[s] # None /\ recv[s].id \notin Valid

MS(s) == INSTANCE MessageStream
           WITH Valid <- [n : 1..MaxRequests, id : Valid],
                sent <- sent[s],
                received <- received[s],
                cleared <- Rejected(s)

\* What a session posts is what its client has sent, whole and in order up to
\* an invalid header: the exact reads keep the framing that HandleRead of the
\* other servers loses, for clients that do not wait too.
ImplementsMessageStream ==
  /\ \A s \in Session : MS(s)!Init
  /\ [][\A s \in Session : [MS(s)!Next]_(MS(s)!vars)]_vars

RC(s) == INSTANCE ReplyChannel
           WITH Reply <- Message,
                Capacity <- MAX_SENDQUE,
                waiting <- Unwritten(s),
                delivered <- wire[s],
                refused <- refused[s],
                broken <- failed[s]

\* Each session's replies reach its connection in the order of the calls of
\* Send, none twice; Send refuses one only when MAX_SENDQUE are waiting, and
\* always when more are.
ImplementsReplyChannel ==
  /\ \A s \in Session : RC(s)!Init
  /\ [][\A s \in Session : [RC(s)!Next]_(RC(s)!vars)]_vars

\* Every request with a callback is answered or refused, however the threads
\* wait for each other, unless its client leaves or then sends an invalid
\* header: that closes the socket under replies that were due.
RequestsAnswered ==
  \A s \in Session : \A n \in 1..MaxRequests :
    (\E i \in DOMAIN sent[s] : sent[s][i].n = n /\ sent[s][i].id \in Registered)
      ~> \/ \E m \in Range(wire[s]) \cup Range(refused[s]) : m.n = n
         \/ gone[s] \/ Rejected(s) \/ Undefined

\* Once its client has left a session is destroyed, with no reference to it
\* left anywhere, unless it ended before main had listed it.
ReleasedOnceGone ==
  \A s \in Session : gone[s] ~> (~Alive(s) \/ missed[s] \/ Undefined)
=============================================================================
