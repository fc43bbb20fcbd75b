------------------------------ MODULE CSession ------------------------------
(***************************************************************************)
(* One connected CSession of AsioThreadPool and SingleThreadAsyncServer:   *)
(* the handlers HandleRead and HandleWrite, which the I/O threads run, and *)
(* Send, which the logic thread calls for each request.                    *)
(*                                                                         *)
(*   HandleRead    posts the messages it has read, then reads again        *)
(*   Send          queues a reply, and writes it if the queue was empty    *)
(*   HandleWrite   pops the reply that was written, and writes the next    *)
(*                                                                         *)
(* Send and HandleWrite use _send_queue and start a write with _send_lock  *)
(* held.  In AsioThreadPool several threads run the handlers and a strand  *)
(* serialises those bound to it: every read, and the write Send starts,    *)
(* but not the write HandleWrite starts.  SingleThreadAsyncServer runs a   *)
(* session's handlers on one thread and has no strand.                     *)
(*                                                                         *)
(* Framing is abstracted: a completed read holds some complete messages, a *)
(* part of one, or an invalid header.                                      *)
(***************************************************************************)
EXTENDS Naturals, Sequences, SequencesExt

CONSTANTS
  IoThreads,      \* the threads running the session's io_context
  Logic,          \* the thread of LogicSystem, the only caller of Send
  Nobody,         \* the owner of a free lock or strand
  Strand,         \* are handlers bound to a strand?
  MAX_SENDQUE,    \* MAX_SENDQUE
  MaxRequests     \* bound: requests the client sends

\* Without a strand one thread runs the session's io_context.
ASSUME SessionThreads ==
  /\ ~Strand => \A t, u \in IoThreads : t = u
  /\ Logic \notin IoThreads
  /\ Nobody \notin IoThreads \cup {Logic}

ASSUME SessionLimits ==
  /\ Strand \in BOOLEAN
  /\ MAX_SENDQUE \in Nat
  /\ MaxRequests \in Nat

VARIABLES
  send_lock,    \* _send_lock: its owner, or Nobody
  send_queue,   \* _send_queue: the numbers of the replies
  writes,       \* started writes whose handler has not begun
  reading,      \* the read operation
  strand,       \* the thread running a handler of the strand, or Nobody
  open,         \* _socket is open
  listed,       \* CServer::_sessions holds the session
  pc,           \* what each thread does next
  requests,     \* messages posted to LogicSystem so far
  inbox,        \* those of them LogicSystem has not begun to serve
  wire,         \* the replies the client has received
  refused,      \* the replies Send has refused
  failed        \* a write has failed

vars == <<send_lock, send_queue, writes, reading, strand, open, listed, pc,
          requests, inbox, wire, refused, failed>>

queueVars == <<send_lock, send_queue, refused>>
requestVars == <<requests, inbox>>
socketVars == <<writes, reading, open, wire, failed>>

Threads == IoThreads \cup {Logic}
Reply == 1..MaxRequests
Results == {"pending", "ok", "error"}
Write == [msg : Reply, bound : BOOLEAN, result : Results]

LogicLabels == {"idle", "check", "start", "unlock"}
ReadLabels == {"read", "rearm", "armed"}
WriteLabels == {"wrote", "pop", "next", "unlock"}
IoLabels == {"idle", "close", "clear", "leave"} \cup ReadLabels \cup WriteLabels

-----------------------------------------------------------------------------
\* After Start: the first read is pending.
Init ==
  /\ send_lock = Nobody
  /\ send_queue = <<>>
  /\ writes = <<>>
  /\ reading = "pending"
  /\ strand = Nobody
  /\ open = TRUE
  /\ listed = TRUE
  /\ pc = [t \in Threads |-> "idle"]
  /\ requests = 0
  /\ inbox = 0
  /\ wire = <<>>
  /\ refused = <<>>
  /\ failed = FALSE

Goto(t, label) == pc' = [pc EXCEPT ![t] = label]

Lock(t) ==
  /\ send_lock = Nobody
  /\ send_lock' = t

Unlock == send_lock' = Nobody

\* MUTANT of StartWrite: the newest reply is written, not the front one.
StartWriteNewest(bound) ==
  /\ writes' = Append(writes,
                 [msg    |-> Last(send_queue),
                  bound  |-> bound,
                  result |-> IF open THEN "pending" ELSE "error"])
  /\ failed' = (failed \/ ~open)

\* async_write of the front of the queue; on a closed socket it fails.
StartWrite(bound) ==
  /\ writes' = Append(writes,
                 [msg    |-> Head(send_queue),
                  bound  |-> bound,
                  result |-> IF open THEN "pending" ELSE "error"])
  /\ failed' = (failed \/ ~open)

\* async_read_some; on a closed socket it fails.
StartRead == reading' = IF open THEN "pending" ELSE "error"

\* Close: the operations that are pending complete with an error.
Close ==
  /\ open' = FALSE
  /\ reading' = IF reading = "pending" THEN "error" ELSE reading
  /\ writes' = [i \in DOMAIN writes |->
                 [writes[i] EXCEPT !.result =
                    IF @ = "pending" THEN "error" ELSE @]]
  /\ failed' = (failed \/ \E i \in DOMAIN writes : writes[i].result = "pending")

-----------------------------------------------------------------------------
(***************************************************************************)
(* The network.  A read ends with data or an error, a write with the whole *)
(* message handed to the client or an error.                               *)
(***************************************************************************)
ReadDone(result) ==
  /\ reading = "pending"
  /\ reading' = result
  /\ UNCHANGED <<queueVars, requestVars, strand, listed, pc,
                 writes, open, wire, failed>>

WriteDone(i, result) ==
  /\ writes[i].result = "pending"
  /\ writes' = [writes EXCEPT ![i].result = result]
  /\ wire' = IF result = "ok" THEN Append(wire, writes[i].msg) ELSE wire
  /\ failed' = (failed \/ result = "error")
  /\ UNCHANGED <<queueVars, requestVars, strand, listed, pc, reading, open>>

-----------------------------------------------------------------------------
(***************************************************************************)
(* io_context::run on thread t: it takes a handler whose operation is      *)
(* complete.  A handler bound to the strand waits for it to be free.       *)
(***************************************************************************)
\* MUTANT of EnterStrand: the handlers are not bound to a strand.
EnterAnyway(t, bound) == UNCHANGED strand

EnterStrand(t, bound) ==
  IF Strand /\ bound
    THEN strand = Nobody /\ strand' = t
    ELSE UNCHANGED strand

RunRead(t) ==
  /\ pc[t] = "idle"
  /\ reading \in {"ok", "error"}
  /\ EnterStrand(t, TRUE)
  /\ Goto(t, IF reading = "ok" THEN "read" ELSE "close")
  /\ reading' = "none"
  /\ UNCHANGED <<queueVars, requestVars, listed, writes, open, wire, failed>>

RunWrite(t, i) ==
  /\ pc[t] = "idle"
  /\ writes[i].result \in {"ok", "error"}
  /\ EnterStrand(t, writes[i].bound)
  /\ Goto(t, IF writes[i].result = "ok" THEN "wrote" ELSE "close")
  /\ writes' = RemoveAt(writes, i)
  /\ UNCHANGED <<queueVars, requestVars, listed, reading, open, wire, failed>>

\* The handler returns.
Leave(t) ==
  /\ pc[t] \in {"armed", "leave"}
  /\ Goto(t, "idle")
  /\ strand' = IF strand = t THEN Nobody ELSE strand
  /\ UNCHANGED <<queueVars, requestVars, socketVars, listed>>

-----------------------------------------------------------------------------
(***************************************************************************)
(* HandleRead.                                                             *)
(***************************************************************************)
\* PostMsgToQue of a complete message; the buffer may hold more.
ReadMessage(t) ==
  /\ pc[t] = "read"
  /\ requests < MaxRequests
  /\ requests' = requests + 1
  /\ inbox' = inbox + 1
  /\ \E label \in {"read", "rearm"} : Goto(t, label)
  /\ UNCHANGED <<queueVars, socketVars, strand, listed>>

\* What is left is a part of a message.
ReadPart(t) ==
  /\ pc[t] = "read"
  /\ Goto(t, "rearm")
  /\ UNCHANGED <<queueVars, requestVars, socketVars, strand, listed>>

\* MUTANT of ReadInvalid: the session is cleared, yet read again.
ReadInvalidAndGoOn(t) ==
  /\ pc[t] = "read"
  /\ listed' = FALSE
  /\ Goto(t, "rearm")
  /\ UNCHANGED <<queueVars, requestVars, socketVars, strand>>

\* An invalid id or length: ClearSession, and the session is not read again.
ReadInvalid(t) ==
  /\ pc[t] = "read"
  /\ listed' = FALSE
  /\ Goto(t, "leave")
  /\ UNCHANGED <<queueVars, requestVars, socketVars, strand>>

\* HandleRead is not over when the next read has started: it still has
\* _b_head_parse to set.
ReadAgain(t) ==
  /\ pc[t] = "rearm"
  /\ StartRead
  /\ Goto(t, "armed")
  /\ UNCHANGED <<queueVars, requestVars, writes, open, wire, failed, strand,
                 listed>>

-----------------------------------------------------------------------------
(***************************************************************************)
(* HandleWrite, and the error path it shares with HandleRead.              *)
(***************************************************************************)
WriteLock(t) ==
  /\ pc[t] = "wrote"
  /\ Lock(t)
  /\ Goto(t, "pop")
  /\ UNCHANGED <<send_queue, refused, requestVars, socketVars, strand, listed>>

\* MUTANT of WritePop: the next write starts only if more than one waits.
WritePopLeavesOne(t) ==
  /\ pc[t] = "pop"
  /\ send_queue' = Tail(send_queue)
  /\ Goto(t, IF Len(send_queue') <= 1 THEN "unlock" ELSE "next")
  /\ UNCHANGED <<send_lock, refused, requestVars, socketVars, strand, listed>>

WritePop(t) ==
  /\ pc[t] = "pop"
  /\ send_queue' = Tail(send_queue)
  /\ Goto(t, IF send_queue' = <<>> THEN "unlock" ELSE "next")
  /\ UNCHANGED <<send_lock, refused, requestVars, socketVars, strand, listed>>

\* MUTANT of WriteNext: the next reply is not written.
WriteNothing(t) ==
  /\ pc[t] = "next"
  /\ Goto(t, "unlock")
  /\ UNCHANGED <<queueVars, requestVars, socketVars, strand, listed>>

\* The handler of this write is not bound to the strand.
WriteNext(t) ==
  /\ pc[t] = "next"
  /\ StartWrite(FALSE)
  /\ Goto(t, "unlock")
  /\ UNCHANGED <<queueVars, requestVars, reading, open, wire, strand, listed>>

WriteUnlock(t) ==
  /\ pc[t] = "unlock"
  /\ Unlock
  /\ Goto(t, "leave")
  /\ UNCHANGED <<send_queue, refused, requestVars, socketVars, strand, listed>>

ErrorClose(t) ==
  /\ pc[t] = "close"
  /\ Close
  /\ Goto(t, "clear")
  /\ UNCHANGED <<queueVars, requestVars, wire, strand, listed>>

ErrorClear(t) ==
  /\ pc[t] = "clear"
  /\ listed' = FALSE
  /\ Goto(t, "leave")
  /\ UNCHANGED <<queueVars, requestVars, socketVars, strand>>

-----------------------------------------------------------------------------
(***************************************************************************)
(* Send, called by the logic thread once for each request, whose reply has *)
(* the request's number.                                                   *)
(***************************************************************************)
\* MUTANT of ThisReply: the number of the request after this one.
NextReply == requests - inbox + 1

ThisReply == requests - inbox

SendLock ==
  /\ pc[Logic] = "idle"
  /\ inbox > 0
  /\ inbox' = inbox - 1
  /\ Lock(Logic)
  /\ Goto(Logic, "check")
  /\ UNCHANGED <<send_queue, refused, requests, socketVars, strand, listed>>

SendRefuse ==
  /\ pc[Logic] = "check"
  /\ Len(send_queue) > MAX_SENDQUE
  /\ refused' = Append(refused, ThisReply)
  /\ Goto(Logic, "unlock")
  /\ UNCHANGED <<send_lock, send_queue, requestVars, socketVars, strand, listed>>

\* MUTANT of SendPush: each reply starts a write of its own.
SendPushAndStart ==
  /\ pc[Logic] = "check"
  /\ Len(send_queue) <= MAX_SENDQUE
  /\ send_queue' = Append(send_queue, ThisReply)
  /\ Goto(Logic, "start")
  /\ UNCHANGED <<send_lock, refused, requestVars, socketVars, strand, listed>>

SendPush ==
  /\ pc[Logic] = "check"
  /\ Len(send_queue) <= MAX_SENDQUE
  /\ send_queue' = Append(send_queue, ThisReply)
  /\ Goto(Logic, IF send_queue = <<>> THEN "start" ELSE "unlock")
  /\ UNCHANGED <<send_lock, refused, requestVars, socketVars, strand, listed>>

SendStart ==
  /\ pc[Logic] = "start"
  /\ StartWrite(TRUE)
  /\ Goto(Logic, "unlock")
  /\ UNCHANGED <<queueVars, requestVars, reading, open, wire, strand, listed>>

SendUnlock ==
  /\ pc[Logic] = "unlock"
  /\ Unlock
  /\ Goto(Logic, "idle")
  /\ UNCHANGED <<send_queue, refused, requestVars, socketVars, strand, listed>>

-----------------------------------------------------------------------------
\* The session is held by the server's list, by each operation and the handler
\* that follows it, and by each request not yet served.
Referenced ==
  \/ listed
  \/ reading # "none"
  \/ writes # <<>>
  \/ inbox > 0
  \/ \E t \in Threads : pc[t] # "idle"

\* ~CSession.
Destruct ==
  /\ ~Referenced
  /\ open
  /\ open' = FALSE
  /\ UNCHANGED <<queueVars, requestVars, strand, listed, pc, writes, reading,
                 wire, failed>>

-----------------------------------------------------------------------------
Network ==
  \/ \E result \in {"ok", "error"} : ReadDone(result)
  \/ \E i \in DOMAIN writes, result \in {"ok", "error"} : WriteDone(i, result)

HandlerStep(t) ==
  \/ Leave(t)
  \/ ReadMessage(t)
  \/ ReadPart(t)
  \/ ReadInvalid(t)
  \/ ReadAgain(t)
  \/ WriteLock(t)
  \/ WritePop(t)
  \/ WriteNext(t)
  \/ WriteUnlock(t)
  \/ ErrorClose(t)
  \/ ErrorClear(t)

LogicStep ==
  \/ SendLock
  \/ SendRefuse
  \/ SendPush
  \/ SendStart
  \/ SendUnlock

RunAnyWrite == \E t \in IoThreads, i \in DOMAIN writes : RunWrite(t, i)
RunAnyRead == \E t \in IoThreads : RunRead(t)

Next ==
  \/ Network
  \/ RunAnyRead
  \/ RunAnyWrite
  \/ \E t \in IoThreads : HandlerStep(t)
  \/ LogicStep
  \/ Destruct

Spec == Init /\ [][Next]_vars

\* Running threads keep running, a strand serves its handlers in turn, and a
\* write that was started ends, with success or with an error.  Nothing makes
\* a client send.
Fairness ==
  /\ WF_vars(\E i \in DOMAIN writes, result \in {"ok", "error"} :
               WriteDone(i, result))
  /\ SF_vars(RunAnyRead)
  /\ SF_vars(RunAnyWrite)
  /\ \A t \in IoThreads : SF_vars(HandlerStep(t))
  /\ SF_vars(LogicStep)
  /\ WF_vars(Destruct)

FairSpec == Spec /\ Fairness

-----------------------------------------------------------------------------
(***************************************************************************)
(* Properties.                                                             *)
(***************************************************************************)
\* Every variable has its type.
TypeOK ==
  /\ send_lock \in Threads \cup {Nobody}
  /\ send_queue \in Seq(Reply)
  /\ writes \in Seq(Write)
  /\ reading \in Results \cup {"none"}
  /\ strand \in IoThreads \cup {Nobody}
  /\ open \in BOOLEAN
  /\ listed \in BOOLEAN
  /\ pc \in [Threads -> IoLabels \cup LogicLabels]
  /\ \A t \in IoThreads : pc[t] \in IoLabels
  /\ pc[Logic] \in LogicLabels
  /\ requests \in 0..MaxRequests
  /\ inbox \in 0..MaxRequests
  /\ wire \in Seq(Reply)
  /\ refused \in Seq(Reply)
  /\ failed \in BOOLEAN

\* Thread t is in charge of the front of the queue: about to start its write,
\* or about to pop it.
InCharge(t) ==
  \/ t = Logic /\ pc[t] = "start"
  \/ t \in IoThreads /\ pc[t] \in {"wrote", "pop", "next"}

\* One write at a time: Send and HandleWrite never start a second async_write
\* while one is under way, and the buffer being written is the front of
\* _send_queue, which stays there until the write's handler pops it.
OneWriteAtATime ==
  /\ Len(writes) <= 1
  /\ writes # <<>> => /\ send_queue # <<>>
                      /\ writes[1].msg = Head(send_queue)
                      /\ \A t \in Threads : ~InCharge(t)
  /\ \A t, u \in Threads : InCharge(t) /\ InCharge(u) => t = u

\* No reply is stranded: unless a write has failed, a non-empty queue always
\* has a write under way or a thread that will start one.
NoStrandedReply ==
  send_queue # <<>> /\ ~failed =>
    \/ writes # <<>>
    \/ \E t \in Threads : InCharge(t)

\* HandleRead never runs on two threads at once, although it is still running
\* when the read it has started completes.
OneReadAtATime ==
  \A t, u \in IoThreads :
    pc[t] \in ReadLabels /\ pc[u] \in ReadLabels => t = u

\* "Reads and writes become serial": HandleRead and HandleWrite of a session
\* never run at the same time.
ReadWriteSerial ==
  \A t, u \in IoThreads : ~(pc[t] \in ReadLabels /\ pc[u] \in WriteLabels)

\* Every accepted reply reaches the client, or the connection fails.
RepliesDelivered ==
  \A m \in Reply :
    (\E i \in 1..Len(send_queue) : send_queue[i] = m)
      ~> (failed \/ \E i \in 1..Len(wire) : wire[i] = m)

\* A session that was removed from the server's list is destroyed in the end,
\* with its socket closed: even after an invalid header, which does not call
\* Close.
ClearedSessionCloses == ~listed ~> ~open

-----------------------------------------------------------------------------
\* The reply at the front of the queue has reached the client.
FrontDelivered ==
  \/ writes # <<>> /\ writes[1].result = "ok"
  \/ \E t \in IoThreads : pc[t] \in {"wrote", "pop"}

RC == INSTANCE ReplyChannel
        WITH Capacity  <- MAX_SENDQUE,
             waiting   <- IF FrontDelivered THEN Tail(send_queue)
                                            ELSE send_queue,
             delivered <- wire,
             broken    <- failed

\* The session implements a FIFO channel: replies reach the client in the
\* order of the calls of Send, none twice, and are refused only when at least
\* MAX_SENDQUE are waiting, and always when more are.
ImplementsReplyChannel == RC!Spec
=============================================================================
