# Verification of the CPPMultiThreadServer_BoosAsio servers

The repository holds three TCP servers built on Boost.Asio that share one design, in three
threading layouts, and clients to load them:

| program | threads | sessions |
|---|---|---|
| `AsioThreadPool` | a pool running **one** `io_context`; main waits on a condition variable | callbacks, reads bound to a strand |
| `SingleThreadAsyncServer` | a pool in which each thread runs an `io_context` **of its own**; main runs one that accepts | callbacks, each session on one thread |
| `CorotineServer` | as above, one pool thread | one coroutine per session |

A message is a 2-byte id, a 2-byte length and a body of JSON. A session reads messages and posts
them to `LogicSystem`, a singleton with one worker thread; the worker runs the callback of the
message's id, which calls the session's `Send`; `Send` and the write handler put the replies on
the socket one after the other.

This directory holds TLA+ models of these parts, TLC configurations that check them on small
instances, and TLAPS proofs for all instances. `PROJECT.json` relates every definition to the
lines of source it models and lists runs, findings, hazards and theorems.

    tlc -config LogicSystem.cfg MCLogicSystem.tla      (likewise for the other configurations)
    tlapm LogicSystemProofs.tla                        (likewise the other modules named ...Proofs)

## 1. Inventory

### Components

**LogicSystem** (`LogicSystem.cpp`, three copies). State: `_msg_que`, `_mutex`, `_cv`, `_b_stop`,
the callback table. Operations: `PostMsgToQue` (any I/O thread), `DealMsg` (the worker), the
destructor. `AsioThreadPool` and `SingleThreadAsyncServer` unlock before notifying,
`CorotineServer` notifies under the lock; all notify only if the queue has just become non-empty.
Correct if: no wakeup is lost, the front of the queue is used by one thread, each message with a
callback is served exactly once and in posting order, and the destructor leaves nothing behind
and returns.

**CSession** (`CSession.cpp` of the two callback servers). State: `_send_queue` under
`_send_lock`, the pending read and writes, the socket, the reference-counted lifetime. Operations:
`Start`, `HandleRead`, `HandleWrite`, `Send`, `Close`, the destructor. `HandleRead` and
`HandleWrite` run on I/O threads, `Send` on LogicSystem's worker. Correct if: one write at a time
is under way, no reply is stranded in the queue, replies go out once and in order, refusals
happen only at the limit, and a session that has been cleared ends closed.

**Framing** (`HandleRead`, `MsgNode.cpp`). State: the buffer `_data`, `bytes_transferred`,
`copy_len`, `_recv_head_node`, `_recv_msg_node`, `_b_head_parse`. Correct if: whatever pieces TCP
delivers, the messages posted are those the client sent.

**CServer** (`CServer.cpp`, three copies). State: the acceptor and `_sessions`, which has a mutex
in `CorotineServer` only. Operations: `StartAccept`, `HandleAccept`, `ClearSession`, the latter
called from the sessions' handlers. Correct if: the map is used by one thread at a time, running
sessions are in it, ended ones are not, and the server never stops listening.

**Service pools and main** (`AsioIOServicePool.cpp`, `AsioThreadPool.cpp`, `main.cpp`). State: the
services, their work guards, the threads, the round-robin index, the signal set. Operations:
construction, `GetIOService`, `Stop`, the signal handler. Correct if: sessions are spread evenly but
for failed accepts, clients are served until they leave or have a header refused, and SIGINT leads
to an exit.

**Coroutine session** (`CorotineServer/CSession.cpp`). State: the coroutine of `Start`,
`_recv_head_node`, `_send_que` under `_send_lock`, `_b_close`, the socket. Operations: the reads of
a header and of a body, which `co_await` exactly as many bytes as they ask for, `Send` and
`HandleWrite`, which both start their write after unlocking, `Close` and the destructor. The
coroutine holds no reference to its session: main, the list, the requests with LogicSystem and the
writes do. Correct if: the messages posted are those the client sent, every request has its reply,
on its own connection and in its turn, whoever runs finds its session alive, and nothing refers to
a session for ever whose client has left.

**Clients**. `Client` sends a message and waits for the reply, 500 times on 100 connections: one
request at most is under way on each. `TestClient` is a blocking write and read. The echo
demonstration in `Asio协程`, the singletons, the constants and `SingleThreadAsyncServer`'s unused copy
of the thread pool have no behaviour of their own to model.

### Interactions

    client --bytes--> CSession::HandleRead --PostMsgToQue--> LogicSystem worker
    client <--bytes-- CSession::HandleWrite <----Send-------'
    acceptor -> CServer::HandleAccept -> CSession::Start ; handlers -> CServer::ClearSession
    SIGINT -> main's io_context -> pool Stop -> threads end -> main returns -> ~LogicSystem

### What is hard

Queues handed between threads with a conditional notification; writes chained by handlers while
another thread queues; handlers that start the operation whose handler races with them; a parser
that keeps its place across reads; sessions that may end before they are registered; a shutdown
that depends on what other threads still have pending. The `hazards` of `PROJECT.json` list these
line by line with the properties that guard them.

## 2. Modules

| module | models | kind |
|---|---|---|
| `LogicQueue` | what LogicSystem promises | abstract |
| `LogicSystem` | `PostMsgToQue`, `DealMsg`, `~LogicSystem` | component |
| `LogicSystemProofs` | | proofs |
| `ReplyChannel` | what sending replies promises | abstract |
| `CSession` | handlers, `Send`, strand, lifetime of a session | component |
| `CSessionProofs` | | proofs |
| `MessageStream` | what reading a connection promises | abstract |
| `ByteStream` | the client and the bytes it writes | environment |
| `HandleRead` | the parser | component, extends `ByteStream` |
| `HandleReadProofs` | | proofs |
| `CServer` | accepting and the list of sessions | component |
| `CServerProofs` | | proofs |
| `ServerMain` | pool, signal, `Stop`, exit | component |
| `ServerMainProofs` | | proofs |
| `CoroutineSession` | `CorotineServer` from client to client: coroutine, `Send`, `HandleWrite`, list, worker | composition; refines `MessageStream` and `ReplyChannel` per session |
| `CoroutineSessionProofs`, `CoroutineStreamProofs` | | proofs; the second of what a session posts and of the account of its requests |
| `Numbered` | what is selected from a sequence of numbered messages; ascending order | operators of `CoroutineSession` |
| `NumberedProofs` | | lemmas: induction over naturals, folds, ascending sequences |
| `MC…` | the instances TLC checks | |

Conventions. A step is what one thread does between two points at which another can see or change
shared state. `pc` (or `accept`, `main`, `phase`) says where in its function a thread is. A
definition named after a mutation and commented "Mutant" is a plausible bug of the definition
that follows it; nothing else uses it. It shows that a property can fail.

### LogicSystem

`mutex` is the owner of `_mutex`; a wait on `_cv` is the label `"waiting"`, which a notification
or a spurious wakeup turns into `"woken"`, from where the worker takes the mutex again. `PostLock`,
`PostPush`, `PostUnlock`, `PostNotify` and `PostLeave` are the lines of `PostMsgToQue` in the order of
the copy (`NotifyUnlocked`). `DealLock` to `DealPop` are the loop of `DealMsg`, the callback and the
pop apart although the mutex is held throughout; `DrainInvoke`, `DrainPop` and `DrainDone` are the
loop after `_b_stop`. `DestroyStop` and `DestroyNotify` do **not** take the mutex: the code does not.
The destructor runs when the I/O threads have finished posting, which is when static objects are
destroyed.

*LogicQueue* is a FIFO in which a message with a callback is called once when it leaves, and which
ends only when empty. `ImplementsLogicQueue` is the refinement.

### CSession

Replies are numbered. `writes` holds the writes that have been started and whose handlers have not
begun, each with whether its handler is bound to the strand; `strand` is the thread that runs a
strand handler. `Send` is `SendLock`, `SendRefuse` or `SendPush`, `SendStart`, `SendUnlock`;
`HandleWrite` is `RunWrite`, `WriteLock`, `WritePop`, `WriteNext`, `WriteUnlock`, or on an error
`ErrorClose`, `ErrorClear`; `HandleRead` is `RunRead` and one of `ReadMessage`, `ReadPart`,
`ReadInvalid`, and `ReadAgain`. A read is started inside the handler, before the handler returns, so the next
handler may begin while the first still runs: only the strand, or the single thread, prevents it.
`Destruct` closes the socket when nothing refers to the session any more (`Referenced`: the list,
the pending operations, the running handlers, the requests with LogicSystem). Framing is
abstracted to whole message, part, invalid header.

*ReplyChannel* delivers replies in order and at most once, refuses only when `MAX_SENDQUE` are
waiting and always when more are, and delivers nothing after a failure.

### Framing

`ByteStream` encodes messages; a header field takes one byte. A *patient* client waits for every
reply, as `Client` does. `HandleRead` keeps the code's variables and puts every copy where the code
puts it: both header copies start at the beginning of `_data`; the short-body branch advances
`_data` (`base`) and not `_cur_len` (`Len(body)`). A copy that does not fit its node ends the model
in phase `"undefined"`. JSON is not modelled, lengths are natural numbers. `written` is a history
variable: every byte the client has written, in order. `BytesInPlace` compares with it what is left
of `_data` and every body posted. It does not compare headers, because the code takes those that
are not the first of their read from the wrong place (finding 4).

### CServer

An access to `_sessions` has a begin (taking `_mutex` where there is one) and an end, at which the
change takes effect; accesses that overlap may leave anything in the map. The handlers of each
session are reduced to a reading one and a writing one, each of which may fail and then calls
`ClearSession`. Session identities are reused once a session is gone (uuids never repeat in the code).
`missed` is a history variable: sessions whose `ClearSession` found nothing to erase.

### ServerMain

`Server` says which of the three programs it is. `ThreadEnds` is the return of `run()`: no work
guard and no pending operation. A session is its pending read, the messages with LogicSystem and the
replies queued. `HandleSignal` is possible only if main runs the `io_context` of the signal set. The
handler runs on main's thread, so nothing is accepted while it does.

Error paths are actions of their own. `AcceptFail` is the other branch of `HandleAccept`: the socket
goes unused and `StartAccept` takes another turn of `GetIOService`; `accept_failed` counts these, per
service, as a history. (`CorotineServer` has no such branch; its session of a failed accept is one
whose client leaves at once.) `ReadInvalid` is the return of `HandleRead` that starts no read: the
callback servers leave the client connected (`rejected`), `CorotineServer` closes the socket.
`ReadFail` and `WriteFail` follow when a client has left; after a failed write the queue stays as it
is and no write starts again. `Destruct` closes the socket of a refused client once no request, write
or list entry holds its session. `"exited"` is the
return of main; `~LogicSystem`, which comes after it, is `LogicSystem`'s (finding 1).

### CoroutineSession

This module composes the parts of one server. `sent`, `stream`, `gone` and `wire` are the clients
and their connections; `accepting` is the session between `Start` and the insert of
`HandleAcceptor`; `co` says where the coroutine is; `msg_que` and `worker` are LogicSystem, whose
waiting and waking is left to its own module. What happens:

* *Reading.* `ReadNext` is the loop's test and the read of a header; `ReadDone` is the network
  completing that read or the next; `AcceptHead` starts the read of the body, which for a body of
  no bytes is complete at once; `TakeBody` and `Post` are the rest of the loop, `Post` waiting
  for the worker to give up `_mutex`. `RejectHead` and `CatchError` close, `CoroutineClear` then
  calls `ClearSesseion`. `async_read` hands over exactly the bytes asked for, so a message is two
  parts here, not bytes; `HandleRead` is where the bytes are.
* *Writing.* `SendPush` is the critical section of `Send` and `SendStart` the `async_write` behind
  it; `WritePop` and `WriteNext` are the same two halves of `HandleWrite`. Between the halves any
  other thread may act. `WriteErrorClose` and `WriteErrorClear` are the error path.
* *Threads.* main, one pool thread, the worker. `instance(1)` makes one thread, and what it has
  begun it finishes before it takes up another coroutine or handler (`PoolFree`); a wait for
  `_mutex` in `Post` keeps it. `GetIOService` of this server never advances its index.
* *Lifetime.* `Alive` lists who holds a `shared_ptr`. A coroutine that runs when nobody does is
  undefined behaviour: it becomes `"stale"` and the model ends there (`~Undefined` guards `Next`).

* *End to end.* `Unserved` is the queue of LogicSystem without the request whose callback has
  called `Send`; `Waiting` is what it holds of one session. `RequestsAccounted` relates what a
  session has posted to its connection, its `_send_que` and that shared queue;
  `RepliesMatchRequests` relates what a client reads to what it sent; `PatientNeverRefused` is what
  `MAX_SENDQUE` grants a client that waits.

A critical section of `_send_lock` or of CServer's `_mutex` is one action, since nothing waits
inside; LogicSystem's `_mutex` is held across the callback and is not. `_socket` is used by the
worker and by the pool without a lock; the model orders those uses and says nothing of the data
race itself.

## 3. Runs

| run | instance | shows |
|---|---|---|
| `logic_queue` | 2 posters of 2 messages, 2 ids (one without callback), unlock before notify; 16 984 states | `TypeOK`; `MutualExclusion`: `_mutex` is held by exactly the thread inside it; `NoLostWakeup`: the worker is not asleep with an unannounced message; `JoinedMeansDrained`; `ImplementsLogicQueue`; `EveryPostServed` |
| `logic_exit` | 2 posters of 1 message, notify under the lock | **violated** `DestructorReturns` |
| `session_strand` | 2 I/O threads, a strand, `MAX_SENDQUE` 2, 4 requests; 15 998 states | `TypeOK`; `OneWriteAtATime`; `NoStrandedReply`; `OneReadAtATime`; `ImplementsReplyChannel`; `RepliesDelivered`; `ClearedSessionCloses` |
| `session_serial` | the same | **violated** `ReadWriteSerial` |
| `framing` | streams of up to 3 of 4 messages, cut anywhere, patient and other clients; 47 246 states | `TypeOK`; `BytesInPlace`: the bodies posted are what was written at their places, and the parser goes on at the right byte; `OnlyTornAreLost`; `ReceivedAsSent` (refinement of `MessageStream` for patient clients) |
| `framing_split` | patient clients, cuts anywhere | **violated** `FramesIntact` |
| `framing_pipelined` | other clients, no cuts | **violated** `FramesIntact` |
| `registry` | 3 sessions, the locked server that ignores accept errors; 97 812 states | `TypeOK`; `SessionsExclusive`; `RunningIsListed`; `LeftOnlyIfMissed`; `AlwaysListening` |
| `registry_leak` | 2 sessions, `AsioThreadPool`'s server | **violated** `EndedIsRemoved` |
| `process_exit` | `SingleThreadAsyncServer`: 2 sessions, 2 threads, 1 failed accept per service, 2 messages pending; 81 012 states | `TypeOK`; `Balanced`: a service falls behind another by two sessions only by accepts that failed in its turn; `StoppedMeansQuiet`: after `Stop` nothing reads and only refused clients are connected; `ClientsAreServed`: all others have a read pending and a thread; `ExitsOnceClientsLeft` |
| `coroutine` | the loads below, `MAX_SENDQUE` 1; 45 997 states | `TypeOK`; `OneWriteAtATime`; `NoStrandedReply`; `StaleOnlyAfterFailure`; `RequestsAccounted`: every request posted is in one place and in order; `RepliesMatchRequests`: what a client reads is the beginning of the answers to its own requests, in order; `PatientNeverRefused`: a client that waits has no reply refused; `ImplementsMessageStream`; `ImplementsReplyChannel`; `RequestsAnswered`; `ReleasedOnceGone` |
| `process_exit_pool` | 2 sessions, `AsioThreadPool`'s main | **violated** `ExitsOnceClientsLeft` |

### Findings

1. **`~LogicSystem` may never return** (`AsioThreadPool/LogicSystem.cpp:14`, all copies).
   `_b_stop` is set and notified without `_mutex`. If the worker has tested `_b_stop` and not yet
   blocked, the only notification is lost and `join` waits for ever.
2. **Reads and writes of a session are not serial** (`AsioThreadPool/CSession.cpp:90`). The write
   started by `HandleWrite` is not bound to the strand, so `HandleWrite` and `HandleRead` run at
   the same time, against the comment at line 32. Nothing else in the model breaks: see
   `OneWriteAtATime`. The model takes concurrent use of `_socket` by the two to be harmless;
   Boost.Asio does not promise that.
3. **A body split over two reads is lost** (`CSession.cpp:158`): its first piece advances `_data`
   instead of `_cur_len`. A client that waits then waits for ever; more bytes overrun the node,
   and the moved pointer reaches `delete[]`. `OnlyTornAreLost` states what does get through.
4. **Two messages in one read are mixed up** (`CSession.cpp:125`): the second header is copied
   from the start of `_data`. `ReceivedAsSent` shows that clients which wait never meet this.
5. **A session can be listed for ever** (`CServer.cpp:25`): `Start` comes before the insert.
   `LeftOnlyIfMissed` shows it is the only way.
6. **SIGINT is never handled in `AsioThreadPool`** (`main.cpp:63`): no thread runs the `io_context`
   of the signal set.

### Observations

What the models show without a line of the repository to set against it:

* `Stop` does not wait for a client whose header was refused. Its session has no read pending, so
  nothing but writes under way keeps the thread: `Stop` can return, and main with it, while that
  client is connected and has requests with LogicSystem. `StoppedMeansQuiet` and `ClientsAreServed`
  except exactly these clients.
* Each failed accept uses up a turn of `GetIOService`. `Balanced` gives a service that much less.
* An invalid header closes the socket at once, under replies to earlier requests that are due.
  `RequestsAnswered` excepts this, and the departure of the client, and nothing else.
* A coroutine suspended in a read when a write fails is resumed by `Close` after
  `ClearSesseion` may have dropped the last reference: the `"stale"` case.
  `StaleOnlyAfterFailure` says that nothing but a failed write leads there.
* A body that is complete before a failed write closes the session is posted all the same. Its
  reply joins a queue that no longer moves (`FailureIsFinal` in the proofs).
* The tests `n == 0` behind the two reads never hold. The end of a connection arrives as an
  exception, and the result of the second read is compared with `n` and not assigned to it
  (`CorotineServer/CSession.cpp:74`): that is why a body of no bytes is accepted (`AcceptHead`).
* A session that fails between `Start` and the insert is listed for ever, as in finding 5.
  `ReleasedOnceGone` excepts exactly these (`missed`).

### Bounds

Every bound is a constant. Two posters with two messages reach all the ways a push, an early
unlock and a late notification interleave with the worker; a third post only repeats them
(the safety part is proved for any number). `MAX_SENDQUE` 2 with four requests fills the queue
past its limit, refuses, drains and fills again. Three messages per stream let a torn message be
followed by one that completes it wrongly and another that starts in the wrong place; the body
bytes read as valid and as invalid headers. Three sessions have one accepted while two others
clear. Two sessions and two failed accepts, on two threads, make the round robin wrap, put both
sessions on one service, and let one be refused or left while the other keeps a thread; `Balanced`,
`ClientsAreServed` and `StoppedMeansQuiet` are proved for any number, and for all three servers. The
coroutine's loads are one client alone with three requests, the first two of any id and the third to be answered, that waits
or does not; and two clients of one request each, of which the second is of any id. With
`MAX_SENDQUE` 1 the three fill the queue, have one refused or let it drain; a failed write can find
one request served, one with LogicSystem and one half read. Two sessions are enough to have both
wait for the pool, for the worker and in its queue. An id stands for a header: one is answered, one
is accepted without a callback and without a body, one is refused. `CHECK_DEADLOCK FALSE` is set
where the system may stop: after the destructor, when the client has gone, when a client has
sent all it may, when the process has exited.

### Fairness

Threads that can run do run (`WF`). `SF` is used where a thread competes for a mutex or the
strand: neither the C++ library nor Asio promises it, but all holders are short and finite, and
a queue of waiters that starves one thread for ever is not a behaviour the code could prevent.
The kernel completes the writes it was given, successfully or not: a peer that never reads can
keep a write pending for ever, and `RepliesDelivered`, `ClearedSessionCloses`, `RequestsAnswered` and
`ReleasedOnceGone` say nothing of such a peer. `ServerMain` assumes it
only of sessions whose client has left (`Drain`). Nothing forces a client to
connect, send or leave, a post or a destructor to begin, a signal to arrive, or a read to
complete; a thread that has begun a function finishes it. In `CoroutineSession` fairness is per
thread and not per action: `WF` of main's insert, of the network, of the pool thread as a whole
(`PoolStep`) and of the worker; clients are never forced to do anything. The code justifies these
because every critical section ends without waiting for anything but `_cv` or another short one.

## 4. Proofs

TLAPS checks, for every value of the constants that satisfies the named assumptions
(`ThreadsAssumption`, `DataAssumption`, `SessionThreads`, `SessionLimits`, `CServerAssumption`,
`StreamAssumption`, `MainAssumption`, `CoroutineAssumption`):

| module | theorems |
|---|---|
| `LogicSystemProofs` | `TypeCorrect`, `MutexIsSafe`, `NotifyOnFirstSuffices`, `ShutdownLosesNothing`, `Refinement` |
| `CSessionProofs` | `TypeCorrect`, `OneWrite`, `NoReplyForgotten`, `OneRead`, `Refinement` |
| `CServerProofs` | `TypeCorrect` (any server); `Exclusive`, `RunningListed`, `OnlyMissedIsLeft` (with `_mutex`) |
| `HandleReadProofs` | `TypeCorrect`, `Refinement` (of `MessageStream`, for patient clients), `TornOnly`, `NoByteMisplaced` (any client), `UncutIsIntact` |
| `ServerMainProofs` | `TypeCorrect`, `NoClientAbandoned`, `StopWaits`, `EvenlyDealt` |
| `CoroutineSessionProofs` | `TypeCorrect`, `OneWrite`, `NoReplyForgotten`, `OutlivesUnlessFailed`, `Refinement` (of `ReplyChannel`) |
| `CoroutineStreamProofs` | `Framing` (the refinement of `MessageStream`, for all clients), `Accounting`, `EndToEnd`, `PatientServed` |
| `NumberedProofs` | the lemmas on sequences that the two above rest on |

Every safety property that a passing run checks is stated by one of these theorems.

**LogicSystem.** The properties are not inductive alone. `WorkerSeesQueue` says that where the
worker uses the front there is one and where it goes to wait there is none; `StopOrder` ties
`_b_stop` to the destructor's and the worker's progress; `PostOrder` keeps the two orders of
unlock and notify apart. `NoLostWakeup` is then inductive because a post that finds the queue
empty owes a notification until it has given it, and one that does not find it empty follows one
that owes it or an awake worker. The refinement maps the queue to itself and each callback and
pop to one abstract step.

**CSession.** The idea is *charge of the front of the queue*: the thread that found the queue
empty, then the write it started, then the handler of that write has it, and the handler passes
it on if it leaves a non-empty queue. There is exactly one charge while the queue is not empty,
none while it is empty (`OneWriteAtATime`, `NoStrandedReply`, `ChargeOfFront`), and none after a
failed write (`FailureIsFinal`), which is why nothing is written after a failure. `SendLockHeld`
makes the lock's owner the thread between lock and unlock; `ReaderHasStrand` gives `OneRead`.

**CServer.** `MutexHeld` makes the users inside `_sessions` exactly the mutex's holder, so each
access takes effect as written. `NewIsFresh` says that a session not yet started runs nothing and
one not yet inserted is not listed. `ReadLeftMissed` strengthens `LeftOnlyIfMissed` to sessions
whose reads have ended, whatever their writes do, and covers the time before the insert.

**HandleRead.** For a patient client at most one message is on its way, and everything the session
holds is a piece of its encoding (`OneOnItsWay`, `Assembling`): what is still in the stream, what is
left of `_data`, the header kept, and the body kept unless the message was torn. Of a torn message
only the *number* of bytes used is known (`Taken`); that is enough, since a message is posted
only when as many bytes have come as its header says and a torn one waits for bytes that do not
exist. The lemmas about pieces of sequences (`Piece`, `PieceOfPiece`, `PiecesAdjoin`) carry the
arithmetic of `copy_len`. `Unfinished` (a header is kept only with a body that is not complete)
gives `OnlyTornAreLost`. All of it holds for any messages, any `MAX_LENGHT` and any cuts.

`NoByteMisplaced` is about any client. It is proved in three steps: the number of bytes used, left
and still in the stream is that of the bytes written (`Counted`); what is left and in the stream is
what was written next (`Ahead`); what has been posted and is kept of a body is what was written at its
place (`Behind`). The places come from the lengths HandleRead has decoded. It does *not* say that
these lengths, or the ids, are the client's: when one read holds two messages, the second header is
the first one's bytes again and its own are passed over (finding 4). It says
that, as long as the copies fit, nothing but a header is taken from the wrong place. `UncutIsIntact` says when the parser is
right: if the client waits and no message is cut, every message arrives as it was sent. Neither
condition can be dropped: `framing_split` lacks one and `framing_pipelined` the other.

**ServerMain.** `ReadersServed` is the core: a session that reads has a thread, because a thread
ends only when the work guards are gone, nothing is accepted any more, and its service has no
pending operation. A read ends only when the client has left or a header of it was refused, so a
client that has done neither has a thread. The stronger "a service without a thread has no operation"
is not inductive, for a reply may be queued after the thread of a session that has left. `Balanced` follows
from which services `next_service` has passed: turns, which are sessions and failed accepts together,
are dealt evenly (`DealtUpTo`).

**CoroutineSession.** `WorkerServes` and `FrontIsThere` keep a reply at the front for whoever is in
charge, although `_send_lock` is free between the push or pop and the write; `FailureIsFinal` stops
all writes after a failure. `CoroutineHeld` says that until a write fails, main or the list refers to
every session whose coroutine lives. `Framing` needs the place of the coroutine in the stream, and
numbers it: 2n is behind message n, 2n - 1 between its header and its body. The invariant is that
the parts in the stream lead, one by one, from the place of the coroutine to the end of all that was
sent (`Leads`, `InStep`). A part says which message it is of and from which place to which it
leads, so no sequence of encodings has to be put together; reading takes the first step of the path,
sending adds one or two at its end, and a client that leaves cuts it.

The *account of requests* (`AccountInv`) is by numbers. A session posts its messages in the order in
which its client numbered them (`Numbering`), and for each session (`Accounted`): its replies, on the
connection and in `_send_que`, ascend; what waits with LogicSystem ascends and lies above every
reply; each request with a callback is replied to, waits or was refused, in one of these ways
alone. So the replies followed by what waits, and the requests posted with a callback and not
refused, are two ascending sequences of the same elements. They are equal, which is
`RequestsAccounted`; with `Numbering`, what is on the connection is the beginning of what the
client is to get. That `Unserved` leaves out the front of the queue once its callback has called
`Send` is what keeps a request from being in two places while the worker holds it.
For a client that waits (`Patience`), at most one request is without its reply on the connection.
The one reply that may still stand in `_send_que` is that at the end of `wire`, whose handler has
not run. `Send` refuses only when the queue is *longer* than `MAX_SENDQUE`, so with a limit of one
or more there is room.

**NumberedProofs.** The induction theorems of the library take the induction hypothesis as an
operator, which the provers here cannot instantiate. `Induction` takes a *set*: a set of naturals
with 0 and the successors of its elements is all of them, because the least number outside it
(`LeastNumber`, from the well-foundedness of <) would have a predecessor inside. `FoldExists` unfolds
a fold into the values it has at each position. With the two, `SelectedAscending` and
`SelectedBeginning` say what `Selected` computes for every sequence, `SameAscending` that ascending
sequences with the same elements are equal, and `AscendingBound` that one numbered within 1..n has
at most n elements. `HandleReadProofs` sums the sizes of messages in the same way.

Only model-checked: the liveness properties `EveryPostServed`, `RepliesDelivered`,
`ClearedSessionCloses`, `AlwaysListening`, `ExitsOnceClientsLeft`, `RequestsAnswered` and
`ReleasedOnceGone`. Their fairness and `ENABLED` are outside the prover's reach.

## 5. Not modelled

* `HandleReadHead` and `HeadleReadMsg`, `AsioThreadPool::Stop`, `SingleThreadAsyncServer`'s copy of
  the thread pool: nothing calls them.
* `TestClient` and the echo demonstration: one blocking exchange, and coroutines that share nothing.
* JSON: `asInt` and `asString` may throw out of `HandleRead` and end the pool's thread.
* The width of ids and lengths. They are signed 16-bit values, so a negative length passes the
  test against `MAX_LENGHT`.
* Data races on `_b_stop`, `_b_close`, `_socket` and the map of the servers without `_mutex`, beyond
  their interleavings.
* Destruction of static objects after main: the order of the pool and LogicSystem is left open
  by the language.
* Time, contents of replies, logging.

## 6. Plan

1. *Callback servers from end to end*: `CSession` with several sessions and the queue of
   `LogicSystem`, as `CoroutineSession` does for its server, with the strand and the single thread.
2. *Signed widths* for the header, as a variant of `ByteStream`.
