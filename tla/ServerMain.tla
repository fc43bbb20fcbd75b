----------------------------- MODULE ServerMain -----------------------------
(***************************************************************************)
(* A server process from start to exit: main, the threads of its pool, the *)
(* clients, and SIGINT.  The three servers of the repository:              *)
(*                                                                         *)
(*   SingleThreadAsyncServer, CorotineServer: main runs an io_context that *)
(*     accepts and has the signal handler; each pool thread runs an        *)
(*     io_context of its own, and GetIOService deals the sessions out to   *)
(*     them (CorotineServer's pool has one thread);                        *)
(*   AsioThreadPool: all pool threads run one io_context that accepts and  *)
(*     serves; main waits on cond_quit.                                    *)
(*                                                                         *)
(* What a session does is reduced to the operations that keep an           *)
(* io_context busy: its read, and the writes of LogicSystem's replies.     *)
(* It reads until its client has left or has sent an invalid header.       *)
(***************************************************************************)
EXTENDS Naturals, FiniteSets

CONSTANTS
  Session,        \* sessions, one per connection accepted
  Threads,        \* threads of the pool
  Server,         \* which of the three
  MaxPending,     \* bound: messages of a session that wait for their reply
  MaxFailures     \* bound: accepts that fail, per service

ASSUME MainAssumption ==
  /\ Threads \in Nat \ {0}
  /\ Server \in {"SingleThreadAsyncServer", "CorotineServer", "AsioThreadPool"}
  /\ Server = "CorotineServer" => Threads = 1
  /\ MaxPending \in Nat
  /\ MaxFailures \in Nat

\* main runs an io_context of its own, which accepts and waits for the signal.
MainRuns == Server # "AsioThreadPool"

Thread == 1..Threads
Service == IF MainRuns THEN Thread ELSE {1}

\* The io_context thread t runs.
ServiceOf(t) == IF MainRuns THEN t ELSE 1

VARIABLES
  main,           \* "serving", in the signal handler ("stop", "join"),
                  \* "return" from it, "exited"
  joined,         \* threads that Stop has joined
  signalled,      \* has SIGINT been sent?
  stopped,        \* has main's io_context been stopped?
  work,           \* services whose work guard is there
  thread,         \* per thread: "running" or "ended"
  next_service,   \* _nextIOService: whose socket waits to be accepted
  accept_failed,  \* per service: accepts that failed in its turn (a history)
  client,         \* per session: "away", "connected", "left" (the connection
                  \* is over, whoever ended it)
  home,           \* per session: the service of its socket, 0 before
  reading,        \* per session: is a read pending?
  rejected,       \* per session: has a header been refused?
  pending,        \* per session: messages posted and not handled
  unsent,         \* per session: replies queued, the first being written
  failed          \* per session: has a write failed? The queue stays as it is

mainVars == <<main, joined, stopped, work>>
poolVars == <<thread, next_service, accept_failed>>
readVars == <<home, reading, rejected>>
writeVars == <<unsent, failed>>
sessionVars == <<client, readVars, pending, writeVars>>
vars == <<mainVars, signalled, poolVars, sessionVars>>

Init ==
  /\ main = "serving"
  /\ joined = {}
  /\ signalled = FALSE
  /\ stopped = FALSE
  /\ work = Service
  /\ thread = [t \in Thread |-> "running"]
  /\ next_service = 1
  /\ accept_failed = [v \in Service |-> 0]
  /\ client = [s \in Session |-> "away"]
  /\ home = [s \in Session |-> 0]
  /\ reading = [s \in Session |-> FALSE]
  /\ rejected = [s \in Session |-> FALSE]
  /\ pending = [s \in Session |-> 0]
  /\ unsent = [s \in Session |-> 0]
  /\ failed = [s \in Session |-> FALSE]

\* Some thread runs service v.
Served(v) == \E t \in Thread : thread[t] = "running" /\ ServiceOf(t) = v

\* A write of session s is under way: Send starts one for a reply that finds the
\* queue empty, which the queue never is again once a write has failed.
Writing(s) == unsent[s] > 0 /\ ~failed[s]

\* Operations are pending on service v.
Busy(v) == \E s \in Session : home[s] = v /\ (reading[s] \/ Writing(s))

-----------------------------------------------------------------------------
(***************************************************************************)
(* Sessions.                                                               *)
(***************************************************************************)
\* Mutant: the index is not advanced, as in CorotineServer's copy.
SameService ==
  IF next_service = Cardinality(Service) + 1 THEN 1 ELSE next_service

\* Mutant: the index wraps one too late.
LateService ==
  IF next_service = Cardinality(Service) + 1 THEN 1 ELSE next_service + 1

\* GetIOService: the services in turn.
AfterService ==
  IF next_service = Cardinality(Service) THEN 1 ELSE next_service + 1

\* Accepting goes on: the io_context of the acceptor is run.
Accepting == IF MainRuns THEN main = "serving" ELSE Served(1)

\* A client is accepted, its session starts to read, and the socket of the next
\* one is made.
Accept(s) ==
  /\ Accepting
  /\ client[s] = "away"
  /\ client' = [client EXCEPT ![s] = "connected"]
  /\ home' = [home EXCEPT ![s] = next_service]
  /\ reading' = [reading EXCEPT ![s] = TRUE]
  /\ next_service' = AfterService
  /\ UNCHANGED <<mainVars, signalled, thread, accept_failed, rejected, pending, writeVars>>

\* An accept fails: the socket goes unused, and the next one is another turn of
\* GetIOService.  CorotineServer ignores the error and starts the session all
\* the same: there it is an Accept whose client leaves at once.
AcceptFail ==
  /\ Accepting /\ Server # "CorotineServer"
  /\ accept_failed[next_service] < MaxFailures
  /\ accept_failed' = [accept_failed EXCEPT ![next_service] = @ + 1]
  /\ next_service' = AfterService
  /\ UNCHANGED <<mainVars, signalled, thread, sessionVars>>

ClientLeaves(s) ==
  /\ client[s] = "connected"
  /\ client' = [client EXCEPT ![s] = "left"]
  /\ UNCHANGED <<mainVars, signalled, poolVars, readVars, pending, writeVars>>

\* A read completes with a message, which is posted, and the next one starts.
\* What a client has sent before it left may still be read.
ReadMessage(s) ==
  /\ Served(home[s])
  /\ reading[s]
  /\ pending[s] + unsent[s] < MaxPending
  /\ pending' = [pending EXCEPT ![s] = @ + 1]
  /\ UNCHANGED <<mainVars, signalled, poolVars, client, readVars, writeVars>>

\* A read completes with an invalid header: the session is taken from the list
\* and reads no more.  CorotineServer closes the socket; the callback servers
\* leave the client connected.
ReadInvalid(s) ==
  /\ Served(home[s])
  /\ reading[s]
  /\ reading' = [reading EXCEPT ![s] = FALSE]
  /\ rejected' = [rejected EXCEPT ![s] = TRUE]
  /\ client' = [client EXCEPT ![s] = IF Server = "CorotineServer" THEN "left" ELSE @]
  /\ UNCHANGED <<mainVars, signalled, poolVars, home, pending, writeVars>>

\* The read of a client that has left fails, and is the last one.
ReadFail(s) ==
  /\ Served(home[s])
  /\ reading[s] /\ client[s] = "left"
  /\ reading' = [reading EXCEPT ![s] = FALSE]
  /\ UNCHANGED <<mainVars, signalled, poolVars, client, home, rejected, pending, writeVars>>

\* LogicSystem's thread handles a message and sends the reply.
Reply(s) ==
  /\ pending[s] > 0
  /\ pending' = [pending EXCEPT ![s] = @ - 1]
  /\ unsent' = [unsent EXCEPT ![s] = @ + 1]
  /\ UNCHANGED <<mainVars, signalled, poolVars, client, readVars, failed>>

\* A write completes, and the next one starts.
WriteDone(s) ==
  /\ Served(home[s])
  /\ Writing(s)
  /\ unsent' = [unsent EXCEPT ![s] = @ - 1]
  /\ UNCHANGED <<mainVars, signalled, poolVars, client, readVars, pending, failed>>

\* A write to a client that has left fails, and is the last one.
WriteFail(s) ==
  /\ Served(home[s])
  /\ Writing(s) /\ client[s] = "left"
  /\ failed' = [failed EXCEPT ![s] = TRUE]
  /\ UNCHANGED <<mainVars, signalled, poolVars, client, readVars, pending, unsent>>

\* Nothing refers to a session any more that has been taken from the list: it is
\* destructed, and its socket closed.
Destruct(s) ==
  /\ rejected[s] /\ client[s] = "connected"
  /\ pending[s] = 0 /\ ~Writing(s)
  /\ client' = [client EXCEPT ![s] = "left"]
  /\ UNCHANGED <<mainVars, signalled, poolVars, readVars, pending, writeVars>>

\* Mutant: Stop stops the services too.
ThreadStopped(t) ==
  /\ thread[t] = "running"
  /\ main = "join"
  /\ thread' = [thread EXCEPT ![t] = "ended"]
  /\ UNCHANGED <<mainVars, signalled, next_service, accept_failed, sessionVars>>

\* run() returns when nothing keeps the service: no guard and no operation.
ThreadEnds(t) ==
  /\ thread[t] = "running"
  /\ ServiceOf(t) \notin work
  /\ ~Busy(ServiceOf(t))
  /\ thread' = [thread EXCEPT ![t] = "ended"]
  /\ UNCHANGED <<mainVars, signalled, next_service, accept_failed, sessionVars>>

-----------------------------------------------------------------------------
(***************************************************************************)
(* main.                                                                   *)
(***************************************************************************)
Signal ==
  /\ ~signalled
  /\ signalled' = TRUE
  /\ UNCHANGED <<mainVars, poolVars, sessionVars>>

\* Mutant: the signal handler stops the pool only.
HandleSignalPoolOnly ==
  /\ main = "serving" /\ MainRuns /\ signalled
  /\ main' = "stop"
  /\ UNCHANGED <<joined, stopped, work, signalled, poolVars, sessionVars>>

\* The io_context of the signal set calls the handler if main runs it.
HandleSignal ==
  /\ main = "serving" /\ MainRuns /\ signalled
  /\ stopped' = TRUE
  /\ main' = "stop"
  /\ UNCHANGED <<joined, work, signalled, poolVars, sessionVars>>

\* Stop: the work guards go away,
StopWork ==
  /\ main = "stop"
  /\ work' = {}
  /\ main' = "join"
  /\ UNCHANGED <<joined, stopped, signalled, poolVars, sessionVars>>

\* Mutant: Stop goes on without waiting for the last thread.
JoinAllButLast ==
  /\ main = "join"
  /\ \E t \in Thread \ joined :
       /\ \A u \in Thread \ joined : t <= u
       /\ thread[t] = "ended" \/ t = Threads
       /\ joined' = joined \cup {t}
  /\ main' = IF joined' = Thread THEN "return" ELSE "join"
  /\ UNCHANGED <<stopped, work, signalled, poolVars, sessionVars>>

\* and the threads are joined, in order.
Join ==
  /\ main = "join"
  /\ \E t \in Thread \ joined :
       /\ \A u \in Thread \ joined : t <= u
       /\ thread[t] = "ended"
       /\ joined' = joined \cup {t}
  /\ main' = IF joined' = Thread THEN "return" ELSE "join"
  /\ UNCHANGED <<stopped, work, signalled, poolVars, sessionVars>>

\* io_context.run() returns if it has been stopped, and main ends.
Exit ==
  /\ main = "return" /\ stopped
  /\ main' = "exited"
  /\ UNCHANGED <<joined, stopped, work, signalled, poolVars, sessionVars>>

-----------------------------------------------------------------------------
Main == HandleSignal \/ StopWork \/ Join \/ Exit

Serve(s) ==
  ReadMessage(s) \/ ReadInvalid(s) \/ ReadFail(s) \/ Reply(s) \/ WriteDone(s) \/ WriteFail(s)

Next ==
  \/ Signal
  \/ Main
  \/ AcceptFail
  \/ \E s \in Session : Accept(s) \/ ClientLeaves(s) \/ Serve(s) \/ Destruct(s)
  \/ \E t \in Thread : ThreadEnds(t)

\* The operations of a session whose client has left complete, one way or the
\* other.
Drain(s) == client[s] = "left" /\ (WriteDone(s) \/ WriteFail(s))

\* Threads keep running what is ready; no client has to come, send, read what
\* is sent to it, or leave.
Fairness ==
  /\ WF_vars(Main)
  /\ \A s \in Session : WF_vars(ReadFail(s)) /\ WF_vars(Reply(s)) /\ WF_vars(Drain(s))
  /\ \A t \in Thread : WF_vars(ThreadEnds(t))

Spec == Init /\ [][Next]_vars /\ Fairness

-----------------------------------------------------------------------------
(***************************************************************************)
(* Properties.                                                             *)
(***************************************************************************)
\* Every variable keeps its type; the index of GetIOService names a service.
TypeOK ==
  /\ main \in {"serving", "stop", "join", "return", "exited"}
  /\ joined \subseteq Thread
  /\ signalled \in BOOLEAN
  /\ stopped \in BOOLEAN
  /\ work \subseteq Service
  /\ thread \in [Thread -> {"running", "ended"}]
  /\ next_service \in Service
  /\ client \in [Session -> {"away", "connected", "left"}]
  /\ home \in [Session -> Service \cup {0}]
  /\ accept_failed \in [Service -> 0..MaxFailures]
  /\ reading \in [Session -> BOOLEAN]
  /\ rejected \in [Session -> BOOLEAN]
  /\ pending \in [Session -> 0..MaxPending]
  /\ unsent \in [Session -> 0..MaxPending]
  /\ failed \in [Session -> BOOLEAN]

\* The sessions of service v.
On(v) == {s \in Session : home[s] = v}

\* The sessions are dealt out evenly but for failed accepts: a service falls
\* behind another by more than one session only by the accepts that failed in its
\* own turn, whatever order clients come and go in (GetIOService, called again by
\* StartAccept after a failure too).
Balanced ==
  \A v, w \in Service :
    Cardinality(On(v)) <= Cardinality(On(w)) + accept_failed[w] + 1

\* When Stop has returned no thread of the pool runs and no session reads, and
\* the only clients still connected are those refused for an invalid header,
\* whose socket the callback servers do not close (the joins of Stop, and the
\* returns of HandleRead that start no read).
StoppedMeansQuiet ==
  main \in {"return", "exited"} =>
    /\ \A t \in Thread : thread[t] = "ended"
    /\ \A s \in Session : ~reading[s] /\ (client[s] = "connected" => rejected[s])

\* A client is served until it leaves or sends an invalid header: its session
\* reads, and a thread runs the service of its socket, before and during Stop
\* (the work guards, and Stop that does not stop the services).
ClientsAreServed ==
  \A s \in Session :
    client[s] = "connected" /\ ~rejected[s] => reading[s] /\ Served(home[s])

\* Once the signal has been sent and every client has left, the process ends:
\* Stop's joins return, and the run of main's io_context does.
ExitsOnceClientsLeft ==
  (signalled /\ [](\A s \in Session : client[s] # "connected")) ~> (main = "exited")
=============================================================================
