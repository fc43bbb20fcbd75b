---------------------------- MODULE LogicSystem ----------------------------
(***************************************************************************)
(* LogicSystem, the singleton that takes every received message from the   *)
(* I/O threads to the one worker thread running the callbacks.             *)
(*                                                                         *)
(*   PostMsgToQue   an I/O thread pushes a message under _mutex and        *)
(*                  notifies _cv only when the queue was empty             *)
(*   DealMsg        the worker waits on _cv, runs the callback of the      *)
(*                  front message with _mutex held, then pops it           *)
(*   ~LogicSystem   sets _b_stop WITHOUT _mutex, notifies, joins           *)
(*                                                                         *)
(* A step is what one thread does between two points where another thread  *)
(* may see or change the shared state: taking or releasing _mutex, waiting *)
(* on or notifying _cv, reading or writing _b_stop.                        *)
(***************************************************************************)
EXTENDS Naturals, Sequences, FiniteSets

CONSTANTS
  Posters,         \* the I/O threads
  Worker,          \* the thread running DealMsg
  Destroyer,       \* the thread running ~LogicSystem
  Nobody,          \* the owner of a free mutex
  MsgIds,          \* message ids a client may send
  Registered,      \* the keys of _func_callbacks
  MaxPosts,        \* bound: messages each I/O thread posts
  NotifyUnlocked   \* does PostMsgToQue release _mutex before notifying?

ASSUME ThreadsAssumption ==
  /\ Worker \notin Posters
  /\ Destroyer \notin Posters
  /\ Worker # Destroyer
  /\ Nobody \notin Posters \cup {Worker, Destroyer}

ASSUME DataAssumption ==
  /\ Registered \subseteq MsgIds
  /\ MaxPosts \in Nat
  /\ NotifyUnlocked \in BOOLEAN

VARIABLES
  mutex,     \* _mutex: the thread holding it, or Nobody
  msg_que,   \* _msg_que
  b_stop,    \* _b_stop
  pc,        \* what each thread does next
  sent,      \* messages each I/O thread has posted
  called     \* the messages given to a callback so far

vars == <<mutex, msg_que, b_stop, pc, sent, called>>

Threads == Posters \cup {Worker, Destroyer}

\* A LogicNode: who posted it, its number there, and the header's message id.
Message == [from : Posters, n : 1..MaxPosts, id : MsgIds]

\* The messages for which DealMsg finds a callback.
HandledMessage == {m \in Message : m.id \in Registered}

PosterLabels    == {"idle", "push", "unlock", "notify", "leave"}
WorkerLabels    == {"lock", "test", "wait", "waiting", "woken", "deal", "pop",
                    "drain", "drainpop", "done"}
DestroyerLabels == {"idle", "notify", "join", "joined"}

-----------------------------------------------------------------------------
Init ==
  /\ mutex = Nobody
  /\ msg_que = <<>>
  /\ b_stop = FALSE
  /\ pc = [t \in Threads |-> IF t = Worker THEN "lock" ELSE "idle"]
  /\ sent = [p \in Posters |-> 0]
  /\ called = <<>>

Goto(t, label) == pc' = [pc EXCEPT ![t] = label]

\* std::mutex::lock: the thread goes on when the mutex is free.
Acquire(t) ==
  /\ mutex = Nobody
  /\ mutex' = t

Release == mutex' = Nobody

\* _cv.notify_one by thread t, which goes on at label: the worker is the only
\* thread that waits, and a notification nobody waits for has no effect.
NotifyOne(t, label) ==
  pc' = [pc EXCEPT ![t] = label,
                   ![Worker] = IF @ = "waiting" THEN "woken" ELSE @]

-----------------------------------------------------------------------------
(***************************************************************************)
(* PostMsgToQue.  Posts stop before the destructor starts: the singleton   *)
(* is destroyed after main has returned, and main returns only once the    *)
(* pool's threads are joined.                                              *)
(***************************************************************************)
PostLock(p) ==
  /\ pc[p] = "idle"
  /\ pc[Destroyer] = "idle"
  /\ sent[p] < MaxPosts
  /\ Acquire(p)
  /\ Goto(p, "push")
  /\ UNCHANGED <<msg_que, b_stop, sent, called>>

\* MUTANT of PostPush: the message is numbered before it is counted.
PostPushMisnumbered(p) ==
  /\ pc[p] = "push"
  /\ \E id \in MsgIds :
       msg_que' = Append(msg_que, [from |-> p, n |-> sent[p], id |-> id])
  /\ sent' = [sent EXCEPT ![p] = @ + 1]
  /\ Goto(p, IF Len(msg_que') # 1 THEN "leave"
             ELSE IF NotifyUnlocked THEN "unlock" ELSE "notify")
  /\ UNCHANGED <<mutex, b_stop, called>>

\* MUTANT of PostPush: the size tested is the one read before the push.
PostPushTestsOldSize(p) ==
  /\ pc[p] = "push"
  /\ \E id \in MsgIds :
       msg_que' = Append(msg_que, [from |-> p, n |-> sent[p] + 1, id |-> id])
  /\ sent' = [sent EXCEPT ![p] = @ + 1]
  /\ Goto(p, IF Len(msg_que) # 1 THEN "leave"
             ELSE IF NotifyUnlocked THEN "unlock" ELSE "notify")
  /\ UNCHANGED <<mutex, b_stop, called>>

\* push, then the test of size() == 1 that decides whether to notify.
PostPush(p) ==
  /\ pc[p] = "push"
  /\ \E id \in MsgIds :
       msg_que' = Append(msg_que, [from |-> p, n |-> sent[p] + 1, id |-> id])
  /\ sent' = [sent EXCEPT ![p] = @ + 1]
  /\ Goto(p, IF Len(msg_que') # 1 THEN "leave"
             ELSE IF NotifyUnlocked THEN "unlock" ELSE "notify")
  /\ UNCHANGED <<mutex, b_stop, called>>

\* MUTANT of PostUnlock: the notification is forgotten.
PostUnlockAndLeave(p) ==
  /\ pc[p] = "unlock"
  /\ Release
  /\ Goto(p, "idle")
  /\ UNCHANGED <<msg_que, b_stop, sent, called>>

\* _lock.unlock() ahead of the notification.
PostUnlock(p) ==
  /\ pc[p] = "unlock"
  /\ Release
  /\ Goto(p, "notify")
  /\ UNCHANGED <<msg_que, b_stop, sent, called>>

PostNotify(p) ==
  /\ pc[p] = "notify"
  /\ NotifyOne(p, IF NotifyUnlocked THEN "idle" ELSE "leave")
  /\ UNCHANGED <<mutex, msg_que, b_stop, sent, called>>

\* The lock goes out of scope.
PostLeave(p) ==
  /\ pc[p] = "leave"
  /\ Release
  /\ Goto(p, "idle")
  /\ UNCHANGED <<msg_que, b_stop, sent, called>>

-----------------------------------------------------------------------------
(***************************************************************************)
(* DealMsg.                                                                *)
(***************************************************************************)
\* The lock at the head of the loop, and the one cv.wait takes again.
DealLock ==
  /\ pc[Worker] \in {"lock", "woken"}
  /\ Acquire(Worker)
  /\ Goto(Worker, "test")
  /\ UNCHANGED <<msg_que, b_stop, sent, called>>

\* while (_msg_que.empty() && !_b_stop), then if (_b_stop).
DealTest ==
  /\ pc[Worker] = "test"
  /\ Goto(Worker, IF b_stop THEN "drain"
                  ELSE IF msg_que = <<>> THEN "wait" ELSE "deal")
  /\ UNCHANGED <<mutex, msg_que, b_stop, sent, called>>

\* _cv.wait releases _mutex and blocks in one step.
DealWait ==
  /\ pc[Worker] = "wait"
  /\ Release
  /\ Goto(Worker, "waiting")
  /\ UNCHANGED <<msg_que, b_stop, sent, called>>

\* A condition variable may wake up with no notification.
SpuriousWakeup ==
  /\ pc[Worker] = "waiting"
  /\ Goto(Worker, "woken")
  /\ UNCHANGED <<mutex, msg_que, b_stop, sent, called>>

\* Look up the front message's callback and, if there is one, run it.
Invoke ==
  called' = IF Head(msg_que).id \in Registered
              THEN Append(called, Head(msg_que))
              ELSE called

\* MUTANT of DealInvoke: the worker unlocks for the callback, and does not lock
\* again for the pop.
DealInvokeUnlocked ==
  /\ pc[Worker] = "deal"
  /\ Invoke
  /\ Release
  /\ Goto(Worker, "pop")
  /\ UNCHANGED <<msg_que, b_stop, sent>>

DealInvoke ==
  /\ pc[Worker] = "deal"
  /\ Invoke
  /\ Goto(Worker, "pop")
  /\ UNCHANGED <<mutex, msg_que, b_stop, sent>>

\* MUTANT of DealPop: a served message stays in the queue.
DealPopNothing ==
  /\ pc[Worker] = "pop"
  /\ Release
  /\ Goto(Worker, "lock")
  /\ UNCHANGED <<msg_que, b_stop, sent, called>>

\* pop, and the lock goes out of scope at the end of the iteration.
DealPop ==
  /\ pc[Worker] = "pop"
  /\ msg_que' = Tail(msg_que)
  /\ Release
  /\ Goto(Worker, "lock")
  /\ UNCHANGED <<b_stop, sent, called>>

\* After _b_stop: serve what is left without releasing _mutex, then break.
DrainInvoke ==
  /\ pc[Worker] = "drain"
  /\ msg_que # <<>>
  /\ Invoke
  /\ Goto(Worker, "drainpop")
  /\ UNCHANGED <<mutex, msg_que, b_stop, sent>>

DrainPop ==
  /\ pc[Worker] = "drainpop"
  /\ msg_que' = Tail(msg_que)
  /\ Goto(Worker, "drain")
  /\ UNCHANGED <<mutex, b_stop, sent, called>>

\* MUTANT of DrainDone: break as soon as _b_stop is seen.
DrainNothing ==
  /\ pc[Worker] = "drain"
  /\ Release
  /\ Goto(Worker, "done")
  /\ UNCHANGED <<msg_que, b_stop, sent, called>>

DrainDone ==
  /\ pc[Worker] = "drain"
  /\ msg_que = <<>>
  /\ Release
  /\ Goto(Worker, "done")
  /\ UNCHANGED <<msg_que, b_stop, sent, called>>

-----------------------------------------------------------------------------
(***************************************************************************)
(* ~LogicSystem.                                                           *)
(***************************************************************************)
DestroyStop ==
  /\ pc[Destroyer] = "idle"
  /\ \A p \in Posters : pc[p] = "idle"
  /\ b_stop' = TRUE
  /\ Goto(Destroyer, "notify")
  /\ UNCHANGED <<mutex, msg_que, sent, called>>

DestroyNotify ==
  /\ pc[Destroyer] = "notify"
  /\ NotifyOne(Destroyer, "join")
  /\ UNCHANGED <<mutex, msg_que, b_stop, sent, called>>

DestroyJoin ==
  /\ pc[Destroyer] = "join"
  /\ pc[Worker] = "done"
  /\ Goto(Destroyer, "joined")
  /\ UNCHANGED <<mutex, msg_que, b_stop, sent, called>>

-----------------------------------------------------------------------------
PosterStep(p) ==
  \/ PostLock(p)
  \/ PostPush(p)
  \/ PostUnlock(p)
  \/ PostNotify(p)
  \/ PostLeave(p)

WorkerStep ==
  \/ DealLock
  \/ DealTest
  \/ DealWait
  \/ DealInvoke
  \/ DealPop
  \/ DrainInvoke
  \/ DrainPop
  \/ DrainDone

DestroyerStep ==
  \/ DestroyStop
  \/ DestroyNotify
  \/ DestroyJoin

Next ==
  \/ \E p \in Posters : PosterStep(p)
  \/ WorkerStep
  \/ SpuriousWakeup
  \/ DestroyerStep

Spec == Init /\ [][Next]_vars

\* Running threads keep running.  Nothing forces a client to send another
\* message, a wakeup to be spurious, or the process to exit: a poster is fair
\* only once it is inside PostMsgToQue, the destructor once it has started.
Fairness ==
  /\ WF_vars(WorkerStep)
  /\ \A p \in Posters : WF_vars(pc[p] # "idle" /\ PosterStep(p))
  /\ WF_vars(pc[Destroyer] # "idle" /\ DestroyerStep)

FairSpec == Spec /\ Fairness

-----------------------------------------------------------------------------
(***************************************************************************)
(* Properties.                                                             *)
(***************************************************************************)
\* Every variable has its type: the queue holds posted messages only.
TypeOK ==
  /\ mutex \in Threads \cup {Nobody}
  /\ msg_que \in Seq(Message)
  /\ b_stop \in BOOLEAN
  /\ pc \in [Threads -> PosterLabels \cup WorkerLabels \cup DestroyerLabels]
  /\ \A p \in Posters : pc[p] \in PosterLabels
  /\ pc[Worker] \in WorkerLabels
  /\ pc[Destroyer] \in DestroyerLabels
  /\ sent \in [Posters -> 0..MaxPosts]
  /\ called \in Seq(Message)

\* The labels at which a thread is between taking and releasing _mutex.
InsideLabels == {"push", "unlock", "leave", "test", "wait", "deal", "pop",
                 "drain", "drainpop"}

\* Does thread t hold _mutex according to where it is in the code?
Inside(t) ==
  \/ pc[t] \in InsideLabels
  \/ t \in Posters /\ pc[t] = "notify" /\ ~NotifyUnlocked

\* Two threads are never inside _mutex at once, across cv.wait's release and
\* re-acquisition and the early unlock of PostMsgToQue: _mutex is free exactly
\* when no thread is inside it, and otherwise its owner is the only one inside.
MutualExclusion ==
  \A t \in Threads : Inside(t) <=> mutex = t

\* A thread that owes the worker a notification.
OwesNotify(t) ==
  /\ t \in Posters
  /\ pc[t] \in {"unlock", "notify"}

\* No lost wakeup: although PostMsgToQue notifies only when it finds the queue
\* empty, the worker never sleeps on a non-empty queue unless the thread that
\* made it non-empty is still about to notify it.
NoLostWakeup ==
  pc[Worker] = "waiting" /\ msg_que # <<>> => \E p \in Posters : OwesNotify(p)

\* Shutdown loses nothing: when ~LogicSystem has joined the worker, every
\* message that was posted has been served and none is still being posted.
JoinedMeansDrained ==
  pc[Destroyer] = "joined" =>
    /\ msg_que = <<>>
    /\ mutex = Nobody
    /\ \A p \in Posters : pc[p] = "idle"

\* Every message that is posted and has a callback is eventually given to it.
EveryPostServed ==
  \A m \in HandledMessage :
    (\E i \in 1..Len(msg_que) : msg_que[i] = m)
      ~> (\E i \in 1..Len(called) : called[i] = m)

\* What the shutdown comment of main.cpp calls a graceful exit: once the
\* destructor has started, the worker is joined.
DestructorReturns == (pc[Destroyer] = "notify") ~> (pc[Destroyer] = "joined")

-----------------------------------------------------------------------------
\* The queue as its users see it: a message counts as served from the moment
\* its callback is chosen, although it stays in _msg_que until the pop.
AbstractPending ==
  IF pc[Worker] \in {"pop", "drainpop"} THEN Tail(msg_que) ELSE msg_que

LQ == INSTANCE LogicQueue
        WITH Message <- Message,
             Handled <- HandledMessage,
             pending <- AbstractPending,
             called  <- called,
             closed  <- pc[Worker] = "done"

\* LogicSystem implements a FIFO queue: callbacks run in posting order, once
\* for each message, and the worker leaves only an empty queue.
ImplementsLogicQueue == LQ!Spec
=============================================================================
