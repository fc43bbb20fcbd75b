------------------------- MODULE LogicSystemProofs -------------------------
(***************************************************************************)
(* LogicSystem proved for any number of I/O threads, message ids and       *)
(* posts, and for both orders of unlock and notify in PostMsgToQue.        *)
(*                                                                         *)
(* IInv is the inductive invariant.  MutualExclusion needs nothing beyond  *)
(* the types; NoLostWakeup needs that the worker leaves its predicate test *)
(* for cv.wait only on an empty queue, which stays empty until _mutex is   *)
(* released; JoinedMeansDrained needs that no thread posts once _b_stop is *)
(* set and that the worker leaves its loop with an empty queue.            *)
(***************************************************************************)
EXTENDS LogicSystem, SequenceTheorems, TLAPS

\* A message that is about to be pushed is still within the bound, and only
\* the variant that unlocks before it notifies unlocks early.
PostOrder ==
  \A p \in Posters :
    /\ pc[p] = "push" => sent[p] < MaxPosts
    /\ pc[p] = "unlock" => NotifyUnlocked

\* Where the worker uses the front of the queue there is one, and where it has
\* found the queue empty it still is.
WorkerSeesQueue ==
  /\ pc[Worker] \in {"deal", "pop", "drainpop"} => msg_que # <<>>
  /\ pc[Worker] \in {"wait", "done"} => msg_que = <<>>

\* _b_stop is set when the destructor starts, after the last post; only then
\* does the worker drain the queue and end, and only then is it joined.
StopOrder ==
  /\ b_stop <=> pc[Destroyer] # "idle"
  /\ b_stop => \A p \in Posters : pc[p] = "idle"
  /\ pc[Worker] \in {"drain", "drainpop", "done"} => b_stop
  /\ pc[Destroyer] = "joined" => pc[Worker] = "done"

IInv ==
  /\ TypeOK
  /\ PostOrder
  /\ MutualExclusion
  /\ WorkerSeesQueue
  /\ StopOrder
  /\ NoLostWakeup

-----------------------------------------------------------------------------
\* The labels of one thread are its own.
LEMMA DistinctThreads ==
  /\ Posters \subseteq Threads
  /\ Worker \in Threads /\ Destroyer \in Threads
  /\ Worker \notin Posters /\ Destroyer \notin Posters
  /\ Worker # Destroyer
  /\ Nobody \notin Threads
BY ThreadsAssumption DEF Threads

\* What push and pop do to the queue.
LEMMA QueuePush ==
  ASSUME NEW q \in Seq(Message), NEW m \in Message
  PROVE  /\ Append(q, m) \in Seq(Message)
         /\ Append(q, m) # <<>>
         /\ Len(Append(q, m)) = Len(q) + 1
         /\ Len(Append(q, m)) = 1 <=> q = <<>>
BY AppendProperties, EmptySeq

LEMMA QueuePop ==
  ASSUME NEW q \in Seq(Message), q # <<>>
  PROVE  /\ Tail(q) \in Seq(Message)
         /\ Head(q) \in Message
BY HeadTailProperties

LEMMA InitIInv == Init => IInv
<1> SUFFICES ASSUME Init PROVE IInv
  OBVIOUS
<1> USE DistinctThreads, DataAssumption
<1>1. TypeOK
  <2>1. msg_que \in Seq(Message) /\ called \in Seq(Message)
    BY EmptySeq DEF Init
  <2>2. pc \in [Threads -> PosterLabels \cup WorkerLabels \cup DestroyerLabels]
    BY DEF Init, PosterLabels, WorkerLabels
  <2>3. /\ \A p \in Posters : pc[p] \in PosterLabels
        /\ pc[Worker] \in WorkerLabels
        /\ pc[Destroyer] \in DestroyerLabels
    BY DEF Init, PosterLabels, WorkerLabels, DestroyerLabels
  <2>4. sent \in [Posters -> 0..MaxPosts]
    BY DEF Init
  <2> QED
    BY <2>1, <2>2, <2>3, <2>4 DEF Init, TypeOK
<1>2. MutualExclusion
  BY DEF Init, MutualExclusion, Inside, InsideLabels, Threads
<1>3. PostOrder /\ WorkerSeesQueue /\ StopOrder /\ NoLostWakeup
  BY DEF Init, PostOrder, WorkerSeesQueue, StopOrder, NoLostWakeup, Threads
<1> QED
  BY <1>1, <1>2, <1>3 DEF IInv

LEMMA NextIInv == IInv /\ [Next]_vars => IInv'
<1> SUFFICES ASSUME IInv, [Next]_vars PROVE IInv'
  OBVIOUS
<1> USE DistinctThreads, DataAssumption DEF IInv
<1>1. ASSUME NEW p \in Posters, PostLock(p) PROVE IInv'
  <2> USE <1>1 DEF PostLock, Goto, Acquire, Release, NotifyOne
  <2>1. TypeOK'
    BY DEF TypeOK, Threads, PosterLabels, WorkerLabels, DestroyerLabels
  <2>2. PostOrder'
    BY DEF TypeOK, PostOrder
  <2>3. MutualExclusion'
    BY DEF TypeOK, MutualExclusion, Inside, InsideLabels, Threads
  <2>4. WorkerSeesQueue'
    BY DEF TypeOK, MutualExclusion, Inside, InsideLabels, WorkerSeesQueue, StopOrder
  <2>5. StopOrder'
    BY DEF TypeOK, StopOrder
  <2>6. NoLostWakeup'
    BY DEF TypeOK, WorkerSeesQueue, MutualExclusion, Inside, InsideLabels, NoLostWakeup, OwesNotify
  <2> QED
    BY <2>1, <2>2, <2>3, <2>4, <2>5, <2>6
<1>2. ASSUME NEW p \in Posters, PostPush(p) PROVE IInv'
  <2> USE <1>2 DEF PostPush, Goto, Acquire, Release, NotifyOne
  <2>m. PICK id \in MsgIds :
          msg_que' = Append(msg_que, [from |-> p, n |-> sent[p] + 1, id |-> id])
    OBVIOUS
  <2> DEFINE m == [from |-> p, n |-> sent[p] + 1, id |-> id]
  <2>s. sent[p] \in Nat /\ sent[p] + 1 \in 1..MaxPosts
    BY DEF TypeOK, PostOrder
  <2>q. m \in Message
    BY <2>s DEF Message
  <2> HIDE DEF m
  <2>u. msg_que' = Append(msg_que, m)
    BY <2>m DEF m
  <2>1. TypeOK'
    <3>1. msg_que' \in Seq(Message)
      BY <2>q, <2>u, QueuePush DEF TypeOK
    <3>2. sent' \in [Posters -> 0..MaxPosts]
      BY <2>s DEF TypeOK
    <3> QED
      BY <3>1, <3>2 DEF TypeOK, Threads, PosterLabels, WorkerLabels, DestroyerLabels
  <2>2. PostOrder'
    BY QueuePop, QueuePush DEF TypeOK, PostOrder
  <2>3. MutualExclusion'
    BY QueuePop, QueuePush DEF TypeOK, MutualExclusion, Inside, InsideLabels, Threads
  <2>4. WorkerSeesQueue'
    BY QueuePop, QueuePush DEF TypeOK, MutualExclusion, Inside, InsideLabels, WorkerSeesQueue, StopOrder
  <2>5. StopOrder'
    BY QueuePop, QueuePush DEF TypeOK, StopOrder
  <2>6. NoLostWakeup'
    BY QueuePop, QueuePush DEF TypeOK, WorkerSeesQueue, MutualExclusion, Inside, InsideLabels, NoLostWakeup, OwesNotify
  <2> QED
    BY <2>1, <2>2, <2>3, <2>4, <2>5, <2>6
<1>3. ASSUME NEW p \in Posters, PostUnlock(p) PROVE IInv'
  <2> USE <1>3 DEF PostUnlock, Goto, Acquire, Release, NotifyOne
  <2>1. TypeOK'
    BY DEF TypeOK, Threads, PosterLabels, WorkerLabels, DestroyerLabels
  <2>2. PostOrder'
    BY DEF TypeOK, PostOrder
  <2>3. MutualExclusion'
    BY DEF TypeOK, PostOrder, MutualExclusion, Inside, InsideLabels, Threads
  <2>4. WorkerSeesQueue'
    BY DEF TypeOK, MutualExclusion, Inside, InsideLabels, WorkerSeesQueue, StopOrder
  <2>5. StopOrder'
    BY DEF TypeOK, StopOrder
  <2>6. NoLostWakeup'
    BY DEF TypeOK, WorkerSeesQueue, MutualExclusion, Inside, InsideLabels, NoLostWakeup, OwesNotify
  <2> QED
    BY <2>1, <2>2, <2>3, <2>4, <2>5, <2>6
<1>4. ASSUME NEW p \in Posters, PostNotify(p) PROVE IInv'
  <2> USE <1>4 DEF PostNotify, Goto, Acquire, Release, NotifyOne
  <2>1. TypeOK'
    BY DEF TypeOK, Threads, PosterLabels, WorkerLabels, DestroyerLabels
  <2>2. PostOrder'
    BY DEF TypeOK, PostOrder
  <2>3. MutualExclusion'
    BY DEF TypeOK, MutualExclusion, Inside, InsideLabels, Threads
  <2>4. WorkerSeesQueue'
    BY DEF TypeOK, MutualExclusion, Inside, InsideLabels, WorkerSeesQueue, StopOrder
  <2>5. StopOrder'
    BY DEF TypeOK, StopOrder
  <2>6. NoLostWakeup'
    BY DEF TypeOK, WorkerSeesQueue, MutualExclusion, Inside, InsideLabels, NoLostWakeup, OwesNotify
  <2> QED
    BY <2>1, <2>2, <2>3, <2>4, <2>5, <2>6
<1>5. ASSUME NEW p \in Posters, PostLeave(p) PROVE IInv'
  <2> USE <1>5 DEF PostLeave, Goto, Acquire, Release, NotifyOne
  <2>1. TypeOK'
    BY DEF TypeOK, Threads, PosterLabels, WorkerLabels, DestroyerLabels
  <2>2. PostOrder'
    BY DEF TypeOK, PostOrder
  <2>3. MutualExclusion'
    BY DEF TypeOK, MutualExclusion, Inside, InsideLabels, Threads
  <2>4. WorkerSeesQueue'
    BY DEF TypeOK, MutualExclusion, Inside, InsideLabels, WorkerSeesQueue, StopOrder
  <2>5. StopOrder'
    BY DEF TypeOK, StopOrder
  <2>6. NoLostWakeup'
    BY DEF TypeOK, WorkerSeesQueue, MutualExclusion, Inside, InsideLabels, NoLostWakeup, OwesNotify
  <2> QED
    BY <2>1, <2>2, <2>3, <2>4, <2>5, <2>6
<1>6. CASE DealLock
  <2> USE <1>6 DEF DealLock, Goto, Acquire, Release, NotifyOne
  <2>1. TypeOK'
    BY DEF TypeOK, Threads, PosterLabels, WorkerLabels, DestroyerLabels
  <2>2. PostOrder'
    BY DEF TypeOK, PostOrder
  <2>3. MutualExclusion'
    BY DEF TypeOK, MutualExclusion, Inside, InsideLabels, Threads
  <2>4. WorkerSeesQueue'
    BY DEF TypeOK, MutualExclusion, Inside, InsideLabels, WorkerSeesQueue, StopOrder
  <2>5. StopOrder'
    BY DEF TypeOK, StopOrder
  <2>6. NoLostWakeup'
    BY DEF TypeOK, WorkerSeesQueue, MutualExclusion, Inside, InsideLabels, NoLostWakeup, OwesNotify
  <2> QED
    BY <2>1, <2>2, <2>3, <2>4, <2>5, <2>6
<1>7. CASE DealTest
  <2> USE <1>7 DEF DealTest, Goto, Acquire, Release, NotifyOne
  <2>1. TypeOK'
    BY DEF TypeOK, Threads, PosterLabels, WorkerLabels, DestroyerLabels
  <2>2. PostOrder'
    BY DEF TypeOK, PostOrder
  <2>3. MutualExclusion'
    BY DEF TypeOK, MutualExclusion, Inside, InsideLabels, Threads
  <2>4. WorkerSeesQueue'
    BY DEF TypeOK, MutualExclusion, Inside, InsideLabels, WorkerSeesQueue, StopOrder
  <2>5. StopOrder'
    BY DEF TypeOK, StopOrder
  <2>6. NoLostWakeup'
    BY DEF TypeOK, WorkerSeesQueue, MutualExclusion, Inside, InsideLabels, NoLostWakeup, OwesNotify
  <2> QED
    BY <2>1, <2>2, <2>3, <2>4, <2>5, <2>6
<1>8. CASE DealWait
  <2> USE <1>8 DEF DealWait, Goto, Acquire, Release, NotifyOne
  <2>1. TypeOK'
    BY DEF TypeOK, Threads, PosterLabels, WorkerLabels, DestroyerLabels
  <2>2. PostOrder'
    BY DEF TypeOK, PostOrder
  <2>3. MutualExclusion'
    BY DEF TypeOK, MutualExclusion, Inside, InsideLabels, Threads
  <2>4. WorkerSeesQueue'
    BY DEF TypeOK, MutualExclusion, Inside, InsideLabels, WorkerSeesQueue, StopOrder
  <2>5. StopOrder'
    BY DEF TypeOK, StopOrder
  <2>6. NoLostWakeup'
    BY DEF TypeOK, WorkerSeesQueue, MutualExclusion, Inside, InsideLabels, NoLostWakeup, OwesNotify
  <2> QED
    BY <2>1, <2>2, <2>3, <2>4, <2>5, <2>6
<1>9. CASE SpuriousWakeup
  <2> USE <1>9 DEF SpuriousWakeup, Goto, Acquire, Release, NotifyOne
  <2>1. TypeOK'
    BY DEF TypeOK, Threads, PosterLabels, WorkerLabels, DestroyerLabels
  <2>2. PostOrder'
    BY DEF TypeOK, PostOrder
  <2>3. MutualExclusion'
    BY DEF TypeOK, MutualExclusion, Inside, InsideLabels, Threads
  <2>4. WorkerSeesQueue'
    BY DEF TypeOK, MutualExclusion, Inside, InsideLabels, WorkerSeesQueue, StopOrder
  <2>5. StopOrder'
    BY DEF TypeOK, StopOrder
  <2>6. NoLostWakeup'
    BY DEF TypeOK, WorkerSeesQueue, MutualExclusion, Inside, InsideLabels, NoLostWakeup, OwesNotify
  <2> QED
    BY <2>1, <2>2, <2>3, <2>4, <2>5, <2>6
<1>10. CASE DealInvoke
  <2> USE <1>10 DEF DealInvoke, Goto, Acquire, Release, NotifyOne
  <2>1. TypeOK'
    <3>1. Head(msg_que) \in Message
      BY QueuePop DEF TypeOK, WorkerSeesQueue
    <3>2. called' \in Seq(Message)
      BY <3>1, AppendProperties DEF Invoke, TypeOK
    <3> QED
      BY <3>2 DEF TypeOK, Threads, PosterLabels, WorkerLabels, DestroyerLabels
  <2>2. PostOrder'
    BY DEF TypeOK, PostOrder
  <2>3. MutualExclusion'
    BY DEF TypeOK, MutualExclusion, Inside, InsideLabels, Threads
  <2>4. WorkerSeesQueue'
    BY DEF TypeOK, MutualExclusion, Inside, InsideLabels, WorkerSeesQueue, StopOrder
  <2>5. StopOrder'
    BY DEF TypeOK, StopOrder
  <2>6. NoLostWakeup'
    BY DEF TypeOK, WorkerSeesQueue, MutualExclusion, Inside, InsideLabels, NoLostWakeup, OwesNotify
  <2> QED
    BY <2>1, <2>2, <2>3, <2>4, <2>5, <2>6
<1>11. CASE DealPop
  <2> USE <1>11 DEF DealPop, Goto, Acquire, Release, NotifyOne
  <2>1. TypeOK'
    <3>1. msg_que' \in Seq(Message)
      BY QueuePop DEF TypeOK, WorkerSeesQueue
    <3> QED
      BY <3>1 DEF TypeOK, Threads, PosterLabels, WorkerLabels, DestroyerLabels
  <2>2. PostOrder'
    BY QueuePop, QueuePush DEF TypeOK, PostOrder
  <2>3. MutualExclusion'
    BY QueuePop, QueuePush DEF TypeOK, MutualExclusion, Inside, InsideLabels, Threads
  <2>4. WorkerSeesQueue'
    BY QueuePop, QueuePush DEF TypeOK, MutualExclusion, Inside, InsideLabels, WorkerSeesQueue, StopOrder
  <2>5. StopOrder'
    BY QueuePop, QueuePush DEF TypeOK, StopOrder
  <2>6. NoLostWakeup'
    BY QueuePop, QueuePush DEF TypeOK, WorkerSeesQueue, MutualExclusion, Inside, InsideLabels, NoLostWakeup, OwesNotify
  <2> QED
    BY <2>1, <2>2, <2>3, <2>4, <2>5, <2>6
<1>12. CASE DrainInvoke
  <2> USE <1>12 DEF DrainInvoke, Goto, Acquire, Release, NotifyOne
  <2>1. TypeOK'
    <3>1. Head(msg_que) \in Message
      BY QueuePop DEF TypeOK, WorkerSeesQueue
    <3>2. called' \in Seq(Message)
      BY <3>1, AppendProperties DEF Invoke, TypeOK
    <3> QED
      BY <3>2 DEF TypeOK, Threads, PosterLabels, WorkerLabels, DestroyerLabels
  <2>2. PostOrder'
    BY DEF TypeOK, PostOrder
  <2>3. MutualExclusion'
    BY DEF TypeOK, MutualExclusion, Inside, InsideLabels, Threads
  <2>4. WorkerSeesQueue'
    BY DEF TypeOK, MutualExclusion, Inside, InsideLabels, WorkerSeesQueue, StopOrder
  <2>5. StopOrder'
    BY DEF TypeOK, StopOrder
  <2>6. NoLostWakeup'
    BY DEF TypeOK, WorkerSeesQueue, MutualExclusion, Inside, InsideLabels, NoLostWakeup, OwesNotify
  <2> QED
    BY <2>1, <2>2, <2>3, <2>4, <2>5, <2>6
<1>13. CASE DrainPop
  <2> USE <1>13 DEF DrainPop, Goto, Acquire, Release, NotifyOne
  <2>1. TypeOK'
    <3>1. msg_que' \in Seq(Message)
      BY QueuePop DEF TypeOK, WorkerSeesQueue
    <3> QED
      BY <3>1 DEF TypeOK, Threads, PosterLabels, WorkerLabels, DestroyerLabels
  <2>2. PostOrder'
    BY QueuePop, QueuePush DEF TypeOK, PostOrder
  <2>3. MutualExclusion'
    BY QueuePop, QueuePush DEF TypeOK, MutualExclusion, Inside, InsideLabels, Threads
  <2>4. WorkerSeesQueue'
    BY QueuePop, QueuePush DEF TypeOK, MutualExclusion, Inside, InsideLabels, WorkerSeesQueue, StopOrder
  <2>5. StopOrder'
    BY QueuePop, QueuePush DEF TypeOK, StopOrder
  <2>6. NoLostWakeup'
    BY QueuePop, QueuePush DEF TypeOK, WorkerSeesQueue, MutualExclusion, Inside, InsideLabels, NoLostWakeup, OwesNotify
  <2> QED
    BY <2>1, <2>2, <2>3, <2>4, <2>5, <2>6
<1>14. CASE DrainDone
  <2> USE <1>14 DEF DrainDone, Goto, Acquire, Release, NotifyOne
  <2>1. TypeOK'
    BY DEF TypeOK, Threads, PosterLabels, WorkerLabels, DestroyerLabels
  <2>2. PostOrder'
    BY DEF TypeOK, PostOrder
  <2>3. MutualExclusion'
    BY DEF TypeOK, MutualExclusion, Inside, InsideLabels, Threads
  <2>4. WorkerSeesQueue'
    BY DEF TypeOK, MutualExclusion, Inside, InsideLabels, WorkerSeesQueue, StopOrder
  <2>5. StopOrder'
    BY DEF TypeOK, StopOrder
  <2>6. NoLostWakeup'
    BY DEF TypeOK, WorkerSeesQueue, MutualExclusion, Inside, InsideLabels, NoLostWakeup, OwesNotify
  <2> QED
    BY <2>1, <2>2, <2>3, <2>4, <2>5, <2>6
<1>15. CASE DestroyStop
  <2> USE <1>15 DEF DestroyStop, Goto, Acquire, Release, NotifyOne
  <2>1. TypeOK'
    BY DEF TypeOK, Threads, PosterLabels, WorkerLabels, DestroyerLabels
  <2>2. PostOrder'
    BY DEF TypeOK, PostOrder
  <2>3. MutualExclusion'
    BY DEF TypeOK, MutualExclusion, Inside, InsideLabels, Threads
  <2>4. WorkerSeesQueue'
    BY DEF TypeOK, MutualExclusion, Inside, InsideLabels, WorkerSeesQueue, StopOrder
  <2>5. StopOrder'
    BY DEF TypeOK, StopOrder
  <2>6. NoLostWakeup'
    BY DEF TypeOK, WorkerSeesQueue, MutualExclusion, Inside, InsideLabels, NoLostWakeup, OwesNotify
  <2> QED
    BY <2>1, <2>2, <2>3, <2>4, <2>5, <2>6
<1>16. CASE DestroyNotify
  <2> USE <1>16 DEF DestroyNotify, Goto, Acquire, Release, NotifyOne
  <2>1. TypeOK'
    BY DEF TypeOK, Threads, PosterLabels, WorkerLabels, DestroyerLabels
  <2>2. PostOrder'
    BY DEF TypeOK, PostOrder
  <2>3. MutualExclusion'
    BY DEF TypeOK, MutualExclusion, Inside, InsideLabels, Threads
  <2>4. WorkerSeesQueue'
    BY DEF TypeOK, MutualExclusion, Inside, InsideLabels, WorkerSeesQueue, StopOrder
  <2>5. StopOrder'
    BY DEF TypeOK, StopOrder
  <2>6. NoLostWakeup'
    BY DEF TypeOK, WorkerSeesQueue, MutualExclusion, Inside, InsideLabels, NoLostWakeup, OwesNotify
  <2> QED
    BY <2>1, <2>2, <2>3, <2>4, <2>5, <2>6
<1>17. CASE DestroyJoin
  <2> USE <1>17 DEF DestroyJoin, Goto, Acquire, Release, NotifyOne
  <2>1. TypeOK'
    BY DEF TypeOK, Threads, PosterLabels, WorkerLabels, DestroyerLabels
  <2>2. PostOrder'
    BY DEF TypeOK, PostOrder
  <2>3. MutualExclusion'
    BY DEF TypeOK, MutualExclusion, Inside, InsideLabels, Threads
  <2>4. WorkerSeesQueue'
    BY DEF TypeOK, MutualExclusion, Inside, InsideLabels, WorkerSeesQueue, StopOrder
  <2>5. StopOrder'
    BY DEF TypeOK, StopOrder
  <2>6. NoLostWakeup'
    BY DEF TypeOK, WorkerSeesQueue, MutualExclusion, Inside, InsideLabels, NoLostWakeup, OwesNotify
  <2> QED
    BY <2>1, <2>2, <2>3, <2>4, <2>5, <2>6
<1>18. CASE UNCHANGED vars
  BY <1>18 DEF vars, TypeOK, PostOrder, MutualExclusion, Inside, WorkerSeesQueue, StopOrder, NoLostWakeup, OwesNotify
<1> QED
  BY <1>1, <1>2, <1>3, <1>4, <1>5, <1>6, <1>7, <1>8, <1>9, <1>10, <1>11, <1>12, <1>13, <1>14, <1>15, <1>16, <1>17, <1>18 DEF Next, PosterStep, WorkerStep, DestroyerStep

-----------------------------------------------------------------------------
THEOREM Inductive == Spec => []IInv
BY InitIInv, NextIInv, PTL DEF Spec

\* Every variable keeps its type: in particular the queue holds only messages
\* that PostMsgToQue was given, and the worker's front() is never read when
\* the queue is empty.
THEOREM TypeCorrect == Spec => []TypeOK
<1>1. IInv => TypeOK
  BY DEF IInv
<1> QED
  BY <1>1, Inductive, PTL

\* _mutex is held by exactly the thread that is inside it, for any number of
\* I/O threads, through cv.wait and the early unlock of PostMsgToQue.
THEOREM MutexIsSafe == Spec => []MutualExclusion
<1>1. IInv => MutualExclusion
  BY DEF IInv
<1> QED
  BY <1>1, Inductive, PTL

\* Notifying only when the queue was empty never leaves the worker asleep on
\* a message nobody is about to announce.
THEOREM NotifyOnFirstSuffices == Spec => []NoLostWakeup
<1>1. IInv => NoLostWakeup
  BY DEF IInv
<1> QED
  BY <1>1, Inductive, PTL

\* When the destructor has joined the worker, nothing that was posted is left.
THEOREM ShutdownLosesNothing == Spec => []JoinedMeansDrained
<1>1. IInv => JoinedMeansDrained
  <2> SUFFICES ASSUME IInv, pc[Destroyer] = "joined"
               PROVE  /\ msg_que = <<>>
                      /\ mutex = Nobody
                      /\ \A p \in Posters : pc[p] = "idle"
    BY DEF JoinedMeansDrained
  <2>1. pc[Worker] = "done" /\ b_stop
    BY DEF IInv, StopOrder
  <2>2. msg_que = <<>>
    BY <2>1 DEF IInv, WorkerSeesQueue
  <2>3. \A p \in Posters : pc[p] = "idle"
    BY <2>1 DEF IInv, StopOrder
  <2>4. \A t \in Threads : ~Inside(t)
    BY <2>1, <2>3, DistinctThreads DEF Inside, InsideLabels, Threads
  <2>5. mutex = Nobody
    BY <2>4 DEF IInv, TypeOK, MutualExclusion
  <2> QED
    BY <2>2, <2>3, <2>5
<1> QED
  BY <1>1, Inductive, PTL

-----------------------------------------------------------------------------
(***************************************************************************)
(* The refinement.  A push is a Post, choosing the callback of the front   *)
(* message is a Serve, leaving the drained queue is a Close, and every     *)
(* other step leaves LogicQueue's variables alone.                         *)
(***************************************************************************)
LEMMA InitRefines == Init => LQ!Init
BY DistinctThreads DEF Init, LQ!Init, AbstractPending

LEMMA PushIsPost ==
  ASSUME IInv, NEW p \in Posters, PostPush(p)
  PROVE  \E m \in Message : LQ!Post(m)
<1> USE DistinctThreads
<1>1. PICK id \in MsgIds :
        msg_que' = Append(msg_que, [from |-> p, n |-> sent[p] + 1, id |-> id])
  BY DEF PostPush
<1> DEFINE m == [from |-> p, n |-> sent[p] + 1, id |-> id]
<1>2. m \in Message
  <2>1. sent[p] \in Nat /\ sent[p] < MaxPosts
    BY DEF PostPush, IInv, TypeOK, PostOrder
  <2>2. sent[p] + 1 \in 1..MaxPosts
    BY <2>1, DataAssumption
  <2> QED
    BY <2>2 DEF Message
<1>3. pc[Worker] \notin {"pop", "drainpop", "done"}
  BY DEF PostPush, IInv, MutualExclusion, Inside, InsideLabels, Threads, StopOrder
<1>4. pc'[Worker] = pc[Worker]
  BY DEF PostPush, Goto, IInv, TypeOK
<1>5. AbstractPending' = Append(AbstractPending, m)
  BY <1>1, <1>3, <1>4 DEF AbstractPending
<1>6. LQ!Post(m)
  BY <1>3, <1>4, <1>5 DEF LQ!Post, PostPush
<1> QED
  BY <1>2, <1>6

\* Choosing the callback of the front message, in the loop or in the drain.
LEMMA InvokeIsServe ==
  ASSUME IInv, DealInvoke \/ DrainInvoke
  PROVE  LQ!Serve
<1> USE DistinctThreads
<1>1. /\ msg_que # <<>> /\ msg_que' = msg_que
      /\ pc[Worker] \in {"deal", "drain"}
      /\ pc'[Worker] \in {"pop", "drainpop"}
  BY DEF DealInvoke, DrainInvoke, Goto, IInv, TypeOK, WorkerSeesQueue
<1>2. AbstractPending = msg_que /\ AbstractPending' = Tail(msg_que)
  BY <1>1 DEF AbstractPending
<1>3. Head(msg_que) \in Message
  BY <1>1, QueuePop DEF IInv, TypeOK
<1>4. Head(msg_que) \in HandledMessage <=> Head(msg_que).id \in Registered
  BY <1>3 DEF HandledMessage
<1>5. called' = IF Head(msg_que) \in HandledMessage
                  THEN Append(called, Head(msg_que)) ELSE called
  BY <1>4 DEF DealInvoke, DrainInvoke, Invoke
<1> QED
  BY <1>1, <1>2, <1>5 DEF LQ!Serve

LEMMA DoneIsClose ==
  ASSUME IInv, DrainDone
  PROVE  LQ!Close
BY DistinctThreads DEF DrainDone, Goto, IInv, TypeOK, LQ!Close, AbstractPending

\* The steps of the implementation that LogicQueue does not see.
LEMMA OthersStutter ==
  ASSUME IInv,
         \/ \E p \in Posters :
              PostLock(p) \/ PostUnlock(p) \/ PostNotify(p) \/ PostLeave(p)
         \/ DealLock \/ DealTest \/ DealWait \/ DealPop \/ DrainPop
         \/ SpuriousWakeup
         \/ DestroyerStep
  PROVE  UNCHANGED LQ!vars
<1> USE DistinctThreads DEF LQ!vars, AbstractPending, IInv, TypeOK, Goto, NotifyOne
<1>1. ASSUME NEW p \in Posters,
             PostLock(p) \/ PostUnlock(p) \/ PostNotify(p) \/ PostLeave(p)
      PROVE  UNCHANGED LQ!vars
  BY <1>1 DEF PostLock, PostUnlock, PostNotify, PostLeave
<1>2. CASE DealLock \/ DealTest \/ DealWait \/ SpuriousWakeup
  BY <1>2 DEF DealLock, DealTest, DealWait, SpuriousWakeup
<1>3. CASE DealPop \/ DrainPop
  BY <1>3 DEF DealPop, DrainPop
<1>4. CASE DestroyerStep
  BY <1>4 DEF DestroyerStep, DestroyStop, DestroyNotify, DestroyJoin
<1> QED
  BY <1>1, <1>2, <1>3, <1>4

\* Callbacks run in posting order, once for each message, and the service ends
\* with nothing left to serve.
THEOREM Refinement == Spec => ImplementsLogicQueue
<1>1. IInv /\ [Next]_vars => [LQ!Next]_(LQ!vars)
  <2> SUFFICES ASSUME IInv, [Next]_vars
               PROVE  LQ!Next \/ UNCHANGED LQ!vars
    OBVIOUS
  <2>1. CASE UNCHANGED vars
    BY <2>1 DEF vars, LQ!vars, AbstractPending
  <2>2. ASSUME NEW p \in Posters, PostPush(p) PROVE LQ!Next
    BY <2>2, PushIsPost DEF LQ!Next
  <2>3. CASE DealInvoke \/ DrainInvoke
    BY <2>3, InvokeIsServe DEF LQ!Next
  <2>4. CASE DrainDone
    BY <2>4, DoneIsClose DEF LQ!Next
  <2> QED
    BY <2>1, <2>2, <2>3, <2>4, OthersStutter
    DEF Next, PosterStep, WorkerStep
<1> QED
  BY <1>1, InitRefines, Inductive, PTL DEF Spec, LQ!Spec, ImplementsLogicQueue
=============================================================================
