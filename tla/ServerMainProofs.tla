-------------------------- MODULE ServerMainProofs --------------------------
(***************************************************************************)
(* ServerMain proved for any number of sessions and of pool threads, and   *)
(* for the three servers.                                                  *)
(*                                                                         *)
(* That no client is abandoned and that Stop returns to a quiet pool rest  *)
(* on one fact: a session that reads has a thread (ReadersServed), since a *)
(* thread ends only after the work guards are gone, when nothing is        *)
(* accepted any more, and on a service that is not busy.  A reply may      *)
(* still be queued for a session whose thread has ended: that a service    *)
(* without a thread has no operation at all would not be inductive.        *)
(* Balanced needs to know which services have had the one turn more: those *)
(* that next_service has passed.  A turn is a session or a failed accept.  *)
(***************************************************************************)
EXTENDS ServerMain, FiniteSetTheorems, TLAPS

\* Messages posted and replies queued share one bound.
PendingBound == \A s \in Session : pending[s] + unsent[s] <= MaxPending

\* How far main has got, and what it has done on the way.
StopOrder ==
  /\ main # "serving" => MainRuns
  /\ main \in {"serving", "stop"} =>
       work = Service /\ \A t \in Thread : thread[t] = "running"
  /\ \A t \in joined : thread[t] = "ended"
  /\ main \in {"return", "exited"} => joined = Thread

\* A session that has not been accepted has no service, and one that has been
\* accepted reads as long as its client is there and no header was refused.
SessionOrder ==
  \A s \in Session :
    /\ client[s] = "away" => home[s] = 0 /\ ~reading[s]
    /\ client[s] = "connected" /\ ~rejected[s] => reading[s]

\* A session that reads has a thread.
ReadersServed == \A s \in Session : reading[s] => Served(home[s])

IInv == TypeOK /\ PendingBound /\ StopOrder /\ SessionOrder /\ ReadersServed

\* The services that next_service has passed in this turn have had one socket
\* more than the others, for a session or a failed accept.
DealtUpTo(c) ==
  \A v \in Service :
    /\ IsFiniteSet(On(v))
    /\ Cardinality(On(v)) + accept_failed[v] = IF v < next_service THEN c + 1 ELSE c

InTurn == \E c \in Nat : DealtUpTo(c)

-----------------------------------------------------------------------------
\* There is a service 1, and GetIOService counts as many services as there are.
LEMMA Services ==
  /\ Threads \in Nat \ {0}
  /\ 1 \in Service
  /\ Service = 1..Cardinality(Service)
  /\ Cardinality(Service) \in Nat \ {0}
  /\ \A t \in Thread : ServiceOf(t) \in Service
<1>1. CASE MainRuns
  <2>1. Cardinality(1..Threads) = Threads
    BY MainAssumption, FS_Interval
  <2> QED
    BY <1>1, <2>1, MainAssumption DEF Service, Thread, ServiceOf
<1>2. CASE ~MainRuns
  <2>1. Cardinality({1}) = 1
    BY FS_Singleton
  <2>2. {1} = 1..1
    OBVIOUS
  <2> QED
    BY <1>2, <2>1, <2>2, MainAssumption DEF Service, ServiceOf
<1> QED
  BY <1>1, <1>2, MainAssumption

LEMMA AfterServiceInService ==
  ASSUME next_service \in Service
  PROVE  AfterService \in Service
BY Services DEF AfterService

LEMMA InitIInv == Init => IInv
<1> SUFFICES ASSUME Init PROVE IInv
  OBVIOUS
<1> USE MainAssumption, Services DEF Init
<1>1. TypeOK
  <2>1. /\ pending \in [Session -> 0..MaxPending]
        /\ unsent \in [Session -> 0..MaxPending]
    OBVIOUS
  <2>2. next_service \in Service /\ accept_failed \in [Service -> 0..MaxFailures]
    OBVIOUS
  <2> QED
    BY <2>1, <2>2 DEF TypeOK
<1>2. PendingBound /\ StopOrder /\ SessionOrder /\ ReadersServed
  BY DEF PendingBound, StopOrder, SessionOrder, ReadersServed
<1> QED
  BY <1>1, <1>2 DEF IInv

LEMMA NextIInv == IInv /\ [Next]_vars => IInv'
<1> SUFFICES ASSUME IInv, [Next]_vars PROVE IInv'
  OBVIOUS
<1> USE MainAssumption, Services DEF IInv
<1>1. CASE Signal
  BY <1>1 DEF Signal, TypeOK, PendingBound, StopOrder, SessionOrder, ReadersServed,
    Served, mainVars, poolVars, sessionVars, readVars, writeVars
<1>2. CASE HandleSignal
  BY <1>2 DEF HandleSignal, TypeOK, PendingBound, StopOrder, SessionOrder,
    ReadersServed, Served, poolVars, sessionVars, readVars, writeVars
<1>3. CASE StopWork
  BY <1>3 DEF StopWork, TypeOK, PendingBound, StopOrder, SessionOrder,
    ReadersServed, Served, poolVars, sessionVars, readVars, writeVars
<1>4. CASE Join
  <2> USE <1>4 DEF Join, poolVars, sessionVars, readVars, writeVars
  <2>1. PICK t \in Thread \ joined : thread[t] = "ended" /\ joined' = joined \cup {t}
    OBVIOUS
  <2>2. TypeOK' /\ StopOrder'
    BY <2>1 DEF TypeOK, StopOrder
  <2>3. PendingBound' /\ SessionOrder' /\ ReadersServed'
    BY DEF PendingBound, SessionOrder, ReadersServed, Served
  <2> QED
    BY <2>2, <2>3
<1>5. CASE Exit
  BY <1>5 DEF Exit, TypeOK, PendingBound, StopOrder, SessionOrder, ReadersServed,
    Served, poolVars, sessionVars, readVars, writeVars
<1>6. ASSUME NEW s \in Session, Accept(s) PROVE IInv'
  <2> USE <1>6 DEF Accept, mainVars, writeVars
  <2>1. TypeOK'
    BY AfterServiceInService DEF TypeOK
  <2>2. PendingBound' /\ StopOrder' /\ SessionOrder'
    BY DEF TypeOK, PendingBound, StopOrder, SessionOrder
  <2>3. Served(next_service)
    <3>1. CASE MainRuns
      BY <3>1 DEF TypeOK, Accepting, Served, StopOrder, Service, Thread, ServiceOf
    <3>2. CASE ~MainRuns
      BY <3>2 DEF TypeOK, Accepting, Service
    <3> QED
      BY <3>1, <3>2
  <2>4. ReadersServed'
    BY <2>3 DEF TypeOK, ReadersServed, Served
  <2> QED
    BY <2>1, <2>2, <2>4
<1>7. ASSUME NEW s \in Session, ClientLeaves(s) PROVE IInv'
  <2> USE <1>7 DEF ClientLeaves, mainVars, poolVars, readVars, writeVars
  <2>1. TypeOK'
    BY DEF TypeOK
  <2>2. PendingBound'
    BY DEF TypeOK, PendingBound
  <2>3. StopOrder' /\ SessionOrder'
    BY DEF TypeOK, StopOrder, SessionOrder
  <2>4. ReadersServed'
    BY DEF TypeOK, ReadersServed, Served
  <2> QED
    BY <2>1, <2>2, <2>3, <2>4
<1>8. ASSUME NEW s \in Session, ReadMessage(s) PROVE IInv'
  <2> USE <1>8 DEF ReadMessage, mainVars, poolVars, readVars, writeVars
  <2>1. TypeOK'
    BY DEF TypeOK
  <2>2. PendingBound'
    BY DEF TypeOK, PendingBound
  <2>3. StopOrder' /\ SessionOrder'
    BY DEF TypeOK, StopOrder, SessionOrder
  <2>4. ReadersServed'
    BY DEF TypeOK, ReadersServed, Served
  <2> QED
    BY <2>1, <2>2, <2>3, <2>4
<1>9. ASSUME NEW s \in Session, ReadFail(s) PROVE IInv'
  <2> USE <1>9 DEF ReadFail, mainVars, poolVars, readVars, writeVars
  <2>1. TypeOK'
    BY DEF TypeOK
  <2>2. PendingBound'
    BY DEF TypeOK, PendingBound
  <2>3. StopOrder' /\ SessionOrder'
    BY DEF TypeOK, StopOrder, SessionOrder
  <2>4. ReadersServed'
    BY DEF TypeOK, ReadersServed, Served
  <2> QED
    BY <2>1, <2>2, <2>3, <2>4
<1>10. ASSUME NEW s \in Session, Reply(s) PROVE IInv'
  <2> USE <1>10 DEF Reply, mainVars, poolVars, readVars, writeVars
  <2>1. TypeOK'
    <3>1. pending[s] - 1 \in 0..MaxPending /\ unsent[s] + 1 \in 0..MaxPending
      BY DEF TypeOK, PendingBound
    <3> QED
      BY <3>1 DEF TypeOK
  <2>2. PendingBound'
    BY DEF TypeOK, PendingBound
  <2>3. StopOrder' /\ SessionOrder'
    BY DEF TypeOK, StopOrder, SessionOrder
  <2>4. ReadersServed'
    BY DEF TypeOK, ReadersServed, Served
  <2> QED
    BY <2>1, <2>2, <2>3, <2>4
<1>11. ASSUME NEW s \in Session, WriteDone(s) PROVE IInv'
  <2> USE <1>11 DEF WriteDone, mainVars, poolVars, readVars, writeVars
  <2>1. TypeOK'
    <3>1. unsent[s] - 1 \in 0..MaxPending
      BY DEF Writing, TypeOK
    <3> QED
      BY <3>1 DEF TypeOK
  <2>2. PendingBound'
    BY DEF TypeOK, PendingBound
  <2>3. StopOrder' /\ SessionOrder'
    BY DEF TypeOK, StopOrder, SessionOrder
  <2>4. ReadersServed'
    BY DEF TypeOK, ReadersServed, Served
  <2> QED
    BY <2>1, <2>2, <2>3, <2>4
<1>12. ASSUME NEW s \in Session, ReadInvalid(s) PROVE IInv'
  <2> USE <1>12 DEF ReadInvalid, mainVars, poolVars, readVars, writeVars
  <2>1. TypeOK'
    BY DEF TypeOK
  <2>2. PendingBound'
    BY DEF TypeOK, PendingBound
  <2>3. StopOrder' /\ SessionOrder'
    BY DEF TypeOK, StopOrder, SessionOrder
  <2>4. ReadersServed'
    BY DEF TypeOK, ReadersServed, Served
  <2> QED
    BY <2>1, <2>2, <2>3, <2>4
<1>13. ASSUME NEW s \in Session, WriteFail(s) PROVE IInv'
  <2> USE <1>13 DEF WriteFail, mainVars, poolVars, readVars, writeVars
  <2>1. TypeOK'
    BY DEF TypeOK
  <2>2. PendingBound'
    BY DEF TypeOK, PendingBound
  <2>3. StopOrder' /\ SessionOrder'
    BY DEF TypeOK, StopOrder, SessionOrder
  <2>4. ReadersServed'
    BY DEF TypeOK, ReadersServed, Served
  <2> QED
    BY <2>1, <2>2, <2>3, <2>4
<1>14. ASSUME NEW s \in Session, Destruct(s) PROVE IInv'
  <2> USE <1>14 DEF Destruct, mainVars, poolVars, readVars, writeVars
  <2>1. TypeOK'
    BY DEF TypeOK
  <2>2. PendingBound'
    BY DEF TypeOK, PendingBound
  <2>3. StopOrder' /\ SessionOrder'
    BY DEF TypeOK, StopOrder, SessionOrder
  <2>4. ReadersServed'
    BY DEF TypeOK, ReadersServed, Served
  <2> QED
    BY <2>1, <2>2, <2>3, <2>4
<1>15. CASE AcceptFail
  <2> USE <1>15 DEF AcceptFail, mainVars, sessionVars, readVars, writeVars
  <2>1. TypeOK'
    <3>1. next_service' \in Service
      BY AfterServiceInService DEF TypeOK
    <3>2. accept_failed[next_service] + 1 \in 0..MaxFailures
      BY DEF TypeOK
    <3> QED
      BY <3>1, <3>2 DEF TypeOK
  <2>2. PendingBound'
    BY DEF TypeOK, PendingBound
  <2>3. StopOrder' /\ SessionOrder'
    BY DEF TypeOK, StopOrder, SessionOrder
  <2>4. ReadersServed'
    BY DEF TypeOK, ReadersServed, Served
  <2> QED
    BY <2>1, <2>2, <2>3, <2>4
<1>16. ASSUME NEW t \in Thread, ThreadEnds(t) PROVE IInv'
  <2> USE <1>16 DEF ThreadEnds, mainVars, sessionVars, readVars, writeVars
  <2>1. TypeOK' /\ PendingBound' /\ SessionOrder'
    BY DEF TypeOK, PendingBound, SessionOrder
  <2>2. StopOrder'
    BY DEF TypeOK, StopOrder
  <2>3. ReadersServed'
    <3> SUFFICES ASSUME NEW s \in Session, reading[s] PROVE Served(home[s])'
      BY DEF ReadersServed
    <3>1. PICK u \in Thread : thread[u] = "running" /\ ServiceOf(u) = home[s]
      BY DEF ReadersServed, Served
    <3>2. u # t
      BY <3>1 DEF Busy
    <3> QED
      BY <3>1, <3>2 DEF TypeOK, Served
  <2> QED
    BY <2>1, <2>2, <2>3
<1>17. CASE UNCHANGED vars
  BY <1>17 DEF vars, TypeOK, PendingBound, StopOrder, SessionOrder, ReadersServed,
    Served, mainVars, poolVars, sessionVars, readVars, writeVars
<1> QED
  BY <1>1, <1>2, <1>3, <1>4, <1>5, <1>6, <1>7, <1>8, <1>9, <1>10,
    <1>11, <1>12, <1>13, <1>14, <1>15, <1>16, <1>17 DEF Next, Main, Serve

LEMMA Inductive == Spec => []IInv
BY InitIInv, NextIInv, PTL DEF Spec

-----------------------------------------------------------------------------
\* Every variable keeps its type: next_service names a service after any number
\* of calls of GetIOService, and main's state is one of the five.
THEOREM TypeCorrect == Spec => []TypeOK
<1>1. IInv => TypeOK
  BY DEF IInv
<1> QED
  BY <1>1, Inductive, PTL

\* Until its client leaves or sends an invalid header a session reads and has a
\* thread that runs its io_context, before and during Stop.
THEOREM NoClientAbandoned == Spec => []ClientsAreServed
<1>1. IInv => ClientsAreServed
  BY DEF IInv, SessionOrder, ReadersServed, ClientsAreServed
<1> QED
  BY <1>1, Inductive, PTL

\* When Stop has returned every thread of the pool has ended and no session
\* reads: a client that is still connected was refused for an invalid header.
THEOREM StopWaits == Spec => []StoppedMeansQuiet
<1>1. IInv => StoppedMeansQuiet
  BY DEF IInv, StopOrder, SessionOrder, ReadersServed, Served, StoppedMeansQuiet
<1> QED
  BY <1>1, Inductive, PTL

-----------------------------------------------------------------------------
\* Accepting a session adds it to the service that is next, and to no other.
LEMMA AcceptAdds ==
  ASSUME IInv, NEW s \in Session, Accept(s), NEW v \in Service
  PROVE  /\ s \notin On(v)
         /\ On(v)' = IF v = next_service THEN On(v) \cup {s} ELSE On(v)
<1>1. home[s] = 0
  BY DEF IInv, SessionOrder, Accept
<1>2. v # 0
  BY Services
<1> QED
  BY <1>1, <1>2 DEF IInv, TypeOK, Accept, On

LEMMA InitInTurn == Init => InTurn
<1> SUFFICES ASSUME Init PROVE DealtUpTo(0)
  BY DEF InTurn
<1> SUFFICES ASSUME NEW v \in Service
             PROVE  /\ IsFiniteSet(On(v))
                    /\ Cardinality(On(v)) + accept_failed[v] = IF v < next_service THEN 1 ELSE 0
  BY DEF DealtUpTo
<1>1. On(v) = {} /\ ~(v < next_service) /\ accept_failed[v] = 0
  BY Services DEF Init, On
<1>2. IsFiniteSet(On(v)) /\ Cardinality(On(v)) = 0
  BY <1>1, FS_EmptySet
<1> QED
  BY <1>1, <1>2

\* One more turn of GetIOService, for a session or a failed accept, leaves the
\* turns dealt as they should be.
LEMMA TurnTaken ==
  ASSUME IInv, NEW c \in Nat, DealtUpTo(c), next_service' = AfterService,
         \A v \in Service :
           /\ IsFiniteSet(On(v))'
           /\ (Cardinality(On(v)) + accept_failed[v])' =
                Cardinality(On(v)) + accept_failed[v] + (IF v = next_service THEN 1 ELSE 0)
  PROVE  InTurn'
<1>d. PICK d \in Nat : d = IF next_service = Cardinality(Service) THEN c + 1 ELSE c
  OBVIOUS
<1> SUFFICES DealtUpTo(d)'
  BY DEF InTurn
<1> SUFFICES ASSUME NEW v \in Service
             PROVE  /\ IsFiniteSet(On(v))'
                    /\ (Cardinality(On(v)) + accept_failed[v])' =
                         IF v < next_service' THEN d + 1 ELSE d
  BY DEF DealtUpTo, Service, Thread, MainRuns
<1>1. Cardinality(On(v)) + accept_failed[v] = IF v < next_service THEN c + 1 ELSE c
  BY DEF DealtUpTo
<1>2. next_service \in Service
  BY DEF IInv, TypeOK
<1>3. (Cardinality(On(v)) + accept_failed[v])' =
         (IF v < next_service THEN c + 1 ELSE c) + (IF v = next_service THEN 1 ELSE 0)
  BY <1>1
<1>4. CASE next_service = Cardinality(Service)
  BY <1>d, <1>2, <1>3, <1>4, Services DEF AfterService
<1>5. CASE next_service # Cardinality(Service)
  BY <1>d, <1>2, <1>3, <1>5, Services DEF AfterService
<1> QED
  BY <1>4, <1>5

LEMMA AcceptInTurn ==
  ASSUME IInv, NEW s \in Session, Accept(s), NEW c \in Nat, DealtUpTo(c)
  PROVE  InTurn'
<1>1. ASSUME NEW v \in Service
      PROVE  /\ IsFiniteSet(On(v))'
             /\ (Cardinality(On(v)) + accept_failed[v])' =
                  Cardinality(On(v)) + accept_failed[v] + (IF v = next_service THEN 1 ELSE 0)
  <2>1. IsFiniteSet(On(v)) /\ Cardinality(On(v)) \in Nat
    BY FS_CardinalityType DEF DealtUpTo
  <2>2. accept_failed[v] \in Nat /\ accept_failed'[v] = accept_failed[v]
    BY MainAssumption DEF IInv, TypeOK, Accept
  <2>3. CASE v = next_service
    <3>1. On(v)' = On(v) \cup {s} /\ s \notin On(v)
      BY <2>3, AcceptAdds
    <3>2. /\ IsFiniteSet(On(v) \cup {s})
          /\ Cardinality(On(v) \cup {s}) = Cardinality(On(v)) + 1
      BY <2>1, <3>1, FS_AddElement
    <3> QED
      BY <2>1, <2>2, <2>3, <3>1, <3>2
  <2>4. CASE v # next_service
    <3>1. On(v)' = On(v)
      BY <2>4, AcceptAdds
    <3> QED
      BY <2>1, <2>2, <2>4, <3>1
  <2> QED
    BY <2>3, <2>4
<1>2. next_service' = AfterService
  BY DEF Accept
<1> QED
  BY <1>1, <1>2, TurnTaken

LEMMA AcceptFailInTurn ==
  ASSUME IInv, AcceptFail, NEW c \in Nat, DealtUpTo(c)
  PROVE  InTurn'
<1>1. ASSUME NEW v \in Service
      PROVE  /\ IsFiniteSet(On(v))'
             /\ (Cardinality(On(v)) + accept_failed[v])' =
                  Cardinality(On(v)) + accept_failed[v] + (IF v = next_service THEN 1 ELSE 0)
  <2>1. IsFiniteSet(On(v)) /\ Cardinality(On(v)) \in Nat
    BY FS_CardinalityType DEF DealtUpTo
  <2>2. On(v)' = On(v)
    BY DEF AcceptFail, sessionVars, readVars, On
  <2>3. accept_failed'[v] = accept_failed[v] + (IF v = next_service THEN 1 ELSE 0)
    BY MainAssumption DEF IInv, TypeOK, AcceptFail
  <2>4. accept_failed[v] \in Nat
    BY MainAssumption DEF IInv, TypeOK
  <2> QED
    BY <2>1, <2>2, <2>3, <2>4
<1>2. next_service' = AfterService
  BY DEF AcceptFail
<1> QED
  BY <1>1, <1>2, TurnTaken

LEMMA NextInTurn == IInv /\ InTurn /\ [Next]_vars => InTurn'
<1> SUFFICES ASSUME IInv, InTurn, [Next]_vars PROVE InTurn'
  OBVIOUS
<1>c. PICK c \in Nat : DealtUpTo(c)
  BY DEF InTurn
<1>1. CASE \E s \in Session : Accept(s)
  BY <1>c, <1>1, AcceptInTurn
<1>2. CASE AcceptFail
  BY <1>c, <1>2, AcceptFailInTurn
<1>3. CASE UNCHANGED <<home, next_service, accept_failed>>
  <2>1. DealtUpTo(c)'
    BY <1>c, <1>3 DEF DealtUpTo, On, Service, Thread, MainRuns
  <2> QED
    BY <2>1 DEF InTurn
<1> QED
  BY <1>1, <1>2, <1>3 DEF Next, Signal, Main, HandleSignal, StopWork, Join, Exit,
    ClientLeaves, Serve, ReadMessage, ReadInvalid, ReadFail, Reply, WriteDone,
    WriteFail, Destruct, ThreadEnds, vars, mainVars, poolVars, sessionVars,
    readVars, writeVars

\* GetIOService deals the sessions out evenly over any number of services but for
\* the accepts that fail: a service falls behind another by two sessions or more
\* only if accepts have failed in its turn, and by as many more as have.
THEOREM EvenlyDealt == Spec => []Balanced
<1>1. IInv /\ InTurn => Balanced
  <2> SUFFICES ASSUME IInv, NEW c \in Nat, DealtUpTo(c), NEW v \in Service, NEW w \in Service
               PROVE  Cardinality(On(v)) <= Cardinality(On(w)) + accept_failed[w] + 1
    BY DEF InTurn, Balanced
  <2>1. /\ Cardinality(On(v)) + accept_failed[v] \in {c, c + 1}
        /\ Cardinality(On(w)) + accept_failed[w] \in {c, c + 1}
    BY DEF DealtUpTo
  <2>2. Cardinality(On(v)) \in Nat /\ Cardinality(On(w)) \in Nat
    BY FS_CardinalityType DEF DealtUpTo
  <2>3. accept_failed[v] \in Nat /\ accept_failed[w] \in Nat
    BY MainAssumption DEF IInv, TypeOK
  <2> QED
    BY <2>1, <2>2, <2>3
<1>2. Spec => []InTurn
  BY InitInTurn, NextInTurn, Inductive, PTL DEF Spec
<1> QED
  BY <1>1, <1>2, Inductive, PTL
=============================================================================
