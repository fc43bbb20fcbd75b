--------------------------- MODULE CServerProofs ---------------------------
(***************************************************************************)
(* Proofs about CServer for any sessions.  The types hold in every server; *)
(* the others in one whose _sessions is guarded, CorotineServer's.         *)
(***************************************************************************)
EXTENDS CServer, TLAPS

(***************************************************************************)
(* The inductive invariant.                                                *)
(***************************************************************************)
\* _mutex is held by the one user that is in _sessions, if there is one.
MutexHeld ==
  /\ accept = "insert" <=> mutex = Accept
  /\ \A s \in Session, h \in Handler : handler[s][h] = "erase" <=> mutex = <<s, h>>

\* A session that has not been started is not in _sessions and runs nothing; it
\* is not in _sessions before HandleAccept inserts it.
NewIsFresh ==
  /\ accept = "idle" => handler[accepting] = Off /\ accepting \notin sessions
  /\ accept = "start" => handler[newSession] = Off
  /\ accept \in {"start", "lock", "insert"} => newSession \notin sessions

\* Stronger than LeftOnlyIfMissed: whatever its writes do, a session whose reads
\* have ended was missed by its ClearSession if it is, or will be, in _sessions.
ReadLeftMissed ==
  \A s \in Session :
    handler[s]["read"] = "done" =>
      \/ s \in missed
      \/ s \notin sessions /\ (newSession = s => accept = "listen")

IInv ==
  /\ TypeOK
  /\ MutexHeld
  /\ NewIsFresh
  /\ RunningIsListed
  /\ ReadLeftMissed

-----------------------------------------------------------------------------
(***************************************************************************)
(* The types.                                                              *)
(***************************************************************************)
LEMMA TypeInit == Init => TypeOK
BY CServerAssumption DEF Init, TypeOK, Off, Handler

\* A new value of one handler keeps the type of them all.
LEMMA AtType ==
  ASSUME TypeOK, NEW s \in Session, NEW h \in Handler, NEW from,
         NEW to \in {"off", "on", "clear", "erase", "done"}, At(s, h, from, to)
  PROVE  /\ handler' \in [Session -> [Handler -> {"off", "on", "clear", "erase", "done"}]]
         /\ handler'[s][h] = to
         /\ \A t \in Session, g \in Handler :
              <<t, g>> # <<s, h>> => handler'[t][g] = handler[t][g]
BY DEF TypeOK, At, Handler

LEMMA TypeNext == TypeOK /\ [Next]_vars => TypeOK'
<1> SUFFICES ASSUME TypeOK, [Next]_vars PROVE TypeOK'
  OBVIOUS
<1>1. ASSUME NEW ec \in BOOLEAN, AcceptDone(ec) PROVE TypeOK'
  BY <1>1, CServerAssumption DEF TypeOK, AcceptDone
<1>2. CASE AcceptStart
  BY <1>2 DEF TypeOK, AcceptStart, Handler
<1>3. CASE AcceptLock
  BY <1>3 DEF TypeOK, AcceptLock, Enter, User
<1>4. CASE AcceptInsert
  BY <1>4 DEF TypeOK, AcceptInsert, Leave
<1>5. CASE StartAccept
  BY <1>5, CServerAssumption DEF TypeOK, StartAccept, Unused, Off, Handler
<1>6. ASSUME NEW s \in Session, WriteStart(s) \/ WriteDone(s) PROVE TypeOK'
  <2>1. "write" \in Handler
    BY DEF Handler
  <2>2. CASE WriteStart(s)
    BY <2>1, <2>2, AtType DEF TypeOK, WriteStart
  <2>3. CASE WriteDone(s)
    BY <2>1, <2>3, AtType DEF TypeOK, WriteDone
  <2> QED
    BY <1>6, <2>2, <2>3
<1>7. ASSUME NEW s \in Session, NEW h \in Handler, Fail(s, h) PROVE TypeOK'
  BY <1>7, AtType DEF TypeOK, Fail
<1>8. ASSUME NEW s \in Session, NEW h \in Handler, ClearLock(s, h) PROVE TypeOK'
  BY <1>8, AtType DEF TypeOK, ClearLock, Enter, User
<1>9. ASSUME NEW s \in Session, NEW h \in Handler, ClearErase(s, h) PROVE TypeOK'
  BY <1>9, AtType DEF TypeOK, ClearErase, Leave
<1>10. CASE UNCHANGED vars
  BY <1>10 DEF TypeOK, vars
<1> QED
  BY <1>1, <1>2, <1>3, <1>4, <1>5, <1>6, <1>7, <1>8, <1>9, <1>10
  DEF Next, HandleAccept, ClearSession

\* Every variable of CServer keeps its type, and async_accept waits exactly when
\* HandleAccept does not run, with or without _mutex.
THEOREM TypeCorrect == Spec => []TypeOK
BY TypeInit, TypeNext, PTL DEF Spec

-----------------------------------------------------------------------------
(***************************************************************************)
(* The guarded server.                                                     *)
(***************************************************************************)
\* The values of mutex that the users write are different.
LEMMA DistinctUsers ==
  /\ Accept \in User /\ Accept # None
  /\ \A s \in Session, h \in Handler :
       <<s, h>> \in User /\ <<s, h>> # Accept /\ <<s, h>> # None
BY CServerAssumption DEF User, Accept

LEMMA IInit == Init => IInv
<1> SUFFICES ASSUME Init PROVE IInv
  OBVIOUS
<1>1. \A s \in Session, h \in Handler : handler[s][h] = "off"
  BY DEF Init, Off
<1>2. "read" \in Handler
  BY DEF Handler
<1>3. MutexHeld
  BY <1>1, DistinctUsers DEF Init, MutexHeld
<1> QED
  BY <1>1, <1>2, <1>3, TypeInit
  DEF Init, IInv, NewIsFresh, RunningIsListed, ReadLeftMissed

\* Under _mutex nobody else is in _sessions.
LEMMA AloneInSessions ==
  ASSUME MutexHeld, NEW p \in InSessions
  PROVE  /\ mutex = p
         /\ InSessions = {p}
<1> USE DistinctUsers
<1>1. ASSUME NEW q \in InSessions PROVE mutex = q
  <2>1. CASE q = Accept
    <3>1. accept = "insert"
      BY <1>1, <2>1 DEF InSessions
    <3> QED
      BY <2>1, <3>1 DEF MutexHeld
  <2>2. CASE q # Accept
    <3>1. PICK s \in Session, h \in Handler : q = <<s, h>> /\ handler[s][h] = "erase"
      BY <1>1, <2>2 DEF InSessions
    <3> QED
      BY <3>1 DEF MutexHeld
  <2> QED
    BY <2>1, <2>2
<1> QED
  BY <1>1

LEMMA ExclusiveFromMutex == MutexHeld => SessionsExclusive
BY AloneInSessions DEF SessionsExclusive

\* Under _mutex HandleAccept inserts its session, and nothing else changes.
LEMMA InsertEffect ==
  ASSUME Locked, MutexHeld, AcceptInsert
  PROVE  sessions' = sessions \cup {newSession} /\ mutex' = None
<1>1. Accept \in InSessions
  BY DEF AcceptInsert, InSessions
<1> QED
  BY <1>1, AloneInSessions DEF AcceptInsert, Leave

\* Under _mutex ClearSession removes its session, and nothing else changes.
LEMMA EraseEffect ==
  ASSUME Locked, MutexHeld, NEW s \in Session, NEW h \in Handler, ClearErase(s, h)
  PROVE  sessions' = sessions \ {s} /\ mutex' = None
<1>1. <<s, h>> \in InSessions
  BY DEF ClearErase, At, InSessions
<1> QED
  BY <1>1, AloneInSessions DEF ClearErase, Leave

-----------------------------------------------------------------------------
(***************************************************************************)
(* The inductive step, one lemma per part of the invariant.                *)
(***************************************************************************)
LEMMA MutexHeldNext == Locked /\ IInv /\ [Next]_vars => MutexHeld'
<1> SUFFICES ASSUME Locked, TypeOK, MutexHeld, NewIsFresh, [Next]_vars PROVE MutexHeld'
  BY DEF IInv
<1> USE DistinctUsers
<1>1. ASSUME NEW ec \in BOOLEAN, AcceptDone(ec) PROVE MutexHeld'
  BY <1>1 DEF MutexHeld, AcceptDone
<1>2. CASE AcceptStart
  <2>1. newSession \in Session /\ handler[newSession]["read"] = "off"
    BY <1>2, CServerAssumption DEF AcceptStart, NewIsFresh, TypeOK, Off, Handler
  <2>2. \A s \in Session, h \in Handler : handler'[s][h] = "erase" <=> handler[s][h] = "erase"
    BY <1>2, <2>1 DEF AcceptStart, TypeOK, Handler
  <2> QED
    BY <1>2, <2>2 DEF MutexHeld, AcceptStart
<1>3. CASE AcceptLock
  BY <1>3 DEF MutexHeld, AcceptLock, Enter
<1>4. CASE AcceptInsert
  BY <1>4, InsertEffect DEF MutexHeld, AcceptInsert
<1>5. CASE StartAccept
  <2>1. handler[accepting']["read"] # "erase" /\ handler[accepting']["write"] # "erase"
    BY <1>5 DEF StartAccept, Unused, Ended, Off, Handler
  <2>2. \A s \in Session, h \in Handler : handler'[s][h] = "erase" <=> handler[s][h] = "erase"
    BY <1>5, <2>1 DEF StartAccept, Unused, Off, TypeOK, Handler
  <2> QED
    BY <1>5, <2>2 DEF MutexHeld, StartAccept
<1>6. ASSUME NEW s \in Session, WriteStart(s) \/ WriteDone(s) PROVE MutexHeld'
  BY <1>6, AtType DEF MutexHeld, WriteStart, WriteDone, At, TypeOK, Handler
<1>7. ASSUME NEW s \in Session, NEW h \in Handler, Fail(s, h) PROVE MutexHeld'
  BY <1>7, AtType DEF MutexHeld, Fail, At
<1>8. ASSUME NEW s \in Session, NEW h \in Handler, ClearLock(s, h) PROVE MutexHeld'
  BY <1>8, AtType DEF MutexHeld, ClearLock, Enter
<1>9. ASSUME NEW s \in Session, NEW h \in Handler, ClearErase(s, h) PROVE MutexHeld'
  <2>1. handler[s][h] = "erase" /\ At(s, h, "erase", "done")
    BY <1>9 DEF ClearErase, At
  <2>2. mutex' = None /\ mutex = <<s, h>>
    BY <1>9, <2>1, EraseEffect DEF MutexHeld
  <2>3. \A t \in Session, g \in Handler : handler'[t][g] # "erase"
    BY <2>1, <2>2, AtType DEF MutexHeld
  <2> QED
    BY <1>9, <2>2, <2>3 DEF MutexHeld, ClearErase
<1>10. CASE UNCHANGED vars
  BY <1>10 DEF MutexHeld, vars
<1> QED
  BY <1>1, <1>2, <1>3, <1>4, <1>5, <1>6, <1>7, <1>8, <1>9, <1>10
  DEF Next, HandleAccept, ClearSession

\* A handler of a session that runs nothing is not the one that changes.
LEMMA OffStays ==
  ASSUME NEW s \in Session, NEW h \in Handler, NEW from, NEW to, At(s, h, from, to),
         TypeOK, NEW t \in Session, handler[t] = Off, from # "off" \/ t # s
  PROVE  handler'[t] = Off
BY DEF At, Off, TypeOK, Handler

LEMMA NewIsFreshNext == Locked /\ IInv /\ [Next]_vars => NewIsFresh'
<1> SUFFICES ASSUME Locked, TypeOK, MutexHeld, NewIsFresh, [Next]_vars PROVE NewIsFresh'
  BY DEF IInv
<1>a. accept = "idle" => accepting \in Session
  BY DEF TypeOK
<1>b. accept # "idle" => newSession \in Session
  BY DEF TypeOK
<1>c. "read" \in Handler /\ "write" \in Handler
  BY DEF Handler
<1>1. ASSUME NEW ec \in BOOLEAN, AcceptDone(ec) PROVE NewIsFresh'
  BY <1>1 DEF NewIsFresh, AcceptDone
<1>2. CASE AcceptStart
  BY <1>2 DEF NewIsFresh, AcceptStart
<1>3. CASE AcceptLock
  BY <1>3 DEF NewIsFresh, AcceptLock
<1>4. CASE AcceptInsert
  BY <1>4 DEF NewIsFresh, AcceptInsert
<1>5. CASE StartAccept
  BY <1>5 DEF NewIsFresh, StartAccept, Unused, TypeOK
<1>6. ASSUME NEW s \in Session, WriteStart(s) PROVE NewIsFresh'
  <2>1. handler[s] # Off /\ At(s, "write", "off", "on")
    BY <1>6 DEF WriteStart, Off, Handler
  <2>2. \A t \in Session : handler[t] = Off => handler'[t] = Off
    BY <2>1, <1>c, OffStays
  <2> QED
    BY <1>6, <1>a, <1>b, <2>2 DEF NewIsFresh, WriteStart
<1>7. ASSUME NEW s \in Session, WriteDone(s) PROVE NewIsFresh'
  <2>1. \A t \in Session : handler[t] = Off => handler'[t] = Off
    BY <1>7, <1>c, OffStays DEF WriteDone
  <2> QED
    BY <1>7, <1>a, <1>b, <2>1 DEF NewIsFresh, WriteDone
<1>8. ASSUME NEW s \in Session, NEW h \in Handler, Fail(s, h) PROVE NewIsFresh'
  <2>1. \A t \in Session : handler[t] = Off => handler'[t] = Off
    BY <1>8, OffStays DEF Fail
  <2> QED
    BY <1>8, <1>a, <1>b, <2>1 DEF NewIsFresh, Fail
<1>9. ASSUME NEW s \in Session, NEW h \in Handler, ClearLock(s, h) PROVE NewIsFresh'
  <2>1. \A t \in Session : handler[t] = Off => handler'[t] = Off
    BY <1>9, OffStays DEF ClearLock
  <2> QED
    BY <1>9, <1>a, <1>b, <2>1 DEF NewIsFresh, ClearLock
<1>10. ASSUME NEW s \in Session, NEW h \in Handler, ClearErase(s, h) PROVE NewIsFresh'
  <2>1. \A t \in Session : handler[t] = Off => handler'[t] = Off
    BY <1>10, OffStays DEF ClearErase
  <2>2. sessions' \subseteq sessions
    BY <1>10, EraseEffect
  <2> QED
    BY <1>10, <1>a, <1>b, <2>1, <2>2 DEF NewIsFresh, ClearErase
<1>11. CASE UNCHANGED vars
  BY <1>11 DEF NewIsFresh, vars
<1> QED
  BY <1>1, <1>2, <1>3, <1>4, <1>5, <1>6, <1>7, <1>8, <1>9, <1>10, <1>11
  DEF Next, HandleAccept, ClearSession

-----------------------------------------------------------------------------
LEMMA RunningIsListedNext == Locked /\ IInv /\ [Next]_vars => RunningIsListed'
<1> SUFFICES ASSUME Locked, TypeOK, MutexHeld, NewIsFresh, RunningIsListed, [Next]_vars
             PROVE  RunningIsListed'
  BY DEF IInv
<1>c. "read" \in Handler /\ "write" \in Handler
  BY DEF Handler
<1>1. ASSUME NEW ec \in BOOLEAN, AcceptDone(ec) PROVE RunningIsListed'
  BY <1>1, CServerAssumption DEF RunningIsListed, AcceptDone
<1>2. CASE AcceptStart
  BY <1>2, <1>c DEF RunningIsListed, AcceptStart, TypeOK
<1>3. CASE AcceptLock
  BY <1>3 DEF RunningIsListed, AcceptLock
<1>4. CASE AcceptInsert
  <2>1. sessions' = sessions \cup {newSession}
    BY <1>4, InsertEffect
  <2> QED
    BY <1>4, <2>1 DEF RunningIsListed, AcceptInsert
<1>5. CASE StartAccept
  BY <1>5, <1>c DEF RunningIsListed, StartAccept, Unused, Off, TypeOK
<1>6. ASSUME NEW s \in Session, WriteStart(s) PROVE RunningIsListed'
  BY <1>6, <1>c, AtType DEF RunningIsListed, WriteStart, At
<1>7. ASSUME NEW s \in Session, WriteDone(s) PROVE RunningIsListed'
  BY <1>7, <1>c, AtType DEF RunningIsListed, WriteDone, At
<1>8. ASSUME NEW s \in Session, NEW h \in Handler, Fail(s, h) PROVE RunningIsListed'
  BY <1>8, <1>c, AtType DEF RunningIsListed, Fail, At, Handler
<1>9. ASSUME NEW s \in Session, NEW h \in Handler, ClearLock(s, h) PROVE RunningIsListed'
  BY <1>9, <1>c, AtType DEF RunningIsListed, ClearLock, At, Handler
<1>10. ASSUME NEW s \in Session, NEW h \in Handler, ClearErase(s, h) PROVE RunningIsListed'
  <2>1. sessions' = sessions \ {s}
    BY <1>10, EraseEffect
  <2>2. ASSUME NEW t \in Session, handler'[t]["read"] = "on",
               handler'[t]["write"] \in {"off", "on"}
        PROVE  handler[t] = handler'[t] /\ t # s
    BY <1>10, <2>2 DEF ClearErase, At, TypeOK, Handler
  <2> QED
    BY <1>10, <2>1, <2>2 DEF RunningIsListed, ClearErase
<1>11. CASE UNCHANGED vars
  BY <1>11 DEF RunningIsListed, vars
<1> QED
  BY <1>1, <1>2, <1>3, <1>4, <1>5, <1>6, <1>7, <1>8, <1>9, <1>10, <1>11
  DEF Next, HandleAccept, ClearSession

LEMMA ReadLeftMissedNext == Locked /\ IInv /\ [Next]_vars => ReadLeftMissed'
<1> SUFFICES ASSUME Locked, TypeOK, MutexHeld, NewIsFresh, ReadLeftMissed, [Next]_vars
             PROVE  ReadLeftMissed'
  BY DEF IInv
<1>c. "read" \in Handler /\ "write" \in Handler
  BY DEF Handler
<1>1. ASSUME NEW ec \in BOOLEAN, AcceptDone(ec) PROVE ReadLeftMissed'
  <2>1. accepting \in Session /\ handler[accepting]["read"] = "off"
    BY <1>1, <1>c DEF AcceptDone, NewIsFresh, TypeOK, Off
  <2> QED
    BY <1>1, <2>1 DEF ReadLeftMissed, AcceptDone
<1>2. CASE AcceptStart
  <2>1. \A s \in Session : handler'[s]["read"] = "done" => handler[s]["read"] = "done"
    BY <1>2, <1>c DEF AcceptStart, TypeOK
  <2> QED
    BY <1>2, <2>1 DEF ReadLeftMissed, AcceptStart
<1>3. CASE AcceptLock
  BY <1>3 DEF ReadLeftMissed, AcceptLock
<1>4. CASE AcceptInsert
  BY <1>4, InsertEffect DEF ReadLeftMissed, AcceptInsert
<1>5. CASE StartAccept
  <2>1. \A s \in Session : handler'[s]["read"] = "done" =>
          handler[s]["read"] = "done" /\ s # accepting'
    BY <1>5, <1>c DEF StartAccept, Unused, Off, TypeOK
  <2>2. newSession' \notin Session
    BY <1>5, CServerAssumption DEF StartAccept
  <2> QED
    BY <1>5, <2>1, <2>2 DEF ReadLeftMissed, StartAccept
<1>6. ASSUME NEW s \in Session, WriteStart(s) PROVE ReadLeftMissed'
  BY <1>6, <1>c, AtType DEF ReadLeftMissed, WriteStart
<1>7. ASSUME NEW s \in Session, WriteDone(s) PROVE ReadLeftMissed'
  BY <1>7, <1>c, AtType DEF ReadLeftMissed, WriteDone
<1>8. ASSUME NEW s \in Session, NEW h \in Handler, Fail(s, h) PROVE ReadLeftMissed'
  BY <1>8, <1>c, AtType DEF ReadLeftMissed, Fail
<1>9. ASSUME NEW s \in Session, NEW h \in Handler, ClearLock(s, h) PROVE ReadLeftMissed'
  BY <1>9, <1>c, AtType DEF ReadLeftMissed, ClearLock
<1>10. ASSUME NEW s \in Session, NEW h \in Handler, ClearErase(s, h) PROVE ReadLeftMissed'
  <2>1. sessions' = sessions \ {s}
    BY <1>10, EraseEffect
  <2>2. missed \subseteq missed' /\ (s \in sessions \/ s \in missed')
    BY <1>10 DEF ClearErase
  <2>3. accept \in {"start", "lock", "insert"} => newSession \notin sessions
    BY DEF NewIsFresh
  <2>4. \A t \in Session : t # s => handler'[t]["read"] = handler[t]["read"]
    BY <1>10, <1>c, AtType DEF ClearErase
  <2>5. newSession = s => accept \in {"start", "lock", "insert", "listen"}
    BY CServerAssumption DEF TypeOK
  <2> QED
    BY <1>10, <2>1, <2>2, <2>3, <2>4, <2>5 DEF ReadLeftMissed, ClearErase
<1>11. CASE UNCHANGED vars
  BY <1>11 DEF ReadLeftMissed, vars
<1> QED
  BY <1>1, <1>2, <1>3, <1>4, <1>5, <1>6, <1>7, <1>8, <1>9, <1>10, <1>11
  DEF Next, HandleAccept, ClearSession

LEMMA INext == Locked /\ IInv /\ [Next]_vars => IInv'
<1> SUFFICES ASSUME Locked, IInv, [Next]_vars PROVE IInv'
  OBVIOUS
<1>1. TypeOK'
  BY TypeNext DEF IInv
<1> QED
  BY <1>1, MutexHeldNext, NewIsFreshNext, RunningIsListedNext, ReadLeftMissedNext DEF IInv

-----------------------------------------------------------------------------
(***************************************************************************)
(* The theorems.                                                           *)
(***************************************************************************)
\* The invariant holds in every reachable state of a guarded server.
THEOREM Inductive == ASSUME Locked PROVE Spec => []IInv
<1>1. Locked
  OBVIOUS
<1>2. IInv /\ [Next]_vars => IInv'
  BY <1>1, INext
<1> QED
  BY IInit, <1>2, PTL DEF Spec

\* With _mutex, no two of HandleAccept and the ClearSessions of any sessions are
\* ever in _sessions at once.
THEOREM Exclusive == ASSUME Locked PROVE Spec => []SessionsExclusive
<1>1. Locked
  OBVIOUS
<1>2. IInv => SessionsExclusive
  BY ExclusiveFromMutex DEF IInv
<1> QED
  BY Inductive, <1>1, <1>2, PTL

\* With _mutex, a session that reads and has not failed to write is in _sessions,
\* or HandleAccept is about to put it there.
THEOREM RunningListed == ASSUME Locked PROVE Spec => []RunningIsListed
<1>1. Locked
  OBVIOUS
<1>2. IInv => RunningIsListed
  BY DEF IInv
<1> QED
  BY Inductive, <1>1, <1>2, PTL

\* With _mutex, the order of Start and the insert is the only way for a session
\* that has ended to stay in _sessions.
THEOREM OnlyMissedIsLeft == ASSUME Locked PROVE Spec => []LeftOnlyIfMissed
<1>1. Locked
  OBVIOUS
<1>2. IInv => LeftOnlyIfMissed
  BY DEF IInv, ReadLeftMissed, LeftOnlyIfMissed, Ended
<1> QED
  BY Inductive, <1>1, <1>2, PTL
=============================================================================
