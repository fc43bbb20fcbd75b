------------------------------ MODULE CServer ------------------------------
(***************************************************************************)
(* CServer: it accepts connections one after the other, starts a session   *)
(* for each and keeps the sessions in _sessions, from which their handlers *)
(* remove them with ClearSession when they fail.  HandleAccept runs on one *)
(* thread, the handlers of the sessions on others.                         *)
(*                                                                         *)
(* An access to _sessions takes two steps: it begins, under _mutex where   *)
(* there is one, and it takes effect, giving _mutex back.  Accesses that   *)
(* overlap are undefined behaviour: the list may then hold any sessions.   *)
(***************************************************************************)
EXTENDS Naturals, FiniteSets

CONSTANTS
  Session,        \* sessions, or uuids; one that is gone is used again
  None,           \* no session, and no thread
  Locked,         \* is _sessions guarded by _mutex, as in CorotineServer?
  IgnoresError    \* is a session started after a failed accept, as there?

\* What a session runs: its reads, by handlers or a coroutine, and its writes.
Handler == {"read", "write"}

\* Those who use _sessions: HandleAccept, and the handlers of each session.
Accept == <<None, "accept">>
User == (Session \X Handler) \cup {Accept}

ASSUME CServerAssumption ==
  /\ None \notin Session \cup User
  /\ Locked \in BOOLEAN
  /\ IgnoresError \in BOOLEAN

VARIABLES
  accepting,      \* the session whose socket async_accept waits for, or None
  accept,         \* where HandleAccept is; "idle" when it is not running
  newSession,     \* its argument, or None
  sessions,       \* _sessions
  mutex,          \* the user that holds _mutex, or None
  handler,        \* per session and handler: "off", "on", in ClearSession
                  \* ("clear", "erase") or "done" with it
  missed          \* sessions that ClearSession did not find in _sessions

vars == <<accepting, accept, newSession, sessions, mutex, handler, missed>>

Off == [h \in Handler |-> "off"]

\* The constructor listens at once.
Init ==
  /\ accepting \in Session
  /\ accept = "idle"
  /\ newSession = None
  /\ sessions = {}
  /\ mutex = None
  /\ handler = [s \in Session |-> Off]
  /\ missed = {}

-----------------------------------------------------------------------------
\* Every handler of s has failed and left, or has nothing to do.
Ended(s) == handler[s]["read"] = "done" /\ handler[s]["write"] \in {"off", "done"}

\* Sessions that exist no more, or not yet.
Unused ==
  {s \in Session \ (sessions \cup {accepting, newSession}) :
     handler[s] = Off \/ Ended(s)}

\* Those who are in the middle of an access to _sessions.
InSessions ==
  {p \in {Accept} : accept = "insert"}
    \cup {p \in Session \X Handler : handler[p[1]][p[2]] = "erase"}

\* p begins an access.
Enter(p) == IF Locked THEN mutex = None /\ mutex' = p ELSE UNCHANGED mutex

\* The access of p takes effect, leaving new, and ends.
Leave(p, new) ==
  /\ IF InSessions = {p} THEN sessions' = new ELSE sessions' \in SUBSET Session
  /\ IF Locked THEN mutex' = None ELSE UNCHANGED mutex

-----------------------------------------------------------------------------
(***************************************************************************)
(* StartAccept and HandleAccept.                                           *)
(***************************************************************************)
StartAccept ==
  /\ accept = "listen"
  /\ accepting' \in Unused
  /\ accept' = "idle"
  /\ newSession' = None
  /\ handler' = [handler EXCEPT ![accepting'] = Off]
  /\ missed' = missed \ {accepting'}
  /\ UNCHANGED <<sessions, mutex>>

\* Mutant: the next connection is waited for before this one is handled.
AcceptDoneAndListen(ec) ==
  /\ accept = "idle" /\ accepting # None
  /\ newSession' = accepting
  /\ accepting' \in Unused
  /\ accept' = IF ec /\ ~IgnoresError THEN "listen" ELSE "start"
  /\ UNCHANGED <<sessions, mutex, handler, missed>>

\* async_accept completes, with an error if ec.
AcceptDone(ec) ==
  /\ accept = "idle" /\ accepting # None
  /\ newSession' = accepting
  /\ accepting' = None
  /\ accept' = IF ec /\ ~IgnoresError THEN "listen" ELSE "start"
  /\ UNCHANGED <<sessions, mutex, handler, missed>>

\* newSession->Start(): from here on its handlers run.
AcceptStart ==
  /\ accept = "start"
  /\ handler' = [handler EXCEPT ![newSession]["read"] = "on"]
  /\ accept' = "lock"
  /\ UNCHANGED <<accepting, newSession, sessions, mutex, missed>>

AcceptLock ==
  /\ accept = "lock"
  /\ Enter(Accept)
  /\ accept' = "insert"
  /\ UNCHANGED <<accepting, newSession, sessions, handler, missed>>

\* Mutant: HandleAccept forgets to go on listening.
AcceptInsertAndReturn ==
  /\ accept = "insert"
  /\ Leave(Accept, sessions \cup {newSession})
  /\ accept' = "idle"
  /\ newSession' = None
  /\ UNCHANGED <<accepting, handler, missed>>

AcceptInsert ==
  /\ accept = "insert"
  /\ Leave(Accept, sessions \cup {newSession})
  /\ accept' = "listen"
  /\ UNCHANGED <<accepting, newSession, handler, missed>>

-----------------------------------------------------------------------------
(***************************************************************************)
(* The handlers of a session.                                              *)
(***************************************************************************)
At(s, h, from, to) ==
  /\ handler[s][h] = from
  /\ handler' = [handler EXCEPT ![s][h] = to]

\* LogicSystem sends a reply for a message of s, and the write succeeds.
WriteStart(s) ==
  /\ handler[s]["read"] # "off"
  /\ At(s, "write", "off", "on")
  /\ UNCHANGED <<accepting, accept, newSession, sessions, mutex, missed>>

WriteDone(s) ==
  /\ At(s, "write", "on", "off")
  /\ UNCHANGED <<accepting, accept, newSession, sessions, mutex, missed>>

\* A read or a write fails, or a header is invalid: ClearSession is called.
Fail(s, h) ==
  /\ At(s, h, "on", "clear")
  /\ UNCHANGED <<accepting, accept, newSession, sessions, mutex, missed>>

\* Mutant: ClearSession does not take _mutex.
ClearNoLock(s, h) ==
  /\ At(s, h, "clear", "erase")
  /\ UNCHANGED <<accepting, accept, newSession, sessions, mutex, missed>>

ClearLock(s, h) ==
  /\ At(s, h, "clear", "erase")
  /\ Enter(<<s, h>>)
  /\ UNCHANGED <<accepting, accept, newSession, sessions, missed>>

\* Mutant: a write that fails removes all the sessions there are.
ClearAll(s, h) ==
  /\ At(s, h, "erase", "done")
  /\ Leave(<<s, h>>, IF h = "write" THEN {} ELSE sessions \ {s})
  /\ missed' = IF s \in sessions THEN missed ELSE missed \cup {s}
  /\ UNCHANGED <<accepting, accept, newSession>>

\* Mutant: only a write that fails removes the session.
ClearOnWrite(s, h) ==
  /\ At(s, h, "erase", "done")
  /\ Leave(<<s, h>>, IF h = "write" THEN sessions \ {s} ELSE sessions)
  /\ missed' = IF s \in sessions THEN missed ELSE missed \cup {s}
  /\ UNCHANGED <<accepting, accept, newSession>>

ClearErase(s, h) ==
  /\ At(s, h, "erase", "done")
  /\ Leave(<<s, h>>, sessions \ {s})
  /\ missed' = IF s \in sessions THEN missed ELSE missed \cup {s}
  /\ UNCHANGED <<accepting, accept, newSession>>

-----------------------------------------------------------------------------
HandleAccept == AcceptStart \/ AcceptLock \/ AcceptInsert \/ StartAccept

ClearSession(s, h) == ClearLock(s, h) \/ ClearErase(s, h)

Next ==
  \/ \E ec \in BOOLEAN : AcceptDone(ec)
  \/ HandleAccept
  \/ \E s \in Session : WriteStart(s) \/ WriteDone(s)
  \/ \E s \in Session, h \in Handler : Fail(s, h) \/ ClearSession(s, h)

\* A handler that has begun goes on, and is not kept from _mutex for ever; no
\* client has to connect and no connection has to fail.
Fairness ==
  /\ SF_vars(AcceptLock)
  /\ WF_vars(AcceptStart \/ AcceptInsert \/ StartAccept)
  /\ \A s \in Session, h \in Handler :
       SF_vars(ClearLock(s, h)) /\ WF_vars(ClearErase(s, h))

Spec == Init /\ [][Next]_vars /\ Fairness

-----------------------------------------------------------------------------
(***************************************************************************)
(* Properties.                                                             *)
(***************************************************************************)
\* Every variable keeps its type, and HandleAccept has its session: async_accept
\* waits exactly when HandleAccept does not run (StartAccept is its last call).
TypeOK ==
  /\ accepting \in Session \cup {None}
  /\ newSession \in Session \cup {None}
  /\ accept \in {"idle", "start", "lock", "insert", "listen"}
  /\ accept = "idle" <=> accepting # None
  /\ accept = "idle" <=> newSession = None
  /\ sessions \subseteq Session
  /\ mutex \in User \cup {None}
  /\ handler \in [Session -> [Handler -> {"off", "on", "clear", "erase", "done"}]]
  /\ missed \subseteq Session

\* No two threads are in _sessions at once: the insert of HandleAccept and the
\* erases of ClearSession, from any handlers of any sessions (_mutex).
SessionsExclusive ==
  \A p, q \in InSessions : p = q

\* A session whose reads go on and whose writes have not failed is in _sessions,
\* or HandleAccept is about to put it there: nothing else removes it (the list
\* is all that keeps a session of CorotineServer whose coroutine is suspended).
RunningIsListed ==
  \A s \in Session :
    handler[s]["read"] = "on" /\ handler[s]["write"] \in {"off", "on"} =>
      s \in sessions \/ (newSession = s /\ accept \in {"lock", "insert"})

\* A session that has ended is left in _sessions only if a ClearSession of it ran
\* before HandleAccept inserted it (Start comes before the insert).
LeftOnlyIfMissed ==
  \A s \in Session : Ended(s) /\ s \in sessions => s \in missed

\* The server goes back to listening for connections, whatever the sessions do,
\* as long as there is a session it can make for the next one (StartAccept at
\* the end of HandleAccept, and the waits for _mutex on the way to it).
AlwaysListening == []<>(accepting # None \/ Unused = {})

\* A session that has ended, with a failed read or write, is removed from the
\* server's list: HandleAccept, once over, has not left it there.
EndedIsRemoved ==
  \A s \in Session : Ended(s) /\ newSession # s => s \notin sessions
=============================================================================
