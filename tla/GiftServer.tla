------------------------------ MODULE GiftServer ------------------------------
(***************************************************************************)
(* The server around the session manager: the accept loop                  *)
(* (GIFTServer/Server.cc, CMultiServer.cc), the life of a connection       *)
(* (processMessage.cc, CCommunicationHandler.cc, CXEVCommunication.cc) and *)
(* the global mutex, in the build with threads.                            *)
(*                                                                         *)
(* gMutex is locked by operator new and operator delete, so no thread gets *)
(* anywhere while another one holds it.  It is held for long twice: while  *)
(* the request is read from the socket, and while the reply is written.    *)
(*                                                                         *)
(* A message is an mrml element with a session-id and a number of children;*)
(* what a child asks for is chosen when the visitor reaches it.            *)
(***************************************************************************)
EXTENDS Naturals, FiniteSets, Mutex

CONSTANTS
  Users, MaxSessions, MaxDepth, Ops, Algorithms, Default, NoAlgorithm,
  Typed, Buildable, Nodes, Sought,  \* of SessionManager
  Main,           \* the thread of the accept loop
  MaxElements,    \* bound: the children of an mrml element
  Cooperative,    \* threads whose clients send, read and close in the end
  Aborts          \* some client sends what aborts the process

VARIABLES
  up, mgr, ses, lastId, idToSession, userToSessions, obj, known, pc, req, ans,
  found, thrown,  \* of SessionManager
  gmutex,         \* gMutex
  conn,           \* where in processMessage a connection is
  todo,           \* children of the mrml element that are not visited yet
  mrml,           \* the start tag of mrml has been read
  msgId,          \* mSessionID: the session-id of the request
  replyId         \* the session-id of mMultiResponse

\* The session manager, and what is proved about it.
SM == INSTANCE SessionManagerProofs WITH Strangers <- {0}

smVars == <<up, mgr, ses, lastId, idToSession, userToSessions, obj, known,
            pc, req, ans, found, thrown>>
messageVars == <<todo, mrml, msgId, replyId>>
vars == <<smVars, gmutex, conn, messageVars>>

\* An element leaks at most one level of a mutex, so a thread never reaches the
\* bound of SessionManager before its message ends.
ASSUME GiftServerAssumption ==
  /\ SM!SessionManagerAssumption /\ SM!StatusAssumption
  /\ Main \in Threads
  /\ MaxElements \in Nat
  /\ MaxElements <= MaxDepth
  /\ Cooperative \subseteq Threads
  /\ Aborts \in BOOLEAN
  /\ Ops \cap {"reopen", "close"} = {}

ConnType == {"none", "start", "read", "visit", "translate", "send", "close"}

TypeOK ==
  /\ SM!TypeOK
  /\ gmutex \in MutexType
  /\ conn \in [Threads -> ConnType]
  /\ todo \in [Threads -> 0 .. MaxElements]
  /\ mrml \in [Threads -> BOOLEAN]
  /\ msgId \in [Threads -> SM!Sessions \cup {SM!Bogus}]
  /\ replyId \in [Threads -> SM!Sessions \cup {SM!Bogus}]

Init ==
  /\ SM!Init
  /\ gmutex = FreeMutex
  /\ conn = [t \in Threads |-> "none"]
  /\ todo = [t \in Threads |-> 0]
  /\ mrml = [t \in Threads |-> FALSE]
  /\ msgId = [t \in Threads |-> SM!Bogus]
  /\ replyId = [t \in Threads |-> SM!Bogus]

In(t, c) == up /\ conn[t] = c /\ pc[t] = "idle"

GoOn(t, c) == conn' = [conn EXCEPT ![t] = c]

\* operator new and operator delete get through.
CanAllocate(t) == CanLock(gmutex, t)

\* The locks t has lost to exceptions.
HoldsLock(t) == mgr.owner = t \/ \E s \in SM!Sessions : ses[s].owner = t
-----------------------------------------------------------------------------
(* The accept loop and the reading of a request *)

\* The loop accepts a connection and starts a thread for it.  If pthread_create
\* fails it handles the connection itself (t = Main) and accepts nothing until
\* it is done.  Bound: it does so no more once it has lost a lock.
Accept(t) ==
  /\ In(t, "none")
  /\ conn[Main] = "none" /\ CanAllocate(Main)
  /\ ~HoldsLock(t)
  /\ GoOn(t, "start")
  /\ UNCHANGED <<smVars, gmutex, messageVars>>

\* readAndParse locks gMutex before it reads the first character.
StartRead(t) ==
  /\ In(t, "start")
  /\ CanLock(gmutex, t)
  /\ gmutex' = Locked(gmutex, t, 1)
  /\ GoOn(t, "read")
  /\ UNCHANGED <<smVars, messageVars>>

\* The client sends the start tag of mrml, or one more child.
Read(t) ==
  /\ In(t, "read")
  /\ \/ /\ ~mrml[t]
        /\ mrml' = [mrml EXCEPT ![t] = TRUE]
        /\ \E s \in known \cup {SM!Bogus} : msgId' = [msgId EXCEPT ![t] = s]
        /\ UNCHANGED todo
     \/ /\ mrml[t] /\ todo[t] < MaxElements
        /\ todo' = [todo EXCEPT ![t] = @ + 1]
        /\ UNCHANGED <<mrml, msgId>>
  /\ UNCHANGED <<smVars, gmutex, conn, replyId>>

\* Faulty variant of EndRead: gMutex stays locked during the visit.
EndReadKeepsLock(t) ==
  /\ In(t, "read")
  /\ GoOn(t, IF mrml[t] THEN "visit" ELSE "close")
  /\ replyId' = [replyId EXCEPT ![t] = msgId[t]]
  /\ UNCHANGED <<smVars, gmutex, todo, mrml, msgId>>

\* The root is complete, or the stream breaks down or holds no XML.  Either way
\* the tree read so far is visited; without an mrml element there is nothing to
\* visit.  startMultiRequest puts the session-id into the reply.
EndRead(t) ==
  /\ In(t, "read")
  /\ gmutex' = Unlocked(gmutex, 1)
  /\ GoOn(t, IF mrml[t] THEN "visit" ELSE "close")
  /\ replyId' = [replyId EXCEPT ![t] = msgId[t]]
  /\ UNCHANGED <<smVars, todo, mrml, msgId>>
-----------------------------------------------------------------------------
(* The visitor *)

\* The session an element is about.  query-step and the random images go to the
\* session of the request, configure-session to the one the reply names; rename
\* and delete carry an ID of their own.
AddressedBy(t, op) ==
  CASE op \in {"query", "random"} -> {msgId[t]}
    [] op = "configure" -> {replyId[t]}
    [] OTHER -> known \cup {SM!Bogus}

\* startVisit of a child.  get-property-sheet renames the session, and
\* get-collections and get-algorithms read as translate does.
VisitElement(t) ==
  /\ In(t, "visit")
  /\ CanAllocate(t)
  /\ todo[t] > 0
  /\ SM!Call(t)
  /\ req'[t].sid \in AddressedBy(t, req'[t].op)
  /\ todo' = [todo EXCEPT ![t] = @ - 1]
  /\ UNCHANGED <<gmutex, conn, mrml, msgId, replyId>>

\* An operation of the session manager goes on.  When openSession returns, the
\* reply takes the ID of the new session.
Operate(t) ==
  /\ CanAllocate(t)
  /\ SM!Step(t)
  /\ replyId' = IF req[t].op = "open" /\ ans'[t] = <<"ack">>
                  THEN [replyId EXCEPT ![t] = found[t]] ELSE replyId
  /\ UNCHANGED <<gmutex, conn, todo, mrml, msgId>>

\* endVisit of mrml: endMultiRequest translates the reply ...
EndVisit(t) ==
  /\ In(t, "visit")
  /\ CanAllocate(t)
  /\ todo[t] = 0
  /\ SM!Call(t)
  /\ req'[t].op = "translate" /\ req'[t].sid = replyId[t]
  /\ GoOn(t, "translate")
  /\ UNCHANGED <<gmutex, messageVars>>

\* ... locks gMutex ...
StartSend(t) ==
  /\ In(t, "translate")
  /\ CanLock(gmutex, t)
  /\ gmutex' = Locked(gmutex, t, 1)
  /\ GoOn(t, "send")
  /\ UNCHANGED <<smVars, messageVars>>

\* Faulty variant of EndSend: sendMessage fails and the unlock is skipped.
EndSendKeepsLock(t) ==
  /\ In(t, "send")
  /\ GoOn(t, "close")
  /\ UNCHANGED <<smVars, gmutex, messageVars>>

\* ... and writes the reply until the client has taken all of it.
EndSend(t) ==
  /\ In(t, "send")
  /\ gmutex' = Unlocked(gmutex, 1)
  /\ GoOn(t, "close")
  /\ UNCHANGED <<smVars, messageVars>>

\* What ends the process: a handshake (toXMLHandshake begins with a failing
\* assertion), an operation as the root element (its answer is added to a reply
\* nobody has made), or a client that hangs up before it has taken the reply
\* (nobody handles SIGPIPE).
Abort(t) ==
  /\ Aborts
  /\ \/ In(t, "read") /\ ~mrml[t]
     \/ In(t, "visit") /\ todo[t] > 0
     \/ In(t, "send")
  /\ SM!Crash
  /\ UNCHANGED <<gmutex, conn, messageVars>>
-----------------------------------------------------------------------------
(* The end of a connection *)

\* After shutdown() the thread waits for the client to close its side, closes
\* the socket and ends, with the locks it has lost.  The accept loop goes on.
Close(t) ==
  /\ In(t, "close")
  /\ CanAllocate(t)
  /\ GoOn(t, "none")
  /\ todo' = [todo EXCEPT ![t] = 0]
  /\ mrml' = [mrml EXCEPT ![t] = FALSE]
  /\ msgId' = [msgId EXCEPT ![t] = SM!Bogus]
  /\ replyId' = [replyId EXCEPT ![t] = SM!Bogus]
  /\ \/ t # Main /\ SM!Exit(t)
     \/ (t = Main \/ ~HoldsLock(t)) /\ UNCHANGED smVars
  /\ UNCHANGED gmutex
-----------------------------------------------------------------------------
Next ==
  \E t \in Threads :
    \/ Accept(t) \/ StartRead(t) \/ Read(t) \/ EndRead(t)
    \/ VisitElement(t) \/ Operate(t) \/ EndVisit(t)
    \/ StartSend(t) \/ EndSend(t) \/ Abort(t) \/ Close(t)

Spec == Init /\ [][Next]_vars

\* What the server does without its client.
ServerStep(t) ==
  \/ StartRead(t) \/ VisitElement(t) \/ Operate(t) \/ EndVisit(t) \/ StartSend(t)

\* What needs the client: the end of the request, room for the reply, the end.
ClientStep(t) == EndRead(t) \/ EndSend(t) \/ Close(t)

\* A thread that can run does run, and one that waits for a mutex gets it if it
\* is free again and again.  No client need connect, and only the cooperative
\* ones go on once they have.
FairSpec ==
  /\ Spec
  /\ \A t \in Threads : SF_vars(ServerStep(t))
  /\ \A t \in Cooperative : SF_vars(ClientStep(t))
-----------------------------------------------------------------------------
(* Properties *)

\* t waits for gMutex.
WaitsForGlobal(t) ==
  /\ up
  /\ conn[t] \in {"start", "visit", "translate", "close"}
  /\ ~CanAllocate(t)

Blocks ==
  SM!Blocks \cup
    {p \in Threads \X Threads : WaitsForGlobal(p[1]) /\ gmutex.owner = p[2]}

\* No circle through the three kinds of mutexes, unless an exception has cost a
\* thread of the circle a lock: who holds gMutex for long waits for his client
\* alone.
ServerCircularWaitNeedsLostLock ==
  \A S \in SUBSET Threads :
    (S # {} /\ \A t \in S : \E u \in S : <<t, u>> \in Blocks) => S \cap thrown # {}

\* While a thread reads a request or writes a reply it holds gMutex, and between
\* two connections a thread holds no mutex, except for what an exception has
\* cost it.
ConnectionsReleaseLocks ==
  \A t \in Threads :
    /\ (gmutex.owner = t) <=> (conn[t] \in {"read", "send"})
    /\ conn[t] \in {"none", "start"} /\ t \notin thrown => ~HoldsLock(t)

\* The connection of a client that cooperates is served to its end, unless the
\* process ends.
CooperativeConnectionsEnd ==
  \A t \in Cooperative : (up /\ conn[t] = "start") ~> (~up \/ conn[t] = "none")
=============================================================================
