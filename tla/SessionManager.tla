---------------------------- MODULE SessionManager ----------------------------
(***************************************************************************)
(* The session manager of the GIFT server (libMRML/cc/CSessionManager.cc)  *)
(* and the sessions it owns, at the granularity of its locks.              *)
(*                                                                         *)
(* mMutexSessionManager (mgr) protects the two maps; every session has a   *)
(* mutex of its own (ses).  A thread runs one operation at a time: Call    *)
(* puts the request into req, the actions below run it, and the last one   *)
(* puts the answer into ans.  What a thread does between two points where  *)
(* another thread could see or stop it is one action.                      *)
(*                                                                         *)
(* An exception unwinds past the explicit unlock() calls, so the locks     *)
(* taken so far stay with the thread: it may go on with the next request   *)
(* of its message (the mutexes are recursive), and it takes them to its    *)
(* grave (Exit).                                                           *)
(***************************************************************************)
EXTENDS Naturals, FiniteSets, Mutex

CONSTANTS
  Users,         \* user names
  MaxSessions,   \* bound: how many session IDs are ever issued
  MaxDepth,      \* bound: how deep a thread may leak locks before it exits
  Ops,           \* the operations clients call, a subset of AllOps
  Algorithms,    \* the algorithm elements a client can configure
  Default,       \* the ID of the default algorithm, "adefault"
  NoAlgorithm,   \* a null root of a query tree
  Typed,         \* algorithms with an algorithm-type attribute
  Buildable,     \* algorithms whose query tree can be built without a throw
  Nodes,         \* the node IDs in the query tree of each algorithm
  Sought,        \* the algorithm IDs a query names
  Strangers      \* {Bogus} if clients name sessions that never were, else {}

Sessions == 1 .. MaxSessions
Bogus == 0       \* an ID that was never issued, or an empty one
NodeIds == UNION {Nodes[a] : a \in Algorithms}

AllOps == {"open", "reopen", "close", "configure", "query", "random",
           "delete", "rename", "translate"}

ASSUME SessionManagerAssumption ==
  /\ MaxSessions \in Nat
  /\ MaxDepth \in Nat
  /\ Ops \subseteq AllOps
  /\ Default \in Algorithms
  /\ NoAlgorithm \notin Algorithms
  /\ Typed \subseteq Algorithms
  /\ Buildable \subseteq Algorithms
  /\ Nodes \in [Algorithms -> SUBSET NodeIds]
  /\ Strangers \subseteq {Bogus}

VARIABLES
  up,               \* the process runs
  mgr,              \* mMutexSessionManager
  ses,              \* mMutexSession of every session
  lastId,           \* gID, the last session ID issued
  idToSession,      \* the keys of mIDToSession
  userToSessions,   \* mUserToSessions, the IDs in each list
  obj,              \* the session objects
  known,            \* IDs a client has been told
  pc, req, ans,     \* where a thread is, its request and its last answer
  found,            \* the session object the thread's request has found
  thrown            \* threads an exception has cost a lock

regVars == <<lastId, idToSession, userToSessions>>
threadVars == <<pc, req, ans, found, thrown>>
vars == <<up, mgr, ses, lastId, idToSession, userToSessions, obj, known,
          pc, req, ans, found, thrown>>
-----------------------------------------------------------------------------
(* Types *)

\* first: the container mQueryTree.first exists, nodes: its keys,
\* root: the algorithm of the tree at mQueryTree.second, or null.
SessionType ==
  [state : {"none", "live", "destroyed"}, user : Users, open : BOOLEAN,
   first : BOOLEAN, nodes : SUBSET NodeIds, root : Algorithms \cup {NoAlgorithm}]

NewObject(u) ==
  [state |-> "live", user |-> u, open |-> FALSE,
   first |-> FALSE, nodes |-> {}, root |-> NoAlgorithm]

NoRequest == [op |-> "none", sid |-> Bogus, arg |-> Default]

RequestType == [op : AllOps \cup {"none"}, sid : Sessions \cup {Bogus},
                arg : Algorithms \cup NodeIds \cup Sought \cup Users]

AnswerType == {<<"none">>, <<"ack">>, <<"error">>, <<"undefined">>}
                \cup {<<"result", a>> : a \in Algorithms}

PcType == {"idle", "mgr", "insert", "cfgLock", "build", "find", "qLock",
           "eval", "erase", "renLock", "openLock", "closeLock", "dead"}

TypeOK ==
  /\ up \in BOOLEAN
  /\ mgr \in MutexType
  /\ ses \in [Sessions -> MutexType]
  /\ lastId \in 0 .. MaxSessions
  /\ idToSession \in SUBSET Sessions
  /\ userToSessions \in [Users -> SUBSET Sessions]
  /\ obj \in [Sessions -> SessionType]
  /\ known \in SUBSET Sessions
  /\ pc \in [Threads -> PcType]
  /\ req \in [Threads -> RequestType]
  /\ ans \in [Threads -> AnswerType]
  /\ found \in [Threads -> Sessions \cup {Bogus}]
  /\ thrown \in SUBSET Threads
-----------------------------------------------------------------------------
(* Steps the operations share *)

Init ==
  /\ up = TRUE
  /\ mgr = FreeMutex
  /\ ses = [s \in Sessions |-> FreeMutex]
  /\ lastId = 0
  /\ idToSession = {}
  /\ userToSessions = [u \in Users |-> {}]
  /\ obj \in [Sessions -> {[NewObject(u) EXCEPT !.state = "none"] : u \in Users}]
  /\ \A s, r \in Sessions : obj[s] = obj[r]
  /\ known = {}
  /\ pc = [t \in Threads |-> "idle"]
  /\ req = [t \in Threads |-> NoRequest]
  /\ ans = [t \in Threads |-> <<"none">>]
  /\ found = [t \in Threads |-> Bogus]
  /\ thrown = {}

At(t, p) == up /\ pc[t] = p

Goto(t, p) ==
  /\ pc' = [pc EXCEPT ![t] = p]
  /\ UNCHANGED <<req, ans, found>>

\* The search of mIDToSession ends at session s.
GotoWith(t, p, s) ==
  /\ pc' = [pc EXCEPT ![t] = p]
  /\ found' = [found EXCEPT ![t] = s]
  /\ UNCHANGED <<req, ans>>

Return(t, a) ==
  /\ pc' = [pc EXCEPT ![t] = "idle"]
  /\ req' = [req EXCEPT ![t] = NoRequest]
  /\ ans' = [ans EXCEPT ![t] = a]
  /\ found' = [found EXCEPT ![t] = Bogus]

\* The exception passes the unlock() calls of whatever t has locked.
Throw(t) ==
  /\ Return(t, <<"error">>)
  /\ thrown' = thrown \cup {t}

\* The process dies (a wild pointer, an assertion): nothing runs any more.
Crash ==
  /\ up' = FALSE
  /\ UNCHANGED <<mgr, ses, regVars, obj, known, threadVars>>

\* Threads inside the part of an operation that changes mIDToSession.
MapWriters == {t \in Threads : pc[t] \in {"insert", "erase"}}

\* Faulty variant of ManagerLocks: openSession forgets one of its locks.
TooFewLocks(op) == IF op \in {"open", "reopen"} THEN 2 ELSE 1

\* openSession and the two newSession()s it calls lock the manager once each;
\* every other operation locks it once.
ManagerLocks(op) == IF op \in {"open", "reopen"} THEN 3 ELSE 1

Opening == {t \in Threads : req[t].op \in {"open", "reopen"}
                              /\ pc[t] \in {"mgr", "insert"}}
-----------------------------------------------------------------------------
(* Clients *)

\* Clients name the sessions they were told of, or one that does not exist.
Requests ==
  UNION {[op : {"open"}, sid : {Bogus}, arg : Users],
         [op : {"reopen"}, sid : known \cup Strangers, arg : Users],
         [op : {"configure"}, sid : known \cup Strangers, arg : Algorithms],
         [op : {"query", "random"}, sid : known \cup Strangers, arg : Sought],
         [op : {"close", "delete", "rename", "translate"},
          sid : known \cup Strangers, arg : {Default}]}

FirstPc(op) == IF op = "query" THEN "find" ELSE "mgr"

\* The operations that issue a session ID; a reopen whose session is deleted
\* before it gets the manager waits if the bound MaxSessions has been reached.
NeedsId(r) == r.op = "open" \/ (r.op = "reopen" /\ r.sid \notin idToSession)

\* A handler thread starts one operation.
Call(t) ==
  /\ At(t, "idle")
  /\ Depth(mgr, t) <= MaxDepth
  /\ \A s \in Sessions : Depth(ses[s], t) <= MaxDepth
  /\ \E r \in Requests :
       /\ r.op \in Ops
       /\ NeedsId(r) => lastId + Cardinality(Opening) < MaxSessions
       /\ req' = [req EXCEPT ![t] = r]
       /\ pc' = [pc EXCEPT ![t] = FirstPc(r.op)]
  /\ ans' = [ans EXCEPT ![t] = <<"none">>]
  /\ UNCHANGED <<up, mgr, ses, regVars, obj, known, found, thrown>>

\* A thread ends with its connection.  The locks it holds stay locked; a thread
\* that holds none stands for the next connection from now on.
Exit(t) ==
  /\ At(t, "idle")
  /\ \/ Depth(mgr, t) > 0
     \/ \E s \in Sessions : Depth(ses[s], t) > 0
  /\ pc' = [pc EXCEPT ![t] = "dead"]
  /\ UNCHANGED <<up, mgr, ses, regVars, obj, known, req, ans, found, thrown>>
-----------------------------------------------------------------------------
(* openSession, newSession *)

\* Without a session ID, or with one that is not in the map, a new session.
OpenLock(t) ==
  /\ At(t, "mgr")
  /\ \/ req[t].op = "open"
     \/ req[t].op = "reopen" /\ req[t].sid \notin idToSession
  /\ CanLock(mgr, t)
  /\ lastId < MaxSessions
  /\ mgr' = Locked(mgr, t, 3)
  /\ Goto(t, "insert")
  /\ UNCHANGED <<up, ses, regVars, obj, known, thrown>>

\* getNewID, the two insertions and open(), which no other thread contends for.
Insert(t) ==
  LET s == lastId + 1
      u == req[t].arg
  IN /\ At(t, "insert")
     /\ lastId' = s
     /\ idToSession' = idToSession \cup {s}
     /\ userToSessions' = [userToSessions EXCEPT ![u] = @ \cup {s}]
     /\ obj' = [obj EXCEPT ![s] = [NewObject(u) EXCEPT !.open = TRUE]]
     /\ GotoWith(t, "cfgLock", s)
     /\ UNCHANGED <<up, mgr, ses, known, thrown>>

\* An ID that is in the map: on to CSession::open of the old session.
ReopenLock(t) ==
  /\ At(t, "mgr")
  /\ req[t].op = "reopen" /\ req[t].sid \in idToSession
  /\ CanLock(mgr, t)
  /\ mgr' = Locked(mgr, t, 1)
  /\ GotoWith(t, "openLock", req[t].sid)
  /\ UNCHANGED <<up, ses, regVars, obj, known, thrown>>

\* CSession::open: of a session that is open it returns false and keeps the
\* mutex; openSession acknowledges in either case.
SessionOpen(t) ==
  LET s == found[t]
  IN /\ At(t, "openLock")
     /\ CanLock(ses[s], t)
     /\ \/ /\ obj[s].open
           /\ ses' = [ses EXCEPT ![s] = Locked(@, t, 1)]
           /\ thrown' = thrown \cup {t}
           /\ UNCHANGED obj
        \/ /\ ~obj[s].open
           /\ obj' = [obj EXCEPT ![s].open = TRUE]
           /\ UNCHANGED <<ses, thrown>>
     /\ mgr' = Unlocked(mgr, 1)
     /\ Return(t, <<"ack">>)
     /\ UNCHANGED <<up, regVars, known>>
-----------------------------------------------------------------------------
(* setAlgorithm, setActiveAlgorithm *)

\* Faulty variant of ConfigureLock: the manager is unlocked once the session is
\* found, as getRandomImages does it.
ConfigureLockBriefly(t) ==
  /\ At(t, "mgr")
  /\ req[t].op = "configure"
  /\ CanLock(mgr, t)
  /\ req[t].sid \in idToSession
  /\ GotoWith(t, "cfgLock", req[t].sid)
  /\ UNCHANGED <<up, mgr, ses, regVars, obj, known, thrown>>

\* An unknown session: VENotFound is thrown with the manager locked.
ConfigureLock(t) ==
  /\ At(t, "mgr")
  /\ req[t].op = "configure"
  /\ CanLock(mgr, t)
  /\ mgr' = Locked(mgr, t, 1)
  /\ \/ /\ req[t].sid \in idToSession
        /\ GotoWith(t, "cfgLock", req[t].sid)
        /\ UNCHANGED thrown
     \/ /\ req[t].sid \notin idToSession
        /\ Throw(t)
  /\ UNCHANGED <<up, ses, regVars, obj, known>>

\* setActiveAlgorithm locks the session; the manager stays locked meanwhile.
ConfigureSession(t) ==
  LET s == found[t]
  IN /\ At(t, "cfgLock")
     /\ CanLock(ses[s], t)
     /\ ses' = [ses EXCEPT ![s] = Locked(@, t, 1)]
     /\ Goto(t, "build")
     /\ UNCHANGED <<up, mgr, regVars, obj, known, thrown>>

\* The algorithm the operation configures: openSession takes the default.
Requested(t) == IF req[t].op = "configure" THEN req[t].arg ELSE Default

\* Faulty variant of Dismantled: the old tree goes on answering.
NotDismantled(o, a) == [o EXCEPT !.nodes = @ \ {a}]

\* The old tree is freed and the new algorithm's key leaves the old container;
\* the old container's other keys keep pointing at freed nodes.
Dismantled(o, a) == [o EXCEPT !.nodes = @ \ {a}, !.root = NoAlgorithm]

\* Faulty variant of Built: the container is left out.
BuiltTreeOnly(o, a) == [o EXCEPT !.nodes = Nodes[a], !.root = a]

\* A typed algorithm replaces container and tree by the ones it builds.
Built(o, a) == [o EXCEPT !.first = TRUE, !.nodes = Nodes[a], !.root = a]

Build(t) ==
  LET s == found[t]
      a == Requested(t)
  IN /\ At(t, "build")
     /\ \/ /\ a \in Typed \cap Buildable
           /\ obj' = [obj EXCEPT ![s] = Built(@, a)]
        \/ /\ a \notin Typed
           /\ obj' = [obj EXCEPT ![s] = Dismantled(@, a)]
     /\ ses' = [ses EXCEPT ![s] = Unlocked(@, 1)]
     /\ mgr' = Unlocked(mgr, ManagerLocks(req[t].op))
     /\ known' = known \cup {s}
     /\ Return(t, <<"ack">>)
     /\ UNCHANGED <<up, regVars, thrown>>

\* buildQueryTree throws (no such collection, no such query type): mQueryTree
\* is not assigned, and session and manager stay locked.
BuildFails(t) ==
  LET s == found[t]
      a == Requested(t)
  IN /\ At(t, "build")
     /\ a \in Typed \ Buildable
     /\ obj' = [obj EXCEPT ![s] = Dismantled(@, a)]
     /\ Throw(t)
     /\ UNCHANGED <<up, mgr, ses, regVars, known>>
-----------------------------------------------------------------------------
(* query, getRandomImages *)

\* query looks the session up without a lock: during an insertion or an erasure
\* the search may miss its key or run into a node that is being moved.
QueryFind(t) ==
  LET racing == MapWriters # {}
  IN /\ At(t, "find")
     /\ \/ /\ req[t].sid \in idToSession
           /\ GotoWith(t, "qLock", req[t].sid)
           /\ UNCHANGED <<up, mgr, ses, regVars, obj, known, thrown>>
        \/ /\ req[t].sid \notin idToSession \/ racing
           /\ Return(t, <<"error">>)
           /\ UNCHANGED <<up, mgr, ses, regVars, obj, known, thrown>>
        \/ racing /\ Crash

\* getRandomImages looks it up under the manager's lock and then lets go of it.
RandomFind(t) ==
  /\ At(t, "mgr")
  /\ req[t].op = "random"
  /\ CanLock(mgr, t)
  /\ \/ /\ req[t].sid \in idToSession
        /\ GotoWith(t, "qLock", req[t].sid)
     \/ /\ req[t].sid \notin idToSession
        /\ Return(t, <<"error">>)
  /\ UNCHANGED <<up, mgr, ses, regVars, obj, known, thrown>>

\* CSession::query locks the session it was handed, which may be gone by now.
QueryLock(t) ==
  LET s == found[t]
  IN /\ At(t, "qLock")
     /\ \/ /\ CanLock(ses[s], t)
           /\ ses' = [ses EXCEPT ![s] = Locked(@, t, 1)]
           /\ Goto(t, "eval")
           /\ UNCHANGED <<up, mgr, regVars, obj, known, thrown>>
        \/ obj[s].state = "destroyed" /\ Crash

\* The node a query names is found, but it, or the session, has been freed.
Dangling(o, x) ==
  \/ o.state = "destroyed"
  \/ o.first /\ x \in o.nodes /\ o.root = NoAlgorithm

\* Faulty variant of Evaluate: the return between lock and unlock.
EvaluateKeepsLock(t) ==
  LET o == obj[found[t]]
  IN /\ At(t, "eval")
     /\ ~Dangling(o, req[t].arg)
     /\ o.first /\ req[t].arg \in o.nodes
     /\ Return(t, <<"result", o.root>>)
     /\ UNCHANGED <<up, mgr, ses, regVars, obj, known, thrown>>

\* The tree answers.
Evaluate(t) ==
  LET s == found[t]
      o == obj[s]
  IN /\ At(t, "eval")
     /\ ~Dangling(o, req[t].arg)
     /\ o.first /\ req[t].arg \in o.nodes
     /\ ses' = [ses EXCEPT ![s] = Unlocked(@, 1)]
     /\ Return(t, <<"result", o.root>>)
     /\ UNCHANGED <<up, mgr, regVars, obj, known, thrown>>

\* getQueryByID throws VENotFound: query turns it into an error message,
\* getRandomImages passes it on, and both leave the session locked.
EvaluateFails(t) ==
  LET o == obj[found[t]]
  IN /\ At(t, "eval")
     /\ o.state = "live" /\ o.first /\ req[t].arg \notin o.nodes
     /\ Throw(t)
     /\ UNCHANGED <<up, mgr, ses, regVars, obj, known>>

\* Freed memory is read: any answer, or the end of the process.
EvaluateDangling(t) ==
  LET s == found[t]
  IN /\ At(t, "eval")
     /\ \/ /\ Dangling(obj[s], req[t].arg)
           /\ ses' = [ses EXCEPT ![s] = Unlocked(@, 1)]
           /\ Return(t, <<"undefined">>)
           /\ UNCHANGED <<up, mgr, regVars, obj, known, thrown>>
        \/ /\ Dangling(obj[s], req[t].arg) \/ ~obj[s].first
           /\ Crash
-----------------------------------------------------------------------------
(* deleteSession, renameSession, closeSession, translate *)

FoundPc == [delete |-> "erase", rename |-> "renLock", close |-> "closeLock"]

\* deleteSession, renameSession and closeSession find their session under the
\* manager's lock and keep it.  The first two answer an unknown one with an
\* error; closeSession follows the end() iterator.
FindLock(t) ==
  /\ At(t, "mgr")
  /\ req[t].op \in {"delete", "rename", "close"}
  /\ CanLock(mgr, t)
  /\ \/ /\ req[t].sid \in idToSession
        /\ mgr' = Locked(mgr, t, 1)
        /\ GotoWith(t, FoundPc[req[t].op], req[t].sid)
        /\ UNCHANGED up
     \/ /\ req[t].sid \notin idToSession
        /\ Return(t, IF req[t].op = "close" /\ req[t].sid # Bogus
                       THEN <<"undefined">> ELSE <<"error">>)
        /\ UNCHANGED <<up, mgr>>
     \/ /\ req[t].sid \notin idToSession \cup {Bogus}
        /\ req[t].op = "close"
        /\ up' = FALSE
        /\ UNCHANGED <<mgr, pc, req, ans, found>>
  /\ UNCHANGED <<ses, regVars, obj, known, thrown>>

\* The ID leaves both maps and the object is destroyed, whoever has locked it.
Erase(t) ==
  LET s == found[t]
      u == obj[s].user
  IN /\ At(t, "erase")
     /\ idToSession' = idToSession \ {s}
     /\ userToSessions' = [userToSessions EXCEPT ![u] = @ \ {s}]
     /\ obj' = [obj EXCEPT ![s].state = IF s \in userToSessions[u]
                                          THEN "destroyed" ELSE @]
     /\ mgr' = Unlocked(mgr, 1)
     /\ Return(t, <<"ack">>)
     /\ UNCHANGED <<up, ses, lastId, known, thrown>>

\* CSession::rename waits for the session with the manager locked.
Rename(t) ==
  LET s == found[t]
  IN /\ At(t, "renLock")
     /\ CanLock(ses[s], t)
     /\ mgr' = Unlocked(mgr, 1)
     /\ Return(t, <<"ack">>)
     /\ UNCHANGED <<up, ses, regVars, obj, known, thrown>>

\* CSession::close likewise.
Close(t) ==
  LET s == found[t]
  IN /\ At(t, "closeLock")
     /\ CanLock(ses[s], t)
     /\ obj' = [obj EXCEPT ![s].open = FALSE]
     /\ mgr' = Unlocked(mgr, 1)
     /\ Return(t, <<"ack">>)
     /\ UNCHANGED <<up, ses, regVars, known, thrown>>

\* Faulty variant of Translate: the early return keeps the lock.
TranslateKeepsLock(t) ==
  /\ At(t, "mgr")
  /\ req[t].op = "translate"
  /\ CanLock(mgr, t)
  /\ mgr' = Locked(mgr, t, 1)
  /\ Return(t, <<"ack">>)
  /\ UNCHANGED <<up, ses, regVars, obj, known, thrown>>

\* translate, getCollections, getAlgorithms and getPropertySheet only read,
\* from lock to unlock.
Translate(t) ==
  /\ At(t, "mgr")
  /\ req[t].op = "translate"
  /\ CanLock(mgr, t)
  /\ Return(t, <<"ack">>)
  /\ UNCHANGED <<up, mgr, ses, regVars, obj, known, thrown>>
-----------------------------------------------------------------------------
Step(t) ==
  \/ OpenLock(t) \/ Insert(t) \/ ReopenLock(t) \/ SessionOpen(t)
  \/ ConfigureLock(t) \/ ConfigureSession(t) \/ Build(t) \/ BuildFails(t)
  \/ QueryFind(t) \/ RandomFind(t) \/ QueryLock(t)
  \/ Evaluate(t) \/ EvaluateFails(t) \/ EvaluateDangling(t)
  \/ FindLock(t) \/ Erase(t) \/ Rename(t) \/ Close(t) \/ Translate(t)

Next == \E t \in Threads : Call(t) \/ Exit(t) \/ Step(t)

Spec == Init /\ [][Next]_vars
-----------------------------------------------------------------------------
(* Fairness: a handler thread that can run does run, and a thread that waits *)
(* for a mutex gets it if the mutex becomes free again and again.  Clients   *)
(* need not call anything.                                                   *)

LockSteps(t) ==
  \/ OpenLock(t) \/ ReopenLock(t) \/ SessionOpen(t) \/ ConfigureLock(t)
  \/ ConfigureSession(t) \/ RandomFind(t) \/ QueryLock(t) \/ FindLock(t)
  \/ Rename(t) \/ Close(t) \/ Translate(t)

Fairness == \A t \in Threads : WF_vars(Step(t)) /\ SF_vars(LockSteps(t))

FairSpec == Spec /\ Fairness
-----------------------------------------------------------------------------
(* Who waits for whom *)

WaitsForManager(t) == up /\ pc[t] = "mgr"
WaitsForSession(t, s) ==
  up /\ found[t] = s /\ pc[t] \in {"cfgLock", "qLock", "renLock", "openLock", "closeLock"}

Blocks ==
  {p \in Threads \X Threads :
     /\ p[1] # p[2]
     /\ \/ WaitsForManager(p[1]) /\ mgr.owner = p[2]
        \/ \E s \in Sessions : WaitsForSession(p[1], s) /\ ses[s].owner = p[2]}

\* The threads that work on the query tree of session s.
Working(s) == {t \in Threads : found[t] = s /\ pc[t] \in {"build", "eval"}}

\* How often t has the manager locked at its place in an operation.
ManagerDepth(t) ==
  CASE pc[t] \in {"insert"} -> 3
    [] pc[t] \in {"cfgLock", "build"} -> ManagerLocks(req[t].op)
    [] pc[t] \in {"erase", "renLock", "openLock", "closeLock"} -> 1
    [] OTHER -> 0

\* How often t has session s locked at its place in an operation.
SessionDepth(t, s) == IF t \in Working(s) THEN 1 ELSE 0

\* A set of threads each of which waits for another one of the set.
Deadlocked(S) == S # {} /\ \A t \in S : \E u \in S : <<t, u>> \in Blocks
-----------------------------------------------------------------------------
(* Properties *)

\* "if a user opens a session twice, it is impossible to do two queries in
\* parallel" (CSession::query): at most one thread builds or evaluates the
\* query tree of a session, whatever was deleted or thrown before.
TreeExclusion ==
  \A s \in Sessions : \A t, u \in Working(s) : t = u

\* Places at which a session has been found under the manager's lock.
HeldPcs == {"cfgLock", "build", "renLock", "openLock", "closeLock", "erase"}

\* A session found under the manager's lock is still in the maps, in the list
\* of its user and not destroyed, however long the thread waits for the
\* session's mutex (setAlgorithm, renameSession, deleteSession).
FoundSessionsStay ==
  \A t \in Threads :
    pc[t] \in HeldPcs => /\ found[t] \in idToSession
                        /\ obj[found[t]].state = "live"
                        /\ found[t] \in userToSessions[obj[found[t]].user]

Balanced(t) ==
  /\ Depth(mgr, t) = ManagerDepth(t)
  /\ \A s \in Sessions : Depth(ses[s], t) = SessionDepth(t, s)

\* What a thread holds is what its place in an operation says, unless an
\* exception (or CSession::open of an open session) has cost it a lock.
LocksBalanced == \A t \in Threads \ thrown : Balanced(t)

\* Threads wait for each other in a circle only when one of them has lost a
\* lock to an exception: the manager's mutex is taken before a session's.
CircularWaitNeedsLostLock ==
  \A S \in SUBSET Threads : Deadlocked(S) => S \cap thrown # {}

\* A query never meets a session without a container of query trees: openSession
\* announces a session after setActiveAlgorithm has built its first tree.
QueriedSessionsAreBuilt ==
  \A t \in Threads : pc[t] \in {"qLock", "eval"} => obj[found[t]].first

\* Every operation ends, unless the process does.
EveryCallReturns ==
  \A t \in Threads : (up /\ pc[t] \notin {"idle", "dead"}) ~> (~up \/ pc[t] = "idle")
-----------------------------------------------------------------------------
(* The inductive invariant behind the properties, proved in                 *)
(* SessionManagerProofs.                                                    *)

\* Places in an operation at which a session has been found.
FoundPcs == HeldPcs \cup {"qLock", "eval"}

\* Requests carry what their operation needs.
RequestsFit ==
  \A t \in Threads :
    /\ req[t].op \in {"open", "reopen"} => req[t].arg \in Users
    /\ req[t].op = "configure" => req[t].arg \in Algorithms

\* A thread that has found a session knows which; one that inserts a session
\* has an ID left to issue.
PlacesFit ==
  \A t \in Threads :
    /\ pc[t] \in FoundPcs => found[t] \in Sessions
    /\ pc[t] = "insert" => lastId < MaxSessions /\ req[t].op \in {"open", "reopen"}

LocksWellFormed == WellFormed(mgr) /\ \A s \in Sessions : WellFormed(ses[s])

Covered(t) ==
  /\ Depth(mgr, t) >= ManagerDepth(t)
  /\ \A s \in Sessions : Depth(ses[s], t) >= SessionDepth(t, s)

\* A thread holds at least what its place in an operation says, whatever it
\* has lost.
LocksCover == \A t \in Threads : Covered(t)

LockInv ==
  TypeOK /\ RequestsFit /\ PlacesFit /\ LocksWellFormed /\ LocksCover /\ LocksBalanced

\* The sessions in mIDToSession have been issued, live and are in the list of
\* their user.
RegistryFits ==
  \A s \in idToSession :
    /\ s <= lastId
    /\ obj[s].state = "live"
    /\ s \in userToSessions[obj[s].user]

\* The session a thread has found under the manager's lock is in mIDToSession.
HeldFits == \A t \in Threads : pc[t] \in HeldPcs => found[t] \in idToSession

RegistryInv == RegistryFits /\ HeldFits

\* A session that is announced has a container of query trees (if the default
\* algorithm has a type).
AnnouncedBuilt == \A s \in known : s <= lastId /\ obj[s].first

NeedsAnnounced(t) ==
  \/ pc[t] \in {"qLock", "eval"}
  \/ pc[t] \in {"cfgLock", "build"} /\ req[t].op = "configure"

\* The sessions clients name have been announced, and so have those that are
\* found for a query or a configuration.
NamedAnnounced ==
  \A t \in Threads :
    /\ req[t].sid \in known \cup {Bogus}
    /\ NeedsAnnounced(t) => found[t] \in known

AnnouncedInv == AnnouncedBuilt /\ NamedAnnounced

IInv == LockInv /\ RegistryInv /\ AnnouncedInv
=============================================================================
