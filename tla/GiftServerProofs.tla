--------------------------- MODULE GiftServerProofs ---------------------------
(***************************************************************************)
(* Theorems about GiftServer: gMutex, the locks of the session manager and *)
(* the life of a connection, for every set of threads and any number of    *)
(* sessions, elements and algorithms.  What the session manager keeps is   *)
(* proved in SessionManagerProofs and used here through the instance SM.   *)
(***************************************************************************)
EXTENDS GiftServer, SharedLemmas

LEMMA Assumed ==
  SM!SessionManagerAssumption /\ SM!NoThreadAssumption /\ SM!StatusAssumption
BY GiftServerAssumption, NoThreadAssumption DEF SM!NoThreadAssumption

-----------------------------------------------------------------------------
(* The session manager in the server *)

\* What a step of the server does to the session manager.
SessionStep ==
  \/ UNCHANGED smVars \/ SM!Crash
  \/ \E t \in Threads : SM!Call(t) \/ SM!Exit(t) \/ SM!Step(t)

\* The server does nothing to the sessions but what the session manager provides for.
LEMMA SessionSteps == [Next]_vars => SessionStep
<1> SUFFICES ASSUME [Next]_vars PROVE SessionStep
  OBVIOUS
<1>1. CASE UNCHANGED vars
  BY <1>1 DEF vars, SessionStep
<1>2. ASSUME NEW t \in Threads,
             \/ Accept(t) \/ StartRead(t) \/ Read(t) \/ EndRead(t) \/ StartSend(t) \/ EndSend(t)
      PROVE  SessionStep
  BY <1>2 DEF Accept, StartRead, Read, EndRead, StartSend, EndSend, SessionStep
<1>3. ASSUME NEW t \in Threads,
             VisitElement(t) \/ Operate(t) \/ EndVisit(t) \/ Abort(t) \/ Close(t)
      PROVE  SessionStep
  BY <1>3 DEF VisitElement, Operate, EndVisit, Abort, Close, SessionStep
<1> QED
  BY <1>1, <1>2, <1>3 DEF Next

\* Hence the locks of the session manager fit the places of the threads here, too.
LEMMA SessionLocksKeep == SM!LockInv /\ SessionStep => SM!LockInv'
<1>1. SM!LockInv /\ UNCHANGED smVars => SM!LockInv'
  <2>1. UNCHANGED smVars => [SM!Next]_(SM!vars)
    BY DEF smVars, SM!vars
  <2> QED
    BY <2>1, SM!NextLocks, Assumed
<1>2. SM!LockInv /\ SM!Crash => SM!LockInv'
  BY SM!CrashLocks, Assumed
<1>3. ASSUME SM!LockInv, NEW t \in Threads, SM!Call(t) \/ SM!Exit(t) \/ SM!Step(t)
      PROVE  SM!LockInv'
  <2>1. SM!Next
    BY <1>3 DEF SM!Next
  <2> QED
    BY <1>3, <2>1, SM!NextLocks, Assumed
<1> QED
  BY <1>1, <1>2, <1>3 DEF SessionStep

-----------------------------------------------------------------------------
(* Connections and gMutex *)

\* gMutex is locked once, by the thread that reads a request or writes a reply.
GlobalInv ==
  /\ conn \in [Threads -> ConnType]
  /\ gmutex \in MutexType /\ WellFormed(gmutex) /\ gmutex.depth <= 1
  /\ \A t \in Threads : (gmutex.owner = t) <=> (conn[t] \in {"read", "send"})

\* Operations run only while the message is visited and the reply translated.
PlaceInv ==
  \A t \in Threads : conn[t] \notin {"visit", "translate"} => pc[t] \in {"idle", "dead"}

\* A connection that gets to another place, with gMutex as it was.
LEMMA MovesKeep ==
  ASSUME GlobalInv, NEW t \in Threads, NEW c \in ConnType, UNCHANGED gmutex, GoOn(t, c),
         conn[t] \notin {"read", "send"}, c \notin {"read", "send"}
  PROVE  GlobalInv'
BY DEF GlobalInv, GoOn

\* A thread that may lock gMutex for its client is the only one that holds it.
LEMMA LockingKeeps ==
  ASSUME GlobalInv, NEW t \in Threads, NEW c \in {"read", "send"}, GoOn(t, c),
         conn[t] \notin {"read", "send"}, CanLock(gmutex, t), gmutex' = Locked(gmutex, t, 1)
  PROVE  GlobalInv'
<1>1. gmutex.owner = NoThread /\ gmutex.depth = 0
  BY DEF GlobalInv, CanLock, WellFormed
<1>2. /\ gmutex' \in MutexType /\ WellFormed(gmutex') /\ gmutex'.depth = 1
      /\ gmutex'.owner = t
  BY <1>1, LockLemma DEF GlobalInv, Locked
<1>3. \A u \in Threads : conn[u] \notin {"read", "send"}
  BY <1>1, NoThreadAssumption DEF GlobalInv
<1> QED
  BY <1>2, <1>3 DEF GlobalInv, GoOn, ConnType

\* ... and when it unlocks it, nobody does.
LEMMA UnlockingKeeps ==
  ASSUME GlobalInv, NEW t \in Threads, NEW c \in ConnType, GoOn(t, c),
         conn[t] \in {"read", "send"}, c \notin {"read", "send"},
         gmutex' = Unlocked(gmutex, 1)
  PROVE  GlobalInv'
<1>1. gmutex.owner = t /\ gmutex.depth = 1
  BY NoThreadAssumption DEF GlobalInv, WellFormed, MutexType
<1>2. gmutex' = FreeMutex
  BY <1>1 DEF Unlocked
<1>3. \A u \in Threads \ {t} : conn[u] \notin {"read", "send"}
  BY <1>1 DEF GlobalInv
<1> QED
  BY <1>2, <1>3, FreeLemma, NoThreadAssumption DEF GlobalInv, GoOn, FreeMutex

LEMMA GlobalKeeps == GlobalInv /\ [Next]_vars => GlobalInv'
<1> SUFFICES ASSUME GlobalInv, [Next]_vars PROVE GlobalInv'
  OBVIOUS
<1>1. CASE UNCHANGED <<conn, gmutex>>
  BY <1>1 DEF GlobalInv
<1>2. ASSUME NEW t \in Threads, Accept(t) \/ EndVisit(t) \/ Close(t) PROVE GlobalInv'
  BY <1>2, MovesKeep DEF Accept, EndVisit, Close, In, ConnType
<1>3. ASSUME NEW t \in Threads, StartRead(t) \/ StartSend(t) PROVE GlobalInv'
  BY <1>3, LockingKeeps DEF StartRead, StartSend, In
<1>4. ASSUME NEW t \in Threads, EndRead(t) \/ EndSend(t) PROVE GlobalInv'
  BY <1>4, UnlockingKeeps DEF EndRead, EndSend, In, ConnType
<1> QED
  BY <1>1, <1>2, <1>3, <1>4 DEF Next, vars, Read, VisitElement, Operate, Abort

\* A thread that is moved to a place or in an operation stays where operations may run.
LEMMA PlaceKeeps == SM!TypeOK /\ GlobalInv /\ PlaceInv /\ [Next]_vars => PlaceInv'
<1> SUFFICES ASSUME SM!TypeOK, GlobalInv, PlaceInv, [Next]_vars PROVE PlaceInv'
  OBVIOUS
<1>1. CASE UNCHANGED <<conn, pc>>
  BY <1>1 DEF PlaceInv
<1>2. ASSUME NEW t \in Threads, NEW c, GoOn(t, c), UNCHANGED pc, pc[t] = "idle"
      PROVE  PlaceInv'
  BY <1>2 DEF PlaceInv, GoOn, GlobalInv
<1>3. ASSUME NEW t \in Threads, conn'[t] \in {"visit", "translate"},
             \A u \in Threads \ {t} : conn'[u] = conn[u] /\ pc'[u] = pc[u]
      PROVE  PlaceInv'
  BY <1>3 DEF PlaceInv
<1>4. ASSUME NEW t \in Threads, Accept(t) \/ StartRead(t) \/ EndRead(t) \/ StartSend(t) \/ EndSend(t)
      PROVE  PlaceInv'
  BY <1>2, <1>4 DEF Accept, StartRead, EndRead, StartSend, EndSend, In, smVars
<1>5. ASSUME NEW t \in Threads, VisitElement(t) \/ EndVisit(t) PROVE PlaceInv'
  <2>1. \A u \in Threads \ {t} : pc'[u] = pc[u]
    BY <1>5 DEF VisitElement, EndVisit, SM!Call, SM!TypeOK
  <2>2. conn'[t] \in {"visit", "translate"} /\ \A u \in Threads \ {t} : conn'[u] = conn[u]
    BY <1>5 DEF VisitElement, EndVisit, GoOn, In, GlobalInv
  <2> QED
    BY <1>3, <2>1, <2>2
<1>6. ASSUME NEW t \in Threads, Operate(t) PROVE PlaceInv'
  <2>1. pc[t] \notin {"idle", "dead"} /\ \A u \in Threads \ {t} : pc'[u] = pc[u]
    BY <1>6, SM!StepMoves, Assumed DEF Operate
  <2>2. conn[t] \in {"visit", "translate"}
    BY <2>1 DEF PlaceInv
  <2> QED
    BY <1>3, <1>6, <2>1, <2>2 DEF Operate
<1>7. ASSUME NEW t \in Threads, Close(t) PROVE PlaceInv'
  <2>1. GoOn(t, "none") /\ pc[t] = "idle"
    BY <1>7 DEF Close, In
  <2>2. UNCHANGED pc \/ pc' = [pc EXCEPT ![t] = "dead"]
    BY <1>7 DEF Close, SM!Exit, smVars
  <2> QED
    BY <2>1, <2>2 DEF PlaceInv, GoOn, GlobalInv, SM!TypeOK
<1>8. ASSUME NEW t \in Threads, Read(t) \/ Abort(t) PROVE PlaceInv'
  BY <1>1, <1>8 DEF Read, Abort, SM!Crash, SM!threadVars, smVars
<1> QED
  BY <1>1, <1>4, <1>5, <1>6, <1>7, <1>8 DEF Next, vars, smVars

-----------------------------------------------------------------------------
(* The message a connection carries *)

MessageInv ==
  /\ todo \in [Threads -> 0 .. MaxElements] /\ mrml \in [Threads -> BOOLEAN]
  /\ msgId \in [Threads -> SM!Sessions \cup {SM!Bogus}]
  /\ replyId \in [Threads -> SM!Sessions \cup {SM!Bogus}]

LEMMA MessagesKeep == SM!TypeOK /\ MessageInv /\ [Next]_vars => MessageInv'
<1> SUFFICES ASSUME SM!TypeOK, MessageInv, [Next]_vars PROVE MessageInv'
  OBVIOUS
<1>1. CASE UNCHANGED messageVars
  BY <1>1 DEF MessageInv, messageVars
<1>2. ASSUME NEW t \in Threads, Read(t) PROVE MessageInv'
  <2>1. \/ todo[t] < MaxElements /\ todo' = [todo EXCEPT ![t] = @ + 1] /\ UNCHANGED <<mrml, msgId>>
        \/ /\ mrml' = [mrml EXCEPT ![t] = TRUE] /\ UNCHANGED todo
           /\ \E s \in known \cup {SM!Bogus} : msgId' = [msgId EXCEPT ![t] = s]
    BY <1>2 DEF Read
  <2>2. known \subseteq SM!Sessions /\ UNCHANGED replyId
    BY <1>2 DEF SM!TypeOK, Read
  <2>3. todo[t] \in 0 .. MaxElements /\ MaxElements \in Nat
    BY GiftServerAssumption DEF MessageInv
  <2>4. todo' \in [Threads -> 0 .. MaxElements]
    <3>1. CASE UNCHANGED todo
      BY <3>1 DEF MessageInv
    <3>2. CASE todo[t] < MaxElements /\ todo' = [todo EXCEPT ![t] = @ + 1]
      <4>1. todo[t] + 1 \in 0 .. MaxElements
        BY <2>3, <3>2
      <4> QED
        BY <3>2, <4>1 DEF MessageInv
    <3> QED
      BY <2>1, <3>1, <3>2
  <2>5. /\ mrml' \in [Threads -> BOOLEAN]
        /\ msgId' \in [Threads -> SM!Sessions \cup {SM!Bogus}]
        /\ replyId' \in [Threads -> SM!Sessions \cup {SM!Bogus}]
    BY <2>1, <2>2 DEF MessageInv
  <2> QED
    BY <2>4, <2>5 DEF MessageInv
<1>3. ASSUME NEW t \in Threads, EndRead(t) PROVE MessageInv'
  BY <1>3 DEF EndRead, MessageInv
<1>4. ASSUME NEW t \in Threads, VisitElement(t) PROVE MessageInv'
  BY <1>4, GiftServerAssumption DEF VisitElement, MessageInv
<1>5. ASSUME NEW t \in Threads, Operate(t) PROVE MessageInv'
  <2>1. found[t] \in SM!Sessions \cup {SM!Bogus}
    BY DEF SM!TypeOK
  <2> QED
    BY <1>5, <2>1 DEF Operate, MessageInv
<1>6. ASSUME NEW t \in Threads, Close(t) PROVE MessageInv'
  BY <1>6, GiftServerAssumption DEF Close, MessageInv
<1> QED
  BY <1>1, <1>2, <1>3, <1>4, <1>5, <1>6
  DEF Next, vars, Accept, StartRead, EndVisit, StartSend, EndSend, Abort

-----------------------------------------------------------------------------
(* The theorems *)

IInv == SM!LockInv /\ GlobalInv /\ PlaceInv /\ MessageInv

LEMMA InitIInv == Init => IInv
<1> SUFFICES ASSUME Init PROVE IInv
  OBVIOUS
<1>1. SM!LockInv
  BY SM!InitLocks, Assumed DEF Init
<1>2. GlobalInv
  BY FreeLemma, NoThreadAssumption DEF Init, GlobalInv, ConnType, FreeMutex
<1>3. PlaceInv
  BY DEF Init, PlaceInv, SM!Init
<1>4. MessageInv
  BY GiftServerAssumption DEF Init, MessageInv
<1> QED
  BY <1>1, <1>2, <1>3, <1>4 DEF IInv

LEMMA NextKeeps == IInv /\ [Next]_vars => IInv'
<1>1. SM!LockInv => SM!TypeOK
  BY DEF SM!LockInv
<1> QED
  BY <1>1, SessionSteps, SessionLocksKeep, GlobalKeeps, PlaceKeeps, MessagesKeep DEF IInv

LEMMA SpecIInv == Spec => []IInv
BY InitIInv, NextKeeps, PTL DEF Spec

\* No variable of the server leaves its type, those of the session manager included.
THEOREM TypeCorrect == Spec => []TypeOK
<1>1. IInv => TypeOK
  BY DEF IInv, SM!LockInv, GlobalInv, MessageInv, TypeOK
<1> QED
  BY <1>1, SpecIInv, PTL

\* gMutex belongs to the thread that talks to its client, and a connection ends
\* without a lock unless an exception has cost its thread one.
THEOREM LocksReleased == Spec => []ConnectionsReleaseLocks
<1>1. IInv => ConnectionsReleaseLocks
  <2> SUFFICES ASSUME IInv, NEW t \in Threads
               PROVE  /\ (gmutex.owner = t) <=> (conn[t] \in {"read", "send"})
                      /\ conn[t] \in {"none", "start"} /\ t \notin thrown => ~HoldsLock(t)
    BY DEF ConnectionsReleaseLocks
  <2>1. conn[t] \in {"none", "start"} /\ t \notin thrown => ~HoldsLock(t)
    <3> SUFFICES ASSUME conn[t] \in {"none", "start"}, t \notin thrown PROVE ~HoldsLock(t)
      OBVIOUS
    <3>1. pc[t] \in {"idle", "dead"}
      BY DEF IInv, PlaceInv
    <3>2. mgr.owner # t /\ \A s \in SM!Sessions : ses[s].owner # t
      BY <3>1, SM!IdleHoldsNothing, Assumed DEF IInv
    <3> QED
      BY <3>2 DEF HoldsLock
  <2> QED
    BY <2>1 DEF IInv, GlobalInv
<1> QED
  BY <1>1, SpecIInv, PTL

\* Not even with gMutex do threads that have lost no lock wait for each other: its owner
\* waits for no mutex, so that a circle is one of the session manager alone.
THEOREM ServerCircularWaits == Spec => []ServerCircularWaitNeedsLostLock
<1>1. IInv => ServerCircularWaitNeedsLostLock
  <2> SUFFICES ASSUME IInv, NEW S \in SUBSET Threads, S # {}, S \cap thrown = {},
                      \A t \in S : \E u \in S : <<t, u>> \in Blocks
               PROVE  FALSE
    BY DEF ServerCircularWaitNeedsLostLock
  <2>1. ASSUME NEW t \in S, NEW u \in S, WaitsForGlobal(t), gmutex.owner = u PROVE FALSE
    <3>1. conn[u] \in {"read", "send"} /\ pc[u] \in {"idle", "dead"}
      BY <2>1 DEF IInv, GlobalInv, PlaceInv
    <3>2. PICK v \in S : <<u, v>> \in Blocks
      OBVIOUS
    <3>3. ~WaitsForGlobal(u)
      BY <3>1 DEF WaitsForGlobal
    <3>4. <<u, v>> \notin SM!Blocks
      BY <3>1 DEF SM!Blocks, SM!WaitsForManager, SM!WaitsForSession
    <3> QED
      BY <3>2, <3>3, <3>4 DEF Blocks
  <2>2. \A t \in S : \E u \in S : <<t, u>> \in SM!Blocks
    BY <2>1 DEF Blocks
  <2>3. SM!Deadlocked(S)
    BY <2>2 DEF SM!Deadlocked
  <2> QED
    BY <2>3, SM!CirclesNeedLostLocks, Assumed DEF IInv, SM!CircularWaitNeedsLostLock
<1> QED
  BY <1>1, SpecIInv, PTL
===============================================================================
