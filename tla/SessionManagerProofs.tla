------------------------- MODULE SessionManagerProofs -------------------------
(***************************************************************************)
(* Theorems about SessionManager, for every set of threads and users and   *)
(* any number of sessions, algorithms and requests.  The last of them says *)
(* that it implements SessionService: each step of the manager is a step   *)
(* of the abstract table, or leaves the table alone.                       *)
(***************************************************************************)
EXTENDS SessionRefinement, SharedLemmas

-----------------------------------------------------------------------------
(* The locks *)

\* Nobody holds a lock when the server starts.
LEMMA InitLocks == Init => LockInv
<1> SUFFICES ASSUME Init PROVE LockInv
  OBVIOUS
<1> USE DEF Init
<1>1. TypeOK
  <2>1. mgr \in MutexType /\ ses \in [Sessions -> MutexType]
    BY DEF MutexType, FreeMutex
  <2>2. lastId \in 0 .. MaxSessions
    BY SessionManagerAssumption
  <2>3. obj \in [Sessions -> SessionType]
    <3>1. \A u \in Users : [NewObject(u) EXCEPT !.state = "none"] \in SessionType
      BY DEF SessionType, NewObject
    <3> QED
      BY <3>1
  <2>4. req \in [Threads -> RequestType]
    BY SessionManagerAssumption DEF NoRequest, RequestType
  <2>5. ans \in [Threads -> AnswerType]
    BY DEF AnswerType
  <2>6. pc \in [Threads -> PcType]
    BY DEF PcType
  <2> QED
    BY <2>1, <2>2, <2>3, <2>4, <2>5, <2>6 DEF TypeOK
<1>2. RequestsFit /\ PlacesFit
  BY DEF RequestsFit, PlacesFit, NoRequest, FoundPcs, HeldPcs
<1>3. LocksWellFormed
  BY DEF LocksWellFormed, WellFormed, FreeMutex
<1>4. LocksCover /\ LocksBalanced
  BY NoThreadAssumption DEF LocksCover, Covered, LocksBalanced, Balanced, Depth, FreeMutex,
     ManagerDepth, SessionDepth, Working
<1> QED
  BY <1>1, <1>2, <1>3, <1>4 DEF LockInv

\* The other threads stay where they are, with the locks they have.
OthersKeep(t) ==
  /\ thrown \subseteq thrown'
  /\ \A u \in Threads \ {t} :
       /\ pc'[u] = pc[u] /\ req'[u] = req[u] /\ found'[u] = found[u]
       /\ Depth(mgr', u) = Depth(mgr, u)
       /\ \A s \in Sessions : Depth(ses'[s], u) = Depth(ses[s], u)

\* A step of t need only see to it that t's own locks fit t's new place.
LEMMA MoveLemma ==
  ASSUME LocksCover, LocksBalanced, NEW t \in Threads, OthersKeep(t),
         Covered(t)', t \in thrown' \/ Balanced(t)'
  PROVE  LocksCover' /\ LocksBalanced'
<1>1. \A u \in Threads \ {t} : ManagerDepth(u)' = ManagerDepth(u)
  BY DEF OthersKeep, ManagerDepth
<1>2. \A u \in Threads \ {t}, s \in Sessions : SessionDepth(u, s)' = SessionDepth(u, s)
  BY DEF OthersKeep, SessionDepth, Working
<1> QED
  BY <1>1, <1>2 DEF LocksCover, LocksBalanced, OthersKeep, Covered, Balanced

\* Locking the mutex of a session.
LEMMA SessionLockLemma ==
  ASSUME LockInv, NEW t \in Threads, NEW s \in Sessions, CanLock(ses[s], t),
         ses' = [ses EXCEPT ![s] = Locked(@, t, 1)]
  PROVE  /\ ses' \in [Sessions -> MutexType]
         /\ \A r \in Sessions : WellFormed(ses'[r])
         /\ \A r \in Sessions : Depth(ses'[r], t) = Depth(ses[r], t) + (IF r = s THEN 1 ELSE 0)
         /\ \A u \in Threads \ {t}, r \in Sessions : Depth(ses'[r], u) = Depth(ses[r], u)
<1>1. /\ Locked(ses[s], t, 1) \in MutexType
      /\ WellFormed(Locked(ses[s], t, 1))
      /\ Depth(Locked(ses[s], t, 1), t) = Depth(ses[s], t) + 1
      /\ \A u \in Threads \ {t} : Depth(Locked(ses[s], t, 1), u) = Depth(ses[s], u)
  BY LockLemma DEF LockInv, TypeOK, LocksWellFormed
<1>2. ses \in [Sessions -> MutexType] /\ \A r \in Sessions : WellFormed(ses[r])
  BY DEF LockInv, TypeOK, LocksWellFormed
<1> QED
  BY <1>1, <1>2, DepthIsNat

\* Unlocking it again.
LEMMA SessionUnlockLemma ==
  ASSUME LockInv, NEW t \in Threads, NEW s \in Sessions, Depth(ses[s], t) >= 1,
         ses' = [ses EXCEPT ![s] = Unlocked(@, 1)]
  PROVE  /\ ses' \in [Sessions -> MutexType]
         /\ \A r \in Sessions : WellFormed(ses'[r])
         /\ \A r \in Sessions : Depth(ses'[r], t) = Depth(ses[r], t) - (IF r = s THEN 1 ELSE 0)
         /\ \A u \in Threads \ {t}, r \in Sessions : Depth(ses'[r], u) = Depth(ses[r], u)
<1>1. /\ Unlocked(ses[s], 1) \in MutexType
      /\ WellFormed(Unlocked(ses[s], 1))
      /\ Depth(Unlocked(ses[s], 1), t) = Depth(ses[s], t) - 1
      /\ \A u \in Threads \ {t} : Depth(Unlocked(ses[s], 1), u) = Depth(ses[s], u)
  BY UnlockLemma DEF LockInv, TypeOK, LocksWellFormed
<1>2. ses \in [Sessions -> MutexType] /\ \A r \in Sessions : WellFormed(ses[r])
  BY DEF LockInv, TypeOK, LocksWellFormed
<1> QED
  BY <1>1, <1>2, DepthIsNat

\* Locking and unlocking the manager's mutex, n times.
LEMMA ManagerLockLemma ==
  ASSUME LockInv, NEW t \in Threads, NEW n \in Nat, n > 0, CanLock(mgr, t),
         mgr' = Locked(mgr, t, n)
  PROVE  /\ mgr' \in MutexType /\ WellFormed(mgr')
         /\ Depth(mgr', t) = Depth(mgr, t) + n
         /\ \A u \in Threads \ {t} : Depth(mgr', u) = Depth(mgr, u)
BY LockLemma DEF LockInv, TypeOK, LocksWellFormed

\* The owner gives back n of the locks he holds.
LEMMA ManagerUnlockLemma ==
  ASSUME LockInv, NEW t \in Threads, NEW n \in Nat, n > 0, Depth(mgr, t) >= n,
         mgr' = Unlocked(mgr, n)
  PROVE  /\ mgr' \in MutexType /\ WellFormed(mgr')
         /\ Depth(mgr', t) = Depth(mgr, t) - n
         /\ \A u \in Threads \ {t} : Depth(mgr', u) = Depth(mgr, u)
BY UnlockLemma DEF LockInv, TypeOK, LocksWellFormed

\* setActiveAlgorithm locks the session it has found.
LEMMA ConfigureSessionLocks ==
  ASSUME LockInv, NEW t \in Threads, ConfigureSession(t) PROVE LockInv'
<1>1. /\ found[t] \in Sessions
      /\ pc[t] = "cfgLock"
      /\ CanLock(ses[found[t]], t)
      /\ ses' = [ses EXCEPT ![found[t]] = Locked(@, t, 1)]
      /\ pc' = [pc EXCEPT ![t] = "build"]
      /\ UNCHANGED <<up, mgr, lastId, idToSession, userToSessions, obj, known, req, ans, found, thrown>>
  BY DEF ConfigureSession, At, Goto, LockInv, PlacesFit, FoundPcs, HeldPcs, regVars
<1>2. /\ ses' \in [Sessions -> MutexType]
      /\ \A r \in Sessions : WellFormed(ses'[r])
      /\ \A r \in Sessions : Depth(ses'[r], t) = Depth(ses[r], t) + (IF r = found[t] THEN 1 ELSE 0)
      /\ \A u \in Threads \ {t}, r \in Sessions : Depth(ses'[r], u) = Depth(ses[r], u)
  BY <1>1, SessionLockLemma
<1>3. TypeOK'
  BY <1>1, <1>2 DEF LockInv, TypeOK, PcType
<1>4. RequestsFit' /\ PlacesFit'
  BY <1>1 DEF LockInv, RequestsFit, PlacesFit, FoundPcs, HeldPcs, TypeOK
<1>5. LocksWellFormed'
  BY <1>1, <1>2 DEF LockInv, LocksWellFormed
<1>6. OthersKeep(t)
  BY <1>1, <1>2 DEF LockInv, OthersKeep, TypeOK
<1>7. Covered(t)'
  BY <1>1, <1>2, DepthIsNat DEF LockInv, LocksCover, Covered, ManagerDepth, ManagerLocks, SessionDepth, Working, TypeOK
<1>8. t \in thrown' \/ Balanced(t)'
  BY <1>1, <1>2, DepthIsNat DEF LockInv, LocksBalanced, Balanced, ManagerDepth, ManagerLocks, SessionDepth, Working, TypeOK
<1> QED
  BY <1>3, <1>4, <1>5, <1>6, <1>7, <1>8, MoveLemma DEF LockInv

\* newSession locks the manager.
LEMMA OpenLockLocks ==
  ASSUME LockInv, NEW t \in Threads, OpenLock(t) PROVE LockInv'
<1>1. /\ pc[t] = "mgr"
      /\ req[t].op \in {"open", "reopen"}
      /\ lastId < MaxSessions
      /\ CanLock(mgr, t)
      /\ mgr' = Locked(mgr, t, 3)
      /\ pc' = [pc EXCEPT ![t] = "insert"]
      /\ UNCHANGED <<up, ses, lastId, idToSession, userToSessions, obj, known, req, ans, found, thrown>>
  BY DEF OpenLock, At, Goto, regVars
<1>2. /\ mgr' \in MutexType /\ WellFormed(mgr')
      /\ Depth(mgr', t) = Depth(mgr, t) + 3
      /\ \A u \in Threads \ {t} : Depth(mgr', u) = Depth(mgr, u)
  BY <1>1, ManagerLockLemma
<1>3. TypeOK'
  BY <1>1, <1>2 DEF LockInv, TypeOK, PcType
<1>4. RequestsFit' /\ PlacesFit'
  BY <1>1 DEF LockInv, RequestsFit, PlacesFit, FoundPcs, HeldPcs, TypeOK
<1>5. LocksWellFormed'
  BY <1>1, <1>2 DEF LockInv, LocksWellFormed
<1>6. OthersKeep(t)
  BY <1>1, <1>2 DEF LockInv, OthersKeep, TypeOK
<1>7. Covered(t)'
  BY <1>1, <1>2, DepthIsNat DEF LockInv, LocksCover, Covered, ManagerDepth, ManagerLocks, SessionDepth, Working, TypeOK
<1>8. t \in thrown' \/ Balanced(t)'
  BY <1>1, <1>2, DepthIsNat DEF LockInv, LocksBalanced, Balanced, ManagerDepth, ManagerLocks, SessionDepth, Working, TypeOK
<1> QED
  BY <1>3, <1>4, <1>5, <1>6, <1>7, <1>8, MoveLemma DEF LockInv

\* The request of an idle thread is a request.
LEMMA NoRequestType == NoRequest \in RequestType
BY SessionManagerAssumption DEF NoRequest, RequestType

\* openSession locks the manager to open an old session.
LEMMA ReopenLockLocks ==
  ASSUME LockInv, NEW t \in Threads, ReopenLock(t) PROVE LockInv'
<1>1. /\ pc[t] = "mgr"
      /\ req[t].sid \in Sessions
      /\ CanLock(mgr, t)
      /\ mgr' = Locked(mgr, t, 1)
      /\ pc' = [pc EXCEPT ![t] = "openLock"]
      /\ found' = [found EXCEPT ![t] = req[t].sid]
      /\ UNCHANGED <<up, ses, lastId, idToSession, userToSessions, obj, known, req, ans, thrown>>
  BY DEF ReopenLock, At, GotoWith, regVars, LockInv, TypeOK
<1>2. /\ mgr' \in MutexType /\ WellFormed(mgr')
      /\ Depth(mgr', t) = Depth(mgr, t) + 1
      /\ \A u \in Threads \ {t} : Depth(mgr', u) = Depth(mgr, u)
  BY <1>1, ManagerLockLemma
<1>3. TypeOK'
  BY <1>1, <1>2 DEF LockInv, TypeOK, PcType
<1>4. RequestsFit' /\ PlacesFit'
  BY <1>1 DEF LockInv, RequestsFit, PlacesFit, FoundPcs, HeldPcs, TypeOK
<1>5. LocksWellFormed'
  BY <1>1, <1>2 DEF LockInv, LocksWellFormed
<1>6. OthersKeep(t)
  BY <1>1, <1>2 DEF LockInv, OthersKeep, TypeOK
<1>7. Covered(t)'
  BY <1>1, <1>2, DepthIsNat DEF LockInv, LocksCover, Covered, ManagerDepth, ManagerLocks, SessionDepth, Working, TypeOK
<1>8. t \in thrown' \/ Balanced(t)'
  BY <1>1, <1>2, DepthIsNat DEF LockInv, LocksBalanced, Balanced, ManagerDepth, ManagerLocks, SessionDepth, Working, TypeOK
<1> QED
  BY <1>3, <1>4, <1>5, <1>6, <1>7, <1>8, MoveLemma DEF LockInv

\* getRandomImages finds the session and has let go of the manager again.
LEMMA RandomFindLocks ==
  ASSUME LockInv, NEW t \in Threads, RandomFind(t) PROVE LockInv'
<1>1. /\ pc[t] = "mgr"
      /\ \/ /\ req[t].sid \in Sessions
            /\ pc' = [pc EXCEPT ![t] = "qLock"]
            /\ found' = [found EXCEPT ![t] = req[t].sid]
            /\ UNCHANGED <<req, ans>>
         \/ /\ pc' = [pc EXCEPT ![t] = "idle"]
            /\ found' = [found EXCEPT ![t] = Bogus]
            /\ req' = [req EXCEPT ![t] = NoRequest]
            /\ ans' = [ans EXCEPT ![t] = <<"error">>]
      /\ UNCHANGED <<up, mgr, ses, lastId, idToSession, userToSessions, obj, known, thrown>>
  BY DEF RandomFind, At, GotoWith, Return, regVars, LockInv, TypeOK
<1>3. TypeOK'
  BY <1>1, NoRequestType DEF LockInv, TypeOK, PcType, AnswerType
<1>4. RequestsFit' /\ PlacesFit'
  BY <1>1 DEF LockInv, RequestsFit, PlacesFit, FoundPcs, HeldPcs, TypeOK, NoRequest
<1>5. LocksWellFormed'
  BY <1>1 DEF LockInv, LocksWellFormed
<1>6. OthersKeep(t)
  BY <1>1 DEF LockInv, OthersKeep, TypeOK
<1>7. Covered(t)'
  BY <1>1, DepthIsNat DEF LockInv, LocksCover, Covered, ManagerDepth, ManagerLocks, SessionDepth, Working, TypeOK
<1>8. t \in thrown' \/ Balanced(t)'
  BY <1>1, DepthIsNat DEF LockInv, LocksBalanced, Balanced, ManagerDepth, ManagerLocks, SessionDepth, Working, TypeOK
<1> QED
  BY <1>3, <1>4, <1>5, <1>6, <1>7, <1>8, MoveLemma DEF LockInv

\* newSession issues an ID, enters it in the maps and goes on with the configuration.
LEMMA InsertLocks ==
  ASSUME LockInv, NEW t \in Threads, Insert(t) PROVE LockInv'
<1>1. /\ pc[t] = "insert"
      /\ lastId' = lastId + 1
      /\ lastId < MaxSessions
      /\ lastId + 1 \in Sessions
      /\ req[t].op \in {"open", "reopen"}
      /\ req[t].arg \in Users
      /\ idToSession' = idToSession \cup {lastId + 1}
      /\ userToSessions' = [userToSessions EXCEPT ![req[t].arg] = @ \cup {lastId + 1}]
      /\ obj' = [obj EXCEPT ![lastId + 1] = [NewObject(req[t].arg) EXCEPT !.open = TRUE]]
      /\ pc' = [pc EXCEPT ![t] = "cfgLock"]
      /\ found' = [found EXCEPT ![t] = lastId + 1]
      /\ UNCHANGED <<up, mgr, ses, known, req, ans, thrown>>
  <2>1. pc[t] = "insert" /\ lastId < MaxSessions /\ lastId \in 0 .. MaxSessions
    BY DEF Insert, At, LockInv, PlacesFit, TypeOK
  <2>2. lastId + 1 \in Sessions
    BY <2>1, SessionManagerAssumption DEF Sessions
  <2>3. req[t].op \in {"open", "reopen"} /\ req[t].arg \in Users
    BY <2>1 DEF LockInv, PlacesFit, RequestsFit
  <2> QED
    BY <2>1, <2>2, <2>3 DEF Insert, At, GotoWith, regVars
<1>2. [NewObject(req[t].arg) EXCEPT !.open = TRUE] \in SessionType
  BY <1>1 DEF NewObject, SessionType
<1>3. TypeOK'
  <2>1. lastId' \in 0 .. MaxSessions
    BY <1>1, SessionManagerAssumption DEF LockInv, TypeOK
  <2>2. userToSessions' \in [Users -> SUBSET Sessions]
    BY <1>1 DEF LockInv, TypeOK
  <2> QED
    BY <1>1, <1>2, <2>1, <2>2 DEF LockInv, TypeOK, PcType
<1>4. RequestsFit' /\ PlacesFit'
  <2>1. \A u \in Threads : pc[u] = "insert" => Depth(mgr, u) > 0
    BY DepthIsNat DEF LockInv, TypeOK, LocksCover, Covered, ManagerDepth
  <2>2. \A u \in Threads \ {t} : pc[u] # "insert"
    BY <1>1, <2>1, OwnerLemma
  <2> QED
    BY <1>1, <2>2 DEF LockInv, RequestsFit, PlacesFit, FoundPcs, HeldPcs, TypeOK
<1>5. LocksWellFormed'
  BY <1>1 DEF LockInv, LocksWellFormed
<1>6. OthersKeep(t)
  BY <1>1 DEF LockInv, OthersKeep, TypeOK
<1>7. Covered(t)'
  BY <1>1, DepthIsNat DEF LockInv, LocksCover, Covered, ManagerDepth, ManagerLocks, SessionDepth, Working, TypeOK
<1>8. t \in thrown' \/ Balanced(t)'
  BY <1>1, DepthIsNat DEF LockInv, LocksBalanced, Balanced, ManagerDepth, ManagerLocks, SessionDepth, Working, TypeOK
<1> QED
  BY <1>3, <1>4, <1>5, <1>6, <1>7, <1>8, MoveLemma DEF LockInv

\* setAlgorithm locks the manager, and keeps it when it throws.
LEMMA ConfigureLockLocks ==
  ASSUME LockInv, NEW t \in Threads, ConfigureLock(t) PROVE LockInv'
<1>1. /\ pc[t] = "mgr"
      /\ req[t].op = "configure"
      /\ CanLock(mgr, t)
      /\ mgr' = Locked(mgr, t, 1)
      /\ \/ /\ req[t].sid \in Sessions
            /\ pc' = [pc EXCEPT ![t] = "cfgLock"]
            /\ found' = [found EXCEPT ![t] = req[t].sid]
            /\ UNCHANGED <<req, ans, thrown>>
         \/ /\ pc' = [pc EXCEPT ![t] = "idle"]
            /\ found' = [found EXCEPT ![t] = Bogus]
            /\ req' = [req EXCEPT ![t] = NoRequest]
            /\ ans' = [ans EXCEPT ![t] = <<"error">>]
            /\ thrown' = thrown \cup {t}
      /\ UNCHANGED <<up, ses, lastId, idToSession, userToSessions, obj, known>>
  BY DEF ConfigureLock, At, GotoWith, Throw, Return, regVars, LockInv, TypeOK
<1>2. /\ mgr' \in MutexType /\ WellFormed(mgr')
      /\ Depth(mgr', t) = Depth(mgr, t) + 1
      /\ \A u \in Threads \ {t} : Depth(mgr', u) = Depth(mgr, u)
  BY <1>1, ManagerLockLemma
<1>3. TypeOK'
  BY <1>1, <1>2, NoRequestType DEF LockInv, TypeOK, PcType, AnswerType
<1>4. RequestsFit' /\ PlacesFit'
  BY <1>1 DEF LockInv, RequestsFit, PlacesFit, FoundPcs, HeldPcs, TypeOK, NoRequest
<1>5. LocksWellFormed'
  BY <1>1, <1>2 DEF LockInv, LocksWellFormed
<1>6. OthersKeep(t)
  BY <1>1, <1>2 DEF LockInv, OthersKeep, TypeOK
<1>7. Covered(t)'
  BY <1>1, <1>2, DepthIsNat DEF LockInv, LocksCover, Covered, ManagerDepth, ManagerLocks, SessionDepth, Working, TypeOK
<1>8. t \in thrown' \/ Balanced(t)'
  BY <1>1, <1>2, DepthIsNat DEF LockInv, LocksBalanced, Balanced, ManagerDepth, ManagerLocks, SessionDepth, Working, TypeOK
<1> QED
  BY <1>3, <1>4, <1>5, <1>6, <1>7, <1>8, MoveLemma DEF LockInv

\* CSession::query locks the session it was handed.
LEMMA QueryLockLocks ==
  ASSUME LockInv, NEW t \in Threads, QueryLock(t) PROVE LockInv'
<1>1. /\ found[t] \in Sessions
      /\ pc[t] = "qLock"
      /\ \/ /\ CanLock(ses[found[t]], t)
            /\ ses' = [ses EXCEPT ![found[t]] = Locked(@, t, 1)]
            /\ pc' = [pc EXCEPT ![t] = "eval"]
            /\ UNCHANGED up
         \/ up' = FALSE /\ UNCHANGED <<ses, pc>>
      /\ UNCHANGED <<mgr, lastId, idToSession, userToSessions, obj, known, req, ans, found, thrown>>
  BY DEF QueryLock, At, Goto, Crash, LockInv, PlacesFit, FoundPcs, HeldPcs, regVars, threadVars
<1>2. /\ ses' \in [Sessions -> MutexType]
      /\ \A r \in Sessions : WellFormed(ses'[r])
      /\ \A u \in Threads \ {t}, r \in Sessions : Depth(ses'[r], u) = Depth(ses[r], u)
      /\ \/ /\ pc' = [pc EXCEPT ![t] = "eval"]
            /\ \A r \in Sessions : Depth(ses'[r], t) = Depth(ses[r], t) + (IF r = found[t] THEN 1 ELSE 0)
         \/ ses' = ses /\ pc' = pc
  BY <1>1, SessionLockLemma DEF LockInv, TypeOK, LocksWellFormed
<1>3. TypeOK'
  BY <1>1, <1>2 DEF LockInv, TypeOK, PcType
<1>4. RequestsFit' /\ PlacesFit'
  BY <1>1 DEF LockInv, RequestsFit, PlacesFit, FoundPcs, HeldPcs, TypeOK
<1>5. LocksWellFormed'
  BY <1>1, <1>2 DEF LockInv, LocksWellFormed
<1>6. OthersKeep(t)
  BY <1>1, <1>2 DEF LockInv, OthersKeep, TypeOK
<1>7. Covered(t)'
  BY <1>1, <1>2, DepthIsNat DEF LockInv, LocksCover, Covered, ManagerDepth, ManagerLocks, SessionDepth, Working, TypeOK
<1>8. t \in thrown' \/ Balanced(t)'
  BY <1>1, <1>2, DepthIsNat DEF LockInv, LocksBalanced, Balanced, ManagerDepth, ManagerLocks, SessionDepth, Working, TypeOK
<1> QED
  BY <1>3, <1>4, <1>5, <1>6, <1>7, <1>8, MoveLemma DEF LockInv

\* The query tree has answered and the session is unlocked.
LEMMA EvaluateLocks ==
  ASSUME LockInv, NEW t \in Threads, Evaluate(t) PROVE LockInv'
<1>1. /\ pc[t] = "eval"
      /\ found[t] \in Sessions
      /\ ses' = [ses EXCEPT ![found[t]] = Unlocked(@, 1)]
      /\ obj[found[t]].root \in Algorithms
      /\ pc' = [pc EXCEPT ![t] = "idle"]
      /\ req' = [req EXCEPT ![t] = NoRequest]
      /\ found' = [found EXCEPT ![t] = Bogus]
      /\ ans' = [ans EXCEPT ![t] = <<"result", obj[found[t]].root>>]
      /\ UNCHANGED <<up, mgr, lastId, idToSession, userToSessions, obj, known, thrown>>
  BY DEF Evaluate, At, Return, Dangling, TypeOK, SessionType, LockInv, PlacesFit, FoundPcs, HeldPcs, regVars
<1>2. /\ ses' \in [Sessions -> MutexType]
      /\ \A r \in Sessions : WellFormed(ses'[r])
      /\ \A r \in Sessions : Depth(ses'[r], t) = Depth(ses[r], t) - (IF r = found[t] THEN 1 ELSE 0)
      /\ \A u \in Threads \ {t}, r \in Sessions : Depth(ses'[r], u) = Depth(ses[r], u)
  <2>1. Depth(ses[found[t]], t) >= 1
    BY <1>1 DEF LockInv, LocksCover, Covered, SessionDepth, Working
  <2> QED
    BY <1>1, <2>1, SessionUnlockLemma
<1>3. TypeOK'
  BY <1>1, <1>2, NoRequestType DEF LockInv, TypeOK, PcType, AnswerType
<1>4. RequestsFit' /\ PlacesFit'
  BY <1>1 DEF LockInv, RequestsFit, PlacesFit, FoundPcs, HeldPcs, TypeOK, NoRequest
<1>5. LocksWellFormed'
  BY <1>1, <1>2 DEF LockInv, LocksWellFormed
<1>6. OthersKeep(t)
  BY <1>1, <1>2 DEF LockInv, OthersKeep, TypeOK
<1>7. Covered(t)'
  BY <1>1, <1>2, DepthIsNat DEF LockInv, LocksCover, Covered, ManagerDepth, ManagerLocks, SessionDepth, Working, TypeOK
<1>8. t \in thrown' \/ Balanced(t)'
  BY <1>1, <1>2, DepthIsNat DEF LockInv, LocksBalanced, Balanced, ManagerDepth, ManagerLocks, SessionDepth, Working, TypeOK
<1> QED
  BY <1>3, <1>4, <1>5, <1>6, <1>7, <1>8, MoveLemma DEF LockInv

\* An exception leaves the session locked.
LEMMA EvaluateFailsLocks ==
  ASSUME LockInv, NEW t \in Threads, EvaluateFails(t) PROVE LockInv'
<1>1. /\ pc[t] = "eval"
      /\ pc' = [pc EXCEPT ![t] = "idle"]
      /\ req' = [req EXCEPT ![t] = NoRequest]
      /\ found' = [found EXCEPT ![t] = Bogus]
      /\ ans' = [ans EXCEPT ![t] = <<"error">>]
      /\ thrown' = thrown \cup {t}
      /\ UNCHANGED <<up, mgr, ses, lastId, idToSession, userToSessions, obj, known>>
  BY DEF EvaluateFails, At, Throw, Return, LockInv, PlacesFit, FoundPcs, HeldPcs, regVars
<1>3. TypeOK'
  BY <1>1, NoRequestType DEF LockInv, TypeOK, PcType, AnswerType
<1>4. RequestsFit' /\ PlacesFit'
  BY <1>1 DEF LockInv, RequestsFit, PlacesFit, FoundPcs, HeldPcs, TypeOK, NoRequest
<1>5. LocksWellFormed'
  BY <1>1 DEF LockInv, LocksWellFormed
<1>6. OthersKeep(t)
  BY <1>1 DEF LockInv, OthersKeep, TypeOK
<1>7. Covered(t)'
  BY <1>1, DepthIsNat DEF LockInv, LocksCover, Covered, ManagerDepth, ManagerLocks, SessionDepth, Working, TypeOK
<1>8. t \in thrown' \/ Balanced(t)'
  BY <1>1, DepthIsNat DEF LockInv, LocksBalanced, Balanced, ManagerDepth, ManagerLocks, SessionDepth, Working, TypeOK
<1> QED
  BY <1>3, <1>4, <1>5, <1>6, <1>7, <1>8, MoveLemma DEF LockInv

\* Freed memory answers, or ends the process.
LEMMA EvaluateDanglingLocks ==
  ASSUME LockInv, NEW t \in Threads, EvaluateDangling(t) PROVE LockInv'
<1>1. /\ pc[t] = "eval"
      /\ found[t] \in Sessions
      /\ \/ /\ ses' = [ses EXCEPT ![found[t]] = Unlocked(@, 1)]
            /\ pc' = [pc EXCEPT ![t] = "idle"]
            /\ req' = [req EXCEPT ![t] = NoRequest]
            /\ found' = [found EXCEPT ![t] = Bogus]
            /\ ans' = [ans EXCEPT ![t] = <<"undefined">>]
            /\ UNCHANGED up
         \/ up' = FALSE /\ UNCHANGED <<ses, pc, req, found, ans>>
      /\ UNCHANGED <<mgr, lastId, idToSession, userToSessions, obj, known, thrown>>
  BY DEF EvaluateDangling, At, Return, Crash, threadVars, LockInv, PlacesFit, FoundPcs, HeldPcs, regVars
<1>2. /\ ses' \in [Sessions -> MutexType]
      /\ \A r \in Sessions : WellFormed(ses'[r])
      /\ \A u \in Threads \ {t}, r \in Sessions : Depth(ses'[r], u) = Depth(ses[r], u)
      /\ \/ /\ pc' = [pc EXCEPT ![t] = "idle"]
            /\ \A r \in Sessions : Depth(ses'[r], t) = Depth(ses[r], t) - (IF r = found[t] THEN 1 ELSE 0)
         \/ ses' = ses /\ pc' = pc
  <2>1. Depth(ses[found[t]], t) >= 1
    BY <1>1 DEF LockInv, LocksCover, Covered, SessionDepth, Working
  <2> QED
    BY <1>1, <2>1, SessionUnlockLemma DEF LockInv, TypeOK, LocksWellFormed
<1>3. TypeOK'
  <2>1. ans' \in [Threads -> AnswerType] /\ up' \in BOOLEAN
    BY <1>1 DEF LockInv, TypeOK, AnswerType
  <2>2. pc' \in [Threads -> PcType] /\ req' \in [Threads -> RequestType]
    BY <1>1, NoRequestType DEF LockInv, TypeOK, PcType
  <2> QED
    BY <1>1, <1>2, <2>1, <2>2 DEF LockInv, TypeOK
<1>4. RequestsFit' /\ PlacesFit'
  BY <1>1 DEF LockInv, RequestsFit, PlacesFit, FoundPcs, HeldPcs, TypeOK, NoRequest
<1>5. LocksWellFormed'
  BY <1>1, <1>2 DEF LockInv, LocksWellFormed
<1>6. OthersKeep(t)
  BY <1>1, <1>2 DEF LockInv, OthersKeep, TypeOK
<1>7. Covered(t)'
  BY <1>1, <1>2, DepthIsNat DEF LockInv, LocksCover, Covered, ManagerDepth, ManagerLocks, SessionDepth, Working, TypeOK
<1>8. t \in thrown' \/ Balanced(t)'
  BY <1>1, <1>2, DepthIsNat DEF LockInv, LocksBalanced, Balanced, ManagerDepth, ManagerLocks, SessionDepth, Working, TypeOK
<1> QED
  BY <1>3, <1>4, <1>5, <1>6, <1>7, <1>8, MoveLemma DEF LockInv

\* The query tree is built: session and manager are unlocked.
LEMMA BuildLocks ==
  ASSUME LockInv, NEW t \in Threads, Build(t) PROVE LockInv'
<1>1. /\ pc[t] = "build"
      /\ found[t] \in Sessions
      /\ ses' = [ses EXCEPT ![found[t]] = Unlocked(@, 1)]
      /\ mgr' = Unlocked(mgr, ManagerLocks(req[t].op))
      /\ \/ obj' = [obj EXCEPT ![found[t]] = Built(@, Requested(t))] /\ Requested(t) \in Typed
         \/ obj' = [obj EXCEPT ![found[t]] = Dismantled(@, Requested(t))]
      /\ known' = known \cup {found[t]}
      /\ pc' = [pc EXCEPT ![t] = "idle"]
      /\ req' = [req EXCEPT ![t] = NoRequest]
      /\ found' = [found EXCEPT ![t] = Bogus]
      /\ ans' = [ans EXCEPT ![t] = <<"ack">>]
      /\ UNCHANGED <<up, lastId, idToSession, userToSessions, thrown>>
  BY DEF Build, At, Return, LockInv, PlacesFit, FoundPcs, HeldPcs, regVars
<1>2. /\ ses' \in [Sessions -> MutexType]
      /\ \A r \in Sessions : WellFormed(ses'[r])
      /\ \A r \in Sessions : Depth(ses'[r], t) = Depth(ses[r], t) - (IF r = found[t] THEN 1 ELSE 0)
      /\ \A u \in Threads \ {t}, r \in Sessions : Depth(ses'[r], u) = Depth(ses[r], u)
      /\ mgr' \in MutexType /\ WellFormed(mgr')
      /\ Depth(mgr', t) = Depth(mgr, t) - ManagerLocks(req[t].op)
      /\ \A u \in Threads \ {t} : Depth(mgr', u) = Depth(mgr, u)
  <2>1. Depth(ses[found[t]], t) >= 1
    BY <1>1 DEF LockInv, LocksCover, Covered, SessionDepth, Working
  <2>2. Depth(mgr, t) >= ManagerLocks(req[t].op)
    BY <1>1 DEF LockInv, LocksCover, Covered, ManagerDepth
  <2>3. ManagerLocks(req[t].op) \in Nat /\ ManagerLocks(req[t].op) > 0
    BY DEF ManagerLocks
  <2>4. /\ ses' \in [Sessions -> MutexType]
        /\ \A r \in Sessions : WellFormed(ses'[r])
        /\ \A r \in Sessions : Depth(ses'[r], t) = Depth(ses[r], t) - (IF r = found[t] THEN 1 ELSE 0)
        /\ \A u \in Threads \ {t}, r \in Sessions : Depth(ses'[r], u) = Depth(ses[r], u)
    BY <1>1, <2>1, SessionUnlockLemma
  <2>5. /\ mgr' \in MutexType /\ WellFormed(mgr')
        /\ Depth(mgr', t) = Depth(mgr, t) - ManagerLocks(req[t].op)
        /\ \A u \in Threads \ {t} : Depth(mgr', u) = Depth(mgr, u)
    BY <1>1, <2>2, <2>3, ManagerUnlockLemma
  <2> QED
    BY <2>4, <2>5
<1>9. obj' \in [Sessions -> SessionType]
  <2>1. \A o \in SessionType : Dismantled(o, Requested(t)) \in SessionType
    BY DEF Dismantled, SessionType
  <2>2. \A o \in SessionType : Requested(t) \in Typed => Built(o, Requested(t)) \in SessionType
    BY SessionManagerAssumption DEF Built, SessionType
  <2> QED
    BY <1>1, <2>1, <2>2 DEF LockInv, TypeOK
<1>3. TypeOK'
  BY <1>1, <1>2, <1>9, NoRequestType DEF LockInv, TypeOK, PcType, AnswerType
<1>4. RequestsFit' /\ PlacesFit'
  BY <1>1 DEF LockInv, RequestsFit, PlacesFit, FoundPcs, HeldPcs, TypeOK, NoRequest
<1>5. LocksWellFormed'
  BY <1>1, <1>2 DEF LockInv, LocksWellFormed
<1>6. OthersKeep(t)
  BY <1>1, <1>2 DEF LockInv, OthersKeep, TypeOK
<1>7. Covered(t)'
  BY <1>1, <1>2, DepthIsNat DEF LockInv, LocksCover, Covered, ManagerDepth, ManagerLocks, SessionDepth, Working, TypeOK
<1>8. t \in thrown' \/ Balanced(t)'
  BY <1>1, <1>2, DepthIsNat DEF LockInv, LocksBalanced, Balanced, ManagerDepth, ManagerLocks, SessionDepth, Working, TypeOK
<1> QED
  BY <1>3, <1>4, <1>5, <1>6, <1>7, <1>8, MoveLemma DEF LockInv

\* buildQueryTree throws, and both mutexes stay locked.
LEMMA BuildFailsLocks ==
  ASSUME LockInv, NEW t \in Threads, BuildFails(t) PROVE LockInv'
<1>1. /\ pc[t] = "build"
      /\ found[t] \in Sessions
      /\ obj' = [obj EXCEPT ![found[t]] = Dismantled(@, Requested(t))]
      /\ pc' = [pc EXCEPT ![t] = "idle"]
      /\ req' = [req EXCEPT ![t] = NoRequest]
      /\ found' = [found EXCEPT ![t] = Bogus]
      /\ ans' = [ans EXCEPT ![t] = <<"error">>]
      /\ thrown' = thrown \cup {t}
      /\ UNCHANGED <<up, mgr, ses, lastId, idToSession, userToSessions, known>>
  BY DEF BuildFails, At, Throw, Return, LockInv, PlacesFit, FoundPcs, HeldPcs, regVars
<1>2. obj' \in [Sessions -> SessionType]
  <2>1. \A o \in SessionType : Dismantled(o, Requested(t)) \in SessionType
    BY DEF Dismantled, SessionType
  <2> QED
    BY <1>1, <2>1 DEF LockInv, TypeOK
<1>3. TypeOK'
  BY <1>1, <1>2, NoRequestType DEF LockInv, TypeOK, PcType, AnswerType
<1>4. RequestsFit' /\ PlacesFit'
  BY <1>1 DEF LockInv, RequestsFit, PlacesFit, FoundPcs, HeldPcs, TypeOK, NoRequest
<1>5. LocksWellFormed'
  BY <1>1 DEF LockInv, LocksWellFormed
<1>6. OthersKeep(t)
  BY <1>1 DEF LockInv, OthersKeep, TypeOK
<1>7. Covered(t)'
  BY <1>1, DepthIsNat DEF LockInv, LocksCover, Covered, ManagerDepth, ManagerLocks, SessionDepth, Working, TypeOK
<1>8. t \in thrown' \/ Balanced(t)'
  BY <1>1, DepthIsNat DEF LockInv, LocksBalanced, Balanced, ManagerDepth, ManagerLocks, SessionDepth, Working, TypeOK
<1> QED
  BY <1>3, <1>4, <1>5, <1>6, <1>7, <1>8, MoveLemma DEF LockInv

\* query searches the map without a lock.
LEMMA QueryFindLocks ==
  ASSUME LockInv, NEW t \in Threads, QueryFind(t) PROVE LockInv'
<1>1. /\ pc[t] = "find"
      /\ \/ /\ req[t].sid \in Sessions
            /\ pc' = [pc EXCEPT ![t] = "qLock"]
            /\ found' = [found EXCEPT ![t] = req[t].sid]
            /\ UNCHANGED <<req, ans>>
         \/ /\ pc' = [pc EXCEPT ![t] = "idle"]
            /\ found' = [found EXCEPT ![t] = Bogus]
            /\ req' = [req EXCEPT ![t] = NoRequest]
            /\ ans' = [ans EXCEPT ![t] = <<"error">>]
         \/ UNCHANGED <<pc, found, req, ans>>
      /\ up' \in BOOLEAN
      /\ UNCHANGED <<mgr, ses, lastId, idToSession, userToSessions, obj, known, thrown>>
  BY DEF QueryFind, At, GotoWith, Return, Crash, threadVars, regVars, LockInv, TypeOK
<1>3. TypeOK'
  BY <1>1, NoRequestType DEF LockInv, TypeOK, PcType, AnswerType
<1>4. RequestsFit' /\ PlacesFit'
  BY <1>1 DEF LockInv, RequestsFit, PlacesFit, FoundPcs, HeldPcs, TypeOK, NoRequest
<1>5. LocksWellFormed'
  BY <1>1 DEF LockInv, LocksWellFormed
<1>6. OthersKeep(t)
  BY <1>1 DEF LockInv, OthersKeep, TypeOK
<1>7. Covered(t)'
  BY <1>1, DepthIsNat DEF LockInv, LocksCover, Covered, ManagerDepth, ManagerLocks, SessionDepth, Working, TypeOK
<1>8. t \in thrown' \/ Balanced(t)'
  BY <1>1, DepthIsNat DEF LockInv, LocksBalanced, Balanced, ManagerDepth, ManagerLocks, SessionDepth, Working, TypeOK
<1> QED
  BY <1>3, <1>4, <1>5, <1>6, <1>7, <1>8, MoveLemma DEF LockInv

\* deleteSession, renameSession and closeSession lock the manager if they find their session.
LEMMA FindLockLocks ==
  ASSUME LockInv, NEW t \in Threads, FindLock(t) PROVE LockInv'
<1>1. /\ pc[t] = "mgr"
      /\ req[t].op \in {"delete", "rename", "close"}
      /\ \/ /\ req[t].sid \in Sessions
            /\ CanLock(mgr, t)
            /\ mgr' = Locked(mgr, t, 1)
            /\ \E p \in {"erase", "renLock", "closeLock"} : pc' = [pc EXCEPT ![t] = p]
            /\ found' = [found EXCEPT ![t] = req[t].sid]
            /\ UNCHANGED <<req, ans>>
         \/ /\ pc' = [pc EXCEPT ![t] = "idle"]
            /\ found' = [found EXCEPT ![t] = Bogus]
            /\ req' = [req EXCEPT ![t] = NoRequest]
            /\ \E a \in {<<"undefined">>, <<"error">>} : ans' = [ans EXCEPT ![t] = a]
            /\ UNCHANGED mgr
         \/ UNCHANGED <<pc, found, req, ans, mgr>>
      /\ up' \in BOOLEAN
      /\ UNCHANGED <<ses, lastId, idToSession, userToSessions, obj, known, thrown>>
  <2>1. pc[t] = "mgr" /\ req[t].op \in {"delete", "rename", "close"}
    BY DEF FindLock, At
  <2>2. FoundPc[req[t].op] \in {"erase", "renLock", "closeLock"}
    BY <2>1 DEF FoundPc
  <2>3. req[t].sid \in idToSession => req[t].sid \in Sessions
    BY DEF LockInv, TypeOK
  <2>4. up \in BOOLEAN
    BY DEF LockInv, TypeOK
  <2> QED
    BY <2>1, <2>2, <2>3, <2>4 DEF FindLock, GotoWith, Return, regVars
<1>2. /\ mgr' \in MutexType /\ WellFormed(mgr')
      /\ \A u \in Threads \ {t} : Depth(mgr', u) = Depth(mgr, u)
      /\ \/ /\ pc'[t] \in {"erase", "renLock", "closeLock"}
            /\ Depth(mgr', t) = Depth(mgr, t) + 1
         \/ mgr' = mgr /\ pc'[t] \in {"idle", "mgr"}
  BY <1>1, ManagerLockLemma DEF LockInv, TypeOK, LocksWellFormed
<1>3. TypeOK'
  <2>1. pc' \in [Threads -> PcType]
    BY <1>1 DEF LockInv, TypeOK, PcType
  <2>2. found' \in [Threads -> Sessions \cup {Bogus}]
    BY <1>1 DEF LockInv, TypeOK
  <2>3. req' \in [Threads -> RequestType]
    BY <1>1, NoRequestType DEF LockInv, TypeOK
  <2>4. ans' \in [Threads -> AnswerType]
    BY <1>1 DEF LockInv, TypeOK, AnswerType
  <2> QED
    BY <1>1, <1>2, <2>1, <2>2, <2>3, <2>4 DEF LockInv, TypeOK
<1>4. RequestsFit' /\ PlacesFit'
  BY <1>1 DEF LockInv, RequestsFit, PlacesFit, FoundPcs, HeldPcs, TypeOK, NoRequest
<1>5. LocksWellFormed'
  BY <1>1, <1>2 DEF LockInv, LocksWellFormed
<1>6. OthersKeep(t)
  BY <1>1, <1>2 DEF LockInv, OthersKeep, TypeOK
<1>7. Covered(t)'
  BY <1>1, <1>2, DepthIsNat DEF LockInv, LocksCover, Covered, ManagerDepth, ManagerLocks, SessionDepth, Working, TypeOK
<1>8. t \in thrown' \/ Balanced(t)'
  BY <1>1, <1>2, DepthIsNat DEF LockInv, LocksBalanced, Balanced, ManagerDepth, ManagerLocks, SessionDepth, Working, TypeOK
<1> QED
  BY <1>3, <1>4, <1>5, <1>6, <1>7, <1>8, MoveLemma DEF LockInv

\* renameSession has renamed the session and unlocks the manager.
LEMMA RenameLocks ==
  ASSUME LockInv, NEW t \in Threads, Rename(t) PROVE LockInv'
<1>1. /\ pc[t] = "renLock"
      /\ found[t] \in Sessions
      /\ mgr' = Unlocked(mgr, 1)
      /\ pc' = [pc EXCEPT ![t] = "idle"]
      /\ req' = [req EXCEPT ![t] = NoRequest]
      /\ found' = [found EXCEPT ![t] = Bogus]
      /\ ans' = [ans EXCEPT ![t] = <<"ack">>]
      /\ UNCHANGED <<up, ses, lastId, idToSession, userToSessions, obj, known, thrown>>
  BY DEF Rename, At, Return, LockInv, PlacesFit, FoundPcs, HeldPcs, regVars
<1>2. /\ mgr' \in MutexType /\ WellFormed(mgr')
      /\ Depth(mgr', t) = Depth(mgr, t) - 1
      /\ \A u \in Threads \ {t} : Depth(mgr', u) = Depth(mgr, u)
  <2>1. Depth(mgr, t) >= 1
    BY <1>1 DEF LockInv, LocksCover, Covered, ManagerDepth
  <2> QED
    BY <1>1, <2>1, ManagerUnlockLemma
<1>3. TypeOK'
  BY <1>1, <1>2, NoRequestType DEF LockInv, TypeOK, PcType, AnswerType
<1>4. RequestsFit' /\ PlacesFit'
  BY <1>1 DEF LockInv, RequestsFit, PlacesFit, FoundPcs, HeldPcs, TypeOK, NoRequest
<1>5. LocksWellFormed'
  BY <1>1, <1>2 DEF LockInv, LocksWellFormed
<1>6. OthersKeep(t)
  BY <1>1, <1>2 DEF LockInv, OthersKeep, TypeOK
<1>7. Covered(t)'
  BY <1>1, <1>2, DepthIsNat DEF LockInv, LocksCover, Covered, ManagerDepth, ManagerLocks, SessionDepth, Working, TypeOK
<1>8. t \in thrown' \/ Balanced(t)'
  BY <1>1, <1>2, DepthIsNat DEF LockInv, LocksBalanced, Balanced, ManagerDepth, ManagerLocks, SessionDepth, Working, TypeOK
<1> QED
  BY <1>3, <1>4, <1>5, <1>6, <1>7, <1>8, MoveLemma DEF LockInv

\* closeSession has closed the session and unlocks the manager.
LEMMA CloseLocks ==
  ASSUME LockInv, NEW t \in Threads, Close(t) PROVE LockInv'
<1>1. /\ pc[t] = "closeLock"
      /\ found[t] \in Sessions
      /\ mgr' = Unlocked(mgr, 1)
      /\ obj' = [obj EXCEPT ![found[t]].open = FALSE]
      /\ pc' = [pc EXCEPT ![t] = "idle"]
      /\ req' = [req EXCEPT ![t] = NoRequest]
      /\ found' = [found EXCEPT ![t] = Bogus]
      /\ ans' = [ans EXCEPT ![t] = <<"ack">>]
      /\ UNCHANGED <<up, ses, lastId, idToSession, userToSessions, known, thrown>>
  BY DEF Close, At, Return, LockInv, PlacesFit, FoundPcs, HeldPcs, regVars
<1>2. /\ mgr' \in MutexType /\ WellFormed(mgr')
      /\ Depth(mgr', t) = Depth(mgr, t) - 1
      /\ \A u \in Threads \ {t} : Depth(mgr', u) = Depth(mgr, u)
  <2>1. Depth(mgr, t) >= 1
    BY <1>1 DEF LockInv, LocksCover, Covered, ManagerDepth
  <2> QED
    BY <1>1, <2>1, ManagerUnlockLemma
<1>9. obj' \in [Sessions -> SessionType]
  <2>1. \A o \in SessionType : [o EXCEPT !.open = FALSE] \in SessionType
    BY DEF SessionType
  <2> QED
    BY <1>1, <2>1 DEF LockInv, TypeOK
<1>3. TypeOK'
  BY <1>1, <1>2, <1>9, NoRequestType DEF LockInv, TypeOK, PcType, AnswerType
<1>4. RequestsFit' /\ PlacesFit'
  BY <1>1 DEF LockInv, RequestsFit, PlacesFit, FoundPcs, HeldPcs, TypeOK, NoRequest
<1>5. LocksWellFormed'
  BY <1>1, <1>2 DEF LockInv, LocksWellFormed
<1>6. OthersKeep(t)
  BY <1>1, <1>2 DEF LockInv, OthersKeep, TypeOK
<1>7. Covered(t)'
  BY <1>1, <1>2, DepthIsNat DEF LockInv, LocksCover, Covered, ManagerDepth, ManagerLocks, SessionDepth, Working, TypeOK
<1>8. t \in thrown' \/ Balanced(t)'
  BY <1>1, <1>2, DepthIsNat DEF LockInv, LocksBalanced, Balanced, ManagerDepth, ManagerLocks, SessionDepth, Working, TypeOK
<1> QED
  BY <1>3, <1>4, <1>5, <1>6, <1>7, <1>8, MoveLemma DEF LockInv

\* deleteSession takes the session out of the maps and unlocks the manager.
LEMMA EraseLocks ==
  ASSUME LockInv, NEW t \in Threads, Erase(t) PROVE LockInv'
<1>1. /\ pc[t] = "erase"
      /\ found[t] \in Sessions
      /\ mgr' = Unlocked(mgr, 1)
      /\ idToSession' = idToSession \ {found[t]}
      /\ userToSessions' = [userToSessions EXCEPT ![obj[found[t]].user] = @ \ {found[t]}]
      /\ \E x \in {"destroyed", obj[found[t]].state} : obj' = [obj EXCEPT ![found[t]].state = x]
      /\ pc' = [pc EXCEPT ![t] = "idle"]
      /\ req' = [req EXCEPT ![t] = NoRequest]
      /\ found' = [found EXCEPT ![t] = Bogus]
      /\ ans' = [ans EXCEPT ![t] = <<"ack">>]
      /\ UNCHANGED <<up, ses, lastId, known, thrown>>
  BY DEF Erase, At, Return, LockInv, PlacesFit, FoundPcs, HeldPcs, regVars
<1>2. /\ mgr' \in MutexType /\ WellFormed(mgr')
      /\ Depth(mgr', t) = Depth(mgr, t) - 1
      /\ \A u \in Threads \ {t} : Depth(mgr', u) = Depth(mgr, u)
  <2>1. Depth(mgr, t) >= 1
    BY <1>1 DEF LockInv, LocksCover, Covered, ManagerDepth
  <2> QED
    BY <1>1, <2>1, ManagerUnlockLemma
<1>9. obj' \in [Sessions -> SessionType] /\ userToSessions' \in [Users -> SUBSET Sessions]
  <2>1. obj[found[t]] \in SessionType
    BY <1>1 DEF LockInv, TypeOK
  <2>2. obj[found[t]].user \in Users /\ obj[found[t]].state \in {"none", "live", "destroyed"}
    BY <2>1 DEF SessionType
  <2>3. \A x \in {"none", "live", "destroyed"} : [obj[found[t]] EXCEPT !.state = x] \in SessionType
    BY <2>1 DEF SessionType
  <2> QED
    BY <1>1, <2>2, <2>3 DEF LockInv, TypeOK
<1>3. TypeOK'
  BY <1>1, <1>2, <1>9, NoRequestType DEF LockInv, TypeOK, PcType, AnswerType
<1>4. RequestsFit' /\ PlacesFit'
  BY <1>1 DEF LockInv, RequestsFit, PlacesFit, FoundPcs, HeldPcs, TypeOK, NoRequest
<1>5. LocksWellFormed'
  BY <1>1, <1>2 DEF LockInv, LocksWellFormed
<1>6. OthersKeep(t)
  BY <1>1, <1>2 DEF LockInv, OthersKeep, TypeOK
<1>7. Covered(t)'
  BY <1>1, <1>2, DepthIsNat DEF LockInv, LocksCover, Covered, ManagerDepth, ManagerLocks, SessionDepth, Working, TypeOK
<1>8. t \in thrown' \/ Balanced(t)'
  BY <1>1, <1>2, DepthIsNat DEF LockInv, LocksBalanced, Balanced, ManagerDepth, ManagerLocks, SessionDepth, Working, TypeOK
<1> QED
  BY <1>3, <1>4, <1>5, <1>6, <1>7, <1>8, MoveLemma DEF LockInv

\* CSession::open keeps the mutex of an open session; the manager is unlocked.
LEMMA SessionOpenLocks ==
  ASSUME LockInv, NEW t \in Threads, SessionOpen(t) PROVE LockInv'
<1>1. /\ pc[t] = "openLock"
      /\ found[t] \in Sessions
      /\ CanLock(ses[found[t]], t)
      /\ mgr' = Unlocked(mgr, 1)
      /\ \/ /\ ses' = [ses EXCEPT ![found[t]] = Locked(@, t, 1)]
            /\ thrown' = thrown \cup {t}
            /\ UNCHANGED obj
         \/ /\ obj' = [obj EXCEPT ![found[t]].open = TRUE]
            /\ UNCHANGED <<ses, thrown>>
      /\ pc' = [pc EXCEPT ![t] = "idle"]
      /\ req' = [req EXCEPT ![t] = NoRequest]
      /\ found' = [found EXCEPT ![t] = Bogus]
      /\ ans' = [ans EXCEPT ![t] = <<"ack">>]
      /\ UNCHANGED <<up, lastId, idToSession, userToSessions, known>>
  BY DEF SessionOpen, At, Return, LockInv, PlacesFit, FoundPcs, HeldPcs, regVars
<1>2. /\ ses' \in [Sessions -> MutexType]
      /\ \A r \in Sessions : WellFormed(ses'[r])
      /\ \A u \in Threads \ {t}, r \in Sessions : Depth(ses'[r], u) = Depth(ses[r], u)
      /\ \/ /\ t \in thrown'
            /\ \A r \in Sessions : Depth(ses'[r], t) = Depth(ses[r], t) + (IF r = found[t] THEN 1 ELSE 0)
         \/ ses' = ses
      /\ mgr' \in MutexType /\ WellFormed(mgr')
      /\ Depth(mgr', t) = Depth(mgr, t) - 1
      /\ \A u \in Threads \ {t} : Depth(mgr', u) = Depth(mgr, u)
  <2>1. Depth(mgr, t) >= 1
    BY <1>1 DEF LockInv, LocksCover, Covered, ManagerDepth
  <2> QED
    BY <1>1, <2>1, SessionLockLemma, ManagerUnlockLemma DEF LockInv, TypeOK, LocksWellFormed
<1>9. obj' \in [Sessions -> SessionType]
  <2>1. \A o \in SessionType : [o EXCEPT !.open = TRUE] \in SessionType
    BY DEF SessionType
  <2> QED
    BY <1>1, <2>1 DEF LockInv, TypeOK
<1>3. TypeOK'
  BY <1>1, <1>2, <1>9, NoRequestType DEF LockInv, TypeOK, PcType, AnswerType
<1>4. RequestsFit' /\ PlacesFit'
  BY <1>1 DEF LockInv, RequestsFit, PlacesFit, FoundPcs, HeldPcs, TypeOK, NoRequest
<1>5. LocksWellFormed'
  BY <1>1, <1>2 DEF LockInv, LocksWellFormed
<1>6. OthersKeep(t)
  BY <1>1, <1>2 DEF LockInv, OthersKeep, TypeOK
<1>7. Covered(t)'
  BY <1>1, <1>2, DepthIsNat DEF LockInv, LocksCover, Covered, ManagerDepth, ManagerLocks, SessionDepth, Working, TypeOK
<1>8. t \in thrown' \/ Balanced(t)'
  BY <1>1, <1>2, DepthIsNat DEF LockInv, LocksBalanced, Balanced, ManagerDepth, ManagerLocks, SessionDepth, Working, TypeOK
<1> QED
  BY <1>3, <1>4, <1>5, <1>6, <1>7, <1>8, MoveLemma DEF LockInv

\* translate locks and unlocks the manager in one step.
LEMMA TranslateLocks ==
  ASSUME LockInv, NEW t \in Threads, Translate(t) PROVE LockInv'
<1>1. /\ pc[t] = "mgr"
      /\ pc' = [pc EXCEPT ![t] = "idle"]
      /\ req' = [req EXCEPT ![t] = NoRequest]
      /\ found' = [found EXCEPT ![t] = Bogus]
      /\ ans' = [ans EXCEPT ![t] = <<"ack">>]
      /\ UNCHANGED <<up, mgr, ses, lastId, idToSession, userToSessions, obj, known, thrown>>
  BY DEF Translate, At, Return, regVars
<1>3. TypeOK'
  BY <1>1, NoRequestType DEF LockInv, TypeOK, PcType, AnswerType
<1>4. RequestsFit' /\ PlacesFit'
  BY <1>1 DEF LockInv, RequestsFit, PlacesFit, FoundPcs, HeldPcs, TypeOK, NoRequest
<1>5. LocksWellFormed'
  BY <1>1 DEF LockInv, LocksWellFormed
<1>6. OthersKeep(t)
  BY <1>1 DEF LockInv, OthersKeep, TypeOK
<1>7. Covered(t)'
  BY <1>1, DepthIsNat DEF LockInv, LocksCover, Covered, ManagerDepth, ManagerLocks, SessionDepth, Working, TypeOK
<1>8. t \in thrown' \/ Balanced(t)'
  BY <1>1, DepthIsNat DEF LockInv, LocksBalanced, Balanced, ManagerDepth, ManagerLocks, SessionDepth, Working, TypeOK
<1> QED
  BY <1>3, <1>4, <1>5, <1>6, <1>7, <1>8, MoveLemma DEF LockInv

\* What clients ask for has the arguments it needs.
LEMMA RequestsType ==
  ASSUME TypeOK
  PROVE  \A r \in Requests :
           /\ r \in RequestType
           /\ r.op \in {"open", "reopen"} => r.arg \in Users
           /\ r.op = "configure" => r.arg \in Algorithms
BY SessionManagerAssumption DEF Requests, RequestType, AllOps, TypeOK

\* A thread starts an operation with the locks it has lost so far.
LEMMA CallLocks ==
  ASSUME LockInv, NEW t \in Threads, Call(t) PROVE LockInv'
<1>1. /\ pc[t] = "idle"
      /\ \E r \in Requests, q \in {"mgr", "find"} : req' = [req EXCEPT ![t] = r] /\ pc' = [pc EXCEPT ![t] = q]
      /\ ans' = [ans EXCEPT ![t] = <<"none">>]
      /\ UNCHANGED <<up, mgr, ses, lastId, idToSession, userToSessions, obj, known, found, thrown>>
  BY DEF Call, At, FirstPc, regVars
<1>3. TypeOK'
  BY <1>1, RequestsType DEF LockInv, TypeOK, PcType, AnswerType
<1>4. RequestsFit' /\ PlacesFit'
  BY <1>1, RequestsType DEF LockInv, RequestsFit, PlacesFit, FoundPcs, HeldPcs, TypeOK
<1>5. LocksWellFormed'
  BY <1>1 DEF LockInv, LocksWellFormed
<1>6. OthersKeep(t)
  BY <1>1 DEF LockInv, OthersKeep, TypeOK
<1>7. Covered(t)'
  BY <1>1, DepthIsNat DEF LockInv, LocksCover, Covered, ManagerDepth, ManagerLocks, SessionDepth, Working, TypeOK
<1>8. t \in thrown' \/ Balanced(t)'
  BY <1>1, DepthIsNat DEF LockInv, LocksBalanced, Balanced, ManagerDepth, ManagerLocks, SessionDepth, Working, TypeOK
<1> QED
  BY <1>3, <1>4, <1>5, <1>6, <1>7, <1>8, MoveLemma DEF LockInv

\* A thread ends with the locks it has lost.
LEMMA ExitLocks ==
  ASSUME LockInv, NEW t \in Threads, Exit(t) PROVE LockInv'
<1>1. /\ pc[t] = "idle"
      /\ pc' = [pc EXCEPT ![t] = "dead"]
      /\ UNCHANGED <<up, mgr, ses, lastId, idToSession, userToSessions, obj, known, req, ans, found, thrown>>
  BY DEF Exit, At, regVars
<1>3. TypeOK'
  BY <1>1 DEF LockInv, TypeOK, PcType
<1>4. RequestsFit' /\ PlacesFit'
  BY <1>1 DEF LockInv, RequestsFit, PlacesFit, FoundPcs, HeldPcs, TypeOK
<1>5. LocksWellFormed'
  BY <1>1 DEF LockInv, LocksWellFormed
<1>6. OthersKeep(t)
  BY <1>1 DEF LockInv, OthersKeep, TypeOK
<1>7. Covered(t)'
  BY <1>1, DepthIsNat DEF LockInv, LocksCover, Covered, ManagerDepth, ManagerLocks, SessionDepth, Working, TypeOK
<1>8. t \in thrown' \/ Balanced(t)'
  BY <1>1, DepthIsNat DEF LockInv, LocksBalanced, Balanced, ManagerDepth, ManagerLocks, SessionDepth, Working, TypeOK
<1> QED
  BY <1>3, <1>4, <1>5, <1>6, <1>7, <1>8, MoveLemma DEF LockInv

\* No step of any thread breaks LockInv.
LEMMA NextLocks == LockInv /\ [Next]_vars => LockInv'
<1> SUFFICES ASSUME LockInv, [Next]_vars PROVE LockInv'
  OBVIOUS
<1>1. CASE Next
  <2>1. PICK t \in Threads : Call(t) \/ Exit(t) \/ Step(t)
    BY <1>1 DEF Next
  <2>2. CASE Call(t) \/ Exit(t)
    BY <2>2, CallLocks, ExitLocks
  <2>3. CASE Step(t)
    BY <2>3, OpenLockLocks, InsertLocks, ReopenLockLocks, SessionOpenLocks,
       ConfigureLockLocks, ConfigureSessionLocks, BuildLocks, BuildFailsLocks,
       QueryFindLocks, RandomFindLocks, QueryLockLocks, EvaluateLocks,
       EvaluateFailsLocks, EvaluateDanglingLocks, FindLockLocks, EraseLocks,
       RenameLocks, CloseLocks, TranslateLocks DEF Step
  <2> QED
    BY <2>1, <2>2, <2>3
<1>2. CASE UNCHANGED vars
  BY <1>2 DEF LockInv, TypeOK, RequestsFit, PlacesFit, LocksWellFormed, LocksCover,
     Covered, LocksBalanced, Balanced, ManagerDepth, SessionDepth, Working, vars
<1> QED
  BY <1>1, <1>2

\* The end of the process leaves the locks alone.
LEMMA CrashLocks == LockInv /\ Crash => LockInv'
BY ZenonT(30) DEF Crash, regVars, threadVars, LockInv, TypeOK, RequestsFit, PlacesFit, LocksWellFormed,
   LocksCover, Covered, LocksBalanced, Balanced, ManagerDepth, SessionDepth, Working

\* Between two operations a thread that has lost no lock holds none.
LEMMA IdleHoldsNothing ==
  ASSUME LockInv, NEW t \in Threads, t \notin thrown, pc[t] \in {"idle", "dead"}
  PROVE  mgr.owner # t /\ \A s \in Sessions : ses[s].owner # t
<1>1. Depth(mgr, t) = 0 /\ \A s \in Sessions : Depth(ses[s], t) = 0
  BY DEF LockInv, LocksBalanced, Balanced, ManagerDepth, SessionDepth, Working
<1>2. t # NoThread
  BY NoThreadAssumption
<1> QED
  BY <1>1, <1>2 DEF LockInv, LocksWellFormed, WellFormed, Depth

\* An operation moves the thread that runs it, and no other.
LEMMA StepMoves ==
  ASSUME TypeOK, NEW t \in Threads, Step(t)
  PROVE  /\ pc[t] \notin {"idle", "dead"} /\ thrown \subseteq thrown'
         /\ \A u \in Threads \ {t} : pc'[u] = pc[u]
BY DEF Step, TypeOK, OpenLock, Insert, ReopenLock, SessionOpen, ConfigureLock, ConfigureSession,
   Build, BuildFails, QueryFind, RandomFind, QueryLock, Evaluate, EvaluateFails,
   EvaluateDangling, FindLock, Erase, Rename, Close, Translate, At, Goto, GotoWith, Return,
   Throw, Crash, threadVars

\* The locks fit the places of the threads at all times, and no variable ever
\* leaves its type: no ID beyond the last is issued and no mutex is unlocked
\* that is not locked.
THEOREM LocksAlwaysFit == Spec => []LockInv
<1>1. Init => LockInv
  BY InitLocks
<1>2. LockInv /\ [Next]_vars => LockInv'
  BY NextLocks
<1> QED
  BY <1>1, <1>2, PTL DEF Spec
-----------------------------------------------------------------------------
(* The maps *)

\* Threads that hold the manager's mutex for an operation exclude each other.
LEMMA HeldExclusion ==
  ASSUME LockInv, NEW t \in Threads, NEW u \in Threads,
         pc[t] \in HeldPcs \cup {"insert"}, pc[u] \in HeldPcs \cup {"insert"}
  PROVE  t = u
<1>1. \A v \in Threads : pc[v] \in HeldPcs \cup {"insert"} => Depth(mgr, v) > 0
  BY DepthIsNat DEF LockInv, TypeOK, LocksCover, Covered, ManagerDepth, ManagerLocks, HeldPcs
<1> QED
  BY <1>1, OwnerLemma

\* The maps of a new session manager are empty.
LEMMA InitRegistry == Init => RegistryInv
BY DEF Init, RegistryInv, RegistryFits, HeldFits, HeldPcs

\* An insertion enters a session that is not in the maps yet.
LEMMA InsertRegistry ==
  ASSUME LockInv, RegistryInv, NEW t \in Threads, Insert(t) PROVE RegistryInv'
<1> DEFINE s == lastId + 1
           u == req[t].arg
<1>1. /\ pc[t] = "insert" /\ pc' = [pc EXCEPT ![t] = "cfgLock"]
      /\ found' = [found EXCEPT ![t] = s] /\ lastId' = s
      /\ idToSession' = idToSession \cup {s}
      /\ userToSessions' = [userToSessions EXCEPT ![u] = @ \cup {s}]
      /\ obj' = [obj EXCEPT ![s] = [NewObject(u) EXCEPT !.open = TRUE]]
  BY DEF Insert, At, GotoWith
<1>2. lastId \in Nat /\ s \in Sessions /\ u \in Users
  BY <1>1, SessionManagerAssumption DEF LockInv, TypeOK, PlacesFit, RequestsFit, Sessions
<1>3. obj'[s].state = "live" /\ obj'[s].user = u
  BY <1>1, <1>2 DEF LockInv, TypeOK, NewObject
<1>4. \A r \in idToSession : r \in Sessions /\ r # s /\ r <= lastId /\ obj'[r] = obj[r]
  BY <1>1, <1>2 DEF LockInv, TypeOK, RegistryInv, RegistryFits, Sessions
<1>5. RegistryFits'
  <2>1. \A r \in idToSession : obj[r].user \in Users
    BY <1>4 DEF LockInv, TypeOK, SessionType
  <2>2. \A r \in idToSession : r \in userToSessions'[obj'[r].user]
    BY <1>1, <1>2, <1>4, <2>1 DEF RegistryInv, RegistryFits, LockInv, TypeOK
  <2>3. s \in userToSessions'[obj'[s].user]
    BY <1>1, <1>2, <1>3 DEF LockInv, TypeOK
  <2>4. \A r \in idToSession : r <= lastId' /\ obj'[r].state = "live"
    <3>1. \A r \in idToSession : r \in Nat /\ r <= lastId /\ obj'[r].state = "live"
      BY <1>4 DEF RegistryInv, RegistryFits, Sessions
    <3> QED
      BY <1>1, <1>2, <3>1
  <2> QED
    BY <1>1, <1>2, <1>3, <2>2, <2>3, <2>4 DEF RegistryFits
<1>6. HeldFits'
  BY <1>1 DEF HeldFits, RegistryInv, LockInv, TypeOK
<1> QED
  BY <1>5, <1>6 DEF RegistryInv

\* A deletion takes out the session of the one thread that holds the manager.
LEMMA EraseRegistry ==
  ASSUME LockInv, RegistryInv, NEW t \in Threads, Erase(t) PROVE RegistryInv'
<1> DEFINE s == found[t]
           u == obj[s].user
<1>1. /\ pc[t] = "erase" /\ pc' = [pc EXCEPT ![t] = "idle"]
      /\ found' = [found EXCEPT ![t] = Bogus] /\ lastId' = lastId
      /\ idToSession' = idToSession \ {s}
      /\ userToSessions' = [userToSessions EXCEPT ![u] = @ \ {s}]
  BY DEF Erase, At, Return
<1>2. \A r \in Sessions \ {s} : obj'[r] = obj[r]
  BY DEF Erase, LockInv, TypeOK
<1>3. RegistryFits'
  <2>1. \A r \in idToSession : r \in Sessions /\ obj[r].user \in Users
    BY DEF LockInv, TypeOK, SessionType
  <2>2. \A r \in idToSession \ {s} : r \in userToSessions'[obj[r].user]
    BY <1>1, <2>1 DEF LockInv, TypeOK, RegistryInv, RegistryFits
  <2> QED
    BY <1>1, <1>2, <2>1, <2>2 DEF RegistryInv, RegistryFits
<1>4. HeldFits'
  <2>1. \A v \in Threads \ {t} : pc[v] \notin HeldPcs
    BY <1>1, HeldExclusion DEF HeldPcs
  <2> QED
    BY <1>1, <2>1 DEF HeldFits, HeldPcs, LockInv, TypeOK
<1> QED
  BY <1>3, <1>4 DEF RegistryInv

\* A step that leaves the maps alone, and of the objects the owners and whether
\* they live, need only see to the session t has found.
LEMMA QuietRegistry ==
  ASSUME LockInv, RegistryInv, NEW t \in Threads,
         UNCHANGED regVars,
         \A s \in Sessions : obj'[s].state = obj[s].state /\ obj'[s].user = obj[s].user,
         \A u \in Threads \ {t} : pc'[u] = pc[u] /\ found'[u] = found[u],
         pc'[t] \in HeldPcs => found'[t] \in idToSession
  PROVE  RegistryInv'
<1>1. RegistryFits'
  BY DEF RegistryInv, RegistryFits, regVars, LockInv, TypeOK
<1>2. HeldFits'
  BY DEF RegistryInv, HeldFits, regVars
<1> QED
  BY <1>1, <1>2 DEF RegistryInv

\* The operations that find a session under the manager's lock find it in the map.
LEMMA FindRegistry ==
  ASSUME LockInv, RegistryInv, NEW t \in Threads,
         ReopenLock(t) \/ ConfigureLock(t) \/ FindLock(t)
  PROVE  RegistryInv'
<1>1. UNCHANGED <<lastId, idToSession, userToSessions, obj>>
  BY DEF ReopenLock, ConfigureLock, FindLock, regVars
<1>2. \A u \in Threads \ {t} : pc'[u] = pc[u] /\ found'[u] = found[u]
  BY DEF ReopenLock, ConfigureLock, FindLock, GotoWith, Throw, Return, LockInv, TypeOK
<1>3. pc'[t] \in HeldPcs => found'[t] \in idToSession
  BY DEF ReopenLock, ConfigureLock, FindLock, At, GotoWith, Throw, Return, LockInv, TypeOK, HeldPcs
<1> QED
  BY <1>1, <1>2, <1>3, QuietRegistry DEF regVars

\* The operations that change a session change neither its user nor its life.
LEMMA ObjectRegistry ==
  ASSUME LockInv, RegistryInv, NEW t \in Threads,
         SessionOpen(t) \/ Build(t) \/ BuildFails(t) \/ Close(t)
  PROVE  RegistryInv'
<1>1. UNCHANGED <<lastId, idToSession, userToSessions>>
  BY DEF SessionOpen, Build, BuildFails, Close, regVars
<1>2. \A u \in Threads \ {t} : pc'[u] = pc[u] /\ found'[u] = found[u]
  BY DEF SessionOpen, Build, BuildFails, Close, Throw, Return, LockInv, TypeOK
<1>3. pc'[t] = "idle"
  BY DEF SessionOpen, Build, BuildFails, Close, Throw, Return, LockInv, TypeOK
<1>4. \A s \in Sessions : obj'[s].state = obj[s].state /\ obj'[s].user = obj[s].user
  <2>1. \A s \in Sessions : obj[s] \in SessionType
    BY DEF LockInv, TypeOK
  <2>2. CASE SessionOpen(t) \/ Close(t)
    <3>1. \A s \in Sessions : \/ obj'[s] = obj[s]
                             \/ \E a \in BOOLEAN : obj'[s] = [obj[s] EXCEPT !.open = a]
      BY <2>2 DEF SessionOpen, Close, LockInv, TypeOK
    <3> QED
      BY <2>1, <3>1 DEF SessionType
  <2>3. CASE Build(t) \/ BuildFails(t)
    <3>1. \A s \in Sessions :
            \/ obj'[s] = obj[s]
            \/ obj'[s] = Built(obj[s], Requested(t))
            \/ obj'[s] = Dismantled(obj[s], Requested(t))
      BY <2>3 DEF Build, BuildFails, LockInv, TypeOK
    <3>2. \A o \in SessionType, a \in Algorithms :
            Built(o, a).state = o.state /\ Built(o, a).user = o.user
      BY DEF Built, SessionType
    <3>3. \A o \in SessionType, a \in Algorithms :
            Dismantled(o, a).state = o.state /\ Dismantled(o, a).user = o.user
      BY DEF Dismantled, SessionType
    <3>4. Requested(t) \in Algorithms
      BY SessionManagerAssumption DEF Requested, LockInv, RequestsFit
    <3> QED
      BY <2>1, <3>1, <3>2, <3>3, <3>4
  <2> QED
    BY <2>2, <2>3
<1> QED
  BY <1>1, <1>2, <1>3, <1>4, QuietRegistry DEF regVars, HeldPcs

\* All other steps touch neither the maps nor a session.
LEMMA OtherRegistry ==
  ASSUME LockInv, RegistryInv, NEW t \in Threads,
         \/ Call(t) \/ Exit(t) \/ OpenLock(t) \/ ConfigureSession(t)
         \/ QueryFind(t) \/ RandomFind(t) \/ QueryLock(t)
         \/ Evaluate(t) \/ EvaluateFails(t) \/ EvaluateDangling(t)
         \/ Rename(t) \/ Translate(t)
  PROVE  RegistryInv'
<1>1. UNCHANGED <<lastId, idToSession, userToSessions, obj>>
  BY DEF Call, Exit, OpenLock, ConfigureSession, QueryFind, RandomFind, QueryLock, Evaluate,
     EvaluateFails, EvaluateDangling, Rename, Translate, Crash, regVars
<1>2. \A u \in Threads \ {t} : pc'[u] = pc[u] /\ found'[u] = found[u]
  BY DEF Call, Exit, OpenLock, ConfigureSession, QueryFind, RandomFind, QueryLock, Evaluate,
     EvaluateFails, EvaluateDangling, Rename, Translate, Crash, Goto, GotoWith, Throw, Return,
     threadVars, LockInv, TypeOK
<1>3. pc'[t] \in HeldPcs => pc[t] \in HeldPcs /\ found'[t] = found[t]
  BY DEF Call, Exit, OpenLock, ConfigureSession, QueryFind, RandomFind, QueryLock, Evaluate,
     EvaluateFails, EvaluateDangling, Rename, Translate, Crash, Goto, GotoWith, Throw, Return,
     At, FirstPc, threadVars, LockInv, TypeOK, HeldPcs
<1> QED
  BY <1>1, <1>2, <1>3, QuietRegistry DEF regVars, RegistryInv, HeldFits

\* No step of any thread breaks RegistryInv.
LEMMA NextRegistry == LockInv /\ RegistryInv /\ [Next]_vars => RegistryInv'
<1> SUFFICES ASSUME LockInv, RegistryInv, [Next]_vars PROVE RegistryInv'
  OBVIOUS
<1>1. CASE Next
  <2>1. PICK t \in Threads : Call(t) \/ Exit(t) \/ Step(t)
    BY <1>1 DEF Next
  <2> QED
    BY <2>1, InsertRegistry, EraseRegistry, FindRegistry, ObjectRegistry, OtherRegistry DEF Step
<1>2. CASE UNCHANGED vars
  BY <1>2 DEF vars, RegistryInv, RegistryFits, HeldFits
<1> QED
  BY <1>1, <1>2

-----------------------------------------------------------------------------
(* The sessions that have been announced *)

\* A new session manager has announced nothing.
LEMMA InitAnnounced == Init => AnnouncedInv
BY DEF Init, AnnouncedInv, AnnouncedBuilt, NamedAnnounced, NeedsAnnounced, NoRequest, Bogus

\* A new session is none of those announced.
LEMMA InsertAnnounced ==
  ASSUME LockInv, AnnouncedInv, NEW t \in Threads, Insert(t) PROVE AnnouncedInv'
<1>1. /\ pc[t] = "insert" /\ pc' = [pc EXCEPT ![t] = "cfgLock"]
      /\ lastId' = lastId + 1 /\ known' = known /\ req' = req
      /\ found' = [found EXCEPT ![t] = lastId + 1]
      /\ req[t].op \in {"open", "reopen"}
  BY DEF Insert, At, GotoWith, LockInv, PlacesFit
<1>2. lastId \in Nat /\ known \subseteq Sessions
  BY SessionManagerAssumption DEF LockInv, TypeOK
<1>3. \A r \in known : r <= lastId /\ obj'[r] = obj[r]
  <2>1. \A r \in known : r \in Sessions /\ r <= lastId /\ r # lastId + 1
    BY <1>2 DEF AnnouncedInv, AnnouncedBuilt, Sessions
  <2>2. /\ obj' = [obj EXCEPT ![lastId + 1] = [NewObject(req[t].arg) EXCEPT !.open = TRUE]]
        /\ obj \in [Sessions -> SessionType]
    BY DEF Insert, LockInv, TypeOK
  <2> QED
    BY <2>1, <2>2
<1>4. AnnouncedBuilt'
  <2>1. \A r \in known : r <= lastId'
    <3>1. \A r \in known : r \in Nat
      BY ONLY <1>2, SessionManagerAssumption DEF Sessions
    <3> QED
      BY <1>1, <1>2, <1>3, <3>1
  <2> QED
    BY <1>1, <1>3, <2>1 DEF AnnouncedInv, AnnouncedBuilt
<1>5. NamedAnnounced'
  BY <1>1 DEF AnnouncedInv, NamedAnnounced, NeedsAnnounced, LockInv, TypeOK
<1> QED
  BY <1>4, <1>5 DEF AnnouncedInv

\* A configuration announces a session with its container.
LEMMA BuildAnnounced ==
  ASSUME Default \in Typed, LockInv, RegistryInv, AnnouncedInv, NEW t \in Threads,
         Build(t) \/ BuildFails(t)
  PROVE  AnnouncedInv'
<1> DEFINE s == found[t]
<1>1. /\ pc[t] = "build" /\ pc' = [pc EXCEPT ![t] = "idle"]
      /\ req' = [req EXCEPT ![t] = NoRequest]
      /\ found' = [found EXCEPT ![t] = Bogus] /\ lastId' = lastId
  BY DEF Build, BuildFails, At, Throw, Return, regVars
<1>0. (Build(t) /\ known' = known \cup {s}) \/ known' = known
  <2>1. CASE Build(t)
    <3>1. known' = known \cup {s}
      BY <2>1 DEF Build
    <3> QED
      BY <2>1, <3>1
  <2>2. CASE BuildFails(t)
    BY <2>2 DEF BuildFails
  <2> QED
    BY <2>1, <2>2
<1>2. s \in idToSession /\ s \in Sessions /\ s <= lastId
  BY <1>1 DEF RegistryInv, RegistryFits, HeldFits, HeldPcs, LockInv, TypeOK
<1>3. \A r \in Sessions : obj[r].first => obj'[r].first
  <2>1. \A o \in SessionType : /\ Built(o, Requested(t)).first
                              /\ Dismantled(o, Requested(t)).first = o.first
    BY DEF Built, Dismantled, SessionType
  <2>2. \A r \in Sessions :
          \/ obj'[r] = obj[r]
          \/ obj'[r] = Built(obj[r], Requested(t))
          \/ obj'[r] = Dismantled(obj[r], Requested(t))
    BY DEF Build, BuildFails, LockInv, TypeOK
  <2> QED
    BY <2>1, <2>2 DEF LockInv, TypeOK
<1>4. Build(t) => obj'[s].first
  <2>1. CASE req[t].op = "configure"
    BY <1>1, <1>2, <1>3, <2>1 DEF AnnouncedInv, AnnouncedBuilt, NamedAnnounced, NeedsAnnounced
  <2>2. CASE req[t].op # "configure" /\ Build(t)
    <3>1. obj'[s] = Built(obj[s], Requested(t))
      BY <1>2, <2>2 DEF Build, Requested, LockInv, TypeOK
    <3> QED
      BY <1>2, <3>1 DEF Built, LockInv, TypeOK, SessionType
  <2> QED
    BY <2>1, <2>2
<1>5. AnnouncedBuilt'
  <2>1. \A r \in known : r \in Sessions
    BY DEF LockInv, TypeOK
  <2> QED
    BY <1>0, <1>1, <1>2, <1>3, <1>4, <2>1 DEF AnnouncedInv, AnnouncedBuilt
<1>6. NamedAnnounced'
  BY <1>0, <1>1 DEF AnnouncedInv, NamedAnnounced, NeedsAnnounced, NoRequest, LockInv, TypeOK
<1> QED
  BY <1>5, <1>6 DEF AnnouncedInv

\* No other step announces a session, or takes away its container.
LEMMA OtherAnnounced ==
  ASSUME LockInv, AnnouncedInv, NEW t \in Threads, Call(t) \/ Exit(t) \/ Step(t),
         ~Insert(t), ~Build(t), ~BuildFails(t)
  PROVE  AnnouncedInv'
<1>1. known' = known /\ lastId' = lastId
  BY DEF Call, Exit, Step, OpenLock, ReopenLock, SessionOpen, ConfigureLock, ConfigureSession,
     QueryFind, RandomFind, QueryLock, Evaluate, EvaluateFails, EvaluateDangling, FindLock,
     Erase, Rename, Close, Translate, Crash, regVars
<1>2. \A r \in Sessions : obj'[r].first = obj[r].first
  <2>1. CASE SessionOpen(t) \/ Close(t) \/ Erase(t)
    <3>1. \A r \in Sessions : \/ obj'[r] = obj[r]
                             \/ \E a \in BOOLEAN : obj'[r] = [obj[r] EXCEPT !.open = a]
                             \/ \E b \in {"destroyed", obj[r].state} :
                                  obj'[r] = [obj[r] EXCEPT !.state = b]
      BY <2>1 DEF SessionOpen, Close, Erase, LockInv, TypeOK
    <3>2. \A r \in Sessions : obj[r] \in SessionType
      BY DEF LockInv, TypeOK
    <3> QED
      BY <3>1, <3>2 DEF SessionType
  <2>2. CASE ~SessionOpen(t) /\ ~Close(t) /\ ~Erase(t)
    BY <2>2 DEF Call, Exit, Step, OpenLock, ReopenLock, ConfigureLock, ConfigureSession,
       QueryFind, RandomFind, QueryLock, Evaluate, EvaluateFails, EvaluateDangling, FindLock,
       Rename, Translate, Crash
  <2> QED
    BY <2>1, <2>2
<1>3. \A u \in Threads \ {t} : pc'[u] = pc[u] /\ req'[u] = req[u] /\ found'[u] = found[u]
  BY DEF Call, Exit, Step, OpenLock, ReopenLock, SessionOpen, ConfigureLock, ConfigureSession,
     QueryFind, RandomFind, QueryLock, Evaluate, EvaluateFails, EvaluateDangling, FindLock,
     Erase, Rename, Close, Translate, Crash, Goto, GotoWith, Throw, Return, threadVars,
     LockInv, TypeOK
<1>4. req'[t].sid \in known \cup {Bogus}
  <2>1. CASE Call(t)
    BY <2>1, SessionManagerAssumption DEF Call, Requests, LockInv, TypeOK
  <2>2. CASE ~Call(t)
    <3>1. req'[t] = req[t] \/ req'[t] = NoRequest
      BY <2>2 DEF Exit, Step, OpenLock, ReopenLock, SessionOpen, ConfigureLock, ConfigureSession,
         QueryFind, RandomFind, QueryLock, Evaluate, EvaluateFails, EvaluateDangling, FindLock,
         Erase, Rename, Close, Translate, Crash, Goto, GotoWith, Throw, Return, threadVars,
         LockInv, TypeOK
    <3> QED
      BY <3>1 DEF NoRequest, AnnouncedInv, NamedAnnounced, NeedsAnnounced
  <2> QED
    BY <2>1, <2>2
<1>5. NeedsAnnounced(t)' => found'[t] \in known
  <2>1. CASE QueryFind(t) \/ RandomFind(t) \/ ConfigureLock(t)
    <3>1. \/ req[t].sid \in idToSession /\ found'[t] = req[t].sid
          \/ pc'[t] = "idle"
          \/ pc'[t] = pc[t] /\ req'[t] = req[t] /\ found'[t] = found[t]
      BY <2>1 DEF QueryFind, RandomFind, ConfigureLock, GotoWith, Return, Throw, Crash,
         threadVars, LockInv, TypeOK
    <3>2. req[t].sid \in idToSession => req[t].sid \in known
      BY DEF AnnouncedInv, NamedAnnounced, NeedsAnnounced, LockInv, TypeOK, Sessions, Bogus
    <3> QED
      BY <3>1, <3>2 DEF AnnouncedInv, NamedAnnounced, NeedsAnnounced
  <2>2. CASE QueryLock(t) \/ ConfigureSession(t)
    BY <2>2 DEF QueryLock, ConfigureSession, At, Goto, Crash, threadVars, AnnouncedInv,
       NamedAnnounced, NeedsAnnounced, LockInv, TypeOK
  <2>3. CASE /\ ~QueryFind(t) /\ ~RandomFind(t) /\ ~ConfigureLock(t)
             /\ ~QueryLock(t) /\ ~ConfigureSession(t)
    <3>1. \/ pc'[t] \notin {"qLock", "eval", "cfgLock", "build"}
          \/ pc'[t] = pc[t] /\ req'[t] = req[t] /\ found'[t] = found[t]
      BY SMTT(30), <2>3 DEF Call, Exit, Step, OpenLock, ReopenLock, SessionOpen, Evaluate, EvaluateFails,
         EvaluateDangling, FindLock, FoundPc, Erase, Rename, Close, Translate, Crash, Goto,
         GotoWith, Throw, Return, FirstPc, At, threadVars, LockInv, TypeOK
    <3> QED
      BY <3>1 DEF AnnouncedInv, NamedAnnounced, NeedsAnnounced
  <2> QED
    BY <2>1, <2>2, <2>3
<1>6. AnnouncedBuilt'
  BY <1>1, <1>2 DEF AnnouncedInv, AnnouncedBuilt, LockInv, TypeOK
<1>7. NamedAnnounced'
  BY <1>1, <1>3, <1>4, <1>5 DEF AnnouncedInv, NamedAnnounced, NeedsAnnounced
<1> QED
  BY <1>6, <1>7 DEF AnnouncedInv

\* No step of any thread breaks AnnouncedInv.
LEMMA NextAnnounced ==
  ASSUME Default \in Typed
  PROVE  LockInv /\ RegistryInv /\ AnnouncedInv /\ [Next]_vars => AnnouncedInv'
<1> SUFFICES ASSUME LockInv, RegistryInv, AnnouncedInv, [Next]_vars PROVE AnnouncedInv'
  OBVIOUS
<1>1. CASE Next
  <2>1. PICK t \in Threads : Call(t) \/ Exit(t) \/ Step(t)
    BY <1>1 DEF Next
  <2> QED
    BY <2>1, InsertAnnounced, BuildAnnounced, OtherAnnounced
<1>2. CASE UNCHANGED vars
  BY <1>2 DEF vars, AnnouncedInv, AnnouncedBuilt, NamedAnnounced, NeedsAnnounced
<1> QED
  BY <1>1, <1>2
-----------------------------------------------------------------------------
(* The theorems *)

\* No step breaks the inductive invariant, if the default algorithm has a type.
THEOREM InvariantHolds == Default \in Typed => (Spec => []IInv)
<1> SUFFICES ASSUME Default \in Typed PROVE Spec => []IInv
  OBVIOUS
<1>1. Init => IInv
  BY InitLocks, InitRegistry, InitAnnounced DEF IInv
<1>2. IInv /\ [Next]_vars => IInv'
  BY NextLocks, NextRegistry, NextAnnounced DEF IInv
<1> QED
  BY <1>1, <1>2, PTL DEF Spec

\* No variable ever leaves its type: the server issues no ID beyond the last and
\* unlocks no mutex that is not locked, in whatever order operations interleave
\* and fail.
THEOREM TypeCorrect == Spec => []TypeOK
<1>1. LockInv => TypeOK
  BY DEF LockInv
<1> QED
  BY <1>1, LocksAlwaysFit, PTL

\* At most one thread builds or evaluates the query tree of a session
\* (CSession::query), even of one that has been deleted meanwhile.
THEOREM TreesExclusive == Spec => []TreeExclusion
<1>1. LockInv => TreeExclusion
  <2> SUFFICES ASSUME LockInv, NEW s \in Sessions, NEW t \in Working(s), NEW u \in Working(s)
               PROVE  t = u
    BY DEF TreeExclusion
  <2>1. t \in Threads /\ u \in Threads
    BY DEF Working
  <2>2. Depth(ses[s], t) >= 1 /\ Depth(ses[s], u) >= 1
    BY <2>1 DEF LockInv, LocksCover, Covered, SessionDepth
  <2>3. Depth(ses[s], t) > 0 /\ Depth(ses[s], u) > 0
    BY <2>2, DepthIsNat DEF LockInv, TypeOK
  <2> QED
    BY <2>3, OwnerLemma
<1> QED
  BY <1>1, LocksAlwaysFit, PTL

\* A thread has locked what its place in an operation says, unless an exception
\* has passed it: every path of CSessionManager that throws nothing unlocks
\* what it has locked.
THEOREM LocksAreBalanced == Spec => []LocksBalanced
<1>1. LockInv => LocksBalanced
  BY DEF LockInv
<1> QED
  BY <1>1, LocksAlwaysFit, PTL

\* Threads of which none has lost a lock do not wait for each other.
LEMMA CirclesNeedLostLocks == LockInv => CircularWaitNeedsLostLock
<1> SUFFICES ASSUME LockInv, NEW S \in SUBSET Threads, Deadlocked(S), S \cap thrown = {}
             PROVE  FALSE
  BY DEF CircularWaitNeedsLostLock
<1>1. \A t \in S : Balanced(t) /\ \E u \in S : <<t, u>> \in Blocks
  BY DEF LockInv, LocksBalanced, Deadlocked
<1>2. \A t \in S : pc[t] \notin {"insert", "build", "eval", "erase"}
  <2>1. \A t, u : <<t, u>> \in Blocks =>
          pc[t] \in {"mgr", "cfgLock", "qLock", "renLock", "openLock", "closeLock"}
    BY DEF Blocks, WaitsForManager, WaitsForSession
  <2> QED
    BY <1>1, <2>1
<1>3. \A t, u \in S, s \in Sessions : ~(WaitsForSession(t, s) /\ ses[s].owner = u)
  <2> SUFFICES ASSUME NEW u \in S, NEW s \in Sessions, ses[s].owner = u PROVE FALSE
    OBVIOUS
  <2>1. u \in Threads /\ u # NoThread
    BY NoThreadAssumption
  <2>2. Depth(ses[s], u) # 0
    BY <2>1 DEF LockInv, LocksWellFormed, WellFormed, Depth
  <2>3. u \in Working(s)
    BY <1>1, <2>2 DEF Balanced, SessionDepth
  <2> QED
    BY <1>2, <2>3 DEF Working
<1>4. \A t, u \in S : <<t, u>> \in Blocks =>
        WaitsForManager(t) /\ mgr.owner = u
  BY <1>3 DEF Blocks
<1>5. PICK t \in S, u \in S : <<t, u>> \in Blocks
  BY <1>1 DEF Deadlocked
<1>6. mgr.owner = u /\ u # NoThread
  BY <1>4, <1>5, NoThreadAssumption
<1>7. ManagerDepth(u) # 0
  BY <1>1, <1>6 DEF LockInv, LocksWellFormed, WellFormed, Depth, Balanced
<1>8. pc[u] = "mgr"
  BY <1>1, <1>4 DEF WaitsForManager
<1> QED
  BY <1>7, <1>8 DEF ManagerDepth

\* Without an exception no set of threads, however large, deadlocks.
THEOREM CircularWaits == Spec => []CircularWaitNeedsLostLock
BY CirclesNeedLostLocks, LocksAlwaysFit, PTL

\* A session stays in the maps, and alive, while a thread that has found it under
\* the manager's lock works on it.
THEOREM SessionsStay == Spec => []FoundSessionsStay
<1>1. Init => LockInv /\ RegistryInv
  BY InitLocks, InitRegistry
<1>2. (LockInv /\ RegistryInv) /\ [Next]_vars => (LockInv /\ RegistryInv)'
  BY NextLocks, NextRegistry
<1>3. LockInv /\ RegistryInv => FoundSessionsStay
  BY DEF RegistryInv, RegistryFits, HeldFits, FoundSessionsStay
<1> QED
  BY <1>1, <1>2, <1>3, PTL DEF Spec

\* If the default algorithm of the configuration has a type, no query meets a
\* session without a container of query trees.
THEOREM QueriesMeetTrees == Default \in Typed => (Spec => []QueriedSessionsAreBuilt)
<1> SUFFICES ASSUME Default \in Typed PROVE Spec => []QueriedSessionsAreBuilt
  OBVIOUS
<1>1. IInv => QueriedSessionsAreBuilt
  BY DEF IInv, AnnouncedInv, AnnouncedBuilt, NamedAnnounced, NeedsAnnounced, QueriedSessionsAreBuilt
<1>2. Spec => []IInv
  BY InvariantHolds
<1> QED
  BY <1>1, <1>2, PTL
-----------------------------------------------------------------------------
(* Calls and the places they have reached *)

\* The other threads stay where they are.
OthersStay(t) ==
  \A u \in Threads \ {t} : pc'[u] = pc[u] /\ req'[u] = req[u] /\ found'[u] = found[u]

\* A step of t need only see to it that t's own call fits t's new place, and that
\* it announces no session another thread has inserted.
LEMMA CallsKept ==
  ASSUME CallsFit, NEW t \in Threads, OthersStay(t), CallFits(t)', known \subseteq known',
         \A u \in Threads \ {t} : Inserting(u) => known' = known
  PROVE  CallsFit'
<1>1. \A u \in Threads \ {t} : CallFits(u)'
  <2> SUFFICES ASSUME NEW u \in Threads \ {t} PROVE CallFits(u)'
    OBVIOUS
  <2>1. pc'[u] = pc[u] /\ req'[u] = req[u] /\ found'[u] = found[u] /\ CallFits(u)
    BY DEF OthersStay, CallsFit
  <2>2. Inserting(u)' = Inserting(u)
    BY <2>1 DEF Inserting
  <2> QED
    BY <2>1, <2>2 DEF CallFits
<1> QED
  BY <1>1 DEF CallsFit

\* Every step of t leaves the other threads where they are.
LEMMA OneMoves ==
  ASSUME LockInv, NEW t \in Threads, Call(t) \/ Exit(t) \/ Step(t)
  PROVE  OthersStay(t)
BY DEF OthersStay, Call, Exit, Step, OpenLock, Insert, ReopenLock, SessionOpen, ConfigureLock,
   ConfigureSession, Build, BuildFails, QueryFind, RandomFind, QueryLock, Evaluate, EvaluateFails,
   EvaluateDangling, FindLock, Erase, Rename, Close, Translate, Crash, Goto, GotoWith, Throw,
   Return, threadVars, LockInv, TypeOK

\* A thread that returns is idle and has no request.
LEMMA ReturnFits ==
  ASSUME LockInv, NEW t \in Threads, NEW a, Return(t, a)
  PROVE  CallFits(t)'
BY DEF Return, CallFits, NoRequest, FoundPcs, HeldPcs, LockInv, TypeOK

\* The steps that end an operation.
LEMMA LastStepFits ==
  ASSUME LockInv, CallsFit, NEW t \in Threads,
         \/ SessionOpen(t) \/ Build(t) \/ BuildFails(t) \/ Evaluate(t) \/ EvaluateFails(t)
         \/ EvaluateDangling(t) \/ Erase(t) \/ Rename(t) \/ Close(t) \/ Translate(t)
  PROVE  CallFits(t)'
<1>1. CASE \E a : Return(t, a)
  BY <1>1, ReturnFits
<1>2. CASE Crash
  BY <1>2 DEF Crash, CallsFit, CallFits, Inserting, threadVars
<1> QED
  BY <1>1, <1>2 DEF SessionOpen, Build, BuildFails, Evaluate, EvaluateFails, EvaluateDangling,
     Erase, Rename, Close, Translate, Throw

\* A search ends at the session the client has named.
LEMMA SearchFits ==
  ASSUME LockInv, CallsFit, NEW t \in Threads,
         ReopenLock(t) \/ ConfigureLock(t) \/ QueryFind(t) \/ RandomFind(t) \/ FindLock(t)
  PROVE  CallFits(t)'
<1>1. CASE \E a : Return(t, a)
  BY <1>1, ReturnFits
<1>2. CASE UNCHANGED <<known, pc, req, found>>
  BY <1>2 DEF CallsFit, CallFits, Inserting
<1>3. CASE \E p \in FoundPcs : GotoWith(t, p, req[t].sid) /\ known' = known /\ req[t].op \in OpsAt[p]
                              /\ (p \in {"cfgLock", "build"} => req[t].op = "configure")
  BY <1>3 DEF GotoWith, CallsFit, CallFits, Inserting, FoundPcs, HeldPcs, LockInv, TypeOK
<1>4. CASE ReopenLock(t)
  <2>1. GotoWith(t, "openLock", req[t].sid) /\ known' = known /\ req[t].op = "reopen"
    BY <1>4 DEF ReopenLock
  <2> QED
    BY <2>1, <1>3 DEF OpsAt, FoundPcs, HeldPcs
<1>5. CASE ConfigureLock(t)
  BY <1>1, <1>3, <1>5 DEF ConfigureLock, Throw, OpsAt, FoundPcs, HeldPcs
<1>6. CASE QueryFind(t)
  <2>1. pc[t] = "find" /\ req[t].op = "query"
    BY <1>6 DEF QueryFind, At, CallsFit, CallFits, OpsAt
  <2> QED
    BY <1>1, <1>2, <1>3, <1>6, <2>1 DEF QueryFind, Crash, threadVars, OpsAt, FoundPcs, HeldPcs
<1>7. CASE RandomFind(t)
  BY <1>1, <1>3, <1>7 DEF RandomFind, OpsAt, FoundPcs, HeldPcs
<1>8. CASE FindLock(t)
  <2>1. req[t].op \in {"delete", "rename", "close"} /\ known' = known
    BY <1>8 DEF FindLock
  <2>2. /\ FoundPc[req[t].op] \in FoundPcs /\ FoundPc[req[t].op] \notin {"cfgLock", "build"}
        /\ req[t].op \in OpsAt[FoundPc[req[t].op]]
    BY <2>1 DEF FoundPc, OpsAt, FoundPcs, HeldPcs
  <2> QED
    BY <1>1, <1>2, <1>3, <1>8, <2>1, <2>2 DEF FindLock
<1> QED
  BY <1>4, <1>5, <1>6, <1>7, <1>8

\* The steps in between.
LEMMA MiddleStepFits ==
  ASSUME LockInv, CallsFit, KnownFit, NEW t \in Threads,
         \/ Call(t) \/ Exit(t) \/ OpenLock(t) \/ Insert(t) \/ ConfigureSession(t) \/ QueryLock(t)
  PROVE  CallFits(t)'
<1>0. CallFits(t) /\ t \in DOMAIN pc /\ t \in DOMAIN req /\ t \in DOMAIN found
  BY DEF CallsFit, LockInv, TypeOK
<1>1. CASE Call(t)
  <2>1. PICK r \in Requests : /\ req' = [req EXCEPT ![t] = r]
                              /\ pc' = [pc EXCEPT ![t] = FirstPc(r.op)]
    BY <1>1 DEF Call
  <2>2. r.sid \in known \cup {Bogus} /\ r.op \in AllOps
    BY SessionManagerAssumption DEF Requests, AllOps
  <2> QED
    BY <1>0, <1>1, <2>1, <2>2
       DEF Call, CallFits, FirstPc, OpsAt, FoundPcs, HeldPcs, AllOps
<1>2. CASE Exit(t)
  BY <1>0, <1>2 DEF Exit, At, CallFits, FoundPcs, HeldPcs
<1>3. CASE OpenLock(t)
  BY <1>0, <1>3 DEF OpenLock, Goto, CallFits, OpsAt, FoundPcs, HeldPcs
<1>4. CASE Insert(t)
  <2>1. /\ pc[t] = "insert" /\ pc'[t] = "cfgLock" /\ found'[t] = lastId + 1
        /\ req' = req /\ known' = known
    BY <1>0, <1>4 DEF Insert, At, GotoWith
  <2>2. req[t].op \in {"open", "reopen"}
    BY <1>0, <2>1 DEF CallFits, OpsAt
  <2>3. lastId + 1 \notin known
    BY SessionManagerAssumption DEF KnownFit, LockInv, TypeOK, Sessions
  <2> QED
    BY <1>0, <2>1, <2>2, <2>3 DEF CallFits, OpsAt, Inserting
<1>5. CASE ConfigureSession(t)
  <2>1. /\ pc[t] = "cfgLock" /\ pc'[t] = "build" /\ found' = found
        /\ req' = req /\ known' = known
    BY <1>0, <1>5 DEF ConfigureSession, At, Goto
  <2> QED
    BY <1>0, <2>1 DEF CallFits, OpsAt, Inserting, FoundPcs, HeldPcs
<1>6. CASE QueryLock(t)
  <2>1. /\ pc[t] = "qLock" /\ pc'[t] \in {"qLock", "eval"} /\ found' = found
        /\ req' = req /\ known' = known
    BY <1>0, <1>6 DEF QueryLock, At, Goto, Crash, threadVars
  <2> QED
    BY <1>0, <2>1 DEF CallFits, OpsAt, Inserting, FoundPcs, HeldPcs
<1> QED
  BY <1>1, <1>2, <1>3, <1>4, <1>5, <1>6

\* Only a thread that has built a session announces one, and no other thread is
\* at a session it has inserted then.
LEMMA NextCalls ==
  ASSUME LockInv, CallsFit, KnownFit, NEW t \in Threads, Call(t) \/ Exit(t) \/ Step(t)
  PROVE  CallsFit'
<1>1. CallFits(t)'
  BY LastStepFits, SearchFits, MiddleStepFits DEF Step
<1>2. OthersStay(t)
  BY OneMoves
<1>3. CASE Build(t)
  <2>1. pc[t] = "build" /\ known \subseteq known'
    BY <1>3 DEF Build, At
  <2>2. \A u \in Threads \ {t} : ~Inserting(u)
    BY <2>1, HeldExclusion DEF Inserting, HeldPcs
  <2> QED
    BY <1>1, <1>2, <2>1, <2>2, CallsKept
<1>4. CASE ~Build(t)
  <2>1. known' = known
    BY <1>4 DEF Call, Exit, Step, OpenLock, Insert, ReopenLock, SessionOpen, ConfigureLock,
       ConfigureSession, BuildFails, QueryFind, RandomFind, QueryLock, Evaluate, EvaluateFails,
       EvaluateDangling, FindLock, Erase, Rename, Close, Translate, Crash
  <2> QED
    BY <1>1, <1>2, <2>1, CallsKept
<1> QED
  BY <1>3, <1>4
-----------------------------------------------------------------------------
(* Sessions and their trees *)

\* The steps that do not touch a session.
LEMMA ObjectsKept ==
  ASSUME NEW t \in Threads, Call(t) \/ Exit(t) \/ Step(t), ~Insert(t), ~SessionOpen(t), ~Build(t),
         ~BuildFails(t), ~Erase(t), ~Close(t)
  PROVE  obj' = obj /\ lastId' = lastId /\ idToSession' = idToSession /\ known' = known
BY DEF Call, Exit, Step, OpenLock, ReopenLock, ConfigureLock, ConfigureSession, QueryFind,
   RandomFind, QueryLock, Evaluate, EvaluateFails, EvaluateDangling, FindLock, Rename, Translate,
   Crash, regVars

\* The steps that open, close or destroy a session leave its tree alone.
LEMMA TreesKept ==
  ASSUME LockInv, NEW t \in Threads, SessionOpen(t) \/ Close(t) \/ Erase(t)
  PROVE  \A s \in Sessions : /\ obj'[s].root = obj[s].root
                             /\ obj'[s].first = obj[s].first
                             /\ obj'[s].nodes = obj[s].nodes
<1>1. \A s \in Sessions : obj[s] \in SessionType
  BY DEF LockInv, TypeOK
<1>2. CASE SessionOpen(t) \/ Close(t)
  <2>1. obj' = obj \/ \E b \in BOOLEAN : obj' = [obj EXCEPT ![found[t]].open = b]
    BY <1>2 DEF SessionOpen, Close
  <2>2. CASE obj' = obj
    BY <2>2
  <2>3. CASE \E b \in BOOLEAN : obj' = [obj EXCEPT ![found[t]].open = b]
    <3>1. PICK b \in BOOLEAN : obj' = [obj EXCEPT ![found[t]].open = b]
      BY <2>3
    <3> QED
      BY <1>1, <3>1 DEF SessionType, LockInv, TypeOK
  <2> QED
    BY <2>1, <2>2, <2>3
<1>3. CASE Erase(t)
  <2>1. PICK b : obj' = [obj EXCEPT ![found[t]].state = b]
    BY <1>3 DEF Erase
  <2> QED
    BY <1>1, <2>1 DEF SessionType, LockInv, TypeOK
<1> QED
  BY <1>2, <1>3

\* What the configuration of algorithm a makes of a session.
LEMMA Configured ==
  ASSUME NEW o \in SessionType, NEW a \in Algorithms
  PROVE  /\ Built(o, a).root = a /\ Built(o, a).nodes = Nodes[a] /\ Built(o, a).first
         /\ Dismantled(o, a).root = NoAlgorithm
         /\ Built(o, a).state = o.state /\ Dismantled(o, a).state = o.state
BY DEF Built, Dismantled, SessionType

LEMMA RequestedType ==
  ASSUME LockInv, NEW t \in Threads PROVE Requested(t) \in Algorithms
BY SessionManagerAssumption DEF Requested, LockInv, RequestsFit

\* A step of setActiveAlgorithm changes one session, which is in the map.
LEMMA BuildChanges ==
  ASSUME LockInv, RegistryInv, NEW t \in Threads, Build(t) \/ BuildFails(t)
  PROVE  /\ found[t] \in idToSession /\ found[t] \in Sessions /\ found[t] <= lastId
         /\ lastId' = lastId /\ idToSession' = idToSession
         /\ obj[found[t]] \in SessionType
         /\ \A s \in Sessions \ {found[t]} : obj'[s] = obj[s]
         /\ \/ /\ Build(t) /\ Requested(t) \in Typed \cap Buildable
               /\ obj'[found[t]] = Built(obj[found[t]], Requested(t))
            \/ /\ Build(t) /\ Requested(t) \notin Typed
               /\ obj'[found[t]] = Dismantled(obj[found[t]], Requested(t))
            \/ /\ BuildFails(t) /\ Requested(t) \in Typed \ Buildable
               /\ obj'[found[t]] = Dismantled(obj[found[t]], Requested(t))
<1>1. pc[t] = "build" /\ lastId' = lastId /\ idToSession' = idToSession
  BY DEF Build, BuildFails, At, regVars
<1>2. found[t] \in idToSession
  BY <1>1 DEF RegistryInv, HeldFits, HeldPcs
<1>3. found[t] \in Sessions /\ found[t] <= lastId
  BY <1>2 DEF RegistryInv, RegistryFits, LockInv, TypeOK
<1>4. obj \in [Sessions -> SessionType]
  BY DEF LockInv, TypeOK
<1>5. CASE Build(t)
  BY <1>1, <1>2, <1>3, <1>4, <1>5 DEF Build
<1>6. CASE BuildFails(t)
  BY <1>1, <1>2, <1>3, <1>4, <1>6 DEF BuildFails
<1> QED
  BY <1>5, <1>6

\* A session that leaves the map is destroyed: it is in the list of its user.
LEMMA EraseDestroys ==
  ASSUME LockInv, RegistryInv, NEW t \in Threads, Erase(t)
  PROVE  /\ found[t] \in Sessions /\ obj'[found[t]].state = "destroyed"
         /\ \A s \in Sessions \ {found[t]} : obj'[s] = obj[s]
         /\ idToSession' = idToSession \ {found[t]}
         /\ lastId' = lastId /\ known' = known
<1>1. pc[t] = "erase" /\ obj \in [Sessions -> SessionType]
  BY DEF Erase, At, LockInv, TypeOK
<1>2. found[t] \in idToSession /\ found[t] \in Sessions
  BY <1>1 DEF RegistryInv, HeldFits, HeldPcs, LockInv, TypeOK
<1>3. found[t] \in userToSessions[obj[found[t]].user]
  BY <1>2 DEF RegistryInv, RegistryFits
<1>4. obj' = [obj EXCEPT ![found[t]].state = "destroyed"]
  BY <1>3 DEF Erase
<1> QED
  BY <1>1, <1>2, <1>4 DEF Erase, SessionType

\* No step of t leaves a client with an ID of nothing, or takes a session out of
\* the map and not out of life.
LEMMA NextKnown ==
  ASSUME LockInv, RegistryInv, KnownFit, NEW t \in Threads, Call(t) \/ Exit(t) \/ Step(t)
  PROVE  KnownFit'
<1>0. known \subseteq Sessions /\ obj \in [Sessions -> SessionType] /\ lastId \in Nat
  BY SessionManagerAssumption DEF LockInv, TypeOK
<1>1. CASE Insert(t)
  <2>1. /\ known' = known /\ lastId' = lastId + 1 /\ idToSession \subseteq idToSession'
        /\ \A s \in Sessions \ {lastId + 1} : obj'[s] = obj[s]
    BY <1>0, <1>1 DEF Insert
  <2>2. \A s \in known : s \in Nat /\ s # lastId + 1
    BY <1>0 DEF KnownFit, Sessions
  <2>3. \A s \in known : s <= lastId + 1
    BY <1>0, <2>2 DEF KnownFit
  <2> QED
    BY <1>0, <2>1, <2>2, <2>3 DEF KnownFit
<1>2. CASE Build(t) \/ BuildFails(t)
  <2>1. known' \subseteq known \cup {found[t]}
    BY <1>2 DEF Build, BuildFails
  <2>2. \A s \in Sessions : obj'[s].state = obj[s].state
    BY <1>0, <1>2, BuildChanges, Configured, RequestedType
  <2> QED
    BY <1>0, <1>2, <2>1, <2>2, BuildChanges DEF KnownFit
<1>3. CASE Erase(t)
  BY <1>0, <1>3, EraseDestroys DEF KnownFit
<1>4. CASE SessionOpen(t) \/ Close(t)
  <2>1. lastId' = lastId /\ idToSession' = idToSession /\ known' = known
    BY <1>4 DEF SessionOpen, Close, regVars
  <2>2. \A s \in Sessions : \/ obj'[s] = obj[s]
                           \/ \E a : obj'[s] = [obj[s] EXCEPT !.open = a]
    BY <1>0, <1>4 DEF SessionOpen, Close
  <2>3. \A s \in Sessions : obj'[s].state = obj[s].state
    BY <1>0, <2>2 DEF SessionType
  <2> QED
    BY <1>0, <2>1, <2>3 DEF KnownFit
<1>5. CASE ~Insert(t) /\ ~SessionOpen(t) /\ ~Build(t) /\ ~BuildFails(t) /\ ~Erase(t) /\ ~Close(t)
  BY <1>5, ObjectsKept DEF KnownFit
<1> QED
  BY <1>1, <1>2, <1>3, <1>4, <1>5

\* A tree is replaced together with its container.
LEMMA NextTrees ==
  ASSUME LockInv, RegistryInv, TreesFit, NEW t \in Threads, Call(t) \/ Exit(t) \/ Step(t)
  PROVE  TreesFit'
<1>0. obj \in [Sessions -> SessionType]
  BY DEF LockInv, TypeOK
<1>1. CASE Insert(t)
  <2>1. /\ obj' = [obj EXCEPT ![lastId + 1] = [NewObject(req[t].arg) EXCEPT !.open = TRUE]]
        /\ [NewObject(req[t].arg) EXCEPT !.open = TRUE].root = NoAlgorithm
    BY <1>1 DEF Insert, NewObject
  <2>2. \A s \in Sessions : obj'[s] = obj[s] \/ obj'[s].root = NoAlgorithm
    BY <1>0, <2>1
  <2> QED
    BY <2>2 DEF TreesFit
<1>2. CASE Build(t) \/ BuildFails(t)
  <2>1. Requested(t) \in Algorithms
    BY RequestedType
  <2>2. \A s \in Sessions : \/ obj'[s] = obj[s] \/ obj'[s].root = NoAlgorithm
                           \/ /\ Requested(t) \in Typed \cap Buildable
                              /\ obj'[s].root = Requested(t) /\ obj'[s].first
                              /\ obj'[s].nodes = Nodes[Requested(t)]
    BY <1>2, <2>1, BuildChanges, Configured
  <2> QED
    BY <2>2 DEF TreesFit
<1>3. CASE SessionOpen(t) \/ Close(t) \/ Erase(t)
  BY <1>3, TreesKept DEF TreesFit
<1>4. CASE ~Insert(t) /\ ~SessionOpen(t) /\ ~Build(t) /\ ~BuildFails(t) /\ ~Erase(t) /\ ~Close(t)
  BY <1>4, ObjectsKept DEF TreesFit
<1> QED
  BY <1>1, <1>2, <1>3, <1>4

\* A session manager starts without calls, announced sessions and trees.
LEMMA InitService == Init => ServiceInv
<1> SUFFICES ASSUME Init PROVE ServiceInv
  OBVIOUS
<1>1. CallsFit
  BY DEF Init, CallsFit, CallFits, NoRequest, FoundPcs, HeldPcs
<1>2. KnownFit
  BY DEF Init, KnownFit
<1>3. TreesFit
  <2>1. \A u \in Users : [NewObject(u) EXCEPT !.state = "none"].root = NoAlgorithm
    BY DEF NewObject
  <2>2. \A s \in Sessions : \E u \in Users : obj[s] = [NewObject(u) EXCEPT !.state = "none"]
    BY DEF Init
  <2>3. \A s \in Sessions : obj[s].root = NoAlgorithm
    BY <2>1, <2>2
  <2> QED
    BY <2>3 DEF TreesFit
<1> QED
  BY <1>1, <1>2, <1>3 DEF ServiceInv

LEMMA NextService == LockInv /\ RegistryInv /\ ServiceInv /\ [Next]_vars => ServiceInv'
<1> SUFFICES ASSUME LockInv, RegistryInv, ServiceInv, [Next]_vars PROVE ServiceInv'
  OBVIOUS
<1>1. CASE Next
  <2>1. PICK t \in Threads : Call(t) \/ Exit(t) \/ Step(t)
    BY <1>1 DEF Next
  <2> QED
    BY <2>1, NextCalls, NextKnown, NextTrees DEF ServiceInv
<1>2. CASE UNCHANGED vars
  BY <1>2 DEF vars, ServiceInv, CallsFit, CallFits, Inserting, KnownFit, TreesFit
<1> QED
  BY <1>1, <1>2
-----------------------------------------------------------------------------
(* What the table says of a session *)

LEMMA Standing ==
  ASSUME LockInv, NEW s \in Sessions \cup {Bogus}
  PROVE  /\ Service!Registered(s) <=> s \in known \cap idToSession
         /\ Service!Gone(s) <=> s \in known \ idToSession
         /\ s \in Sessions => (Table[s] # "none" <=> s \in known)
         /\ s \in known \cap idToSession =>
              Table[s] = IF obj[s].root = NoAlgorithm THEN "broken" ELSE obj[s].root
<1>1. known \subseteq Sessions /\ Bogus \notin Sessions
  BY DEF LockInv, TypeOK, Bogus, Sessions
<1>2. ASSUME NEW r \in Sessions PROVE obj[r].root \in Algorithms \cup {NoAlgorithm}
  <2>1. obj[r] \in SessionType
    BY DEF LockInv, TypeOK
  <2> QED
    BY <2>1 DEF SessionType
<1>3. \A r \in Sessions : Table[r] = ServiceOf(r)
  BY DEF Table
<1> QED
  BY <1>1, <1>2, <1>3, StatusAssumption DEF ServiceOf, Service!Registered, Service!Gone

\* A step that announces no session, takes none out of the map and leaves the
\* trees alone leaves the table alone.
LEMMA TableKept ==
  ASSUME known' = known, \A s \in known : s \in idToSession' <=> s \in idToSession,
         \A s \in Sessions : obj'[s].root = obj[s].root
  PROVE  Table' = Table
<1>1. \A s \in Sessions : ServiceOf(s)' = ServiceOf(s)
  BY DEF ServiceOf
<1> QED
  BY <1>1 DEF Table

\* The place of a thread says that it has a request.
LEMMA Requesting ==
  ASSUME LockInv, CallsFit, NEW t \in Threads, pc[t] \notin {"idle", "dead"}
  PROVE  req[t] # NoRequest /\ req[t].op \in OpsAt[pc[t]]
<1>1. req[t].op \in OpsAt[pc[t]]
  BY DEF CallsFit, CallFits
<1>2. \A p \in PcType \ {"idle", "dead"} : "none" \notin OpsAt[p]
  BY DEF PcType, OpsAt, AllOps
<1>3. pc[t] \in PcType
  BY DEF LockInv, TypeOK
<1> QED
  BY <1>1, <1>2, <1>3 DEF NoRequest

\* What a thread answers is what the table answers.
LEMMA Answers ==
  ASSUME LockInv, CallsFit, NEW t \in Threads, NEW a, Return(t, a), up' = up,
         pc[t] \notin {"idle", "dead"}
  PROVE  Service!Answer(t, a)
BY Requesting DEF Return, Service!Answer, Service!NoCall, NoRequest
-----------------------------------------------------------------------------
(* What each operation is to the table *)

\* The session a thread works on, unless it has just inserted it, is the one the
\* client has named.
LEMMA FoundIsNamed ==
  ASSUME LockInv, CallsFit, NEW t \in Threads, pc[t] \in FoundPcs, ~Inserting(t)
  PROVE  found[t] = req[t].sid /\ found[t] \in Sessions /\ found[t] \in known
<1>1. found[t] = req[t].sid /\ req[t].sid \in known \cup {Bogus}
  BY DEF CallsFit, CallFits
<1>2. found[t] \in Sessions
  BY DEF LockInv, PlacesFit
<1>3. Bogus \notin Sessions
  BY DEF Bogus, Sessions
<1> QED
  BY <1>1, <1>2, <1>3

\* A request names a session a client was told of.
LEMMA CallRequests ==
  ASSUME LockInv, CallsFit, NEW t \in Threads, Call(t) PROVE Service!Request(t)
<1>1. PICK r \in Requests : req' = [req EXCEPT ![t] = r]
  BY DEF Call
<1>2. /\ pc[t] = "idle" /\ ans' = [ans EXCEPT ![t] = <<"none">>] /\ UNCHANGED <<up, obj, known>>
      /\ idToSession' = idToSession
  BY DEF Call, At, regVars
<1>3. req[t] = NoRequest
  BY <1>2 DEF CallsFit, CallFits
<1>4. Table' = Table
  BY <1>2, TableKept
<1>5. known \subseteq Service!Told
  BY Standing DEF Service!Told, LockInv, TypeOK
<1>6. \E op \in AllOps, sid \in Service!Told \cup {Bogus}, arg \in Users \cup Algorithms \cup Sought :
        r = [op |-> op, sid |-> sid, arg |-> arg]
  BY <1>5, SessionManagerAssumption DEF Requests, AllOps
<1> QED
  BY <1>1, <1>2, <1>3, <1>4, <1>6 DEF Service!Request, Service!NoCall, NoRequest, AllOps

\* The search of a request the manager refuses has found nothing registered.
LEMMA Unregistered ==
  ASSUME LockInv, CallsFit, NEW t \in Threads, req[t].sid \notin idToSession
  PROVE  /\ ~Service!Registered(req[t].sid)
         /\ req[t].sid # Bogus => Service!Gone(req[t].sid)
<1>1. req[t].sid \in known \cup {Bogus} /\ known \subseteq Sessions
  BY DEF CallsFit, CallFits, LockInv, TypeOK
<1> QED
  BY <1>1, Standing

\* setAlgorithm refuses a session that is not in the map.
LEMMA ConfigureRefused ==
  ASSUME LockInv, CallsFit, NEW t \in Threads, ConfigureLock(t), req[t].sid \notin idToSession
  PROVE  Service!Refuse(t)
<1>1. /\ pc[t] = "mgr" /\ req[t].op = "configure" /\ Return(t, <<"error">>)
      /\ UNCHANGED <<up, obj, known, idToSession>>
  BY DEF ConfigureLock, At, Throw, regVars
<1>2. Table' = Table
  BY <1>1, TableKept
<1>3. Service!Answer(t, <<"error">>)
  BY <1>1, Answers
<1> QED
  BY <1>1, <1>2, <1>3, Unregistered DEF Service!Refuse

\* A thread in the part of an operation that changes the map is a call that opens or
\* deletes a session.
LEMMA WritersOverlap ==
  ASSUME LockInv, CallsFit, NEW t \in Threads, MapWriters # {}, t \notin MapWriters
  PROVE  Service!Overlapped(t)
<1>1. PICK u \in Threads : pc[u] \in {"insert", "erase"}
  BY DEF MapWriters
<1>2. req[u].op \in {"open", "reopen", "delete"}
  BY <1>1, Requesting DEF OpsAt
<1> QED
  BY <1>1, <1>2 DEF Service!Overlapped, MapWriters

\* A query that finds no session fails, one that runs into a change of the map may.
LEMMA QueryFindFails ==
  ASSUME LockInv, CallsFit, NEW t \in Threads, QueryFind(t)
  PROVE  \/ UNCHANGED Service!sVars
         \/ Service!QueryFails(t) \/ Service!Down(t)
<1>1. pc[t] = "find" /\ t \notin MapWriters
  BY DEF QueryFind, At, MapWriters
<1>2. req[t].op = "query"
  BY <1>1, Requesting DEF OpsAt
<1>3. obj' = obj /\ known' = known /\ idToSession' = idToSession
  BY DEF QueryFind, Crash, regVars
<1>4. Table' = Table
  BY <1>3, TableKept
<1>5. CASE GotoWith(t, "qLock", req[t].sid) /\ up' = up
  BY <1>4, <1>5 DEF GotoWith, Service!sVars
<1>6. CASE /\ req[t].sid \notin idToSession \/ MapWriters # {}
           /\ Return(t, <<"error">>) /\ up' = up
  <2>1. Service!Answer(t, <<"error">>)
    BY <1>1, <1>6, Answers
  <2>2. ~Service!Registered(req[t].sid) \/ Service!Overlapped(t)
    BY <1>1, <1>6, Unregistered, WritersOverlap
  <2> QED
    BY <1>2, <1>4, <2>1, <2>2 DEF Service!QueryFails
<1>7. CASE MapWriters # {} /\ Crash
  BY <1>1, <1>2, <1>4, <1>7, WritersOverlap DEF Service!Down, Crash, threadVars
<1> QED
  BY <1>5, <1>6, <1>7 DEF QueryFind

\* getRandomImages fails for a session that is not in the map.
LEMMA RandomFindFails ==
  ASSUME LockInv, CallsFit, NEW t \in Threads, RandomFind(t)
  PROVE  UNCHANGED Service!sVars \/ Service!QueryFails(t)
<1>1. pc[t] = "mgr" /\ req[t].op = "random" /\ UNCHANGED <<up, obj, known, idToSession>>
  BY DEF RandomFind, At, regVars
<1>2. Table' = Table
  BY <1>1, TableKept
<1>3. CASE GotoWith(t, "qLock", req[t].sid)
  BY <1>1, <1>2, <1>3 DEF GotoWith, Service!sVars
<1>4. CASE req[t].sid \notin idToSession /\ Return(t, <<"error">>)
  BY <1>1, <1>2, <1>4, Answers, Unregistered DEF Service!QueryFails
<1> QED
  BY <1>3, <1>4 DEF RandomFind

\* A session that was destroyed is gone from the table.
LEMMA DestroyedIsGone ==
  ASSUME LockInv, RegistryInv, NEW s \in known, obj[s].state = "destroyed"
  PROVE  Service!Gone(s)
<1>1. s \notin idToSession /\ s \in Sessions
  BY DEF RegistryInv, RegistryFits, LockInv, TypeOK
<1> QED
  BY <1>1, Standing

\* The thread that waits for a session works on the one the client has named.
LEMMA QueryPlace ==
  ASSUME LockInv, CallsFit, NEW t \in Threads, pc[t] \in {"qLock", "eval"}
  PROVE  /\ req[t].op \in {"query", "random"}
         /\ found[t] = req[t].sid /\ found[t] \in Sessions /\ found[t] \in known
<1>1. req[t].op \in {"query", "random"}
  BY Requesting DEF OpsAt
<1> QED
  BY <1>1, FoundIsNamed DEF Inserting, FoundPcs

\* A query locks its session, unless that has been destroyed.
LEMMA QueryLocks ==
  ASSUME LockInv, RegistryInv, CallsFit, NEW t \in Threads, QueryLock(t)
  PROVE  UNCHANGED Service!sVars \/ Service!Down(t)
<1>1. pc[t] = "qLock" /\ obj' = obj /\ known' = known /\ idToSession' = idToSession
  BY DEF QueryLock, At, Crash, regVars
<1>2. Table' = Table
  BY <1>1, TableKept
<1>3. CASE Goto(t, "eval") /\ up' = up
  BY <1>2, <1>3 DEF Goto, Service!sVars
<1>4. CASE obj[found[t]].state = "destroyed" /\ Crash
  <2>1. Service!Gone(req[t].sid) /\ req[t].op \in {"query", "random"}
    BY <1>1, <1>4, QueryPlace, DestroyedIsGone
  <2> QED
    BY <1>2, <1>4, <2>1 DEF Service!Down, Service!Unprotected, Crash, threadVars
<1> QED
  BY <1>3, <1>4 DEF QueryLock

\* The algorithm of a session that is queried and has not been destroyed.
LEMMA QueriedSession ==
  ASSUME LockInv, RegistryInv, ServiceInv, NEW t \in Threads, pc[t] = "eval",
         obj[found[t]].state # "destroyed"
  PROVE  /\ Table[req[t].sid] = IF obj[found[t]].root = NoAlgorithm
                                   THEN "broken" ELSE obj[found[t]].root
         /\ obj[found[t]].root # NoAlgorithm =>
              /\ obj[found[t]].root \in Algorithms
              /\ obj[found[t]].first /\ obj[found[t]].nodes = Nodes[obj[found[t]].root]
<1>1. found[t] = req[t].sid /\ found[t] \in Sessions /\ found[t] \in known
  BY QueryPlace DEF ServiceInv
<1>2. found[t] \in idToSession
  BY <1>1 DEF ServiceInv, KnownFit
<1>3. obj[found[t]].root # NoAlgorithm =>
        /\ obj[found[t]].root \in Algorithms
        /\ obj[found[t]].first /\ obj[found[t]].nodes = Nodes[obj[found[t]].root]
  BY <1>1, SessionManagerAssumption DEF ServiceInv, TreesFit
<1> QED
  BY <1>1, <1>2, <1>3, Standing

\* The tree that answers is that of the algorithm the session is configured with.
LEMMA EvaluateQueries ==
  ASSUME LockInv, RegistryInv, ServiceInv, NEW t \in Threads, Evaluate(t)
  PROVE  Service!Query(t)
<1> DEFINE o == obj[found[t]]
<1>1. /\ pc[t] = "eval" /\ ~Dangling(o, req[t].arg) /\ o.first /\ req[t].arg \in o.nodes
      /\ Return(t, <<"result", o.root>>) /\ UNCHANGED <<up, obj, known, idToSession>>
  BY DEF Evaluate, At, regVars
<1>2. o.state # "destroyed" /\ o.root # NoAlgorithm
  BY <1>1 DEF Dangling
<1>3. /\ Table[req[t].sid] = o.root /\ o.root \in Algorithms
      /\ req[t].arg \in Nodes[o.root] /\ req[t].sid \in Sessions
      /\ req[t].op \in {"query", "random"}
  BY <1>1, <1>2, QueriedSession, QueryPlace DEF ServiceInv
<1>4. Service!Answer(t, <<"result", o.root>>)
  BY <1>1, Answers DEF ServiceInv
<1>5. Table' = Table
  BY <1>1, TableKept
<1> QED
  BY <1>3, <1>4, <1>5 DEF Service!Query

\* No tree, or none that the query names.
LEMMA EvaluateFailsQuery ==
  ASSUME LockInv, RegistryInv, ServiceInv, NEW t \in Threads, EvaluateFails(t)
  PROVE  Service!QueryFails(t)
<1> DEFINE o == obj[found[t]]
<1>1. /\ pc[t] = "eval" /\ o.state = "live" /\ req[t].arg \notin o.nodes
      /\ Return(t, <<"error">>) /\ UNCHANGED <<up, obj, known, idToSession>>
  BY DEF EvaluateFails, At, Throw, regVars
<1>2. /\ req[t].op \in {"query", "random"}
      /\ Table[req[t].sid] = "broken" \/ req[t].arg \notin Nodes[Table[req[t].sid]]
  BY <1>1, QueriedSession, QueryPlace DEF ServiceInv
<1>3. Service!Answer(t, <<"error">>)
  BY <1>1, Answers DEF ServiceInv
<1>4. Table' = Table
  BY <1>1, TableKept
<1> QED
  BY <1>2, <1>3, <1>4 DEF Service!QueryFails

\* Freed memory is read of a session that is gone or has no tree, and only there a
\* session has no container.
LEMMA EvaluateUnprotected ==
  ASSUME LockInv, RegistryInv, ServiceInv, NEW t \in Threads, EvaluateDangling(t)
  PROVE  Service!Undefined(t) \/ Service!Down(t)
<1> DEFINE o == obj[found[t]]
<1>1. /\ pc[t] = "eval" /\ obj' = obj /\ known' = known /\ idToSession' = idToSession
      /\ Dangling(o, req[t].arg) \/ ~o.first
  BY DEF EvaluateDangling, At, Crash, regVars
<1>2. /\ req[t].op \in {"query", "random"} /\ found[t] = req[t].sid
      /\ found[t] \in Sessions /\ found[t] \in known
  BY <1>1, QueryPlace DEF ServiceInv
<1>3. Service!Unprotected(t)
  <2>1. CASE o.state = "destroyed"
    BY <1>2, <2>1, DestroyedIsGone DEF Service!Unprotected
  <2>2. CASE o.state # "destroyed"
    <3>1. o.root = NoAlgorithm
      BY <1>1, <1>2, <2>2 DEF Dangling, ServiceInv, TreesFit
    <3> QED
      BY <1>1, <1>2, <2>2, <3>1, QueriedSession DEF Service!Unprotected
  <2> QED
    BY <2>1, <2>2
<1>4. Table' = Table
  BY <1>1, TableKept
<1>5. CASE Return(t, <<"undefined">>) /\ up' = up
  BY <1>1, <1>3, <1>4, <1>5, Answers DEF Service!Undefined, ServiceInv
<1>6. CASE Crash
  BY <1>3, <1>4, <1>6 DEF Service!Down, Crash, threadVars
<1> QED
  BY <1>5, <1>6 DEF EvaluateDangling

\* deleteSession, renameSession and closeSession find their session, or refuse the
\* one that is not there; closeSession follows the iterator of one that is gone.
LEMMA FindLockRefuses ==
  ASSUME LockInv, CallsFit, NEW t \in Threads, FindLock(t)
  PROVE  \/ UNCHANGED Service!sVars
         \/ Service!Refuse(t) \/ Service!Undefined(t) \/ Service!Down(t)
<1>1. /\ pc[t] = "mgr" /\ req[t].op \in {"delete", "rename", "close"}
      /\ obj' = obj /\ known' = known /\ idToSession' = idToSession
  BY DEF FindLock, At, regVars
<1>2. Table' = Table
  BY <1>1, TableKept
<1>3. CASE GotoWith(t, FoundPc[req[t].op], req[t].sid) /\ up' = up
  BY <1>2, <1>3 DEF GotoWith, Service!sVars
<1>4. CASE /\ req[t].sid \notin idToSession /\ up' = up
           /\ Return(t, IF req[t].op = "close" /\ req[t].sid # Bogus
                          THEN <<"undefined">> ELSE <<"error">>)
  <2>1. CASE req[t].op = "close" /\ req[t].sid # Bogus
    <3>1. Service!Answer(t, <<"undefined">>)
      BY <1>1, <1>4, <2>1, Answers
    <3> QED
      BY <1>2, <1>4, <2>1, <3>1, Unregistered DEF Service!Undefined, Service!Unprotected
  <2>2. CASE ~(req[t].op = "close" /\ req[t].sid # Bogus)
    <3>1. Service!Answer(t, <<"error">>)
      BY <1>1, <1>4, <2>2, Answers
    <3> QED
      BY <1>1, <1>2, <1>4, <3>1, Unregistered DEF Service!Refuse
  <2> QED
    BY <2>1, <2>2
<1>5. CASE /\ req[t].sid \notin idToSession \cup {Bogus} /\ req[t].op = "close"
           /\ up' = FALSE /\ UNCHANGED <<req, ans>>
  BY <1>2, <1>5, Unregistered DEF Service!Down, Service!Unprotected
<1> QED
  BY <1>3, <1>4, <1>5 DEF FindLock

\* A session that has been found under the manager's lock is registered.
LEMMA HeldRegistered ==
  ASSUME LockInv, RegistryInv, CallsFit, NEW t \in Threads, pc[t] \in HeldPcs, ~Inserting(t)
  PROVE  /\ found[t] = req[t].sid /\ found[t] \in Sessions
         /\ Service!Registered(req[t].sid)
<1>1. found[t] \in idToSession
  BY DEF RegistryInv, HeldFits
<1>2. found[t] = req[t].sid /\ found[t] \in Sessions /\ found[t] \in known
  BY FoundIsNamed DEF FoundPcs
<1> QED
  BY <1>1, <1>2, Standing

\* The operations that leave the trees alone are acknowledged.
LEMMA Acknowledged ==
  ASSUME LockInv, RegistryInv, CallsFit, NEW t \in Threads,
         Rename(t) \/ Close(t) \/ SessionOpen(t) \/ Translate(t)
  PROVE  Service!Acknowledge(t)
<1>1. /\ pc[t] \in {"renLock", "closeLock", "openLock", "mgr"}
      /\ Return(t, <<"ack">>) /\ UNCHANGED <<up, known, idToSession>>
  BY DEF Rename, Close, SessionOpen, Translate, At, regVars
<1>2. \A s \in Sessions : obj'[s].root = obj[s].root
  BY TreesKept DEF Rename, Translate
<1>3. Table' = Table
  BY <1>1, <1>2, TableKept
<1>4. Service!Answer(t, <<"ack">>)
  BY <1>1, Answers
<1>5. CASE Translate(t)
  BY <1>3, <1>4, <1>5 DEF Translate, Service!Acknowledge
<1>6. CASE Rename(t) \/ Close(t) \/ SessionOpen(t)
  <2>1. pc[t] \in {"renLock", "closeLock", "openLock"}
    BY <1>6 DEF Rename, Close, SessionOpen, At
  <2>2. req[t].op \in {"rename", "close", "reopen"}
    BY <2>1, Requesting DEF OpsAt
  <2>3. Service!Registered(req[t].sid)
    BY <2>1, HeldRegistered DEF HeldPcs, Inserting
  <2> QED
    BY <1>3, <1>4, <2>2, <2>3 DEF Service!Acknowledge
<1> QED
  BY <1>5, <1>6

\* A session is deleted while the table still has it.
LEMMA EraseDeletes ==
  ASSUME LockInv, RegistryInv, CallsFit, NEW t \in Threads, Erase(t)
  PROVE  Service!Delete(t)
<1>1. pc[t] = "erase" /\ Return(t, <<"ack">>) /\ up' = up
  BY DEF Erase, At
<1>2. /\ req[t].op = "delete" /\ found[t] = req[t].sid /\ found[t] \in Sessions
      /\ Service!Registered(req[t].sid)
  BY <1>1, Requesting, HeldRegistered DEF OpsAt, HeldPcs, Inserting
<1>3. Service!Answer(t, <<"ack">>)
  BY <1>1, Answers
<1>4. \A s \in Sessions : ServiceOf(s)' = IF s = req[t].sid THEN "gone" ELSE ServiceOf(s)
  <2>1. found[t] \in known
    BY <1>1, FoundIsNamed DEF FoundPcs, HeldPcs, Inserting
  <2> QED
    BY <1>2, <2>1, EraseDestroys DEF ServiceOf
<1>5. Table' = [Table EXCEPT ![req[t].sid] = "gone"]
  BY <1>2, <1>4 DEF Table
<1> QED
  BY <1>2, <1>3, <1>5 DEF Service!Delete

\* A session whose configuration has ended is in the table, with the algorithm if its
\* tree could be built.
LEMMA BuildStanding ==
  ASSUME LockInv, RegistryInv, NEW t \in Threads, Build(t) \/ BuildFails(t)
  PROVE  /\ Requested(t) \in Algorithms
         /\ obj'[found[t]].root = IF Requested(t) \in Service!Usable
                                    THEN Requested(t) ELSE NoAlgorithm
         /\ BuildFails(t) <=> Requested(t) \in Typed \ Buildable
<1>1. Requested(t) \in Algorithms
  BY RequestedType
<1>2. /\ Built(obj[found[t]], Requested(t)).root = Requested(t)
      /\ Dismantled(obj[found[t]], Requested(t)).root = NoAlgorithm
  BY <1>1, BuildChanges, Configured
<1>3. BuildFails(t) => Requested(t) \in Typed \ Buildable
  BY DEF BuildFails
<1>4. Build(t) => Requested(t) \notin Typed \ Buildable
  BY DEF Build
<1> QED
  BY <1>1, <1>2, <1>3, <1>4, BuildChanges DEF Service!Usable

\* What the end of a configuration makes of the table.
LEMMA BuildTable ==
  ASSUME LockInv, RegistryInv, NEW t \in Threads, Build(t) \/ BuildFails(t),
         found[t] \in known'
  PROVE  Table' = [Table EXCEPT ![found[t]] =
                     IF Requested(t) \in Service!Usable THEN Requested(t) ELSE "broken"]
<1>1. /\ found[t] \in idToSession /\ found[t] \in Sessions /\ idToSession' = idToSession
      /\ \A s \in Sessions \ {found[t]} : obj'[s] = obj[s]
      /\ Requested(t) \in Algorithms
      /\ obj'[found[t]].root = IF Requested(t) \in Service!Usable
                                 THEN Requested(t) ELSE NoAlgorithm
  BY BuildChanges, BuildStanding
<1>2. \A s \in Sessions \ {found[t]} : s \in known' <=> s \in known
  BY DEF Build, BuildFails
<1>3. \A s \in Sessions \ {found[t]} : ServiceOf(s)' = ServiceOf(s)
  BY <1>1, <1>2 DEF ServiceOf
<1>4. PICK s \in Sessions : s = found[t]
  BY <1>1
<1>5. ServiceOf(s)' = IF Requested(t) \in Service!Usable THEN Requested(t) ELSE "broken"
  BY <1>1, <1>4, SessionManagerAssumption DEF ServiceOf
<1> QED
  BY <1>3, <1>4, <1>5 DEF Table

\* The configuration of an announced session is one of the table; the first one of a
\* new session opens it.
LEMMA BuildConfigures ==
  ASSUME LockInv, RegistryInv, ServiceInv, NEW t \in Threads, Build(t) \/ BuildFails(t)
  PROVE  Service!Open(t) \/ Service!OpenFails(t) \/ Service!Configure(t)
<1>1. /\ pc[t] = "build" /\ up' = up
      /\ Return(t, IF BuildFails(t) THEN <<"error">> ELSE <<"ack">>)
  <2>1. pc[t] = "build" /\ up' = up
    BY DEF Build, BuildFails, At
  <2>2. BuildFails(t) => Return(t, <<"error">>)
    BY DEF BuildFails, Throw
  <2>3. Build(t) => Return(t, <<"ack">>)
    BY DEF Build
  <2> QED
    BY <2>1, <2>2, <2>3
<1>2. Service!Answer(t, IF BuildFails(t) THEN <<"error">> ELSE <<"ack">>)
  BY <1>1, Answers DEF ServiceInv
<1>3. BuildFails(t) <=> Requested(t) \in Typed \ Buildable
  BY BuildStanding
<1>4. found[t] \in Sessions /\ found[t] \in idToSession
  BY BuildChanges
<1>5. req[t].op \in {"open", "reopen", "configure"}
  BY <1>1, Requesting DEF OpsAt, ServiceInv
<1>6. CASE req[t].op = "configure"
  <2>1. /\ found[t] = req[t].sid /\ found[t] \in known
        /\ Service!Registered(req[t].sid)
    BY <1>1, <1>6, FoundIsNamed, HeldRegistered DEF Inserting, FoundPcs, HeldPcs, ServiceInv
  <2>2. known \subseteq known' /\ Requested(t) = req[t].arg
    BY <1>6 DEF Build, BuildFails, Requested
  <2>3. Table' = [Table EXCEPT ![req[t].sid] =
                    IF req[t].arg \in Service!Usable THEN req[t].arg ELSE "broken"]
    BY <2>1, <2>2, BuildTable
  <2> QED
    BY <1>2, <1>3, <1>6, <2>1, <2>2, <2>3 DEF Service!Configure
<1>7. CASE req[t].op \in {"open", "reopen"}
  <2>1. found[t] \notin known /\ Requested(t) = Default
    BY <1>1, <1>7 DEF ServiceInv, CallsFit, CallFits, Inserting, FoundPcs, HeldPcs, Requested
  <2>2. CASE Build(t)
    <3>1. found[t] \in known' /\ ~BuildFails(t)
      BY <1>3, <2>2 DEF Build
    <3>2. Table' = [Table EXCEPT ![found[t]] =
                      IF Default \in Service!Usable THEN Default ELSE "broken"]
      BY <2>1, <3>1, BuildTable
    <3>3. Table[found[t]] = "none"
      BY <1>4, <2>1, Standing
    <3> QED
      BY <1>2, <1>4, <1>7, <3>1, <3>2, <3>3 DEF Service!Open
  <2>3. CASE BuildFails(t)
    <3>1. Default \notin Service!Usable
      BY <1>3, <2>1, <2>3 DEF Service!Usable
    <3>2. Table' = Table
      <4>1. /\ known' = known /\ idToSession' = idToSession
            /\ \A s \in Sessions \ {found[t]} : obj'[s] = obj[s]
        BY <2>3, BuildChanges DEF BuildFails
      <4>2. \A s \in Sessions : ServiceOf(s)' = ServiceOf(s)
        BY <2>1, <4>1 DEF ServiceOf
      <4> QED
        BY <4>2 DEF Table
    <3> QED
      BY <1>2, <1>7, <2>3, <3>1, <3>2 DEF Service!OpenFails
  <2> QED
    BY <2>2, <2>3
<1> QED
  BY <1>5, <1>6, <1>7
-----------------------------------------------------------------------------
(* The refinement *)

\* The steps on the way to a session, which the table does not see.
LEMMA Unseen ==
  ASSUME LockInv, KnownFit, NEW t \in Threads,
         Exit(t) \/ OpenLock(t) \/ Insert(t) \/ ReopenLock(t) \/ ConfigureSession(t)
  PROVE  UNCHANGED Service!sVars
<1>1. UNCHANGED <<up, req, ans, known>>
  BY DEF Exit, OpenLock, Insert, ReopenLock, ConfigureSession, Goto, GotoWith
<1>2. CASE Insert(t)
  <2>1. lastId + 1 \notin known
    BY SessionManagerAssumption DEF KnownFit, LockInv, TypeOK, Sessions
  <2>2. \A s \in Sessions \ {lastId + 1} :
          obj'[s] = obj[s] /\ (s \in idToSession' <=> s \in idToSession)
    BY <1>2 DEF Insert, LockInv, TypeOK
  <2>3. \A s \in Sessions : ServiceOf(s)' = ServiceOf(s)
    BY <1>1, <2>1, <2>2 DEF ServiceOf
  <2> QED
    BY <1>1, <2>3 DEF Table, Service!sVars
<1>3. CASE ~Insert(t)
  <2>1. obj' = obj /\ idToSession' = idToSession
    BY <1>3 DEF Exit, OpenLock, ReopenLock, ConfigureSession, regVars
  <2>2. Table' = Table
    BY <1>1, <2>1, TableKept
  <2> QED
    BY <1>1, <2>2 DEF Service!sVars
<1> QED
  BY <1>2, <1>3

\* The search for the session to configure.
LEMMA ConfigureFinds ==
  ASSUME LockInv, CallsFit, NEW t \in Threads, ConfigureLock(t)
  PROVE  UNCHANGED Service!sVars \/ Service!Refuse(t)
<1>1. CASE req[t].sid \in idToSession
  <2>1. UNCHANGED <<up, req, ans, known, obj, idToSession>>
    BY <1>1 DEF ConfigureLock, GotoWith, regVars
  <2> QED
    BY <2>1, TableKept DEF Service!sVars
<1>2. CASE req[t].sid \notin idToSession
  BY <1>2, ConfigureRefused
<1> QED
  BY <1>1, <1>2

\* Nothing runs when the process does not.
LEMMA OnlyWhenUp ==
  ASSUME NEW t \in Threads, Call(t) \/ Exit(t) \/ Step(t) PROVE up
BY DEF Call, Exit, Step, OpenLock, Insert, ReopenLock, SessionOpen, ConfigureLock,
   ConfigureSession, Build, BuildFails, QueryFind, RandomFind, QueryLock, Evaluate, EvaluateFails,
   EvaluateDangling, FindLock, Erase, Rename, Close, Translate, At

\* Every step of the manager is a step of the table or leaves it alone.
LEMMA NextImplements ==
  LockInv /\ RegistryInv /\ ServiceInv /\ [Next]_vars => [Service!Next]_(Service!sVars)
<1> SUFFICES ASSUME LockInv, RegistryInv, ServiceInv, [Next]_vars
             PROVE  Service!Next \/ UNCHANGED Service!sVars
  OBVIOUS
<1>1. CASE UNCHANGED vars
  <2>1. UNCHANGED <<up, req, ans, known, obj, idToSession>>
    BY <1>1 DEF vars
  <2> QED
    BY <2>1, TableKept DEF Service!sVars
<1>2. CASE Next
  <2>1. PICK t \in Threads : Call(t) \/ Exit(t) \/ Step(t)
    BY <1>2 DEF Next
  <2>2. up /\ CallsFit /\ KnownFit
    BY <2>1, OnlyWhenUp DEF ServiceInv
  <2>3. \/ UNCHANGED Service!sVars
        \/ Service!Request(t) \/ Service!Open(t) \/ Service!OpenFails(t) \/ Service!Configure(t)
        \/ Service!Query(t) \/ Service!QueryFails(t) \/ Service!Delete(t)
        \/ Service!Acknowledge(t) \/ Service!Refuse(t) \/ Service!Undefined(t)
        \/ Service!Down(t)
    BY <2>1, <2>2, CallRequests, Unseen, ConfigureFinds, QueryFindFails, RandomFindFails, QueryLocks,
       EvaluateQueries, EvaluateFailsQuery, EvaluateUnprotected, FindLockRefuses, Acknowledged,
       EraseDeletes, BuildConfigures DEF Step
  <2> QED
    BY <2>2, <2>3 DEF Service!Next
<1> QED
  BY <1>1, <1>2

LEMMA InitImplements == Init => Service!Init
<1> SUFFICES ASSUME Init PROVE Service!Init
  OBVIOUS
<1>1. up = TRUE /\ known = {} /\ req = [t \in Threads |-> NoRequest]
      /\ ans = [t \in Threads |-> <<"none">>]
  BY DEF Init
<1>2. Table = [s \in Sessions |-> "none"]
  BY <1>1 DEF Table, ServiceOf
<1> QED
  BY <1>1, <1>2 DEF Service!Init, Service!NoCall, NoRequest

\* The session manager implements the table of sessions: every operation, whatever
\* it locks and in whatever order threads run, is one step of SessionService, and
\* only the overlaps named there leave an answer undefined or end the server.
\* (CSessionManager.cc, CSession::query and setActiveAlgorithm)
THEOREM ManagerImplementsService == Spec => ImplementsService
<1> DEFINE Inv == LockInv /\ RegistryInv /\ ServiceInv
<1>1. Init => Inv
  BY InitLocks, InitRegistry, InitService
<1>2. Inv /\ [Next]_vars => Inv'
  BY NextLocks, NextRegistry, NextService
<1>3. Inv /\ [Next]_vars => [Service!Next]_(Service!sVars)
  BY NextImplements
<1> QED
  BY <1>1, <1>2, <1>3, InitImplements, PTL DEF Spec, ImplementsService, Service!Spec
=============================================================================
