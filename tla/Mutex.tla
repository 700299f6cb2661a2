-------------------------------- MODULE Mutex --------------------------------
(***************************************************************************)
(* CMutex (libMRML/cc/CMutex.cc): a recursive POSIX mutex.  A mutex is the *)
(* record of its owner and of how often the owner has locked it.  Locking  *)
(* is a step a thread can take only when CanLock holds.                    *)
(***************************************************************************)
EXTENDS Naturals

CONSTANTS Threads,  \* the threads of the server, one per connection
          NoThread  \* the owner of a mutex nobody holds

ASSUME NoThreadAssumption == NoThread \notin Threads

MutexType == [owner : Threads \cup {NoThread}, depth : Nat]

\* A mutex as CMutex::CMutex leaves it.
FreeMutex == [owner |-> NoThread, depth |-> 0]

\* Faulty variant of CanLock: a mutex that keeps nobody out.
CanAlwaysLock(m, t) == TRUE

CanLock(m, t) == m.owner \in {NoThread, t}

\* t locks m, n times in a row.
Locked(m, t, n) == [owner |-> t, depth |-> m.depth + n]

\* Faulty variant of Unlocked: one unlock() too many.
UnlockedOnceMore(m, n) == [m EXCEPT !.depth = @ - n - 1]

\* The owner unlocks m, n times in a row.
Unlocked(m, n) ==
  IF m.depth = n THEN FreeMutex ELSE [m EXCEPT !.depth = @ - n]

\* How often t holds m.
Depth(m, t) == IF m.owner = t THEN m.depth ELSE 0

\* A mutex is free exactly when its depth is zero.
WellFormed(m) == (m.owner = NoThread) <=> (m.depth = 0)
=============================================================================
