SPECIFICATION Spec
CONSTANTS
  t1 = t1
  t2 = t2
  u1 = u1
  Threads = {t1, t2}
  NoThread = NoThread
  Users = {u1}
  MaxSessions = 1
  MaxDepth = 1
  adefault = adefault
  ainverted = ainverted
  anocollection = anocollection
  auntyped = auntyped
  leaf = leaf
  Ops = {"open", "reopen", "close", "configure", "query", "random", "delete", "rename", "translate"}
  Algorithms = {adefault, ainverted, anocollection, auntyped}
  Default = adefault
  NoAlgorithm = NoAlgorithm
  Typed = {adefault, ainverted, anocollection}
  Buildable = {adefault, ainverted}
  Nodes <- NodesOf
  Sought = {ainverted, leaf}
  Strangers = {0}
SYMMETRY ThreadSymmetry
INVARIANTS TreeExclusion FoundSessionsStay LocksBalanced CircularWaitNeedsLostLock QueriedSessionsAreBuilt
PROPERTY ImplementsService
CHECK_DEADLOCK FALSE
