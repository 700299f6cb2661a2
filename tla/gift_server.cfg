SPECIFICATION Spec
CONSTANTS
  main = main
  t1 = t1
  t2 = t2
  u1 = u1
  Threads = {main, t1, t2}
  NoThread = NoThread
  Main = main
  Users = {u1}
  MaxSessions = 1
  MaxDepth = 1
  MaxElements = 1
  Cooperative = {}
  Aborts = TRUE
  adefault = adefault
  auntyped = auntyped
  leaf = leaf
  Ops = {"open", "configure", "query", "delete", "rename", "translate"}
  Algorithms = {adefault, auntyped}
  Default = adefault
  NoAlgorithm = NoAlgorithm
  Typed = {adefault}
  Buildable = {adefault}
  Nodes <- NodesOf
  Sought = {leaf}
INVARIANTS ServerCircularWaitNeedsLostLock ConnectionsReleaseLocks
SYMMETRY ThreadSymmetry
CHECK_DEADLOCK FALSE
