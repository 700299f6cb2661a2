SPECIFICATION FairSpec
CONSTANTS
  main = main
  t1 = t1
  u1 = u1
  Threads = {main, t1}
  NoThread = NoThread
  Main = main
  Users = {u1}
  MaxSessions = 1
  MaxDepth = 1
  MaxElements = 1
  Cooperative = {main, t1}
  Aborts = TRUE
  adefault = adefault
  auntyped = auntyped
  leaf = leaf
  Ops = {"open", "query", "random", "delete", "rename", "translate"}
  Algorithms = {adefault}
  Default = adefault
  NoAlgorithm = NoAlgorithm
  Typed = {adefault}
  Buildable = {adefault}
  Nodes <- NodesOf
  Sought = {leaf}
PROPERTY CooperativeConnectionsEnd
CHECK_DEADLOCK FALSE
