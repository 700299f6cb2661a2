SPECIFICATION FairSpec
CONSTANTS
  t1 = t1
  t2 = t2
  u1 = u1
  Threads = {t1, t2}
  NoThread = NoThread
  Users = {u1}
  MaxSessions = 2
  MaxDepth = 0
  adefault = adefault
  ainverted = ainverted
  anocollection = anocollection
  auntyped = auntyped
  leaf = leaf
  Ops = {"open", "configure", "query", "random", "rename", "close", "translate"}
  Algorithms = {adefault, ainverted}
  Default = adefault
  NoAlgorithm = NoAlgorithm
  Typed = {adefault, ainverted}
  Buildable = {adefault, ainverted}
  Nodes <- NodesOf
  Sought = {leaf}
  Strangers = {}
PROPERTY EveryCallReturns
CHECK_DEADLOCK FALSE
