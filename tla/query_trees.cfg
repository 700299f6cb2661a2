SPECIFICATION Spec
CONSTANTS
  NoThread = NoThread
  Threads = {t1, t2}
  Sessions = {s1, s2}
  Collections = {"c", "d"}
  Requests <- SentRequests
  Defaults <- ConfiguredDefaults
  WithOthers = {"adefault"}
  Directory <- LibraryFiles
  Optional <- HierarchyFiles
  Outcomes = {"good", "caught", "thrown"}
  FreeUnused = {TRUE, FALSE}
  MaxThrown = 1
  MaxCount = 8
INVARIANTS
  AccessorsInUse
  NodesAreFound
  InheritsFromNearest
  LocksBalanced
CHECK_DEADLOCK FALSE
