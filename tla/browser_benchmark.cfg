SPECIFICATION Spec
CONSTANTS
  RelevantLists <- OneList
  Displays <- SmallDisplays
  Greetings <- TwoGreetings
  Files <- HierarchyFiles
  Targets <- TwoTargets
  Rankings <- SomeRankings
  BrowsedCollection = "c1"
  MaxGroups = 2
  MaxSteps = 4
  MaxTries = 20
INVARIANTS
  FeedbackFromLastResults
  TargetsAreFound
PROPERTY ProgramsEnd
CHECK_DEADLOCK FALSE
