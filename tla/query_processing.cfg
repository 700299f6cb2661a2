SPECIFICATION FairSpec
CONSTANTS
  c1 = c1
  c2 = c2
  p1 = p1
  p2 = p2
  p3 = p3
  NoThread = NoThread
  Threads <- MCThreads
  Connections <- MCConnections
  Trees <- MCTrees
  Collection <- MCCollection
  Features <- MCFeatures
  FeaturesOf <- MCFeaturesOf
  Histogram <- MCHistogram
  Idf <- MCIdf
  Considered <- MCConsidered
  Weight <- MCWeight
  Percent <- MCPercent
  ReduceAt <- MCReduceAt
  ReduceTo <- MCReduceTo
  Queries <- MCQueries
  MayFail <- MCMayFail
  Adds = TRUE
  Extracts = {TRUE, FALSE}
INVARIANTS
  BoardsExact
  MergedExactly
  OneIdPerImage
  NoOrphans
PROPERTIES
  QueriesAnswered
CHECK_DEADLOCK FALSE
