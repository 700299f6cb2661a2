SPECIFICATION Spec
CONSTANTS
  Images <- McImages
  Matrix <- McMatrix
  Annotations <- McAnnotations
  Queries <- McQueries
  Unit = 24
  Relevance = 3
INVARIANTS
  TriplesCarryTrees
  NeighboursRanked
  MatchesFound
CHECK_DEADLOCK FALSE
