SPECIFICATION MatrixSpec
CONSTANTS
  Pictures <- MCPictures
  FileOf <- MCFileOf
  ImageSize = 8
  SmallestBlock = 2
  ColourScales = 2
  GaborBlock = 4
  Kernels <- MCKernels
  GaborRanges <- MCRanges
  NumH = 3
  NumS = 2
  NumV = 2
  NumGrey = 2
  FREQ_MAX = 255
  Indexes <- MCIndexes
  Algorithms <- MCAlgorithms
  Queries <- MCQueries
  LogSquared <- MCLogSquared
  LogOdds <- MCLogOdds
  Precision = 1000
  MatrixAlgorithm <- MCMatrixAlgorithm
  MinCount = 3
  StopPoints = {0, 5}
INVARIANTS
  AnswersDependOnQuery
  QueryImageFindsItself
  DispatchAddsUp
  DistancesFromScores
PROPERTY
  FeaturesTrue
CHECK_DEADLOCK FALSE
