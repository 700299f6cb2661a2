SPECIFICATION FairSpec
CONSTANTS
  Docs = {0, 1}
  Features = {0, 1, 2, 3, 4, 5, 6, 7, 8, 9}
  Frequencies = {1, 2}
  Collections <- MCCollections
  LogICF <- MCLogICF
  PageSize = 2
  MaxGenerations = 2
  Texts <- MCTexts
  Thesaurus <- MCThesaurus
INVARIANTS IndexMatchesFiles FreshAdiMeansWholeIndex WordsFindImages
PROPERTY GenerationEnds
CHECK_DEADLOCK FALSE
