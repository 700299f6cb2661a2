SPECIFICATION Spec
CONSTANTS
  Configs <- ConfigFiles
  Requests <- SentRequests
  Inner <- SentInner
  MaxPieces = 3
  BlockSize = 4
INVARIANTS
  TreeIsDocument
  AnswersInOrder
  ReplyReadsBack
CHECK_DEADLOCK FALSE
