SPECIFICATION FairSpec
CONSTANTS
  a = a
  b = b
  nofeatures = nofeatures
  noimage = noimage
  Images <- ImageOrder
  Convertible = {a, b, nofeatures}
  Extractable = {a, b}
  MaxKills = 3
INVARIANTS ResumedUnlessTorn 
PROPERTY RestartsFinish
CHECK_DEADLOCK FALSE
