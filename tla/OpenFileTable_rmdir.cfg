CONSTANTS
  w1 = w1
  w2 = w2
  w3 = w3
  Worker = {w1, w2}
  NoWorker = NoWorker
  NoPath = NoPath
  Root = "/"
  Path <- MCPath
  Father <- MCFather
  Tree <- MCTree
  Requests <- RmdirRequests
  Spare = 1
  MaxRequests = 2
SPECIFICATION FairSpec
CHECK_DEADLOCK FALSE
PROPERTIES
  RemovalsAreAnswered
