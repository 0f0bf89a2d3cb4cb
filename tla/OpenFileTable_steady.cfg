CONSTANTS
  w1 = w1
  w2 = w2
  w3 = w3
  Worker = {w1, w2}
  NoWorker = NoWorker
  NoPath = NoPath
  Root = "/"
  Path <- MCPath
  Father <- MCFather
  Tree <- MCTree
  Requests <- SteadyRequests
  Spare = 1
  MaxRequests = 4
SPECIFICATION FairSpec
INVARIANTS
  TypeOK
  WritersExclude
  LockOwnersNeedNoMutex
  HalfMadeHasCreator
PROPERTIES
  EveryRequestIsAnswered
