CONSTANTS
  w1 = w1
  w2 = w2
  w3 = w3
  Worker = {w1, w2, w3}
  NoWorker = NoWorker
  NoPath = NoPath
  Root = "/"
  Path <- MCPath
  Father <- MCFather
  Tree <- MCTree
  Requests <- RemovalRequests
  Spare = 0
  MaxRequests = 3
SPECIFICATION Spec
SYMMETRY Threads
CHECK_DEADLOCK FALSE
INVARIANTS
  CountIsExact
  TableIsTheCounted
  StuckOnlyThroughRemovals
  LocksAreGivenBack
  NoDanglingReference
