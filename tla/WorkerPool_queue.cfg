CONSTANTS
  c1 = c1
  c2 = c2
  c3 = c3
  w1 = w1
  w2 = w2
  w3 = w3
  Client = {c1, c2, c3}
  Worker = {w1, w2, w3}
  NoWorker = NoWorker
  NoClient = NoClient
  Epoll = Epoll
  MaxRequests = 3
SYMMETRY Symmetric
SPECIFICATION Spec
INVARIANTS
  TypeOK
  SemCountsList
  NeverPopsEmpty
  SizeIsLength
PROPERTIES
  IsFifoChannel
