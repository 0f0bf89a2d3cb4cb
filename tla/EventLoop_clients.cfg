SPECIFICATION FairSpec
CONSTANTS
  Client = {1, 2, 3}
  NoClient = 0
  Fd = {1, 2}
  Listener = 9
  Width = 4
  RequestSizes = {1}
  AnswerSizes = {0, 5}
  MaxRequests = 2
  MaxFaults = 1
CHECK_DEADLOCK FALSE
INVARIANTS
  TypeOK
  NothingForgotten
  LoopIsHeldOnlyByClients
  AnswersAreOwn
PROPERTIES
  ClientsAreServed
