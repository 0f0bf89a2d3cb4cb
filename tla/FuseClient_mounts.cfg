SPECIFICATION FairSpec
CONSTANTS
  t1 = t1
  t2 = t2
  t3 = t3
  m1 = m1
  m2 = m2
  None = None
  Thread = {t1, t2, t3}
  Mount = {m1, m2}
  MountOf <- MCMountOf
  Connections <- MCConnections
  Conn = {1, 2}
  NoConn = 0
  Path <- MCPath
  Root = "/"
  Father <- MCFather
  Long = {"/d/long"}
  Unterminated = {"/d/f"}
  Tree <- MCTree
  Calls <- MCCalls
  MaxCalls = 3
CHECK_DEADLOCK FALSE
INVARIANTS
  TypeOK
  ConnectionsConserved
  OneOutstanding
  StaleOnlyAsKnown
PROPERTIES
  RefusalsAreReported
  EveryCallReturns
