SPECIFICATION FairSpec
CONSTANTS
  Conn = {c1}
  Key = {k1, k2}
  Esquemas = {"ParticionesDinamicas", "BuddySystem"}
  NoKey = NoKey
  NoConn = NoConn
  Garbage = Garbage
  Sizes <- SingleSizes
  table_max_size = 8
  slab_min_size = 2
  bestfit = FALSE
  lru = FALSE
  frecuenciaCompactacion = 2
INVARIANTS
  UniqueKeys
  HeldIsReserved
  FreeMemoryIsUnited
  BuddiesAligned
PROPERTIES
  CompactionKeepsItems
  LockIsGivenBack
