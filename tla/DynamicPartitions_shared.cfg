SPECIFICATION Spec
CONSTANTS
  Conn = {c1, c2, c3}
  Key = {k1, k2}
  Esquemas = {"ParticionesDinamicas"}
  NoKey = NoKey
  NoConn = NoConn
  Garbage = Garbage
  Sizes <- SharedSizes
  table_max_size = 3
  slab_min_size = 1
  bestfit = TRUE
  lru = TRUE
  frecuenciaCompactacion = 1
SYMMETRY Symmetric
INVARIANTS
  MemoryAccountedFor
