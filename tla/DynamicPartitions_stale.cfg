SPECIFICATION Spec
CONSTANTS
  Conn = {c1}
  Key = {k1, k2, k3}
  Esquemas = {"ParticionesDinamicas"}
  NoKey = NoKey
  NoConn = NoConn
  Garbage = Garbage
  Sizes <- SharedSizes
  table_max_size = 3
  slab_min_size = 1
  bestfit = FALSE
  lru = TRUE
  frecuenciaCompactacion = 2
INVARIANTS
  MergesNeighbours
