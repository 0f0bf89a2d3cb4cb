SPECIFICATION Spec
CONSTANTS
  a = a
  ab = ab
  abx = abx
  abyab = abyab
  abyabx = abyabx
  long = long
  R = R
  A = A
  AB = AB
  X = X
  YAB = YAB
  LONG = LONG
  Path = {a, ab, abx, abyab, abyabx, long}
  Root = R
  Name = {A, AB, X, YAB, LONG}
  father <- MCFather
  name <- MCNameOf
  Prefix <- MCPrefix
  Suffix <- MCSuffix
  units <- MCUnits
  blockUnits = 13
  systemBlocks = 2
  systemInodes = 3
  s_blocks_count = 27
  s_blocks_per_group = 14
  s_inodes_count = 6
  s_inodes_per_group = 3
  Directos = 2
  indS = 3
  uint32 = 81
  Initially <- MCInitially
  Truncations <- MCTruncations
  Extents <- MCExtents
  MaxRequests = 4
CHECK_DEADLOCK FALSE
INVARIANTS
  TypeOK
  BlocksAccountedFor
  GrownFilesHoldTheirContent
  CacheIsTransparent
  DirectoriesSound
