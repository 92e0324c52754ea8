SPECIFICATION Spec
CONSTANTS
  WordBits = 2
  ChunkPages = 8
  Thread = {t1, t2}
  Chunk = {1, 2}
  Buf = {b1, b2, b3}
  Small = {1, 2}
  Cached = {1, 2}
  RunPages <- MCRunPages
  Elems <- MCElems
  MaxCalls = 6
  CacheSize = 2
  m_freeSweepAllocationThreshold = 2
SYMMETRY Symmetry
CHECK_DEADLOCK FALSE
INVARIANTS ArenaAssertsHold MemoryAccounted DestroyedUnreferenced RingExact ListsExact
