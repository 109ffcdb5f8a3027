\* The cache: up to three entries, keys 0 and 3 in one bucket.  The allocator: three
\* clients, two heaps of 160 bytes in turn, requests of 48, 56 and 224 bytes with their
\* header, and two that wrap.  No deadlock check: the cache's calls end with the bound
\* or the destroy.
CONSTANTS
  n1 = n1 n2 = n2 n3 = n3 n4 = n4 v1 = v1 NULL = NULL
  Keys = {0, 1, 2, 3}
  Values = {v1}
  Nodes = {n1, n2, n3, n4}
  HASH_TABLE_SIZE = 3
  max_size = 3
  MaxCount = 3
  c1 = c1 c2 = c2 c3 = c3 Unset = Unset
  Clients = {c1, c2, c3}
  Sizes = {0, 20, 32, 200, 225, 255}
  heap_words = 20
  SIZE_MAX = 255
  MaxAllocs = 4
  MaxHeaps = 2
SPECIFICATION MemorySpec
INVARIANTS SafeUntilMixed IntactUntilCramped TileUntilCramped NetUntilCramped
PROPERTY LruUntilMixed
CONSTRAINT Unharmed
VIEW WithoutCall
SYMMETRY Symmetry
CHECK_DEADLOCK FALSE
