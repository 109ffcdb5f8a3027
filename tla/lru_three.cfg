\* A cache of three entries, as in the first test of test.c, and every key in a bucket
\* of its own.  The allocator is not used.
CONSTANTS
  n1 = n1 n2 = n2 n3 = n3 n4 = n4 v1 = v1 NULL = NULL
  Keys = {0, 1, 2, 3}
  Values = {v1}
  Nodes = {n1, n2, n3, n4}
  HASH_TABLE_SIZE = 4
  max_size = 3
  MaxCount = 3
  c1 = c1 c2 = c2 c3 = c3 Unset = Unset
  Clients = {c1}
  Sizes = {24}
  heap_words = 6
  SIZE_MAX = 255
  MaxAllocs = 1
  MaxHeaps = 0
SPECIFICATION MemorySpec
INVARIANT MemorySafe
SYMMETRY Symmetry
CHECK_DEADLOCK FALSE
