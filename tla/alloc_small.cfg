\* A heap of 14 words and requests that differ by one word, as the sizes of benchmark.c
\* do.  The cache is not used.
CONSTANTS
  n1 = n1 n2 = n2 n3 = n3 n4 = n4 v1 = v1 NULL = NULL
  Keys = {}
  Values = {}
  Nodes = {n1}
  HASH_TABLE_SIZE = 1
  max_size = 1
  MaxCount = 0
  c1 = c1 c2 = c2 c3 = c3 Unset = Unset
  Clients = {c1, c2, c3}
  Sizes = {24, 32}
  heap_words = 14
  SIZE_MAX = 255
  MaxAllocs = 4
  MaxHeaps = 1
SPECIFICATION MemorySpec
INVARIANT HeldIntact
SYMMETRY Symmetry
CHECK_DEADLOCK FALSE
