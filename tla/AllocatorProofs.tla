--------------------------- MODULE AllocatorProofs ---------------------------
(***************************************************************************)
(* What holds of allocator.c for every heap size, all requests and any     *)
(* number of clients, as long as no request has wrapped and no block was   *)
(* split so that the rest is smaller than a header.                        *)
(*                                                                         *)
(* A block is known here by the number of its first word, its cell.  The   *)
(* cells of the blocks in the free list are a set F that no variable       *)
(* holds, so the invariant says that there is one; `rank' falls along the  *)
(* list, which therefore has no cycle.                                     *)
(***************************************************************************)
EXTENDS Allocator, FiniteSetTheorems, WellFoundedInduction, TLAPS

(* Every set of numbers has a least element: the proofs by induction take  *)
(* the least counterexample.                                               *)
LEMMA Least ==
  ASSUME NEW T \in SUBSET Nat, T # {}
  PROVE  \E m \in T : \A n \in T : m <= n
<1> DEFINE R == OpToRel(<, Nat)
<1>1. IsWellFoundedOn(R, Nat)
  BY NatLessThanWellFounded
<1>2. \A x, y \in Nat : x < y => <<x, y>> \in R
  BY DEF OpToRel
<1> HIDE DEF R
<1>3. PICK m \in T : \A n \in T : ~ (<<n, m>> \in R)
  BY <1>1, WFMin
<1>4. \A n \in T : n \in Nat /\ m \in Nat /\ ~ (n < m)
  BY <1>2, <1>3
<1>5. \A n \in T : m <= n
  BY <1>4
<1> QED
  BY <1>5

(* What holds of 0 and of n + 1 whenever it holds of n holds up to any     *)
(* bound.                                                                  *)
LEMMA UpTo ==
  ASSUME NEW S, NEW b \in Nat, 0 \in S,
         \A n \in 0 .. b - 1 : n \in S => n + 1 \in S
  PROVE  \A n \in 0 .. b : n \in S
<1> DEFINE T == {n \in 0 .. b : n \notin S}
<1>1. SUFFICES ASSUME T # {} PROVE FALSE
  OBVIOUS
<1>2. PICK m \in T : \A n \in T : m <= n
  <2>1. T \in SUBSET Nat
    OBVIOUS
  <2> QED
    BY <1>1, <2>1, Least
<1>3. m \in 0 .. b /\ m \notin S
  OBVIOUS
<1>4. m # 0
  BY <1>3
<1>5. m - 1 \in 0 .. b - 1 /\ m - 1 \in 0 .. b /\ ~ (m <= m - 1) /\ (m - 1) + 1 = m
  BY <1>3, <1>4
<1>6. m - 1 \in S
  BY <1>2, <1>5
<1>7. m \in S
  BY <1>5, <1>6
<1> QED
  BY <1>3, <1>7

-----------------------------------------------------------------------------
(* Cells and addresses.                                                    *)
Cells == 0 .. heap_words - 1
Values == Nat \cup Clients \cup {Unset}

Addr(w) == ALIGNMENT * (w + 1)
Span(h, w) == h[w] \div ALIGNMENT

(* The heap's constants.                                                   *)
LEMMA HeapFacts ==
  /\ heap_words \in Nat /\ heap_words >= 3
  /\ Words = 0 .. heap_words + 1 /\ heap_size = 8 * heap_words
  /\ Null = 0 /\ HEADER_SIZE = 24 /\ ALIGNMENT = 8
BY AllocatorAssumption DEF Words, heap_size, Null, HEADER_SIZE, ALIGNMENT

(* The address of a cell leads back to the cell.                           *)
LEMMA AddrFacts ==
  ASSUME NEW w \in Nat
  PROVE  /\ Addr(w) \in Nat /\ Addr(w) # Null
         /\ SizeAt(Addr(w)) = w /\ FreeAt(Addr(w)) = w + 1
         /\ NextAt(Addr(w)) = w + 2
         /\ \A n \in Nat : Addr(w) + 8 * n = Addr(w + n)
         /\ \A v \in Nat : Addr(v) = Addr(w) => v = w
<1>1. Addr(w) = 8 * w + 8 /\ Addr(w) \in Nat
  BY DEF Addr, ALIGNMENT
<1>2. Word(Addr(w)) = w
  BY <1>1 DEF Word, Start, ALIGNMENT
<1>3. ASSUME NEW n \in Nat PROVE Addr(w) + 8 * n = Addr(w + n)
  BY DEF Addr, ALIGNMENT
<1>4. ASSUME NEW v \in Nat, Addr(v) = Addr(w) PROVE v = w
  BY <1>4 DEF Addr, ALIGNMENT
<1> QED
  BY <1>1, <1>2, <1>3, <1>4 DEF SizeAt, FreeAt, NextAt, Null

(* Addresses tell cells apart.                                             *)
LEMMA AddrIds ==
  /\ \A w \in Nat : Addr(w) # Null
  /\ \A w, v \in Nat : Addr(w) = Addr(v) => w = v
BY AddrFacts

(* A block's end, as coalesce computes it.                                 *)
LEMMA AddrPlus ==
  ASSUME NEW w \in Nat, NEW n \in Nat
  PROVE  Addr(w) + 8 * n = Addr(w + n) /\ w + n \in Nat
BY DEF Addr, ALIGNMENT

(* Sizes of blocks: whole words, room for a header, and two blocks can be  *)
(* merged.                                                                 *)
BlockSizes(T) ==
  /\ \A t \in T : t \in Nat /\ t >= HEADER_SIZE /\ \E k \in Nat : t = 8 * k
  /\ \A s, t \in T : s + t \in T

(* A block's size in words.                                                *)
LEMMA SpanFacts ==
  ASSUME NEW T, BlockSizes(T), NEW h, NEW w, h[w] \in T
  PROVE  Span(h, w) \in Nat /\ Span(h, w) >= 3 /\ h[w] = 8 * Span(h, w)
<1>1. PICK k \in Nat : h[w] = 8 * k
  BY DEF BlockSizes
<1>2. (8 * k) \div 8 = k
  OBVIOUS
<1>3. 8 * k >= 24
  BY <1>1 DEF BlockSizes, HEADER_SIZE, ALIGNMENT
<1> QED
  BY <1>1, <1>2, <1>3 DEF Span, ALIGNMENT

(* A request that does not wrap, in words.                                 *)
Data(size) == (size + ALIGNMENT - 1) \div ALIGNMENT

Whole(size) ==
  /\ size \in Nat \ {0} /\ Data(size) \in Nat \ {0}
  /\ TotalSize(size) = 8 * (3 + Data(size))

(* What size_t keeps of a sum is the sum, or less by as much as can be     *)
(* counted.                                                                *)
LEMMA SizeTFacts ==
  ASSUME NEW n \in Nat
  PROVE  SizeT(n) \in Nat /\ (SizeT(n) = n \/ SizeT(n) + SIZE_MAX + 1 <= n)
<1> DEFINE M == SIZE_MAX + 1
<1>1. M \in Nat \ {0} /\ SIZE_MAX \in Nat
  BY AllocatorAssumption
<1>2. SizeT(n) = n % M
  BY DEF SizeT
<1> HIDE DEF M
<1> DEFINE r == n % M
<1>3. r \in Nat /\ n = M * (n \div M) + r /\ n \div M \in Nat
  BY <1>1
<1> HIDE DEF r
<1>4. PICK q \in Nat : n = M * q + r
  BY <1>3
<1>5. r = n \/ M + r <= n
  <2>1. CASE q = 0
    BY <1>1, <1>3, <1>4, <2>1
  <2>2. CASE q # 0
    <3>1. M * q = M + M * (q - 1) /\ M * (q - 1) \in Nat
      BY <1>1, <2>2
    <3> DEFINE z == M * (q - 1)
    <3> HIDE DEF z
    <3>2. n = M + z + r /\ z \in Nat
      BY <1>4, <3>1 DEF z
    <3> QED
      BY <1>1, <1>3, <3>2
  <2> QED
    BY <2>1, <2>2
<1> QED
  BY <1>1, <1>2, <1>3, <1>5 DEF M, r

(* A request whose total is no less than what is asked for has not wrapped.*)
LEMMA TotalFacts ==
  ASSUME NEW size \in Sizes, size # 0, TotalSize(size) >= HEADER_SIZE + size
  PROVE  Whole(size)
<1>1. /\ size \in Nat \ {0} /\ size <= SIZE_MAX
      /\ SIZE_MAX \in Nat /\ SIZE_MAX >= 24
  BY HeapFacts, AllocatorAssumption
<1> DEFINE a == SizeT(size + 7)
           k == a \div 8
           t == SizeT(24 + 8 * k)
<1>2. TotalSize(size) = t /\ t >= 24 + size
  <2>1. ALIGN(size) = (SizeT(size + 8 - 1) \div 8) * 8
    BY DEF ALIGN, ALIGNMENT
  <2>2. size + 8 - 1 = size + 7
    BY <1>1
  <2>3. a \in Nat
    BY <1>1, SizeTFacts
  <2>4. ALIGN(size) = 8 * k
    BY <2>1, <2>2, <2>3
  <2>5. TotalSize(size) = t
    BY <2>4, HeapFacts DEF TotalSize
  <2> QED
    BY <2>5, HeapFacts
<1>3. a \in Nat /\ (a = size + 7 \/ a + SIZE_MAX + 1 <= size + 7)
  BY <1>1, SizeTFacts
<1> HIDE DEF a
<1>4. k \in Nat /\ 8 * k <= a /\ a < 8 * k + 8
  BY <1>3
<1> HIDE DEF k
<1>5. t \in Nat /\ (t = 24 + 8 * k \/ t + SIZE_MAX + 1 <= 24 + 8 * k)
  BY <1>4, SizeTFacts
<1> HIDE DEF t
<1>6. t = 24 + 8 * k /\ a = size + 7
  BY <1>1, <1>2, <1>3, <1>4, <1>5
<1>7. Data(size) = (size + 7) \div 8
  BY <1>1 DEF Data, ALIGNMENT
<1>8. Data(size) = k
  BY <1>6, <1>7 DEF k
<1>9. k # 0
  BY <1>1, <1>4, <1>6
<1> QED
  BY <1>1, <1>2, <1>4, <1>6, <1>8, <1>9 DEF Whole

-----------------------------------------------------------------------------
(* The shape of the heap in a memory h, whose list begins at `first'.      *)

(* The blocks with cells in B share out the heap.                          *)
Apart(h, w, v) == w + Span(h, w) <= v \/ v + Span(h, v) <= w

Tiles(h, T, B) ==
  /\ \A w \in B : h[w] \in T /\ w + Span(h, w) <= heap_words
  /\ \A w, v \in B : w # v => Apart(h, w, v)
  /\ \A x \in Cells : \E w \in B : w <= x /\ x < w + Span(h, w)

(* The list runs through the blocks of F, in the order of their ranks.     *)
Leads(first, F, rank) ==
  \/ first = Null /\ F = {}
  \/ \E v \in F : first = Addr(v) /\ \A u \in F : rank[u] <= rank[v]

Follows(next, w, F, rank) ==
  \/ next = Null /\ \A u \in F : rank[w] <= rank[u]
  \/ \E v \in F : /\ next = Addr(v) /\ rank[v] < rank[w]
                 /\ \A u \in F : rank[u] <= rank[v] \/ rank[w] <= rank[u]

Linked(h, first, F, rank) ==
  /\ Leads(first, F, rank)
  /\ \A w \in F : Follows(h[w + 2], w, F, rank)
  /\ \A w, v \in F : rank[w] = rank[v] => w = v

HeapInv(h, first, T, F, H, rank) ==
  /\ h \in [Words -> Values]
  /\ F \subseteq Cells /\ H \subseteq Cells /\ F \cap H = {}
  /\ rank \in [Cells -> Nat]
  /\ Tiles(h, T, F \cup H)
  /\ \A w \in F : h[w + 1] = 1
  /\ \A w \in H : h[w + 1] = 0
  /\ Linked(h, first, F, rank)

-----------------------------------------------------------------------------
(* Walking the free list.                                                  *)

(* The recursive function of FreeList is well defined.                     *)
LEMMA ListWalk ==
  ASSUME NEW h, NEW first
  PROVE  /\ FreeList(h, first)[0] = first
         /\ \A i \in 0 .. heap_words - 1 :
              FreeList(h, first)[i + 1]
                = IF FreeList(h, first)[i] = Null THEN Null
                  ELSE h[NextAt(FreeList(h, first)[i])]
<1> DEFINE After(x) == IF x = Null THEN Null ELSE h[NextAt(x)]
           Walk(f, n) == f = [i \in 0 .. n |-> IF i = 0 THEN first
                                              ELSE After(f[i - 1])]
           S == {n \in Nat : \E f : Walk(f, n)}
<1>1. FreeList(h, first) = CHOOSE f : Walk(f, heap_words)
  BY DEF FreeList
<1> HIDE DEF After
<1>2. 0 \in S
  <2> DEFINE f == [i \in 0 .. 0 |-> first]
  <2>1. Walk(f, 0)
    OBVIOUS
  <2> QED
    BY <2>1
<1>3. ASSUME NEW n \in 0 .. heap_words - 1, n \in S PROVE n + 1 \in S
  <2>1. PICK g : Walk(g, n)
    BY <1>3
  <2> DEFINE f == [i \in 0 .. n + 1 |-> IF i = n + 1 THEN After(g[n]) ELSE g[i]]
  <2>2. \A i \in 0 .. n + 1 : f[i] = IF i = 0 THEN first ELSE After(f[i - 1])
    <3> SUFFICES ASSUME NEW i \in 0 .. n + 1
                 PROVE  f[i] = IF i = 0 THEN first ELSE After(f[i - 1])
      OBVIOUS
    <3>1. CASE i = n + 1
      BY <3>1
    <3>2. CASE i # n + 1 /\ i # 0
      <4>1. i \in 0 .. n /\ i - 1 \in 0 .. n + 1 /\ i - 1 # n + 1
        BY <3>2
      <4>2. f[i] = g[i] /\ f[i - 1] = g[i - 1]
        BY <4>1
      <4>3. g[i] = After(g[i - 1])
        BY <2>1, <3>2, <4>1
      <4> QED
        BY <3>2, <4>2, <4>3
    <3>3. CASE i = 0
      <4>1. 0 \in 0 .. n /\ 0 # n + 1 /\ 0 \in 0 .. n + 1
        OBVIOUS
      <4>2. g[0] = first
        BY <2>1, <4>1
      <4> QED
        BY <3>3, <4>1, <4>2
    <3> QED
      BY <3>1, <3>2, <3>3
  <2>3. Walk(f, n + 1)
    BY <2>2
  <2> HIDE DEF Walk, f
  <2>4. n + 1 \in Nat
    OBVIOUS
  <2> QED
    BY <2>3, <2>4
<1> HIDE DEF S
<1>4. heap_words \in S
  BY <1>2, <1>3, HeapFacts, UpTo
<1>5. Walk(FreeList(h, first), heap_words)
  <2>1. \E f : Walk(f, heap_words)
    BY <1>4 DEF S
  <2> HIDE DEF Walk
  <2> QED
    BY <1>1, <2>1
<1> DEFINE at == FreeList(h, first)
<1> HIDE DEF at
<1>6. \A i \in 0 .. heap_words : at[i] = IF i = 0 THEN first ELSE After(at[i - 1])
  BY <1>5 DEF at
<1>7. at[0] = first
  BY <1>6, HeapFacts
<1>8. ASSUME NEW i \in 0 .. heap_words - 1 PROVE at[i + 1] = After(at[i])
  <2>1. i + 1 \in 0 .. heap_words /\ i + 1 # 0 /\ (i + 1) - 1 = i
    BY HeapFacts
  <2> QED
    BY <1>6, <2>1
<1> QED
  BY <1>7, <1>8 DEF at, After

(* The list stays among the blocks of F, and its ranks fall.               *)
LEMMA ListInF ==
  ASSUME NEW h, NEW first, NEW T, NEW F, NEW H, NEW rank,
         HeapInv(h, first, T, F, H, rank), NEW i \in 0 .. heap_words
  PROVE  \/ FreeList(h, first)[i] = Null
         \/ \E v \in F : FreeList(h, first)[i] = Addr(v)
<1> DEFINE at == FreeList(h, first)
           S == {n \in 0 .. heap_words : at[n] = Null \/ \E v \in F : at[n] = Addr(v)}
<1>1. F \subseteq Nat
  BY HeapFacts DEF HeapInv, Cells
<1>2. 0 \in S
  BY ListWalk, HeapFacts DEF HeapInv, Linked, Leads
<1>3. ASSUME NEW n \in 0 .. heap_words - 1, n \in S PROVE n + 1 \in S
  <2>1. n + 1 \in 0 .. heap_words
    BY HeapFacts
  <2>2. at[n + 1] = IF at[n] = Null THEN Null ELSE h[NextAt(at[n])]
    BY ListWalk
  <2>3. CASE at[n] = Null
    BY <2>1, <2>2, <2>3
  <2>4. CASE \E v \in F : at[n] = Addr(v)
    <3>1. PICK v \in F : at[n] = Addr(v)
      BY <2>4
    <3>2. at[n + 1] = h[v + 2]
      BY <1>1, <2>2, <3>1, AddrFacts
    <3> QED
      BY <2>1, <3>2 DEF HeapInv, Linked, Follows
  <2> QED
    BY <1>3, <2>3, <2>4
<1> HIDE DEF S
<1>4. i \in S
  BY <1>2, <1>3, HeapFacts, UpTo
<1> QED
  BY <1>4 DEF S

(* The blocks met along the list have falling ranks.                       *)
LEMMA ListFalls ==
  ASSUME NEW h, NEW first, NEW T, NEW F, NEW H, NEW rank,
         HeapInv(h, first, T, F, H, rank),
         NEW i \in 0 .. heap_words, NEW j \in 0 .. heap_words, i < j,
         FreeList(h, first)[j] # Null
  PROVE  \E w, v \in F : /\ FreeList(h, first)[i] = Addr(w)
                         /\ FreeList(h, first)[j] = Addr(v)
                         /\ rank[v] < rank[w]
<1> DEFINE at == FreeList(h, first)
           P(n) == \E w, v \in F : /\ at[i] = Addr(w) /\ at[n] = Addr(v)
                                   /\ rank[v] < rank[w]
           S == {n \in 0 .. heap_words : i < n /\ at[n] # Null => P(n)}
<1>1. F \subseteq Nat /\ \A w \in F : rank[w] \in Nat
  BY HeapFacts DEF HeapInv, Cells
<1>2. 0 \in S
  BY HeapFacts
<1>3. ASSUME NEW n \in 0 .. heap_words - 1, n \in S PROVE n + 1 \in S
  <2>1. n + 1 \in 0 .. heap_words /\ n \in 0 .. heap_words
    BY HeapFacts
  <2> SUFFICES ASSUME i < n + 1, at[n + 1] # Null PROVE P(n + 1)
    BY <2>1
  <2>2. at[n + 1] = IF at[n] = Null THEN Null ELSE h[NextAt(at[n])]
    BY ListWalk
  <2>3. PICK u \in F : at[n] = Addr(u)
    BY <2>1, <2>2, ListInF
  <2>4. at[n + 1] = h[u + 2]
    BY <1>1, <2>2, <2>3, AddrFacts
  <2>5. PICK v \in F : at[n + 1] = Addr(v) /\ rank[v] < rank[u]
    BY <2>4 DEF HeapInv, Linked, Follows
  <2>6. CASE i = n
    BY <2>3, <2>5, <2>6
  <2>7. CASE i < n
    <3>1. at[n] # Null
      BY <2>2
    <3>2. PICK w \in F, x \in F : at[i] = Addr(w) /\ at[n] = Addr(x) /\ rank[x] < rank[w]
      BY <1>3, <2>7, <3>1
    <3>3. x = u
      BY <1>1, <2>3, <3>2, AddrFacts
    <3>4. rank[v] < rank[w]
      BY <1>1, <2>5, <3>2, <3>3
    <3> QED
      BY <2>5, <3>2, <3>4
  <2> QED
    BY <2>6, <2>7
<1> HIDE DEF S
<1>4. j \in S
  BY <1>2, <1>3, HeapFacts, UpTo
<1> QED
  BY <1>4 DEF S

(* The list ends within heap_words blocks.                                 *)
LEMMA ListEnds ==
  ASSUME NEW h, NEW first, NEW T, NEW F, NEW H, NEW rank,
         HeapInv(h, first, T, F, H, rank)
  PROVE  FreeList(h, first)[heap_words] = Null
<1> DEFINE at == FreeList(h, first)
           S == 0 .. heap_words
           A == {Addr(w) : w \in Cells}
           g == [i \in S |-> at[i]]
<1>1. SUFFICES ASSUME at[heap_words] # Null PROVE FALSE
  OBVIOUS
<1>2. F \subseteq Cells /\ Cells \subseteq Nat /\ \A w \in F : rank[w] \in Nat
  BY HeapFacts DEF HeapInv, Cells
<1>20. heap_words \in 0 .. heap_words
  BY HeapFacts
<1>21. ASSUME NEW i \in 0 .. heap_words PROVE \E w \in F : at[i] = Addr(w)
  <2>1. CASE i = heap_words
    BY <1>1, <1>20, <2>1, ListInF
  <2>2. CASE i < heap_words
    <3>1. \E w, v \in F : /\ at[i] = Addr(w) /\ at[heap_words] = Addr(v)
                         /\ rank[v] < rank[w]
      BY <1>1, <1>20, <2>2, ListFalls
    <3> QED
      BY <3>1
  <2> QED
    BY <2>1, <2>2, HeapFacts
<1>3. ASSUME NEW i \in S PROVE at[i] \in A
  BY <1>2, <1>21
<1>4. ASSUME NEW i \in S, NEW j \in S, i < j PROVE at[i] # at[j]
  <2>1. at[j] # Null
    <3>1. PICK w \in F : at[j] = Addr(w)
      BY <1>21
    <3> QED
      BY <1>2, <3>1, AddrIds
  <2>2. QED
    <3>1. PICK w \in F, v \in F : at[i] = Addr(w) /\ at[j] = Addr(v) /\ rank[v] < rank[w]
      BY <1>4, <2>1, ListFalls
    <3>2. w # v
      BY <1>2, <3>1
    <3> QED
      BY <1>2, <3>1, <3>2, AddrFacts
<1>5. \A i, j \in S : i < j \/ j < i \/ i = j
  BY HeapFacts
<1>6. IsFiniteSet(Cells) /\ Cardinality(Cells) = heap_words
  BY HeapFacts, FS_Interval DEF Cells
<1>7. IsFiniteSet(A) /\ Cardinality(A) <= heap_words
  <2> DEFINE f == [w \in Cells |-> Addr(w)]
  <2>1. \A w, v \in Cells : Addr(w) = Addr(v) => w = v
    BY <1>2, AddrFacts
  <2>2. f \in Bijection(Cells, A)
    BY <2>1 DEF Bijection, Injection, Surjection, IsInjective
  <2>3. ExistsBijection(Cells, A)
    BY <2>2 DEF ExistsBijection
  <2>4. IsFiniteSet(A) /\ Cardinality(A) = Cardinality(Cells)
    BY <1>6, <2>3, FS_Bijection
  <2> QED
    BY <1>6, <2>4, HeapFacts
<1>8. IsFiniteSet(S) /\ Cardinality(S) = heap_words + 1
  BY HeapFacts, FS_Interval
<1> HIDE DEF S, A
<1>9. g \in Injection(S, A)
  BY <1>3, <1>4, <1>5 DEF Injection, IsInjective
<1>10. Cardinality(S) <= Cardinality(A)
  BY <1>7, <1>9, FS_Injection
<1>11. Cardinality(A) \in Nat
  BY <1>7, FS_CardinalityType
<1> QED
  BY <1>7, <1>8, <1>10, <1>11, HeapFacts

(* The list meets every block of F, and no other.                          *)
LEMMA ListIsF ==
  ASSUME NEW h, NEW first, NEW T, NEW F, NEW H, NEW rank,
         HeapInv(h, first, T, F, H, rank)
  PROVE  {FreeList(h, first)[i] : i \in 0 .. heap_words} \ {Null}
           = {Addr(w) : w \in F}
<1> DEFINE at == FreeList(h, first)
           Met(n) == {u \in F : \E i \in 0 .. n : at[i] = Addr(u)}
           S == {n \in 0 .. heap_words :
                   \/ at[n] = Null /\ F \subseteq Met(n)
                   \/ \E w \in F : /\ at[n] = Addr(w)
                                   /\ \A u \in F : rank[u] >= rank[w] => u \in Met(n)}
<1>1. F \subseteq Nat /\ \A w \in F : rank[w] \in Nat
  BY HeapFacts DEF HeapInv, Cells
<1>2. 0 \in S
  <2>1. at[0] = first /\ 0 \in 0 .. heap_words
    BY ListWalk, HeapFacts
  <2>2. CASE first = Null /\ F = {}
    BY <2>1, <2>2
  <2>3. ASSUME NEW v \in F, first = Addr(v), \A u \in F : rank[u] <= rank[v]
        PROVE  0 \in S
    <3>1. v \in Met(0)
      BY <2>1, <2>3
    <3>2. \A u \in F : rank[u] >= rank[v] => rank[u] = rank[v]
      BY <1>1, <2>3
    <3>3. \A u \in F : rank[u] >= rank[v] => u = v
      BY <3>2 DEF HeapInv, Linked
    <3> QED
      BY <2>1, <2>3, <3>1, <3>3
  <2> QED
    BY <2>2, <2>3 DEF HeapInv, Linked, Leads
<1>3. ASSUME NEW n \in 0 .. heap_words - 1, n \in S PROVE n + 1 \in S
  <2>1. n + 1 \in 0 .. heap_words /\ n \in 0 .. heap_words
    BY HeapFacts
  <2>2. at[n + 1] = IF at[n] = Null THEN Null ELSE h[NextAt(at[n])]
    BY ListWalk
  <2>3. Met(n) \subseteq Met(n + 1)
    OBVIOUS
  <2>4. CASE at[n] = Null /\ F \subseteq Met(n)
    BY <2>1, <2>2, <2>3, <2>4
  <2>5. ASSUME NEW w \in F, at[n] = Addr(w),
               \A u \in F : rank[u] >= rank[w] => u \in Met(n)
        PROVE  n + 1 \in S
    <3>1. at[n + 1] = h[w + 2]
      BY <1>1, <2>2, <2>5, AddrFacts
    <3>2. CASE h[w + 2] = Null /\ \A u \in F : rank[w] <= rank[u]
      <4>1. F \subseteq Met(n)
        BY <1>1, <2>5, <3>2
      <4> QED
        BY <2>1, <2>3, <3>1, <3>2, <4>1
    <3>3. ASSUME NEW v \in F, h[w + 2] = Addr(v), rank[v] < rank[w],
                 \A u \in F : rank[u] <= rank[v] \/ rank[w] <= rank[u]
          PROVE  n + 1 \in S
      <4>1. v \in Met(n + 1)
        BY <2>1, <3>1, <3>3
      <4>2. ASSUME NEW u \in F, rank[u] >= rank[v] PROVE u \in Met(n + 1)
        <5>1. CASE rank[u] = rank[v]
          BY <4>1, <5>1 DEF HeapInv, Linked
        <5>2. CASE rank[w] <= rank[u]
          BY <1>1, <2>3, <2>5, <5>2
        <5> QED
          BY <1>1, <3>3, <4>2, <5>1, <5>2
      <4> QED
        BY <2>1, <3>1, <3>3, <4>2
    <3> QED
      BY <3>2, <3>3 DEF HeapInv, Linked, Follows
  <2> QED
    BY <1>3, <2>4, <2>5
<1> HIDE DEF S
<1>4. heap_words \in S
  BY <1>2, <1>3, HeapFacts, UpTo
<1>5. F \subseteq Met(heap_words)
  <2>1. at[heap_words] = Null
    BY ListEnds
  <2>2. \A w \in F : at[heap_words] # Addr(w)
    BY <1>1, <2>1, AddrIds
  <2> QED
    BY <1>4, <2>2 DEF S
<1>6. \A i \in 0 .. heap_words : at[i] = Null \/ \E v \in F : at[i] = Addr(v)
  BY ListInF
<1>7. \A v \in F : Addr(v) # Null
  BY <1>1, AddrIds
<1> HIDE DEF at
<1>8. {at[i] : i \in 0 .. heap_words} \ {Null} = {Addr(w) : w \in F}
  BY <1>5, <1>6, <1>7
<1> QED
  BY <1>8 DEF at

-----------------------------------------------------------------------------
(* Changing the free list.                                                 *)

(* The block at w leaves the list: it was the first, or the block at b was *)
(* before it.                                                              *)
LEMMA LinkedWithout ==
  ASSUME NEW h, NEW first, NEW F \in SUBSET Nat, NEW rank,
         \A x \in F : rank[x] \in Nat, Linked(h, first, F, rank),
         NEW w \in F, NEW h2, NEW first2,
         \/ /\ first = Addr(w) /\ first2 = h[w + 2]
            /\ \A x \in F \ {w} : h2[x + 2] = h[x + 2]
         \/ /\ first2 = first
            /\ \E b \in F : /\ h[b + 2] = Addr(w) /\ h2[b + 2] = h[w + 2]
                            /\ \A x \in F \ {w, b} : h2[x + 2] = h[x + 2]
  PROVE  Linked(h2, first2, F \ {w}, rank)
<1> DEFINE G == F \ {w}
<1>1. \A x, y \in F : rank[x] = rank[y] => x = y
  BY DEF Linked
<1>2. Follows(h[w + 2], w, F, rank)
  BY DEF Linked
<1>3. ASSUME NEW x \in G, h[x + 2] # Addr(w)
      PROVE  Follows(h[x + 2], x, G, rank)
  <2>1. Follows(h[x + 2], x, F, rank)
    BY DEF Linked
  <2> QED
    BY <1>3, <2>1 DEF Follows
<1>4. ASSUME NEW x \in F, h[x + 2] = Addr(w)
      PROVE  /\ x # w /\ rank[w] < rank[x]
             /\ \A u \in F : rank[u] <= rank[w] \/ rank[x] <= rank[u]
  <2>1. Follows(h[x + 2], x, F, rank)
    BY DEF Linked
  <2>2. Addr(w) # Null /\ \A v \in F : Addr(v) = Addr(w) => v = w
    BY AddrIds
  <2>3. /\ rank[w] < rank[x]
        /\ \A u \in F : rank[u] <= rank[w] \/ rank[x] <= rank[u]
    BY <1>4, <2>1, <2>2 DEF Follows
  <2>4. rank[w] \in Nat /\ rank[x] \in Nat
    OBVIOUS
  <2>5. x # w
    BY <2>3, <2>4
  <2> QED
    BY <2>3, <2>5
<1>5. ASSUME NEW b \in F, h[b + 2] = Addr(w)
      PROVE  Follows(h[w + 2], b, G, rank)
  <2>1. /\ b # w /\ rank[w] < rank[b]
        /\ \A u \in F : rank[u] <= rank[w] \/ rank[b] <= rank[u]
    BY <1>4, <1>5
  <2>2. CASE h[w + 2] = Null /\ \A u \in F : rank[w] <= rank[u]
    <3>1. ASSUME NEW u \in G PROVE rank[b] <= rank[u]
      <4>1. rank[u] \in Nat /\ rank[w] \in Nat /\ rank[u] # rank[w]
        BY <1>1
      <4>2. rank[w] <= rank[u] /\ (rank[u] <= rank[w] \/ rank[b] <= rank[u])
        BY <2>1, <2>2
      <4> QED
        BY <4>1, <4>2
    <3> QED
      BY <2>2, <3>1 DEF Follows
  <2>3. ASSUME NEW v \in F, h[w + 2] = Addr(v), rank[v] < rank[w],
               \A u \in F : rank[u] <= rank[v] \/ rank[w] <= rank[u]
        PROVE  Follows(h[w + 2], b, G, rank)
    <3>1. v \in G /\ rank[v] < rank[b]
      <4>1. rank[v] \in Nat /\ rank[w] \in Nat /\ rank[b] \in Nat
        OBVIOUS
      <4>2. v # w /\ rank[v] < rank[b]
        BY <2>1, <2>3, <4>1
      <4> QED
        BY <4>2
    <3>2. ASSUME NEW u \in G PROVE rank[u] <= rank[v] \/ rank[b] <= rank[u]
      BY <1>1, <2>1, <2>3
    <3> QED
      BY <2>3, <3>1, <3>2 DEF Follows
  <2> QED
    BY <1>2, <2>2, <2>3 DEF Follows
<1>6. CASE /\ first = Addr(w) /\ first2 = h[w + 2]
           /\ \A x \in F \ {w} : h2[x + 2] = h[x + 2]
  <2>1. \A u \in F : rank[u] <= rank[w]
    <3>1. Addr(w) # Null /\ \A v \in F : Addr(v) = Addr(w) => v = w
      BY AddrIds
    <3> QED
      BY <1>6, <3>1 DEF Linked, Leads
  <2>2. \A x \in G : h[x + 2] # Addr(w)
    <3> SUFFICES ASSUME NEW x \in G, h[x + 2] = Addr(w) PROVE FALSE
      OBVIOUS
    <3>1. rank[w] < rank[x] /\ rank[x] <= rank[w]
      BY <1>4, <2>1
    <3> QED
      BY <3>1
  <2>3. \A x \in G : Follows(h2[x + 2], x, G, rank)
    BY <1>3, <1>6, <2>2
  <2>4. CASE h[w + 2] = Null /\ \A u \in F : rank[w] <= rank[u]
    <3>1. G = {}
      BY <1>1, <2>1, <2>4
    <3> QED
      BY <1>1, <1>6, <2>3, <2>4, <3>1 DEF Linked, Leads
  <2>5. ASSUME NEW v \in F, h[w + 2] = Addr(v), rank[v] < rank[w],
               \A u \in F : rank[u] <= rank[v] \/ rank[w] <= rank[u]
        PROVE  Linked(h2, first2, G, rank)
    <3>1. v \in G
      BY <2>5
    <3>2. \A u \in G : rank[u] <= rank[v]
      BY <1>1, <2>1, <2>5
    <3>3. Leads(first2, G, rank)
      BY <1>6, <2>5, <3>1, <3>2 DEF Leads
    <3> QED
      BY <1>1, <2>3, <3>3 DEF Linked
  <2> QED
    BY <1>2, <2>4, <2>5 DEF Follows
<1>7. ASSUME NEW b \in F, first2 = first, h[b + 2] = Addr(w), h2[b + 2] = h[w + 2],
             \A x \in F \ {w, b} : h2[x + 2] = h[x + 2]
      PROVE  Linked(h2, first2, G, rank)
  <2>1. Follows(h2[b + 2], b, G, rank)
    BY <1>5, <1>7
  <2>2. ASSUME NEW x \in G, x # b PROVE h[x + 2] # Addr(w)
    <3> SUFFICES ASSUME h[x + 2] = Addr(w) PROVE FALSE
      OBVIOUS
    <3>1. /\ rank[w] < rank[x] /\ (rank[b] <= rank[w] \/ rank[x] <= rank[b])
          /\ rank[w] < rank[b] /\ (rank[x] <= rank[w] \/ rank[b] <= rank[x])
      BY <1>4, <1>7
    <3>2. rank[x] = rank[b]
      <4>1. rank[x] \in Nat /\ rank[w] \in Nat /\ rank[b] \in Nat
        OBVIOUS
      <4> QED
        BY <3>1, <4>1
    <3> QED
      BY <1>1, <2>2, <3>2
  <2>3. \A x \in G : Follows(h2[x + 2], x, G, rank)
    BY <1>3, <1>7, <2>1, <2>2
  <2>4. Leads(first2, G, rank)
    <3>1. PICK v \in F : first = Addr(v) /\ \A u \in F : rank[u] <= rank[v]
      BY DEF Linked, Leads
    <3>2. v # w
      BY <1>4, <1>7, <3>1
    <3> QED
      BY <1>7, <3>1, <3>2 DEF Leads
  <2> QED
    BY <1>1, <2>3, <2>4 DEF Linked
<1> QED
  BY <1>6, <1>7

(* A new block goes to the front of the list.                              *)
LEMMA LinkedWith ==
  ASSUME NEW h, NEW first, NEW F \in SUBSET Nat, NEW rank,
         \A x \in F : rank[x] \in Nat, Linked(h, first, F, rank),
         NEW w \in Nat, w \notin F, NEW h2, NEW rank2,
         h2[w + 2] = first, \A x \in F : h2[x + 2] = h[x + 2],
         rank2[w] \in Nat,
         \A x \in F : rank2[x] = rank[x] /\ rank[x] < rank2[w]
  PROVE  Linked(h2, Addr(w), F \cup {w}, rank2)
<1> DEFINE G == F \cup {w}
<1>0. \A x \in G : rank2[x] \in Nat /\ rank2[x] <= rank2[w]
  OBVIOUS
<1>1. Leads(Addr(w), G, rank2)
  BY <1>0 DEF Leads
<1>2. ASSUME NEW x \in F PROVE Follows(h2[x + 2], x, G, rank2)
  <2>1. Follows(h[x + 2], x, F, rank)
    BY DEF Linked
  <2> QED
    BY <2>1 DEF Follows
<1>3. Follows(h2[w + 2], w, G, rank2)
  BY DEF Linked, Leads, Follows
<1>4. \A x, y \in G : rank2[x] = rank2[y] => x = y
  <2>1. \A x, y \in F : rank[x] = rank[y] => x = y
    BY DEF Linked
  <2>2. \A x \in F : rank2[x] # rank2[w] /\ rank2[x] = rank[x]
    <3> SUFFICES ASSUME NEW x \in F PROVE rank2[x] # rank2[w] /\ rank2[x] = rank[x]
      OBVIOUS
    <3>1. rank[x] \in Nat /\ rank2[x] = rank[x] /\ rank[x] < rank2[w]
      OBVIOUS
    <3> QED
      BY <3>1
  <2> QED
    BY <2>1, <2>2, Zenon
<1> QED
  BY <1>1, <1>2, <1>3, <1>4 DEF Linked

(* A new block takes the place behind the block at w.                      *)
LEMMA LinkedAfter ==
  ASSUME NEW h, NEW first, NEW F \in SUBSET Nat, NEW rank,
         \A x \in F : rank[x] \in Nat, Linked(h, first, F, rank),
         NEW w \in F, NEW r \in Nat, r \notin F, NEW h2, NEW rank2,
         rank2[r] = 2 * rank[w], \A x \in F : rank2[x] = 2 * rank[x] + 1,
         h2[r + 2] = h[w + 2], h2[w + 2] = Addr(r),
         \A x \in F \ {w} : h2[x + 2] = h[x + 2]
  PROVE  Linked(h2, first, F \cup {r}, rank2)
<1> DEFINE G == F \cup {r}
<1>1. \A x, y \in F : rank[x] = rank[y] => x = y
  BY DEF Linked
<1>2. /\ rank2[r] \in Nat /\ rank2[r] < rank2[w]
      /\ \A x \in F : /\ rank2[x] \in Nat /\ rank2[x] # rank2[r]
                      /\ rank[x] < rank[w] => rank2[x] < rank2[r]
                      /\ rank[w] <= rank[x] => rank2[r] < rank2[x]
  <2>1. ASSUME NEW x \in F
        PROVE  /\ rank2[x] \in Nat /\ rank2[x] # rank2[r] /\ rank2[r] \in Nat
               /\ rank[x] < rank[w] => rank2[x] < rank2[r]
               /\ rank[w] <= rank[x] => rank2[r] < rank2[x]
    <3>1. /\ rank[x] \in Nat /\ rank2[x] = 2 * rank[x] + 1
          /\ rank[w] \in Nat /\ rank2[r] = 2 * rank[w]
      OBVIOUS
    <3> QED
      BY <3>1
  <2>2. rank[w] \in Nat /\ rank[w] <= rank[w]
    OBVIOUS
  <2> QED
    BY <2>1, <2>2
<1>3. ASSUME NEW x \in F, NEW y \in F
      PROVE  /\ rank[x] < rank[y] => rank2[x] < rank2[y]
             /\ rank[x] <= rank[y] => rank2[x] <= rank2[y]
             /\ rank2[x] = rank2[y] => rank[x] = rank[y]
  <2>1. /\ rank[x] \in Nat /\ rank2[x] = 2 * rank[x] + 1
        /\ rank[y] \in Nat /\ rank2[y] = 2 * rank[y] + 1
    OBVIOUS
  <2> QED
    BY <2>1
<1>4. Leads(first, G, rank2)
  <2>1. PICK v \in F : first = Addr(v) /\ \A u \in F : rank[u] <= rank[v]
    BY DEF Linked, Leads
  <2>2. rank2[r] <= rank2[v]
    <3>1. rank[w] <= rank[v] /\ rank2[r] < rank2[v] /\ rank2[r] \in Nat /\ rank2[v] \in Nat
      BY <1>2, <2>1
    <3> QED
      BY <3>1
  <2> QED
    BY <1>3, <2>1, <2>2 DEF Leads
<1>5. ASSUME NEW x \in F, x # w PROVE Follows(h2[x + 2], x, G, rank2)
  <2>1. Follows(h[x + 2], x, F, rank) /\ h2[x + 2] = h[x + 2]
    BY <1>5 DEF Linked
  <2>2. CASE h[x + 2] = Null /\ \A u \in F : rank[x] <= rank[u]
    <3>1. rank[x] < rank[w]
      <4>1. rank[x] \in Nat /\ rank[w] \in Nat /\ rank[x] # rank[w] /\ rank[x] <= rank[w]
        BY <1>1, <1>5, <2>2
      <4> QED
        BY <4>1
    <3>2. rank2[x] <= rank2[r]
      <4>1. rank2[x] \in Nat /\ rank2[r] \in Nat /\ rank2[x] < rank2[r]
        BY <1>2, <3>1
      <4> QED
        BY <4>1
    <3> QED
      BY <1>3, <2>1, <2>2, <3>2 DEF Follows
  <2>3. ASSUME NEW v \in F, h[x + 2] = Addr(v), rank[v] < rank[x],
               \A u \in F : rank[u] <= rank[v] \/ rank[x] <= rank[u]
        PROVE  Follows(h2[x + 2], x, G, rank2)
    <3>1. rank2[r] <= rank2[v] \/ rank2[x] <= rank2[r]
      <4>1. CASE rank[w] <= rank[v]
        <5>1. rank2[v] \in Nat /\ rank2[r] \in Nat /\ rank2[r] < rank2[v]
          BY <1>2, <4>1
        <5> QED
          BY <5>1
      <4>2. CASE rank[x] <= rank[w]
        <5>1. rank[x] < rank[w]
          <6>1. rank[x] \in Nat /\ rank[w] \in Nat /\ rank[x] # rank[w]
            BY <1>1, <1>5
          <6> QED
            BY <4>2, <6>1
        <5>2. rank2[x] \in Nat /\ rank2[r] \in Nat /\ rank2[x] < rank2[r]
          BY <1>2, <5>1
        <5> QED
          BY <5>2
      <4> QED
        BY <2>3, <4>1, <4>2
    <3> QED
      BY <1>3, <2>1, <2>3, <3>1 DEF Follows
  <2> QED
    BY <2>1, <2>2, <2>3 DEF Follows
<1>6. Follows(h2[w + 2], w, G, rank2)
  <2>1. ASSUME NEW u \in F PROVE rank2[u] <= rank2[r] \/ rank2[w] <= rank2[u]
    <3>1. /\ rank[u] \in Nat /\ rank2[u] = 2 * rank[u] + 1
          /\ rank[w] \in Nat /\ rank2[w] = 2 * rank[w] + 1 /\ rank2[r] = 2 * rank[w]
      OBVIOUS
    <3> QED
      BY <3>1
  <2> QED
    BY <1>2, <2>1 DEF Follows
<1>7. Follows(h2[r + 2], r, G, rank2)
  <2>1. Follows(h[w + 2], w, F, rank)
    BY DEF Linked
  <2>2. CASE h[w + 2] = Null /\ \A u \in F : rank[w] <= rank[u]
    <3>1. ASSUME NEW u \in G PROVE rank2[r] <= rank2[u]
      <4>1. rank2[u] \in Nat /\ rank2[r] \in Nat /\ (u = r \/ rank2[r] < rank2[u])
        BY <1>2, <2>2
      <4> QED
        BY <4>1
    <3> QED
      BY <2>2, <3>1 DEF Follows
  <2>3. ASSUME NEW v \in F, h[w + 2] = Addr(v), rank[v] < rank[w],
               \A u \in F : rank[u] <= rank[v] \/ rank[w] <= rank[u]
        PROVE  Follows(h2[r + 2], r, G, rank2)
    <3>1. rank2[v] < rank2[r]
      BY <1>2, <2>3
    <3>2. ASSUME NEW u \in G PROVE rank2[u] <= rank2[v] \/ rank2[r] <= rank2[u]
      <4>1. rank2[u] \in Nat /\ rank2[r] \in Nat
        BY <1>2
      <4>2. u = r \/ rank2[u] <= rank2[v] \/ rank2[r] < rank2[u]
        BY <1>2, <1>3, <2>3
      <4> QED
        BY <4>1, <4>2
    <3> QED
      BY <2>3, <3>1, <3>2 DEF Follows
  <2> QED
    BY <2>1, <2>2, <2>3 DEF Follows
<1>8. \A x, y \in G : rank2[x] = rank2[y] => x = y
  BY <1>1, <1>2, <1>3
<1> QED
  BY <1>4, <1>5, <1>6, <1>7, <1>8 DEF Linked

-----------------------------------------------------------------------------
(* Changing the blocks.                                                    *)

(* The headers of two blocks have no word in common, and none lies behind  *)
(* the heap.                                                               *)
LEMMA HeadersApart ==
  ASSUME NEW T, BlockSizes(T), NEW h, NEW B \in SUBSET Cells, Tiles(h, T, B),
         NEW w \in B
  PROVE  /\ w \in Nat /\ w + 2 < heap_words
         /\ Span(h, w) \in Nat /\ Span(h, w) >= 3 /\ h[w] = 8 * Span(h, w)
         /\ w + Span(h, w) <= heap_words
         /\ \A v \in B :
              v # w => w + Span(h, w) <= v \/ (v + Span(h, v) <= w /\ v + 3 <= w)
<1>1. w \in Nat /\ w + Span(h, w) <= heap_words /\ h[w] \in T
  BY HeapFacts DEF Tiles, Cells
<1>2. Span(h, w) \in Nat /\ Span(h, w) >= 3 /\ h[w] = 8 * Span(h, w)
  BY <1>1, SpanFacts
<1>3. w + 2 < heap_words
  BY <1>1, <1>2, HeapFacts
<1>4. ASSUME NEW v \in B, v # w
      PROVE  w + Span(h, w) <= v \/ (v + Span(h, v) <= w /\ v + 3 <= w)
  <2>1. Apart(h, w, v)
    BY <1>4 DEF Tiles
  <2>2. v \in Nat /\ h[v] \in T
    BY HeapFacts DEF Tiles, Cells
  <2>3. Span(h, v) \in Nat /\ Span(h, v) >= 3
    BY <2>2, SpanFacts
  <2> QED
    BY <1>1, <2>1, <2>2, <2>3 DEF Apart
<1> QED
  BY <1>1, <1>2, <1>3, <1>4

(* Blocks of the same sizes.                                               *)
LEMMA TilesSame ==
  ASSUME NEW T, NEW h, NEW h2, NEW B, Tiles(h, T, B),
         \A w \in B : h2[w] = h[w]
  PROVE  Tiles(h2, T, B)
BY DEF Tiles, Apart, Span

(* A block is cut in two.                                                  *)
LEMMA TilesSplit ==
  ASSUME NEW T, BlockSizes(T), NEW h, NEW h2, NEW B \in SUBSET Cells,
         Tiles(h, T, B), NEW w \in B, NEW k \in Nat, NEW r \in Nat,
         r = w + k, h2[w] = 8 * k, h2[w] \in T,
         h2[r] = h[w] - 8 * k, h2[r] \in T,
         \A v \in B : v # w => h2[v] = h[v]
  PROVE  /\ Tiles(h2, T, B \cup {r}) /\ r \notin B
         /\ r + 2 < w + Span(h, w) /\ k >= 3 /\ r + 2 < heap_words
<1> DEFINE n == Span(h, w)
           C == B \cup {r}
<1>1. /\ w \in Nat /\ n \in Nat /\ n >= 3 /\ h[w] = 8 * n /\ w + n <= heap_words
      /\ \A v \in B : v # w => w + n <= v \/ (v + Span(h, v) <= w /\ v + 3 <= w)
  BY HeadersApart
<1>2. Span(h2, w) = k /\ k >= 3
  BY SpanFacts
<1>3. Span(h2, r) = n - k /\ n - k >= 3
  <2>1. Span(h2, r) \in Nat /\ Span(h2, r) >= 3 /\ h2[r] = 8 * Span(h2, r)
    BY SpanFacts
  <2> QED
    BY <1>1, <2>1
<1>4. ASSUME NEW v \in B, v # w PROVE Span(h2, v) = Span(h, v) /\ h2[v] = h[v]
  BY <1>4 DEF Span
<1>5. \A v \in B : v \in Nat /\ Span(h, v) \in Nat /\ Span(h, v) >= 3
                   /\ v + Span(h, v) <= heap_words
  BY HeadersApart
<1> HIDE DEF n
<1>6. r \notin B
  <2> SUFFICES ASSUME r \in B PROVE FALSE
    OBVIOUS
  <2>1. r # w /\ r < w + n /\ ~ (r + 3 <= w)
    BY <1>1, <1>2, <1>3
  <2> QED
    BY <1>1, <2>1
<1>7. r + 2 < w + n /\ r + 2 < heap_words
  BY <1>1, <1>2, <1>3, HeapFacts
<1>8. ASSUME NEW v \in C PROVE h2[v] \in T /\ v + Span(h2, v) <= heap_words
  <2>1. CASE v = r
    BY <1>1, <1>2, <1>3, <2>1, HeapFacts
  <2>2. CASE v = w
    BY <1>1, <1>2, <1>3, <2>2, HeapFacts
  <2>3. CASE v \in B /\ v # w
    BY <1>4, <2>3 DEF Tiles
  <2> QED
    BY <2>1, <2>2, <2>3
<1>9. ASSUME NEW v \in C, NEW u \in C, v # u PROVE Apart(h2, v, u)
  <2>1. Apart(h2, w, r) /\ Apart(h2, r, w)
    BY <1>2, <1>3 DEF Apart
  <2>2. ASSUME NEW x \in B, x # w
        PROVE  /\ Apart(h2, w, x) /\ Apart(h2, x, w)
               /\ Apart(h2, r, x) /\ Apart(h2, x, r)
    <3>1. w + n <= x \/ x + Span(h, x) <= w
      BY <1>1, <2>2
    <3>2. x \in Nat /\ Span(h, x) \in Nat /\ Span(h2, x) = Span(h, x)
      BY <1>4, <1>5, <2>2
    <3> QED
      BY <1>1, <1>2, <1>3, <3>1, <3>2 DEF Apart
  <2>3. ASSUME NEW x \in B, NEW y \in B, x # w, y # w, x # y
        PROVE  Apart(h2, x, y)
    <3>1. Apart(h, x, y)
      BY <2>3 DEF Tiles
    <3> QED
      BY <1>4, <2>3, <3>1 DEF Apart
  <2> QED
    BY <1>9, <2>1, <2>2, <2>3
<1>10. ASSUME NEW x \in Cells
       PROVE  \E v \in C : v <= x /\ x < v + Span(h2, v)
  <2>1. PICK v \in B : v <= x /\ x < v + Span(h, v)
    BY DEF Tiles
  <2>2. CASE v # w
    BY <1>4, <2>1, <2>2
  <2>3. CASE v = w
    <3>1. x \in Nat /\ w <= x /\ x < w + n
      BY <2>1, <2>3, HeapFacts DEF Cells, n
    <3>2. CASE x < w + k
      BY <1>2, <3>1, <3>2
    <3>3. CASE ~ (x < w + k)
      <4>1. r <= x /\ x < r + Span(h2, r)
        BY <1>1, <1>3, <3>1, <3>3
      <4> QED
        BY <4>1
    <3> QED
      BY <3>2, <3>3
  <2> QED
    BY <2>2, <2>3
<1>11. Tiles(h2, T, C)
  BY <1>8, <1>9, <1>10 DEF Tiles
<1> QED
  BY <1>2, <1>6, <1>7, <1>11 DEF n

(* A block is merged with the one behind it.                               *)
LEMMA TilesMerge ==
  ASSUME NEW T, BlockSizes(T), NEW h, NEW h2, NEW B \in SUBSET Cells,
         Tiles(h, T, B), NEW w \in B, NEW u \in B, w # u,
         w + Span(h, w) = u, h2[w] = h[w] + h[u],
         \A v \in B : v # w /\ v # u => h2[v] = h[v]
  PROVE  Tiles(h2, T, B \ {u})
<1> DEFINE n == Span(h, w)
           m == Span(h, u)
           C == B \ {u}
<1>1. /\ w \in Nat /\ n \in Nat /\ n >= 3 /\ h[w] = 8 * n
      /\ \A v \in B : v # w => w + n <= v \/ v + Span(h, v) <= w
  BY HeadersApart
<1>2. /\ u \in Nat /\ m \in Nat /\ m >= 3 /\ h[u] = 8 * m /\ u + m <= heap_words
      /\ \A v \in B : v # u => u + m <= v \/ v + Span(h, v) <= u
  BY HeadersApart
<1>3. h2[w] \in T
  BY DEF BlockSizes, Tiles
<1>4. Span(h2, w) = n + m
  <2>1. Span(h2, w) \in Nat /\ h2[w] = 8 * Span(h2, w)
    BY <1>3, SpanFacts
  <2> QED
    BY <1>1, <1>2, <2>1
<1>5. ASSUME NEW v \in C, v # w PROVE Span(h2, v) = Span(h, v) /\ h2[v] = h[v]
  BY <1>5 DEF Span
<1>6. \A v \in B : v \in Nat /\ Span(h, v) \in Nat /\ Span(h, v) >= 3
  BY HeadersApart
<1>7. w + n = u
  OBVIOUS
<1> HIDE DEF n, m
<1>8. ASSUME NEW v \in C PROVE h2[v] \in T /\ v + Span(h2, v) <= heap_words
  <2>1. CASE v = w
    <3>1. w + (n + m) <= heap_words
      BY <1>1, <1>2, <1>7, HeapFacts
    <3> QED
      BY <1>3, <1>4, <2>1, <3>1
  <2>2. CASE v # w
    BY <1>5, <2>2 DEF Tiles
  <2> QED
    BY <2>1, <2>2
<1>9. ASSUME NEW v \in C, NEW x \in C, v # x PROVE Apart(h2, v, x)
  <2>1. ASSUME NEW y \in C, y # w PROVE Apart(h2, w, y) /\ Apart(h2, y, w)
    <3>1. y \in Nat /\ Span(h, y) \in Nat /\ Span(h, y) >= 3 /\ Span(h2, y) = Span(h, y)
      BY <1>5, <1>6, <2>1
    <3>2. /\ w + n <= y \/ y + Span(h, y) <= w
          /\ u + m <= y \/ y + Span(h, y) <= u
      BY <1>1, <1>2, <2>1
    <3>3. w + (n + m) <= y \/ y + Span(h, y) <= w
      BY <1>1, <1>2, <1>7, <3>1, <3>2
    <3> QED
      BY <1>4, <3>1, <3>3 DEF Apart
  <2>2. CASE v # w /\ x # w
    <3>1. Apart(h, v, x)
      BY <1>9 DEF Tiles
    <3> QED
      BY <1>5, <2>2, <3>1 DEF Apart
  <2> QED
    BY <1>9, <2>1, <2>2
<1>10. ASSUME NEW x \in Cells
       PROVE  \E v \in C : v <= x /\ x < v + Span(h2, v)
  <2>1. PICK v \in B : v <= x /\ x < v + Span(h, v)
    BY DEF Tiles
  <2>2. CASE v # w /\ v # u
    BY <1>5, <2>1, <2>2
  <2>3. CASE v = w \/ v = u
    <3>1. x \in Nat
      BY HeapFacts DEF Cells
    <3>2. (w <= x /\ x < w + n) \/ (u <= x /\ x < u + m)
      BY <2>1, <2>3 DEF n, m
    <3>3. w <= x /\ x < w + (n + m)
      BY <1>1, <1>2, <1>7, <3>1, <3>2
    <3> QED
      BY <1>4, <3>3
  <2> QED
    BY <2>2, <2>3
<1> QED
  BY <1>8, <1>9, <1>10 DEF Tiles

(* What is not in a free block stays: the blocks of H and the words behind *)
(* the heap.                                                               *)
Kept(h, h2, H) ==
  \A x \in Words :
    x >= heap_words \/ (\E v \in H : v <= x /\ x < v + Span(h, v))
      => h2[x] = h[x]

(* The block at w is the first of the list, or `before' is just before it. *)
Precedes(before, w, h, first, F) ==
  \/ before = Null /\ first = Addr(w)
  \/ \E b \in F : b # w /\ before = Addr(b) /\ h[b + 2] = Addr(w)

(* A block in the list, and the one before it.                             *)
LEMMA ListPlace ==
  ASSUME NEW h, NEW first, NEW T, NEW F, NEW H, NEW rank,
         HeapInv(h, first, T, F, H, rank), NEW i \in 0 .. heap_words,
         NEW p, p = FreeList(h, first)[i], p # Null, NEW before,
         before = IF i = 0 THEN Null ELSE FreeList(h, first)[i - 1]
  PROVE  \E w \in F : p = Addr(w) /\ Precedes(before, w, h, first, F)
<1>1. F \subseteq Nat /\ \A x \in F : rank[x] \in Nat
  BY HeapFacts DEF HeapInv, Cells
<1>2. PICK w \in F : p = Addr(w)
  BY ListInF
<1>3. CASE i = 0
  <2>1. p = first /\ before = Null
    BY <1>3, ListWalk
  <2> QED
    BY <1>2, <2>1 DEF Precedes
<1>4. CASE i # 0
  <2> DEFINE j == i - 1
  <2>1. j \in 0 .. heap_words - 1 /\ j \in 0 .. heap_words /\ j + 1 = i
    BY <1>4, HeapFacts
  <2> HIDE DEF j
  <2>2. p = IF before = Null THEN Null ELSE h[NextAt(before)]
    BY <1>4, <2>1, ListWalk DEF j
  <2>3. PICK b \in F : before = Addr(b)
    BY <1>4, <2>1, <2>2, ListInF DEF j
  <2>4. h[b + 2] = Addr(w)
    BY <1>1, <1>2, <2>2, <2>3, AddrFacts
  <2>5. Follows(h[b + 2], b, F, rank)
    BY DEF HeapInv, Linked
  <2>6. rank[w] < rank[b]
    <3>1. Addr(w) # Null /\ \A v \in F : Addr(v) = Addr(w) => v = w
      BY <1>1, AddrIds
    <3> QED
      BY <2>4, <2>5, <3>1 DEF Follows
  <2>7. b # w
    <3>1. rank[w] \in Nat
      BY <1>1
    <3> QED
      BY <2>6, <3>1
  <2> QED
    BY <1>2, <2>3, <2>4, <2>7 DEF Precedes
<1> QED
  BY <1>3, <1>4

(* Where Unlink writes.                                                    *)
LEMMA UnlinkWrites ==
  ASSUME NEW h \in [Words -> Values], NEW w \in Nat, w + 2 < heap_words,
         NEW before,
         before = Null \/ \E b \in Nat : b + 2 < heap_words /\ before = Addr(b)
  PROVE  /\ Unlink(h, Addr(w), before) \in [Words -> Values]
         /\ \A x \in Words :
              Unlink(h, Addr(w), before)[x]
                = IF x = w + 2 THEN Null
                  ELSE IF before # Null /\ x = NextAt(before) THEN h[w + 2]
                  ELSE IF x = w + 1 THEN 0
                  ELSE h[x]
<1>1. w + 1 \in Words /\ w + 2 \in Words /\ w + 1 # w + 2
  BY HeapFacts
<1>2. FreeAt(Addr(w)) = w + 1 /\ NextAt(Addr(w)) = w + 2
  BY AddrFacts
<1>3. 0 \in Values /\ Null \in Values
  BY DEF Values, Null
<1>4. CASE before = Null
  BY <1>1, <1>2, <1>3, <1>4 DEF Unlink
<1>5. ASSUME NEW b \in Nat, b + 2 < heap_words, before = Addr(b)
      PROVE  /\ Unlink(h, Addr(w), before) \in [Words -> Values]
             /\ \A x \in Words :
                  Unlink(h, Addr(w), before)[x]
                    = IF x = w + 2 THEN Null
                      ELSE IF before # Null /\ x = NextAt(before) THEN h[w + 2]
                      ELSE IF x = w + 1 THEN 0
                      ELSE h[x]
  <2>1. NextAt(before) = b + 2 /\ before # Null
    BY <1>5, AddrFacts
  <2>2. b + 2 \in Words
    BY <1>5, HeapFacts
  <2> QED
    BY <1>1, <1>2, <1>3, <2>1, <2>2 DEF Unlink
<1> QED
  BY <1>4, <1>5

(* Where Split writes.                                                     *)
LEMMA SplitWrites ==
  ASSUME NEW h \in [Words -> Values], NEW w \in Nat, NEW k \in Nat, k >= 3,
         w + k + 2 < heap_words, h[w] \in Nat, h[w] > 8 * k
  PROVE  /\ Split(h, Addr(w), 8 * k) \in [Words -> Values]
         /\ \A x \in Words :
              Split(h, Addr(w), 8 * k)[x]
                = IF x = w + k THEN h[w] - 8 * k
                  ELSE IF x = w + k + 1 THEN 1
                  ELSE IF x = w + k + 2 THEN h[w + 2]
                  ELSE IF x = w THEN 8 * k
                  ELSE IF x = w + 2 THEN Addr(w + k)
                  ELSE h[x]
<1> DEFINE r == w + k
<1>1. /\ r \in Nat /\ r \in Words /\ r + 1 \in Words /\ r + 2 \in Words
      /\ w \in Words /\ w + 2 \in Words /\ w + k + 1 = r + 1 /\ w + k + 2 = r + 2
      /\ w + 3 <= r
  BY HeapFacts
<1>2. /\ SizeAt(Addr(w)) = w /\ NextAt(Addr(w)) = w + 2
      /\ Addr(w) + 8 * k = Addr(r)
  BY AddrFacts
<1>3. /\ SizeAt(Addr(r)) = r /\ FreeAt(Addr(r)) = r + 1 /\ NextAt(Addr(r)) = r + 2
      /\ Addr(r) \in Nat
  BY <1>1, AddrFacts
<1>4. /\ Addr(r) \in Values /\ 1 \in Values /\ 8 * k \in Values
      /\ h[w] - 8 * k \in Values /\ h[w + 2] \in Values
  BY <1>1, <1>3 DEF Values
<1> HIDE DEF r
<1>5. Split(h, Addr(w), 8 * k)
        = [h EXCEPT ![r] = h[w] - 8 * k, ![r + 1] = 1, ![r + 2] = h[w + 2],
                    ![w] = 8 * k, ![w + 2] = Addr(r)]
  BY <1>2, <1>3 DEF Split
<1>6. Split(h, Addr(w), 8 * k) \in [Words -> Values]
  BY <1>4, <1>5
<1>7. \A x \in Words :
        Split(h, Addr(w), 8 * k)[x]
          = IF x = r THEN h[w] - 8 * k
            ELSE IF x = r + 1 THEN 1
            ELSE IF x = r + 2 THEN h[w + 2]
            ELSE IF x = w THEN 8 * k
            ELSE IF x = w + 2 THEN Addr(r)
            ELSE h[x]
  <2>1. r # r + 1 /\ r # r + 2 /\ r + 1 # r + 2 /\ w # w + 2
        /\ \A y \in {r, r + 1, r + 2} : y # w /\ y # w + 2
    BY <1>1
  <2> DEFINE a == r + 1
             b == r + 2
             c == w + 2
  <2> HIDE DEF a, b, c
  <2> SUFFICES \A x \in Words :
                 Split(h, Addr(w), 8 * k)[x]
                   = IF x = r THEN h[w] - 8 * k
                     ELSE IF x = a THEN 1
                     ELSE IF x = b THEN h[c]
                     ELSE IF x = w THEN 8 * k
                     ELSE IF x = c THEN Addr(r)
                     ELSE h[x]
    BY DEF a, b, c
  <2> QED
    BY <1>1, <1>5, <2>1 DEF a, b, c
<1> QED
  BY <1>6, <1>7 DEF r

(* What is written into free blocks touches nothing else.                  *)
LEMMA KeptIf ==
  ASSUME NEW T, BlockSizes(T), NEW h, NEW first, NEW F, NEW H, NEW rank,
         HeapInv(h, first, T, F, H, rank), NEW h2,
         \A x \in Words :
           h2[x] # h[x] => \E w \in F : w <= x /\ x < w + Span(h, w)
  PROVE  Kept(h, h2, H)
<1> SUFFICES ASSUME NEW x \in Words, h2[x] # h[x],
                    x >= heap_words \/ \E v \in H : v <= x /\ x < v + Span(h, v)
             PROVE  FALSE
  BY DEF Kept
<1>1. x \in Nat
  BY HeapFacts
<1>2. PICK w \in F : w <= x /\ x < w + Span(h, w)
  OBVIOUS
<1>3. F \cup H \in SUBSET Cells /\ Tiles(h, T, F \cup H) /\ F \cap H = {}
  BY DEF HeapInv
<1>4. /\ w \in Nat /\ Span(h, w) \in Nat /\ w + Span(h, w) <= heap_words
      /\ \A v \in F \cup H : v # w => w + Span(h, w) <= v \/ v + Span(h, v) <= w
  BY <1>3, HeadersApart
<1>5. CASE x >= heap_words
  BY <1>1, <1>2, <1>4, <1>5, HeapFacts
<1>6. ASSUME NEW v \in H, v <= x, x < v + Span(h, v) PROVE FALSE
  <2>1. v # w /\ (w + Span(h, w) <= v \/ v + Span(h, v) <= w)
    BY <1>3, <1>4
  <2>2. v \in Nat /\ Span(h, v) \in Nat
    BY <1>3, HeadersApart
  <2> QED
    BY <1>1, <1>2, <1>4, <1>6, <2>1, <2>2
<1> QED
  BY <1>5, <1>6

(* What is kept by two changes is kept by both together.                   *)
LEMMA KeptBoth ==
  ASSUME NEW T, BlockSizes(T), NEW h, NEW B \in SUBSET Cells, Tiles(h, T, B),
         NEW H \in SUBSET B, NEW h1, NEW h2, Kept(h, h1, H), Kept(h1, h2, H)
  PROVE  Kept(h, h2, H)
<1>1. ASSUME NEW v \in H PROVE Span(h1, v) = Span(h, v)
  <2>1. v \in Nat /\ v + 2 < heap_words /\ Span(h, v) \in Nat /\ Span(h, v) >= 3
    BY HeadersApart
  <2>2. v \in Words /\ v <= v /\ v < v + Span(h, v)
    BY <2>1, HeapFacts
  <2>3. h1[v] = h[v]
    BY <2>2 DEF Kept
  <2> QED
    BY <2>3 DEF Span
<1> QED
  BY <1>1 DEF Kept

(* The header of another block is outside the block at w.                  *)
LEMMA HeaderOutside ==
  ASSUME NEW T, BlockSizes(T), NEW h, NEW B \in SUBSET Cells, Tiles(h, T, B),
         NEW w \in B, NEW v \in B, v # w, NEW x \in {v, v + 1, v + 2}
  PROVE  /\ x \in Words /\ x \in Nat
         /\ x < w \/ w + Span(h, w) <= x
         /\ x # w /\ x # w + 1 /\ x # w + 2
<1>1. /\ w \in Nat /\ Span(h, w) \in Nat /\ Span(h, w) >= 3
      /\ w + Span(h, w) <= v \/ v + 3 <= w
  BY HeadersApart
<1>2. v \in Nat /\ v + 2 < heap_words
  BY HeadersApart
<1>3. x \in Nat /\ v <= x /\ x <= v + 2
  BY <1>2
<1> QED
  BY <1>1, <1>2, <1>3, HeapFacts

(* Split keeps the heap in shape, with the rest in the list as well.       *)
LEMMA SplitHeap ==
  ASSUME NEW T, BlockSizes(T), NEW h, NEW first, NEW F, NEW H, NEW rank,
         HeapInv(h, first, T, F, H, rank), NEW w \in F, NEW k \in Nat,
         8 * k \in T, h[w] > 8 * k, h[w] - 8 * k \in T,
         NEW h2, h2 = Split(h, Addr(w), 8 * k)
  PROVE  /\ \E F2, rank2 : F \subseteq F2 /\ HeapInv(h2, first, T, F2, H, rank2)
         /\ h2[w] = 8 * k /\ Kept(h, h2, H)
         /\ \A b \in F : b # w => h2[b + 2] = h[b + 2]
<1> DEFINE B == F \cup H
<1>1. /\ h \in [Words -> Values] /\ B \in SUBSET Cells /\ Tiles(h, T, B)
      /\ F \subseteq Nat /\ H \subseteq Nat /\ F \cap H = {}
      /\ rank \in [Cells -> Nat] /\ F \subseteq Cells /\ H \subseteq Cells
      /\ \A v \in F : h[v + 1] = 1
      /\ \A v \in H : h[v + 1] = 0
      /\ Linked(h, first, F, rank)
  <2>1. /\ h \in [Words -> Values] /\ B \in SUBSET Cells /\ Tiles(h, T, B)
        /\ F \cap H = {} /\ rank \in [Cells -> Nat]
        /\ \A v \in F : h[v + 1] = 1
        /\ \A v \in H : h[v + 1] = 0
        /\ Linked(h, first, F, rank)
    BY Zenon DEF HeapInv
  <2>2. Cells \subseteq Nat
    BY HeapFacts DEF Cells
  <2>3. F \subseteq Cells /\ H \subseteq Cells
    BY <2>1, Zenon
  <2> QED
    BY <2>1, <2>2, <2>3, Zenon
<1> DEFINE r == w + k
           n == Span(h, w)
<1>2. /\ w \in Nat /\ w + 2 < heap_words /\ n \in Nat /\ n >= 3 /\ h[w] = 8 * n
      /\ w + n <= heap_words
  BY <1>1, HeadersApart
<1>3. k >= 3
  BY DEF BlockSizes, HEADER_SIZE, ALIGNMENT
<1>4. r + 2 < w + n /\ r \in Nat /\ r + 2 < heap_words
  <2>1. 8 * n - 8 * k >= 24
    BY <1>2 DEF BlockSizes, HEADER_SIZE, ALIGNMENT
  <2> QED
    BY <1>2, <2>1, HeapFacts
<1>5. /\ h2 \in [Words -> Values]
      /\ \A x \in Words :
           h2[x] = IF x = r THEN h[w] - 8 * k
                   ELSE IF x = r + 1 THEN 1
                   ELSE IF x = r + 2 THEN h[w + 2]
                   ELSE IF x = w THEN 8 * k
                   ELSE IF x = w + 2 THEN Addr(r)
                   ELSE h[x]
  <2>1. w + k + 2 < heap_words /\ h[w] \in Nat
    BY <1>2, <1>4
  <2> QED
    BY <1>1, <1>2, <1>3, <2>1, SplitWrites
<1>6. /\ r \in Words /\ r + 1 \in Words /\ r + 2 \in Words
      /\ w \in Words /\ w + 1 \in Words /\ w + 2 \in Words /\ w + 3 <= r
  BY <1>2, <1>3, <1>4, HeapFacts
<1> HIDE DEF n, r
<1>7. /\ h2[r] = h[w] - 8 * k /\ h2[r + 1] = 1 /\ h2[r + 2] = h[w + 2]
      /\ h2[w] = 8 * k /\ h2[w + 1] = h[w + 1] /\ h2[w + 2] = Addr(r)
  BY <1>2, <1>4, <1>5, <1>6
<1>8. \A x \in Words : x < w \/ w + n <= x => h2[x] = h[x]
  BY <1>2, <1>4, <1>5, <1>6, HeapFacts
<1>9. ASSUME NEW v \in B, v # w
      PROVE  h2[v] = h[v] /\ h2[v + 1] = h[v + 1] /\ h2[v + 2] = h[v + 2]
  <2>1. \A x \in {v, v + 1, v + 2} : x \in Words /\ (x < w \/ w + n <= x)
    BY <1>1, <1>9, HeaderOutside DEF n
  <2> QED
    BY <1>8, <2>1
<1>10. Tiles(h2, T, B \cup {r}) /\ r \notin B
  <2>1. h2[w] = 8 * k /\ h2[w] \in T /\ h2[r] = h[w] - 8 * k /\ h2[r] \in T
    BY <1>7
  <2>2. \A v \in B : v # w => h2[v] = h[v]
    BY <1>9
  <2> HIDE DEF B
  <2>3. w \in B /\ r = w + k
    BY DEF B, r
  <2> QED
    BY <1>1, <1>4, <2>1, <2>2, <2>3, TilesSplit
<1> DEFINE F2 == F \cup {r}
           rank2 == [x \in Cells |-> IF x = r THEN 2 * rank[w] ELSE 2 * rank[x] + 1]
<1>11. Linked(h2, first, F2, rank2)
  <2>1. r \in Cells /\ \A x \in F : rank[x] \in Nat
    BY <1>1, <1>4, HeapFacts DEF Cells
  <2>2. rank2[r] = 2 * rank[w] /\ \A x \in F : rank2[x] = 2 * rank[x] + 1
    BY <1>1, <1>10, <2>1
  <2>3. \A x \in F \ {w} : h2[x + 2] = h[x + 2]
    BY <1>9
  <2> HIDE DEF rank2
  <2>4. r \notin F
    BY <1>10
  <2> QED
    BY <1>1, <1>4, <1>7, <2>1, <2>2, <2>3, <2>4, LinkedAfter
<1>12. HeapInv(h2, first, T, F2, H, rank2)
  <2>1. r \in Cells /\ rank2 \in [Cells -> Nat]
    <3>1. r \in Cells
      BY <1>4, HeapFacts DEF Cells
    <3>2. \A x \in Cells : rank[x] \in Nat
      BY <1>1
    <3>3. \A x \in Cells : 2 * rank[x] \in Nat /\ 2 * rank[x] + 1 \in Nat
      BY <3>2
    <3>4. w \in Cells
      BY <1>1
    <3> QED
      BY <3>1, <3>3, <3>4, Zenon
  <2>2. Tiles(h2, T, F2 \cup H)
    <3>1. F2 \cup H = B \cup {r}
      OBVIOUS
    <3> QED
      BY <1>10, <3>1
  <2>3. F2 \cap H = {}
    BY <1>1, <1>10
  <2>4. ASSUME NEW v \in F2 PROVE h2[v + 1] = 1
    BY <1>1, <1>7, <1>9
  <2>5. ASSUME NEW v \in H PROVE h2[v + 1] = 0
    BY <1>1, <1>9
  <2> HIDE DEF rank2
  <2> QED
    BY <1>1, <1>5, <1>11, <2>1, <2>2, <2>3, <2>4, <2>5 DEF HeapInv
<1>13. Kept(h, h2, H)
  <2>1. ASSUME NEW x \in Words, h2[x] # h[x] PROVE w <= x /\ x < w + n
    BY <1>2, <1>8, <2>1, HeapFacts
  <2> QED
    BY <2>1, KeptIf DEF n
<1>14. F \subseteq F2
  OBVIOUS
<1> HIDE DEF F2, rank2
<1> QED
  BY <1>7, <1>9, <1>12, <1>13, <1>14

(* What my_malloc leaves of a list when it takes out the block at w.       *)
Unlinked(h2, first2, h, first, w, before) ==
  /\ h2 = Unlink(h, Addr(w), before)
  /\ first2 = IF before = Null THEN h[NextAt(Addr(w))] ELSE first

(* Unlink keeps the heap in shape, and the block is in use.                *)
LEMMA UnlinkHeap ==
  ASSUME NEW T, BlockSizes(T), NEW h, NEW first, NEW F, NEW H, NEW rank,
         HeapInv(h, first, T, F, H, rank), NEW w \in F, NEW before,
         Precedes(before, w, h, first, F),
         NEW h2, NEW first2, Unlinked(h2, first2, h, first, w, before)
  PROVE  /\ HeapInv(h2, first2, T, F \ {w}, H \cup {w}, rank)
         /\ h2[w] = h[w] /\ Kept(h, h2, H)
<1> DEFINE B == F \cup H
<1>0. \/ before = Null /\ first = Addr(w)
      \/ \E b \in F : b # w /\ before = Addr(b) /\ h[b + 2] = Addr(w)
  BY DEF Precedes
<1>00. /\ h2 = Unlink(h, Addr(w), before)
       /\ first2 = IF before = Null THEN h[NextAt(Addr(w))] ELSE first
  BY DEF Unlinked
<1>1. /\ h \in [Words -> Values] /\ B \in SUBSET Cells /\ Tiles(h, T, B)
      /\ F \subseteq Nat /\ H \subseteq Nat /\ F \cap H = {}
      /\ rank \in [Cells -> Nat] /\ F \subseteq Cells /\ H \subseteq Cells
      /\ \A v \in F : h[v + 1] = 1
      /\ \A v \in H : h[v + 1] = 0
      /\ Linked(h, first, F, rank)
  BY HeapFacts, SMTT(30) DEF HeapInv, Cells
<1> DEFINE G == F \ {w}
<1>2. ASSUME NEW v \in B
      PROVE  /\ v \in Nat /\ v + 2 < heap_words
             /\ v \in Words /\ v + 1 \in Words /\ v + 2 \in Words
             /\ Span(h, v) \in Nat /\ Span(h, v) >= 3
  <2>1. v \in Nat /\ v + 2 < heap_words /\ Span(h, v) \in Nat /\ Span(h, v) >= 3
    BY <1>1, HeadersApart
  <2> QED
    BY <2>1, HeapFacts
<1>3. /\ NextAt(Addr(w)) = w + 2
      /\ \A b \in F : NextAt(Addr(b)) = b + 2 /\ Addr(b) # Null
  BY <1>1, AddrFacts
<1>4. before = Null \/ \E b \in Nat : b + 2 < heap_words /\ before = Addr(b)
  BY <1>0, <1>2
<1>5. /\ h2 \in [Words -> Values]
      /\ \A x \in Words :
           h2[x] = IF x = w + 2 THEN Null
                   ELSE IF before # Null /\ x = NextAt(before) THEN h[w + 2]
                   ELSE IF x = w + 1 THEN 0
                   ELSE h[x]
  BY <1>00, <1>1, <1>2, <1>4, UnlinkWrites
<1>6. ASSUME NEW v \in B, NEW u \in B, v # u
      PROVE  \A x \in {v, v + 1, v + 2} : x # u /\ x # u + 1 /\ x # u + 2
  <2> HIDE DEF B
  <2> SUFFICES ASSUME NEW x \in {v, v + 1, v + 2}
               PROVE  x # u /\ x # u + 1 /\ x # u + 2
    OBVIOUS
  <2> QED
    BY <1>1, <1>6, HeaderOutside
<1>7. ASSUME NEW v \in B PROVE h2[v] = h[v] /\ (v # w => h2[v + 1] = h[v + 1])
  <2>1. v # v + 2 /\ v + 1 # v + 2 /\ v # v + 1
    BY <1>2
  <2>2. \A u \in B : v # u + 2 /\ v # u + 1 /\ v + 1 # u + 2 /\ (u # v => v + 1 # u + 1)
    BY <1>6, <2>1
  <2>3. \A b \in F : before = Addr(b) => NextAt(before) = b + 2
    BY <1>3
  <2>4. before # Null => v # NextAt(before) /\ v + 1 # NextAt(before)
    BY <1>0, <2>2, <2>3
  <2> QED
    BY <1>2, <1>5, <2>1, <2>2, <2>4
<1>8. h2[w + 1] = 0
  <2>1. w + 1 # w + 2 /\ w + 1 \in Words
    BY <1>2
  <2>2. before # Null => w + 1 # NextAt(before)
    BY <1>0, <1>3, <1>6
  <2> QED
    BY <1>5, <2>1, <2>2
<1>9. ASSUME NEW v \in G, before = Null \/ NextAt(before) # v + 2
      PROVE  h2[v + 2] = h[v + 2]
  <2>1. v + 2 # w + 2 /\ v + 2 # w + 1
    BY <1>6
  <2> QED
    BY <1>2, <1>5, <1>9, <2>1
<1>10. Linked(h2, first2, G, rank)
  <2>1. \A x \in F : rank[x] \in Nat
    BY <1>1
  <2>2. CASE before = Null /\ first = Addr(w)
    <3>1. first2 = h[w + 2] /\ \A x \in F \ {w} : h2[x + 2] = h[x + 2]
      BY <1>00, <1>3, <1>9, <2>2
    <3> QED
      BY <1>1, <2>1, <2>2, <3>1, LinkedWithout
  <2>3. ASSUME NEW b \in F, b # w, before = Addr(b), h[b + 2] = Addr(w)
        PROVE  Linked(h2, first2, G, rank)
    <3>1. before # Null /\ NextAt(before) = b + 2 /\ first2 = first
      BY <1>00, <1>3, <2>3
    <3>2. h2[b + 2] = h[w + 2]
      <4>1. b + 2 # w + 2
        BY <1>6, <2>3
      <4> QED
        BY <1>2, <1>5, <3>1, <4>1
    <3>3. ASSUME NEW x \in F \ {w, b} PROVE h2[x + 2] = h[x + 2]
      <4>1. NextAt(before) # x + 2
        BY <1>6, <3>1
      <4> QED
        BY <1>9, <4>1
    <3> QED
      BY <1>1, <2>1, <2>3, <3>1, <3>2, <3>3, LinkedWithout
  <2> QED
    BY <1>0, <2>2, <2>3
<1>11. Tiles(h2, T, G \cup (H \cup {w}))
  <2>1. G \cup (H \cup {w}) = B
    OBVIOUS
  <2>2. \A v \in B : h2[v] = h[v]
    BY <1>7
  <2> HIDE DEF B
  <2> QED
    BY <1>1, <2>1, <2>2, TilesSame
<1>12. HeapInv(h2, first2, T, G, H \cup {w}, rank)
  <2>1. \A v \in G : h2[v + 1] = 1
    BY <1>1, <1>7
  <2>2. \A v \in H \cup {w} : h2[v + 1] = 0
    BY <1>1, <1>7, <1>8
  <2> QED
    BY <1>1, <1>5, <1>10, <1>11, <2>1, <2>2 DEF HeapInv
<1>13. Kept(h, h2, H)
  <2>1. ASSUME NEW x \in Words, h2[x] # h[x]
        PROVE  \E v \in F : v <= x /\ x < v + Span(h, v)
    <3>1. \E v \in F : x = v + 1 \/ x = v + 2
      BY <1>0, <1>3, <1>5, <2>1
    <3>2. PICK v \in F : x = v + 1 \/ x = v + 2
      BY <3>1
    <3>3. v \in Nat /\ Span(h, v) \in Nat /\ Span(h, v) >= 3
      BY <1>2
    <3> QED
      BY <3>2, <3>3
  <2> QED
    BY <2>1, KeptIf
<1> QED
  BY <1>7, <1>12, <1>13

(* The memory and the list after my_malloc has taken place i of the list.  *)
TakenMem(h, first, i, total) ==
  LET p == FreeList(h, first)[i]
  IN  Unlink(Split(h, p, total), p,
             IF i = 0 THEN Null ELSE FreeList(h, first)[i - 1])

TakenFirst(h, first, i, total) ==
  LET p == FreeList(h, first)[i]
      before == IF i = 0 THEN Null ELSE FreeList(h, first)[i - 1]
  IN  IF before = Null THEN Split(h, p, total)[NextAt(p)] ELSE first

(* The block at w is the one that was taken, and the heap is in shape.     *)
Taken(h, first, i, total, T, H, w) ==
  /\ FreeList(h, first)[i] = Addr(w)
  /\ TakenMem(h, first, i, total)[w] = total
  /\ Kept(h, TakenMem(h, first, i, total), H)
  /\ \E F, rank : HeapInv(TakenMem(h, first, i, total),
                         TakenFirst(h, first, i, total), T, F, H \cup {w}, rank)

(* my_malloc takes a block that is large enough out of the list, cut to    *)
(* size.                                                                   *)
LEMMA MallocHeap ==
  ASSUME NEW T, BlockSizes(T), NEW h, NEW first, NEW F, NEW H, NEW rank,
         HeapInv(h, first, T, F, H, rank), NEW i \in 0 .. heap_words,
         NEW p, p = FreeList(h, first)[i], p # Null,
         NEW total \in T, h[SizeAt(p)] >= total,
         h[SizeAt(p)] > total => h[SizeAt(p)] - total \in T
  PROVE  \E w \in Cells \ H : Taken(h, first, i, total, T, H, w)
<1> DEFINE before == IF i = 0 THEN Null ELSE FreeList(h, first)[i - 1]
           h1 == Split(h, p, total)
           h2 == TakenMem(h, first, i, total)
           first2 == TakenFirst(h, first, i, total)
<1>0. /\ h2 = Unlink(h1, p, before)
      /\ first2 = IF before = Null THEN h1[NextAt(p)] ELSE first
  BY DEF TakenMem, TakenFirst
<1> HIDE DEF h2, first2
<1>1. PICK w \in F : p = Addr(w) /\ Precedes(before, w, h, first, F)
  BY ListPlace
<1> HIDE DEF before, h1
<1>2. /\ F \cup H \in SUBSET Cells /\ Tiles(h, T, F \cup H)
      /\ F \subseteq Nat /\ F \cap H = {} /\ F \subseteq Cells
  BY HeapFacts DEF HeapInv, Cells
<1>3. SizeAt(p) = w
  BY <1>1, <1>2, AddrFacts
<1>4. PICK k \in Nat : total = 8 * k
  BY DEF BlockSizes
<1>5. h[w] \in Nat
  <2>1. Span(h, w) \in Nat /\ h[w] = 8 * Span(h, w)
    BY <1>2, HeadersApart
  <2> QED
    BY <2>1
<1>6. \E F1, rank1 :
        /\ F \subseteq F1 /\ HeapInv(h1, first, T, F1, H, rank1)
        /\ h1[w] = total /\ Kept(h, h1, H)
        /\ \A b \in F : b # w => h1[b + 2] = h[b + 2]
  <2>1. CASE h[w] > total
    <3>1. h1 = Split(h, Addr(w), 8 * k)
      BY <1>1, <1>4 DEF h1
    <3>2. 8 * k \in T /\ h[w] > 8 * k /\ h[w] - 8 * k \in T
      BY <1>3, <1>4, <2>1
    <3> QED
      BY <1>4, <3>1, <3>2, SplitHeap
  <2>2. CASE ~ (h[w] > total)
    <3>1. h1 = h
      BY <1>3, <2>2 DEF Split, h1
    <3>2. h[w] = total
      <4>1. h[w] >= total
        BY <1>3
      <4> QED
        BY <1>4, <1>5, <2>2, <4>1
    <3>3. Kept(h, h1, H)
      BY <3>1 DEF Kept
    <3> QED
      BY <3>1, <3>2, <3>3
  <2> QED
    BY <2>1, <2>2
<1>7. PICK F1, rank1 :
        /\ F \subseteq F1 /\ HeapInv(h1, first, T, F1, H, rank1)
        /\ h1[w] = total /\ Kept(h, h1, H)
        /\ \A b \in F : b # w => h1[b + 2] = h[b + 2]
  BY <1>6
<1>8. w \in F1 /\ Precedes(before, w, h1, first, F1)
  BY <1>1, <1>7 DEF Precedes
<1>9. Unlinked(h2, first2, h1, first, w, before)
  BY <1>0, <1>1 DEF Unlinked
<1>10. /\ HeapInv(h2, first2, T, F1 \ {w}, H \cup {w}, rank1)
       /\ h2[w] = h1[w] /\ Kept(h1, h2, H)
  BY <1>7, <1>8, <1>9, UnlinkHeap
<1>11. Kept(h, h2, H)
  <2>1. H \in SUBSET (F \cup H)
    OBVIOUS
  <2> QED
    BY <1>2, <1>7, <1>10, <2>1, KeptBoth
<1> QED
  BY <1>1, <1>2, <1>7, <1>10, <1>11 DEF h2, first2, Taken

PushedMem(h, first, w) ==
  [h EXCEPT ![FreeAt(Addr(w))] = 1, ![NextAt(Addr(w))] = first]

(* A free block goes to the front of the list.                             *)
LEMMA PushHeap ==
  ASSUME NEW T, BlockSizes(T), NEW h, NEW first, NEW F, NEW H, NEW rank,
         HeapInv(h, first, T, F, H, rank), NEW w \in H
  PROVE  /\ \E rank2 : HeapInv(PushedMem(h, first, w), Addr(w),
                              T, F \cup {w}, H \ {w}, rank2)
         /\ Kept(h, PushedMem(h, first, w), H \ {w})
<1> DEFINE B == F \cup H
<1>1. /\ h \in [Words -> Values] /\ B \in SUBSET Cells /\ Tiles(h, T, B)
      /\ F \subseteq Nat /\ H \subseteq Nat /\ F \cap H = {}
      /\ rank \in [Cells -> Nat] /\ F \subseteq Cells /\ H \subseteq Cells
      /\ \A v \in F : h[v + 1] = 1
      /\ \A v \in H : h[v + 1] = 0
      /\ Linked(h, first, F, rank)
  BY HeapFacts DEF HeapInv, Cells
<1> DEFINE h2 == PushedMem(h, first, w)
           n == Span(h, w)
<1>2. /\ w \in Nat /\ w + 2 < heap_words /\ n \in Nat /\ n >= 3
      /\ w + n <= heap_words
  BY <1>1, HeadersApart
<1>3. FreeAt(Addr(w)) = w + 1 /\ NextAt(Addr(w)) = w + 2
  BY <1>1, AddrFacts
<1>4. first \in Nat
  <2>1. \A v \in F : Addr(v) \in Nat
    BY <1>1, AddrFacts
  <2> QED
    BY <1>1, <2>1, HeapFacts DEF Linked, Leads
<1>5. /\ h2 \in [Words -> Values]
      /\ h2[w + 1] = 1 /\ h2[w + 2] = first
      /\ \A x \in Words : x # w + 1 /\ x # w + 2 => h2[x] = h[x]
  <2>1. w + 1 \in Words /\ w + 2 \in Words /\ w + 1 # w + 2
    BY <1>2, HeapFacts
  <2>2. 1 \in Values /\ first \in Values
    BY <1>4 DEF Values
  <2> QED
    BY <1>1, <1>3, <2>1, <2>2 DEF PushedMem
<1> HIDE DEF n, h2
<1>6. ASSUME NEW v \in B, v # w
      PROVE  h2[v] = h[v] /\ h2[v + 1] = h[v + 1] /\ h2[v + 2] = h[v + 2]
  <2>1. ASSUME NEW x \in {v, v + 1, v + 2}
        PROVE  x \in Words /\ x # w + 1 /\ x # w + 2
    <3> HIDE DEF B
    <3>1. w \in B
      BY DEF B
    <3> QED
      BY <1>1, <1>6, <3>1, HeaderOutside
  <2> QED
    BY <1>5, <2>1
<1>7. h2[w] = h[w]
  <2>1. w \in Words /\ w # w + 1 /\ w # w + 2
    BY <1>2, HeapFacts
  <2> QED
    BY <1>5, <2>1
<1>8. PICK top \in Nat : \A x \in F : rank[x] < top
  <2>1. CASE F = {}
    BY <2>1
  <2>2. ASSUME NEW v \in F, \A u \in F : rank[u] <= rank[v]
        PROVE  \E top \in Nat : \A x \in F : rank[x] < top
    <3> DEFINE top == rank[v] + 1
    <3>1. rank[v] \in Nat /\ \A u \in F : rank[u] \in Nat
      BY <1>1
    <3>2. top \in Nat /\ \A x \in F : rank[x] < top
      BY <2>2, <3>1
    <3> QED
      BY <3>2
  <2> QED
    BY <1>1, <2>1, <2>2 DEF Linked, Leads
<1> DEFINE rank2 == [rank EXCEPT ![w] = top]
<1>9. /\ rank2 \in [Cells -> Nat] /\ rank2[w] = top
      /\ \A x \in F : rank2[x] = rank[x]
  BY <1>1
<1> HIDE DEF rank2
<1>10. Linked(h2, Addr(w), F \cup {w}, rank2)
  <2>1. w \notin F /\ \A x \in F : rank[x] \in Nat
    BY <1>1
  <2>2. \A x \in F : h2[x + 2] = h[x + 2]
    BY <1>6, <2>1
  <2>3. rank2[w] \in Nat /\ \A x \in F : rank2[x] = rank[x] /\ rank[x] < rank2[w]
    BY <1>8, <1>9
  <2> QED
    <3>1. F \in SUBSET Nat /\ Linked(h, first, F, rank)
      BY <1>1
    <3> HIDE DEF B
    <3> QED
      BY <1>2, <1>5, <2>1, <2>2, <2>3, <3>1, LinkedWith
<1>11. Tiles(h2, T, (F \cup {w}) \cup (H \ {w}))
  <2>1. (F \cup {w}) \cup (H \ {w}) = B
    OBVIOUS
  <2>2. \A v \in B : h2[v] = h[v]
    BY <1>6, <1>7
  <2> HIDE DEF B
  <2> QED
    BY <1>1, <2>1, <2>2, TilesSame
<1>12. HeapInv(h2, Addr(w), T, F \cup {w}, H \ {w}, rank2)
  <2>1. \A v \in F \cup {w} : h2[v + 1] = 1
    BY <1>1, <1>5, <1>6
  <2>2. \A v \in H \ {w} : h2[v + 1] = 0
    BY <1>1, <1>6
  <2> QED
    BY <1>1, <1>5, <1>9, <1>10, <1>11, <2>1, <2>2 DEF HeapInv
<1>13. Kept(h, h2, H \ {w})
  <2> SUFFICES ASSUME NEW x \in Words, x = w + 1 \/ x = w + 2,
                      \/ x >= heap_words
                      \/ \E v \in H \ {w} : v <= x /\ x < v + Span(h, v)
               PROVE  FALSE
    BY <1>5 DEF Kept
  <2>1. w <= x /\ x < w + n /\ x < heap_words /\ x \in Nat
    BY <1>2, HeapFacts
  <2>2. PICK v \in H \ {w} : v <= x /\ x < v + Span(h, v)
    BY <2>1, HeapFacts
  <2>3. /\ w + n <= v \/ v + Span(h, v) <= w
        /\ v \in Nat /\ Span(h, v) \in Nat
    BY <1>1, HeadersApart DEF n
  <2> QED
    BY <1>2, <2>1, <2>2, <2>3
<1> QED
  BY <1>12, <1>13 DEF h2

-----------------------------------------------------------------------------
(* coalesce.                                                               *)

MergedMem(h, w, u) == [h EXCEPT ![w] = h[w] + h[u], ![w + 2] = h[u + 2]]

(* The block at w swallows the one at u, which follows it in the heap and  *)
(* in the list.                                                            *)
LEMMA MergeHeap ==
  ASSUME NEW T, BlockSizes(T), NEW h, NEW first, NEW F, NEW H, NEW rank,
         HeapInv(h, first, T, F, H, rank), NEW w \in F, NEW u \in F, w # u,
         h[w + 2] = Addr(u), w + Span(h, w) = u
  PROVE  /\ HeapInv(MergedMem(h, w, u), first, T, F \ {u}, H, rank)
         /\ Kept(h, MergedMem(h, w, u), H)
<1> DEFINE B == F \cup H
<1>1. /\ h \in [Words -> Values] /\ B \in SUBSET Cells /\ Tiles(h, T, B)
      /\ F \subseteq Nat /\ H \subseteq Nat /\ F \cap H = {}
      /\ rank \in [Cells -> Nat] /\ F \subseteq Cells /\ H \subseteq Cells
      /\ \A v \in F : h[v + 1] = 1
      /\ \A v \in H : h[v + 1] = 0
      /\ Linked(h, first, F, rank)
  <2>1. F \subseteq Cells /\ H \subseteq Cells
    BY DEF HeapInv
  <2>2. Cells \subseteq Nat
    BY HeapFacts DEF Cells
  <2> QED
    BY <2>1, <2>2 DEF HeapInv
<1> DEFINE h2 == MergedMem(h, w, u)
           n == Span(h, w)
           G == F \ {u}
<1>2. /\ w \in Nat /\ w + 2 < heap_words /\ n \in Nat /\ n >= 3 /\ h[w] \in Nat
  <2>1. /\ w \in Nat /\ w + 2 < heap_words /\ n \in Nat /\ n >= 3 /\ h[w] = 8 * n
    BY <1>1, HeadersApart
  <2> QED
    BY <2>1
<1>3. u + 2 < heap_words /\ u \in Nat /\ h[u] \in Nat
  <2>1. /\ u \in Nat /\ u + 2 < heap_words /\ Span(h, u) \in Nat
        /\ h[u] = 8 * Span(h, u)
    BY <1>1, HeadersApart
  <2> QED
    BY <2>1
<1>4. /\ w \in Words /\ w + 1 \in Words /\ w + 2 \in Words /\ u + 2 \in Words
      /\ w # w + 2 /\ w + 1 # w /\ w + 1 # w + 2
  BY <1>2, <1>3, HeapFacts
<1>5. /\ h2 \in [Words -> Values]
      /\ h2[w] = h[w] + h[u] /\ h2[w + 2] = h[u + 2]
      /\ \A x \in Words : x # w /\ x # w + 2 => h2[x] = h[x]
  <2>1. h[w] + h[u] \in Values /\ h[u + 2] \in Values
    BY <1>1, <1>2, <1>3, <1>4 DEF Values
  <2> QED
    BY <1>1, <1>4, <2>1 DEF MergedMem
<1> HIDE DEF n, h2
<1>6. ASSUME NEW v \in B, v # w
      PROVE  h2[v] = h[v] /\ h2[v + 1] = h[v + 1] /\ h2[v + 2] = h[v + 2]
  <2>1. ASSUME NEW x \in {v, v + 1, v + 2}
        PROVE  x \in Words /\ x # w /\ x # w + 2
    <3> HIDE DEF B
    <3>1. w \in B
      BY DEF B
    <3> QED
      BY <1>1, <1>6, <3>1, HeaderOutside
  <2> QED
    BY <1>5, <2>1
<1>7. h2[w + 1] = h[w + 1]
  BY <1>4, <1>5
<1>8. Linked(h2, first, G, rank)
  <2>1. F \in SUBSET Nat /\ Linked(h, first, F, rank) /\ \A x \in F : rank[x] \in Nat
    BY <1>1
  <2>2. /\ h[w + 2] = Addr(u) /\ h2[w + 2] = h[u + 2]
        /\ \A x \in F \ {u, w} : h2[x + 2] = h[x + 2]
    BY <1>5, <1>6
  <2> QED
    BY <2>1, <2>2, LinkedWithout
<1>9. Tiles(h2, T, G \cup H)
  <2>1. G \cup H = B \ {u}
    BY <1>1
  <2>2. \A v \in B : v # w /\ v # u => h2[v] = h[v]
    BY <1>6
  <2> HIDE DEF B
  <2>3. w \in B /\ u \in B
    BY DEF B
  <2> QED
    BY <1>1, <1>5, <2>1, <2>2, <2>3, TilesMerge
<1>10. HeapInv(h2, first, T, G, H, rank)
  <2>1. \A v \in G : h2[v + 1] = 1
    BY <1>1, <1>6, <1>7
  <2>2. \A v \in H : h2[v + 1] = 0
    BY <1>1, <1>6
  <2> QED
    BY <1>1, <1>5, <1>8, <1>9, <2>1, <2>2 DEF HeapInv
<1>11. Kept(h, h2, H)
  <2>1. ASSUME NEW x \in Words, h2[x] # h[x] PROVE w <= x /\ x < w + n
    <3>1. x = w \/ x = w + 2
      BY <1>5, <2>1
    <3> QED
      BY <1>2, <3>1
  <2> QED
    BY <2>1, KeptIf DEF n
<1> QED
  BY <1>10, <1>11 DEF h2

(* Where coalesce is: the heap is in shape, and `current' is in the list.  *)
CoalesceInv(s, h, first, T, H) ==
  /\ s = [h |-> s.h, current |-> s.current]
  /\ Kept(h, s.h, H)
  /\ \E F, rank :
       /\ HeapInv(s.h, first, T, F, H, rank)
       /\ s.current = Null \/ \E v \in F : s.current = Addr(v)

(* One round of coalesce.                                                  *)
LEMMA RoundKeeps ==
  ASSUME NEW T, BlockSizes(T), NEW h, NEW first, NEW H, NEW B \in SUBSET Cells,
         Tiles(h, T, B), H \subseteq B, NEW s, CoalesceInv(s, h, first, T, H)
  PROVE  CoalesceInv(CoalesceStep(s), h, first, T, H)
<1> DEFINE g == s.h
           p == s.current
           q == g[NextAt(p)]
<1>1. PICK F, rank :
        /\ HeapInv(g, first, T, F, H, rank)
        /\ p = Null \/ \E v \in F : p = Addr(v)
  BY DEF CoalesceInv
<1>2. s = [h |-> g, current |-> p] /\ Kept(h, g, H)
  BY DEF CoalesceInv
<1> DEFINE s2 == CoalesceStep(s)
<1>3. ASSUME NEW c, c = Null \/ \E v \in F : c = Addr(v),
             s2 = [h |-> g, current |-> c]
      PROVE  CoalesceInv(s2, h, first, T, H)
  <2>1. s2.h = g /\ s2.current = c
    BY <1>3
  <2> QED
    BY <1>1, <1>2, <1>3, <2>1 DEF CoalesceInv
<1>4. CASE p = Null
  <2>1. s2 = [h |-> g, current |-> Null]
    BY <1>2, <1>4 DEF CoalesceStep
  <2> QED
    BY <1>3, <2>1
<1>5. ASSUME NEW w \in F, p = Addr(w) PROVE CoalesceInv(s2, h, first, T, H)
  <2>0. F \subseteq Nat /\ F \cup H \in SUBSET Cells /\ Tiles(g, T, F \cup H)
        /\ \A x \in F : rank[x] \in Nat
    BY <1>1, HeapFacts DEF HeapInv, Cells
  <2>1. p # Null /\ q = g[w + 2] /\ SizeAt(p) = w /\ NextAt(p) = w + 2
    BY <1>5, <2>0, AddrFacts
  <2>2. Follows(q, w, F, rank)
    BY <1>1, <2>1 DEF HeapInv, Linked
  <2>3. CASE q = Null
    <3>1. s2 = [h |-> g, current |-> Null]
      BY <1>2, <2>1, <2>3 DEF CoalesceStep
    <3> QED
      BY <1>3, <3>1
  <2>4. ASSUME NEW u \in F, q = Addr(u), rank[u] < rank[w]
        PROVE  CoalesceInv(s2, h, first, T, H)
    <3>1. q # Null /\ SizeAt(q) = u /\ NextAt(q) = u + 2
      BY <2>0, <2>4, AddrFacts
    <3>2. CASE ~ Adjacent(g, p, q)
      <4>1. s2 = [h |-> g, current |-> q]
        BY <1>2, <2>1, <3>1, <3>2 DEF CoalesceStep
      <4> QED
        BY <1>3, <2>4, <4>1
    <3>3. CASE Adjacent(g, p, q)
      <4> DEFINE g2 == MergedMem(g, w, u)
      <4>1. s2 = [h |-> g2, current |-> p]
        <5>1. s2 = [s EXCEPT !.h = [s.h EXCEPT ![SizeAt(p)] = @ + s.h[SizeAt(q)],
                                             ![NextAt(p)] = s.h[NextAt(q)]]]
          BY <2>1, <3>1, <3>3 DEF CoalesceStep
        <5>2. [s.h EXCEPT ![SizeAt(p)] = @ + s.h[SizeAt(q)],
                          ![NextAt(p)] = s.h[NextAt(q)]] = g2
          BY <2>1, <3>1 DEF MergedMem
        <5> HIDE DEF g2
        <5> QED
          BY <1>2, <5>1, <5>2
      <4>2. w # u
        <5>1. rank[w] \in Nat
          BY <2>0
        <5> QED
          BY <2>4, <5>1
      <4>3. w + Span(g, w) = u
        <5>1. w \in Nat /\ Span(g, w) \in Nat /\ g[w] = 8 * Span(g, w)
          BY <2>0, HeadersApart
        <5>2. Addr(w) + 8 * Span(g, w) = Addr(u)
          BY <1>5, <2>1, <2>4, <3>3, <5>1 DEF Adjacent
        <5>3. Addr(w + Span(g, w)) = Addr(u) /\ w + Span(g, w) \in Nat
          <6> DEFINE n == Span(g, w)
          <6> HIDE DEF n
          <6>1. Addr(w) + 8 * n = Addr(w + n) /\ w + n \in Nat
            BY <5>1, AddrPlus DEF n
          <6> QED
            BY <5>2, <6>1 DEF n
        <5> QED
          BY <2>0, <5>3, AddrIds
      <4>4. g[w + 2] = Addr(u)
        BY <2>1, <2>4
      <4>5. HeapInv(g2, first, T, F \ {u}, H, rank) /\ Kept(g, g2, H)
        BY <1>1, <4>2, <4>3, <4>4, MergeHeap
      <4> HIDE DEF g2
      <4>6. Kept(h, g2, H)
        BY <1>2, <4>5, KeptBoth
      <4>7. s2.h = g2 /\ s2.current = p
        BY <4>1
      <4>8. w \in F \ {u}
        BY <4>2
      <4> QED
        BY <1>5, <4>1, <4>5, <4>6, <4>7, <4>8 DEF CoalesceInv
    <3> QED
      BY <3>2, <3>3
  <2> QED
    BY <2>2, <2>3, <2>4 DEF Follows
<1> QED
  BY <1>1, <1>4, <1>5

(* The recursive function of coalesce is well defined.                     *)
LEMMA CoalesceWalk ==
  ASSUME NEW h, NEW first
  PROVE  \E f : /\ coalesce(h, first) = f[heap_words].h
                /\ f[0] = [h |-> h, current |-> first]
                /\ \A i \in 0 .. heap_words - 1 : f[i + 1] = CoalesceStep(f[i])
<1> DEFINE s0 == [h |-> h, current |-> first]
           Walk(f, n) == f = [i \in 0 .. n |-> IF i = 0 THEN s0
                                              ELSE CoalesceStep(f[i - 1])]
           S == {n \in Nat : \E f : Walk(f, n)}
           all == CHOOSE f : Walk(f, heap_words)
<1>1. coalesce(h, first) = all[heap_words].h
  BY DEF coalesce
<1> HIDE DEF s0
<1>2. 0 \in S
  <2> DEFINE f == [i \in 0 .. 0 |-> s0]
  <2>1. Walk(f, 0)
    OBVIOUS
  <2> QED
    BY <2>1
<1>3. ASSUME NEW n \in 0 .. heap_words - 1, n \in S PROVE n + 1 \in S
  <2>1. PICK g : Walk(g, n)
    BY <1>3
  <2> DEFINE f == [i \in 0 .. n + 1 |-> IF i = n + 1 THEN CoalesceStep(g[n]) ELSE g[i]]
  <2>2. \A i \in 0 .. n + 1 : f[i] = IF i = 0 THEN s0 ELSE CoalesceStep(f[i - 1])
    <3> SUFFICES ASSUME NEW i \in 0 .. n + 1
                 PROVE  f[i] = IF i = 0 THEN s0 ELSE CoalesceStep(f[i - 1])
      OBVIOUS
    <3>1. CASE i = n + 1
      BY <3>1
    <3>2. CASE i # n + 1 /\ i # 0
      <4>1. i \in 0 .. n /\ i - 1 \in 0 .. n + 1 /\ i - 1 # n + 1
        BY <3>2
      <4>2. f[i] = g[i] /\ f[i - 1] = g[i - 1]
        BY <4>1
      <4>3. g[i] = CoalesceStep(g[i - 1])
        BY <2>1, <3>2, <4>1
      <4> QED
        BY <3>2, <4>2, <4>3
    <3>3. CASE i = 0
      <4>1. 0 \in 0 .. n /\ 0 # n + 1 /\ 0 \in 0 .. n + 1
        OBVIOUS
      <4>2. g[0] = s0
        BY <2>1, <4>1
      <4> QED
        BY <3>3, <4>1, <4>2
    <3> QED
      BY <3>1, <3>2, <3>3
  <2>3. Walk(f, n + 1)
    BY <2>2
  <2> HIDE DEF Walk, f
  <2>4. n + 1 \in Nat
    OBVIOUS
  <2> QED
    BY <2>3, <2>4
<1> HIDE DEF S
<1>4. heap_words \in S
  BY <1>2, <1>3, HeapFacts, UpTo
<1>5. Walk(all, heap_words)
  <2>1. \E f : Walk(f, heap_words)
    BY <1>4 DEF S
  <2> HIDE DEF Walk
  <2> QED
    BY <2>1
<1> HIDE DEF all
<1>6. \A i \in 0 .. heap_words :
        all[i] = IF i = 0 THEN s0 ELSE CoalesceStep(all[i - 1])
  BY <1>5
<1>7. all[0] = s0
  BY <1>6, HeapFacts
<1>8. ASSUME NEW i \in 0 .. heap_words - 1 PROVE all[i + 1] = CoalesceStep(all[i])
  <2>1. i + 1 \in 0 .. heap_words /\ i + 1 # 0 /\ (i + 1) - 1 = i
    BY HeapFacts
  <2> QED
    BY <1>6, <2>1
<1> QED
  BY <1>1, <1>7, <1>8 DEF s0

(* coalesce keeps the heap in shape.                                       *)
LEMMA CoalesceHeap ==
  ASSUME NEW T, BlockSizes(T), NEW h, NEW w, NEW F, NEW H, NEW rank,
         HeapInv(h, Addr(w), T, F, H, rank)
  PROVE  /\ Kept(h, coalesce(h, Addr(w)), H)
         /\ \E F2, rank2 : HeapInv(coalesce(h, Addr(w)), Addr(w), T, F2, H, rank2)
<1> DEFINE first == Addr(w)
<1>1. PICK f : /\ coalesce(h, first) = f[heap_words].h
               /\ f[0] = [h |-> h, current |-> first]
               /\ \A i \in 0 .. heap_words - 1 : f[i + 1] = CoalesceStep(f[i])
  BY CoalesceWalk
<1>2. /\ F \cup H \in SUBSET Cells /\ Tiles(h, T, F \cup H)
      /\ H \subseteq F \cup H /\ Linked(h, first, F, rank)
  BY DEF HeapInv
<1> HIDE DEF first
<1> DEFINE S == {i \in 0 .. heap_words : CoalesceInv(f[i], h, first, T, H)}
<1>3. 0 \in S
  <2>1. f[0].h = h /\ f[0].current = first /\ 0 \in 0 .. heap_words
    BY <1>1, HeapFacts
  <2>2. first = Null \/ \E v \in F : first = Addr(v)
    BY <1>2 DEF Linked, Leads
  <2>3. Kept(h, h, H)
    BY DEF Kept
  <2>4. HeapInv(h, first, T, F, H, rank)
    BY DEF first
  <2> QED
    BY <1>1, <2>1, <2>2, <2>3, <2>4 DEF CoalesceInv
<1>4. ASSUME NEW i \in 0 .. heap_words - 1, i \in S PROVE i + 1 \in S
  <2>1. i + 1 \in 0 .. heap_words /\ f[i + 1] = CoalesceStep(f[i])
    BY <1>1, HeapFacts
  <2>2. CoalesceInv(CoalesceStep(f[i]), h, first, T, H)
    BY <1>2, <1>4, RoundKeeps
  <2> QED
    BY <2>1, <2>2
<1> HIDE DEF S
<1>5. heap_words \in S
  BY <1>3, <1>4, HeapFacts, UpTo
<1>6. CoalesceInv(f[heap_words], h, first, T, H)
  BY <1>5 DEF S
<1> QED
  BY <1>1, <1>6 DEF CoalesceInv, first

-----------------------------------------------------------------------------
(* The inductive invariant.                                                *)

(* Client c holds the block with cell w.                                   *)
Holds(c, w) == held[c] # Nothing /\ held[c].ptr = Addr(w) + HEADER_SIZE
HeldCells == {w \in Cells : \E c \in Clients : Holds(c, w)}

TypesInv ==
  /\ heap_start \in BOOLEAN
  /\ mem \in [Words -> Values]
  /\ held \in [Clients -> [ptr : Nat, size : Nat]]
  /\ written \subseteq Clients

HoldersInv ==
  /\ \A c \in Clients :
       held[c] # Nothing =>
         /\ heap_start /\ Whole(held[c].size)
         /\ \E w \in Cells : Holds(c, w) /\ mem[w] = TotalSize(held[c].size)
  /\ \A w \in Cells : \A c, d \in Clients : Holds(c, w) /\ Holds(d, w) => c = d

ContentsInv ==
  /\ \A c \in written : held[c] # Nothing /\ \A x \in DataWords(c) : mem[x] = c
  /\ \A x \in Guard : mem[x] = Unset

HeapShape(T) ==
  heap_start =>
    \E F, rank : HeapInv(mem, free_list, T, F, HeldCells, rank)

AllocInv(T) == TypesInv /\ HoldersInv /\ ContentsInv /\ HeapShape(T)

(* The data of a block fill it behind its header.                          *)
LEMMA DataFacts ==
  ASSUME NEW w \in Nat, NEW size, Whole(size), NEW c,
         held[c].ptr = Addr(w) + HEADER_SIZE, held[c].size = size
  PROVE  /\ Header(c) = Addr(w)
         /\ DataWords(c) = w + 3 .. w + TotalSize(size) \div ALIGNMENT - 1
<1> DEFINE k == Data(size)
<1>1. k \in Nat \ {0} /\ TotalSize(size) = 8 * (3 + k)
  BY DEF Whole
<1>2. DataWords(c) = Word(held[c].ptr) .. Word(held[c].ptr) + k - 1
  BY DEF DataWords, Data
<1> HIDE DEF k
<1>3. Addr(w) = 8 * w + 8
  BY DEF Addr, ALIGNMENT
<1>4. Word(held[c].ptr) = w + 3
  BY <1>3 DEF Word, Start, HEADER_SIZE, ALIGNMENT
<1>5. TotalSize(size) \div ALIGNMENT = 3 + k
  BY <1>1 DEF ALIGNMENT
<1>6. w + 3 + k - 1 = w + (3 + k) - 1
  BY <1>1
<1>7. Header(c) = Addr(w)
  BY <1>3 DEF Header, HEADER_SIZE, ALIGNMENT
<1> QED
  BY <1>2, <1>4, <1>5, <1>6, <1>7

(* What the invariant says of a block that is held.                        *)
LEMMA HolderFacts ==
  ASSUME NEW T, BlockSizes(T), AllocInv(T), NEW c \in Clients,
         held[c] # Nothing
  PROVE  /\ heap_start /\ Whole(held[c].size)
         /\ \E w \in HeldCells :
              /\ Holds(c, w) /\ mem[w] = TotalSize(held[c].size)
              /\ w \in Nat /\ Span(mem, w) \in Nat /\ Span(mem, w) >= 3
              /\ w + Span(mem, w) <= heap_words /\ mem[w] = 8 * Span(mem, w)
              /\ Header(c) = Addr(w)
              /\ DataWords(c) = w + 3 .. w + Span(mem, w) - 1
<1>1. heap_start /\ Whole(held[c].size)
  BY DEF AllocInv, HoldersInv
<1>2. PICK w \in Cells : Holds(c, w) /\ mem[w] = TotalSize(held[c].size)
  BY DEF AllocInv, HoldersInv
<1>3. w \in HeldCells
  BY <1>2 DEF HeldCells
<1>4. PICK F, rank : HeapInv(mem, free_list, T, F, HeldCells, rank)
  BY <1>1 DEF AllocInv, HeapShape
<1>5. F \cup HeldCells \in SUBSET Cells /\ Tiles(mem, T, F \cup HeldCells)
  BY <1>4 DEF HeapInv
<1>6. /\ w \in Nat /\ Span(mem, w) \in Nat /\ Span(mem, w) >= 3
      /\ w + Span(mem, w) <= heap_words /\ mem[w] = 8 * Span(mem, w)
  BY <1>3, <1>5, HeadersApart
<1>7. held[c].ptr = Addr(w) + HEADER_SIZE
  BY <1>2 DEF Holds
<1>8. /\ Header(c) = Addr(w)
      /\ DataWords(c) = w + 3 .. w + TotalSize(held[c].size) \div ALIGNMENT - 1
  BY <1>1, <1>6, <1>7, DataFacts
<1>9. TotalSize(held[c].size) \div ALIGNMENT = Span(mem, w)
  BY <1>2 DEF Span
<1> QED
  BY <1>1, <1>2, <1>3, <1>6, <1>8, <1>9

(* What is kept of a block that is held: its size and its data.            *)
LEMMA KeptHolder ==
  ASSUME NEW T, BlockSizes(T), AllocInv(T), NEW H, NEW h2, Kept(mem, h2, H),
         NEW c \in Clients, NEW w \in H, Holds(c, w), w \in HeldCells
  PROVE  h2[w] = mem[w] /\ \A x \in DataWords(c) : h2[x] = mem[x]
<1>1. held[c] # Nothing
  BY DEF Holds
<1>2. PICK v \in HeldCells :
        /\ Holds(c, v)
        /\ v \in Nat /\ Span(mem, v) \in Nat /\ Span(mem, v) >= 3
        /\ v + Span(mem, v) <= heap_words
        /\ DataWords(c) = v + 3 .. v + Span(mem, v) - 1
  BY <1>1, HolderFacts
<1>3. v = w
  <2>1. Addr(v) + HEADER_SIZE = Addr(w) + HEADER_SIZE /\ w \in Nat
    BY <1>2, HeapFacts DEF Holds, HeldCells, Cells
  <2>2. Addr(v) = Addr(w)
    <3>1. Addr(v) \in Nat /\ Addr(w) \in Nat
      BY <1>2, <2>1, AddrFacts
    <3> QED
      BY <2>1, <3>1, HeapFacts
  <2> QED
    BY <1>2, <2>1, <2>2, AddrIds
<1> DEFINE n == Span(mem, w)
<1>4. /\ w \in Nat /\ n \in Nat /\ n >= 3 /\ w + n <= heap_words
      /\ DataWords(c) = w + 3 .. w + n - 1
  BY <1>2, <1>3
<1> HIDE DEF n
<1>5. \A x \in w .. w + n - 1 : x \in Words /\ w <= x /\ x < w + n
  BY <1>4, HeapFacts
<1>6. \A x \in w .. w + n - 1 : h2[x] = mem[x]
  BY <1>5 DEF Kept, n
<1> QED
  BY <1>4, <1>6

-----------------------------------------------------------------------------
(* The steps.                                                              *)

(* The block that my_malloc takes, and whether it can be cut.              *)
FirstFit(total) == FreeList(mem, free_list)[Min(Candidates(total))]

Cuts(T, total) ==
  /\ total \in T
  /\ mem[SizeAt(FirstFit(total))] > total
       => mem[SizeAt(FirstFit(total))] - total \in T

(* find_free_block stops at a block of the list that is large enough.      *)
LEMMA FirstFitFacts ==
  ASSUME NEW total, Candidates(total) # {}
  PROVE  /\ Min(Candidates(total)) \in 0 .. heap_words
         /\ FirstFit(total) # Null /\ mem[SizeAt(FirstFit(total))] >= total
<1> DEFINE C == Candidates(total)
<1>1. C \in SUBSET Nat
  BY HeapFacts DEF Candidates
<1>2. \E m \in C : \A n \in C : m <= n
  BY <1>1, Least
<1>3. Min(C) \in C
  BY <1>2 DEF Min
<1> QED
  BY <1>3 DEF Candidates, Fits, FirstFit

(* my_malloc keeps the invariant.                                          *)
LEMMA MallocKeeps ==
  ASSUME NEW T, BlockSizes(T), AllocInv(T), NEW c \in Clients,
         NEW size \in Sizes, my_malloc(c, size), Cuts(T, TotalSize(size)),
         Whole(size)
  PROVE  AllocInv(T)'
<1> DEFINE total == TotalSize(size)
           i == Min(Candidates(total))
           p == FirstFit(total)
<1>1. /\ heap_start /\ held[c] = Nothing /\ Candidates(total) # {}
      /\ size \in Nat \ {0}
  BY AllocatorAssumption DEF my_malloc
<1>2. i \in 0 .. heap_words /\ p # Null /\ mem[SizeAt(p)] >= total
  BY <1>1, FirstFitFacts
<1>3. p = FreeList(mem, free_list)[i]
  BY DEF FirstFit
<1>4. /\ mem' = TakenMem(mem, free_list, i, total)
      /\ free_list' = TakenFirst(mem, free_list, i, total)
      /\ held' = [held EXCEPT ![c] = [ptr |-> p + HEADER_SIZE, size |-> size]]
      /\ heap_start' = heap_start /\ written' = written
  BY DEF my_malloc, TakenMem, TakenFirst, FirstFit
<1>5. total \in T /\ (mem[SizeAt(p)] > total => mem[SizeAt(p)] - total \in T)
  BY DEF Cuts
<1> HIDE DEF total, i, p
<1>6. PICK F, rank : HeapInv(mem, free_list, T, F, HeldCells, rank)
  BY <1>1 DEF AllocInv, HeapShape
<1>7. PICK w \in Cells \ HeldCells :
        /\ p = Addr(w) /\ mem'[w] = total
        /\ Kept(mem, mem', HeldCells)
        /\ \E F2, rank2 : HeapInv(mem', free_list', T, F2, HeldCells \cup {w}, rank2)
  <2>1. PICK w \in Cells \ HeldCells :
          Taken(mem, free_list, i, total, T, HeldCells, w)
    BY <1>2, <1>3, <1>5, <1>6, MallocHeap
  <2> QED
    BY <1>3, <1>4, <2>1 DEF Taken
<1>8. w \in Nat /\ Addr(w) \in Nat /\ HEADER_SIZE = 24 /\ Null = 0
  BY HeapFacts, AddrFacts DEF Cells
<1>9. /\ held \in [Clients -> [ptr : Nat, size : Nat]]
      /\ held' \in [Clients -> [ptr : Nat, size : Nat]]
      /\ held'[c] = [ptr |-> Addr(w) + HEADER_SIZE, size |-> size]
      /\ \A d \in Clients : d # c => held'[d] = held[d]
  <2>1. held \in [Clients -> [ptr : Nat, size : Nat]]
    BY DEF AllocInv, TypesInv
  <2> QED
    BY <1>1, <1>4, <1>7, <1>8, <2>1
<1>10. Holds(c, w)' /\ held'[c].size = size /\ held'[c] # Nothing
  <2>1. held'[c].ptr = Addr(w) + HEADER_SIZE /\ held'[c].size = size
    BY <1>9
  <2>2. held'[c] # Nothing
    BY <1>1, <2>1 DEF Nothing
  <2> QED
    BY <2>1, <2>2 DEF Holds
<1>11. ASSUME NEW v \in Cells PROVE Holds(c, v)' => v = w
  <2>0. v \in Nat
    BY HeapFacts DEF Cells
  <2>1. v \in Nat /\ Addr(v) \in Nat
    BY <2>0, AddrFacts
  <2>2. Holds(c, v)' => Addr(v) + HEADER_SIZE = Addr(w) + HEADER_SIZE
    BY <1>9 DEF Holds
  <2>3. Holds(c, v)' => Addr(v) = Addr(w)
    BY <1>8, <2>1, <2>2
  <2> QED
    BY <1>8, <2>1, <2>3, AddrIds
<1>12. ASSUME NEW d \in Clients, d # c, NEW v \in Cells PROVE Holds(d, v)' <=> Holds(d, v)
  BY <1>9, <1>12 DEF Holds
<1>13. \A v \in Cells : ~ Holds(c, v)
  BY <1>1 DEF Holds
<1>14. HeldCells' = HeldCells \cup {w}
  BY <1>7, <1>10, <1>11, <1>12, <1>13 DEF HeldCells
<1>15. ASSUME NEW d \in Clients, d # c, NEW v \in Cells, Holds(d, v)
       PROVE  mem'[v] = mem[v] /\ \A x \in DataWords(d) : mem'[x] = mem[x]
  <2>1. v \in HeldCells
    BY <1>15 DEF HeldCells
  <2> QED
    BY <1>7, <1>15, <2>1, KeptHolder
<1>16. TypesInv'
  <2>1. mem' \in [Words -> Values]
    BY <1>7 DEF HeapInv
  <2> QED
    BY <1>4, <1>9, <2>1 DEF AllocInv, TypesInv
<1>17. HoldersInv'
  <2>1. ASSUME NEW d \in Clients, held'[d] # Nothing
        PROVE  /\ heap_start' /\ Whole(held'[d].size)
               /\ \E v \in Cells : Holds(d, v)' /\ mem'[v] = TotalSize(held'[d].size)
    <3>1. CASE d = c
      BY <1>1, <1>4, <1>7, <1>10, <3>1 DEF total
    <3>2. CASE d # c
      <4>1. held'[d] = held[d] /\ held[d] # Nothing
        BY <1>9, <2>1, <3>2
      <4>2. PICK v \in Cells : Holds(d, v) /\ mem[v] = TotalSize(held[d].size)
        BY <4>1 DEF AllocInv, HoldersInv
      <4>3. heap_start /\ Whole(held[d].size)
        BY <4>1 DEF AllocInv, HoldersInv
      <4>4. Holds(d, v)' /\ mem'[v] = mem[v]
        BY <1>12, <1>15, <3>2, <4>2
      <4> QED
        BY <1>4, <4>1, <4>2, <4>3, <4>4
    <3> QED
      BY <3>1, <3>2
  <2>2. ASSUME NEW v \in Cells, NEW a \in Clients, NEW b \in Clients,
               Holds(a, v)', Holds(b, v)'
        PROVE  a = b
    <3>1. ASSUME NEW d \in Clients, d # c, Holds(d, v)' PROVE v # w
      BY <1>7, <1>12, <3>1 DEF HeldCells
    <3>2. CASE a # c /\ b # c
      BY <1>12, <2>2, <3>2 DEF AllocInv, HoldersInv
    <3> QED
      BY <1>11, <2>2, <3>1, <3>2
  <2> QED
    BY <2>1, <2>2 DEF HoldersInv
<1>18. ContentsInv'
  <2>1. ASSUME NEW d \in written
        PROVE  held'[d] # Nothing /\ \A x \in DataWords(d)' : mem'[x] = d
    <3>1. held[d] # Nothing /\ d \in Clients /\ d # c
      BY <1>1 DEF AllocInv, ContentsInv, TypesInv
    <3>2. held'[d] = held[d] /\ DataWords(d)' = DataWords(d)
      BY <1>9, <3>1 DEF DataWords
    <3>3. PICK v \in Cells : Holds(d, v)
      BY <3>1 DEF AllocInv, HoldersInv
    <3>4. \A x \in DataWords(d) : mem'[x] = mem[x] /\ mem[x] = d
      BY <1>15, <3>1, <3>3 DEF AllocInv, ContentsInv
    <3> QED
      BY <3>1, <3>2, <3>4
  <2>2. ASSUME NEW x \in Guard PROVE mem'[x] = Unset
    <3>1. x \in Words /\ x >= heap_words
      BY HeapFacts DEF Guard
    <3> QED
      BY <1>7, <3>1 DEF Kept, AllocInv, ContentsInv
  <2> QED
    BY <1>4, <2>1, <2>2 DEF ContentsInv
<1>19. HeapShape(T)'
  BY <1>7, <1>14 DEF HeapShape
<1> QED
  BY <1>16, <1>17, <1>18, <1>19 DEF AllocInv

(* my_free keeps the invariant, and finds the size it has given out.       *)
LEMMA FreeKeeps ==
  ASSUME NEW T, BlockSizes(T), AllocInv(T), NEW c \in Clients, my_free(c)
  PROVE  /\ AllocInv(T)'
         /\ stats' = [stats EXCEPT
                        !.total_freed = @ + TotalSize(held[c].size),
                        !.num_frees = @ + 1]
<1>1. held[c] # Nothing
  BY DEF my_free
<1>2. PICK w \in HeldCells :
        /\ Holds(c, w) /\ mem[w] = TotalSize(held[c].size)
        /\ w \in Nat /\ Span(mem, w) \in Nat /\ Span(mem, w) >= 3
        /\ w + Span(mem, w) <= heap_words /\ mem[w] = 8 * Span(mem, w)
        /\ Header(c) = Addr(w)
  BY <1>1, HolderFacts
<1>3. SizeAt(Addr(w)) = w /\ Addr(w) \in Nat
  BY <1>2, AddrFacts
<1>4. SaneHeader(Header(c)) /\ FreedSize(Header(c)) = TotalSize(held[c].size)
  <2> DEFINE n == Span(mem, w)
  <2> HIDE DEF n
  <2>1. n \in Nat /\ n >= 3 /\ w + n <= heap_words /\ mem[w] = 8 * n
    BY <1>2 DEF n
  <2>2. mem[w] # 0 /\ mem[w] <= heap_size
    BY <1>2, <2>1, HeapFacts
  <2> QED
    BY <1>2, <1>3, <2>2 DEF SaneHeader, FreedSize
<1> DEFINE h1 == PushedMem(mem, free_list, w)
           H == HeldCells \ {w}
<1>5. Push(Header(c)) = h1
  BY <1>2 DEF Push, PushedMem
<1>6. /\ mem' = coalesce(h1, Addr(w)) /\ free_list' = Addr(w)
      /\ stats' = [stats EXCEPT !.total_freed = @ + TotalSize(held[c].size),
                                !.num_frees = @ + 1]
      /\ held' = [held EXCEPT ![c] = Nothing]
      /\ written' = written \ {c} /\ heap_start' = heap_start
  BY <1>2, <1>4, <1>5 DEF my_free
<1>7. PICK F, rank : HeapInv(mem, free_list, T, F, HeldCells, rank)
  BY <1>1, HolderFacts DEF AllocInv, HeapShape
<1>8. PICK rank1 : HeapInv(h1, Addr(w), T, F \cup {w}, H, rank1)
  BY <1>7, PushHeap
<1>9. Kept(mem, h1, H)
  BY <1>7, PushHeap
<1> HIDE DEF h1, H
<1>10. /\ Kept(h1, mem', H)
       /\ \E F2, rank2 : HeapInv(mem', free_list', T, F2, H, rank2)
  BY <1>6, <1>8, CoalesceHeap
<1>11. Kept(mem, mem', H)
  <2>1. F \cup HeldCells \in SUBSET Cells /\ Tiles(mem, T, F \cup HeldCells)
    BY <1>7 DEF HeapInv
  <2>2. H \in SUBSET (F \cup HeldCells)
    BY DEF H
  <2> QED
    BY <1>9, <1>10, <2>1, <2>2, KeptBoth
<1>12. /\ held \in [Clients -> [ptr : Nat, size : Nat]]
       /\ held' \in [Clients -> [ptr : Nat, size : Nat]]
       /\ held'[c] = Nothing
       /\ \A d \in Clients : d # c => held'[d] = held[d]
  <2>1. held \in [Clients -> [ptr : Nat, size : Nat]]
    BY DEF AllocInv, TypesInv
  <2>2. Nothing \in [ptr : Nat, size : Nat]
    BY DEF Nothing, Null
  <2> QED
    BY <1>6, <2>1, <2>2
<1>13. ASSUME NEW v \in Cells, NEW d \in Clients
       PROVE  Holds(d, v)' <=> (d # c /\ Holds(d, v))
  BY <1>12 DEF Holds
<1>14. ASSUME NEW d \in Clients, d # c PROVE ~ Holds(d, w)
  BY <1>2, <1>14 DEF HeldCells, AllocInv, HoldersInv
<1>15. ASSUME NEW v \in Cells, Holds(c, v) PROVE v = w
  <2>1. v \in Nat
    BY HeapFacts DEF Cells
  <2>2. Addr(v) \in Nat /\ HEADER_SIZE \in Nat
    BY <2>1, AddrFacts, HeapFacts
  <2>3. Addr(v) + HEADER_SIZE = Addr(w) + HEADER_SIZE
    BY <1>2, <1>15 DEF Holds
  <2>4. Addr(v) = Addr(w)
    BY <1>3, <2>2, <2>3
  <2> QED
    BY <1>2, <2>1, <2>4, AddrIds
<1>16. HeldCells' = H
  <2>1. ASSUME NEW v \in Cells PROVE v \in HeldCells' <=> v \in HeldCells /\ v # w
    <3>1. CASE v = w
      BY <1>13, <1>14, <3>1 DEF HeldCells
    <3>2. CASE v # w
      BY <1>13, <1>15, <3>2 DEF HeldCells
    <3> QED
      BY <3>1, <3>2
  <2>2. HeldCells' \subseteq Cells /\ HeldCells \subseteq Cells
    BY DEF HeldCells
  <2> QED
    BY <2>1, <2>2 DEF H
<1>17. ASSUME NEW d \in Clients, d # c, NEW v \in Cells, Holds(d, v)
       PROVE  mem'[v] = mem[v] /\ \A x \in DataWords(d) : mem'[x] = mem[x]
  <2>1. v \in HeldCells /\ v \in H
    BY <1>14, <1>17 DEF HeldCells, H
  <2> QED
    BY <1>11, <1>17, <2>1, KeptHolder
<1>18. TypesInv'
  <2>1. mem' \in [Words -> Values]
    BY <1>10 DEF HeapInv
  <2> QED
    BY <1>6, <1>12, <2>1 DEF AllocInv, TypesInv
<1>19. HoldersInv'
  <2>1. ASSUME NEW d \in Clients, held'[d] # Nothing
        PROVE  /\ heap_start' /\ Whole(held'[d].size)
               /\ \E v \in Cells : Holds(d, v)' /\ mem'[v] = TotalSize(held'[d].size)
    <3>1. d # c /\ held'[d] = held[d] /\ held[d] # Nothing
      BY <1>12, <2>1
    <3>2. PICK v \in Cells : Holds(d, v) /\ mem[v] = TotalSize(held[d].size)
      BY <3>1 DEF AllocInv, HoldersInv
    <3>3. heap_start /\ Whole(held[d].size)
      BY <3>1 DEF AllocInv, HoldersInv
    <3>4. Holds(d, v)' /\ mem'[v] = mem[v]
      BY <1>13, <1>17, <3>1, <3>2
    <3> QED
      BY <1>6, <3>1, <3>2, <3>3, <3>4
  <2>2. ASSUME NEW v \in Cells, NEW a \in Clients, NEW b \in Clients,
               Holds(a, v)', Holds(b, v)'
        PROVE  a = b
    BY <1>13, <2>2 DEF AllocInv, HoldersInv
  <2> QED
    BY <2>1, <2>2 DEF HoldersInv
<1>20. ContentsInv'
  <2>1. ASSUME NEW d \in written \ {c}
        PROVE  held'[d] # Nothing /\ \A x \in DataWords(d)' : mem'[x] = d
    <3>1. held[d] # Nothing /\ d \in Clients /\ d # c
      BY DEF AllocInv, ContentsInv, TypesInv
    <3>2. held'[d] = held[d] /\ DataWords(d)' = DataWords(d)
      BY <1>12, <3>1 DEF DataWords
    <3>3. PICK v \in Cells : Holds(d, v)
      BY <3>1 DEF AllocInv, HoldersInv
    <3>4. \A x \in DataWords(d) : mem'[x] = mem[x] /\ mem[x] = d
      BY <1>17, <3>1, <3>3 DEF AllocInv, ContentsInv
    <3> QED
      BY <3>1, <3>2, <3>4
  <2>2. ASSUME NEW x \in Guard PROVE mem'[x] = Unset
    <3>1. x \in Words /\ x >= heap_words
      BY HeapFacts DEF Guard
    <3> QED
      BY <1>11, <3>1 DEF Kept, AllocInv, ContentsInv
  <2> QED
    BY <1>6, <2>1, <2>2 DEF ContentsInv
<1>21. HeapShape(T)'
  BY <1>10, <1>16 DEF HeapShape
<1> QED
  BY <1>6, <1>18, <1>19, <1>20, <1>21 DEF AllocInv

(* A client's writes keep the invariant.                                   *)
LEMMA WriteKeeps ==
  ASSUME NEW T, BlockSizes(T), AllocInv(T), NEW c \in Clients, ClientWrites(c)
  PROVE  AllocInv(T)'
<1>1. /\ held[c] # Nothing
      /\ mem' = [x \in Words |-> IF x \in DataWords(c) THEN c ELSE mem[x]]
      /\ written' = written \cup {c}
      /\ UNCHANGED <<heap_start, free_list, held>>
  BY DEF ClientWrites
<1>2. PICK w \in HeldCells :
        /\ Holds(c, w) /\ w \in Nat /\ Span(mem, w) \in Nat /\ Span(mem, w) >= 3
        /\ w + Span(mem, w) <= heap_words
        /\ DataWords(c) = w + 3 .. w + Span(mem, w) - 1
  BY <1>1, HolderFacts
<1> DEFINE n == Span(mem, w)
<1>3. /\ \A x \in DataWords(c) : x \in Nat /\ w + 3 <= x /\ x < w + n /\ x < heap_words
      /\ n \in Nat /\ w + n <= heap_words
  BY <1>2, HeapFacts
<1>4. \A x \in DataWords(c) : x \in Words
  BY <1>3, HeapFacts
<1> HIDE DEF n
<1>5. /\ \A x \in DataWords(c) : mem'[x] = c
      /\ \A x \in Words : x \notin DataWords(c) => mem'[x] = mem[x]
  BY <1>1, <1>4
<1>6. PICK F, rank : HeapInv(mem, free_list, T, F, HeldCells, rank)
  BY <1>1, HolderFacts DEF AllocInv, HeapShape
<1>7. HeldCells' = HeldCells
  BY <1>1 DEF HeldCells, Holds
<1> DEFINE B == F \cup HeldCells
<1>8. B \in SUBSET Cells /\ Tiles(mem, T, B) /\ w \in B /\ F \subseteq B
  BY <1>6 DEF HeapInv
<1> HIDE DEF B
<1>9. ASSUME NEW v \in B, NEW x \in {v, v + 1, v + 2} PROVE mem'[x] = mem[x]
  <2>1. CASE v = w
    <3>1. x \in Words /\ ~ (w + 3 <= x)
      BY <1>2, <2>1, HeapFacts
    <3> QED
      BY <1>3, <1>5, <3>1
  <2>2. CASE v # w
    <3>1. x \in Words /\ x \in Nat /\ (x < w \/ w + n <= x)
      BY <1>8, <2>2, HeaderOutside DEF n
    <3>2. ~ (w + 3 <= x /\ x < w + n)
      BY <1>2, <1>3, <3>1
    <3> QED
      BY <1>3, <1>5, <3>1, <3>2
  <2> QED
    BY <2>1, <2>2
<1>10. mem' \in [Words -> Values]
  BY <1>1 DEF AllocInv, TypesInv, Values
<1>11. HeapInv(mem', free_list', T, F, HeldCells', rank)
  <2>1. Tiles(mem', T, B)
    BY <1>8, <1>9, TilesSame
  <2>2. Linked(mem', free_list, F, rank)
    <3>1. \A v \in F : mem'[v + 2] = mem[v + 2]
      BY <1>8, <1>9
    <3> QED
      BY <1>6, <3>1 DEF HeapInv, Linked
  <2>3. \A v \in B : mem'[v + 1] = mem[v + 1]
    BY <1>9
  <2> QED
    BY <1>1, <1>6, <1>7, <1>10, <2>1, <2>2, <2>3 DEF HeapInv, B
<1>12. TypesInv'
  BY <1>1, <1>10 DEF AllocInv, TypesInv
<1>13. HoldersInv'
  <2>1. ASSUME NEW d \in Clients, held[d] # Nothing
        PROVE  /\ heap_start /\ Whole(held[d].size)
               /\ \E v \in Cells : Holds(d, v) /\ mem'[v] = TotalSize(held[d].size)
    <3>1. PICK v \in Cells : Holds(d, v) /\ mem[v] = TotalSize(held[d].size)
      BY <2>1 DEF AllocInv, HoldersInv
    <3>2. v \in B
      BY <3>1 DEF HeldCells, B
    <3>3. mem'[v] = mem[v]
      BY <1>9, <3>2
    <3> QED
      BY <2>1, <3>1, <3>3 DEF AllocInv, HoldersInv
  <2>2. \A d \in Clients, v \in Cells : Holds(d, v)' <=> Holds(d, v)
    BY <1>1 DEF Holds
  <2> QED
    BY <1>1, <2>1, <2>2 DEF AllocInv, HoldersInv
<1>14. ContentsInv'
  <2>1. ASSUME NEW d \in written \cup {c}
        PROVE  held[d] # Nothing /\ \A x \in DataWords(d) : mem'[x] = d
    <3>1. CASE d = c
      BY <1>1, <1>5, <3>1
    <3>2. CASE d # c
      <4>1. d \in Clients /\ held[d] # Nothing /\ \A x \in DataWords(d) : mem[x] = d
        BY <2>1, <3>2 DEF AllocInv, TypesInv, ContentsInv
      <4>2. PICK v \in HeldCells :
              /\ Holds(d, v) /\ v \in Nat /\ Span(mem, v) \in Nat
              /\ v + Span(mem, v) <= heap_words
              /\ DataWords(d) = v + 3 .. v + Span(mem, v) - 1
        BY <4>1, HolderFacts
      <4>3. v # w /\ v \in B
        BY <1>2, <3>2, <4>1, <4>2 DEF AllocInv, HoldersInv, HeldCells, B
      <4> DEFINE m == Span(mem, v)
      <4>4. w + n <= v \/ v + m <= w
        BY <1>8, <4>3, HeadersApart DEF n
      <4>5. \A x \in DataWords(d) : x \in Nat /\ v <= x /\ x < v + m /\ x \in Words
        BY <4>2, HeapFacts
      <4>6. m \in Nat
        BY <4>2
      <4> HIDE DEF m
      <4>7. \A x \in DataWords(d) : ~ (w + 3 <= x /\ x < w + n)
        BY <1>2, <1>3, <4>2, <4>4, <4>5, <4>6
      <4> QED
        BY <1>3, <1>5, <4>1, <4>5, <4>7
    <3> QED
      BY <3>1, <3>2
  <2>2. ASSUME NEW x \in Guard PROVE mem'[x] = Unset
    <3>1. x \in Words /\ ~ (x < heap_words)
      BY HeapFacts DEF Guard
    <3> QED
      BY <1>3, <1>5, <3>1 DEF AllocInv, ContentsInv
  <2>3. \A d : DataWords(d)' = DataWords(d)
    BY <1>1 DEF DataWords
  <2> QED
    BY <1>1, <2>1, <2>2, <2>3 DEF ContentsInv
<1>15. HeapShape(T)'
  BY <1>11 DEF HeapShape
<1> QED
  BY <1>12, <1>13, <1>14, <1>15 DEF AllocInv

(* allocator_init makes one free block of the heap.                        *)
LEMMA InitKeeps ==
  ASSUME NEW T, BlockSizes(T), heap_size \in T, AllocInv(T), allocator_init
  PROVE  AllocInv(T)'
<1>1. /\ ~ heap_start /\ heap_start' = TRUE /\ free_list' = Start
      /\ held' = held /\ written' = written
  BY DEF allocator_init
<1>2. Start = Addr(0)
  BY DEF Start, Addr, ALIGNMENT
<1>3. SizeAt(Start) = 0 /\ FreeAt(Start) = 1 /\ NextAt(Start) = 2 /\ Null = 0
  BY DEF SizeAt, FreeAt, NextAt, Word, Start, ALIGNMENT, Null
<1>4. mem' = [x \in Words |-> CASE x = 0 -> heap_size [] x = 1 -> 1 [] x = 2 -> 0
                                [] OTHER -> Unset]
  BY <1>3 DEF allocator_init
<1>5. 0 \in Words /\ 1 \in Words /\ 2 \in Words /\ heap_size \in Nat
  BY HeapFacts
<1>6. mem'[0] = heap_size /\ mem'[1] = 1 /\ mem'[2] = Null
  BY <1>3, <1>4, <1>5
<1>7. mem' \in [Words -> Values]
  BY <1>4, <1>5 DEF Values
<1>8. \A c \in Clients : held[c] = Nothing
  BY <1>1 DEF AllocInv, HoldersInv
<1>9. HeldCells' = {}
  BY <1>1, <1>8 DEF HeldCells, Holds
<1> DEFINE rank == [x \in Cells |-> 0]
<1>10. 0 \in Cells /\ rank \in [Cells -> Nat] /\ rank[0] = 0
  BY HeapFacts DEF Cells
<1>11. Tiles(mem', T, {0})
  <2>1. Span(mem', 0) = heap_words
    <3>1. (8 * heap_words) \div 8 = heap_words
      BY HeapFacts
    <3> QED
      BY <1>6, <3>1, HeapFacts DEF Span
  <2>2. mem'[0] \in T /\ 0 + heap_words <= heap_words
    BY <1>6, HeapFacts
  <2>3. \A x \in Cells : 0 <= x /\ x < 0 + heap_words
    BY HeapFacts DEF Cells
  <2> QED
    BY <2>1, <2>2, <2>3 DEF Tiles
<1>12. Linked(mem', Addr(0), {0}, rank)
  <2>1. Leads(Addr(0), {0}, rank)
    BY <1>10 DEF Leads
  <2>2. Follows(mem'[0 + 2], 0, {0}, rank)
    BY <1>6, <1>10 DEF Follows
  <2> QED
    BY <2>1, <2>2 DEF Linked
<1> HIDE DEF rank
<1>13. HeapInv(mem', free_list', T, {0}, HeldCells', rank)
  <2>1. mem'[0 + 1] = 1
    BY <1>6
  <2>2. {0} \cup {} = {0}
    OBVIOUS
  <2> QED
    BY <1>1, <1>2, <1>7, <1>9, <1>10, <1>11, <1>12, <2>1, <2>2 DEF HeapInv
<1>14. TypesInv' /\ HoldersInv'
  BY <1>1, <1>7, <1>8 DEF AllocInv, TypesInv, HoldersInv, Holds
<1>15. ContentsInv'
  <2>1. written = {}
    BY <1>8 DEF AllocInv, TypesInv, ContentsInv
  <2>2. ASSUME NEW x \in Guard PROVE mem'[x] = Unset
    <3>1. x \in Words /\ x # 0 /\ x # 1 /\ x # 2
      BY HeapFacts DEF Guard
    <3> QED
      BY <1>4, <3>1
  <2> QED
    BY <1>1, <2>1, <2>2 DEF ContentsInv
<1>16. HeapShape(T)'
  BY <1>13 DEF HeapShape
<1> QED
  BY <1>14, <1>15, <1>16 DEF AllocInv

(* The steps that leave memory and list alone.                             *)
LEMMA OthersKeep ==
  ASSUME NEW T, AllocInv(T),
         InitFails \/ allocator_cleanup \/ UNCHANGED allocVars
  PROVE  AllocInv(T)'
<1>1. UNCHANGED <<mem, free_list, held, written>>
  BY DEF InitFails, allocator_cleanup, allocVars
<1>2. /\ HeldCells' = HeldCells /\ \A d : DataWords(d)' = DataWords(d)
      /\ \A d, w : Holds(d, w)' <=> Holds(d, w)
  BY <1>1 DEF HeldCells, Holds, DataWords
<1>3. ContentsInv'
  BY <1>1, <1>2 DEF AllocInv, ContentsInv
<1>4. CASE heap_start' = heap_start
  BY <1>1, <1>2, <1>3, <1>4 DEF AllocInv, TypesInv, HoldersInv, HeapShape
<1>5. CASE allocator_cleanup
  <2>1. heap_start' = FALSE /\ \A c \in Clients : held[c] = Nothing
    BY <1>5 DEF allocator_cleanup
  <2> QED
    BY <1>1, <1>2, <1>3, <2>1 DEF AllocInv, TypesInv, HoldersInv, HeapShape
<1> QED
  BY <1>4, <1>5 DEF InitFails, allocVars

(* At the beginning there is no heap.                                      *)
LEMMA InitHolds ==
  ASSUME NEW T, AllocInit
  PROVE  AllocInv(T)
<1>1. mem \in [Words -> Values] /\ Nothing \in [ptr : Nat, size : Nat]
  BY DEF AllocInit, Values, Nothing, Null
<1>2. \A x \in Guard : x \in Words
  BY HeapFacts DEF Guard
<1>3. TypesInv
  BY <1>1 DEF AllocInit, TypesInv
<1>4. HoldersInv /\ ContentsInv /\ HeapShape(T)
  BY <1>2 DEF AllocInit, HoldersInv, ContentsInv, HeapShape, Holds
<1> QED
  BY <1>3, <1>4 DEF AllocInv

(* Every step that cuts blocks well keeps the invariant.                   *)
LEMMA NextKeeps ==
  ASSUME NEW T, BlockSizes(T), heap_size \in T, AllocInv(T), [AllocNext]_allocVars,
         \A c \in Clients, size \in Sizes :
           my_malloc(c, size) => Cuts(T, TotalSize(size)) /\ Whole(size)
  PROVE  AllocInv(T)'
<1>1. CASE allocator_init
  BY <1>1, InitKeeps
<1>2. CASE InitFails \/ allocator_cleanup \/ UNCHANGED allocVars
  BY <1>2, OthersKeep
<1>3. ASSUME NEW c \in Clients, NEW size \in Sizes, my_malloc(c, size)
      PROVE  AllocInv(T)'
  BY <1>3, MallocKeeps
<1>4. ASSUME NEW c \in Clients, NEW size \in Sizes, MallocFails(c, size)
      PROVE  UNCHANGED allocVars
  BY <1>4 DEF MallocFails
<1>5. ASSUME NEW c \in Clients, my_free(c) PROVE AllocInv(T)'
  BY <1>5, FreeKeeps
<1>6. ASSUME NEW c \in Clients, ClientWrites(c) PROVE AllocInv(T)'
  BY <1>6, WriteKeeps
<1> QED
  BY <1>1, <1>2, <1>3, <1>4, <1>5, <1>6, Zenon DEF AllocNext

-----------------------------------------------------------------------------
(* What the invariant says.                                                *)

(* The blocks that are held are intact.                                    *)
LEMMA HeldIntactHolds ==
  ASSUME NEW T, BlockSizes(T), AllocInv(T)
  PROVE  HeldIntact
<1>1. ASSUME NEW c \in Clients, held[c] # Nothing
      PROVE  /\ mem[SizeAt(Header(c))] = TotalSize(held[c].size)
             /\ mem[FreeAt(Header(c))] = 0
  <2>1. PICK w \in HeldCells :
          w \in Nat /\ mem[w] = TotalSize(held[c].size) /\ Header(c) = Addr(w)
    BY <1>1, HolderFacts
  <2>2. PICK F, rank : HeapInv(mem, free_list, T, F, HeldCells, rank)
    BY <1>1, HolderFacts DEF AllocInv, HeapShape
  <2>3. mem[w + 1] = 0
    BY <2>2 DEF HeapInv
  <2>4. SizeAt(Addr(w)) = w /\ FreeAt(Addr(w)) = w + 1
    BY <2>1, AddrFacts
  <2> QED
    BY <2>1, <2>3, <2>4
<1> QED
  BY <1>1 DEF HeldIntact, AllocInv, ContentsInv

(* The blocks share out the heap.                                          *)
LEMMA BlocksTileHolds ==
  ASSUME NEW T, BlockSizes(T), AllocInv(T)
  PROVE  TileUntilCramped
<1> SUFFICES ASSUME heap_start
             PROVE  /\ \A p, q \in FreeBlocks \cup HeldBlocks :
                         p # q => Extent(p) \cap Extent(q) = {}
                    /\ UNION {Extent(p) : p \in FreeBlocks \cup HeldBlocks}
                         = 0 .. heap_words - 1
  BY DEF TileUntilCramped
<1>1. PICK F, rank : HeapInv(mem, free_list, T, F, HeldCells, rank)
  BY DEF AllocInv, HeapShape
<1> DEFINE B == F \cup HeldCells
           All == FreeBlocks \cup HeldBlocks
<1>2. B \in SUBSET Cells /\ Tiles(mem, T, B)
  BY <1>1 DEF HeapInv
<1>3. FreeBlocks = {Addr(w) : w \in F}
  BY <1>1, ListIsF DEF FreeBlocks
<1>4. HeldBlocks = {Addr(w) : w \in HeldCells}
  <2>1. ASSUME NEW c \in Clients, held[c] # Nothing
        PROVE  \E w \in HeldCells : Header(c) = Addr(w)
    BY <2>1, HolderFacts
  <2>2. ASSUME NEW w \in HeldCells
        PROVE  \E c \in Clients : held[c] # Nothing /\ Header(c) = Addr(w)
    <3>1. PICK c \in Clients : Holds(c, w)
      BY DEF HeldCells
    <3>2. w \in Nat
      BY HeapFacts DEF HeldCells, Cells
    <3>3. Addr(w) \in Nat /\ HEADER_SIZE \in Nat
      BY <3>2, AddrFacts, HeapFacts
    <3>4. Header(c) = Addr(w)
      BY <3>1, <3>3 DEF Header, Holds
    <3> QED
      BY <3>1, <3>4 DEF Holds
  <2> QED
    BY <2>1, <2>2 DEF HeldBlocks
<1>5. All = {Addr(w) : w \in B}
  BY <1>3, <1>4
<1> HIDE DEF B, All
<1>6. ASSUME NEW w \in B
      PROVE  /\ w \in Nat /\ Span(mem, w) \in Nat
             /\ w + Span(mem, w) <= heap_words
             /\ Extent(Addr(w)) = w .. w + Span(mem, w) - 1
  <2> DEFINE n == Span(mem, w)
  <2>1. w \in Nat /\ n \in Nat /\ w + n <= heap_words /\ mem[w] = 8 * n
    BY <1>2, HeadersApart
  <2> HIDE DEF n
  <2>2. SizeAt(Addr(w)) = w /\ Word(Addr(w)) = w
    BY <2>1, AddrFacts DEF SizeAt
  <2>3. Addr(w) + 8 * n = Addr(w + n) /\ w + n \in Nat
    BY <2>1, AddrPlus
  <2>4. Word(Addr(w + n)) = w + n
    BY <2>3, AddrFacts DEF SizeAt
  <2> QED
    BY <2>1, <2>2, <2>3, <2>4 DEF Extent, n
<1>7. ASSUME NEW p \in All, NEW q \in All, p # q
      PROVE  Extent(p) \cap Extent(q) = {}
  <2>1. PICK w \in B, v \in B : p = Addr(w) /\ q = Addr(v)
    BY <1>5
  <2>2. w # v
    BY <1>7, <2>1
  <2>3. Apart(mem, w, v)
    BY <1>2, <2>2 DEF Tiles
  <2>4. w + Span(mem, w) <= v \/ v + Span(mem, v) <= w
    BY <2>3 DEF Apart
  <2> DEFINE n == Span(mem, w)
             m == Span(mem, v)
  <2>5. w \in Nat /\ v \in Nat /\ n \in Nat /\ m \in Nat
    BY <1>6
  <2>6. Extent(p) = w .. w + n - 1 /\ Extent(q) = v .. v + m - 1
    BY <1>6, <2>1
  <2> HIDE DEF n, m
  <2>7. w + n <= v \/ v + m <= w
    BY <2>4 DEF n, m
  <2>8. \A x \in w .. w + n - 1 : x \notin v .. v + m - 1
    BY <2>5, <2>7
  <2> QED
    BY <2>6, <2>8
<1>8. UNION {Extent(p) : p \in All} = Cells
  <2>1. ASSUME NEW p \in All, NEW x \in Extent(p) PROVE x \in Cells
    <3>1. PICK w \in B : p = Addr(w)
      BY <1>5
    <3> DEFINE n == Span(mem, w)
    <3>2. w \in Nat /\ n \in Nat /\ w + n <= heap_words /\ x \in w .. w + n - 1
      BY <1>6, <2>1, <3>1
    <3> HIDE DEF n
    <3> QED
      BY <3>2, HeapFacts DEF Cells
  <2>2. ASSUME NEW x \in Cells PROVE \E p \in All : x \in Extent(p)
    <3>1. PICK w \in B : w <= x /\ x < w + Span(mem, w)
      BY <1>2 DEF Tiles
    <3> DEFINE n == Span(mem, w)
    <3>2. w \in Nat /\ n \in Nat /\ Extent(Addr(w)) = w .. w + n - 1
      BY <1>6
    <3>3. w <= x /\ x < w + n /\ x \in Nat
      BY <3>1, HeapFacts DEF Cells
    <3> HIDE DEF n
    <3>4. x \in w .. w + n - 1
      BY <3>2, <3>3
    <3> QED
      BY <1>5, <3>2, <3>4
  <2> QED
    BY <2>1, <2>2
<1> QED
  BY <1>7, <1>8 DEF All, Cells

-----------------------------------------------------------------------------
(* The sum of what is held.                                                *)

(* Sums over sets of clients, one client at a time.                        *)
Pick(s) == CHOOSE x \in s : TRUE

IsSum(g, f, D) ==
  g = [s \in D |-> IF s = {} THEN 0 ELSE f[Pick(s)] + g[s \ {Pick(s)}]]

Total(f) == (CHOOSE g : IsSum(g, f, SUBSET Clients))[Clients]

Small(n) == {s \in SUBSET Clients : Cardinality(s) <= n}

(* The sets of clients, by size.                                           *)
LEMMA SmallFacts ==
  /\ Small(0) = {{}} /\ Cardinality(Clients) \in Nat
  /\ Small(Cardinality(Clients)) = SUBSET Clients
  /\ \A n \in Nat : \A s \in Small(n + 1) :
       s # {} => Pick(s) \in s /\ s \ {Pick(s)} \in Small(n)
  /\ \A n \in Nat : Small(n) \subseteq Small(n + 1) /\ {} \in Small(n)
<1>1. \A s \in SUBSET Clients :
        /\ IsFiniteSet(s) /\ Cardinality(s) \in Nat
        /\ Cardinality(s) <= Cardinality(Clients)
        /\ Cardinality(s) = 0 <=> s = {}
        /\ \A x \in s : Cardinality(s \ {x}) = Cardinality(s) - 1
  BY AllocatorAssumption, FS_Subset, FS_CardinalityType, FS_EmptySet, FS_RemoveElement
<1>2. Cardinality(Clients) \in Nat
  BY <1>1
<1>3. Small(0) = {{}}
  BY <1>1 DEF Small
<1>4. Small(Cardinality(Clients)) = SUBSET Clients
  BY <1>1 DEF Small
<1>5. ASSUME NEW n \in Nat, NEW s \in Small(n + 1), s # {}
      PROVE  Pick(s) \in s /\ s \ {Pick(s)} \in Small(n)
  <2>1. Pick(s) \in s
    BY <1>5 DEF Pick
  <2>2. /\ s \in SUBSET Clients /\ Cardinality(s) <= n + 1 /\ Cardinality(s) \in Nat
        /\ Cardinality(s \ {Pick(s)}) = Cardinality(s) - 1
    BY <1>1, <2>1 DEF Small
  <2>3. Cardinality(s \ {Pick(s)}) <= n
    BY <2>2
  <2> QED
    BY <2>1, <2>2, <2>3 DEF Small
<1>6. ASSUME NEW n \in Nat PROVE Small(n) \subseteq Small(n + 1) /\ {} \in Small(n)
  <2>1. ASSUME NEW s \in Small(n) PROVE s \in Small(n + 1)
    <3>1. s \in SUBSET Clients /\ Cardinality(s) \in Nat /\ Cardinality(s) <= n
      BY <1>1 DEF Small
    <3> QED
      BY <3>1 DEF Small
  <2>2. {} \in Small(n)
    BY <1>1 DEF Small
  <2> QED
    BY <2>1, <2>2
<1> QED
  BY <1>2, <1>3, <1>4, <1>5, <1>6

(* The recursive function of the sum is well defined.                      *)
LEMMA TotalWalk ==
  ASSUME NEW f
  PROVE  \E g : IsSum(g, f, SUBSET Clients) /\ Total(f) = g[Clients]
<1> DEFINE S == {n \in Nat : \E g : IsSum(g, f, Small(n))}
<1>1. 0 \in S
  <2> DEFINE g == [s \in Small(0) |-> 0]
  <2>1. IsSum(g, f, Small(0))
    BY SmallFacts DEF IsSum
  <2> QED
    BY <2>1
<1>2. ASSUME NEW n \in 0 .. Cardinality(Clients) - 1, n \in S PROVE n + 1 \in S
  <2>1. PICK g : IsSum(g, f, Small(n))
    BY <1>2
  <2> DEFINE After(s) == f[Pick(s)] + g[s \ {Pick(s)}]
             g2 == [s \in Small(n + 1) |-> IF s \in Small(n) THEN g[s] ELSE After(s)]
  <2>2. n \in Nat
    OBVIOUS
  <2>3. /\ Small(n) \subseteq Small(n + 1) /\ {} \in Small(n)
        /\ \A s \in Small(n + 1) : s # {} => s \ {Pick(s)} \in Small(n)
    BY <2>2, SmallFacts
  <2>4. /\ g[{}] = 0
        /\ \A s \in Small(n) : s # {} => g[s] = After(s)
    BY <2>1, <2>3 DEF IsSum
  <2> HIDE DEF After
  <2>5. ASSUME NEW s \in Small(n + 1)
        PROVE  g2[s] = IF s = {} THEN 0 ELSE f[Pick(s)] + g2[s \ {Pick(s)}]
    <3>1. CASE s = {}
      BY <2>3, <2>4, <3>1
    <3>2. CASE s # {}
      <4>1. g2[s \ {Pick(s)}] = g[s \ {Pick(s)}]
        BY <2>3, <3>2
      <4>2. g2[s] = After(s)
        BY <2>4, <3>2
      <4> QED
        BY <3>2, <4>1, <4>2 DEF After
    <3> QED
      BY <3>1, <3>2
  <2>6. IsSum(g2, f, Small(n + 1))
    BY <2>5 DEF IsSum
  <2> HIDE DEF g2
  <2> QED
    BY <2>2, <2>6
<1> HIDE DEF S
<1>3. Cardinality(Clients) \in S
  BY <1>1, <1>2, SmallFacts, UpTo
<1>4. \E g : IsSum(g, f, SUBSET Clients)
  <2>1. \E g : IsSum(g, f, Small(Cardinality(Clients)))
    BY <1>3 DEF S
  <2>2. Small(Cardinality(Clients)) = SUBSET Clients
    BY SmallFacts
  <2> QED
    BY <2>1, <2>2
<1>5. IsSum(CHOOSE g : IsSum(g, f, SUBSET Clients), f, SUBSET Clients)
  BY <1>4
<1> QED
  BY <1>5 DEF Total

(* The sums of two functions that differ at c only.                        *)
LEMMA TotalChange ==
  ASSUME NEW f \in [Clients -> Nat], NEW f2 \in [Clients -> Nat],
         NEW c \in Clients, \A d \in Clients : d # c => f2[d] = f[d]
  PROVE  /\ Total(f) \in Nat /\ Total(f2) \in Nat
         /\ Total(f2) = Total(f) + f2[c] - f[c]
<1>1. PICK g : IsSum(g, f, SUBSET Clients) /\ Total(f) = g[Clients]
  BY TotalWalk
<1>2. PICK g2 : IsSum(g2, f2, SUBSET Clients) /\ Total(f2) = g2[Clients]
  BY TotalWalk
<1> DEFINE Good(s) == /\ g[s] \in Nat /\ g2[s] \in Nat
                      /\ c \in s => g2[s] = g[s] + f2[c] - f[c]
                      /\ c \notin s => g2[s] = g[s]
           S == {n \in Nat : \A s \in Small(n) : Good(s)}
<1>3. ASSUME NEW s \in SUBSET Clients, s # {}
      PROVE  /\ g[s] = f[Pick(s)] + g[s \ {Pick(s)}]
             /\ g2[s] = f2[Pick(s)] + g2[s \ {Pick(s)}]
  BY <1>1, <1>2, <1>3 DEF IsSum
<1>4. g[{}] = 0 /\ g2[{}] = 0
  BY <1>1, <1>2 DEF IsSum
<1>5. 0 \in S
  <2>1. Small(0) = {{}}
    BY SmallFacts
  <2>2. Good({})
    BY <1>4
  <2> HIDE DEF Good
  <2> QED
    BY <2>1, <2>2
<1>6. ASSUME NEW n \in 0 .. Cardinality(Clients) - 1, n \in S PROVE n + 1 \in S
  <2>1. n \in Nat /\ n + 1 \in Nat /\ \A s \in Small(n) : Good(s)
    BY <1>6
  <2> HIDE DEF Good
  <2> SUFFICES ASSUME NEW s \in Small(n + 1) PROVE Good(s)
    BY <2>1
  <2>2. CASE s = {}
    BY <2>1, <2>2, SmallFacts
  <2>3. CASE s # {}
    <3> DEFINE x == Pick(s)
               t == s \ {x}
    <3>1. x \in s /\ t \in Small(n) /\ s \in SUBSET Clients
      BY <2>1, <2>3, SmallFacts DEF Small
    <3>2. g[s] = f[x] + g[t] /\ g2[s] = f2[x] + g2[t]
      BY <1>3, <2>3, <3>1
    <3> HIDE DEF x
    <3>3. /\ g[t] \in Nat /\ g2[t] \in Nat
          /\ c \in t => g2[t] = g[t] + f2[c] - f[c]
          /\ c \notin t => g2[t] = g[t]
      BY <2>1, <3>1 DEF Good
    <3>4. f[x] \in Nat /\ f2[x] \in Nat /\ f[c] \in Nat /\ f2[c] \in Nat
      BY <3>1
    <3>5. CASE x = c
      <4>1. c \notin t /\ c \in s
        BY <3>1, <3>5
      <4> HIDE DEF t
      <4> QED
        BY <3>2, <3>3, <3>4, <3>5, <4>1 DEF Good
    <3>6. CASE x # c
      <4>1. f2[x] = f[x] /\ (c \in s <=> c \in t)
        BY <3>1, <3>6
      <4> HIDE DEF t
      <4> QED
        BY <3>2, <3>3, <3>4, <4>1 DEF Good
    <3> QED
      BY <3>5, <3>6
  <2> QED
    BY <2>2, <2>3
<1> HIDE DEF S
<1>7. Cardinality(Clients) \in S
  BY <1>5, <1>6, SmallFacts, UpTo
<1>8. Good(Clients)
  <2> HIDE DEF Good
  <2> QED
    BY <1>7, SmallFacts DEF S
<1> QED
  BY <1>1, <1>2, <1>8

(* The sizes that are held, and what is in use as their total.             *)
HeldSize == [c \in Clients |-> IF held[c] = Nothing THEN 0
                               ELSE TotalSize(held[c].size)]

LEMMA NetIsTotal ==
  ASSUME stats.total_allocated - stats.total_freed = Total(HeldSize)
  PROVE  NetUntilCramped
<1> DEFINE One(c) == IF held[c] = Nothing THEN 0 ELSE TotalSize(held[c].size)
           Walk(g) == g = [s \in SUBSET Clients |->
                             IF s = {} THEN 0
                             ELSE One(Pick(s)) + g[s \ {Pick(s)}]]
<1>1. MapThenSumSet(LAMBDA c : IF held[c] = Nothing THEN 0
                               ELSE TotalSize(held[c].size), Clients)
        = (CHOOSE g : Walk(g))[Clients]
  BY DEF MapThenSumSet, MapThenFoldSet, Pick
<1>2. ASSUME NEW s \in SUBSET Clients, s # {} PROVE HeldSize[Pick(s)] = One(Pick(s))
  <2>1. Pick(s) \in Clients
    BY <1>2 DEF Pick
  <2> QED
    BY <2>1 DEF HeldSize
<1> HIDE DEF One
<1>3. ASSUME NEW g PROVE Walk(g) <=> IsSum(g, HeldSize, SUBSET Clients)
  BY <1>2 DEF IsSum
<1> HIDE DEF Walk
<1>4. (CHOOSE g : Walk(g)) = CHOOSE g : IsSum(g, HeldSize, SUBSET Clients)
  BY <1>3
<1> QED
  BY <1>1, <1>4 DEF NetUntilCramped, Total

(* Nothing adds up to nothing.                                             *)
LEMMA TotalZero ==
  ASSUME NEW f, \A d \in Clients : f[d] = 0
  PROVE  Total(f) = 0
<1>1. PICK g : IsSum(g, f, SUBSET Clients) /\ Total(f) = g[Clients]
  BY TotalWalk
<1> DEFINE S == {n \in Nat : \A s \in Small(n) : g[s] = 0}
<1>2. g[{}] = 0
  BY <1>1 DEF IsSum
<1>3. 0 \in S
  <2>1. Small(0) = {{}}
    BY SmallFacts
  <2> QED
    BY <1>2, <2>1
<1>4. ASSUME NEW n \in 0 .. Cardinality(Clients) - 1, n \in S PROVE n + 1 \in S
  <2>1. n \in Nat /\ n + 1 \in Nat /\ \A s \in Small(n) : g[s] = 0
    BY <1>4
  <2> SUFFICES ASSUME NEW s \in Small(n + 1), s # {} PROVE g[s] = 0
    BY <1>2, <2>1
  <2>2. Pick(s) \in s /\ s \ {Pick(s)} \in Small(n) /\ s \in SUBSET Clients
    BY <2>1, SmallFacts DEF Small
  <2>3. g[s] = f[Pick(s)] + g[s \ {Pick(s)}]
    BY <1>1, <2>2 DEF IsSum
  <2>4. f[Pick(s)] = 0 /\ g[s \ {Pick(s)}] = 0
    BY <2>1, <2>2
  <2> QED
    BY <2>3, <2>4
<1> HIDE DEF S
<1>5. Cardinality(Clients) \in S
  BY <1>3, <1>4, SmallFacts, UpTo
<1>6. Clients \in Small(Cardinality(Clients))
  BY SmallFacts
<1> QED
  BY <1>1, <1>5, <1>6 DEF S

(* The statistics: their types, and what is in use.                        *)
NetInv ==
  /\ stats \in [total_allocated : Nat, total_freed : Nat,
                num_allocations : Nat, num_frees : Nat]
  /\ stats.total_allocated - stats.total_freed = Total(HeldSize)

(* The sizes that are held are numbers.                                    *)
LEMMA HeldSizeType ==
  ASSUME NEW T, AllocInv(T)
  PROVE  HeldSize \in [Clients -> Nat]
<1> SUFFICES ASSUME NEW c \in Clients, held[c] # Nothing
             PROVE  TotalSize(held[c].size) \in Nat
  BY DEF HeldSize
<1>1. Whole(held[c].size)
  BY DEF AllocInv, HoldersInv
<1> DEFINE k == Data(held[c].size)
<1>2. k \in Nat /\ TotalSize(held[c].size) = 8 * (3 + k)
  BY <1>1 DEF Whole
<1> HIDE DEF k
<1> QED
  BY <1>2

(* The statistics follow what is held.                                     *)
LEMMA NetKeeps ==
  ASSUME NEW T, BlockSizes(T), AllocInv(T), AllocInv(T)', NetInv, [AllocNext]_allocVars
  PROVE  NetInv'
<1>1. HeldSize \in [Clients -> Nat]
  BY HeldSizeType
<1>2. HeldSize' \in [Clients -> Nat]
  <2>1. ASSUME NEW c \in Clients, held'[c] # Nothing
        PROVE  TotalSize(held'[c].size) \in Nat
    <3>1. Whole(held'[c].size)
      BY <2>1 DEF AllocInv, HoldersInv
    <3> DEFINE k == Data(held'[c].size)
    <3>2. k \in Nat /\ TotalSize(held'[c].size) = 8 * (3 + k)
      BY <3>1 DEF Whole
    <3> HIDE DEF k
    <3> QED
      BY <3>2
  <2> QED
    BY <2>1 DEF HeldSize
<1>3. /\ stats \in [total_allocated : Nat, total_freed : Nat,
                    num_allocations : Nat, num_frees : Nat]
      /\ stats.total_allocated - stats.total_freed = Total(HeldSize)
      /\ held \in [Clients -> [ptr : Nat, size : Nat]]
  BY DEF NetInv, AllocInv, TypesInv
<1>4. CASE UNCHANGED <<stats, held>>
  <2>1. HeldSize' = HeldSize
    BY <1>4 DEF HeldSize
  <2> QED
    BY <1>3, <1>4, <2>1 DEF NetInv
<1>5. ASSUME NEW c \in Clients, NEW size \in Sizes, my_malloc(c, size)
      PROVE  NetInv'
  <2> DEFINE n == TotalSize(size)
  <2>1. /\ held[c] = Nothing /\ size # 0
        /\ stats' = [stats EXCEPT !.total_allocated = @ + n,
                                  !.num_allocations = @ + 1]
        /\ \E q : held' = [held EXCEPT ![c] = [ptr |-> q, size |-> size]]
    BY <1>5 DEF my_malloc
  <2>2. PICK q : held' = [held EXCEPT ![c] = [ptr |-> q, size |-> size]]
    BY <2>1
  <2>3. /\ held'[c].size = size /\ held'[c] # Nothing
        /\ \A d \in Clients : d # c => held'[d] = held[d]
    BY <1>3, <2>1, <2>2 DEF Nothing
  <2>4. /\ HeldSize[c] = 0 /\ HeldSize'[c] = n
        /\ \A d \in Clients : d # c => HeldSize'[d] = HeldSize[d]
    BY <2>1, <2>3 DEF HeldSize
  <2> HIDE DEF n
  <2>5. n \in Nat
    BY <1>2, <2>4
  <2>6. Total(HeldSize) \in Nat /\ Total(HeldSize') = Total(HeldSize) + n
    <3>1. /\ Total(HeldSize) \in Nat
          /\ Total(HeldSize') = Total(HeldSize) + HeldSize'[c] - HeldSize[c]
      BY <1>1, <1>2, <2>4, TotalChange
    <3> QED
      BY <2>4, <2>5, <3>1
  <2>7. /\ stats'.total_allocated = stats.total_allocated + n
        /\ stats'.total_freed = stats.total_freed
        /\ stats' \in [total_allocated : Nat, total_freed : Nat,
                       num_allocations : Nat, num_frees : Nat]
        /\ stats.total_allocated \in Nat /\ stats.total_freed \in Nat
    <3>1. /\ stats.total_allocated \in Nat /\ stats.total_freed \in Nat
          /\ stats.num_allocations \in Nat /\ stats.num_frees \in Nat
      BY <1>3
    <3>2. stats.total_allocated + n \in Nat /\ stats.num_allocations + 1 \in Nat
      BY <2>5, <3>1
    <3>3. stats' \in [total_allocated : Nat, total_freed : Nat,
                     num_allocations : Nat, num_frees : Nat]
      BY <1>3, <2>1, <3>2
    <3>4. /\ stats'.total_allocated = stats.total_allocated + n
          /\ stats'.total_freed = stats.total_freed
      BY <1>3, <2>1
    <3> QED
      BY <3>1, <3>3, <3>4
  <2>8. stats'.total_allocated - stats'.total_freed = Total(HeldSize')
    BY <1>3, <2>5, <2>6, <2>7
  <2> QED
    BY <2>7, <2>8 DEF NetInv
<1>6. ASSUME NEW c \in Clients, my_free(c) PROVE NetInv'
  <2> DEFINE n == TotalSize(held[c].size)
  <2>1. /\ held[c] # Nothing /\ held' = [held EXCEPT ![c] = Nothing]
    BY <1>6 DEF my_free
  <2>2. stats' = [stats EXCEPT !.total_freed = @ + n, !.num_frees = @ + 1]
    BY <1>6, FreeKeeps
  <2>3. /\ HeldSize[c] = n /\ HeldSize'[c] = 0
        /\ \A d \in Clients : d # c => HeldSize'[d] = HeldSize[d]
    BY <1>3, <2>1 DEF HeldSize
  <2> HIDE DEF n
  <2>4. n \in Nat
    BY <1>1, <2>3
  <2>5. Total(HeldSize) \in Nat /\ Total(HeldSize') = Total(HeldSize) - n
    <3>1. /\ Total(HeldSize) \in Nat
          /\ Total(HeldSize') = Total(HeldSize) + HeldSize'[c] - HeldSize[c]
      BY <1>1, <1>2, <2>3, TotalChange
    <3> QED
      BY <2>3, <2>4, <3>1
  <2>6. /\ stats'.total_allocated = stats.total_allocated
        /\ stats'.total_freed = stats.total_freed + n
        /\ stats' \in [total_allocated : Nat, total_freed : Nat,
                       num_allocations : Nat, num_frees : Nat]
        /\ stats.total_allocated \in Nat /\ stats.total_freed \in Nat
    <3>1. /\ stats.total_allocated \in Nat /\ stats.total_freed \in Nat
          /\ stats.num_allocations \in Nat /\ stats.num_frees \in Nat
      BY <1>3
    <3>2. stats.total_freed + n \in Nat /\ stats.num_frees + 1 \in Nat
      BY <2>4, <3>1
    <3>3. stats' \in [total_allocated : Nat, total_freed : Nat,
                     num_allocations : Nat, num_frees : Nat]
      BY <1>3, <2>2, <3>2
    <3>4. /\ stats'.total_allocated = stats.total_allocated
          /\ stats'.total_freed = stats.total_freed + n
      BY <1>3, <2>2
    <3> QED
      BY <3>1, <3>3, <3>4
  <2>7. stats'.total_allocated - stats'.total_freed = Total(HeldSize')
    BY <1>3, <2>4, <2>5, <2>6
  <2> QED
    BY <2>6, <2>7 DEF NetInv
<1>7. ASSUME NEW c \in Clients, ClientWrites(c) PROVE UNCHANGED <<stats, held>>
  BY <1>7 DEF ClientWrites
<1>8. ASSUME NEW c \in Clients, NEW size \in Sizes, MallocFails(c, size)
      PROVE  UNCHANGED <<stats, held>>
  BY <1>8 DEF MallocFails, allocVars
<1>9. CASE allocator_init \/ InitFails \/ allocator_cleanup \/ UNCHANGED allocVars
  BY <1>4, <1>9 DEF allocator_init, InitFails, allocator_cleanup, allocVars
<1> QED
  BY <1>4, <1>5, <1>6, <1>7, <1>8, <1>9, Zenon DEF AllocNext

(* At the beginning nothing is in use.                                     *)
LEMMA NetInit ==
  ASSUME AllocInit
  PROVE  NetInv
<1>1. \A d \in Clients : HeldSize[d] = 0
  BY DEF AllocInit, HeldSize
<1>2. Total(HeldSize) = 0
  BY <1>1, TotalZero
<1>3. stats \in [total_allocated : Nat, total_freed : Nat,
                 num_allocations : Nat, num_frees : Nat]
  BY DEF AllocInit
<1>4. stats.total_allocated = 0 /\ stats.total_freed = 0
  BY DEF AllocInit
<1> QED
  BY <1>2, <1>3, <1>4 DEF NetInv

-----------------------------------------------------------------------------
(* The theorems.                                                           *)

(* The block that my_malloc takes is a block of the list, with a size.     *)
LEMMA FirstFitSize ==
  ASSUME NEW T, AllocInv(T), heap_start, NEW total, Candidates(total) # {}
  PROVE  /\ mem[SizeAt(FirstFit(total))] \in T
         /\ mem[SizeAt(FirstFit(total))] >= total
<1>1. PICK F, rank : HeapInv(mem, free_list, T, F, HeldCells, rank)
  BY DEF AllocInv, HeapShape
<1>2. /\ Min(Candidates(total)) \in 0 .. heap_words
      /\ FirstFit(total) # Null /\ mem[SizeAt(FirstFit(total))] >= total
  BY FirstFitFacts
<1>3. PICK w \in F : FirstFit(total) = Addr(w)
  BY <1>1, <1>2, ListInF DEF FirstFit
<1>4. w \in Nat /\ mem[w] \in T
  BY <1>1, HeapFacts DEF HeapInv, Tiles, Cells
<1>5. SizeAt(FirstFit(total)) = w
  BY <1>3, <1>4, AddrFacts
<1> QED
  BY <1>2, <1>4, <1>5

(* The sizes of whole words with room for a header.                        *)
WholeSizes == {8 * k : k \in {n \in Nat : n >= 3}}

(* They are sizes of blocks, and the heap's is one.                        *)
LEMMA WholeFacts ==
  BlockSizes(WholeSizes) /\ heap_size \in WholeSizes
<1>1. \A k \in Nat : k >= 3 => 8 * k \in Nat /\ 8 * k >= HEADER_SIZE
  BY HeapFacts
<1>2. ASSUME NEW s \in WholeSizes, NEW t \in WholeSizes PROVE s + t \in WholeSizes
  <2>1. PICK j \in Nat : j >= 3 /\ s = 8 * j
    BY DEF WholeSizes
  <2>2. PICK k \in Nat : k >= 3 /\ t = 8 * k
    BY DEF WholeSizes
  <2>3. s + t = 8 * (j + k) /\ j + k \in Nat /\ j + k >= 3
    BY <2>1, <2>2
  <2> QED
    BY <2>3 DEF WholeSizes
<1> QED
  BY <1>1, <1>2, HeapFacts DEF BlockSizes, WholeSizes

(* A step after which nothing is cramped cuts a block into whole sizes,    *)
(* and its request has not wrapped.                                        *)
LEMMA RoomyCuts ==
  ASSUME AllocInv(WholeSizes), NEW c \in Clients, NEW size \in Sizes,
         my_malloc(c, size), ~cramped'
  PROVE  Cuts(WholeSizes, TotalSize(size)) /\ Whole(size)
<1> DEFINE total == TotalSize(size)
           found == mem[SizeAt(FirstFit(total))]
           k == Data(size)
<1>1. /\ heap_start /\ Candidates(total) # {} /\ size # 0
      /\ ~ Cramps(FirstFit(total), size)
  BY DEF my_malloc, FirstFit
<1>2. size \in Nat /\ total \in Nat /\ HEADER_SIZE = 24
  <2>1. size \in Nat
    BY AllocatorAssumption
  <2>2. total \in Nat
    <3>1. size + ALIGNMENT - 1 \in Nat
      BY <2>1 DEF ALIGNMENT
    <3>2. SizeT(size + ALIGNMENT - 1) \in Nat
      BY <3>1, SizeTFacts
    <3>3. HEADER_SIZE + ALIGN(size) \in Nat
      BY <3>2, HeapFacts DEF ALIGN
    <3> QED
      BY <3>3, SizeTFacts DEF TotalSize
  <2> QED
    BY <2>1, <2>2, HeapFacts
<1>3. found - total \notin 1 .. 23 /\ total >= 24 + size
  BY <1>1, <1>2 DEF Cramps
<1>4. Whole(size)
  BY <1>1, <1>2, <1>3, TotalFacts
<1>5. k \in Nat /\ total = 8 * (3 + k)
  BY <1>4 DEF Whole
<1>6. found \in WholeSizes /\ found >= total
  BY <1>1, FirstFitSize
<1> HIDE DEF total, found, k
<1>7. PICK n \in Nat : found = 8 * n
  BY <1>6 DEF WholeSizes
<1> DEFINE j == n - (3 + k)
<1>8. found > total => j \in Nat /\ j >= 3 /\ found - total = 8 * j
  BY <1>3, <1>5, <1>7
<1>9. found > total => found - total \in WholeSizes
  BY <1>8 DEF WholeSizes
<1>10. total \in WholeSizes
  BY <1>5 DEF WholeSizes
<1> QED
  BY <1>4, <1>9, <1>10 DEF Cuts, total, found

(* The inductive invariant: as long as nothing is cramped, the heap has    *)
(* its shape and the statistics agree.                                     *)
RoomyInv == cramped \in BOOLEAN /\ (~cramped => AllocInv(WholeSizes) /\ NetInv)

(* What is cramped stays so.                                               *)
LEMMA CrampedStays ==
  ASSUME [AllocNext]_allocVars, cramped \in BOOLEAN
  PROVE  cramped' \in BOOLEAN /\ (cramped => cramped')
<1>1. ASSUME NEW c \in Clients, NEW size \in Sizes, my_malloc(c, size)
      PROVE  cramped' \in BOOLEAN /\ (cramped => cramped')
  BY <1>1 DEF my_malloc
<1>2. ASSUME NEW c \in Clients, NEW size \in Sizes, MallocFails(c, size)
      PROVE  cramped' = cramped
  BY <1>2 DEF MallocFails, allocVars
<1>3. ASSUME NEW c \in Clients, my_free(c) \/ ClientWrites(c)
      PROVE  cramped' = cramped
  BY <1>3 DEF my_free, ClientWrites
<1>4. CASE allocator_init \/ InitFails \/ allocator_cleanup \/ UNCHANGED allocVars
  BY <1>4 DEF allocator_init, InitFails, allocator_cleanup, allocVars
<1> QED
  BY <1>1, <1>2, <1>3, <1>4, Zenon DEF AllocNext

(* It holds in every behaviour of the allocator.                           *)
LEMMA RoomyInvariant ==
  AllocSpec => []RoomyInv
<1>1. AllocInit => RoomyInv
  BY InitHolds, NetInit DEF RoomyInv, AllocInit
<1>2. ASSUME RoomyInv, [AllocNext]_allocVars
      PROVE  RoomyInv'
  <2>1. cramped' \in BOOLEAN /\ (cramped => cramped')
    BY <1>2, CrampedStays DEF RoomyInv
  <2>2. ASSUME ~cramped'
        PROVE  AllocInv(WholeSizes)' /\ NetInv'
    <3>1. AllocInv(WholeSizes) /\ NetInv
      BY <1>2, <2>1, <2>2 DEF RoomyInv
    <3>2. \A c \in Clients, size \in Sizes :
            my_malloc(c, size) => Cuts(WholeSizes, TotalSize(size)) /\ Whole(size)
      BY <2>2, <3>1, RoomyCuts
    <3>3. AllocInv(WholeSizes)'
      BY <1>2, <3>1, <3>2, WholeFacts, NextKeeps
    <3> QED
      BY <1>2, <3>1, <3>3, WholeFacts, NetKeeps
  <2> QED
    BY <2>1, <2>2 DEF RoomyInv
<1> QED
  BY <1>1, <1>2, PTL DEF AllocSpec

(* Whatever the heap's size, the requests and the order of the calls, a    *)
(* request that wraps and a split that leaves less than a header are the   *)
(* only ways in which allocator.c damages what is held: before the first   *)
(* of them a block that is held keeps its header and its contents, and     *)
(* nothing is written behind the heap.                                     *)
THEOREM HeldStayIntact == AllocSpec => []IntactUntilCramped
<1>1. RoomyInv => IntactUntilCramped
  BY WholeFacts, HeldIntactHolds DEF RoomyInv, IntactUntilCramped
<1> QED
  BY <1>1, RoomyInvariant, PTL

(* Before the first of them the blocks that are held and those in the      *)
(* free list share out the heap: splitting, freeing and merging neither    *)
(* lose a word nor give one out twice.                                     *)
THEOREM BlocksAlwaysTile == AllocSpec => []TileUntilCramped
<1>1. ASSUME RoomyInv PROVE TileUntilCramped
  <2>1. CASE cramped
    BY <2>1 DEF TileUntilCramped
  <2>2. CASE ~cramped
    BY <1>1, <2>2, WholeFacts, BlocksTileHolds DEF RoomyInv
  <2> QED
    BY <2>1, <2>2
<1> QED
  BY <1>1, RoomyInvariant, PTL

(* Before the first of them "Net memory in use" of allocator_stats is what *)
(* the clients hold, over all heaps that were used.                        *)
THEOREM StatsAgree == AllocSpec => []NetUntilCramped
<1>1. ASSUME RoomyInv PROVE NetUntilCramped
  <2>1. CASE cramped
    BY <2>1 DEF NetUntilCramped
  <2>2. CASE ~cramped
    BY <1>1, <2>2, NetIsTotal DEF RoomyInv, NetInv
  <2> QED
    BY <2>1, <2>2
<1> QED
  BY <1>1, RoomyInvariant, PTL

=============================================================================
