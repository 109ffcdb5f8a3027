------------------------------ MODULE Allocator ------------------------------
(***************************************************************************)
(* 02_memory/custom_malloc: a first-fit allocator with a free list, over a *)
(* heap taken from malloc.                                                 *)
(*                                                                         *)
(* The heap is an array of words of ALIGNMENT bytes.  A block begins with  *)
(* a header of three words, size, is_free and next, that lie among the     *)
(* data of the clients: what is written beyond a block is written into the *)
(* one behind it, and two guard words stand for what lies behind the heap. *)
(* Sizes are in bytes and addresses are numbers, as in the code.  A client *)
(* frees only what it holds, once, and writes only what it has asked for.  *)
(*                                                                         *)
(* The request is rounded and the header added in size_t, which may wrap.  *)
(* The statistics are kept exact: they would wrap after 2^64 bytes, and    *)
(* their difference, which is what is printed, is right even then.         *)
(***************************************************************************)
EXTENDS Integers, FiniteSets, FiniteSetsExt

CONSTANTS
  Clients,      \* who hold memory, each at most one piece at a time
  Sizes,        \* the requests, in bytes
  heap_words,   \* the size of the heap in words
  SIZE_MAX,     \* the largest size_t
  MaxAllocs,    \* bound on the allocations
  MaxHeaps,     \* bound on the calls of allocator_init
  Unset         \* a word that nobody has written

ALIGNMENT == 8
HEADER_SIZE == 3 * ALIGNMENT
heap_size == ALIGNMENT * heap_words

ASSUME AllocatorAssumption ==
  /\ IsFiniteSet(Clients)
  /\ heap_words \in Nat /\ heap_words >= 3
  /\ SIZE_MAX \in Nat /\ heap_size <= SIZE_MAX
  /\ Sizes \subseteq 0 .. SIZE_MAX
  /\ MaxAllocs \in Nat
  /\ MaxHeaps \in Nat
  /\ Unset \notin Clients \cup Nat

VARIABLES
  heap_start,   \* is there a heap?
  mem,          \* the words of the heap and the guard words behind it
  free_list,
  stats,        \* total_allocated, total_freed, num_allocations, num_frees
  held,         \* what each client holds: the address and the request
  written,      \* the clients that have filled their memory
  heaps,        \* calls of allocator_init so far
  cramped       \* has a block been cut too small?

allocVars == <<heap_start, mem, free_list, stats, held, written, heaps,
               cramped>>

(* What size_t keeps of a sum, and the request rounded up to whole words.  *)
SizeT(n) == n % (SIZE_MAX + 1)
ALIGN(size) == (SizeT(size + ALIGNMENT - 1) \div ALIGNMENT) * ALIGNMENT

(* An address is its distance from the place before the heap, so that the  *)
(* heap's first byte is not at the null pointer.                           *)
Null == 0
Start == ALIGNMENT
Word(address) == (address - Start) \div ALIGNMENT
SizeAt(p) == Word(p)
FreeAt(p) == Word(p) + 1
NextAt(p) == Word(p) + 2

Words == 0 .. heap_words + 1
Guard == {heap_words, heap_words + 1}
Nothing == [ptr |-> Null, size |-> 0]

AllocInit ==
  /\ heap_start = FALSE
  /\ mem = [w \in Words |-> Unset]
  /\ free_list = Null
  /\ stats = [total_allocated |-> 0, total_freed |-> 0,
              num_allocations |-> 0, num_frees |-> 0]
  /\ held = [c \in Clients |-> Nothing]
  /\ written = {}
  /\ heaps = 0
  /\ cramped = FALSE

-----------------------------------------------------------------------------
(* The free list in a memory h.                                            *)

(* The headers met along the list, and Null after the last.                *)
FreeList(h, first) ==
  LET at[i \in 0 .. heap_words] ==
        IF i = 0 THEN first
        ELSE IF at[i - 1] = Null THEN Null ELSE h[NextAt(at[i - 1])]
  IN  at

Fits(p, size) == p # Null /\ mem[FreeAt(p)] # 0 /\ mem[SizeAt(p)] >= size

(* The places of the list where find_free_block could stop.                *)
Candidates(size) ==
  {i \in 0 .. heap_words : Fits(FreeList(mem, free_list)[i], size)}

(* The end of the block at p is the beginning of the block at q.           *)
Adjacent(h, p, q) ==
  p + h[SizeAt(p)] = q /\ h[FreeAt(p)] # 0 /\ h[FreeAt(q)] # 0

(* Slip: the block that was merged stays in the list.                      *)
MergedStaysListed(s) ==
  LET p == s.current
      q == s.h[NextAt(p)]
  IN  IF p = Null THEN s
      ELSE IF q # Null /\ Adjacent(s.h, p, q)
        THEN [h |-> [s.h EXCEPT ![SizeAt(p)] = @ + s.h[SizeAt(q)]],
              current |-> q]
      ELSE [s EXCEPT !.current = q]

(* One round of the loop of coalesce: merge with the next block, or go on. *)
CoalesceStep(s) ==
  LET p == s.current
      q == s.h[NextAt(p)]
  IN  IF p = Null THEN s
      ELSE IF q = Null THEN [s EXCEPT !.current = Null]
      ELSE IF Adjacent(s.h, p, q)
        THEN [s EXCEPT !.h = [s.h EXCEPT ![SizeAt(p)] = @ + s.h[SizeAt(q)],
                                         ![NextAt(p)] = s.h[NextAt(q)]]]
      ELSE [s EXCEPT !.current = q]

coalesce(h, first) ==
  LET after[i \in 0 .. heap_words] ==
        IF i = 0 THEN [h |-> h, current |-> first]
        ELSE CoalesceStep(after[i - 1])
  IN  after[heap_words].h

-----------------------------------------------------------------------------
(* allocator_init and allocator_cleanup.  As in benchmark.c a heap is      *)
(* cleaned up when everything has been freed, and before the next one.     *)

allocator_init ==
  /\ ~heap_start
  /\ heaps < MaxHeaps
  /\ heap_start' = TRUE
  /\ mem' = [w \in Words |-> CASE w = SizeAt(Start) -> heap_size
                               [] w = FreeAt(Start) -> 1
                               [] w = NextAt(Start) -> Null
                               [] OTHER -> Unset]
  /\ free_list' = Start
  /\ heaps' = heaps + 1
  /\ UNCHANGED <<stats, held, written, cramped>>

(* The system's malloc fails: there is no heap.                            *)
InitFails ==
  /\ ~heap_start
  /\ heaps < MaxHeaps
  /\ heaps' = heaps + 1
  /\ UNCHANGED <<heap_start, mem, free_list, stats, held, written, cramped>>

allocator_cleanup ==
  /\ heap_start
  /\ \A c \in Clients : held[c] = Nothing
  /\ heap_start' = FALSE
  /\ UNCHANGED <<mem, free_list, stats, held, written, heaps, cramped>>

-----------------------------------------------------------------------------
(* my_malloc.                                                              *)

TotalSize(size) == SizeT(HEADER_SIZE + ALIGN(size))

(* History: a block has been cut for which there is no room.  Its size has *)
(* wrapped and is less than what was asked for, or what is left of the     *)
(* block at p is smaller than the header that is written there.            *)
Cramps(p, size) ==
  \/ TotalSize(size) < HEADER_SIZE + size
  \/ mem[SizeAt(p)] - TotalSize(size) \in 1 .. HEADER_SIZE - 1

(* A block that is larger than needed is cut in two.                       *)
Split(h, p, total) ==
  LET rest == p + total
  IN  IF h[SizeAt(p)] > total
        THEN [h EXCEPT ![SizeAt(rest)] = h[SizeAt(p)] - total,
                       ![FreeAt(rest)] = 1,
                       ![NextAt(rest)] = h[NextAt(p)],
                       ![SizeAt(p)] = total,
                       ![NextAt(p)] = rest]
        ELSE h

(* Slip: the block is not marked.                                          *)
Unmarked(h, p, before) ==
  IF before = Null THEN h ELSE [h EXCEPT ![NextAt(before)] = h[NextAt(p)]]

(* The block at p is marked and leaves the list; `before' precedes it.     *)
Unlink(h, p, before) ==
  LET marked == [h EXCEPT ![FreeAt(p)] = 0]
      linked == IF before = Null THEN marked
                ELSE [marked EXCEPT ![NextAt(before)] = h[NextAt(p)]]
  IN  [linked EXCEPT ![NextAt(p)] = Null]

my_malloc(c, size) ==
  /\ held[c] = Nothing
  /\ heap_start /\ size # 0
  /\ stats.num_allocations < MaxAllocs
  /\ TotalSize(size) <= heap_size
  /\ Candidates(TotalSize(size)) # {}
  /\ LET i == Min(Candidates(TotalSize(size)))
         list == FreeList(mem, free_list)
         p == list[i]
         before == IF i = 0 THEN Null ELSE list[i - 1]
         h == Split(mem, p, TotalSize(size))
     IN  /\ mem' = Unlink(h, p, before)
         /\ free_list' = IF before = Null THEN h[NextAt(p)] ELSE free_list
         /\ held' = [held EXCEPT ![c] = [ptr |-> p + HEADER_SIZE,
                                         size |-> size]]
         /\ cramped' = (cramped \/ Cramps(p, size))
  /\ stats' = [stats EXCEPT !.total_allocated = @ + TotalSize(size),
                            !.num_allocations = @ + 1]
  /\ UNCHANGED <<heap_start, written, heaps>>

(* No heap, nothing asked for, too much asked for, or no block fits: the   *)
(* null pointer is returned.                                               *)
MallocFails(c, size) ==
  /\ held[c] = Nothing
  /\ \/ ~heap_start
     \/ size = 0
     \/ TotalSize(size) > heap_size
     \/ Candidates(TotalSize(size)) = {}
  /\ UNCHANGED allocVars

-----------------------------------------------------------------------------
(* my_free.                                                                *)

Header(c) == held[c].ptr - HEADER_SIZE

SaneHeader(p) == mem[SizeAt(p)] # 0 /\ mem[SizeAt(p)] <= heap_size

(* The block at p goes to the front of the list.                           *)
Push(p) == [mem EXCEPT ![FreeAt(p)] = 1, ![NextAt(p)] = free_list]

(* Slip: the size is read after the merge.                                 *)
MergedSize(p) == coalesce(Push(p), p)[SizeAt(p)]

FreedSize(p) == mem[SizeAt(p)]

(* A header that cannot be right is reported, and nothing is freed.        *)
my_free(c) ==
  /\ held[c] # Nothing
  /\ LET p == Header(c)
     IN  IF SaneHeader(p)
           THEN /\ mem' = coalesce(Push(p), p)
                /\ free_list' = p
                /\ stats' = [stats EXCEPT !.total_freed = @ + FreedSize(p),
                                          !.num_frees = @ + 1]
           ELSE UNCHANGED <<mem, free_list, stats>>
  /\ held' = [held EXCEPT ![c] = Nothing]
  /\ written' = written \ {c}
  /\ UNCHANGED <<heap_start, heaps, cramped>>

(* The client fills the memory it was given.                               *)
DataWords(c) ==
  LET first == Word(held[c].ptr)
  IN  first .. first + (held[c].size + ALIGNMENT - 1) \div ALIGNMENT - 1

ClientWrites(c) ==
  /\ held[c] # Nothing
  /\ c \notin written
  /\ mem' = [w \in Words |-> IF w \in DataWords(c) THEN c ELSE mem[w]]
  /\ written' = written \cup {c}
  /\ UNCHANGED <<heap_start, free_list, stats, held, heaps, cramped>>

AllocNext ==
  \/ allocator_init \/ InitFails \/ allocator_cleanup
  \/ \E c \in Clients :
       \/ \E size \in Sizes : my_malloc(c, size) \/ MallocFails(c, size)
       \/ my_free(c)
       \/ ClientWrites(c)

AllocSpec == AllocInit /\ [][AllocNext]_allocVars

-----------------------------------------------------------------------------
FreeBlocks ==
  {FreeList(mem, free_list)[i] : i \in 0 .. heap_words} \ {Null}
HeldBlocks == {Header(c) : c \in {d \in Clients : held[d] # Nothing}}

(* The words of a block, by its header.                                    *)
Extent(p) == Word(p) .. Word(p + mem[SizeAt(p)]) - 1

(* A block that is held keeps its header, with its size and the mark that  *)
(* it is in use, and its contents, which only its client changes; nothing  *)
(* behind the heap is written: the layout in the comment of allocator.c    *)
(* (block: header and user data).  The code breaks it: my_malloc splits a  *)
(* block even if a header does not fit into the rest, and writes the new   *)
(* header over what comes behind.                                          *)
HeldIntact ==
  /\ \A c \in Clients :
       held[c] # Nothing =>
         /\ mem[SizeAt(Header(c))] = TotalSize(held[c].size)
         /\ mem[FreeAt(Header(c))] = 0
  /\ \A c \in written : \A w \in DataWords(c) : mem[w] = c
  /\ \A w \in Guard : mem[w] = Unset

(* A split that leaves less than a header and a request that wraps are the *)
(* only ways to break it: as long as there was neither, whatever sequence  *)
(* of splits, frees and merges went before, my_malloc, my_free and         *)
(* coalesce leave every held block and what is behind the heap alone.      *)
IntactUntilCramped == ~cramped => HeldIntact

(* As long as there was neither, the blocks that are held and those in the *)
(* free list share out the heap: none overlaps another and no word is      *)
(* lost when my_malloc splits a block and coalesce merges two.             *)
TileUntilCramped ==
  heap_start /\ ~cramped =>
    /\ \A p, q \in FreeBlocks \cup HeldBlocks :
         p # q => Extent(p) \cap Extent(q) = {}
    /\ UNION {Extent(p) : p \in FreeBlocks \cup HeldBlocks}
         = 0 .. heap_words - 1

(* As long as there was neither, "Net memory in use" of allocator_stats is *)
(* the size of what is held, over all heaps that were used, although       *)
(* my_free reads the size of the block back from its header.               *)
NetUntilCramped ==
  ~cramped =>
    stats.total_allocated - stats.total_freed =
      MapThenSumSet(LAMBDA c : IF held[c] = Nothing THEN 0
                               ELSE TotalSize(held[c].size), Clients)

=============================================================================
