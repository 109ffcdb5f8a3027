------------------------------ MODULE LruCache ------------------------------
(***************************************************************************)
(* 06_storage/lru_cache: a hash table and a doubly linked recency list     *)
(* over the same nodes.  Every operation holds the cache's mutex from      *)
(* beginning to end, so an operation is one step, whichever thread calls.  *)
(*                                                                         *)
(* Nodes are addresses.  The chain of a bucket and the recency list are    *)
(* linked through the same field `next', as in the code, and pointers are  *)
(* changed in the code's order, since two of them may lead to one node.    *)
(*                                                                         *)
(* A chain of one node ends where the list goes on, so `next' is NULL or   *)
(* right in both, as long as no two entries share a bucket and no entry    *)
(* without a `next' is taken out of the middle of the list.  `mixed' tells *)
(* that one of these has happened: from then on entries may be out of      *)
(* reach, and pointers may lead to freed nodes.  An operation that would   *)
(* follow such a pointer, or walk round a circular chain, has no step      *)
(* here; MemorySafe tells the states in which no operation would.          *)
(***************************************************************************)
EXTENDS Integers, FiniteSets, FiniteSetsExt, Sequences

CONSTANTS
  Keys, Values,
  Nodes,             \* the addresses malloc can return
  HASH_TABLE_SIZE,   \* 1024 in the code
  max_size,
  MaxCount,          \* bound on the statistics, and with them on the calls
  NULL

ASSUME CacheAssumption ==
  /\ Keys \subseteq Nat
  /\ IsFiniteSet(Nodes)
  /\ HASH_TABLE_SIZE \in Nat \ {0}
  /\ max_size \in Nat \ {0}
  /\ MaxCount \in Nat
  /\ NULL \notin Nodes \cup Values \cup Int

VARIABLES
  cache,             \* head, tail, table and the fields of every node
  current_size,
  counters,          \* hits, misses and evictions
  live,              \* the nodes that are allocated
  call,              \* the last operation: its key, its value, its result
  destroyed,
  mixed              \* history: have chains and list got into each other?

vars == <<cache, current_size, counters, live, call, destroyed, mixed>>

Buckets == 0 .. HASH_TABLE_SIZE - 1
EmptyTable == [b \in Buckets |-> NULL]
NoNode == [key |-> NULL, value |-> NULL, prev |-> NULL, next |-> NULL]

NoCall == [op |-> "none", key |-> NULL, value |-> NULL, result |-> NULL]

Init ==
  /\ cache = [head |-> NULL, tail |-> NULL, table |-> EmptyTable,
              node |-> [n \in Nodes |-> NoNode]]
  /\ current_size = 0
  /\ counters = [hits |-> 0, misses |-> 0, evictions |-> 0]
  /\ live = {}
  /\ call = NoCall
  /\ destroyed = FALSE
  /\ mixed = FALSE

hash_key(k) == k % HASH_TABLE_SIZE

-----------------------------------------------------------------------------
(* Walks along the pointers of a cache c.                                  *)

(* The nodes met when following `field' from n, and NULL after the last.   *)
Walk(c, n, field) ==
  LET at[i \in 0 .. Cardinality(Nodes)] ==
        IF i = 0 THEN n
        ELSE IF at[i - 1] = NULL THEN NULL ELSE c.node[at[i - 1]][field]
  IN  at

(* What a loop over a walk reads if it may stop at the places `stops'.     *)
ReadsUpTo(at, stops) ==
  {at[i] : i \in {j \in DOMAIN at : \A h \in stops : j <= h}} \ {NULL}

Chain(c, k) == Walk(c, c.table[hash_key(k)], "next")

(* find_node stops at the end of the chain or at the key; a chain with     *)
(* neither is circular.                                                    *)
FindStops(c, k) ==
  LET at == Chain(c, k)
  IN  {i \in DOMAIN at : at[i] = NULL \/ c.node[at[i]].key = k}

FindReads(c, k) == ReadsUpTo(Chain(c, k), FindStops(c, k))

find_node(c, k) == Chain(c, k)[Min(FindStops(c, k))]

(* evict_lru looks in the chain of v's bucket for v or the node before it. *)
EvictStops(c, v) ==
  LET at == Chain(c, c.node[v].key)
  IN  {i \in DOMAIN at : at[i] \in {NULL, v} \/ c.node[at[i]].next = v}

EvictReads(c, v) == ReadsUpTo(Chain(c, c.node[v].key), EvictStops(c, v))

List(c) == Walk(c, c.head, "next")
ListNodes(c) == {List(c)[i] : i \in DOMAIN List(c)} \ {NULL}

-----------------------------------------------------------------------------
(* Pointer surgery.                                                        *)

(* n becomes the first node of the recency list.                           *)
PushFront(c, n) ==
  LET linked == [c EXCEPT !.node[n].prev = NULL, !.node[n].next = c.head]
      back == IF c.head = NULL THEN linked
              ELSE [linked EXCEPT !.node[c.head].prev = n]
  IN  [back EXCEPT !.head = n,
                   !.tail = IF back.tail = NULL THEN n ELSE back.tail]

MoveReads(c, n) ==
  IF c.node[n].prev = NULL THEN {}
  ELSE {c.node[n].prev, c.node[n].next, c.head} \ {NULL}

(* Slip: a hit does not count as a use.                                    *)
StaysInPlace(c, n) == c

(* A node without a predecessor is at the front already.                   *)
move_to_front(c, n) ==
  IF c.node[n].prev = NULL THEN c
  ELSE LET p == c.node[n].prev
           forward == [c EXCEPT !.node[p].next = c.node[n].next]
           x == forward.node[n].next
           unlinked == IF x = NULL THEN [forward EXCEPT !.tail = p]
                       ELSE [forward EXCEPT !.node[x].prev = p]
       IN  PushFront(unlinked, n)

(* A new node: first in the list, then its `next' is taken for the chain.  *)
NewEntry(c, n, k, v) ==
  LET b == hash_key(k)
      filled == [c EXCEPT !.node[n].key = k, !.node[n].value = v]
      listed == PushFront(filled, n)
  IN  [listed EXCEPT !.node[n].next = listed.table[b], !.table[b] = n]

(* The tail leaves the list and then its bucket, and is freed.             *)
OffList(c) ==
  LET p == c.node[c.tail].prev
  IN  IF p = NULL THEN [c EXCEPT !.head = NULL, !.tail = NULL]
      ELSE [c EXCEPT !.node[p].next = NULL, !.tail = p]

OffChain(c, v) ==
  LET b == hash_key(c.node[v].key)
      before == Chain(c, c.node[v].key)[Min(EvictStops(c, v))]
      after == c.node[v].next
  IN  IF c.table[b] = v THEN [c EXCEPT !.table[b] = after]
      ELSE IF before = NULL THEN c
      ELSE [c EXCEPT !.node[before].next = after]

(* Slip: the victim stays in its bucket.                                   *)
StaysInBucket(c) == [OffList(c) EXCEPT !.node[c.tail] = NoNode]

evict_lru(c) ==
  [OffChain(OffList(c), c.tail) EXCEPT !.node[c.tail] = NoNode]

-----------------------------------------------------------------------------
(* The operations.  With the new node in place there is always a tail, so  *)
(* the first test of evict_lru never succeeds.                             *)

MayCall ==
  /\ ~destroyed
  /\ counters.hits + counters.misses + counters.evictions < MaxCount

Returns(op, k, v, r) ==
  call' = [op |-> op, key |-> k, value |-> v, result |-> r]

Count(field) == counters' = [counters EXCEPT ![field] = @ + 1]

FindSafe(k) == FindStops(cache, k) # {} /\ FindReads(cache, k) \subseteq live

Found(k) ==
  /\ FindSafe(k)
  /\ find_node(cache, k) # NULL
  /\ MoveReads(cache, find_node(cache, k)) \subseteq live

NotFound(k) == FindSafe(k) /\ find_node(cache, k) = NULL

(* n is moved to the front from the middle of the list and its `next' has  *)
(* been taken for its chain: the entries behind n fall off the list.       *)
LosesRest(n) ==
  /\ cache.node[n].prev # NULL
  /\ cache.node[n].next = NULL
  /\ n # cache.tail

GetHit(k) ==
  /\ MayCall
  /\ Found(k)
  /\ cache' = move_to_front(cache, find_node(cache, k))
  /\ Count("hits")
  /\ Returns("get", k, NULL, cache.node[find_node(cache, k)].value)
  /\ mixed' = (mixed \/ LosesRest(find_node(cache, k)))
  /\ UNCHANGED <<current_size, live, destroyed>>

GetMiss(k) ==
  /\ MayCall
  /\ NotFound(k)
  /\ Count("misses")
  /\ Returns("get", k, NULL, NULL)
  /\ UNCHANGED <<cache, current_size, live, destroyed, mixed>>

PutExisting(k, v) ==
  /\ MayCall
  /\ Found(k)
  /\ LET n == find_node(cache, k)
     IN  cache' = move_to_front([cache EXCEPT !.node[n].value = v], n)
  /\ Returns("put", k, v, 0)
  /\ mixed' = (mixed \/ LosesRest(find_node(cache, k)))
  /\ UNCHANGED <<current_size, counters, live, destroyed>>

(* malloc fails.                                                           *)
PutFails(k, v) ==
  /\ MayCall
  /\ NotFound(k)
  /\ Returns("put", k, v, -1)
  /\ UNCHANGED <<cache, current_size, counters, live, destroyed, mixed>>

(* What evict_lru reads when n has just been inserted as c's first node.   *)
EvictSafe(c, n) ==
  /\ EvictStops(OffList(c), c.tail) # {}
  /\ {c.tail} \cup ({c.node[c.tail].prev} \ {NULL})
       \cup EvictReads(OffList(c), c.tail) \subseteq live \cup {n}

OverCapacity == current_size + 1 > max_size

(* A new entry for k shares its bucket with one that stays.                *)
SharesBucket(k) ==
  /\ cache.table[hash_key(k)] # NULL
  /\ OverCapacity => cache.table[hash_key(k)] # cache.tail

PutNew(k, v, n) ==
  /\ MayCall
  /\ NotFound(k)
  /\ n \notin live
  /\ LET c == NewEntry(cache, n, k, v)
     IN  IF OverCapacity
           THEN /\ EvictSafe(c, n)
                /\ cache' = evict_lru(c)
                /\ live' = (live \cup {n}) \ {c.tail}
                /\ Count("evictions")
                /\ UNCHANGED current_size
           ELSE /\ cache' = c
                /\ live' = live \cup {n}
                /\ current_size' = current_size + 1
                /\ UNCHANGED counters
  /\ Returns("put", k, v, 0)
  /\ mixed' = (mixed \/ SharesBucket(k))
  /\ UNCHANGED destroyed

(* The nodes that `next' reaches from `head' are freed.  That may be one   *)
(* node of two: `next' of a new node has been taken for its chain, and the *)
(* other node is never freed.                                              *)
ClearSafe ==
  List(cache)[Cardinality(Nodes)] = NULL /\ ListNodes(cache) \subseteq live

FreeNodes ==
  /\ cache' = [head |-> NULL, tail |-> NULL, table |-> EmptyTable,
               node |-> [n \in Nodes |-> IF n \in ListNodes(cache)
                                           THEN NoNode ELSE cache.node[n]]]
  /\ live' = live \ ListNodes(cache)
  /\ current_size' = 0
  /\ call' = NoCall
  /\ UNCHANGED <<counters, mixed>>

lru_cache_clear ==
  /\ MayCall
  /\ ClearSafe
  /\ FreeNodes
  /\ UNCHANGED destroyed

lru_cache_destroy ==
  /\ ~destroyed
  /\ ClearSafe
  /\ FreeNodes
  /\ destroyed' = TRUE

Next ==
  \/ \E k \in Keys : GetHit(k) \/ GetMiss(k)
  \/ \E k \in Keys, v \in Values :
       \/ PutExisting(k, v) \/ PutFails(k, v)
       \/ \E n \in Nodes : PutNew(k, v, n)
  \/ lru_cache_clear
  \/ lru_cache_destroy

Spec == Init /\ [][Next]_vars

-----------------------------------------------------------------------------
(* lru_cache.h: a cache with max_size entries.  Every call can be          *)
(* completed: no lookup, move to the front, eviction or clear follows a    *)
(* pointer to a freed node, and no lookup runs in a circle with the mutex  *)
(* held.                                                                   *)
MemorySafe ==
  /\ \A k \in Keys :
       /\ FindStops(cache, k) # {}
       /\ FindReads(cache, k) \subseteq live
       /\ find_node(cache, k) # NULL =>
            MoveReads(cache, find_node(cache, k)) \subseteq live
       /\ find_node(cache, k) = NULL /\ OverCapacity =>
            \A n \in Nodes \ live : EvictSafe(NewEntry(cache, n, k, NULL), n)
  /\ ClearSafe

(* Whatever max_size is and however the keys are hashed, every call can be *)
(* completed until one has cached two entries in a bucket or has lost the  *)
(* rest of the list, and that call can be completed too.                   *)
SafeUntilMixed == ~mixed => MemorySafe

(* The entries in the order of their last use, read off the list from its  *)
(* tail.                                                                   *)
Entries ==
  LET at == Walk(cache, cache.tail, "prev")
      length == Cardinality({i \in DOMAIN at : at[i] # NULL})
  IN  [i \in 1 .. length |-> LET n == cache.node[at[length - i]]
                             IN  <<n.key, n.value>>]

Lru == INSTANCE LruSpec WITH entries <- Entries

(* Until a call caches two entries in a bucket or loses the rest of the    *)
(* list, the hash table and the list together behave as the abstract       *)
(* cache, step by step: a get finds what is cached and a full cache gives  *)
(* up the entry that was used least recently.                              *)
LruUntilMixed ==
  Lru!Init /\ [][mixed' \/ Lru!Next]_<<Entries, call, counters>>

=============================================================================
