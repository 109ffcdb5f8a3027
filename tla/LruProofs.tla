------------------------------ MODULE LruProofs ------------------------------
(***************************************************************************)
(* What holds of lru_cache.c for all keys and values, any hash table, any  *)
(* number of nodes and every max_size, until a call has cached two entries *)
(* in a bucket or has lost the rest of the list.                           *)
(***************************************************************************)
EXTENDS LruCache, FiniteSetTheorems, WellFoundedInduction, SequenceTheorems,
        TLAPS

(* Every set of numbers has a least element: the proofs by induction take  *)
(* the least counterexample.                                               *)
LEMMA Least ==
  ASSUME NEW T \in SUBSET Nat, T # {}
  PROVE  \E m \in T : \A n \in T : m <= n
<1> DEFINE R == OpToRel(<, Nat)
<1>1. IsWellFoundedOn(R, Nat)
  BY NatLessThanWellFounded
<1>2. \A x, y \in Nat : x < y => <<x, y>> \in R
  BY DEF OpToRel
<1> HIDE DEF R
<1>3. PICK m \in T : \A n \in T : ~ (<<n, m>> \in R)
  BY <1>1, WFMin
<1>4. \A n \in T : n \in Nat /\ m \in Nat /\ ~ (n < m)
  BY <1>2, <1>3
<1>5. \A n \in T : m <= n
  BY <1>4
<1> QED
  BY <1>5

(* Induction up to a bound.                                                *)
LEMMA UpTo ==
  ASSUME NEW S, NEW b \in Nat, 0 \in S,
         \A n \in 0 .. b - 1 : n \in S => n + 1 \in S
  PROVE  \A n \in 0 .. b : n \in S
<1> DEFINE T == {n \in 0 .. b : n \notin S}
<1>1. SUFFICES ASSUME T # {} PROVE FALSE
  OBVIOUS
<1>2. PICK m \in T : \A n \in T : m <= n
  <2>1. T \in SUBSET Nat
    OBVIOUS
  <2> QED
    BY <1>1, <2>1, Least
<1>3. m \in 0 .. b /\ m \notin S
  OBVIOUS
<1>4. m # 0
  BY <1>3
<1>5. m - 1 \in 0 .. b - 1 /\ m - 1 \in 0 .. b /\ ~ (m <= m - 1) /\ (m - 1) + 1 = m
  BY <1>3, <1>4
<1>6. m - 1 \in S
  BY <1>2, <1>5
<1>7. m \in S
  BY <1>5, <1>6
<1> QED
  BY <1>3, <1>7

-----------------------------------------------------------------------------
Steps == Cardinality(Nodes)

(* The constants.                                                          *)
LEMMA CacheFacts ==
  /\ Steps \in Nat
  /\ NULL \notin Nodes /\ NULL \notin Keys
  /\ \A k \in Keys : hash_key(k) \in Buckets
<1>0. Keys \subseteq Int
  BY CacheAssumption
<1>1. Steps \in Nat
  BY CacheAssumption, FS_CardinalityType DEF Steps
<1>2. ASSUME NEW k \in Keys PROVE hash_key(k) \in Buckets
  <2>1. k \in Nat /\ HASH_TABLE_SIZE \in Nat \ {0}
    BY CacheAssumption
  <2>2. k % HASH_TABLE_SIZE \in 0 .. HASH_TABLE_SIZE - 1
    BY <2>1
  <2> QED
    BY <2>2 DEF hash_key, Buckets
<1>3. NULL \notin Nodes /\ NULL \notin Keys
  BY <1>0, CacheAssumption, Zenon
<1> QED
  BY <1>1, <1>2, <1>3

-----------------------------------------------------------------------------
(* A walk is well defined.                                                 *)
LEMMA WalkSteps ==
  ASSUME NEW c, NEW first, NEW field
  PROVE  /\ DOMAIN Walk(c, first, field) = 0 .. Steps
         /\ Walk(c, first, field)[0] = first
         /\ \A i \in 0 .. Steps - 1 :
              Walk(c, first, field)[i + 1]
                = IF Walk(c, first, field)[i] = NULL THEN NULL
                  ELSE c.node[Walk(c, first, field)[i]][field]
<1> DEFINE After(x) == IF x = NULL THEN NULL ELSE c.node[x][field]
           IsWalk(f, n) == f = [i \in 0 .. n |-> IF i = 0 THEN first
                                              ELSE After(f[i - 1])]
           S == {n \in Nat : \E f : IsWalk(f, n)}
<1>1. Walk(c, first, field) = CHOOSE f : IsWalk(f, Steps)
  BY DEF Walk, Steps
<1> HIDE DEF After
<1>2. 0 \in S
  <2> DEFINE f == [i \in 0 .. 0 |-> first]
  <2>1. IsWalk(f, 0)
    OBVIOUS
  <2> QED
    BY <2>1
<1>3. ASSUME NEW n \in 0 .. Steps - 1, n \in S PROVE n + 1 \in S
  <2>1. PICK g : IsWalk(g, n)
    BY <1>3
  <2> DEFINE f == [i \in 0 .. n + 1 |-> IF i = n + 1 THEN After(g[n]) ELSE g[i]]
  <2>2. \A i \in 0 .. n + 1 : f[i] = IF i = 0 THEN first ELSE After(f[i - 1])
    <3> SUFFICES ASSUME NEW i \in 0 .. n + 1
                 PROVE  f[i] = IF i = 0 THEN first ELSE After(f[i - 1])
      OBVIOUS
    <3>1. CASE i = n + 1
      BY <3>1
    <3>2. CASE i # n + 1 /\ i # 0
      <4>1. i \in 0 .. n /\ i - 1 \in 0 .. n + 1 /\ i - 1 # n + 1
        BY <3>2
      <4>2. f[i] = g[i] /\ f[i - 1] = g[i - 1]
        BY <4>1
      <4>3. g[i] = After(g[i - 1])
        BY <2>1, <3>2, <4>1
      <4> QED
        BY <3>2, <4>2, <4>3
    <3>3. CASE i = 0
      <4>1. 0 \in 0 .. n /\ 0 # n + 1 /\ 0 \in 0 .. n + 1
        OBVIOUS
      <4>2. g[0] = first
        BY <2>1, <4>1
      <4> QED
        BY <3>3, <4>1, <4>2
    <3> QED
      BY <3>1, <3>2, <3>3
  <2>3. IsWalk(f, n + 1)
    BY <2>2
  <2> HIDE DEF IsWalk, f
  <2>4. n + 1 \in Nat
    OBVIOUS
  <2> QED
    BY <2>3, <2>4
<1> HIDE DEF S
<1>4. Steps \in S
  BY <1>2, <1>3, CacheFacts, UpTo
<1>5. IsWalk(Walk(c, first, field), Steps)
  <2>1. \E f : IsWalk(f, Steps)
    BY <1>4 DEF S
  <2> HIDE DEF IsWalk
  <2> QED
    BY <1>1, <2>1
<1> DEFINE at == Walk(c, first, field)
<1> HIDE DEF at
<1>6. \A i \in 0 .. Steps : at[i] = IF i = 0 THEN first ELSE After(at[i - 1])
  BY <1>5 DEF at
<1>7. at[0] = first
  BY <1>6, CacheFacts
<1>8. ASSUME NEW i \in 0 .. Steps - 1 PROVE at[i + 1] = After(at[i])
  <2>1. i + 1 \in 0 .. Steps /\ i + 1 # 0 /\ (i + 1) - 1 = i
    BY CacheFacts
  <2> QED
    BY <1>6, <2>1
<1>9. DOMAIN at = 0 .. Steps
  BY <1>5 DEF at
<1> QED
  BY <1>7, <1>8, <1>9 DEF at, After

(* A walk that has come to its end stays there.                            *)
LEMMA WalkStays ==
  ASSUME NEW c, NEW first, NEW field, NEW j \in 0 .. Steps,
         Walk(c, first, field)[j] = NULL, NEW i \in 0 .. Steps, j <= i
  PROVE  Walk(c, first, field)[i] = NULL
<1> DEFINE at == Walk(c, first, field)
           S == {n \in 0 .. Steps : n < j \/ at[n] = NULL}
<1>1. 0 \in S
  <2>1. j = 0 \/ 0 < j
    BY CacheFacts
  <2> QED
    BY <2>1, CacheFacts
<1>2. ASSUME NEW n \in 0 .. Steps - 1, n \in S PROVE n + 1 \in S
  <2>1. n + 1 \in 0 .. Steps
    BY CacheFacts
  <2>2. at[n + 1] = IF at[n] = NULL THEN NULL ELSE c.node[at[n]][field]
    BY WalkSteps
  <2>3. n + 1 < j \/ n + 1 = j \/ ~ (n < j)
    BY CacheFacts
  <2> HIDE DEF at
  <2>4. at[j] = NULL
    BY DEF at
  <2> QED
    BY <1>2, <2>1, <2>2, <2>3, <2>4
<1> HIDE DEF S
<1>3. i \in S
  BY <1>1, <1>2, CacheFacts, UpTo
<1>4. ~ (i < j)
  BY CacheFacts
<1> QED
  BY <1>3, <1>4 DEF S

-----------------------------------------------------------------------------
(* The shape of a cache with the n entries s, the most recently used one   *)
(* first.                                                                  *)
Pointers == Nodes \cup {NULL}
NodeTypes == [key : Keys \cup {NULL}, value : Values \cup {NULL},
              prev : Pointers, next : Pointers]
CacheTypes == [head : Pointers, tail : Pointers, table : [Buckets -> Pointers],
               node : [Nodes -> NodeTypes]]

Distinct(n, s) == \A i, j \in 1 .. n : s[i] = s[j] => i = j

Ends(c, n, s) ==
  /\ n = 0 => c.head = NULL /\ c.tail = NULL
  /\ n > 0 => c.head = s[1] /\ c.tail = s[n]

(* `prev' goes through the list; `next' does too, or has been taken for a  *)
(* chain that ends.                                                        *)
Backward(c, n, s) ==
  \A i \in 1 .. n : /\ i = 1 => c.node[s[i]].prev = NULL
                    /\ i > 1 => c.node[s[i]].prev = s[i - 1]

Forward(c, n, s) ==
  \A i \in 1 .. n : \/ c.node[s[i]].next = NULL
                    \/ i < n /\ c.node[s[i]].next = s[i + 1]

InBuckets(c, n, s) ==
  \A i \in 1 .. n : /\ c.node[s[i]].key \in Keys
                    /\ c.table[hash_key(c.node[s[i]].key)] = s[i]

BucketsHold(c, n, s) ==
  \A b \in Buckets : c.table[b] # NULL =>
    \E i \in 1 .. n : c.table[b] = s[i] /\ hash_key(c.node[s[i]].key) = b

Listed(c, n, s) ==
  /\ Distinct(n, s)
  /\ Ends(c, n, s)
  /\ Backward(c, n, s)
  /\ Forward(c, n, s)
  /\ InBuckets(c, n, s)
  /\ BucketsHold(c, n, s)

(* What the prover needs to know of a cache.                               *)
LEMMA TypeFacts ==
  ASSUME NEW c \in CacheTypes
  PROVE  /\ c.head \in Pointers /\ c.tail \in Pointers
         /\ \A b \in Buckets : c.table[b] \in Pointers
         /\ \A k \in Keys : c.table[hash_key(k)] \in Pointers
         /\ \A x \in Nodes : /\ c.node[x] \in NodeTypes
                             /\ c.node[x].prev \in Pointers
                             /\ c.node[x].next \in Pointers
<1>1. c.head \in Pointers /\ c.tail \in Pointers
      /\ c.table \in [Buckets -> Pointers] /\ c.node \in [Nodes -> NodeTypes]
  BY DEF CacheTypes
<1>2. \A x \in Nodes : c.node[x] \in NodeTypes
  BY <1>1
<1>3. \A r \in NodeTypes : r.prev \in Pointers /\ r.next \in Pointers
  BY DEF NodeTypes
<1> QED
  BY <1>1, <1>2, <1>3, CacheFacts

(* There are at least as many nodes as entries.                            *)
LEMMA EntriesFit ==
  ASSUME NEW n \in Nat, NEW s \in [1 .. n -> Nodes], Distinct(n, s)
  PROVE  n <= Steps
<1>1. s \in Injection(1 .. n, Nodes)
  BY DEF Distinct, Injection, IsInjective
<1>2. Cardinality(1 .. n) <= Cardinality(Nodes)
  BY <1>1, CacheAssumption, FS_Injection
<1>3. Cardinality(1 .. n) = n
  <2>1. 1 \in Int /\ n \in Int
    OBVIOUS
  <2>2. Cardinality(1 .. n) = IF 1 > n THEN 0 ELSE n - 1 + 1
    BY <2>1, FS_Interval
  <2> QED
    BY <2>2
<1> QED
  BY <1>2, <1>3 DEF Steps

(* A walk along `next' goes on through the list until it ends.             *)
LEMMA NextWalk ==
  ASSUME NEW c, NEW n \in Nat, NEW s \in [1 .. n -> Nodes],
         Distinct(n, s), Forward(c, n, s), NEW i \in 1 .. n
  PROVE  /\ \A j \in 0 .. Steps :
              \/ Walk(c, s[i], "next")[j] = NULL
              \/ i + j \in 1 .. n /\ Walk(c, s[i], "next")[j] = s[i + j]
         /\ Walk(c, s[i], "next")[Steps] = NULL
<1> DEFINE at == Walk(c, s[i], "next")
           S == {j \in 0 .. Steps :
                   at[j] = NULL \/ (i + j \in 1 .. n /\ at[j] = s[i + j])}
<1>0. Steps \in Nat /\ n <= Steps /\ i \in Nat /\ i >= 1
  BY CacheFacts, EntriesFit
<1>1. /\ at[0] = s[i]
      /\ \A j \in 0 .. Steps - 1 :
           at[j + 1] = IF at[j] = NULL THEN NULL ELSE c.node[at[j]]["next"]
  BY WalkSteps
<1> HIDE DEF at
<1>2. 0 \in S
  BY <1>0, <1>1
<1>3. ASSUME NEW j \in 0 .. Steps - 1, j \in S PROVE j + 1 \in S
  <2>1. j + 1 \in 0 .. Steps /\ j \in Nat
    BY <1>0
  <2>2. at[j + 1] = IF at[j] = NULL THEN NULL ELSE c.node[at[j]].next
    BY <1>1
  <2>3. CASE at[j] = NULL
    BY <2>1, <2>2, <2>3
  <2>4. CASE at[j] # NULL
    <3>1. i + j \in 1 .. n /\ at[j] = s[i + j]
      BY <1>3, <2>4
    <3>2. at[j + 1] = c.node[s[i + j]].next
      BY <2>2, <2>4, <3>1
    <3>3. \/ c.node[s[i + j]].next = NULL
          \/ i + j < n /\ c.node[s[i + j]].next = s[(i + j) + 1]
      BY <3>1 DEF Forward
    <3>4. (i + j) + 1 = i + (j + 1)
      BY <1>0, <2>1
    <3>5. i + j < n => i + (j + 1) \in 1 .. n
      BY <1>0, <2>1
    <3> QED
      BY <2>1, <3>2, <3>3, <3>4, <3>5
  <2> QED
    BY <2>3, <2>4
<1> HIDE DEF S
<1>4. \A j \in 0 .. Steps : j \in S
  BY <1>0, <1>2, <1>3, UpTo
<1>5. at[Steps] = NULL
  <2>1. Steps \in 0 .. Steps /\ ~ (i + Steps \in 1 .. n)
    BY <1>0
  <2> QED
    BY <1>4, <2>1 DEF S
<1> QED
  BY <1>4, <1>5 DEF S, at

(* An empty walk.                                                          *)
LEMMA NoWalk ==
  ASSUME NEW c, NEW field, NEW i \in 0 .. Steps
  PROVE  Walk(c, NULL, field)[i] = NULL
<1>1. 0 \in 0 .. Steps /\ 0 <= i /\ Walk(c, NULL, field)[0] = NULL
  BY WalkSteps, CacheFacts
<1> QED
  BY <1>1, WalkStays

(* A pointer to an entry, or none.                                         *)
Leads(n, s, x) == x = NULL \/ \E i \in 1 .. n : x = s[i]

(* Any walk along `next' from an entry ends, and meets entries only.       *)
LEMMA WalkEnds ==
  ASSUME NEW c, NEW n \in Nat, NEW L \in SUBSET Nodes, NEW s \in [1 .. n -> L],
         Distinct(n, s), Forward(c, n, s), NEW x, Leads(n, s, x)
  PROVE  /\ Walk(c, x, "next")[Steps] = NULL
         /\ \A j \in 0 .. Steps : Leads(n, s, Walk(c, x, "next")[j])
<1>0. Steps \in 0 .. Steps /\ s \in [1 .. n -> Nodes]
  BY CacheFacts
<1>1. CASE x = NULL
  BY <1>0, <1>1, NoWalk DEF Leads
<1>2. ASSUME NEW i \in 1 .. n, x = s[i]
      PROVE  /\ Walk(c, x, "next")[Steps] = NULL
             /\ \A j \in 0 .. Steps : Leads(n, s, Walk(c, x, "next")[j])
  <2>1. /\ \A j \in 0 .. Steps :
             \/ Walk(c, s[i], "next")[j] = NULL
             \/ i + j \in 1 .. n /\ Walk(c, s[i], "next")[j] = s[i + j]
        /\ Walk(c, s[i], "next")[Steps] = NULL
    BY <1>0, NextWalk
  <2> QED
    BY <1>2, <2>1 DEF Leads
<1> QED
  BY <1>1, <1>2 DEF Leads

(* The list that lru_cache_clear frees lies within the entries.            *)
LEMMA ListEnds ==
  ASSUME NEW c, NEW n \in Nat, NEW L \in SUBSET Nodes, NEW s \in [1 .. n -> L],
         Listed(c, n, s)
  PROVE  /\ List(c)[Cardinality(Nodes)] = NULL
         /\ ListNodes(c) \subseteq L
<1> DEFINE at == List(c)
<1>1. Leads(n, s, c.head)
  <2>1. n = 0 \/ 1 \in 1 .. n
    OBVIOUS
  <2> QED
    BY <2>1 DEF Listed, Ends, Leads
<1>2. at[Steps] = NULL /\ \A j \in 0 .. Steps : Leads(n, s, at[j])
  <2>1. Distinct(n, s) /\ Forward(c, n, s)
    BY DEF Listed
  <2>2. /\ Walk(c, c.head, "next")[Steps] = NULL
        /\ \A j \in 0 .. Steps : Leads(n, s, Walk(c, c.head, "next")[j])
    BY <1>1, <2>1, WalkEnds
  <2> QED
    BY <2>2, Zenon DEF List
<1>3. DOMAIN at = 0 .. Steps
  BY WalkSteps DEF List
<1> HIDE DEF at
<1>4. \A j \in DOMAIN at : at[j] = NULL \/ at[j] \in L
  BY <1>2, <1>3 DEF Leads
<1> QED
  BY <1>2, <1>4 DEF ListNodes, Steps, at

(* The place where a loop over a walk stops is the first of its stops.     *)
LEMMA FirstStop ==
  ASSUME NEW T \in SUBSET Nat, T # {}
  PROVE  Min(T) \in T /\ \A h \in T : Min(T) <= h
<1>1. \E m \in T : \A h \in T : m <= h
  BY Least
<1> QED
  BY <1>1 DEF Min

(* m is the entry for k among s, or NULL if there is none.                 *)
EntryFor(c, n, s, k, m) ==
  \/ m = NULL /\ \A i \in 1 .. n : c.node[s[i]].key # k
  \/ \E i \in 1 .. n : m = s[i] /\ c.node[s[i]].key = k

(* find_node finds the entry with its key if there is one, and reads       *)
(* entries only.                                                           *)
LEMMA FindFacts ==
  ASSUME NEW c \in CacheTypes, NEW n \in Nat, NEW L \in SUBSET Nodes,
         NEW s \in [1 .. n -> L], Listed(c, n, s), NEW k \in Keys
  PROVE  /\ FindStops(c, k) # {}
         /\ FindReads(c, k) \subseteq L
         /\ EntryFor(c, n, s, k, find_node(c, k))
<1> DEFINE at == Chain(c, k)
           m == c.table[hash_key(k)]
           stops == FindStops(c, k)
<1>0. /\ hash_key(k) \in Buckets /\ NULL \notin Nodes /\ Steps \in 0 .. Steps
      /\ 0 \in 0 .. Steps
  BY CacheFacts
<1>1. Leads(n, s, m)
  BY <1>0 DEF Listed, BucketsHold, Leads
<1>2. /\ at[0] = m /\ DOMAIN at = 0 .. Steps
      /\ at[Steps] = NULL
      /\ \A j \in 0 .. Steps : Leads(n, s, at[j])
  <2>1. Distinct(n, s) /\ Forward(c, n, s)
    BY DEF Listed
  <2>2. DOMAIN Walk(c, m, "next") = 0 .. Steps /\ Walk(c, m, "next")[0] = m
    BY WalkSteps
  <2> HIDE DEF m
  <2>3. /\ Walk(c, m, "next")[Steps] = NULL
        /\ \A j \in 0 .. Steps : Leads(n, s, Walk(c, m, "next")[j])
    BY <1>1, <2>1, WalkEnds
  <2>4. at = Walk(c, m, "next")
    BY DEF Chain, m
  <2> HIDE DEF at
  <2> QED
    BY <2>2, <2>3, <2>4
<1>3. stops = {i \in DOMAIN at : at[i] = NULL \/ c.node[at[i]].key = k}
  BY DEF FindStops
<1>4. /\ find_node(c, k) = at[Min(stops)]
      /\ FindReads(c, k) = {at[i] : i \in {j \in DOMAIN at : \A h \in stops : j <= h}}
                             \ {NULL}
  BY DEF find_node, FindReads, ReadsUpTo
<1> HIDE DEF at, m, stops
<1>5. Steps \in stops /\ stops \in SUBSET Nat
  BY <1>0, <1>2, <1>3, CacheFacts
<1>6. Min(stops) \in stops /\ \A h \in stops : Min(stops) <= h
  BY <1>5, FirstStop
<1>7. FindReads(c, k) \subseteq L
  BY <1>2, <1>4 DEF Leads
<1>8. ASSUME NEW i \in 1 .. n, c.node[s[i]].key = k PROVE find_node(c, k) = s[i]
  <2>1. m = s[i]
    BY <1>8 DEF Listed, InBuckets, m
  <2>2. 0 \in stops
    BY <1>0, <1>2, <1>3, <1>8, <2>1
  <2> DEFINE a == Min(stops)
  <2> HIDE DEF a
  <2>3. a = 0
    <3>1. a \in Nat /\ a <= 0
      BY <1>5, <1>6, <2>2 DEF a
    <3> QED
      BY <3>1
  <2> QED
    BY <1>2, <1>4, <2>1, <2>3 DEF a
<1>9. find_node(c, k) = NULL
      \/ \E i \in 1 .. n : find_node(c, k) = s[i] /\ c.node[s[i]].key = k
  BY <1>2, <1>3, <1>4, <1>6 DEF Leads
<1>10. find_node(c, k) = NULL => \A i \in 1 .. n : c.node[s[i]].key # k
  <2>1. \A i \in 1 .. n : s[i] # NULL
    BY <1>0
  <2> QED
    BY <1>8, <2>1
<1> QED
  BY <1>5, <1>7, <1>9, <1>10 DEF stops, EntryFor

-----------------------------------------------------------------------------
(* What an update of a cache leaves.                                       *)

(* Updating one node.                                                      *)
WithNode(c, n, r) == [c EXCEPT !.node = [c.node EXCEPT ![n] = r]]

(* Only that node changes.                                                 *)
LEMMA NodeUpdate ==
  ASSUME NEW c \in CacheTypes, NEW n \in Nodes, NEW r \in NodeTypes
  PROVE  /\ WithNode(c, n, r) \in CacheTypes
         /\ WithNode(c, n, r).head = c.head
         /\ WithNode(c, n, r).tail = c.tail
         /\ WithNode(c, n, r).table = c.table
         /\ WithNode(c, n, r).node[n] = r
         /\ \A m \in Nodes : m # n => WithNode(c, n, r).node[m] = c.node[m]
<1>1. c.node \in [Nodes -> NodeTypes]
  BY DEF CacheTypes
<1> DEFINE f == [c.node EXCEPT ![n] = r]
           d == [c EXCEPT !.node = f]
<1>2. f \in [Nodes -> NodeTypes] /\ f[n] = r
      /\ \A m \in Nodes : m # n => f[m] = c.node[m]
  BY <1>1
<1>3. WithNode(c, n, r) = d
  BY DEF WithNode
<1> HIDE DEF f
<1>4. d \in CacheTypes /\ d.head = c.head /\ d.tail = c.tail /\ d.table = c.table
      /\ d.node = f
  BY <1>2 DEF CacheTypes
<1> HIDE DEF d
<1> QED
  BY <1>2, <1>3, <1>4

(* PushFront.                                                              *)
LEMMA PushFrontFacts ==
  ASSUME NEW c \in CacheTypes, NEW n \in Nodes, c.head # n
  PROVE  /\ PushFront(c, n) \in CacheTypes
         /\ PushFront(c, n).head = n
         /\ PushFront(c, n).tail = IF c.tail = NULL THEN n ELSE c.tail
         /\ PushFront(c, n).table = c.table
         /\ PushFront(c, n).node[n]
              = [c.node[n] EXCEPT !.prev = NULL, !.next = c.head]
         /\ \A m \in Nodes : m # n =>
              PushFront(c, n).node[m]
                = IF m = c.head THEN [c.node[m] EXCEPT !.prev = n]
                  ELSE c.node[m]
<1> DEFINE r == [c.node[n] EXCEPT !.prev = NULL, !.next = c.head]
           linked == WithNode(c, n, r)
           h == c.head
           q == [linked.node[h] EXCEPT !.prev = n]
           back == IF h = NULL THEN linked
                   ELSE WithNode(linked, h, q)
<1>0. c.node[n] \in NodeTypes /\ h \in Pointers /\ NULL \notin Nodes /\ NULL \in Pointers
      /\ n \in Pointers
  BY TypeFacts, CacheFacts DEF Pointers
<1>1. r \in NodeTypes
  BY <1>0 DEF NodeTypes
<1>2. PushFront(c, n) = [back EXCEPT !.head = n,
                                     !.tail = IF back.tail = NULL THEN n ELSE back.tail]
  <2>1. linked = [c EXCEPT !.node[n].prev = NULL, !.node[n].next = c.head]
    BY <1>0 DEF WithNode, CacheTypes, NodeTypes
  <2>2. WithNode(linked, h, q) = [linked EXCEPT !.node[c.head].prev = n]
    BY DEF WithNode
  <2> QED
    BY <2>1, <2>2, ZenonT(30) DEF PushFront
<1> HIDE DEF r
<1>3. /\ linked \in CacheTypes
      /\ linked.head = h /\ linked.tail = c.tail /\ linked.table = c.table
      /\ linked.node[n] = r
      /\ \A m \in Nodes : m # n => linked.node[m] = c.node[m]
  BY <1>1, NodeUpdate
<1> HIDE DEF linked
<1>4. /\ back \in CacheTypes
      /\ back.tail = c.tail /\ back.table = c.table
      /\ back.node[n] = r
      /\ \A m \in Nodes : m # n =>
           back.node[m] = IF m = h THEN [c.node[m] EXCEPT !.prev = n] ELSE c.node[m]
  <2>1. CASE h = NULL
    BY <1>0, <1>3, <2>1
  <2>2. CASE h # NULL
    <3>1. h \in Nodes /\ h # n
      BY <1>0, <2>2 DEF Pointers
    <3>2. q \in NodeTypes /\ q = [c.node[h] EXCEPT !.prev = n]
      <4>1. linked.node[h] = c.node[h] /\ c.node[h] \in NodeTypes
        BY <1>3, <3>1, TypeFacts
      <4> QED
        BY <1>0, <4>1 DEF NodeTypes
    <3>3. back = WithNode(linked, h, q)
      BY <2>2
    <3> HIDE DEF q, back
    <3>4. /\ back \in CacheTypes
          /\ back.tail = c.tail /\ back.table = c.table
          /\ back.node[h] = q
          /\ \A m \in Nodes : m # h => back.node[m] = linked.node[m]
      <4>1. linked \in CacheTypes /\ q \in NodeTypes
        BY <1>3, <3>2
      <4>2. /\ WithNode(linked, h, q) \in CacheTypes
            /\ WithNode(linked, h, q).tail = linked.tail
            /\ WithNode(linked, h, q).table = linked.table
            /\ WithNode(linked, h, q).node[h] = q
            /\ \A m \in Nodes : m # h =>
                 WithNode(linked, h, q).node[m] = linked.node[m]
        BY <3>1, <4>1, NodeUpdate
      <4> QED
        BY <1>3, <3>3, <4>2
    <3> QED
      BY <1>3, <3>1, <3>2, <3>4
  <2> QED
    BY <2>1, <2>2
<1> HIDE DEF back
<1> DEFINE p == PushFront(c, n)
<1>5. /\ p.head = n /\ p.tail = (IF back.tail = NULL THEN n ELSE back.tail)
      /\ p.table = back.table /\ p.node = back.node /\ p \in CacheTypes
  <2>1. (IF back.tail = NULL THEN n ELSE back.tail) \in Pointers
    BY <1>0, <1>4, TypeFacts
  <2> QED
    BY <1>0, <1>2, <1>4, <2>1 DEF CacheTypes
<1> HIDE DEF p
<1> QED
  BY <1>4, <1>5 DEF p, r

(* Updating the tail or a bucket.                                          *)
WithTail(c, t) == [c EXCEPT !.tail = t]
WithBucket(c, b, n) == [c EXCEPT !.table = [c.table EXCEPT ![b] = n]]

(* Only the tail changes.                                                  *)
LEMMA TailUpdate ==
  ASSUME NEW c \in CacheTypes, NEW t \in Pointers
  PROVE  /\ WithTail(c, t) \in CacheTypes
         /\ WithTail(c, t).head = c.head
         /\ WithTail(c, t).tail = t
         /\ WithTail(c, t).table = c.table
         /\ WithTail(c, t).node = c.node
BY DEF WithTail, CacheTypes

(* Only that bucket changes.                                               *)
LEMMA TableUpdate ==
  ASSUME NEW c \in CacheTypes, NEW b \in Buckets, NEW n \in Pointers
  PROVE  /\ WithBucket(c, b, n) \in CacheTypes
         /\ WithBucket(c, b, n).head = c.head
         /\ WithBucket(c, b, n).tail = c.tail
         /\ WithBucket(c, b, n).node = c.node
         /\ WithBucket(c, b, n).table[b] = n
         /\ \A a \in Buckets : a # b => WithBucket(c, b, n).table[a] = c.table[a]
<1>1. c.table \in [Buckets -> Pointers]
  BY DEF CacheTypes
<1> DEFINE f == [c.table EXCEPT ![b] = n]
           d == [c EXCEPT !.table = f]
<1>2. f \in [Buckets -> Pointers] /\ f[b] = n
      /\ \A a \in Buckets : a # b => f[a] = c.table[a]
  BY <1>1
<1>3. WithBucket(c, b, n) = d
  BY DEF WithBucket
<1> HIDE DEF f
<1>4. d \in CacheTypes /\ d.head = c.head /\ d.tail = c.tail /\ d.node = c.node
      /\ d.table = f
  BY <1>2 DEF CacheTypes
<1> HIDE DEF d
<1> QED
  BY <1>2, <1>3, <1>4

(* What follows a node that is moved, x, is linked to what precedes it.    *)
Bridged(c, p, x) ==
  IF x = NULL THEN [c EXCEPT !.tail = p] ELSE [c EXCEPT !.node[x].prev = p]

(* move_to_front with a node that has a predecessor.                       *)
LEMMA MoveFacts ==
  ASSUME NEW c \in CacheTypes, NEW m \in Nodes, NEW p \in Nodes, p # m,
         NEW x \in Pointers, c.node[m].prev = p, c.node[m].next = x, x # m,
         c.head # m, c.tail # NULL
  PROVE  /\ move_to_front(c, m) \in CacheTypes
         /\ move_to_front(c, m).head = m
         /\ x = NULL => move_to_front(c, m).tail = p
         /\ x # NULL => move_to_front(c, m).tail = c.tail
         /\ move_to_front(c, m).table = c.table
         /\ move_to_front(c, m).node[m].prev = NULL
         /\ move_to_front(c, m).node[m].next = c.head
         /\ \A y \in Nodes :
              /\ move_to_front(c, m).node[y].key = c.node[y].key
              /\ move_to_front(c, m).node[y].value = c.node[y].value
         /\ \A y \in Nodes : y # m =>
              /\ y = p => move_to_front(c, m).node[y].next = x
              /\ y # p => move_to_front(c, m).node[y].next = c.node[y].next
              /\ y = c.head => move_to_front(c, m).node[y].prev = m
              /\ y # c.head /\ y = x => move_to_front(c, m).node[y].prev = p
              /\ y # c.head /\ y # x =>
                   move_to_front(c, m).node[y].prev = c.node[y].prev
<1> DEFINE r == [c.node[p] EXCEPT !.next = x]
           forward == WithNode(c, p, r)
           q == [forward.node[x] EXCEPT !.prev = p]
           unlinked == IF x = NULL THEN WithTail(forward, p)
                       ELSE WithNode(forward, x, q)
           d == PushFront(unlinked, m)
<1>0. /\ NULL \notin Nodes /\ NULL \in Pointers /\ p \in Pointers /\ p # NULL
      /\ c.node[p] \in NodeTypes
      /\ \A y \in Nodes : c.node[y] \in NodeTypes
  BY TypeFacts, CacheFacts DEF Pointers
<1>1. /\ r \in NodeTypes /\ r.next = x /\ r.prev = c.node[p].prev
      /\ r.key = c.node[p].key /\ r.value = c.node[p].value
  BY <1>0 DEF NodeTypes
<1>2. /\ forward \in CacheTypes
      /\ forward.head = c.head /\ forward.tail = c.tail /\ forward.table = c.table
      /\ forward.node[p] = r
      /\ \A y \in Nodes : y # p => forward.node[y] = c.node[y]
  <2>1. r \in NodeTypes
    BY <1>1
  <2> HIDE DEF r
  <2> QED
    BY <2>1, NodeUpdate
<1>3. move_to_front(c, m) = d
  <2>1. forward = [c EXCEPT !.node[p].next = c.node[m].next]
    BY <1>0 DEF WithNode
  <2>2. forward.node[m].next = x
    BY <1>0, <1>2
  <2> HIDE DEF forward
  <2>3. unlinked = Bridged(forward, p, x)
    BY DEF WithTail, WithNode, Bridged
  <2> HIDE DEF unlinked
  <2> DEFINE g == [c EXCEPT !.node[c.node[m].prev].next = c.node[m].next]
  <2>4. move_to_front(c, m) = PushFront(Bridged(g, c.node[m].prev, g.node[m].next), m)
    BY <1>0 DEF move_to_front, Bridged
  <2>5. g = forward
    BY <2>1
  <2> HIDE DEF g
  <2> QED
    BY <2>2, <2>3, <2>4, <2>5
<1> HIDE DEF r, forward
<1>4. \A y \in Nodes : /\ forward.node[y] \in NodeTypes
                       /\ forward.node[y].key = c.node[y].key
                       /\ forward.node[y].value = c.node[y].value
                       /\ forward.node[y].prev = c.node[y].prev
                       /\ y = p => forward.node[y].next = x
                       /\ y # p => forward.node[y].next = c.node[y].next
  BY <1>0, <1>1, <1>2
<1>5. /\ unlinked \in CacheTypes
      /\ unlinked.head = c.head /\ unlinked.table = c.table
      /\ x = NULL => unlinked.tail = p
      /\ x # NULL => unlinked.tail = c.tail
      /\ \A y \in Nodes : /\ unlinked.node[y].key = c.node[y].key
                          /\ unlinked.node[y].value = c.node[y].value
                          /\ y = x => unlinked.node[y].prev = p
                          /\ y # x => unlinked.node[y].prev = c.node[y].prev
                          /\ y = p => unlinked.node[y].next = x
                          /\ y # p => unlinked.node[y].next = c.node[y].next
  <2>1. CASE x = NULL
    <3>1. unlinked = WithTail(forward, p)
      BY <2>1
    <3> HIDE DEF unlinked
    <3>2. /\ WithTail(forward, p) \in CacheTypes
          /\ WithTail(forward, p).head = forward.head
          /\ WithTail(forward, p).tail = p
          /\ WithTail(forward, p).table = forward.table
          /\ WithTail(forward, p).node = forward.node
      BY <1>0, <1>2, TailUpdate
    <3> QED
      BY <1>0, <1>2, <1>4, <2>1, <3>1, <3>2
  <2>2. CASE x # NULL
    <3>1. unlinked = WithNode(forward, x, q) /\ x \in Nodes
      BY <2>2 DEF Pointers
    <3> HIDE DEF unlinked
    <3>2. /\ q \in NodeTypes /\ q.prev = p /\ q.key = forward.node[x].key
          /\ q.value = forward.node[x].value /\ q.next = forward.node[x].next
      BY <1>0, <1>4, <3>1 DEF NodeTypes
    <3> HIDE DEF q
    <3>3. /\ unlinked \in CacheTypes
          /\ unlinked.head = forward.head /\ unlinked.tail = forward.tail
          /\ unlinked.table = forward.table /\ unlinked.node[x] = q
          /\ \A y \in Nodes : y # x => unlinked.node[y] = forward.node[y]
      <4>1. /\ WithNode(forward, x, q) \in CacheTypes
            /\ WithNode(forward, x, q).head = forward.head
            /\ WithNode(forward, x, q).tail = forward.tail
            /\ WithNode(forward, x, q).table = forward.table
            /\ WithNode(forward, x, q).node[x] = q
            /\ \A y \in Nodes : y # x => WithNode(forward, x, q).node[y] = forward.node[y]
        BY <1>2, <3>1, <3>2, NodeUpdate
      <4> QED
        BY <3>1, <4>1
    <3>4. \A y \in Nodes : y = x => /\ unlinked.node[y].key = c.node[y].key
                                    /\ unlinked.node[y].value = c.node[y].value
                                    /\ unlinked.node[y].prev = p
                                    /\ unlinked.node[y].next = forward.node[y].next
      BY <1>4, <3>2, <3>3
    <3>5. \A y \in Nodes : y # x => unlinked.node[y] = forward.node[y]
      BY <3>3
    <3> QED
      BY <1>2, <1>4, <2>2, <3>3, <3>4, <3>5
  <2> QED
    BY <2>1, <2>2
<1> HIDE DEF unlinked
<1>6. /\ d \in CacheTypes
      /\ d.head = m
      /\ d.tail = IF unlinked.tail = NULL THEN m ELSE unlinked.tail
      /\ d.table = unlinked.table
      /\ d.node[m] = [unlinked.node[m] EXCEPT !.prev = NULL, !.next = unlinked.head]
      /\ \A y \in Nodes : y # m =>
           d.node[y] = IF y = unlinked.head
                         THEN [unlinked.node[y] EXCEPT !.prev = m]
                         ELSE unlinked.node[y]
  <2>1. unlinked \in CacheTypes /\ unlinked.head # m
    BY <1>5
  <2> QED
    BY <2>1, PushFrontFacts, ZenonT(60)
<1> HIDE DEF d
<1>7. \A y \in Nodes : unlinked.node[y] \in NodeTypes
  BY <1>5, TypeFacts
<1>8. /\ x = NULL => d.tail = p
      /\ x # NULL => d.tail = c.tail
      /\ d.table = c.table
  BY <1>0, <1>5, <1>6
<1>9. /\ d.node[m].prev = NULL /\ d.node[m].next = c.head
      /\ d.node[m].key = c.node[m].key /\ d.node[m].value = c.node[m].value
  <2>1. d.node[m] = [unlinked.node[m] EXCEPT !.prev = NULL, !.next = c.head]
    BY <1>5, <1>6
  <2> QED
    BY <1>5, <1>7, <2>1 DEF NodeTypes
<1>10. ASSUME NEW y \in Nodes, y # m
       PROVE  /\ d.node[y].key = c.node[y].key /\ d.node[y].value = c.node[y].value
              /\ d.node[y].next = unlinked.node[y].next
              /\ y = c.head => d.node[y].prev = m
              /\ y # c.head => d.node[y].prev = unlinked.node[y].prev
  <2>1. CASE y = c.head
    <3>1. d.node[y] = [unlinked.node[y] EXCEPT !.prev = m]
      BY <1>5, <1>6, <1>10, <2>1
    <3>2. /\ unlinked.node[y] \in NodeTypes
          /\ unlinked.node[y].key = c.node[y].key
          /\ unlinked.node[y].value = c.node[y].value
      BY <1>5, <1>7
    <3> QED
      BY <2>1, <3>1, <3>2 DEF NodeTypes
  <2>2. CASE y # c.head
    <3>1. d.node[y] = unlinked.node[y]
      BY <1>5, <1>6, <1>10, <2>2
    <3>2. /\ unlinked.node[y].key = c.node[y].key
          /\ unlinked.node[y].value = c.node[y].value
      BY <1>5
    <3> QED
      BY <2>2, <3>1, <3>2
  <2> QED
    BY <2>1, <2>2
<1>11. \A y \in Nodes : d.node[y].key = c.node[y].key /\ d.node[y].value = c.node[y].value
  BY <1>9, <1>10
<1>12. \A y \in Nodes : y # m =>
         /\ y = p => d.node[y].next = x
         /\ y # p => d.node[y].next = c.node[y].next
         /\ y = c.head => d.node[y].prev = m
         /\ y # c.head /\ y = x => d.node[y].prev = p
         /\ y # c.head /\ y # x => d.node[y].prev = c.node[y].prev
  BY <1>5, <1>10
<1> QED
  BY <1>3, <1>6, <1>8, <1>9, <1>11, <1>12

(* A node without a predecessor stays where it is.                         *)
LEMMA MoveFirst ==
  ASSUME NEW c, NEW n, c.node[n].prev = NULL
  PROVE  move_to_front(c, n) = c
BY DEF move_to_front

(* NewEntry.                                                               *)
LEMMA NewEntryFacts ==
  ASSUME NEW c \in CacheTypes, NEW n \in Nodes, NEW k \in Keys,
         NEW v \in Values \cup {NULL}, c.head # n
  PROVE  /\ NewEntry(c, n, k, v) \in CacheTypes
         /\ NewEntry(c, n, k, v).head = n
         /\ NewEntry(c, n, k, v).tail = IF c.tail = NULL THEN n ELSE c.tail
         /\ NewEntry(c, n, k, v).node[n].key = k
         /\ NewEntry(c, n, k, v).node[n].value = v
         /\ NewEntry(c, n, k, v).node[n].prev = NULL
         /\ NewEntry(c, n, k, v).node[n].next = c.table[hash_key(k)]
         /\ \A m \in Nodes : m # n =>
              /\ NewEntry(c, n, k, v).node[m].key = c.node[m].key
              /\ NewEntry(c, n, k, v).node[m].value = c.node[m].value
              /\ NewEntry(c, n, k, v).node[m].next = c.node[m].next
              /\ NewEntry(c, n, k, v).node[m].prev
                   = IF m = c.head THEN n ELSE c.node[m].prev
         /\ NewEntry(c, n, k, v).table[hash_key(k)] = n
         /\ \A b \in Buckets : b # hash_key(k) =>
              NewEntry(c, n, k, v).table[b] = c.table[b]
<1> DEFINE b == hash_key(k)
           r == [c.node[n] EXCEPT !.key = k, !.value = v]
           filled == WithNode(c, n, r)
           listed == PushFront(filled, n)
           q == [listed.node[n] EXCEPT !.next = listed.table[b]]
           linked == WithNode(listed, n, q)
           d == WithBucket(linked, b, n)
<1>0. /\ c.node[n] \in NodeTypes /\ b \in Buckets /\ NULL \in Pointers
      /\ n \in Pointers /\ c.table[b] \in Pointers /\ n # NULL
  BY TypeFacts, CacheFacts DEF Pointers
<1>1. r \in NodeTypes /\ r.key = k /\ r.value = v
  BY <1>0 DEF NodeTypes
<1>2. NewEntry(c, n, k, v) = d
  <2>1. filled = [c EXCEPT !.node[n].key = k, !.node[n].value = v]
    BY <1>0 DEF WithNode, CacheTypes, NodeTypes
  <2> HIDE DEF filled
  <2>2. d = [listed EXCEPT !.node[n].next = listed.table[b], !.table[b] = n]
    <3> HIDE DEF listed
    <3> QED
      BY DEF WithNode, WithBucket
  <2> HIDE DEF d
  <2> QED
    BY <2>1, <2>2 DEF NewEntry
<1> HIDE DEF r
<1>3. /\ filled \in CacheTypes
      /\ filled.head = c.head /\ filled.tail = c.tail /\ filled.table = c.table
      /\ filled.node[n] = r
      /\ \A m \in Nodes : m # n => filled.node[m] = c.node[m]
  <2>1. r \in NodeTypes
    BY <1>1
  <2> QED
    BY <2>1, NodeUpdate
<1> HIDE DEF filled
<1>4. /\ listed \in CacheTypes
      /\ listed.head = n
      /\ listed.tail = IF filled.tail = NULL THEN n ELSE filled.tail
      /\ listed.table = filled.table
      /\ listed.node[n]
           = [filled.node[n] EXCEPT !.prev = NULL, !.next = filled.head]
      /\ \A m \in Nodes : m # n =>
           listed.node[m] = IF m = filled.head
                              THEN [filled.node[m] EXCEPT !.prev = n]
                              ELSE filled.node[m]
  <2>1. filled \in CacheTypes /\ filled.head # n
    BY <1>3
  <2> QED
    BY <2>1, PushFrontFacts, ZenonT(60)
<1> HIDE DEF listed
<1>5. /\ listed.node[n].key = k /\ listed.node[n].value = v
      /\ listed.node[n].prev = NULL /\ listed.node[n] \in NodeTypes
  <2>1. listed.node[n] = [r EXCEPT !.prev = NULL, !.next = c.head]
    BY <1>3, <1>4
  <2>2. listed.node[n] \in NodeTypes
    BY <1>4, TypeFacts
  <2> QED
    BY <1>1, <2>1, <2>2 DEF NodeTypes
<1>6. ASSUME NEW m \in Nodes, m # n
      PROVE  /\ listed.node[m].key = c.node[m].key
             /\ listed.node[m].value = c.node[m].value
             /\ listed.node[m].next = c.node[m].next
             /\ listed.node[m].prev = IF m = c.head THEN n ELSE c.node[m].prev
  <2>1. c.node[m] \in NodeTypes
    BY TypeFacts
  <2>2. CASE m = c.head
    <3>1. listed.node[m] = [c.node[m] EXCEPT !.prev = n]
      BY <1>3, <1>4, <1>6, <2>2
    <3> QED
      BY <2>1, <2>2, <3>1 DEF NodeTypes
  <2>3. CASE m # c.head
    BY <1>3, <1>4, <1>6, <2>3
  <2> QED
    BY <2>2, <2>3
<1>7. /\ q \in NodeTypes /\ q.key = k /\ q.value = v /\ q.prev = NULL
      /\ q.next = c.table[b]
  <2>1. listed.table[b] = c.table[b]
    BY <1>3, <1>4
  <2> QED
    BY <1>0, <1>5, <2>1 DEF NodeTypes
<1> HIDE DEF q
<1>8. /\ linked \in CacheTypes
      /\ linked.head = listed.head /\ linked.tail = listed.tail
      /\ linked.table = listed.table /\ linked.node[n] = q
      /\ \A m \in Nodes : m # n => linked.node[m] = listed.node[m]
  <2>1. listed \in CacheTypes /\ q \in NodeTypes
    BY <1>4, <1>7
  <2> QED
    BY <2>1, NodeUpdate
<1> HIDE DEF linked
<1>9. /\ d \in CacheTypes /\ d.head = linked.head /\ d.tail = linked.tail
      /\ d.node = linked.node /\ d.table[b] = n
      /\ \A a \in Buckets : a # b => d.table[a] = linked.table[a]
  <2>1. linked \in CacheTypes
    BY <1>8
  <2> QED
    BY <1>0, <2>1, TableUpdate
<1> HIDE DEF d
<1>10. d.head = n /\ d.tail = IF c.tail = NULL THEN n ELSE c.tail
  BY <1>3, <1>4, <1>8, <1>9
<1>11. /\ d.node[n].key = k /\ d.node[n].value = v /\ d.node[n].prev = NULL
       /\ d.node[n].next = c.table[b]
  BY <1>7, <1>8, <1>9
<1>12. \A m \in Nodes : m # n => d.node[m] = listed.node[m]
  BY <1>8, <1>9
<1>13. \A a \in Buckets : a # b => d.table[a] = c.table[a]
  BY <1>3, <1>4, <1>8, <1>9
<1> QED
  BY <1>2, <1>6, <1>9, <1>10, <1>11, <1>12, <1>13

(* evict_lru finds a node that is first in its chain at once.              *)
LEMMA EvictIsTable ==
  ASSUME NEW c, NEW v, c.table[hash_key(c.node[v].key)] = v
  PROVE  /\ EvictStops(c, v) # {}
         /\ EvictReads(c, v) \subseteq {v}
<1> DEFINE at == Chain(c, c.node[v].key)
           stops == EvictStops(c, v)
<1>1. at[0] = v /\ DOMAIN at = 0 .. Steps /\ 0 \in DOMAIN at
  <2>1. 0 \in 0 .. Steps
    BY CacheFacts
  <2>2. DOMAIN Walk(c, v, "next") = 0 .. Steps /\ Walk(c, v, "next")[0] = v
    BY WalkSteps
  <2> QED
    BY <2>1, <2>2, Zenon DEF Chain
<1>2. stops = {i \in DOMAIN at : at[i] \in {NULL, v} \/ c.node[at[i]].next = v}
  BY DEF EvictStops
<1> HIDE DEF at
<1>3. 0 \in stops
  BY <1>1, <1>2
<1> HIDE DEF stops
<1>4. EvictReads(c, v)
        = {at[i] : i \in {j \in DOMAIN at : \A h \in stops : j <= h}} \ {NULL}
  BY DEF EvictReads, ReadsUpTo, at, stops
<1>5. \A j \in DOMAIN at : (\A h \in stops : j <= h) => j = 0
  BY <1>1, <1>3, CacheFacts
<1>6. EvictReads(c, v) \subseteq {v}
  BY <1>1, <1>4, <1>5
<1> QED
  BY <1>3, <1>6 DEF stops

(* evict_lru with a tail that is first in its bucket.                      *)
LEMMA EvictFacts ==
  ASSUME NEW c \in CacheTypes, NEW t \in Nodes, NEW p \in Nodes, p # t,
         c.tail = t, c.node[t].prev = p, c.node[t].key \in Keys,
         c.table[hash_key(c.node[t].key)] = t
  PROVE  /\ evict_lru(c) \in CacheTypes
         /\ evict_lru(c).head = c.head /\ evict_lru(c).tail = p
         /\ evict_lru(c).node[p].next = NULL
         /\ evict_lru(c).node[p].prev = c.node[p].prev
         /\ \A m \in Nodes : m # t =>
              /\ evict_lru(c).node[m].key = c.node[m].key
              /\ evict_lru(c).node[m].value = c.node[m].value
              /\ m # p => evict_lru(c).node[m] = c.node[m]
         /\ evict_lru(c).table[hash_key(c.node[t].key)] = c.node[t].next
         /\ \A b \in Buckets : b # hash_key(c.node[t].key) =>
              evict_lru(c).table[b] = c.table[b]
<1> DEFINE b == hash_key(c.node[t].key)
           r == [c.node[p] EXCEPT !.next = NULL]
           cut == WithNode(c, p, r)
           off == WithTail(cut, p)
           out == WithBucket(off, b, off.node[t].next)
           d == WithNode(out, t, NoNode)
<1>0. /\ c.node[p] \in NodeTypes /\ c.node[t] \in NodeTypes /\ b \in Buckets
      /\ NULL \in Pointers /\ p \in Pointers /\ p # NULL
      /\ c.node[t].next \in Pointers
  BY TypeFacts, CacheFacts DEF Pointers
<1>1. /\ r \in NodeTypes /\ r.next = NULL /\ r.prev = c.node[p].prev
      /\ r.key = c.node[p].key /\ r.value = c.node[p].value
  BY <1>0 DEF NodeTypes
<1>2. NoNode \in NodeTypes
  BY <1>0 DEF NoNode, NodeTypes
<1>3. OffList(c) = off
  <2>1. off = [c EXCEPT !.node[p].next = NULL, !.tail = p]
    BY DEF WithTail, WithNode
  <2> HIDE DEF off
  <2> QED
    BY <1>0, <2>1 DEF OffList
<1> HIDE DEF r
<1>4. /\ cut \in CacheTypes
      /\ cut.head = c.head /\ cut.tail = c.tail /\ cut.table = c.table
      /\ cut.node[p] = r
      /\ \A m \in Nodes : m # p => cut.node[m] = c.node[m]
  <2>1. r \in NodeTypes
    BY <1>1
  <2> QED
    BY <2>1, NodeUpdate
<1> HIDE DEF cut
<1>5. /\ off \in CacheTypes /\ off.head = c.head /\ off.tail = p
      /\ off.table = c.table /\ off.node = cut.node
  <2>1. cut \in CacheTypes /\ p \in Pointers
    BY <1>0, <1>4
  <2>2. /\ off \in CacheTypes /\ off.head = cut.head /\ off.tail = p
        /\ off.table = cut.table /\ off.node = cut.node
    BY <2>1, TailUpdate
  <2> QED
    BY <1>4, <2>2
<1> HIDE DEF off
<1>6. off.node[t] = c.node[t] /\ off.node[t].next \in Pointers
  BY <1>0, <1>4, <1>5
<1>7. evict_lru(c) = d
  <2>1. OffChain(off, t) = out
    <3>1. off.table[hash_key(off.node[t].key)] = t /\ hash_key(off.node[t].key) = b
      BY <1>5, <1>6
    <3>2. out = [off EXCEPT !.table[b] = off.node[t].next]
      BY DEF WithBucket
    <3> HIDE DEF b, out
    <3> QED
      BY <3>1, <3>2 DEF OffChain
  <2>2. evict_lru(c) = [OffChain(off, t) EXCEPT !.node[t] = NoNode]
    BY <1>3 DEF evict_lru
  <2>3. d = [out EXCEPT !.node[t] = NoNode]
    BY DEF WithNode
  <2> HIDE DEF out, d
  <2> QED
    BY <2>1, <2>2, <2>3
<1>8. /\ out \in CacheTypes /\ out.head = off.head /\ out.tail = off.tail
      /\ out.node = off.node /\ out.table[b] = off.node[t].next
      /\ \A a \in Buckets : a # b => out.table[a] = off.table[a]
  <2>1. off \in CacheTypes /\ b \in Buckets /\ off.node[t].next \in Pointers
    BY <1>0, <1>5, <1>6
  <2> HIDE DEF b
  <2> QED
    BY <2>1, TableUpdate
<1> HIDE DEF out
<1>9. /\ d \in CacheTypes
      /\ d.head = out.head /\ d.tail = out.tail /\ d.table = out.table
      /\ d.node[t] = NoNode
      /\ \A m \in Nodes : m # t => d.node[m] = out.node[m]
  <2>1. out \in CacheTypes
    BY <1>8
  <2> QED
    BY <1>2, <2>1, NodeUpdate
<1> HIDE DEF d
<1>10. /\ d \in CacheTypes /\ d.head = c.head /\ d.tail = p
       /\ d.table[b] = c.node[t].next
       /\ \A a \in Buckets : a # b => d.table[a] = c.table[a]
  BY <1>5, <1>6, <1>8, <1>9
<1>11. d.node[p] = r /\ \A m \in Nodes : m # t /\ m # p => d.node[m] = c.node[m]
  BY <1>4, <1>5, <1>8, <1>9
<1> QED
  BY <1>1, <1>7, <1>10, <1>11

(* The tail leaves the list.                                               *)
LEMMA OffListFacts ==
  ASSUME NEW c \in CacheTypes, NEW t \in Nodes, NEW p \in Nodes,
         c.tail = t, c.node[t].prev = p
  PROVE  /\ OffList(c) \in CacheTypes
         /\ OffList(c).head = c.head /\ OffList(c).tail = p
         /\ OffList(c).table = c.table
         /\ OffList(c).node[p].next = NULL
         /\ \A y \in Nodes : /\ OffList(c).node[y].key = c.node[y].key
                             /\ OffList(c).node[y].value = c.node[y].value
                             /\ OffList(c).node[y].prev = c.node[y].prev
                             /\ y # p => OffList(c).node[y] = c.node[y]
<1> DEFINE r == [c.node[p] EXCEPT !.next = NULL]
           cut == WithNode(c, p, r)
           off == WithTail(cut, p)
<1>0. /\ c.node[p] \in NodeTypes /\ NULL \in Pointers /\ p \in Pointers /\ p # NULL
  BY TypeFacts, CacheFacts DEF Pointers
<1>1. /\ r \in NodeTypes /\ r.next = NULL /\ r.prev = c.node[p].prev
      /\ r.key = c.node[p].key /\ r.value = c.node[p].value
  BY <1>0 DEF NodeTypes
<1>2. OffList(c) = off
  <2>1. off = [c EXCEPT !.node[p].next = NULL, !.tail = p]
    BY DEF WithTail, WithNode
  <2> HIDE DEF off
  <2> QED
    BY <1>0, <2>1 DEF OffList
<1> HIDE DEF r
<1>3. /\ cut \in CacheTypes
      /\ cut.head = c.head /\ cut.tail = c.tail /\ cut.table = c.table
      /\ cut.node[p] = r
      /\ \A m \in Nodes : m # p => cut.node[m] = c.node[m]
  <2>1. r \in NodeTypes
    BY <1>1
  <2> QED
    BY <2>1, NodeUpdate
<1> HIDE DEF cut
<1>4. /\ off \in CacheTypes /\ off.head = cut.head /\ off.tail = p
      /\ off.table = cut.table /\ off.node = cut.node
  <2>1. cut \in CacheTypes /\ p \in Pointers
    BY <1>0, <1>3
  <2> QED
    BY <2>1, TailUpdate
<1> HIDE DEF off
<1>5. \A y \in Nodes : /\ off.node[y].key = c.node[y].key
                       /\ off.node[y].value = c.node[y].value
                       /\ off.node[y].prev = c.node[y].prev
                       /\ y # p => off.node[y] = c.node[y]
  BY <1>1, <1>3, <1>4
<1> QED
  BY <1>1, <1>2, <1>3, <1>4, <1>5

(* The loop of evict_lru comes to its end and reads nodes of X only.       *)
Removable(c, t, X) == EvictStops(c, t) # {} /\ EvictReads(c, t) \subseteq X

(* evict_lru where a new entry m has been put before the tail in its       *)
(* bucket.                                                                 *)
LEMMA EvictBehind ==
  ASSUME NEW c \in CacheTypes, NEW t \in Nodes, NEW p \in Nodes, NEW m \in Nodes,
         p # t, m # t, c.tail = t, c.node[t].prev = p, c.node[t].key \in Keys,
         c.table[hash_key(c.node[t].key)] = m, c.node[m].next = t,
         c.node[t].next = NULL
  PROVE  /\ Removable(OffList(c), t, {m})
         /\ evict_lru(c) \in CacheTypes
         /\ evict_lru(c).head = c.head /\ evict_lru(c).tail = p
         /\ evict_lru(c).table = c.table
         /\ evict_lru(c).node[p].next = NULL
         /\ evict_lru(c).node[m].next = NULL
         /\ \A y \in Nodes : y # t =>
              /\ evict_lru(c).node[y].key = c.node[y].key
              /\ evict_lru(c).node[y].value = c.node[y].value
              /\ evict_lru(c).node[y].prev = c.node[y].prev
              /\ y # p /\ y # m => evict_lru(c).node[y].next = c.node[y].next
<1> DEFINE o == OffList(c)
           k == c.node[t].key
           at == Chain(o, k)
           stops == EvictStops(o, t)
           r == [o.node[m] EXCEPT !.next = NULL]
           out == IF m = p THEN o ELSE WithNode(o, m, r)
           d == WithNode(out, t, NoNode)
<1>0. /\ o \in CacheTypes /\ o.head = c.head /\ o.tail = p /\ o.table = c.table
      /\ o.node[p].next = NULL
      /\ \A y \in Nodes : /\ o.node[y].key = c.node[y].key
                          /\ o.node[y].value = c.node[y].value
                          /\ o.node[y].prev = c.node[y].prev
                          /\ y # p => o.node[y] = c.node[y]
  BY OffListFacts
<1>1. evict_lru(c) = [OffChain(o, t) EXCEPT !.node[t] = NoNode]
  BY DEF evict_lru
<1> HIDE DEF o
<1>2. /\ NULL \notin Nodes /\ NULL \in Pointers /\ m # NULL
      /\ Steps \in Nat /\ Steps >= 1 /\ 0 \in 0 .. Steps /\ 1 \in 0 .. Steps
  <2>1. Steps >= 1
    <3>1. {t} \in SUBSET Nodes /\ IsFiniteSet(Nodes)
      BY CacheAssumption
    <3>2. Cardinality({t}) = 1
      BY FS_Singleton
    <3>3. Cardinality({t}) <= Cardinality(Nodes)
      BY <3>1, FS_Subset
    <3> QED
      BY <3>2, <3>3, CacheFacts DEF Steps
  <2> QED
    BY <2>1, CacheFacts DEF Pointers
<1>3. o.node[t] = c.node[t] /\ o.node[t].key = k /\ o.node[t].next = NULL
  BY <1>0
<1>4. /\ at[0] = m /\ DOMAIN at = 0 .. Steps
      /\ at[1] = o.node[m].next
  <2>1. at = Walk(o, m, "next")
    BY <1>0 DEF Chain
  <2>2. /\ DOMAIN Walk(o, m, "next") = 0 .. Steps /\ Walk(o, m, "next")[0] = m
        /\ \A i \in 0 .. Steps - 1 :
             Walk(o, m, "next")[i + 1]
               = IF Walk(o, m, "next")[i] = NULL THEN NULL
                 ELSE o.node[Walk(o, m, "next")[i]]["next"]
    BY WalkSteps
  <2>3. 0 \in 0 .. Steps - 1 /\ 0 + 1 = 1
    BY <1>2
  <2> HIDE DEF at
  <2> QED
    BY <1>2, <2>1, <2>2, <2>3
<1>5. /\ stops = {i \in DOMAIN at : at[i] \in {NULL, t} \/ o.node[at[i]].next = t}
      /\ EvictReads(o, t)
           = {at[i] : i \in {j \in DOMAIN at : \A h \in stops : j <= h}} \ {NULL}
  BY <1>3 DEF EvictStops, EvictReads, ReadsUpTo
<1>6. OffChain(o, t) = IF at[Min(stops)] = NULL THEN o
                       ELSE [o EXCEPT !.node[at[Min(stops)]].next = NULL]
  <2>1. o.table[hash_key(o.node[t].key)] # t
    BY <1>0, <1>3
  <2> QED
    BY <1>3, <2>1 DEF OffChain
<1> HIDE DEF at, stops
<1>7. stops \in SUBSET Nat
  BY <1>4, <1>5, <1>2
<1>8. /\ stops # {} /\ EvictReads(o, t) \subseteq {m} /\ OffChain(o, t) = out
  <2> DEFINE a == Min(stops)
  <2>1. stops # {} => a \in stops /\ \A h \in stops : a <= h
    BY <1>7, FirstStop
  <2> HIDE DEF a
  <2>2. CASE m = p
    <3>1. at[1] = NULL /\ o.node[m].next # t
      BY <1>0, <1>2, <1>4, <2>2
    <3>2. 1 \in stops /\ 0 \notin stops
      BY <1>2, <1>4, <1>5, <3>1
    <3>3. a \in Nat /\ a <= 1 /\ a # 0
      BY <1>7, <2>1, <3>2
    <3>4. a = 1
      BY <3>3
    <3>5. \A j \in DOMAIN at : (\A h \in stops : j <= h) => j = 0 \/ j = 1
      BY <1>2, <1>4, <3>2
    <3>6. EvictReads(o, t) \subseteq {m}
      BY <1>4, <1>5, <3>1, <3>5
    <3>7. OffChain(o, t) = o
      BY <1>6, <3>1, <3>4 DEF a
    <3> QED
      BY <2>2, <3>2, <3>6, <3>7
  <2>3. CASE m # p
    <3>1. o.node[m].next = t
      BY <1>0, <2>3
    <3>2. 0 \in stops
      BY <1>2, <1>4, <1>5, <3>1
    <3>3. a \in Nat /\ a <= 0
      BY <1>7, <2>1, <3>2
    <3>4. a = 0
      BY <3>3
    <3>5. \A j \in DOMAIN at : (\A h \in stops : j <= h) => j = 0
      BY <1>2, <1>4, <3>2
    <3>6. EvictReads(o, t) \subseteq {m}
      BY <1>4, <1>5, <3>5
    <3>7. OffChain(o, t) = [o EXCEPT !.node[m].next = NULL]
      BY <1>2, <1>4, <1>6, <3>4 DEF a
    <3>8. OffChain(o, t) = WithNode(o, m, r)
      BY <3>7 DEF WithNode
    <3> QED
      BY <2>3, <3>2, <3>6, <3>8
  <2> QED
    BY <2>2, <2>3
<1>9. /\ out \in CacheTypes /\ out.head = c.head /\ out.tail = p
      /\ out.table = c.table /\ out.node[p].next = NULL /\ out.node[m].next = NULL
      /\ \A y \in Nodes : y # t =>
              /\ out.node[y].key = c.node[y].key
              /\ out.node[y].value = c.node[y].value
              /\ out.node[y].prev = c.node[y].prev
              /\ y # p /\ y # m => out.node[y].next = c.node[y].next
  <2>1. CASE m = p
    BY <1>0, <2>1
  <2>2. CASE m # p
    <3>0. out = WithNode(o, m, r)
      BY <2>2
    <3> HIDE DEF out
    <3>1. o.node[m] \in NodeTypes
      BY <1>0, TypeFacts
    <3>2. /\ r \in NodeTypes /\ r.next = NULL /\ r.key = o.node[m].key
          /\ r.value = o.node[m].value /\ r.prev = o.node[m].prev
      BY <1>2, <3>1 DEF NodeTypes
    <3> HIDE DEF r
    <3>3. /\ WithNode(o, m, r) \in CacheTypes
          /\ WithNode(o, m, r).head = o.head /\ WithNode(o, m, r).tail = o.tail
          /\ WithNode(o, m, r).table = o.table /\ WithNode(o, m, r).node[m] = r
          /\ \A y \in Nodes : y # m => WithNode(o, m, r).node[y] = o.node[y]
      BY <1>0, <3>2, NodeUpdate
    <3> QED
      BY <1>0, <2>2, <3>0, <3>2, <3>3
  <2> QED
    BY <2>1, <2>2
<1> HIDE DEF out
<1>10. evict_lru(c) = d
  BY <1>1, <1>8 DEF WithNode
<1>11. NoNode \in NodeTypes
  BY <1>2 DEF NoNode, NodeTypes
<1>12. /\ d \in CacheTypes
       /\ d.head = out.head /\ d.tail = out.tail /\ d.table = out.table
       /\ \A y \in Nodes : y # t => d.node[y] = out.node[y]
  BY <1>9, <1>11, NodeUpdate
<1> HIDE DEF d
<1> QED
  BY <1>8, <1>9, <1>10, <1>12 DEF o, stops, Removable

-----------------------------------------------------------------------------
(* The list after a move to the front, an insertion and an eviction.       *)
Moved(n, s, j) ==
  [i \in 1 .. n |-> IF i = 1 THEN s[j] ELSE IF i <= j THEN s[i - 1] ELSE s[i]]

Pushed(n, s, x) == [i \in 1 .. n |-> IF i = 1 THEN x ELSE s[i - 1]]

(* A move permutes the entries.                                            *)
LEMMA MovedFacts ==
  ASSUME NEW n \in Nat, NEW L, NEW s \in [1 .. n -> L], Distinct(n, s),
         NEW j \in 1 .. n
  PROVE  /\ Moved(n, s, j) \in [1 .. n -> L]
         /\ Moved(n, s, j)[1] = s[j]
         /\ \A i \in 1 .. n : i > 1 /\ i <= j => Moved(n, s, j)[i] = s[i - 1]
         /\ \A i \in 1 .. n : i > j => Moved(n, s, j)[i] = s[i]
         /\ \A i \in 1 .. n : \E h \in 1 .. n : Moved(n, s, j)[i] = s[h]
         /\ \A h \in 1 .. n : \E i \in 1 .. n : s[h] = Moved(n, s, j)[i]
         /\ Distinct(n, Moved(n, s, j))
<1> DEFINE t == Moved(n, s, j)
<1>1. ASSUME NEW i \in 1 .. n
      PROVE  /\ i = 1 => t[i] = s[j]
             /\ i > 1 /\ i <= j => i - 1 \in 1 .. n /\ t[i] = s[i - 1]
             /\ i > j => t[i] = s[i]
  BY DEF Moved
<1>2. t \in [1 .. n -> L]
  <2>1. \A i \in 1 .. n : i > 1 => i - 1 \in 1 .. n
    OBVIOUS
  <2>2. \A i \in 1 .. n :
          (IF i = 1 THEN s[j] ELSE IF i <= j THEN s[i - 1] ELSE s[i]) \in L
    BY <2>1
  <2> QED
    BY <2>2 DEF Moved
<1> HIDE DEF t
<1>3. 1 \in 1 .. n
  OBVIOUS
<1>4. \A i \in 1 .. n : i = 1 \/ (i > 1 /\ i <= j) \/ i > j
  OBVIOUS
<1>5. ASSUME NEW i \in 1 .. n PROVE \E h \in 1 .. n : t[i] = s[h]
  BY <1>1, <1>4
<1>6. ASSUME NEW h \in 1 .. n PROVE \E i \in 1 .. n : s[h] = t[i]
  <2>1. CASE h = j
    BY <1>1, <1>3, <2>1
  <2>2. CASE h < j
    <3>1. h + 1 \in 1 .. n /\ h + 1 > 1 /\ h + 1 <= j /\ (h + 1) - 1 = h
      BY <2>2
    <3> QED
      BY <1>1, <3>1
  <2>3. CASE h > j
    BY <1>1, <2>3
  <2> QED
    BY <2>1, <2>2, <2>3
<1>7. Distinct(n, t)
  <2> SUFFICES ASSUME NEW a \in 1 .. n, NEW b \in 1 .. n, t[a] = t[b]
               PROVE  a = b
    BY DEF Distinct
  <2>1. \A h, i \in 1 .. n : s[h] = s[i] => h = i
    BY DEF Distinct
  <2>2. CASE a = 1
    BY <1>1, <1>4, <2>1, <2>2
  <2>3. CASE a > 1 /\ a <= j
    BY <1>1, <1>4, <2>1, <2>3
  <2>4. CASE a > j
    BY <1>1, <1>4, <2>1, <2>4
  <2> QED
    BY <1>4, <2>2, <2>3, <2>4
<1> QED
  BY <1>1, <1>2, <1>3, <1>5, <1>6, <1>7 DEF t

(* The list is in order again after move_to_front, unless the entries      *)
(* behind the one that is moved are lost.                                  *)
LEMMA MoveListed ==
  ASSUME NEW c \in CacheTypes, NEW n \in Nat, NEW L \in SUBSET Nodes,
         NEW s \in [1 .. n -> L], Listed(c, n, s), NEW j \in 1 .. n,
         c.node[s[j]].prev = NULL \/ c.node[s[j]].next # NULL \/ s[j] = c.tail
  PROVE  /\ move_to_front(c, s[j]) \in CacheTypes
         /\ Listed(move_to_front(c, s[j]), n, Moved(n, s, j))
         /\ \A y \in Nodes :
              /\ move_to_front(c, s[j]).node[y].key = c.node[y].key
              /\ move_to_front(c, s[j]).node[y].value = c.node[y].value
<1> DEFINE m == s[j]
           d == move_to_front(c, m)
           t == Moved(n, s, j)
<1>0. /\ Distinct(n, s) /\ Ends(c, n, s) /\ Backward(c, n, s) /\ Forward(c, n, s)
      /\ InBuckets(c, n, s) /\ BucketsHold(c, n, s)
  BY DEF Listed
<1>1. /\ t \in [1 .. n -> L]
      /\ t[1] = s[j]
      /\ \A i \in 1 .. n : i > 1 /\ i <= j => t[i] = s[i - 1]
      /\ \A i \in 1 .. n : i > j => t[i] = s[i]
      /\ \A i \in 1 .. n : \E h \in 1 .. n : t[i] = s[h]
      /\ \A h \in 1 .. n : \E i \in 1 .. n : s[h] = t[i]
      /\ Distinct(n, t)
  BY <1>0, MovedFacts
<1> HIDE DEF t
<1>2. /\ t \in [1 .. n -> L]
      /\ t[1] = s[j]
      /\ \A i \in 1 .. n : i > 1 /\ i <= j => t[i] = s[i - 1]
      /\ \A i \in 1 .. n : i > j => t[i] = s[i]
  BY <1>1, Zenon
<1>3. /\ \A i \in 1 .. n : \E h \in 1 .. n : t[i] = s[h]
      /\ \A h \in 1 .. n : \E i \in 1 .. n : s[h] = t[i]
      /\ Distinct(n, t)
  BY <1>1, Zenon
<1>4. CASE j = 1
  <2>1. c.node[m].prev = NULL
    BY <1>0, <1>4 DEF Backward
  <2>2. d = c
    BY <2>1, MoveFirst
  <2>3. \A i \in 1 .. n : t[i] = s[i]
    BY <1>2, <1>4
  <2>4. t = s
    BY <1>2, <2>3
  <2> QED
    BY <2>2, <2>4 DEF t
<1>5. CASE j > 1
  <2> DEFINE p == s[j - 1]
             x == c.node[m].next
             h == s[1]
  <2>0. /\ NULL \notin Nodes /\ 1 \in 1 .. n /\ j - 1 \in 1 .. n /\ n \in 1 .. n
        /\ \A i \in 1 .. n : s[i] \in Nodes /\ s[i] # NULL
        /\ n > 0 /\ j > 1
    BY <1>5, CacheFacts
  <2>1. /\ p \in Nodes /\ m \in Nodes /\ h \in Nodes /\ p # m /\ h # m
        /\ c.node[m].prev = p /\ c.head = h /\ c.tail = s[n] /\ c.tail # NULL
    BY <1>0, <1>5, <2>0 DEF Distinct, Ends, Backward
  <2>2. \/ x = NULL /\ j = n
        \/ j < n /\ x = s[j + 1]
    <3>1. x = NULL \/ (j < n /\ x = s[j + 1])
      BY <1>0 DEF Forward
    <3>2. x = NULL => s[j] = s[n]
      BY <2>0, <2>1
    <3>3. s[j] = s[n] => j = n
      BY <1>0, <2>0 DEF Distinct
    <3> QED
      BY <3>1, <3>2, <3>3
  <2>3. /\ x = NULL \/ x # h
        /\ x # m /\ x \in Pointers
    <3>1. j < n => j + 1 \in 1 .. n /\ j + 1 # 1 /\ j + 1 # j
      OBVIOUS
    <3> QED
      BY <1>0, <2>0, <2>2, <3>1 DEF Distinct, Pointers
  <2>4. /\ d \in CacheTypes
        /\ d.head = m
        /\ x = NULL => d.tail = p
        /\ x # NULL => d.tail = c.tail
        /\ d.table = c.table
        /\ d.node[m].prev = NULL
        /\ d.node[m].next = c.head
        /\ \A y \in Nodes : /\ d.node[y].key = c.node[y].key
                            /\ d.node[y].value = c.node[y].value
        /\ \A y \in Nodes : y # m =>
             /\ y = p => d.node[y].next = x
             /\ y # p => d.node[y].next = c.node[y].next
             /\ y = c.head => d.node[y].prev = m
             /\ y # c.head /\ y = x => d.node[y].prev = p
             /\ y # c.head /\ y # x => d.node[y].prev = c.node[y].prev
    <3>1. c.head # m /\ c.node[m].next = x
      BY <2>1
    <3> HIDE DEF p, x, m, h
    <3> QED
      BY <2>1, <2>3, <3>1, MoveFacts
  <2> HIDE DEF d
  <2>5. Ends(d, n, t)
    <3>1. CASE x = NULL
      <4>1. j = n
        BY <2>0, <2>2, <3>1
      <4>2. t[n] = s[n - 1] /\ n - 1 = j - 1
        BY <1>2, <2>0, <4>1
      <4> QED
        BY <1>2, <2>0, <2>4, <3>1, <4>2 DEF Ends
    <3>2. CASE x # NULL
      <4>1. n > j
        BY <2>2, <3>2
      <4>2. t[n] = s[n]
        BY <1>2, <2>0, <4>1
      <4> QED
        BY <1>2, <2>0, <2>1, <2>4, <3>2, <4>2 DEF Ends
    <3> QED
      BY <3>1, <3>2
  <2> HIDE DEF p, x, h, m
  <2>6. \A a, b \in 1 .. n : s[a] = s[b] => a = b
    BY <1>0 DEF Distinct
  <2>7. \A a \in 1 .. n : /\ s[a] = m <=> a = j
                          /\ s[a] = p <=> a = j - 1
                          /\ s[a] = h <=> a = 1
    BY <2>0, <2>6 DEF p, m, h
  <2>8. \A a \in 1 .. n : s[a] = x <=> a = j + 1
    <3>1. CASE x = NULL /\ j = n
      BY <2>0, <3>1
    <3>2. CASE j < n /\ x = s[j + 1]
      <4>1. j + 1 \in 1 .. n
        BY <3>2
      <4> QED
        BY <2>6, <3>2, <4>1
    <3> QED
      BY <2>2, <3>1, <3>2
  <2>9. Backward(d, n, t)
    <3> SUFFICES ASSUME NEW i \in 1 .. n
                 PROVE  /\ i = 1 => d.node[t[i]].prev = NULL
                        /\ i > 1 => d.node[t[i]].prev = t[i - 1]
      BY DEF Backward
    <3>1. CASE i = 1
      BY <1>2, <2>4, <3>1 DEF m
    <3>2. CASE i = 2 /\ i <= j
      <4>1. t[i] = s[1] /\ t[i - 1] = m
        BY <1>2, <3>2 DEF m
      <4>2. s[1] \in Nodes /\ s[1] # m /\ s[1] = c.head
        BY <2>0, <2>1 DEF h
      <4> QED
        BY <2>4, <3>2, <4>1, <4>2
    <3>3. CASE i > 2 /\ i <= j
      <4>1. i - 1 \in 1 .. n /\ i - 1 # j /\ i - 1 # 1 /\ i - 1 # j + 1
            /\ i - 1 > 1 /\ i - 1 <= j
        BY <3>3
      <4>2. t[i] = s[i - 1] /\ t[i - 1] = s[(i - 1) - 1]
        BY <1>2, <3>3, <4>1
      <4>3. c.node[s[i - 1]].prev = s[(i - 1) - 1]
        BY <1>0, <4>1 DEF Backward
      <4>4. s[i - 1] \in Nodes /\ s[i - 1] # m /\ s[i - 1] # c.head /\ s[i - 1] # x
        BY <2>0, <2>1, <2>7, <2>8, <4>1
      <4> QED
        BY <2>4, <3>3, <4>2, <4>3, <4>4
    <3>4. CASE i = j + 1
      <4>1. t[i] = s[i] /\ t[i - 1] = s[j - 1]
        BY <1>2, <2>0, <3>4
      <4>2. s[i] \in Nodes /\ s[i] # m /\ s[i] # c.head /\ s[i] = x
        BY <2>0, <2>1, <2>7, <2>8, <3>4
      <4> QED
        BY <2>0, <2>4, <3>4, <4>1, <4>2 DEF p
    <3>5. CASE i > j + 1
      <4>1. i - 1 \in 1 .. n /\ i # j /\ i # 1 /\ i # j + 1 /\ i - 1 > j /\ i > j
            /\ i > 1
        BY <2>0, <3>5
      <4>2. t[i] = s[i] /\ t[i - 1] = s[i - 1]
        BY <1>2, <4>1
      <4>3. c.node[s[i]].prev = s[i - 1]
        BY <1>0, <4>1 DEF Backward
      <4>4. s[i] \in Nodes /\ s[i] # m /\ s[i] # c.head /\ s[i] # x
        BY <2>0, <2>1, <2>7, <2>8, <4>1
      <4> QED
        BY <2>4, <4>1, <4>2, <4>3, <4>4
    <3>6. i = 1 \/ (i = 2 /\ i <= j) \/ (i > 2 /\ i <= j) \/ i = j + 1 \/ i > j + 1
      OBVIOUS
    <3> QED
      BY <3>1, <3>2, <3>3, <3>4, <3>5, <3>6
  <2>10. Forward(d, n, t)
    <3> SUFFICES ASSUME NEW i \in 1 .. n
                 PROVE  \/ d.node[t[i]].next = NULL
                        \/ i < n /\ d.node[t[i]].next = t[i + 1]
      BY DEF Forward
    <3>1. CASE i = 1
      <4>1. 2 \in 1 .. n /\ t[2] = s[1] /\ 1 < n
        BY <1>2, <2>0
      <4>2. t[1] = m /\ d.node[m].next = s[1]
        BY <1>2, <2>1, <2>4 DEF m, h
      <4> QED
        BY <3>1, <4>1, <4>2
    <3>2. CASE i > 1 /\ i < j
      <4>1. i - 1 \in 1 .. n /\ i - 1 # j /\ i - 1 # j - 1 /\ i < n
            /\ i + 1 \in 1 .. n /\ i + 1 > 1 /\ i + 1 <= j /\ (i + 1) - 1 = i
            /\ (i - 1) + 1 = i
        BY <3>2
      <4>2. t[i] = s[i - 1] /\ t[i + 1] = s[i]
        BY <1>2, <3>2, <4>1
      <4>3. c.node[s[i - 1]].next = NULL \/ c.node[s[i - 1]].next = s[i]
        BY <1>0, <4>1 DEF Forward
      <4>4. s[i - 1] \in Nodes /\ s[i - 1] # m /\ s[i - 1] # p
        BY <2>0, <2>7, <4>1
      <4> QED
        BY <2>4, <4>1, <4>2, <4>3, <4>4
    <3>3. CASE i = j
      <4>1. t[i] = p /\ p \in Nodes /\ p # m
        BY <1>2, <2>0, <2>1, <3>3 DEF p
      <4>2. d.node[p].next = x
        BY <2>4, <4>1
      <4>3. j < n => j + 1 \in 1 .. n /\ j + 1 > j
        OBVIOUS
      <4>4. j < n => t[j + 1] = s[j + 1]
        BY <1>2, <4>3
      <4> QED
        BY <2>2, <3>3, <4>1, <4>2, <4>4
    <3>4. CASE i > j
      <4>1. i # j /\ i # j - 1
        BY <3>4
      <4>2. t[i] = s[i] /\ (i < n => t[i + 1] = s[i + 1])
        BY <1>2, <3>4
      <4>3. c.node[s[i]].next = NULL \/ (i < n /\ c.node[s[i]].next = s[i + 1])
        BY <1>0 DEF Forward
      <4>4. s[i] \in Nodes /\ s[i] # m /\ s[i] # p
        BY <2>0, <2>7, <4>1
      <4> QED
        BY <2>4, <4>2, <4>3, <4>4
    <3>5. i = 1 \/ (i > 1 /\ i < j) \/ i = j \/ i > j
      OBVIOUS
    <3> QED
      BY <3>1, <3>2, <3>3, <3>4, <3>5
  <2>11. InBuckets(d, n, t)
    <3> SUFFICES ASSUME NEW i \in 1 .. n
                 PROVE  /\ d.node[t[i]].key \in Keys
                        /\ d.table[hash_key(d.node[t[i]].key)] = t[i]
      BY DEF InBuckets
    <3>1. PICK a \in 1 .. n : t[i] = s[a]
      BY <1>3
    <3>2. /\ c.node[s[a]].key \in Keys /\ c.table[hash_key(c.node[s[a]].key)] = s[a]
          /\ s[a] \in Nodes
      BY <1>0, <2>0 DEF InBuckets
    <3>3. d.node[s[a]].key = c.node[s[a]].key
      BY <2>4, <3>2
    <3> QED
      BY <2>4, <3>1, <3>2, <3>3
  <2>12. BucketsHold(d, n, t)
    <3> SUFFICES ASSUME NEW b \in Buckets, d.table[b] # NULL
                 PROVE  \E i \in 1 .. n : /\ d.table[b] = t[i]
                                          /\ hash_key(d.node[t[i]].key) = b
      BY DEF BucketsHold
    <3>1. PICK a \in 1 .. n : c.table[b] = s[a] /\ hash_key(c.node[s[a]].key) = b
      BY <1>0, <2>4 DEF BucketsHold
    <3>2. PICK i \in 1 .. n : s[a] = t[i]
      BY <1>3
    <3>3. d.node[s[a]].key = c.node[s[a]].key
      BY <2>0, <2>4
    <3> QED
      BY <2>4, <3>1, <3>2, <3>3
  <2>13. Listed(d, n, t)
    BY <1>3, <2>5, <2>9, <2>10, <2>11, <2>12 DEF Listed
  <2> QED
    BY <2>4, <2>13 DEF d, t, m
<1> QED
  BY <1>4, <1>5

(* Entries moved up by one, and a new one before them.                     *)
LEMMA PushedFacts ==
  ASSUME NEW n \in Nat, NEW L, NEW s \in [1 .. n -> L], Distinct(n, s),
         NEW x, x \notin L, NEW l \in Nat, l <= n + 1
  PROVE  /\ Pushed(l, s, x) \in [1 .. l -> L \cup {x}]
         /\ l > 0 => Pushed(l, s, x)[1] = x
         /\ \A i \in 1 .. l : i > 1 => i - 1 \in 1 .. n /\ Pushed(l, s, x)[i] = s[i - 1]
         /\ Distinct(l, Pushed(l, s, x))
<1> DEFINE t == Pushed(l, s, x)
<1>1. \A i \in 1 .. l : i > 1 => i - 1 \in 1 .. n
  OBVIOUS
<1>2. \A i \in 1 .. l : /\ i = 1 => t[i] = x
                        /\ i > 1 => t[i] = s[i - 1]
  BY DEF Pushed
<1>3. t \in [1 .. l -> L \cup {x}]
  <2>1. \A i \in 1 .. l : (IF i = 1 THEN x ELSE s[i - 1]) \in L \cup {x}
    BY <1>1
  <2> QED
    BY <2>1 DEF Pushed
<1> HIDE DEF t
<1>4. Distinct(l, t)
  <2> SUFFICES ASSUME NEW a \in 1 .. l, NEW b \in 1 .. l, t[a] = t[b]
               PROVE  a = b
    BY DEF Distinct
  <2>1. \A h, i \in 1 .. n : s[h] = s[i] => h = i
    BY DEF Distinct
  <2>2. \A i \in 1 .. l : i = 1 \/ i > 1
    OBVIOUS
  <2>3. CASE a = 1
    BY <1>1, <1>2, <2>2, <2>3
  <2>4. CASE a > 1
    BY <1>1, <1>2, <2>1, <2>2, <2>4
  <2> QED
    BY <2>2, <2>3, <2>4
<1> QED
  BY <1>1, <1>2, <1>3, <1>4 DEF t

(* A new entry in an empty bucket comes before the others.                 *)
LEMMA InsertListed ==
  ASSUME NEW c \in CacheTypes, NEW n \in Nat, NEW L \in SUBSET Nodes,
         NEW s \in [1 .. n -> L], Listed(c, n, s), NEW x \in Nodes \ L,
         NEW k \in Keys, NEW v \in Values \cup {NULL}, c.table[hash_key(k)] = NULL
  PROVE  Listed(NewEntry(c, x, k, v), n + 1, Pushed(n + 1, s, x))
<1> DEFINE e == NewEntry(c, x, k, v)
           t == Pushed(n + 1, s, x)
<1>0. /\ Distinct(n, s) /\ Ends(c, n, s) /\ Backward(c, n, s) /\ Forward(c, n, s)
      /\ InBuckets(c, n, s) /\ BucketsHold(c, n, s)
  BY DEF Listed
<1>1. /\ n + 1 \in Nat /\ n + 1 <= n + 1 /\ n + 1 > 0 /\ x \notin L
      /\ NULL \notin Nodes /\ hash_key(k) \in Buckets
      /\ \A i \in 1 .. n : s[i] \in Nodes /\ s[i] # NULL /\ s[i] # x
  BY CacheFacts
<1>2. /\ t[1] = x
      /\ \A i \in 1 .. n + 1 : i > 1 => i - 1 \in 1 .. n /\ t[i] = s[i - 1]
      /\ Distinct(n + 1, t)
  <2> DEFINE l == n + 1
  <2>1. l \in Nat /\ l <= n + 1 /\ l > 0
    BY <1>1
  <2> HIDE DEF l
  <2>2. /\ Pushed(l, s, x) \in [1 .. l -> L \cup {x}]
        /\ l > 0 => Pushed(l, s, x)[1] = x
        /\ \A i \in 1 .. l : i > 1 => i - 1 \in 1 .. n /\ Pushed(l, s, x)[i] = s[i - 1]
        /\ Distinct(l, Pushed(l, s, x))
    BY <1>0, <2>1, PushedFacts
  <2> QED
    BY <2>1, <2>2 DEF l
<1>3. c.head # x
  <2>1. n = 0 \/ 1 \in 1 .. n
    OBVIOUS
  <2> QED
    BY <1>0, <1>1, <2>1 DEF Ends
<1>4. /\ e.head = x /\ e.tail = (IF c.tail = NULL THEN x ELSE c.tail)
      /\ e.node[x].key = k /\ e.node[x].prev = NULL /\ e.node[x].next = NULL
      /\ \A m \in Nodes : m # x =>
           /\ e.node[m].key = c.node[m].key
           /\ e.node[m].next = c.node[m].next
           /\ e.node[m].prev = IF m = c.head THEN x ELSE c.node[m].prev
      /\ e.table[hash_key(k)] = x
      /\ \A b \in Buckets : b # hash_key(k) => e.table[b] = c.table[b]
  BY <1>3, NewEntryFacts
<1> HIDE DEF e, t
<1>5. Ends(e, n + 1, t)
  <2>1. CASE n = 0
    BY <1>0, <1>1, <1>2, <1>4, <2>1 DEF Ends
  <2>2. CASE n > 0
    <3>1. n \in 1 .. n /\ c.tail = s[n] /\ c.tail # NULL
      BY <1>0, <1>1, <2>2 DEF Ends
    <3>2. n + 1 \in 1 .. n + 1 /\ n + 1 > 1 /\ (n + 1) - 1 = n
      BY <2>2
    <3>3. t[n + 1] = s[n]
      BY <1>2, <3>2
    <3> QED
      BY <1>1, <1>2, <1>4, <3>1, <3>3 DEF Ends
  <2> QED
    BY <2>1, <2>2
<1>6. Backward(e, n + 1, t)
  <2> SUFFICES ASSUME NEW i \in 1 .. n + 1
               PROVE  /\ i = 1 => e.node[t[i]].prev = NULL
                      /\ i > 1 => e.node[t[i]].prev = t[i - 1]
    BY DEF Backward
  <2>1. CASE i = 1
    BY <1>2, <1>4, <2>1
  <2>2. CASE i > 1
    <3>1. i - 1 \in 1 .. n /\ t[i] = s[i - 1]
      BY <1>2, <2>2
    <3>2. s[i - 1] \in Nodes /\ s[i - 1] # x
      BY <1>1, <3>1
    <3>3. CASE i = 2
      <4>1. s[i - 1] = c.head /\ t[i - 1] = x
        BY <1>0, <1>2, <3>1, <3>3 DEF Ends
      <4> QED
        BY <1>4, <3>1, <3>2, <3>3, <4>1
    <3>4. CASE i > 2
      <4>1. i - 1 > 1 /\ i - 1 \in 1 .. n + 1 /\ 1 \in 1 .. n /\ i - 1 # 1
        BY <3>4
      <4>2. t[i - 1] = s[(i - 1) - 1]
        BY <1>2, <4>1
      <4>3. s[i - 1] # c.head
        BY <1>0, <3>1, <4>1 DEF Ends, Distinct
      <4>4. c.node[s[i - 1]].prev = s[(i - 1) - 1]
        BY <1>0, <3>1, <4>1 DEF Backward
      <4> QED
        BY <1>4, <3>1, <3>2, <3>4, <4>2, <4>3, <4>4
    <3> QED
      BY <2>2, <3>3, <3>4
  <2>3. i = 1 \/ i > 1
    OBVIOUS
  <2> QED
    BY <2>1, <2>2, <2>3
<1>7. Forward(e, n + 1, t)
  <2> SUFFICES ASSUME NEW i \in 1 .. n + 1
               PROVE  \/ e.node[t[i]].next = NULL
                      \/ i < n + 1 /\ e.node[t[i]].next = t[i + 1]
    BY DEF Forward
  <2>1. CASE i = 1
    BY <1>2, <1>4, <2>1
  <2>2. CASE i > 1
    <3>1. i - 1 \in 1 .. n /\ t[i] = s[i - 1]
      BY <1>2, <2>2
    <3>2. e.node[s[i - 1]].next = c.node[s[i - 1]].next
      BY <1>1, <1>4, <3>1
    <3>3. \/ c.node[s[i - 1]].next = NULL
          \/ i - 1 < n /\ c.node[s[i - 1]].next = s[(i - 1) + 1]
      BY <1>0, <3>1 DEF Forward
    <3>4. i - 1 < n => i < n + 1 /\ i + 1 \in 1 .. n + 1 /\ i + 1 > 1
      OBVIOUS
    <3>5. i - 1 < n => t[i + 1] = s[(i + 1) - 1]
      BY <1>2, <3>4
    <3>6. (i - 1) + 1 = i /\ (i + 1) - 1 = i
      OBVIOUS
    <3> QED
      BY <3>1, <3>2, <3>3, <3>4, <3>5, <3>6
  <2>3. i = 1 \/ i > 1
    OBVIOUS
  <2> QED
    BY <2>1, <2>2, <2>3
<1>8. InBuckets(e, n + 1, t)
  <2> SUFFICES ASSUME NEW i \in 1 .. n + 1
               PROVE  /\ e.node[t[i]].key \in Keys
                      /\ e.table[hash_key(e.node[t[i]].key)] = t[i]
    BY DEF InBuckets
  <2>1. CASE i = 1
    BY <1>2, <1>4, <2>1
  <2>2. CASE i > 1
    <3>1. i - 1 \in 1 .. n /\ t[i] = s[i - 1]
      BY <1>2, <2>2
    <3> DEFINE y == s[i - 1]
    <3>2. /\ y \in Nodes /\ y # NULL /\ y # x /\ c.node[y].key \in Keys
          /\ c.table[hash_key(c.node[y].key)] = y
      BY <1>0, <1>1, <3>1 DEF InBuckets
    <3>3. hash_key(c.node[y].key) # hash_key(k) /\ hash_key(c.node[y].key) \in Buckets
      BY <3>2, CacheFacts
    <3> HIDE DEF y
    <3>4. e.node[y].key = c.node[y].key
      BY <1>4, <3>2
    <3> QED
      BY <1>4, <3>1, <3>2, <3>3, <3>4 DEF y
  <2>3. i = 1 \/ i > 1
    OBVIOUS
  <2> QED
    BY <2>1, <2>2, <2>3
<1>9. BucketsHold(e, n + 1, t)
  <2> SUFFICES ASSUME NEW b \in Buckets, e.table[b] # NULL
               PROVE  \E i \in 1 .. n + 1 : /\ e.table[b] = t[i]
                                            /\ hash_key(e.node[t[i]].key) = b
    BY DEF BucketsHold
  <2>1. CASE b = hash_key(k)
    <3>1. 1 \in 1 .. n + 1
      OBVIOUS
    <3> QED
      BY <1>2, <1>4, <2>1, <3>1
  <2>2. CASE b # hash_key(k)
    <3>1. PICK a \in 1 .. n : c.table[b] = s[a] /\ hash_key(c.node[s[a]].key) = b
      BY <1>0, <1>4, <2>2 DEF BucketsHold
    <3>2. a + 1 \in 1 .. n + 1 /\ a + 1 > 1 /\ (a + 1) - 1 = a
      OBVIOUS
    <3>3. t[a + 1] = s[a]
      BY <1>2, <3>2
    <3>4. e.node[s[a]].key = c.node[s[a]].key
      BY <1>1, <1>4
    <3> QED
      BY <1>4, <2>2, <3>1, <3>2, <3>3, <3>4
  <2> QED
    BY <2>1, <2>2
<1>10. Listed(e, n + 1, t)
  BY <1>2, <1>5, <1>6, <1>7, <1>8, <1>9 DEF Listed
<1> QED
  BY <1>10 DEF e, t

(* The last entry is evicted and the others stay in their places.          *)
LEMMA EvictListed ==
  ASSUME NEW c \in CacheTypes, NEW n \in Nat, n > 0, NEW L \in SUBSET Nodes,
         NEW s \in [1 .. n + 1 -> L], Listed(c, n + 1, s),
         NEW t, \A i \in 1 .. n : t[i] = s[i]
  PROVE  /\ evict_lru(c) \in CacheTypes
         /\ Listed(evict_lru(c), n, t)
         /\ \A y \in Nodes : y # s[n + 1] =>
              /\ evict_lru(c).node[y].key = c.node[y].key
              /\ evict_lru(c).node[y].value = c.node[y].value
<1> DEFINE d == evict_lru(c)
           z == s[n + 1]
           p == s[n]
           u == hash_key(c.node[z].key)
<1>0. /\ Distinct(n + 1, s) /\ Ends(c, n + 1, s) /\ Backward(c, n + 1, s)
      /\ Forward(c, n + 1, s) /\ InBuckets(c, n + 1, s) /\ BucketsHold(c, n + 1, s)
  BY DEF Listed
<1>1. /\ n \in 1 .. n + 1 /\ n + 1 \in 1 .. n + 1 /\ n + 1 > 1 /\ (n + 1) - 1 = n
      /\ n + 1 > 0 /\ n # n + 1 /\ n \in 1 .. n
      /\ \A i \in 1 .. n : i \in 1 .. n + 1 /\ i # n + 1
      /\ \A i \in 1 .. n + 1 : i # n + 1 => i \in 1 .. n
      /\ NULL \notin Nodes
      /\ \A i \in 1 .. n + 1 : s[i] \in Nodes /\ s[i] # NULL
  BY CacheFacts
<1>2. /\ z \in Nodes /\ p \in Nodes /\ p # z /\ c.tail = z /\ c.node[z].prev = p
      /\ c.node[z].key \in Keys /\ c.table[u] = z
      /\ \A i \in 1 .. n : s[i] # z
  <2>1. p # z /\ \A i \in 1 .. n : s[i] # z
    BY <1>0, <1>1 DEF Distinct
  <2>2. c.tail = z
    BY <1>0, <1>1 DEF Ends
  <2>3. c.node[z].prev = p
    BY <1>0, <1>1 DEF Backward
  <2>4. c.node[z].key \in Keys /\ c.table[u] = z
    BY <1>0, <1>1 DEF InBuckets
  <2> QED
    BY <1>1, <2>1, <2>2, <2>3, <2>4
<1>3. c.node[z].next = NULL
  BY <1>0, <1>1 DEF Forward
<1> HIDE DEF z, p
<1>4. /\ d \in CacheTypes /\ d.head = c.head /\ d.tail = p
      /\ d.node[p].next = NULL /\ d.node[p].prev = c.node[p].prev
      /\ \A m \in Nodes : m # z =>
           /\ d.node[m].key = c.node[m].key
           /\ d.node[m].value = c.node[m].value
           /\ m # p => d.node[m] = c.node[m]
      /\ d.table[u] = c.node[z].next
      /\ \A b \in Buckets : b # u => d.table[b] = c.table[b]
  BY <1>2, EvictFacts
<1> HIDE DEF d
<1>5. Distinct(n, t)
  BY <1>0, <1>1 DEF Distinct
<1>6. Ends(d, n, t)
  <2>1. 1 \in 1 .. n /\ n # 0
    OBVIOUS
  <2>2. t[1] = s[1] /\ t[n] = s[n]
    BY <1>1, <2>1
  <2> QED
    BY <1>0, <1>1, <1>4, <2>1, <2>2 DEF Ends, p
<1>7. Backward(d, n, t)
  <2> SUFFICES ASSUME NEW i \in 1 .. n
               PROVE  /\ i = 1 => d.node[t[i]].prev = NULL
                      /\ i > 1 => d.node[t[i]].prev = t[i - 1]
    BY DEF Backward
  <2>1. t[i] = s[i] /\ i \in 1 .. n + 1 /\ s[i] \in Nodes /\ s[i] # z
    BY <1>1, <1>2
  <2>2. i > 1 => i - 1 \in 1 .. n
    OBVIOUS
  <2>3. i > 1 => t[i - 1] = s[i - 1]
    BY <2>2
  <2>4. d.node[s[i]].prev = c.node[s[i]].prev
    BY <1>4, <2>1
  <2>5. /\ i = 1 => c.node[s[i]].prev = NULL
        /\ i > 1 => c.node[s[i]].prev = s[i - 1]
    BY <1>0, <2>1 DEF Backward
  <2> QED
    BY <2>1, <2>3, <2>4, <2>5
<1>8. Forward(d, n, t)
  <2> SUFFICES ASSUME NEW i \in 1 .. n
               PROVE  \/ d.node[t[i]].next = NULL
                      \/ i < n /\ d.node[t[i]].next = t[i + 1]
    BY DEF Forward
  <2>1. t[i] = s[i] /\ i \in 1 .. n + 1 /\ s[i] \in Nodes /\ s[i] # z
    BY <1>1, <1>2
  <2>2. CASE i = n
    BY <1>4, <2>1, <2>2 DEF p
  <2>3. CASE i # n
    <3>1. i < n /\ i + 1 \in 1 .. n
      BY <2>3
    <3>2. t[i + 1] = s[i + 1]
      BY <3>1
    <3>3. s[i] # p
      BY <1>0, <1>1, <2>1, <2>3 DEF Distinct, p
    <3>4. d.node[s[i]] = c.node[s[i]]
      BY <1>4, <2>1, <3>3
    <3>5. c.node[s[i]].next = NULL \/ c.node[s[i]].next = s[i + 1]
      BY <1>0, <2>1 DEF Forward
    <3> QED
      BY <2>1, <3>1, <3>2, <3>4, <3>5
  <2> QED
    BY <2>2, <2>3
<1>9. InBuckets(d, n, t)
  <2> SUFFICES ASSUME NEW i \in 1 .. n
               PROVE  /\ d.node[t[i]].key \in Keys
                      /\ d.table[hash_key(d.node[t[i]].key)] = t[i]
    BY DEF InBuckets
  <2>1. t[i] = s[i] /\ i \in 1 .. n + 1 /\ s[i] \in Nodes /\ s[i] # z
    BY <1>1, <1>2
  <2>2. c.node[s[i]].key \in Keys /\ c.table[hash_key(c.node[s[i]].key)] = s[i]
    BY <1>0, <2>1 DEF InBuckets
  <2>3. hash_key(c.node[s[i]].key) # u /\ hash_key(c.node[s[i]].key) \in Buckets
    BY <1>2, <2>1, <2>2, CacheFacts
  <2>4. d.node[s[i]].key = c.node[s[i]].key
    BY <1>4, <2>1
  <2> HIDE DEF u
  <2> QED
    BY <1>4, <2>1, <2>2, <2>3, <2>4
<1>10. BucketsHold(d, n, t)
  <2> SUFFICES ASSUME NEW b \in Buckets, d.table[b] # NULL
               PROVE  \E i \in 1 .. n : /\ d.table[b] = t[i]
                                        /\ hash_key(d.node[t[i]].key) = b
    BY DEF BucketsHold
  <2>1. b # u
    BY <1>3, <1>4
  <2>2. d.table[b] = c.table[b]
    BY <1>4, <2>1
  <2>3. PICK a \in 1 .. n + 1 : c.table[b] = s[a] /\ hash_key(c.node[s[a]].key) = b
    BY <1>0, <2>2 DEF BucketsHold
  <2>4. a # n + 1
    BY <2>1, <2>3 DEF z
  <2>5. a \in 1 .. n /\ t[a] = s[a] /\ s[a] \in Nodes /\ s[a] # z
    BY <1>1, <1>2, <2>4
  <2>6. d.node[s[a]].key = c.node[s[a]].key
    BY <1>4, <2>5
  <2> QED
    BY <2>2, <2>3, <2>5, <2>6
<1>11. Listed(d, n, t)
  BY <1>5, <1>6, <1>7, <1>8, <1>9, <1>10 DEF Listed
<1>12. \A y \in Nodes : y # z =>
         d.node[y].key = c.node[y].key /\ d.node[y].value = c.node[y].value
  BY <1>4
<1> QED
  BY <1>4, <1>11, <1>12 DEF d, z

(* The last of n entries when a new one, x, has been put before them.      *)
LastIs(c, e, n, s, x, k) ==
  /\ c.head # x /\ c.head = s[1] /\ c.tail = s[n] /\ c.tail # NULL
  /\ e.tail = s[n]
  /\ n = 1 => e.node[s[n]].prev = x
  /\ n > 1 => e.node[s[n]].prev = s[n - 1]
  /\ e.node[s[n]].key = c.node[s[n]].key
  /\ c.node[s[n]].key \in Keys
  /\ c.table[hash_key(c.node[s[n]].key)] = s[n]
  /\ e.node[s[n]].next = NULL
  /\ c.table[hash_key(k)] = s[n] => hash_key(c.node[s[n]].key) = hash_key(k)

(* What a new entry leaves of a list.                                      *)
LEMMA NewEntryLast ==
  ASSUME NEW c \in CacheTypes, NEW n \in Nat, n > 0, NEW L \in SUBSET Nodes,
         NEW s \in [1 .. n -> L], Listed(c, n, s), NEW x \in Nodes \ L,
         NEW k \in Keys, NEW v \in Values \cup {NULL}
  PROVE  /\ NewEntry(c, x, k, v) \in CacheTypes
         /\ LastIs(c, NewEntry(c, x, k, v), n, s, x, k)
<1> DEFINE e == NewEntry(c, x, k, v)
           z == s[n]
<1>0. /\ Distinct(n, s) /\ Ends(c, n, s) /\ Backward(c, n, s) /\ Forward(c, n, s)
      /\ InBuckets(c, n, s) /\ BucketsHold(c, n, s)
  BY DEF Listed
<1>1. /\ NULL \notin Nodes /\ hash_key(k) \in Buckets /\ n \in 1 .. n /\ 1 \in 1 .. n
      /\ \A i \in 1 .. n : s[i] \in Nodes /\ s[i] # NULL /\ s[i] # x
  BY CacheFacts
<1>2. c.head = s[1] /\ c.tail = z /\ c.head # x /\ c.tail # NULL
  BY <1>0, <1>1 DEF Ends
<1>3. /\ e \in CacheTypes /\ e.tail = (IF c.tail = NULL THEN x ELSE c.tail)
      /\ \A m \in Nodes : m # x =>
           /\ e.node[m].key = c.node[m].key
           /\ e.node[m].next = c.node[m].next
           /\ e.node[m].prev = IF m = c.head THEN x ELSE c.node[m].prev
  BY <1>2, NewEntryFacts
<1> HIDE DEF e
<1>4. c.node[z].key \in Keys /\ c.table[hash_key(c.node[z].key)] = z
  BY <1>0, <1>1 DEF InBuckets
<1>5. c.node[z].next = NULL
  BY <1>0, <1>1 DEF Forward
<1>6. ASSUME c.table[hash_key(k)] = z PROVE hash_key(c.node[z].key) = hash_key(k)
  <2>1. PICK i \in 1 .. n : /\ c.table[hash_key(k)] = s[i]
                            /\ hash_key(c.node[s[i]].key) = hash_key(k)
    BY <1>0, <1>1, <1>6 DEF BucketsHold
  <2> QED
    BY <1>6, <2>1
<1>7. /\ n = 1 => e.node[z].prev = x
      /\ n > 1 => e.node[z].prev = s[n - 1]
  <2>1. n > 1 => z # s[1]
    BY <1>0, <1>1 DEF Distinct
  <2>2. n > 1 => c.node[z].prev = s[n - 1]
    BY <1>0, <1>1 DEF Backward
  <2>3. z \in Nodes /\ z # x
    BY <1>1
  <2>4. e.node[z].prev = IF z = c.head THEN x ELSE c.node[z].prev
    BY <1>3, <2>3
  <2> QED
    BY <1>2, <2>1, <2>2, <2>4
<1>8. z \in Nodes /\ z # x /\ e.tail = z
  BY <1>1, <1>2, <1>3
<1>9. e.node[z].key = c.node[z].key /\ e.node[z].next = NULL
  BY <1>3, <1>5, <1>8
<1> QED
  BY <1>2, <1>3, <1>4, <1>6, <1>7, <1>8, <1>9 DEF e, LastIs

(* The keys and values of all nodes but z.                                 *)
SameData(d, e, z) ==
  \A y \in Nodes : y # z => /\ d.node[y].key = e.node[y].key
                           /\ d.node[y].value = e.node[y].value

(* The entry that a new one evicts may have been in the bucket of the new  *)
(* one.                                                                    *)
LEMMA ReplaceListed ==
  ASSUME NEW c \in CacheTypes, NEW n \in Nat, n > 0, NEW L \in SUBSET Nodes,
         NEW s \in [1 .. n -> L], Listed(c, n, s), NEW x \in Nodes \ L,
         NEW k \in Keys, NEW v \in Values \cup {NULL},
         c.table[hash_key(k)] = s[n]
  PROVE  /\ Removable(OffList(NewEntry(c, x, k, v)), s[n], {x})
         /\ evict_lru(NewEntry(c, x, k, v)) \in CacheTypes
         /\ Listed(evict_lru(NewEntry(c, x, k, v)), n, Pushed(n, s, x))
         /\ SameData(evict_lru(NewEntry(c, x, k, v)), NewEntry(c, x, k, v), s[n])
<1> DEFINE e == NewEntry(c, x, k, v)
           z == s[n]
           p == e.node[z].prev
           b0 == hash_key(k)
           d == evict_lru(e)
           t == Pushed(n, s, x)
<1>0. /\ Distinct(n, s) /\ Ends(c, n, s) /\ Backward(c, n, s) /\ Forward(c, n, s)
      /\ InBuckets(c, n, s) /\ BucketsHold(c, n, s)
  BY DEF Listed
<1>1. /\ NULL \notin Nodes /\ b0 \in Buckets /\ n \in 1 .. n /\ 1 \in 1 .. n
      /\ \A i \in 1 .. n : s[i] \in Nodes /\ s[i] # NULL /\ s[i] # x
      /\ z \in Nodes /\ z # x /\ z # NULL
  BY CacheFacts
<1>2. /\ e \in CacheTypes
      /\ c.head # x /\ c.head = s[1] /\ c.tail = z /\ c.tail # NULL
      /\ e.tail = z
      /\ n = 1 => p = x
      /\ n > 1 => p = s[n - 1]
      /\ e.node[z].key = c.node[z].key
      /\ c.node[z].key \in Keys
      /\ c.table[hash_key(c.node[z].key)] = z
      /\ e.node[z].next = NULL
      /\ c.table[hash_key(k)] = z => hash_key(c.node[z].key) = hash_key(k)
  <2>1. e \in CacheTypes /\ LastIs(c, e, n, s, x, k)
    BY NewEntryLast
  <2> QED
    BY <2>1, Zenon DEF LastIs
<1>3. /\ e.head = x
      /\ e.node[x].key = k /\ e.node[x].prev = NULL
      /\ e.node[x].next = c.table[b0]
      /\ \A m \in Nodes : m # x =>
           /\ e.node[m].key = c.node[m].key
           /\ e.node[m].next = c.node[m].next
           /\ e.node[m].prev = IF m = c.head THEN x ELSE c.node[m].prev
      /\ e.table[b0] = x
      /\ \A b \in Buckets : b # b0 => e.table[b] = c.table[b]
  BY <1>2, NewEntryFacts
<1>4. /\ t[1] = x
      /\ \A i \in 1 .. n : i > 1 => i - 1 \in 1 .. n /\ t[i] = s[i - 1]
      /\ Distinct(n, t)
  <2>1. n <= n + 1 /\ x \notin L
    OBVIOUS
  <2>2. /\ Pushed(n, s, x) \in [1 .. n -> L \cup {x}]
        /\ n > 0 => Pushed(n, s, x)[1] = x
        /\ \A i \in 1 .. n : i > 1 => i - 1 \in 1 .. n /\ Pushed(n, s, x)[i] = s[i - 1]
        /\ Distinct(n, Pushed(n, s, x))
    BY <1>0, <2>1, PushedFacts
  <2> QED
    BY <2>2
<1> HIDE DEF e, t, b0
<1>5. /\ p \in Nodes /\ p # z
      /\ \A i \in 1 .. n : (s[i] = z <=> i = n) /\ (n > 1 => (s[i] = p <=> i = n - 1))
  <2>1. n > 1 => n - 1 \in 1 .. n /\ n - 1 # n
    OBVIOUS
  <2>2. \A i \in 1 .. n : s[i] = z <=> i = n
    BY <1>0, <1>1 DEF Distinct
  <2>3. n > 1 => \A i \in 1 .. n : s[i] = p <=> i = n - 1
    BY <1>0, <1>2, <2>1 DEF Distinct
  <2>4. n = 1 \/ n > 1
    OBVIOUS
  <2> QED
    BY <1>1, <1>2, <2>1, <2>2, <2>3, <2>4
<1> HIDE DEF z
<1>6. c.table[b0] = z
  BY DEF b0, z
<1>7. e.table[hash_key(e.node[z].key)] = x /\ e.node[x].next = z
      /\ hash_key(c.node[z].key) = b0
  BY <1>2, <1>3, <1>6 DEF b0
<1>8. /\ Removable(OffList(e), z, {x})
      /\ d \in CacheTypes
      /\ d.head = e.head /\ d.tail = p
      /\ d.table = e.table
      /\ d.node[p].next = NULL
      /\ d.node[x].next = NULL
      /\ \A y \in Nodes : y # z =>
           /\ d.node[y].key = e.node[y].key
           /\ d.node[y].value = e.node[y].value
           /\ d.node[y].prev = e.node[y].prev
           /\ y # p /\ y # x => d.node[y].next = e.node[y].next
  <2>1. /\ e \in CacheTypes /\ x \in Nodes /\ p \in Nodes /\ z \in Nodes
        /\ p # z /\ x # z /\ e.tail = z /\ e.node[z].prev = p
        /\ e.node[z].key \in Keys /\ e.table[hash_key(e.node[z].key)] = x
        /\ e.node[x].next = z /\ e.node[z].next = NULL
    BY <1>1, <1>2, <1>5, <1>7
  <2> HIDE DEF p
  <2> QED
    BY <2>1, EvictBehind, SMTT(30)
<1> HIDE DEF d, p
<1>9. Ends(d, n, t)
  <2>1. CASE n = 1
    BY <1>2, <1>3, <1>4, <1>8, <2>1 DEF Ends
  <2>2. CASE n > 1
    <3>1. t[n] = s[n - 1]
      BY <1>1, <1>4, <2>2
    <3> QED
      BY <1>2, <1>3, <1>4, <1>8, <2>2, <3>1 DEF Ends
  <2> QED
    BY <2>1, <2>2
<1>10. Backward(d, n, t)
  <2> SUFFICES ASSUME NEW i \in 1 .. n
               PROVE  /\ i = 1 => d.node[t[i]].prev = NULL
                      /\ i > 1 => d.node[t[i]].prev = t[i - 1]
    BY DEF Backward
  <2>1. CASE i = 1
    BY <1>1, <1>3, <1>4, <1>8, <2>1
  <2>2. CASE i > 1
    <3>1. i - 1 \in 1 .. n /\ t[i] = s[i - 1] /\ i - 1 # n
      BY <1>4, <2>2
    <3>2. s[i - 1] \in Nodes /\ s[i - 1] # x /\ s[i - 1] # z
      BY <1>1, <1>5, <3>1
    <3>3. d.node[s[i - 1]].prev
            = IF s[i - 1] = c.head THEN x ELSE c.node[s[i - 1]].prev
      BY <1>3, <1>8, <3>2
    <3>4. CASE i = 2
      <4>1. s[i - 1] = c.head /\ t[i - 1] = x
        BY <1>2, <1>4, <3>4
      <4> QED
        BY <3>1, <3>3, <3>4, <4>1
    <3>5. CASE i > 2
      <4>1. i - 1 > 1 /\ i - 1 # 1
        BY <3>5
      <4>2. t[i - 1] = s[(i - 1) - 1]
        BY <1>4, <3>1, <4>1
      <4>3. s[i - 1] # c.head
        BY <1>0, <1>1, <1>2, <3>1, <4>1 DEF Distinct
      <4>4. c.node[s[i - 1]].prev = s[(i - 1) - 1]
        BY <1>0, <3>1, <4>1 DEF Backward
      <4> QED
        BY <3>1, <3>3, <3>5, <4>2, <4>3, <4>4
    <3> QED
      BY <2>2, <3>4, <3>5
  <2>3. i = 1 \/ i > 1
    OBVIOUS
  <2> QED
    BY <2>1, <2>2, <2>3
<1>11. Forward(d, n, t)
  <2> SUFFICES ASSUME NEW i \in 1 .. n
               PROVE  \/ d.node[t[i]].next = NULL
                      \/ i < n /\ d.node[t[i]].next = t[i + 1]
    BY DEF Forward
  <2>1. CASE i = 1
    BY <1>4, <1>8, <2>1
  <2>2. CASE i > 1 /\ i = n
    <3>1. t[i] = p
      BY <1>2, <1>4, <2>2
    <3> QED
      BY <1>8, <3>1
  <2>3. CASE i > 1 /\ i < n
    <3>0. i - 1 \in 1 .. n /\ i - 1 # n /\ i - 1 # n - 1 /\ n > 1
          /\ (i - 1) + 1 = i /\ i + 1 \in 1 .. n /\ i + 1 > 1 /\ (i + 1) - 1 = i
      BY <2>3
    <3>1. i - 1 \in 1 .. n /\ t[i] = s[i - 1] /\ i - 1 # n /\ i - 1 # n - 1 /\ n > 1
          /\ (i - 1) + 1 = i /\ i + 1 \in 1 .. n /\ i + 1 > 1 /\ (i + 1) - 1 = i
      BY <1>4, <2>3, <3>0
    <3>2. s[i - 1] \in Nodes /\ s[i - 1] # x /\ s[i - 1] # z /\ s[i - 1] # p
      BY <1>1, <1>5, <3>1
    <3>3. d.node[s[i - 1]].next = c.node[s[i - 1]].next
      BY <1>3, <1>8, <3>2
    <3>4. c.node[s[i - 1]].next = NULL \/ c.node[s[i - 1]].next = s[i]
      BY <1>0, <3>1 DEF Forward
    <3>5. t[i + 1] = s[i]
      BY <1>4, <3>1
    <3> QED
      BY <2>3, <3>1, <3>3, <3>4, <3>5
  <2>4. i = 1 \/ (i > 1 /\ i = n) \/ (i > 1 /\ i < n)
    OBVIOUS
  <2> QED
    BY <2>1, <2>2, <2>3, <2>4
<1>12. InBuckets(d, n, t)
  <2> SUFFICES ASSUME NEW i \in 1 .. n
               PROVE  /\ d.node[t[i]].key \in Keys
                      /\ d.table[hash_key(d.node[t[i]].key)] = t[i]
    BY DEF InBuckets
  <2>1. CASE i = 1
    <3>1. d.node[x].key = k
      BY <1>1, <1>3, <1>8
    <3> QED
      BY <1>3, <1>4, <1>8, <2>1, <3>1 DEF b0
  <2>2. CASE i > 1
    <3>1. i - 1 \in 1 .. n /\ t[i] = s[i - 1] /\ i - 1 # n
      BY <1>4, <2>2
    <3> DEFINE y == s[i - 1]
    <3>2. y \in Nodes /\ y # x /\ y # z
      BY <1>1, <1>5, <3>1
    <3>3. c.node[y].key \in Keys /\ c.table[hash_key(c.node[y].key)] = y
      BY <1>0, <3>1 DEF InBuckets
    <3> HIDE DEF y
    <3>4. hash_key(c.node[y].key) # b0 /\ hash_key(c.node[y].key) \in Buckets
      BY <1>6, <3>2, <3>3, CacheFacts
    <3>5. d.node[y].key = c.node[y].key
      BY <1>3, <1>8, <3>2
    <3> QED
      BY <1>3, <1>8, <3>1, <3>3, <3>4, <3>5 DEF y
  <2>3. i = 1 \/ i > 1
    OBVIOUS
  <2> QED
    BY <2>1, <2>2, <2>3
<1>13. BucketsHold(d, n, t)
  <2> SUFFICES ASSUME NEW b \in Buckets, d.table[b] # NULL
               PROVE  \E i \in 1 .. n : /\ d.table[b] = t[i]
                                        /\ hash_key(d.node[t[i]].key) = b
    BY DEF BucketsHold
  <2>1. CASE b = b0
    <3>1. d.node[x].key = k
      BY <1>1, <1>3, <1>8
    <3> QED
      BY <1>1, <1>3, <1>4, <1>8, <2>1, <3>1 DEF b0
  <2>2. CASE b # b0
    <3>1. PICK a \in 1 .. n : c.table[b] = s[a] /\ hash_key(c.node[s[a]].key) = b
      BY <1>0, <1>3, <1>8, <2>2 DEF BucketsHold
    <3>2. a # n /\ s[a] # z /\ s[a] \in Nodes /\ s[a] # x
      BY <1>1, <1>5, <1>7, <2>2, <3>1
    <3>3. a + 1 \in 1 .. n /\ a + 1 > 1 /\ (a + 1) - 1 = a
      BY <3>2
    <3>4. t[a + 1] = s[a]
      BY <1>4, <3>3
    <3>5. d.node[s[a]].key = c.node[s[a]].key
      BY <1>3, <1>8, <3>2
    <3> QED
      BY <1>3, <1>8, <2>2, <3>1, <3>3, <3>4, <3>5
  <2> QED
    BY <2>1, <2>2
<1>14. Listed(d, n, t)
  BY <1>4, <1>9, <1>10, <1>11, <1>12, <1>13 DEF Listed
<1>15. \A y \in Nodes : y # z =>
         d.node[y].key = e.node[y].key /\ d.node[y].value = e.node[y].value
  BY <1>8
<1> QED
  BY <1>8, <1>14, <1>15 DEF d, t, e, z, SameData

(* A new entry and an eviction: the new one first and the last one gone.   *)
LEMMA PutListed ==
  ASSUME NEW c \in CacheTypes, NEW n \in Nat, n > 0, NEW L \in SUBSET Nodes,
         NEW s \in [1 .. n -> L], Listed(c, n, s), NEW x \in Nodes \ L,
         NEW k \in Keys, NEW v \in Values \cup {NULL},
         c.table[hash_key(k)] = NULL \/ c.table[hash_key(k)] = s[n]
  PROVE  /\ evict_lru(NewEntry(c, x, k, v)) \in CacheTypes
         /\ Listed(evict_lru(NewEntry(c, x, k, v)), n, Pushed(n, s, x))
         /\ SameData(evict_lru(NewEntry(c, x, k, v)), NewEntry(c, x, k, v), s[n])
<1>1. CASE c.table[hash_key(k)] = s[n]
  <2>1. /\ Removable(OffList(NewEntry(c, x, k, v)), s[n], {x})
        /\ evict_lru(NewEntry(c, x, k, v)) \in CacheTypes
        /\ Listed(evict_lru(NewEntry(c, x, k, v)), n, Pushed(n, s, x))
        /\ SameData(evict_lru(NewEntry(c, x, k, v)), NewEntry(c, x, k, v), s[n])
    BY <1>1, ReplaceListed
  <2> QED
    BY <2>1, Zenon
<1>2. CASE c.table[hash_key(k)] = NULL
  <2> DEFINE e == NewEntry(c, x, k, v)
             l == n + 1
             g == Pushed(n + 1, s, x)
             t == Pushed(n, s, x)
             M == L \cup {x}
  <2>0. Distinct(n, s) /\ x \notin L /\ l \in Nat /\ l <= n + 1 /\ n <= n + 1
        /\ M \in SUBSET Nodes /\ n + 1 > 1 /\ n + 1 \in 1 .. n + 1
    BY DEF Listed
  <2>1. e \in CacheTypes
    BY NewEntryLast
  <2>2. Listed(e, n + 1, g)
    BY <1>2, InsertListed
  <2>3. g \in [1 .. n + 1 -> M] /\ g[1] = x
        /\ \A i \in 1 .. n + 1 : i > 1 => g[i] = s[i - 1]
    BY <2>0 DEF Pushed
  <2>4. \A i \in 1 .. n : t[i] = g[i]
    BY DEF Pushed
  <2>5. g[n + 1] = s[n]
    <3>1. (n + 1) - 1 = n
      OBVIOUS
    <3> HIDE DEF g
    <3> QED
      BY <2>0, <2>3, <3>1
  <2> HIDE DEF g, t, e, M
  <2>6. /\ evict_lru(e) \in CacheTypes
        /\ Listed(evict_lru(e), n, t)
        /\ \A y \in Nodes : y # g[n + 1] =>
             /\ evict_lru(e).node[y].key = e.node[y].key
             /\ evict_lru(e).node[y].value = e.node[y].value
    BY <2>0, <2>1, <2>2, <2>3, <2>4, EvictListed, ZenonT(60)
  <2> QED
    BY <2>5, <2>6 DEF e, t, SameData
<1> QED
  BY <1>1, <1>2

(* evict_lru can be completed after any insertion into a full cache.       *)
LEMMA EvictIsSafe ==
  ASSUME NEW c \in CacheTypes, NEW n \in Nat, n > 0, NEW L \in SUBSET Nodes,
         NEW s \in [1 .. n -> L], Listed(c, n, s), NEW x \in Nodes \ L,
         NEW k \in Keys
  PROVE  /\ EvictStops(OffList(NewEntry(c, x, k, NULL)), s[n]) # {}
         /\ EvictReads(OffList(NewEntry(c, x, k, NULL)), s[n]) \subseteq {s[n], x}
         /\ NewEntry(c, x, k, NULL).tail = s[n]
         /\ NewEntry(c, x, k, NULL).node[s[n]].prev \in L \cup {x}
<1> DEFINE e == NewEntry(c, x, k, NULL)
           z == s[n]
           p == e.node[z].prev
           o == OffList(e)
<1>0. NULL \in Values \cup {NULL} /\ z \in L /\ z \in Nodes /\ z # x
      /\ hash_key(k) \in Buckets
  BY CacheFacts
<1>1. /\ e \in CacheTypes
      /\ c.head # x /\ c.head = s[1] /\ c.tail = z /\ c.tail # NULL
      /\ e.tail = z
      /\ n = 1 => p = x
      /\ n > 1 => p = s[n - 1]
      /\ e.node[z].key = c.node[z].key
      /\ c.node[z].key \in Keys
      /\ c.table[hash_key(c.node[z].key)] = z
      /\ e.node[z].next = NULL
      /\ c.table[hash_key(k)] = z => hash_key(c.node[z].key) = hash_key(k)
  <2>1. e \in CacheTypes /\ LastIs(c, e, n, s, x, k)
    BY <1>0, NewEntryLast
  <2> QED
    BY <2>1, Zenon DEF LastIs
<1>2. p \in L \cup {x}
  <2>1. n = 1 \/ (n > 1 /\ n - 1 \in 1 .. n)
    OBVIOUS
  <2> QED
    BY <1>1, <2>1
<1>3. CASE c.table[hash_key(k)] = z
  <2>1. Removable(o, z, {x})
    BY <1>0, <1>3, ReplaceListed
  <2> QED
    BY <1>1, <1>2, <2>1 DEF Removable
<1>4. CASE c.table[hash_key(k)] # z
  <2> DEFINE u == hash_key(c.node[z].key)
  <2>1. u # hash_key(k) /\ u \in Buckets
    BY <1>1, <1>4, CacheFacts
  <2>2. e.table[u] = z
    <3>1. \A b \in Buckets : b # hash_key(k) => e.table[b] = c.table[b]
      BY <1>0, <1>1, NewEntryFacts
    <3> QED
      BY <1>1, <2>1, <3>1
  <2>3. p \in Nodes /\ e.node[z].prev = p
    BY <1>2
  <2> HIDE DEF e, p, z
  <2>4. /\ o.table = e.table
        /\ \A y \in Nodes : o.node[y].key = e.node[y].key
    BY <1>0, <1>1, <2>3, OffListFacts
  <2> HIDE DEF o
  <2>5. o.table[hash_key(o.node[z].key)] = z
    BY <1>0, <1>1, <2>2, <2>4
  <2>6. EvictStops(o, z) # {} /\ EvictReads(o, z) \subseteq {z}
    BY <2>5, EvictIsTable
  <2> QED
    BY <1>1, <1>2, <2>6 DEF e, p, z, o
<1> QED
  BY <1>3, <1>4

-----------------------------------------------------------------------------
(* The invariant.                                                          *)

(* The n entries of c are nodes of L.                                      *)
HasEntries(c, n, L) == \E s \in [1 .. n -> L] : Listed(c, n, s)

CacheInv ==
  /\ cache \in CacheTypes
  /\ live \in SUBSET Nodes
  /\ current_size \in Nat /\ current_size <= max_size
  /\ HasEntries(cache, current_size, live)

UnmixedInv == ~mixed => CacheInv

(* Replacing a value changes neither the list nor the table.               *)
LEMMA ValueUpdate ==
  ASSUME NEW c \in CacheTypes, NEW m \in Nodes, NEW v \in Values
  PROVE  /\ [c EXCEPT !.node[m].value = v] \in CacheTypes
         /\ [c EXCEPT !.node[m].value = v].node[m].value = v
         /\ [c EXCEPT !.node[m].value = v].tail = c.tail
         /\ \A y \in Nodes :
              /\ y # m => [c EXCEPT !.node[m].value = v].node[y].value
                            = c.node[y].value
              /\ [c EXCEPT !.node[m].value = v].node[y].key = c.node[y].key
              /\ [c EXCEPT !.node[m].value = v].node[y].prev = c.node[y].prev
              /\ [c EXCEPT !.node[m].value = v].node[y].next = c.node[y].next
         /\ \A n \in Nat : \A s \in [1 .. n -> Nodes] :
              Listed(c, n, s) => Listed([c EXCEPT !.node[m].value = v], n, s)
<1> DEFINE r == [c.node[m] EXCEPT !.value = v]
           d == WithNode(c, m, r)
<1>0. c.node[m] \in NodeTypes
  BY TypeFacts
<1>1. /\ r \in NodeTypes /\ r.value = v /\ r.key = c.node[m].key
      /\ r.prev = c.node[m].prev /\ r.next = c.node[m].next
  BY <1>0 DEF NodeTypes
<1>2. [c EXCEPT !.node[m].value = v] = d
  BY DEF WithNode
<1> HIDE DEF r
<1>3. /\ d \in CacheTypes
      /\ d.head = c.head /\ d.tail = c.tail /\ d.table = c.table
      /\ d.node[m] = r
      /\ \A y \in Nodes : y # m => d.node[y] = c.node[y]
  <2>1. r \in NodeTypes
    BY <1>1
  <2> QED
    BY <2>1, NodeUpdate
<1> HIDE DEF d
<1>4. \A y \in Nodes : /\ y # m => d.node[y].value = c.node[y].value
                       /\ d.node[y].key = c.node[y].key
                       /\ d.node[y].prev = c.node[y].prev
                       /\ d.node[y].next = c.node[y].next
  BY <1>1, <1>3
<1>5. ASSUME NEW n \in Nat, NEW s \in [1 .. n -> Nodes], Listed(c, n, s)
      PROVE  Listed(d, n, s)
  <2>1. \A i \in 1 .. n : /\ d.node[s[i]].key = c.node[s[i]].key
                          /\ d.node[s[i]].prev = c.node[s[i]].prev
                          /\ d.node[s[i]].next = c.node[s[i]].next
    BY <1>4
  <2>2. Distinct(n, s) /\ Ends(d, n, s)
    BY <1>3, <1>5 DEF Listed, Ends
  <2>3. Backward(d, n, s)
    BY <1>5, <2>1 DEF Listed, Backward
  <2>4. Forward(d, n, s)
    BY <1>5, <2>1 DEF Listed, Forward
  <2>5. InBuckets(d, n, s)
    BY <1>3, <1>5, <2>1 DEF Listed, InBuckets
  <2>6. BucketsHold(d, n, s)
    BY <1>3, <1>5, <2>1 DEF Listed, BucketsHold
  <2> QED
    BY <2>2, <2>3, <2>4, <2>5, <2>6 DEF Listed
<1>6. d.node[m].value = v
  BY <1>1, <1>3
<1> QED
  BY <1>2, <1>3, <1>4, <1>5, <1>6

(* An empty cache has its types and no entries.                            *)
LEMMA EmptyCache ==
  ASSUME NEW c, NEW f \in [Nodes -> NodeTypes], NEW L,
         c = [head |-> NULL, tail |-> NULL, table |-> EmptyTable, node |-> f]
  PROVE  c \in CacheTypes /\ HasEntries(c, 0, L)
<1>1. NULL \in Pointers /\ EmptyTable \in [Buckets -> Pointers]
  BY DEF Pointers, EmptyTable
<1>2. c.head = NULL /\ c.tail = NULL /\ c.table = EmptyTable /\ c \in CacheTypes
  BY <1>1 DEF CacheTypes
<1>3. \A b \in Buckets : c.table[b] = NULL
  BY <1>2 DEF EmptyTable
<1> DEFINE s == [i \in 1 .. 0 |-> NULL]
<1>4. s \in [1 .. 0 -> L] /\ \A i \in 1 .. 0 : FALSE
  OBVIOUS
<1> HIDE DEF s
<1>5. Listed(c, 0, s)
  BY <1>2, <1>3, <1>4
     DEF Listed, Distinct, Ends, Backward, Forward, InBuckets, BucketsHold
<1> QED
  BY <1>2, <1>4, <1>5 DEF HasEntries

(* The initial state satisfies the invariant.                              *)
LEMMA CacheInit == Init => UnmixedInv
<1> SUFFICES ASSUME Init PROVE CacheInv
  BY DEF UnmixedInv
<1> DEFINE f == [n \in Nodes |-> NoNode]
<1>1. f \in [Nodes -> NodeTypes]
  BY DEF NoNode, NodeTypes, Pointers
<1>2. cache = [head |-> NULL, tail |-> NULL, table |-> EmptyTable, node |-> f]
  BY DEF Init
<1> HIDE DEF f
<1>3. cache \in CacheTypes /\ HasEntries(cache, 0, live)
  BY <1>1, <1>2, EmptyCache
<1>4. current_size = 0 /\ live = {} /\ max_size \in Nat
  BY CacheAssumption DEF Init
<1> QED
  BY <1>3, <1>4 DEF CacheInv

(* find_node finds an entry that a move brings to the front.               *)
LEMMA FoundPlace ==
  ASSUME CacheInv, NEW k \in Keys, find_node(cache, k) # NULL,
         ~ LosesRest(find_node(cache, k)),
         NEW s \in [1 .. current_size -> live], Listed(cache, current_size, s)
  PROVE  \E j \in 1 .. current_size :
           /\ find_node(cache, k) = s[j] /\ cache.node[s[j]].key = k
           /\ \/ cache.node[s[j]].prev = NULL \/ cache.node[s[j]].next # NULL
              \/ s[j] = cache.tail
<1>1. cache \in CacheTypes /\ live \in SUBSET Nodes /\ current_size \in Nat
  BY DEF CacheInv
<1>2. /\ FindStops(cache, k) # {}
      /\ FindReads(cache, k) \subseteq live
      /\ EntryFor(cache, current_size, s, k, find_node(cache, k))
  BY <1>1, FindFacts
<1>3. PICK j \in 1 .. current_size :
        find_node(cache, k) = s[j] /\ cache.node[s[j]].key = k
  BY <1>2 DEF EntryFor
<1> QED
  BY <1>3 DEF LosesRest

(* A hit keeps the invariant.                                              *)
LEMMA HitKeeps ==
  ASSUME CacheInv, NEW k \in Keys, GetHit(k), ~ mixed'
  PROVE  CacheInv'
<1> DEFINE m == find_node(cache, k)
<1>0. /\ cache \in CacheTypes /\ live \in SUBSET Nodes /\ current_size \in Nat
      /\ HasEntries(cache, current_size, live)
  BY DEF CacheInv
<1>1. cache' = move_to_front(cache, m) /\ m # NULL /\ UNCHANGED <<current_size, live>>
      /\ ~ LosesRest(m)
  BY DEF GetHit, Found
<1>2. PICK s \in [1 .. current_size -> live] : Listed(cache, current_size, s)
  BY <1>0 DEF HasEntries
<1>3. PICK j \in 1 .. current_size :
           /\ m = s[j] /\ cache.node[s[j]].key = k
           /\ \/ cache.node[s[j]].prev = NULL \/ cache.node[s[j]].next # NULL
              \/ s[j] = cache.tail
  BY <1>1, <1>2, FoundPlace
<1> HIDE DEF m
<1> DEFINE c == move_to_front(cache, s[j])
           t == Moved(current_size, s, j)
<1>4. c \in CacheTypes /\ Listed(c, current_size, t)
  BY <1>0, <1>2, <1>3, MoveListed
<1>5. t \in [1 .. current_size -> live]
  BY <1>0, <1>2, MovedFacts DEF Listed
<1> HIDE DEF t
<1>6. cache' \in CacheTypes /\ HasEntries(cache', current_size, live)
  BY <1>1, <1>3, <1>4, <1>5 DEF HasEntries
<1> QED
  BY <1>1, <1>6 DEF CacheInv

(* An update of an entry keeps the invariant.                              *)
LEMMA UpdateKeeps ==
  ASSUME CacheInv, NEW k \in Keys, NEW v \in Values, PutExisting(k, v), ~ mixed'
  PROVE  CacheInv'
<1> DEFINE m == find_node(cache, k)
           d == [cache EXCEPT !.node[m].value = v]
<1>0. /\ cache \in CacheTypes /\ live \in SUBSET Nodes /\ current_size \in Nat
      /\ HasEntries(cache, current_size, live)
  BY DEF CacheInv
<1>1. cache' = move_to_front(d, m) /\ m # NULL /\ UNCHANGED <<current_size, live>>
      /\ ~ LosesRest(m)
  BY DEF PutExisting, Found
<1>2. PICK s \in [1 .. current_size -> live] : Listed(cache, current_size, s)
  BY <1>0 DEF HasEntries
<1>3. PICK j \in 1 .. current_size :
           /\ m = s[j] /\ cache.node[s[j]].key = k
           /\ \/ cache.node[s[j]].prev = NULL \/ cache.node[s[j]].next # NULL
              \/ s[j] = cache.tail
  BY <1>1, <1>2, FoundPlace
<1> HIDE DEF m
<1>4. m \in Nodes /\ s \in [1 .. current_size -> Nodes]
  BY <1>0, <1>2, <1>3
<1>5. /\ d \in CacheTypes
      /\ d.node[m].value = v
      /\ d.tail = cache.tail
      /\ \A y \in Nodes : /\ y # m => d.node[y].value = cache.node[y].value
                          /\ d.node[y].key = cache.node[y].key
                          /\ d.node[y].prev = cache.node[y].prev
                          /\ d.node[y].next = cache.node[y].next
      /\ \A n \in Nat : \A t \in [1 .. n -> Nodes] :
           Listed(cache, n, t) => Listed(d, n, t)
  BY <1>0, <1>4, ValueUpdate
<1> HIDE DEF d
<1>6. Listed(d, current_size, s)
  BY <1>0, <1>2, <1>4, <1>5
<1>7. d.node[s[j]].prev = NULL \/ d.node[s[j]].next # NULL \/ s[j] = d.tail
  BY <1>3, <1>4, <1>5
<1> DEFINE c == move_to_front(d, s[j])
           t == Moved(current_size, s, j)
<1>8. c \in CacheTypes /\ Listed(c, current_size, t)
  BY <1>0, <1>5, <1>6, <1>7, MoveListed
<1>9. t \in [1 .. current_size -> live]
  BY <1>0, <1>2, MovedFacts DEF Listed
<1> HIDE DEF t
<1>10. cache' \in CacheTypes /\ HasEntries(cache', current_size, live)
  BY <1>1, <1>3, <1>8, <1>9 DEF HasEntries
<1> QED
  BY <1>1, <1>10 DEF CacheInv

(* A new entry keeps the invariant.                                        *)
LEMMA InsertKeeps ==
  ASSUME CacheInv, NEW k \in Keys, NEW v \in Values, NEW x \in Nodes,
         PutNew(k, v, x), ~ mixed'
  PROVE  CacheInv'
<1> DEFINE e == NewEntry(cache, x, k, v)
           n == current_size
<1>0. /\ cache \in CacheTypes /\ live \in SUBSET Nodes /\ n \in Nat
      /\ n <= max_size /\ max_size \in Nat \ {0}
      /\ HasEntries(cache, n, live)
      /\ v \in Values \cup {NULL}
  BY CacheAssumption DEF CacheInv
<1>1. x \in Nodes \ live /\ ~ SharesBucket(k)
  BY DEF PutNew
<1>2. PICK s \in [1 .. n -> live] : Listed(cache, n, s)
  BY <1>0 DEF HasEntries
<1>3. Distinct(n, s)
  BY <1>2 DEF Listed
<1>4. CASE OverCapacity
  <2>1. cache' = evict_lru(e) /\ live' = (live \cup {x}) \ {e.tail} /\ n' = n
    BY <1>4 DEF PutNew
  <2>2. n > 0 /\ n <= n + 1 /\ n \in 1 .. n
    BY <1>0, <1>4 DEF OverCapacity
  <2>3. cache.tail = s[n]
    BY <1>2, <2>2 DEF Listed, Ends
  <2>4. cache.table[hash_key(k)] = NULL \/ cache.table[hash_key(k)] = s[n]
    BY <1>1, <1>4, <2>3 DEF SharesBucket
  <2> DEFINE t == Pushed(n, s, x)
  <2>5. /\ evict_lru(e) \in CacheTypes
        /\ Listed(evict_lru(e), n, t)
        /\ SameData(evict_lru(e), e, s[n])
    BY <1>0, <1>1, <1>2, <2>2, <2>4, PutListed
  <2>6. e.tail = s[n]
    <3>1. e \in CacheTypes /\ LastIs(cache, e, n, s, x, k)
      BY <1>0, <1>1, <1>2, <2>2, NewEntryLast
    <3> QED
      BY <3>1, Zenon DEF LastIs
  <2>7. /\ t \in [1 .. n -> live \cup {x}]
        /\ n > 0 => t[1] = x
        /\ \A i \in 1 .. n : i > 1 => i - 1 \in 1 .. n /\ t[i] = s[i - 1]
        /\ Distinct(n, t)
    BY <1>0, <1>1, <1>2, <1>3, <2>2, PushedFacts
  <2> HIDE DEF t, e
  <2>8. t \in [1 .. n -> (live \cup {x}) \ {s[n]}]
    <3>1. ASSUME NEW i \in 1 .. n PROVE t[i] # s[n]
      <4>1. CASE i = 1
        BY <1>1, <1>2, <2>2, <2>7, <4>1
      <4>2. CASE i > 1
        <5>1. i - 1 # n /\ i - 1 \in 1 .. n
          BY <1>0, <4>2
        <5> QED
          BY <1>3, <2>2, <2>7, <4>2, <5>1 DEF Distinct
      <4> QED
        BY <4>1, <4>2
    <3> QED
      BY <2>7, <3>1
  <2>9. HasEntries(cache', n, live')
    BY <2>1, <2>5, <2>6, <2>8 DEF HasEntries
  <2>10. live' \in SUBSET Nodes /\ cache' \in CacheTypes
    BY <1>0, <2>1, <2>5
  <2> QED
    BY <1>0, <2>1, <2>9, <2>10 DEF CacheInv
<1>5. CASE ~ OverCapacity
  <2>1. cache' = e /\ live' = live \cup {x} /\ n' = n + 1
    BY <1>5 DEF PutNew
  <2>2. n + 1 \in Nat /\ n + 1 <= max_size /\ n + 1 <= n + 1
    BY <1>0, <1>5 DEF OverCapacity
  <2>3. cache.table[hash_key(k)] = NULL
    BY <1>1, <1>5 DEF SharesBucket
  <2> DEFINE t == Pushed(n + 1, s, x)
  <2>4. Listed(e, n + 1, t)
    BY <1>0, <1>1, <1>2, <2>3, InsertListed
  <2>5. e \in CacheTypes
    <3>1. cache.head # x
      <4>1. n = 0 \/ 1 \in 1 .. n
        BY <1>0
      <4> QED
        BY <1>0, <1>1, <1>2, <4>1, CacheFacts DEF Listed, Ends
    <3> QED
      BY <1>0, <3>1, NewEntryFacts
  <2>6. t \in [1 .. n + 1 -> live \cup {x}]
    BY <1>0, <1>1, <1>2, <1>3, <2>2, PushedFacts
  <2> HIDE DEF t, e
  <2>7. HasEntries(cache', n', live')
    BY <2>1, <2>4, <2>6 DEF HasEntries
  <2>8. live' \in SUBSET Nodes
    BY <1>0, <2>1
  <2> QED
    BY <2>1, <2>2, <2>5, <2>7, <2>8 DEF CacheInv
<1> QED
  BY <1>4, <1>5

(* Clearing keeps the invariant.                                           *)
LEMMA ClearKeeps ==
  ASSUME CacheInv, FreeNodes
  PROVE  CacheInv'
<1> DEFINE f == [n \in Nodes |-> IF n \in ListNodes(cache)
                                   THEN NoNode ELSE cache.node[n]]
<1>0. /\ live \in SUBSET Nodes /\ max_size \in Nat \ {0} /\ 0 \in Nat /\ 0 <= max_size
      /\ \A n \in Nodes : cache.node[n] \in NodeTypes
  BY CacheAssumption, TypeFacts DEF CacheInv
<1>1. NoNode \in NodeTypes
  BY DEF NoNode, NodeTypes, Pointers
<1>2. f \in [Nodes -> NodeTypes]
  BY <1>0, <1>1
<1>3. /\ cache' = [head |-> NULL, tail |-> NULL, table |-> EmptyTable, node |-> f]
      /\ live' \subseteq live /\ current_size' = 0
  BY DEF FreeNodes
<1> HIDE DEF f
<1>4. cache' \in CacheTypes /\ HasEntries(cache', 0, live')
  BY <1>2, <1>3, EmptyCache
<1> QED
  BY <1>0, <1>3, <1>4 DEF CacheInv

(* Every step keeps the invariant.                                         *)
LEMMA CacheStep == UnmixedInv /\ [Next]_vars => UnmixedInv'
<1> SUFFICES ASSUME UnmixedInv, [Next]_vars, ~ mixed' PROVE CacheInv'
  BY DEF UnmixedInv
<1>0. CacheInv
  <2>1. mixed => mixed'
    BY DEF Next, vars, GetHit, GetMiss, PutExisting, PutFails, PutNew,
           lru_cache_clear, lru_cache_destroy, FreeNodes
  <2> QED
    BY <2>1 DEF UnmixedInv
<1>1. ASSUME NEW k \in Keys, GetHit(k) PROVE CacheInv'
  BY <1>0, <1>1, HitKeeps
<1>2. ASSUME NEW k \in Keys, NEW v \in Values, PutExisting(k, v) PROVE CacheInv'
  BY <1>0, <1>2, UpdateKeeps
<1>3. ASSUME NEW k \in Keys, NEW v \in Values, NEW n \in Nodes, PutNew(k, v, n)
      PROVE  CacheInv'
  BY <1>0, <1>3, InsertKeeps
<1>4. ASSUME UNCHANGED <<cache, current_size, live>> PROVE CacheInv'
  BY <1>0, <1>4 DEF CacheInv
<1>5. ASSUME NEW k \in Keys, NEW v \in Values, PutFails(k, v) PROVE CacheInv'
  BY <1>4, <1>5 DEF PutFails
<1>6. ASSUME NEW k \in Keys, GetMiss(k) PROVE CacheInv'
  BY <1>4, <1>6 DEF GetMiss
<1>7. CASE lru_cache_clear \/ lru_cache_destroy
  BY <1>0, <1>7, ClearKeeps DEF lru_cache_clear, lru_cache_destroy
<1>8. CASE UNCHANGED vars
  BY <1>4, <1>8 DEF vars
<1> QED
  BY <1>1, <1>2, <1>3, <1>5, <1>6, <1>7, <1>8 DEF Next

(* The invariant gives memory safety, also of a call that brings two       *)
(* entries into a bucket or loses the rest of the list.                    *)
LEMMA InvIsSafe == CacheInv => MemorySafe
<1> SUFFICES ASSUME CacheInv PROVE MemorySafe
  OBVIOUS
<1> DEFINE n == current_size
<1>0. /\ cache \in CacheTypes /\ live \in SUBSET Nodes /\ n \in Nat
      /\ n <= max_size /\ max_size \in Nat \ {0} /\ NULL \notin Nodes
      /\ HasEntries(cache, n, live)
  BY CacheAssumption, CacheFacts DEF CacheInv
<1>1. PICK s \in [1 .. n -> live] : Listed(cache, n, s)
  BY <1>0 DEF HasEntries
<1>2. ClearSafe
  BY <1>0, <1>1, ListEnds DEF ClearSafe
<1>3. ASSUME NEW k \in Keys
      PROVE  /\ FindStops(cache, k) # {}
             /\ FindReads(cache, k) \subseteq live
             /\ find_node(cache, k) # NULL =>
                  MoveReads(cache, find_node(cache, k)) \subseteq live
             /\ find_node(cache, k) = NULL /\ OverCapacity =>
                  \A x \in Nodes \ live : EvictSafe(NewEntry(cache, x, k, NULL), x)
  <2> DEFINE m == find_node(cache, k)
  <2>1. /\ FindStops(cache, k) # {}
        /\ FindReads(cache, k) \subseteq live
        /\ EntryFor(cache, n, s, k, m)
    <3>1. cache \in CacheTypes /\ live \in SUBSET Nodes /\ n \in Nat
      BY <1>0
    <3> QED
      BY <1>1, <3>1, FindFacts
  <2> HIDE DEF m
  <2>2. ASSUME m # NULL PROVE MoveReads(cache, m) \subseteq live
    <3>1. PICK i \in 1 .. n : m = s[i]
      BY <2>1, <2>2 DEF EntryFor
    <3>2. cache.node[m].prev \in live \cup {NULL}
      <4>1. i = 1 \/ (i > 1 /\ i - 1 \in 1 .. n)
        BY <1>0
      <4> QED
        BY <1>1, <3>1, <4>1 DEF Listed, Backward
    <3>3. cache.node[m].next \in live \cup {NULL}
      <4>1. i < n => i + 1 \in 1 .. n
        BY <1>0
      <4> QED
        BY <1>1, <3>1, <4>1 DEF Listed, Forward
    <3>4. cache.head \in live \cup {NULL}
      <4>1. n = 0 \/ (n > 0 /\ 1 \in 1 .. n)
        BY <1>0
      <4> QED
        BY <1>1, <4>1 DEF Listed, Ends
    <3> QED
      BY <3>2, <3>3, <3>4 DEF MoveReads
  <2>3. ASSUME OverCapacity, NEW x \in Nodes \ live
        PROVE  EvictSafe(NewEntry(cache, x, k, NULL), x)
    <3> DEFINE e == NewEntry(cache, x, k, NULL)
    <3>1. n > 0 /\ n \in 1 .. n
      BY <1>0, <2>3 DEF OverCapacity
    <3>2. /\ EvictStops(OffList(e), s[n]) # {}
          /\ EvictReads(OffList(e), s[n]) \subseteq {s[n], x}
          /\ e.tail = s[n]
          /\ e.node[s[n]].prev \in live \cup {x}
      BY <1>0, <1>1, <3>1, EvictIsSafe
    <3>3. s[n] \in live
      BY <1>1, <3>1
    <3> HIDE DEF e
    <3>4. EvictStops(OffList(e), e.tail) # {}
      BY <3>2, Zenon
    <3>5. EvictReads(OffList(e), e.tail) \subseteq live \cup {x}
      BY <3>2, <3>3
    <3>6. e.tail \in live \cup {x} /\ e.node[e.tail].prev \in live \cup {x}
      BY <3>2, <3>3
    <3> QED
      BY <3>4, <3>5, <3>6 DEF EvictSafe, e
  <2> QED
    BY <2>1, <2>2, <2>3 DEF m
<1> QED
  BY <1>2, <1>3 DEF MemorySafe

(* For every max_size, all keys and values, any hash table and any number  *)
(* of nodes: no call of lru_cache.c follows a pointer to a freed node or   *)
(* runs round a circular chain before some call has brought two entries    *)
(* into one bucket or has moved an entry without `next' out of the middle  *)
(* of the list.                                                            *)
THEOREM CacheIsSafe == Spec => []SafeUntilMixed
<1>1. Init => UnmixedInv
  BY CacheInit
<1>2. UnmixedInv /\ [Next]_vars => UnmixedInv'
  BY CacheStep
<1>3. UnmixedInv => SafeUntilMixed
  BY InvIsSafe DEF UnmixedInv, SafeUntilMixed
<1> QED
  BY <1>1, <1>2, <1>3, PTL DEF Spec

-----------------------------------------------------------------------------
(* The abstract cache.                                                     *)
Pair(c, x) == <<c.node[x].key, c.node[x].value>>
PairTypes == (Keys \cup {NULL}) \X (Values \cup {NULL})
Pairs(c, n, s) == [i \in 1 .. n |-> Pair(c, s[i])]

EntriesOf(c) ==
  LET at == Walk(c, c.tail, "prev")
      length == Cardinality({i \in DOMAIN at : at[i] # NULL})
  IN  [i \in 1 .. length |-> LET n == c.node[at[length - i]]
                             IN  <<n.key, n.value>>]

(* The walk along `prev' goes from the last entry to the first.            *)
LEMMA BackWalk ==
  ASSUME NEW c, NEW n \in Nat, NEW s \in [1 .. n -> Nodes], Listed(c, n, s)
  PROVE  /\ n <= Steps
         /\ \A j \in 0 .. Steps :
              /\ j < n => Walk(c, c.tail, "prev")[j] = s[n - j]
              /\ j >= n => Walk(c, c.tail, "prev")[j] = NULL
<1> DEFINE at == Walk(c, c.tail, "prev")
           S == {j \in 0 .. Steps : /\ j < n => at[j] = s[n - j]
                                    /\ j >= n => at[j] = NULL}
<1>0. Steps \in Nat /\ n <= Steps /\ NULL \notin Nodes
  BY CacheFacts, EntriesFit DEF Listed
<1>1. /\ at[0] = c.tail
      /\ \A j \in 0 .. Steps - 1 :
           at[j + 1] = IF at[j] = NULL THEN NULL ELSE c.node[at[j]]["prev"]
  BY WalkSteps
<1> HIDE DEF at
<1>2. 0 \in S
  <2>1. n = 0 \/ n > 0
    OBVIOUS
  <2>2. 0 < n => at[0] = s[n - 0]
    BY <1>1 DEF Listed, Ends
  <2>3. 0 >= n => at[0] = NULL
    BY <1>1 DEF Listed, Ends
  <2> QED
    BY <1>0, <2>2, <2>3
<1>3. ASSUME NEW j \in 0 .. Steps - 1, j \in S PROVE j + 1 \in S
  <2>1. j + 1 \in 0 .. Steps /\ j \in Nat
    BY <1>0
  <2>2. at[j + 1] = IF at[j] = NULL THEN NULL ELSE c.node[at[j]].prev
    BY <1>1
  <2>3. CASE j >= n
    <3>1. at[j] = NULL /\ ~ (j + 1 < n)
      BY <1>3, <2>1, <2>3
    <3> QED
      BY <2>1, <2>2, <3>1
  <2>4. CASE j < n
    <3>1. n - j \in 1 .. n
      BY <2>1, <2>4
    <3>2. at[j] = s[n - j] /\ s[n - j] \in Nodes
      BY <1>3, <2>4, <3>1
    <3>3. at[j + 1] = c.node[s[n - j]].prev
      BY <1>0, <2>2, <3>2
    <3>4. /\ n - j = 1 => c.node[s[n - j]].prev = NULL
          /\ n - j > 1 => c.node[s[n - j]].prev = s[(n - j) - 1]
      BY <3>1 DEF Listed, Backward
    <3>5. CASE n - j = 1
      <4>1. ~ (j + 1 < n)
        BY <2>1, <3>5
      <4> QED
        BY <2>1, <3>3, <3>4, <3>5, <4>1
    <3>6. CASE n - j > 1
      <4>1. j + 1 < n /\ ~ (j + 1 >= n) /\ (n - j) - 1 = n - (j + 1)
        BY <2>1, <3>6
      <4> QED
        BY <2>1, <3>3, <3>4, <3>6, <4>1
    <3> QED
      BY <3>1, <3>5, <3>6
  <2> QED
    BY <2>1, <2>3, <2>4
<1> HIDE DEF S
<1>4. \A j \in 0 .. Steps : j \in S
  BY <1>0, <1>2, <1>3, UpTo
<1> QED
  BY <1>0, <1>4 DEF S, at

(* The entries of a list.                                                  *)
LEMMA EntriesAre ==
  ASSUME NEW c, NEW n \in Nat, NEW s \in [1 .. n -> Nodes], Listed(c, n, s)
  PROVE  EntriesOf(c) = Pairs(c, n, s)
<1> DEFINE at == Walk(c, c.tail, "prev")
           There == {i \in DOMAIN at : at[i] # NULL}
<1>0. DOMAIN at = 0 .. Steps /\ NULL \notin Nodes /\ Steps \in Nat
  BY WalkSteps, CacheFacts
<1>1. /\ n <= Steps
      /\ \A j \in 0 .. Steps : /\ j < n => at[j] = s[n - j]
                               /\ j >= n => at[j] = NULL
  BY BackWalk
<1>2. EntriesOf(c) = [i \in 1 .. Cardinality(There) |->
                        Pair(c, at[Cardinality(There) - i])]
  BY DEF EntriesOf, Pair
<1> HIDE DEF at
<1>3. There = 0 .. n - 1
  <2>1. ASSUME NEW j \in 0 .. Steps PROVE at[j] # NULL <=> j \in 0 .. n - 1
    <3>1. CASE j < n
      <4>1. n - j \in 1 .. n /\ j \in 0 .. n - 1
        BY <3>1
      <4> QED
        BY <1>0, <1>1, <3>1, <4>1
    <3>2. CASE j >= n
      <4>1. ~ (j \in 0 .. n - 1)
        BY <3>2
      <4> QED
        BY <1>1, <3>2, <4>1
    <3> QED
      BY <3>1, <3>2
  <2>2. \A j \in 0 .. n - 1 : j \in 0 .. Steps
    BY <1>0, <1>1
  <2> QED
    BY <1>0, <2>1, <2>2
<1>4. Cardinality(There) = n
  <2> DEFINE b == n - 1
  <2>1. 0 \in Int /\ b \in Int
    OBVIOUS
  <2> HIDE DEF b
  <2>2. Cardinality(0 .. b) = IF 0 > b THEN 0 ELSE b - 0 + 1
    BY <2>1, FS_Interval
  <2> HIDE DEF There
  <2>3. (IF 0 > b THEN 0 ELSE b - 0 + 1) = n
    BY DEF b
  <2>4. There = 0 .. b
    BY <1>3 DEF b
  <2> QED
    BY <2>2, <2>3, <2>4
<1> HIDE DEF There
<1>5. ASSUME NEW i \in 1 .. n PROVE at[n - i] = s[i]
  <2>1. n - i \in 0 .. Steps /\ n - i < n /\ n - (n - i) = i
    BY <1>0, <1>1
  <2> QED
    BY <1>1, <2>1
<1>6. EntriesOf(c) = [i \in 1 .. n |-> Pair(c, at[n - i])]
  BY <1>2, <1>4
<1>7. [i \in 1 .. n |-> Pair(c, at[n - i])] = [i \in 1 .. n |-> Pair(c, s[i])]
  BY <1>5
<1> QED
  BY <1>6, <1>7 DEF Pairs

(* They are a sequence of pairs.                                           *)
LEMMA PairsFacts ==
  ASSUME NEW c \in CacheTypes, NEW n \in Nat, NEW s \in [1 .. n -> Nodes]
  PROVE  /\ Pairs(c, n, s) \in Seq(PairTypes)
         /\ Len(Pairs(c, n, s)) = n
         /\ \A i \in 1 .. n : Pairs(c, n, s)[i] = Pair(c, s[i])
         /\ \A x \in Nodes : Pair(c, x) \in PairTypes
<1>1. ASSUME NEW x \in Nodes PROVE Pair(c, x) \in PairTypes
  <2>1. c.node[x] \in NodeTypes
    BY TypeFacts
  <2>2. c.node[x].key \in Keys \cup {NULL} /\ c.node[x].value \in Values \cup {NULL}
    BY <2>1 DEF NodeTypes
  <2> QED
    BY <2>2 DEF Pair, PairTypes
<1>2. \A i \in 1 .. n : Pair(c, s[i]) \in PairTypes
  BY <1>1
<1>3. Pairs(c, n, s) \in [1 .. n -> PairTypes]
  BY <1>2 DEF Pairs
<1>4. Pairs(c, n, s) \in Seq(PairTypes) /\ Len(Pairs(c, n, s)) = n
  BY <1>3
<1> QED
  BY <1>1, <1>4 DEF Pairs

(* A part of a sequence, given by its entries.                             *)
LEMMA SubSeqIs ==
  ASSUME NEW S, NEW s, NEW m \in Int, NEW n \in Int, m <= n,
         \A i \in m .. n : s[i] \in S, NEW t \in Seq(S), Len(t) = n - m + 1,
         \A i \in 1 .. n - m + 1 : t[i] = s[m + i - 1]
  PROVE  SubSeq(s, m, n) = t
<1>1. /\ SubSeq(s, m, n) \in Seq(S)
      /\ Len(SubSeq(s, m, n)) = IF m <= n THEN n - m + 1 ELSE 0
      /\ \A i \in 1 .. n - m + 1 : SubSeq(s, m, n)[i] = s[m + i - 1]
  BY SubSeqProperties
<1>2. Len(SubSeq(s, m, n)) = n - m + 1
  BY <1>1
<1>3. \A i \in 1 .. Len(t) : t[i] = SubSeq(s, m, n)[i]
  BY <1>1
<1> QED
  BY <1>1, <1>2, <1>3, SeqEqual

(* A concatenation, given by its entries.                                  *)
LEMMA ConcatIs ==
  ASSUME NEW S, NEW r \in Seq(S), NEW s \in Seq(S), NEW t \in Seq(S),
         Len(t) = Len(r) + Len(s), \A i \in 1 .. Len(r) : t[i] = r[i],
         \A i \in 1 .. Len(s) : t[Len(r) + i] = s[i]
  PROVE  r \o s = t
<1>0. Len(r) \in Nat /\ Len(s) \in Nat
  OBVIOUS
<1>1. /\ r \o s \in Seq(S) /\ Len(r \o s) = Len(r) + Len(s)
      /\ \A i \in 1 .. Len(r) + Len(s) :
           (r \o s)[i] = IF i <= Len(r) THEN r[i] ELSE s[i - Len(r)]
  BY ConcatProperties
<1>2. ASSUME NEW i \in 1 .. Len(t) PROVE (r \o s)[i] = t[i]
  <2>1. CASE i <= Len(r)
    BY <1>0, <1>1, <2>1
  <2>2. CASE ~ (i <= Len(r))
    <3>1. i - Len(r) \in 1 .. Len(s) /\ Len(r) + (i - Len(r)) = i
      BY <1>0, <2>2
    <3>2. t[Len(r) + (i - Len(r))] = s[i - Len(r)]
      BY <3>1
    <3> QED
      BY <1>0, <1>1, <2>2, <3>1, <3>2
  <2> QED
    BY <2>1, <2>2
<1>3. Len(t) = Len(r \o s)
  BY <1>1
<1>4. \A i \in 1 .. Len(r \o s) : (r \o s)[i] = t[i]
  BY <1>2, <1>3
<1> QED
  BY <1>1, <1>3, <1>4, SeqEqual

(* Taking the entry at place j to the front.                               *)
LEMMA FrontSequence ==
  ASSUME NEW S, NEW E \in Seq(S), NEW p \in S, NEW j \in 1 .. Len(E),
         NEW F \in Seq(S), Len(F) = Len(E), F[1] = p,
         \A i \in 1 .. Len(E) : i > 1 /\ i <= j => F[i] = E[i - 1],
         \A i \in 1 .. Len(E) : i > j => F[i] = E[i]
  PROVE  <<p>> \o (SubSeq(E, 1, j - 1) \o SubSeq(E, j + 1, Len(E))) = F
<1> DEFINE n == Len(E)
           A == SubSeq(E, 1, j - 1)
           B == SubSeq(E, j + 1, n)
           C == A \o B
           P == <<p>>
<1>0. n \in Nat /\ j \in Nat /\ j >= 1 /\ j <= n /\ \A i \in 1 .. n : E[i] \in S
  BY ElementOfSeq
<1>1. A \in Seq(S) /\ Len(A) = j - 1 /\ \A i \in 1 .. j - 1 : A[i] = E[i]
  <2>1. 1 \in Int /\ j - 1 \in Int /\ \A i \in 1 .. j - 1 : E[i] \in S
    BY <1>0
  <2>2. /\ A \in Seq(S)
        /\ Len(A) = IF 1 <= j - 1 THEN (j - 1) - 1 + 1 ELSE 0
        /\ \A i \in 1 .. (j - 1) - 1 + 1 : A[i] = E[1 + i - 1]
    BY <2>1, SubSeqProperties
  <2>3. (j - 1) - 1 + 1 = j - 1 /\ \A i \in 1 .. j - 1 : 1 + i - 1 = i
    BY <1>0
  <2> HIDE DEF A
  <2>4. Len(A) = j - 1
    BY <1>0, <2>2
  <2> QED
    BY <2>2, <2>3, <2>4
<1>2. B \in Seq(S) /\ Len(B) = n - j /\ \A i \in 1 .. n - j : B[i] = E[j + i]
  <2>1. j + 1 \in Int /\ n \in Int /\ \A i \in j + 1 .. n : E[i] \in S
    BY <1>0
  <2>2. /\ B \in Seq(S)
        /\ Len(B) = IF j + 1 <= n THEN n - (j + 1) + 1 ELSE 0
        /\ \A i \in 1 .. n - (j + 1) + 1 : B[i] = E[(j + 1) + i - 1]
    BY <2>1, SubSeqProperties
  <2>3. n - (j + 1) + 1 = n - j /\ \A i \in 1 .. n - j : (j + 1) + i - 1 = j + i
    BY <1>0
  <2> HIDE DEF B
  <2>4. Len(B) = n - j
    BY <1>0, <2>2
  <2> QED
    BY <2>2, <2>3, <2>4
<1> HIDE DEF A, B
<1>3. /\ C \in Seq(S) /\ Len(C) = n - 1
      /\ \A i \in 1 .. n - 1 : C[i] = IF i <= j - 1 THEN A[i] ELSE B[i - (j - 1)]
  <2>1. /\ C \in Seq(S)
        /\ Len(C) = Len(A) + Len(B)
        /\ \A i \in 1 .. Len(A) + Len(B) :
             C[i] = IF i <= Len(A) THEN A[i] ELSE B[i - Len(A)]
    <3>1. A \in Seq(S) /\ B \in Seq(S)
      BY <1>1, <1>2
    <3> QED
      BY <3>1, ConcatProperties
  <2>2. Len(A) + Len(B) = n - 1
    BY <1>0, <1>1, <1>2
  <2> HIDE DEF C
  <2> QED
    BY <1>1, <2>1, <2>2
<1> HIDE DEF C
<1>4. ASSUME NEW i \in 1 .. n - 1 PROVE F[1 + i] = C[i]
  <2>0. i + 1 \in 1 .. n /\ 1 + i = i + 1 /\ (i + 1) - 1 = i /\ i + 1 > 1
    BY <1>0
  <2>1. CASE i <= j - 1
    <3>1. i \in 1 .. j - 1 /\ i + 1 <= j
      BY <1>0, <2>1
    <3>2. F[i + 1] = E[(i + 1) - 1]
      BY <2>0, <3>1
    <3> QED
      BY <1>1, <1>3, <2>0, <2>1, <3>1, <3>2
  <2>2. CASE ~ (i <= j - 1)
    <3>1. i - (j - 1) \in 1 .. n - j /\ i + 1 > j /\ j + (i - (j - 1)) = i + 1
      BY <1>0, <2>2
    <3>2. F[i + 1] = E[i + 1]
      BY <2>0, <3>1
    <3>3. B[i - (j - 1)] = E[j + (i - (j - 1))]
      BY <1>2, <3>1
    <3> QED
      BY <1>3, <2>0, <2>2, <3>1, <3>2, <3>3
  <2> QED
    BY <2>1, <2>2
<1>5. P \in Seq(S) /\ Len(P) = 1 /\ P[1] = p
  OBVIOUS
<1> HIDE DEF P
<1>6. P \o C = F
  <2>1. Len(F) = Len(P) + Len(C)
    BY <1>0, <1>3, <1>5
  <2>2. \A i \in 1 .. Len(P) : F[i] = P[i]
    BY <1>5
  <2>3. \A i \in 1 .. Len(C) : F[Len(P) + i] = C[i]
    BY <1>3, <1>4, <1>5
  <2> QED
    BY <1>3, <1>5, <2>1, <2>2, <2>3, ConcatIs
<1> QED
  BY <1>6 DEF P, C, A, B

(* A new entry before the others, and the last one cut off.                *)
LEMMA PushSequence ==
  ASSUME NEW S, NEW E \in Seq(S), NEW p \in S, NEW F \in Seq(S), F[1] = p,
         \A i \in 1 .. Len(F) : i > 1 => F[i] = E[i - 1]
  PROVE  /\ Len(F) = Len(E) + 1 => <<p>> \o E = F
         /\ Len(F) = Len(E) /\ Len(E) > 0 => SubSeq(<<p>> \o E, 1, Len(E)) = F
         /\ Len(<<p>> \o E) = Len(E) + 1
<1> DEFINE n == Len(E)
           P == <<p>>
           G == P \o E
<1>0. n \in Nat
  OBVIOUS
<1>1. P \in Seq(S) /\ Len(P) = 1 /\ P[1] = p
  OBVIOUS
<1> HIDE DEF P
<1>2. /\ G \in Seq(S)
      /\ Len(G) = Len(P) + n
      /\ \A i \in 1 .. Len(P) + n : G[i] = IF i <= Len(P) THEN P[i] ELSE E[i - Len(P)]
  BY <1>1, ConcatProperties
<1>3. Len(G) = n + 1
  BY <1>0, <1>1, <1>2
<1>4. \A i \in 1 .. n + 1 : G[i] = IF i <= 1 THEN P[i] ELSE E[i - 1]
  BY <1>0, <1>1, <1>2
<1> HIDE DEF G
<1>5. \A i \in 1 .. n + 1 : i \in 1 .. Len(F) => G[i] = F[i]
  BY <1>0, <1>1, <1>4
<1>6. ASSUME Len(F) = n + 1 PROVE G = F
  BY <1>2, <1>3, <1>5, <1>6, SeqEqual
<1>7. ASSUME Len(F) = n, n > 0 PROVE SubSeq(G, 1, n) = F
  <2>1. 1 \in Int /\ n \in Int /\ 1 <= n /\ n - 1 + 1 = n
    BY <1>0, <1>7
  <2>2. \A i \in 1 .. n : G[i] \in S
    <3>1. \A i \in 1 .. n : i \in 1 .. Len(G)
      BY <1>0, <1>3
    <3> QED
      BY <1>2, <3>1, ElementOfSeq
  <2>3. \A i \in 1 .. n : F[i] = G[1 + i - 1]
    <3>1. \A i \in 1 .. n : 1 + i - 1 = i /\ i \in 1 .. n + 1
      BY <1>0
    <3> QED
      BY <1>5, <1>7, <3>1
  <2>4. Len(F) = n - 1 + 1 /\ \A i \in 1 .. n - 1 + 1 : F[i] = G[1 + i - 1]
    BY <1>7, <2>1, <2>3
  <2> QED
    BY <2>1, <2>2, <2>4, SubSeqIs
<1> QED
  BY <1>3, <1>6, <1>7 DEF P, G

(* The abstract cache finds the one entry with a key.                      *)
LEMMA LookupFacts ==
  ASSUME cache \in CacheTypes, NEW n \in Nat, NEW s \in [1 .. n -> Nodes],
         Listed(cache, n, s), NEW j \in 1 .. n, NEW k, cache.node[s[j]].key = k
  PROVE  /\ Lru!Cached(k)
         /\ Lru!ValueOf(k) = cache.node[s[j]].value
         /\ Lru!Others(k) = SubSeq(Pairs(cache, n, s), 1, j - 1)
                              \o SubSeq(Pairs(cache, n, s), j + 1,
                                        Len(Pairs(cache, n, s)))
<1> DEFINE E == Pairs(cache, n, s)
<1>1. Entries = E
  <2>1. Entries = EntriesOf(cache)
    BY DEF Entries, EntriesOf
  <2>2. EntriesOf(cache) = Pairs(cache, n, s)
    BY EntriesAre
  <2> QED
    BY <2>1, <2>2
<1>2. /\ E \in Seq(PairTypes) /\ Len(E) = n
      /\ \A i \in 1 .. n : E[i] = Pair(cache, s[i])
  BY PairsFacts
<1>3. DOMAIN E = 1 .. n
  BY DEF Pairs
<1> HIDE DEF E
<1>4. \A i \in 1 .. n : E[i][1] = cache.node[s[i]].key
  BY <1>2 DEF Pair
<1>5. ASSUME NEW i \in 1 .. n, cache.node[s[i]].key = k PROVE i = j
  <2>1. s[i] = s[j]
    BY <1>5 DEF Listed, InBuckets
  <2> QED
    BY <2>1 DEF Listed, Distinct
<1>6. \A i \in DOMAIN Entries : Entries[i][1] = k <=> i = j
  BY <1>1, <1>3, <1>4, <1>5
<1>7. j \in DOMAIN Entries
  BY <1>1, <1>3
<1>8. Lru!Cached(k)
  BY <1>6, <1>7 DEF Lru!Cached
<1>9. Lru!Place(k) = j
  BY <1>6, <1>7 DEF Lru!Place
<1>10. Lru!ValueOf(k) = cache.node[s[j]].value
  BY <1>1, <1>2, <1>9 DEF Lru!ValueOf, Pair
<1>11. Lru!Others(k) = SubSeq(E, 1, j - 1) \o SubSeq(E, j + 1, Len(E))
  BY <1>1, <1>9, Zenon DEF Lru!Others
<1> QED
  BY <1>8, <1>10, <1>11 DEF E

(* d is c up to the value of x.                                            *)
Revalued(d, c, x) ==
  \A y \in Nodes : /\ d.node[y].key = c.node[y].key
                   /\ y # x => d.node[y].value = c.node[y].value

(* The entries after a move to the front, also when the value has been     *)
(* replaced: d is the cache or the cache with a new value.                 *)
LEMMA MovedEntries ==
  ASSUME cache \in CacheTypes, NEW n \in Nat, NEW s \in [1 .. n -> Nodes],
         Listed(cache, n, s), NEW j \in 1 .. n, NEW k, cache.node[s[j]].key = k,
         NEW d \in CacheTypes, Listed(d, n, s),
         d.node[s[j]].prev = NULL \/ d.node[s[j]].next # NULL \/ s[j] = d.tail,
         Revalued(d, cache, s[j])
  PROVE  EntriesOf(move_to_front(d, s[j]))
           = << <<k, d.node[s[j]].value>> >> \o Lru!Others(k)
<1> DEFINE c == move_to_front(d, s[j])
           t == Moved(n, s, j)
           E == Pairs(cache, n, s)
           F == Pairs(c, n, t)
           p == <<k, d.node[s[j]].value>>
<1>1. /\ c \in CacheTypes
      /\ Listed(c, n, t)
      /\ \A y \in Nodes : /\ c.node[y].key = d.node[y].key
                          /\ c.node[y].value = d.node[y].value
  <2>1. Nodes \in SUBSET Nodes
    OBVIOUS
  <2> QED
    BY <2>1, MoveListed
<1> HIDE DEF c
<1>2. Distinct(n, s)
  BY DEF Listed
<1>3. /\ t \in [1 .. n -> Nodes]
      /\ t[1] = s[j]
      /\ \A i \in 1 .. n : i > 1 /\ i <= j => t[i] = s[i - 1]
      /\ \A i \in 1 .. n : i > j => t[i] = s[i]
      /\ \A i \in 1 .. n : \E h \in 1 .. n : t[i] = s[h]
      /\ \A h \in 1 .. n : \E i \in 1 .. n : s[h] = t[i]
      /\ Distinct(n, t)
  BY <1>2, MovedFacts
<1> HIDE DEF t
<1>4. EntriesOf(c) = F
  BY <1>1, <1>3, EntriesAre
<1>5. /\ E \in Seq(PairTypes) /\ Len(E) = n
      /\ \A i \in 1 .. n : E[i] = Pair(cache, s[i])
  BY PairsFacts
<1>6. /\ F \in Seq(PairTypes) /\ Len(F) = n
      /\ \A i \in 1 .. n : F[i] = Pair(c, t[i])
      /\ \A x \in Nodes : Pair(c, x) \in PairTypes
  BY <1>1, <1>3, PairsFacts
<1> HIDE DEF E, F
<1>7. p = Pair(c, s[j]) /\ p \in PairTypes
  <2>1. s[j] \in Nodes
    OBVIOUS
  <2>2. p = Pair(c, s[j])
    BY <1>1, <2>1 DEF Pair, Revalued
  <2> QED
    BY <1>6, <2>1, <2>2
<1> HIDE DEF p
<1>8. \A y \in Nodes : y # s[j] => Pair(c, y) = Pair(cache, y)
  BY <1>1 DEF Pair, Revalued
<1>9. 1 \in 1 .. n
  OBVIOUS
<1>10. F[1] = p
  BY <1>3, <1>6, <1>7, <1>9
<1>11. ASSUME NEW i \in 1 .. n, i > 1, i <= j PROVE F[i] = E[i - 1]
  <2>1. i - 1 \in 1 .. n /\ i - 1 # j
    BY <1>11
  <2>2. s[i - 1] \in Nodes /\ s[i - 1] # s[j]
    BY <1>2, <2>1 DEF Distinct
  <2>3. F[i] = Pair(c, s[i - 1])
    BY <1>3, <1>6, <1>11
  <2> QED
    BY <1>5, <1>8, <2>1, <2>2, <2>3
<1>12. ASSUME NEW i \in 1 .. n, i > j PROVE F[i] = E[i]
  <2>1. i # j
    BY <1>12
  <2>2. s[i] \in Nodes /\ s[i] # s[j]
    BY <1>2, <2>1 DEF Distinct
  <2>3. F[i] = Pair(c, s[i])
    BY <1>3, <1>6, <1>12
  <2> QED
    BY <1>5, <1>8, <2>2, <2>3
<1>13. <<p>> \o (SubSeq(E, 1, j - 1) \o SubSeq(E, j + 1, Len(E))) = F
  <2>1. j \in 1 .. Len(E) /\ Len(F) = Len(E)
    BY <1>5, <1>6
  <2>2. /\ \A i \in 1 .. Len(E) : i > 1 /\ i <= j => F[i] = E[i - 1]
        /\ \A i \in 1 .. Len(E) : i > j => F[i] = E[i]
    BY <1>5, <1>11, <1>12
  <2>3. E \in Seq(PairTypes) /\ F \in Seq(PairTypes) /\ p \in PairTypes
    BY <1>5, <1>6, <1>7
  <2> QED
    BY <1>10, <2>1, <2>2, <2>3, FrontSequence
<1>14. Lru!Others(k) = SubSeq(E, 1, j - 1) \o SubSeq(E, j + 1, Len(E))
  BY LookupFacts DEF E
<1> QED
  BY <1>4, <1>13, <1>14, Zenon DEF c, p

(* A key that is not found is not cached.                                  *)
LEMMA NotFoundNotCached ==
  ASSUME CacheInv, NEW k \in Keys, NotFound(k)
  PROVE  ~ Lru!Cached(k)
<1> DEFINE n == current_size
<1>0. /\ cache \in CacheTypes /\ live \in SUBSET Nodes /\ n \in Nat
      /\ HasEntries(cache, n, live) /\ NULL \notin Nodes
  BY CacheFacts DEF CacheInv
<1>1. PICK s \in [1 .. n -> live] : Listed(cache, n, s)
  BY <1>0 DEF HasEntries
<1>2. /\ FindStops(cache, k) # {}
      /\ FindReads(cache, k) \subseteq live
      /\ EntryFor(cache, n, s, k, find_node(cache, k))
  <2>1. cache \in CacheTypes /\ live \in SUBSET Nodes /\ n \in Nat
    BY <1>0
  <2> QED
    BY <1>1, <2>1, FindFacts
<1>3. \A i \in 1 .. n : cache.node[s[i]].key # k
  <2>1. \A i \in 1 .. n : s[i] # NULL
    BY <1>0, <1>1
  <2>2. find_node(cache, k) = NULL
    BY DEF NotFound
  <2> QED
    BY <1>2, <2>1, <2>2 DEF EntryFor
<1>4. s \in [1 .. n -> Nodes]
  BY <1>0, <1>1
<1>5. Entries = Pairs(cache, n, s)
  <2>1. Entries = EntriesOf(cache)
    BY DEF Entries, EntriesOf
  <2>2. EntriesOf(cache) = Pairs(cache, n, s)
    BY <1>0, <1>1, <1>4, EntriesAre
  <2> QED
    BY <2>1, <2>2
<1>6. \A i \in DOMAIN Pairs(cache, n, s) : Pairs(cache, n, s)[i][1] # k
  BY <1>3 DEF Pairs, Pair
<1> QED
  BY <1>5, <1>6 DEF Lru!Cached

(* GetHit is Hit.                                                          *)
LEMMA HitRefines ==
  ASSUME CacheInv, NEW k \in Keys, GetHit(k), ~ mixed'
  PROVE  Lru!Hit(k)
<1> DEFINE m == find_node(cache, k)
           w == cache.node[m].value
           n == current_size
<1>0. cache \in CacheTypes /\ live \in SUBSET Nodes /\ n \in Nat
      /\ HasEntries(cache, n, live)
  BY DEF CacheInv
<1>1. /\ cache' = move_to_front(cache, m) /\ m # NULL /\ ~ LosesRest(m)
      /\ call' = [op |-> "get", key |-> k, value |-> NULL, result |-> w]
      /\ counters' = [counters EXCEPT !["hits"] = @ + 1]
  BY DEF GetHit, Found, Count, Returns
<1>2. PICK s \in [1 .. n -> live] : Listed(cache, n, s)
  BY <1>0 DEF HasEntries
<1>3. PICK j \in 1 .. n :
           /\ m = s[j] /\ cache.node[s[j]].key = k
           /\ \/ cache.node[s[j]].prev = NULL \/ cache.node[s[j]].next # NULL
              \/ s[j] = cache.tail
  BY <1>1, <1>2, FoundPlace
<1> HIDE DEF m
<1>4. s \in [1 .. n -> Nodes]
  BY <1>0, <1>2
<1> HIDE DEF n
<1>5. /\ Lru!Cached(k)
      /\ Lru!ValueOf(k) = cache.node[s[j]].value
      /\ Lru!Others(k) = SubSeq(Pairs(cache, n, s), 1, j - 1)
                           \o SubSeq(Pairs(cache, n, s), j + 1,
                                     Len(Pairs(cache, n, s)))
  BY <1>0, <1>2, <1>3, <1>4, LookupFacts
<1>6. EntriesOf(move_to_front(cache, s[j]))
        = << <<k, cache.node[s[j]].value>> >> \o Lru!Others(k)
  <2>1. Revalued(cache, cache, s[j])
    BY DEF Revalued
  <2>2. /\ cache \in CacheTypes /\ n \in Nat /\ cache.node[s[j]].key = k
        /\ \/ cache.node[s[j]].prev = NULL \/ cache.node[s[j]].next # NULL
           \/ s[j] = cache.tail
    BY <1>0, <1>3
  <2> QED
    BY <1>2, <1>4, <2>1, <2>2, MovedEntries
<1>7. Entries' = EntriesOf(cache')
  BY DEF Entries, EntriesOf
<1>8. w = Lru!ValueOf(k)
  BY <1>3, <1>5, Zenon
<1>9. Entries' = << <<k, Lru!ValueOf(k)>> >> \o Lru!Others(k)
  BY <1>1, <1>3, <1>5, <1>6, <1>7, Zenon
<1> HIDE DEF w
<1>10. Lru!Returns("get", k, NULL, Lru!ValueOf(k))
  BY <1>1, <1>8 DEF Lru!Returns
<1>11. counters' = Lru!Bump("hits")
  BY <1>1 DEF Lru!Bump
<1> QED
  BY <1>5, <1>9, <1>10, <1>11 DEF Lru!Hit

(* PutExisting is Update.                                                  *)
LEMMA UpdateRefines ==
  ASSUME CacheInv, NEW k \in Keys, NEW v \in Values, PutExisting(k, v), ~ mixed'
  PROVE  Lru!Update(k, v)
<1> DEFINE m == find_node(cache, k)
           d == [cache EXCEPT !.node[m].value = v]
           n == current_size
<1>0. cache \in CacheTypes /\ live \in SUBSET Nodes /\ n \in Nat
      /\ HasEntries(cache, n, live)
  BY DEF CacheInv
<1>1. /\ cache' = move_to_front(d, m) /\ m # NULL /\ ~ LosesRest(m)
      /\ call' = [op |-> "put", key |-> k, value |-> v, result |-> 0]
      /\ counters' = counters
  BY DEF PutExisting, Found, Returns
<1>2. PICK s \in [1 .. n -> live] : Listed(cache, n, s)
  BY <1>0 DEF HasEntries
<1>3. PICK j \in 1 .. n :
           /\ m = s[j] /\ cache.node[s[j]].key = k
           /\ \/ cache.node[s[j]].prev = NULL \/ cache.node[s[j]].next # NULL
              \/ s[j] = cache.tail
  BY <1>1, <1>2, FoundPlace
<1> HIDE DEF m
<1>4. s \in [1 .. n -> Nodes] /\ m \in Nodes
  BY <1>0, <1>2, <1>3
<1> HIDE DEF n
<1>5. /\ d \in CacheTypes
      /\ d.node[m].value = v
      /\ d.tail = cache.tail
      /\ \A y \in Nodes : /\ y # m => d.node[y].value = cache.node[y].value
                          /\ d.node[y].key = cache.node[y].key
                          /\ d.node[y].prev = cache.node[y].prev
                          /\ d.node[y].next = cache.node[y].next
      /\ \A l \in Nat : \A t \in [1 .. l -> Nodes] :
           Listed(cache, l, t) => Listed(d, l, t)
  BY <1>0, <1>4, ValueUpdate
<1> HIDE DEF d
<1>6. Listed(d, n, s)
  BY <1>0, <1>2, <1>4, <1>5
<1>7. d.node[s[j]].prev = NULL \/ d.node[s[j]].next # NULL \/ s[j] = d.tail
  BY <1>3, <1>4, <1>5
<1>8. Revalued(d, cache, s[j])
  BY <1>3, <1>5 DEF Revalued
<1>9. EntriesOf(move_to_front(d, s[j]))
        = << <<k, d.node[s[j]].value>> >> \o Lru!Others(k)
  <2>1. d \in CacheTypes /\ cache \in CacheTypes /\ n \in Nat
        /\ cache.node[s[j]].key = k /\ s \in [1 .. n -> Nodes]
    BY <1>0, <1>3, <1>4, <1>5
  <2> QED
    BY <1>2, <1>6, <1>7, <1>8, <2>1, MovedEntries, ZenonT(60)
<1>10. /\ Lru!Cached(k)
       /\ Lru!ValueOf(k) = cache.node[s[j]].value
       /\ Lru!Others(k) = SubSeq(Pairs(cache, n, s), 1, j - 1)
                            \o SubSeq(Pairs(cache, n, s), j + 1,
                                      Len(Pairs(cache, n, s)))
  BY <1>0, <1>2, <1>3, <1>4, LookupFacts
<1>11. Entries' = EntriesOf(cache')
  BY DEF Entries, EntriesOf
<1>12. d.node[s[j]].value = v
  BY <1>3, <1>5
<1>13. Entries' = << <<k, v>> >> \o Lru!Others(k)
  BY <1>1, <1>3, <1>9, <1>11, <1>12, Zenon
<1> QED
  BY <1>1, <1>10, <1>13 DEF Lru!Update, Lru!Returns

(* The first l - 1 of n entries have in d the data they have in c.         *)
KeepsData(d, c, l, n, s) ==
  \A i \in 1 .. n : i < l => /\ d.node[s[i]].key = c.node[s[i]].key
                             /\ d.node[s[i]].value = c.node[s[i]].value

(* d has l entries: the one for k and v, and then n entries or all but the *)
(* last of them.                                                           *)
Inserted(d, l, n, k, v) ==
  /\ l = n + 1 => EntriesOf(d) = << <<k, v>> >> \o Entries
  /\ l = n => EntriesOf(d) = SubSeq(<< <<k, v>> >> \o Entries, 1, l)
  /\ Len(<< <<k, v>> >> \o Entries) = n + 1

(* The entries after an insertion: the new one, then the old ones, and the *)
(* last of too many is given up.                                           *)
LEMMA InsertedEntries ==
  ASSUME cache \in CacheTypes, live \in SUBSET Nodes, NEW n \in Nat,
         NEW s \in [1 .. n -> live], Listed(cache, n, s), NEW x \in Nodes \ live,
         NEW k \in Keys, NEW v \in Values, NEW l \in Nat, l <= n + 1, l > 0,
         NEW d \in CacheTypes, Listed(d, l, Pushed(l, s, x)),
         d.node[x].key = k, d.node[x].value = v,
         KeepsData(d, cache, l, n, s)
  PROVE  Inserted(d, l, n, k, v)
<1> DEFINE t == Pushed(l, s, x)
           E == Pairs(cache, n, s)
           F == Pairs(d, l, t)
           p == <<k, v>>
<1>1. s \in [1 .. n -> Nodes] /\ Distinct(n, s) /\ x \notin live
  BY DEF Listed
<1>2. /\ t \in [1 .. l -> live \cup {x}]
      /\ l > 0 => t[1] = x
      /\ \A i \in 1 .. l : i > 1 => i - 1 \in 1 .. n /\ t[i] = s[i - 1]
      /\ Distinct(l, t)
  BY <1>1, PushedFacts
<1> HIDE DEF t
<1>3. t \in [1 .. l -> Nodes] /\ Listed(d, l, t)
  BY <1>2 DEF t
<1>4. Entries = E /\ EntriesOf(d) = F
  <2>1. Entries = EntriesOf(cache)
    BY DEF Entries, EntriesOf
  <2>2. EntriesOf(cache) = E
    BY <1>1, EntriesAre
  <2>3. EntriesOf(d) = F
    BY <1>3, EntriesAre
  <2> QED
    BY <2>1, <2>2, <2>3
<1>5. /\ E \in Seq(PairTypes) /\ Len(E) = n
      /\ \A i \in 1 .. n : E[i] = Pair(cache, s[i])
  BY <1>1, PairsFacts
<1>6. /\ F \in Seq(PairTypes) /\ Len(F) = l
      /\ \A i \in 1 .. l : F[i] = Pair(d, t[i])
      /\ \A y \in Nodes : Pair(d, y) \in PairTypes
  BY <1>3, PairsFacts
<1> HIDE DEF E, F
<1>7. p = Pair(d, x)
  BY DEF Pair
<1> HIDE DEF p
<1>8. p \in PairTypes
  BY <1>6, <1>7
<1>9. F[1] = p
  <2>1. 1 \in 1 .. l
    OBVIOUS
  <2> QED
    BY <1>2, <1>6, <1>7, <2>1
<1>10. ASSUME NEW i \in 1 .. Len(F), i > 1 PROVE F[i] = E[i - 1]
  <2>1. i \in 1 .. l /\ i - 1 < l
    BY <1>6, <1>10
  <2>2. i - 1 \in 1 .. n /\ F[i] = Pair(d, s[i - 1])
    BY <1>2, <1>6, <1>10, <2>1
  <2>3. Pair(d, s[i - 1]) = Pair(cache, s[i - 1])
    BY <2>1, <2>2 DEF Pair, KeepsData
  <2> QED
    BY <1>5, <2>2, <2>3
<1>11. /\ Len(F) = Len(E) + 1 => <<p>> \o E = F
       /\ Len(F) = Len(E) /\ Len(E) > 0 => SubSeq(<<p>> \o E, 1, Len(E)) = F
       /\ Len(<<p>> \o E) = Len(E) + 1
  <2>1. E \in Seq(PairTypes) /\ F \in Seq(PairTypes)
    BY <1>5, <1>6
  <2> QED
    BY <1>8, <1>9, <1>10, <2>1, PushSequence
<1>12. l = n + 1 => EntriesOf(d) = <<p>> \o Entries
  BY <1>4, <1>5, <1>6, <1>11
<1>13. l = n => EntriesOf(d) = SubSeq(<<p>> \o Entries, 1, l)
  BY <1>4, <1>5, <1>6, <1>11
<1>14. Len(<<p>> \o Entries) = n + 1
  BY <1>4, <1>5, <1>11
<1> QED
  BY <1>12, <1>13, <1>14 DEF p, Inserted

(* PutNew is Insert.                                                       *)
LEMMA InsertRefines ==
  ASSUME CacheInv, NEW k \in Keys, NEW v \in Values, NEW x \in Nodes,
         PutNew(k, v, x), ~ mixed'
  PROVE  Lru!Insert(k, v)
<1> DEFINE e == NewEntry(cache, x, k, v)
           n == current_size
           grown == << <<k, v>> >> \o Entries
<1>0. /\ cache \in CacheTypes /\ live \in SUBSET Nodes /\ n \in Nat
      /\ n <= max_size /\ max_size \in Nat \ {0}
      /\ HasEntries(cache, n, live)
      /\ v \in Values \cup {NULL}
  BY CacheAssumption DEF CacheInv
<1>1. NotFound(k) /\ x \in Nodes \ live /\ ~ SharesBucket(k)
  BY DEF PutNew
<1>2. call' = [op |-> "put", key |-> k, value |-> v, result |-> 0]
  BY DEF PutNew, Returns
<1>3. PICK s \in [1 .. n -> live] : Listed(cache, n, s)
  BY <1>0 DEF HasEntries
<1>4. /\ e \in CacheTypes
      /\ e.node[x].key = k /\ e.node[x].value = v
      /\ \A y \in Nodes : y # x => /\ e.node[y].key = cache.node[y].key
                                   /\ e.node[y].value = cache.node[y].value
  <2>1. cache.head # x
    <3>1. n = 0 \/ 1 \in 1 .. n
      BY <1>0
    <3> QED
      BY <1>0, <1>1, <1>3, <3>1, CacheFacts DEF Listed, Ends
  <2> QED
    BY <1>0, <2>1, NewEntryFacts
<1>5. \A i \in 1 .. n : s[i] \in Nodes /\ s[i] # x
  BY <1>0, <1>1, <1>3
<1>6. Entries' = EntriesOf(cache')
  BY DEF Entries, EntriesOf
<1>7. ~ Lru!Cached(k)
  BY <1>1, NotFoundNotCached
<1>8. IF Len(grown) > max_size
        THEN /\ Entries' = SubSeq(grown, 1, max_size)
             /\ counters' = [counters EXCEPT !["evictions"] = @ + 1]
        ELSE Entries' = grown /\ UNCHANGED counters
  <2>1. CASE OverCapacity
    <3>1. cache' = evict_lru(e) /\ counters' = [counters EXCEPT !["evictions"] = @ + 1]
      BY <2>1 DEF PutNew, Count
    <3>2. n > 0 /\ n <= n + 1 /\ n \in 1 .. n /\ n = max_size
      BY <1>0, <2>1 DEF OverCapacity
    <3>3. cache.tail = s[n]
      BY <1>3, <3>2 DEF Listed, Ends
    <3>4. cache.table[hash_key(k)] = NULL \/ cache.table[hash_key(k)] = s[n]
      BY <1>1, <2>1, <3>3 DEF SharesBucket
    <3> DEFINE d == evict_lru(e)
    <3>5. /\ d \in CacheTypes
          /\ Listed(d, n, Pushed(n, s, x))
          /\ SameData(d, e, s[n])
      BY <1>0, <1>1, <1>3, <3>2, <3>4, PutListed
    <3> HIDE DEF d, e
    <3>6. x # s[n] /\ Distinct(n, s)
      BY <1>3, <1>5, <3>2 DEF Listed
    <3>7. d.node[x].key = k /\ d.node[x].value = v
      BY <1>4, <3>5, <3>6 DEF SameData
    <3>8. ASSUME NEW i \in 1 .. n, i < n
          PROVE  /\ d.node[s[i]].key = cache.node[s[i]].key
                 /\ d.node[s[i]].value = cache.node[s[i]].value
      <4>1. s[i] # s[n]
        BY <3>2, <3>6, <3>8 DEF Distinct
      <4> QED
        BY <1>4, <1>5, <3>5, <4>1 DEF SameData
    <3>9. Inserted(d, n, n, k, v)
      <4>1. cache \in CacheTypes /\ live \in SUBSET Nodes /\ n \in Nat
            /\ d \in CacheTypes /\ x \in Nodes \ live
            /\ Listed(d, n, Pushed(n, s, x)) /\ KeepsData(d, cache, n, n, s)
        BY <1>0, <1>1, <3>5, <3>8 DEF KeepsData
      <4>2. n <= n + 1 /\ n > 0
        BY <3>2
      <4> HIDE DEF n
      <4> QED
        BY <1>3, <3>7, <4>1, <4>2, InsertedEntries
    <3>10. EntriesOf(d) = SubSeq(grown, 1, n) /\ Len(grown) = n + 1
      BY <3>9, Zenon DEF Inserted
    <3> HIDE DEF grown
    <3>11. Len(grown) > max_size
      BY <1>0, <3>2, <3>10
    <3>12. Entries' = SubSeq(grown, 1, max_size)
      BY <1>6, <3>1, <3>2, <3>10, Zenon DEF d
    <3> QED
      BY <3>1, <3>11, <3>12, Zenon
  <2>2. CASE ~ OverCapacity
    <3>1. cache' = e /\ counters' = counters
      BY <2>2 DEF PutNew
    <3>2. n + 1 \in Nat /\ n + 1 <= max_size /\ n + 1 <= n + 1 /\ n + 1 > 0
      BY <1>0, <2>2 DEF OverCapacity
    <3>3. cache.table[hash_key(k)] = NULL
      BY <1>1, <2>2 DEF SharesBucket
    <3>4. Listed(e, n + 1, Pushed(n + 1, s, x))
      BY <1>0, <1>1, <1>3, <3>3, InsertListed
    <3> HIDE DEF e
    <3>5. \A i \in 1 .. n : i < n + 1 =>
            /\ e.node[s[i]].key = cache.node[s[i]].key
            /\ e.node[s[i]].value = cache.node[s[i]].value
      BY <1>4, <1>5
    <3> DEFINE l == n + 1
    <3>6. l \in Nat /\ l <= n + 1 /\ l > 0 /\ l = n + 1
      BY <3>2
    <3>7. Listed(e, l, Pushed(l, s, x)) /\ KeepsData(e, cache, l, n, s)
      BY <3>4, <3>5 DEF KeepsData
    <3> HIDE DEF l
    <3>8. Inserted(e, l, n, k, v)
      <4>1. cache \in CacheTypes /\ live \in SUBSET Nodes /\ n \in Nat
            /\ e \in CacheTypes /\ x \in Nodes \ live
            /\ e.node[x].key = k /\ e.node[x].value = v
        BY <1>0, <1>1, <1>4
      <4> HIDE DEF n
      <4> QED
        BY <1>3, <3>6, <3>7, <4>1, InsertedEntries
    <3>9. EntriesOf(e) = grown /\ Len(grown) = n + 1
      BY <3>6, <3>8, Zenon DEF Inserted
    <3> HIDE DEF grown
    <3>10. ~ (Len(grown) > max_size)
      BY <1>0, <3>2, <3>9
    <3>11. Entries' = grown
      BY <1>6, <3>1, <3>9, Zenon
    <3> QED
      BY <3>1, <3>10, <3>11, Zenon
  <2> QED
    BY <2>1, <2>2
<1> HIDE DEF grown
<1>9. IF Len(grown) > max_size
        THEN /\ Entries' = SubSeq(grown, 1, max_size)
             /\ counters' = Lru!Bump("evictions")
        ELSE Entries' = grown /\ UNCHANGED counters
  BY <1>8, Zenon DEF Lru!Bump
<1> QED
  BY <1>2, <1>7, <1>9 DEF Lru!Insert, Lru!Returns, grown

(* The empty cache is the empty sequence.                                  *)
LEMMA EmptyEntries ==
  ASSUME NEW c, NEW f \in [Nodes -> NodeTypes],
         c = [head |-> NULL, tail |-> NULL, table |-> EmptyTable, node |-> f]
  PROVE  EntriesOf(c) = << >>
<1>1. c \in CacheTypes /\ HasEntries(c, 0, Nodes)
  BY EmptyCache
<1>2. PICK s \in [1 .. 0 -> Nodes] : Listed(c, 0, s)
  BY <1>1 DEF HasEntries
<1>3. EntriesOf(c) = Pairs(c, 0, s)
  BY <1>2, EntriesAre
<1>4. Pairs(c, 0, s) = << >>
  BY DEF Pairs
<1> QED
  BY <1>3, <1>4

(* The abstract cache starts empty too.                                    *)
LEMMA LruInit == Init => Lru!Init
<1> SUFFICES ASSUME Init PROVE Lru!Init
  OBVIOUS
<1> DEFINE f == [n \in Nodes |-> NoNode]
<1>1. f \in [Nodes -> NodeTypes]
  BY DEF NoNode, NodeTypes, Pointers
<1>2. cache = [head |-> NULL, tail |-> NULL, table |-> EmptyTable, node |-> f]
  BY DEF Init
<1> HIDE DEF f
<1>3. EntriesOf(cache) = << >>
  BY <1>1, <1>2, EmptyEntries
<1>4. Entries = EntriesOf(cache)
  BY DEF Entries, EntriesOf
<1>5. Entries = << >>
  BY <1>3, <1>4
<1> QED
  BY <1>5 DEF Init, Lru!Init, NoCall, Lru!NoCall

(* FreeNodes is Clear.                                                     *)
LEMMA ClearRefines ==
  ASSUME CacheInv, FreeNodes
  PROVE  Lru!Clear
<1> DEFINE f == [n \in Nodes |-> IF n \in ListNodes(cache)
                                   THEN NoNode ELSE cache.node[n]]
<1>0. \A n \in Nodes : cache.node[n] \in NodeTypes
  BY TypeFacts DEF CacheInv
<1>1. NoNode \in NodeTypes
  BY DEF NoNode, NodeTypes, Pointers
<1>2. f \in [Nodes -> NodeTypes]
  BY <1>0, <1>1
<1>3. /\ cache' = [head |-> NULL, tail |-> NULL, table |-> EmptyTable, node |-> f]
      /\ call' = NoCall /\ counters' = counters
  BY DEF FreeNodes
<1> HIDE DEF f
<1>4. EntriesOf(cache') = << >>
  BY <1>2, <1>3, EmptyEntries
<1>5. Entries' = EntriesOf(cache')
  BY DEF Entries, EntriesOf
<1>6. Entries' = << >>
  BY <1>4, <1>5
<1> QED
  BY <1>3, <1>6 DEF Lru!Clear, NoCall, Lru!NoCall

(* Every step of the cache is a step of the abstract one, or none, or the  *)
(* step after which chains and list are mixed.                             *)
LEMMA LruStep ==
  UnmixedInv /\ [Next]_vars => [mixed' \/ Lru!Next]_<<Entries, call, counters>>
<1> SUFFICES ASSUME UnmixedInv, [Next]_vars, ~ mixed'
             PROVE  Lru!Next \/ UNCHANGED <<Entries, call, counters>>
  OBVIOUS
<1>0. CacheInv
  <2>1. mixed => mixed'
    BY DEF Next, vars, GetHit, GetMiss, PutExisting, PutFails, PutNew,
           lru_cache_clear, lru_cache_destroy, FreeNodes
  <2> QED
    BY <2>1 DEF UnmixedInv
<1>1. cache' = cache => Entries' = Entries
  BY DEF Entries
<1>2. ASSUME NEW k \in Keys, GetHit(k) PROVE Lru!Next
  BY <1>0, <1>2, HitRefines DEF Lru!Next
<1>3. ASSUME NEW k \in Keys, GetMiss(k) PROVE Lru!Next
  <2>1. ~ Lru!Cached(k)
    BY <1>0, <1>3, NotFoundNotCached DEF GetMiss
  <2>2. /\ Entries' = Entries
        /\ call' = [op |-> "get", key |-> k, value |-> NULL, result |-> NULL]
        /\ counters' = [counters EXCEPT !["misses"] = @ + 1]
    BY <1>1, <1>3 DEF GetMiss, Count, Returns
  <2>3. Lru!Miss(k)
    BY <2>1, <2>2 DEF Lru!Miss, Lru!Returns, Lru!Bump
  <2> QED
    BY <2>3 DEF Lru!Next
<1>4. ASSUME NEW k \in Keys, NEW v \in Values, PutExisting(k, v) PROVE Lru!Next
  BY <1>0, <1>4, UpdateRefines DEF Lru!Next
<1>5. ASSUME NEW k \in Keys, NEW v \in Values, PutFails(k, v) PROVE Lru!Next
  <2>1. ~ Lru!Cached(k)
    BY <1>0, <1>5, NotFoundNotCached DEF PutFails
  <2>2. /\ Entries' = Entries /\ counters' = counters
        /\ call' = [op |-> "put", key |-> k, value |-> v, result |-> -1]
    BY <1>1, <1>5 DEF PutFails, Returns
  <2>3. Lru!Refuse(k, v)
    BY <2>1, <2>2 DEF Lru!Refuse, Lru!Returns
  <2> QED
    BY <2>3 DEF Lru!Next
<1>6. ASSUME NEW k \in Keys, NEW v \in Values, NEW n \in Nodes, PutNew(k, v, n)
      PROVE  Lru!Next
  BY <1>0, <1>6, InsertRefines DEF Lru!Next
<1>7. CASE lru_cache_clear \/ lru_cache_destroy
  BY <1>0, <1>7, ClearRefines DEF lru_cache_clear, lru_cache_destroy, Lru!Next
<1>8. CASE UNCHANGED vars
  BY <1>1, <1>8 DEF vars
<1> QED
  BY <1>2, <1>3, <1>4, <1>5, <1>6, <1>7, <1>8 DEF Next

(* For every max_size, all keys and values, any hash table and any number  *)
(* of nodes: until a call has brought two entries into one bucket or has   *)
(* moved an entry without `next' out of the middle of the list,            *)
(* lru_cache.c implements the abstract cache: a get answers what was put   *)
(* last under its key, and a full cache gives up the entry that was used   *)
(* least recently.                                                         *)
THEOREM CacheIsLru == Spec => LruUntilMixed
<1>1. Init => UnmixedInv /\ Lru!Init
  BY CacheInit, LruInit
<1>2. UnmixedInv /\ [Next]_vars => UnmixedInv'
  BY CacheStep
<1>3. UnmixedInv /\ [Next]_vars => [mixed' \/ Lru!Next]_<<Entries, call, counters>>
  BY LruStep
<1> QED
  BY <1>1, <1>2, <1>3, PTL DEF Spec, LruUntilMixed

=============================================================================
