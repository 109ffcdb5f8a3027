------------------------------- MODULE LruSpec -------------------------------
(***************************************************************************)
(* What lru_cache.h promises: a map of at most max_size entries that, when *)
(* it is full, gives up the entry that was used least recently.            *)
(***************************************************************************)
EXTENDS Integers, Sequences

CONSTANTS Keys, Values, max_size, NULL

VARIABLES
  entries,   \* <<key, value>> pairs, the most recently used one first
  call,      \* the last operation: its key, its value, its result
  counters   \* hits, misses and evictions

NoCall == [op |-> "none", key |-> NULL, value |-> NULL, result |-> NULL]

Returns(op, k, v, r) ==
  call' = [op |-> op, key |-> k, value |-> v, result |-> r]

Init ==
  /\ entries = << >>
  /\ call = NoCall
  /\ counters = [hits |-> 0, misses |-> 0, evictions |-> 0]

Cached(k) == \E i \in DOMAIN entries : entries[i][1] = k
Place(k) == CHOOSE i \in DOMAIN entries : entries[i][1] = k
ValueOf(k) == entries[Place(k)][2]
Others(k) == SubSeq(entries, 1, Place(k) - 1)
               \o SubSeq(entries, Place(k) + 1, Len(entries))
Bump(field) == [counters EXCEPT ![field] = @ + 1]

Hit(k) ==
  /\ Cached(k)
  /\ entries' = << <<k, ValueOf(k)>> >> \o Others(k)
  /\ Returns("get", k, NULL, ValueOf(k))
  /\ counters' = Bump("hits")

Miss(k) ==
  /\ ~Cached(k)
  /\ Returns("get", k, NULL, NULL)
  /\ counters' = Bump("misses")
  /\ UNCHANGED entries

Update(k, v) ==
  /\ Cached(k)
  /\ entries' = << <<k, v>> >> \o Others(k)
  /\ Returns("put", k, v, 0)
  /\ UNCHANGED counters

Insert(k, v) ==
  /\ ~Cached(k)
  /\ LET grown == << <<k, v>> >> \o entries
     IN  IF Len(grown) > max_size
           THEN /\ entries' = SubSeq(grown, 1, max_size)
                /\ counters' = Bump("evictions")
           ELSE /\ entries' = grown
                /\ UNCHANGED counters
  /\ Returns("put", k, v, 0)

(* No memory for a new entry.                                              *)
Refuse(k, v) ==
  /\ ~Cached(k)
  /\ Returns("put", k, v, -1)
  /\ UNCHANGED <<entries, counters>>

Clear ==
  /\ entries' = << >>
  /\ call' = NoCall
  /\ UNCHANGED counters

Next ==
  \/ \E k \in Keys : Hit(k) \/ Miss(k)
  \/ \E k \in Keys, v \in Values :
       Update(k, v) \/ Insert(k, v) \/ Refuse(k, v)
  \/ Clear

Spec == Init /\ [][Next]_<<entries, call, counters>>

=============================================================================
