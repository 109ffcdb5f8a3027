------------------------------ MODULE MCMemory ------------------------------
(* Model values for the runs of the cache and of the allocator, two           *)
(* libraries that manage memory of their own and share nothing.  A behaviour  *)
(* here uses one of them, so that the states of both are reached and not      *)
(* their product.                                                             *)
EXTENDS LruCache, Allocator, TLC

CONSTANTS n1, n2, n3, n4, v1, c1, c2, c3

MemoryInit == Init /\ AllocInit

MemoryNext ==
  \/ AllocInit /\ Next /\ UNCHANGED allocVars
  \/ Init /\ AllocNext /\ UNCHANGED vars

MemorySpec == MemoryInit /\ [][MemoryNext]_<<vars, allocVars>>

(* Nodes and clients are compared only for equality.                          *)
Symmetry == Permutations(Nodes) \cup Permutations(Clients)

(* What follows when chains and list have got into each other, or a block     *)
(* was cut too small, is not looked at where nothing is claimed of it.        *)
Unharmed == ~mixed /\ ~cramped

(* The last call is not read by a step, only by the properties of steps,      *)
(* which TLC evaluates for every step.                                        *)
WithoutCall ==
  <<cache, current_size, counters, live, destroyed, mixed, allocVars>>

=============================================================================
