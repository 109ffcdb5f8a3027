-------------------------------- MODULE Ring --------------------------------
(***************************************************************************)
(* The circular buffer that queue.c and thread_pool.c both embed: an array *)
(* indexed from 0, the index `front' of the oldest entry and the number    *)
(* `size' of entries.  There is no rear index; it is computed.             *)
(***************************************************************************)
EXTENDS Integers, Sequences

(* The slot of the entry that i entries precede.                           *)
Slot(front, i, capacity) == (front + i) % capacity

(* The entries, oldest first: what the ring stands for.                    *)
Contents(items, front, size, capacity) ==
  [i \in 1 .. size |-> items[Slot(front, i - 1, capacity)]]

=============================================================================
