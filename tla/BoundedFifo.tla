---------------------------- MODULE BoundedFifo ----------------------------
(***************************************************************************)
(* What the bounded queues of this repository promise: items leave in the  *)
(* order in which they arrived, each is handed to exactly one taker, and   *)
(* no more than Capacity of them are ever held.  No mutex, no condition    *)
(* variable, no indices.                                                   *)
(***************************************************************************)
EXTENDS Integers, Sequences

CONSTANTS Items, Takers, Nothing, Capacity

VARIABLES q,    \* the items held, oldest first
          hand  \* the item each taker is busy with, or Nothing

Init == q = <<>> /\ hand = [k \in Takers |-> Nothing]

Put(x) ==
  /\ Len(q) < Capacity
  /\ q' = Append(q, x)
  /\ UNCHANGED hand

Take(k) ==
  /\ q # <<>>
  /\ hand[k] = Nothing
  /\ hand' = [hand EXCEPT ![k] = Head(q)]
  /\ q' = Tail(q)

Finish(k) ==
  /\ hand[k] # Nothing
  /\ hand' = [hand EXCEPT ![k] = Nothing]
  /\ UNCHANGED q

Next ==
  \/ \E x \in Items : Put(x)
  \/ \E k \in Takers : Take(k) \/ Finish(k)

Spec == Init /\ [][Next]_<<q, hand>>

=============================================================================
