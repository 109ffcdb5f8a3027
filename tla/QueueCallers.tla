---------------------------- MODULE QueueCallers ----------------------------
(***************************************************************************)
(* Threads that use queue.c in every way it offers: producers that call    *)
(* queue_enqueue, and consumers that call queue_dequeue or                 *)
(* queue_try_dequeue as they like.                                         *)
(***************************************************************************)
EXTENDS Queue

CONSTANT MaxPolls  \* bound: calls of queue_try_dequeue in a behaviour

ASSUME CallersAssumption == MaxPolls \in Nat

VARIABLE polls     \* calls of queue_try_dequeue so far

vars == <<queueVars, polls>>

CallersInit == Init /\ polls = 0

-----------------------------------------------------------------------------
(* Items are offered in one order: the queue never looks into them, so no  *)
(* other order shows anything new.                                         *)
Produce(p, x) ==
  /\ EnqueueCall(p, x)
  /\ x = CHOOSE y \in Items \ offered : TRUE
  /\ UNCHANGED polls

ProducerStep(p) == EnqueueStep(p) /\ UNCHANGED polls

Poll(c) ==
  /\ polls < MaxPolls
  /\ polls' = polls + 1
  /\ TryDequeueCall(c)

(* A consumer that has nothing to do asks for the next item.               *)
ConsumerStep(c) ==
  /\ DequeueCall(c) \/ DequeueStep(c) \/ TryDequeueStep(c)
  /\ UNCHANGED polls

WakesUnasked(t) == SpuriousWakeup(t) /\ UNCHANGED polls

(* Nothing is left to do but to wait for items that nobody will send.      *)
Rest ==
  /\ offered = Items
  /\ size = 0
  /\ \A p \in Producers : pc[p] = "idle"
  /\ \A c \in Consumers : pc[c] = "idle" \/ Asleep(c)
  /\ UNCHANGED vars

CallersNext ==
  \/ \E p \in Producers : ProducerStep(p) \/ \E x \in Items : Produce(p, x)
  \/ \E c \in Consumers : ConsumerStep(c) \/ Poll(c)
  \/ \E t \in Threads : WakesUnasked(t)
  \/ Rest

CallersSpec == CallersInit /\ [][CallersNext]_vars

=============================================================================
