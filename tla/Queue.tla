------------------------------- MODULE Queue -------------------------------
(***************************************************************************)
(* 03_threads/producer_consumer/queue.c: a bounded queue with one mutex    *)
(* and two condition variables.  Producers sleep on `cond_full' while the  *)
(* queue is full, consumers on `cond_empty' while it is empty.             *)
(*                                                                         *)
(* Producers call queue_enqueue; consumers call queue_dequeue, which       *)
(* blocks, or queue_try_dequeue, which never does.  All of the state is    *)
(* touched under the mutex, so taking the mutex and the section that it    *)
(* protects are two steps: queue_try_dequeue tells a busy mutex.           *)
(*                                                                         *)
(* pc   lock  about to take the mutex      check  holds it in a blocking   *)
(*      wait  inside pthread_cond_wait            call                     *)
(*      try   about to try the mutex       poll   holds it in a try        *)
(*      got   has an item and uses it                                      *)
(***************************************************************************)
EXTENDS Integers, FiniteSets, CondVar, Ring

CONSTANTS
  Producers, Consumers,  \* sets of threads
  NoThread,
  Items,                 \* every item is offered to the queue once
  NULL,
  capacity,              \* 100 in test.c
  MaxFaults              \* bound: faults of the environment in a behaviour

Threads == Producers \cup Consumers

ASSUME QueueAssumption ==
  /\ capacity \in Nat \ {0}
  /\ IsFiniteSet(Producers)
  /\ IsFiniteSet(Consumers)
  /\ Producers \cap Consumers = {}
  /\ NoThread \notin Threads
  /\ NULL \notin Items
  /\ MaxFaults \in Nat

VARIABLES
  items, size, front,     \* Queue
  mutex,                  \* the thread that holds q->mutex, or NoThread
  cond_full, cond_empty,
  pc,
  item,      \* the argument of a producer's call, the result of a consumer's
  offered,   \* history: items whose enqueue was called
  accepted,  \* history: items whose enqueue returned 0
  used,      \* history: how often each item was handed to a consumer
  faults     \* spurious wake-ups and failed pthread calls so far

ringVars == <<items, size, front>>
syncVars == <<mutex, cond_full, cond_empty, faults>>
history == <<offered, accepted, used>>
queueVars == <<items, size, front, mutex, cond_full, cond_empty, pc, item,
               offered, accepted, used, faults>>

-----------------------------------------------------------------------------
(* queue_create, when it succeeds.                                         *)
Init ==
  /\ items = [i \in 0 .. capacity - 1 |-> NULL]
  /\ size = 0
  /\ front = 0
  /\ mutex = NoThread
  /\ cond_full = {}
  /\ cond_empty = {}
  /\ pc = [t \in Threads |-> "idle"]
  /\ item = [t \in Threads |-> NULL]
  /\ offered = {}
  /\ accepted = {}
  /\ used = [x \in Items |-> 0]
  /\ faults = 0

Goto(t, label) == pc' = [pc EXCEPT ![t] = label]

Asleep(t) == t \in cond_full \cup cond_empty

Fault == faults < MaxFaults /\ faults' = faults + 1

(* pthread_mutex_lock, also the one at the end of pthread_cond_wait.       *)
Lock(t) ==
  /\ pc[t] \in {"lock", "wait"}
  /\ ~Asleep(t)
  /\ mutex = NoThread
  /\ mutex' = t
  /\ Goto(t, "check")
  /\ UNCHANGED <<ringVars, cond_full, cond_empty, faults, item, history>>

(* pthread_mutex_lock fails: -1 or NULL is returned.                       *)
LockFails(t) ==
  /\ Fault
  /\ pc[t] = "lock"
  /\ item' = [item EXCEPT ![t] = NULL]
  /\ Goto(t, "idle")
  /\ UNCHANGED <<ringVars, mutex, cond_full, cond_empty, history>>

(* A sleeper wakes up although nobody signalled it.                        *)
SpuriousWakeup(t) ==
  /\ Asleep(t)
  /\ Fault
  /\ cond_full' = cond_full \ {t}
  /\ cond_empty' = cond_empty \ {t}
  /\ UNCHANGED <<ringVars, mutex, pc, item, history>>

-----------------------------------------------------------------------------
(* queue_enqueue                                                           *)

EnqueueCall(p, x) ==
  /\ pc[p] = "idle"
  /\ x \notin offered
  /\ offered' = offered \cup {x}
  /\ item' = [item EXCEPT ![p] = x]
  /\ Goto(p, "lock")
  /\ UNCHANGED <<ringVars, syncVars, accepted, used>>

(* Slips: the back of the ring is taken for its size; nobody is told of    *)
(* the new item.                                                           *)
BackIsSize == Slot(0, size, capacity)
SignalNobodyOfItem == cond_empty' = cond_empty

Full == size >= capacity

EnqueueWaits(p) ==
  /\ pc[p] = "check"
  /\ Full
  /\ mutex' = NoThread
  /\ cond_full' = cond_full \cup {p}
  /\ Goto(p, "wait")
  /\ UNCHANGED <<ringVars, cond_empty, faults, item, history>>

(* pthread_cond_wait fails: the mutex is released and -1 is returned.      *)
EnqueueWaitFails(p) ==
  /\ Fault
  /\ pc[p] = "check"
  /\ Full
  /\ mutex' = NoThread
  /\ item' = [item EXCEPT ![p] = NULL]
  /\ Goto(p, "idle")
  /\ UNCHANGED <<ringVars, cond_full, cond_empty, history>>

back == Slot(front, size, capacity)

SignalItem == cond_empty' \in AfterSignal(cond_empty)

Put(p) ==
  /\ pc[p] = "check"
  /\ ~Full
  /\ items' = [items EXCEPT ![back] = item[p]]
  /\ size' = size + 1
  /\ SignalItem
  /\ accepted' = accepted \cup {item[p]}
  /\ item' = [item EXCEPT ![p] = NULL]
  /\ mutex' = NoThread
  /\ Goto(p, "idle")
  /\ UNCHANGED <<front, cond_full, faults, offered, used>>

-----------------------------------------------------------------------------
(* queue_dequeue and queue_try_dequeue remove an item in the same way.     *)

(* Slips: the front index is not moved; nobody is told of the room.        *)
FrontStays == front' = front
SignalNobodyOfRoom == cond_full' = cond_full

AdvanceFront == front' = Slot(front, 1, capacity)

SignalRoom == cond_full' \in AfterSignal(cond_full)

Remove(c) ==
  /\ size > 0
  /\ item' = [item EXCEPT ![c] = items[front]]
  /\ AdvanceFront
  /\ size' = size - 1
  /\ SignalRoom
  /\ mutex' = NoThread
  /\ Goto(c, "got")
  /\ UNCHANGED <<items, cond_empty, faults, history>>

DequeueCall(c) ==
  /\ pc[c] = "idle"
  /\ Goto(c, "lock")
  /\ UNCHANGED <<ringVars, syncVars, item, history>>

DequeueWaits(c) ==
  /\ pc[c] = "check"
  /\ size = 0
  /\ mutex' = NoThread
  /\ cond_empty' = cond_empty \cup {c}
  /\ Goto(c, "wait")
  /\ UNCHANGED <<ringVars, cond_full, faults, item, history>>

(* pthread_cond_wait fails: the mutex is released and NULL is returned.    *)
DequeueWaitFails(c) ==
  /\ Fault
  /\ pc[c] = "check"
  /\ size = 0
  /\ mutex' = NoThread
  /\ Goto(c, "idle")
  /\ UNCHANGED <<ringVars, cond_full, cond_empty, item, history>>

DequeueTake(c) == pc[c] = "check" /\ Remove(c)

TryDequeueCall(c) ==
  /\ pc[c] = "idle"
  /\ Goto(c, "try")
  /\ UNCHANGED <<ringVars, syncVars, item, history>>

TryLock(c) ==
  /\ pc[c] = "try"
  /\ mutex = NoThread
  /\ mutex' = c
  /\ Goto(c, "poll")
  /\ UNCHANGED <<ringVars, cond_full, cond_empty, faults, item, history>>

(* The mutex is busy: NULL.                                                *)
TryBusy(c) ==
  /\ pc[c] = "try"
  /\ mutex # NoThread
  /\ Goto(c, "idle")
  /\ UNCHANGED <<ringVars, syncVars, item, history>>

TryTake(c) == pc[c] = "poll" /\ Remove(c)

(* The queue is empty: NULL.                                               *)
TryEmpty(c) ==
  /\ pc[c] = "poll"
  /\ size = 0
  /\ mutex' = NoThread
  /\ Goto(c, "idle")
  /\ UNCHANGED <<ringVars, cond_full, cond_empty, faults, item, history>>

(* The caller uses the item and frees it.                                  *)
Use(c) ==
  /\ pc[c] = "got"
  /\ used' = [used EXCEPT ![item[c]] = @ + 1]
  /\ item' = [item EXCEPT ![c] = NULL]
  /\ Goto(c, "idle")
  /\ UNCHANGED <<ringVars, syncVars, offered, accepted>>

-----------------------------------------------------------------------------
EnqueueStep(p) ==
  \/ Lock(p) \/ LockFails(p)
  \/ EnqueueWaits(p) \/ EnqueueWaitFails(p) \/ Put(p)

DequeueStep(c) ==
  \/ Lock(c) \/ LockFails(c)
  \/ DequeueWaits(c) \/ DequeueWaitFails(c) \/ DequeueTake(c)
  \/ Use(c)

TryDequeueStep(c) ==
  TryLock(c) \/ TryBusy(c) \/ TryTake(c) \/ TryEmpty(c)

-----------------------------------------------------------------------------
(* Types of the state of Queue and of its callers: the ring never holds    *)
(* more than `capacity' items and its index stays inside the array.        *)
TypeOK ==
  /\ items \in [0 .. capacity - 1 -> Items \cup {NULL}]
  /\ size \in 0 .. capacity
  /\ front \in 0 .. capacity - 1
  /\ mutex \in Threads \cup {NoThread}
  /\ cond_full \in SUBSET Producers
  /\ cond_empty \in SUBSET Consumers
  /\ pc \in [Threads -> {"idle", "lock", "check", "wait", "try", "poll",
                         "got"}]
  /\ item \in [Threads -> Items \cup {NULL}]
  /\ offered \in SUBSET Items
  /\ accepted \in SUBSET Items
  /\ used \in [Items -> Nat]
  /\ faults \in 0 .. MaxFaults

(* Where an item can be.                                                   *)
InQueue(x) ==
  \E i \in 0 .. size - 1 : items[Slot(front, i, capacity)] = x
InHand(x) == \E c \in Consumers : item[c] = x

(* Every item whose enqueue returned 0 is in the queue, with one consumer, *)
(* or was used exactly once; no item is in two places; and an item whose   *)
(* enqueue failed is nowhere.                                              *)
Conserved ==
  \A x \in Items :
    /\ x \in accepted => InQueue(x) \/ InHand(x) \/ used[x] = 1
    /\ x \notin accepted => ~InQueue(x) /\ ~InHand(x) /\ used[x] = 0
    /\ used[x] > 0 => used[x] = 1 /\ ~InQueue(x) /\ ~InHand(x)
    /\ InQueue(x) => ~InHand(x)
    /\ \A c, d \in Consumers : item[c] = x /\ item[d] = x => c = d
    /\ \A i, j \in 0 .. size - 1 :
         /\ items[Slot(front, i, capacity)] = x
         /\ items[Slot(front, j, capacity)] = x
         => i = j

(* The threads of S that are past the sleep and hold or want the mutex.    *)
Woken(S) == {t \in S : pc[t] = "check" \/ (pc[t] = "wait" /\ ~Asleep(t))}

(* One pthread_cond_signal per item is enough: as long as a consumer       *)
(* sleeps, at least as many consumers are awake in queue_dequeue as there  *)
(* are items, and as long as a producer sleeps, at least as many producers *)
(* are awake in queue_enqueue as there are free slots.  It holds although  *)
(* consumers that were not woken, and queue_try_dequeue, take items first. *)
EnoughAwake ==
  /\ cond_empty # {} => size <= Cardinality(Woken(Consumers))
  /\ cond_full # {} => capacity - size <= Cardinality(Woken(Producers))

(* queue.c implements a bounded FIFO with one receiver per item.           *)
Fifo == INSTANCE BoundedFifo WITH
  Takers <- Consumers, Nothing <- NULL, Capacity <- capacity,
  q <- Contents(items, front, size, capacity),
  hand <- [c \in Consumers |-> item[c]]

(* queue_enqueue, queue_dequeue and queue_try_dequeue implement            *)
(* BoundedFifo, also when pthread calls fail.                              *)
ImplementsFifo == Fifo!Spec

=============================================================================
