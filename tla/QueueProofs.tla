----------------------------- MODULE QueueProofs -----------------------------
(***************************************************************************)
(* What holds of queue.c and its callers for every number of producers and *)
(* consumers, every set of items, every capacity and every number of       *)
(* failed pthread calls and spurious wake-ups.                             *)
(***************************************************************************)
EXTENDS QueueCallers, QueueBench, RingProofs, FiniteSetTheorems

(* The kinds of threads are disjoint.                                      *)
LEMMA QueueFacts ==
  /\ capacity \in Nat \ {0} /\ MaxFaults \in Nat
  /\ Threads = Producers \cup Consumers
  /\ \A p \in Producers : p \notin Consumers /\ p # NoThread /\ p \in Threads
  /\ \A c \in Consumers : c \notin Producers /\ c # NoThread /\ c \in Threads
  /\ NULL \notin Items
BY QueueAssumption DEF Threads

-----------------------------------------------------------------------------
(* The items in the queue.                                                 *)
Queued == RingEntries(items, front, size, capacity)

(* Which thread has an item: a producer inside queue_enqueue, a consumer   *)
(* that got one.  What is queued is an item, never NULL.                   *)
CallInv ==
  /\ \A p \in Producers : pc[p] \in {"idle", "lock", "check", "wait"}
  /\ \A p \in Producers : pc[p] # "idle" => item[p] \in Items
  /\ \A c \in Consumers : pc[c] = "got" <=> item[c] # NULL
  /\ Queued \subseteq Items

(* The mutex is held by the thread that is in its section.                 *)
MutexInv ==
  \A t \in Threads : pc[t] \in {"check", "poll"} <=> mutex = t

(* Only a thread inside pthread_cond_wait sleeps.                          *)
SleepInv == \A t \in Threads : Asleep(t) => pc[t] = "wait"

(* Where the items are: offered by one producer, queued once, in one       *)
(* consumer's hands, or used.                                              *)
ItemInv ==
  /\ accepted \subseteq offered
  /\ Queued \subseteq accepted
  /\ RingDistinct(items, front, size, capacity)
  /\ \A p \in Producers : item[p] # NULL => item[p] \in offered \ accepted
  /\ \A p, r \in Producers : item[p] = item[r] /\ item[p] # NULL => p = r
  /\ \A c \in Consumers :
       item[c] # NULL => /\ item[c] \in accepted \ Queued
                         /\ used[item[c]] = 0
  /\ \A c, d \in Consumers : item[c] = item[d] /\ item[c] # NULL => c = d
  /\ \A x \in Items :
       /\ used[x] \in {0, 1}
       /\ x \in Queued \/ x \notin accepted => used[x] = 0
       /\ x \in accepted => x \in Queued \/ used[x] = 1 \/ InHand(x)

-----------------------------------------------------------------------------
(* A step of the callers is a step of queue.c or changes nothing of it.    *)
LEMMA StepCases ==
  ASSUME [CallersNext]_vars
  PROVE  \/ \E t \in Threads : Lock(t) \/ LockFails(t) \/ SpuriousWakeup(t)
         \/ \E p \in Producers :
              \/ EnqueueWaits(p) \/ EnqueueWaitFails(p) \/ Put(p)
              \/ \E x \in Items : EnqueueCall(p, x)
         \/ \E c \in Consumers :
              \/ DequeueCall(c) \/ DequeueWaits(c) \/ DequeueWaitFails(c)
              \/ DequeueTake(c) \/ TryDequeueCall(c) \/ TryLock(c)
              \/ TryBusy(c) \/ TryTake(c) \/ TryEmpty(c) \/ Use(c)
         \/ UNCHANGED queueVars
<1>1. ASSUME NEW p \in Producers, ProducerStep(p) \/ \E x \in Items : Produce(p, x)
      PROVE  \/ Lock(p) \/ LockFails(p)
             \/ EnqueueWaits(p) \/ EnqueueWaitFails(p) \/ Put(p)
             \/ \E x \in Items : EnqueueCall(p, x)
  BY <1>1 DEF ProducerStep, Produce, EnqueueStep
<1>2. ASSUME NEW c \in Consumers, ConsumerStep(c) \/ Poll(c)
      PROVE  \/ Lock(c) \/ LockFails(c)
             \/ DequeueCall(c) \/ DequeueWaits(c) \/ DequeueWaitFails(c)
             \/ DequeueTake(c) \/ TryDequeueCall(c) \/ TryLock(c)
             \/ TryBusy(c) \/ TryTake(c) \/ TryEmpty(c) \/ Use(c)
  BY <1>2 DEF ConsumerStep, Poll, DequeueStep, TryDequeueStep
<1>3. ASSUME NEW t \in Threads, WakesUnasked(t) PROVE SpuriousWakeup(t)
  BY <1>3 DEF WakesUnasked
<1>4. Rest \/ UNCHANGED vars => UNCHANGED queueVars
  BY DEF Rest, vars
<1>5. CASE \E p \in Producers : ProducerStep(p) \/ \E x \in Items : Produce(p, x)
  BY <1>1, <1>5, QueueFacts
<1>6. CASE \E c \in Consumers : ConsumerStep(c) \/ Poll(c)
  BY <1>2, <1>6, QueueFacts
<1>7. CASE \E t \in Threads : WakesUnasked(t)
  BY <1>3, <1>7
<1>8. CASE Rest \/ UNCHANGED vars
  BY <1>4, <1>8
<1> QED
  BY <1>5, <1>6, <1>7, <1>8 DEF CallersNext

-----------------------------------------------------------------------------
(* What a step does to the items: the mutex, the condition variables and   *)
(* the labels are left out.                                                *)
itemVars == <<items, size, front, item, offered, accepted, used>>

(* A thread gives up its call, and with it the item it wanted to enqueue.  *)
Drops(t) ==
  /\ item' = [item EXCEPT ![t] = NULL]
  /\ UNCHANGED <<items, size, front, offered, accepted, used>>

Offers(p, x) ==
  /\ x \notin offered
  /\ offered' = offered \cup {x}
  /\ item' = [item EXCEPT ![p] = x]
  /\ UNCHANGED <<items, size, front, accepted, used>>

Puts(p) ==
  /\ item[p] \in Items
  /\ size < capacity
  /\ items' = [items EXCEPT ![Slot(front, size, capacity)] = item[p]]
  /\ size' = size + 1
  /\ accepted' = accepted \cup {item[p]}
  /\ item' = [item EXCEPT ![p] = NULL]
  /\ UNCHANGED <<front, offered, used>>

Takes(c) ==
  /\ item[c] = NULL
  /\ size > 0
  /\ item' = [item EXCEPT ![c] = items[front]]
  /\ front' = Slot(front, 1, capacity)
  /\ size' = size - 1
  /\ UNCHANGED <<items, offered, accepted, used>>

Uses(c) ==
  /\ item[c] # NULL
  /\ used' = [used EXCEPT ![item[c]] = @ + 1]
  /\ item' = [item EXCEPT ![c] = NULL]
  /\ UNCHANGED <<items, size, front, offered, accepted>>

(* One of these happens, or the items are left alone.                      *)
MovesItems ==
  \/ \E p \in Producers :
       Drops(p) \/ Puts(p) \/ \E x \in Items : Offers(p, x)
  \/ \E c \in Consumers : Takes(c) \/ Uses(c)
  \/ UNCHANGED itemVars

(* Every step of the callers is such a step.                               *)
LEMMA ItemSteps ==
  ASSUME TypeOK, CallInv, [CallersNext]_vars
  PROVE  MovesItems
<1> USE QueueFacts
<1>1. ASSUME NEW t \in Threads, Lock(t) \/ SpuriousWakeup(t)
      PROVE  UNCHANGED itemVars
  BY <1>1 DEF Lock, SpuriousWakeup, itemVars, ringVars, history
<1>2. ASSUME NEW p \in Producers, LockFails(p) \/ EnqueueWaitFails(p)
      PROVE  Drops(p)
  BY <1>2 DEF LockFails, EnqueueWaitFails, Drops, ringVars, history
<1>3. ASSUME NEW c \in Consumers, LockFails(c) PROVE UNCHANGED itemVars
  <2>1. item[c] = NULL
    BY <1>3 DEF LockFails, CallInv
  <2>2. item' = item
    BY <1>3, <2>1 DEF LockFails, TypeOK
  <2> QED
    BY <1>3, <2>2 DEF LockFails, itemVars, ringVars, history
<1>4. ASSUME NEW p \in Producers, EnqueueWaits(p) PROVE UNCHANGED itemVars
  BY <1>4 DEF EnqueueWaits, itemVars, ringVars, history
<1>5. ASSUME NEW p \in Producers, Put(p) PROVE Puts(p)
  <2>1. item[p] \in Items
    BY <1>5 DEF Put, CallInv
  <2>2. size < capacity
    BY <1>5 DEF Put, Full, TypeOK
  <2> QED
    BY <1>5, <2>1, <2>2 DEF Put, Puts, back
<1>6. ASSUME NEW p \in Producers, NEW x \in Items, EnqueueCall(p, x)
      PROVE  Offers(p, x)
  BY <1>6 DEF EnqueueCall, Offers, ringVars
<1>7. ASSUME NEW c \in Consumers, DequeueTake(c) \/ TryTake(c) PROVE Takes(c)
  <2>1. item[c] = NULL
    BY <1>7 DEF DequeueTake, TryTake, CallInv
  <2> QED
    BY <1>7, <2>1 DEF DequeueTake, TryTake, Remove, Takes, AdvanceFront, history
<1>8. ASSUME NEW c \in Consumers, Use(c) PROVE Uses(c)
  BY <1>8 DEF Use, Uses, CallInv, ringVars
<1>9. ASSUME NEW c \in Consumers,
             \/ DequeueCall(c) \/ DequeueWaits(c) \/ DequeueWaitFails(c)
             \/ TryDequeueCall(c) \/ TryLock(c) \/ TryBusy(c) \/ TryEmpty(c)
      PROVE  UNCHANGED itemVars
  BY <1>9 DEF DequeueCall, DequeueWaits, DequeueWaitFails, TryDequeueCall,
     TryLock, TryBusy, TryEmpty, itemVars, ringVars, history
<1>10. UNCHANGED queueVars => UNCHANGED itemVars
  BY DEF queueVars, itemVars
<1> HIDE QueueFacts
<1>11. ASSUME NEW t \in Threads, LockFails(t)
       PROVE  (\E p \in Producers : Drops(p)) \/ UNCHANGED itemVars
  BY <1>2, <1>3, <1>11 DEF Threads
<1> QED
  BY <1>1, <1>2, <1>4, <1>5, <1>6, <1>7, <1>8, <1>9, <1>10, <1>11, StepCases
  DEF MovesItems

-----------------------------------------------------------------------------
(* Types, and which thread has an item.                                    *)

(* The types of the items, the ring and the history.                       *)
ItemTypes ==
  /\ items \in [0 .. capacity - 1 -> Items \cup {NULL}]
  /\ size \in 0 .. capacity
  /\ front \in 0 .. capacity - 1
  /\ item \in [Threads -> Items \cup {NULL}]
  /\ offered \in SUBSET Items
  /\ accepted \in SUBSET Items
  /\ used \in [Items -> Nat]

(* The ring after queue_enqueue.                                           *)
LEMMA QueuedAfterPut ==
  ASSUME ItemTypes, NEW p \in Producers, Puts(p)
  PROVE  /\ Queued' = Queued \cup {item[p]}
         /\ RingDistinct(items, front, size, capacity) /\ item[p] \notin Queued
              => RingDistinct(items, front, size, capacity)'
<1> USE QueueFacts
<1>1. /\ front \in 0 .. capacity - 1 /\ size \in 0 .. capacity - 1
      /\ front \in Nat /\ size \in Nat
  BY DEF ItemTypes, Puts
<1>2. Slot(front, size, capacity) \in 0 .. capacity - 1
  BY <1>1, SlotInRing
<1>3. /\ items'[Slot(front, size, capacity)] = item[p]
      /\ \A k \in 0 .. capacity - 1 :
           k # Slot(front, size, capacity) => items'[k] = items[k]
  BY <1>2 DEF ItemTypes, Puts
<1>4. front' = front /\ size' = size + 1
  BY DEF Puts
<1> DEFINE a == items
           b == items'
           x == item[p]
           k == Slot(front, size, capacity)
<1>5. /\ b[k] = x /\ \A j \in 0 .. capacity - 1 : j # k => b[j] = a[j]
  BY <1>3
<1> HIDE DEF a, b, x
<1>6. /\ RingEntries(b, front, size + 1, capacity)
           = RingEntries(a, front, size, capacity) \cup {x}
      /\ RingDistinct(a, front, size, capacity)
           /\ x \notin RingEntries(a, front, size, capacity)
           => RingDistinct(b, front, size + 1, capacity)
  BY <1>1, <1>5, EntriesAfterPut
<1> QED
  BY <1>4, <1>6 DEF Queued, a, b, x

(* The ring after queue_dequeue.                                           *)
LEMMA QueuedAfterTake ==
  ASSUME ItemTypes, NEW c \in Consumers, Takes(c)
  PROVE  /\ items[front] \in Queued /\ Queued' \subseteq Queued
         /\ RingDistinct(items, front, size, capacity) =>
              /\ Queued' = Queued \ {items[front]}
              /\ RingDistinct(items, front, size, capacity)'
<1> USE QueueFacts
<1>1. front \in 0 .. capacity - 1 /\ size \in 1 .. capacity
  BY DEF ItemTypes, Takes
<1>2. items' = items /\ front' = Slot(front, 1, capacity) /\ size' = size - 1
  BY DEF Takes
<1>3. items[front] \in Queued /\ Queued' \subseteq Queued
  BY <1>1, <1>2, EntriesOnlyLeave DEF Queued
<1>4. ASSUME RingDistinct(items, front, size, capacity)
      PROVE  /\ Queued' = Queued \ {items[front]}
             /\ RingDistinct(items, front, size, capacity)'
  BY <1>1, <1>2, <1>4, EntriesAfterTake DEF Queued
<1> QED
  BY <1>3, <1>4

(* The ring stays as it is.                                                *)
LEMMA QueuedUnchanged ==
  ASSUME UNCHANGED <<items, size, front>>
  PROVE  /\ Queued' = Queued
         /\ RingDistinct(items, front, size, capacity)'
              <=> RingDistinct(items, front, size, capacity)
BY DEF Queued, RingEntries, RingDistinct

(* Such a step keeps the types of the items.                               *)
LEMMA MovesKeepTypes ==
  ASSUME ItemTypes, Queued \subseteq Items, MovesItems
  PROVE  ItemTypes' /\ Queued' \subseteq Items
<1> USE QueueFacts
<1>1. ASSUME NEW p \in Producers, Drops(p)
      PROVE  ItemTypes' /\ Queued' \subseteq Items
  BY <1>1, QueuedUnchanged DEF ItemTypes, Drops
<1>2. ASSUME NEW p \in Producers, NEW x \in Items, Offers(p, x)
      PROVE  ItemTypes' /\ Queued' \subseteq Items
  BY <1>2, QueuedUnchanged DEF ItemTypes, Offers
<1>3. ASSUME NEW p \in Producers, Puts(p)
      PROVE  ItemTypes' /\ Queued' \subseteq Items
  <2>1. Queued' \subseteq Items
    BY <1>3, QueuedAfterPut DEF Puts
  <2>2. size' \in 0 .. capacity
    BY <1>3 DEF ItemTypes, Puts
  <2>3. items' \in [0 .. capacity - 1 -> Items \cup {NULL}]
    BY <1>3 DEF ItemTypes, Puts
  <2> QED
    BY <1>3, <2>1, <2>2, <2>3 DEF ItemTypes, Puts
<1>4. ASSUME NEW c \in Consumers, Takes(c)
      PROVE  ItemTypes' /\ Queued' \subseteq Items
  <2>1. Queued' \subseteq Items /\ items[front] \in Items
    BY <1>4, QueuedAfterTake
  <2>2. size' \in 0 .. capacity
    BY <1>4 DEF ItemTypes, Takes
  <2>3. front' \in 0 .. capacity - 1
    BY <1>4, SlotInRing DEF ItemTypes, Takes
  <2>4. item' \in [Threads -> Items \cup {NULL}]
    BY <1>4, <2>1 DEF ItemTypes, Takes
  <2> QED
    BY <1>4, <2>1, <2>2, <2>3, <2>4 DEF ItemTypes, Takes
<1>5. ASSUME NEW c \in Consumers, Uses(c)
      PROVE  ItemTypes' /\ Queued' \subseteq Items
  <2>1. item[c] \in Items
    BY <1>5 DEF ItemTypes, Uses
  <2>2. used' \in [Items -> Nat]
    BY <1>5, <2>1 DEF ItemTypes, Uses
  <2>3. item' \in [Threads -> Items \cup {NULL}]
    BY <1>5 DEF ItemTypes, Uses
  <2> QED
    BY <1>5, <2>2, <2>3, QueuedUnchanged DEF ItemTypes, Uses
<1>6. CASE UNCHANGED itemVars
  BY <1>6, QueuedUnchanged DEF ItemTypes, itemVars
<1> QED
  BY <1>1, <1>2, <1>3, <1>4, <1>5, <1>6 DEF MovesItems

(* Every step of the callers keeps the types of the items.                 *)
LEMMA ItemTypesStep ==
  ASSUME TypeOK, CallInv, [CallersNext]_vars
  PROVE  ItemTypes' /\ Queued' \subseteq Items
<1>1. ItemTypes /\ Queued \subseteq Items
  BY DEF TypeOK, ItemTypes, CallInv
<1> QED
  BY <1>1, ItemSteps, MovesKeepTypes

(* The types of the mutex, the condition variables and the labels.         *)
Labels == {"idle", "lock", "check", "wait", "try", "poll", "got"}

SyncTypes ==
  /\ mutex \in Threads \cup {NoThread}
  /\ cond_full \in SUBSET Producers
  /\ cond_empty \in SUBSET Consumers
  /\ pc \in [Threads -> Labels]
  /\ faults \in 0 .. MaxFaults

(* The part of CallInv that is about one thread.                           *)
HasItem(t) ==
  /\ t \in Producers => /\ pc[t] \in {"idle", "lock", "check", "wait"}
                        /\ pc[t] # "idle" => item[t] \in Items
  /\ t \in Consumers => (pc[t] = "got" <=> item[t] # NULL)

SyncInv ==
  /\ SyncTypes
  /\ MutexInv
  /\ SleepInv
  /\ \A t \in Threads : HasItem(t)

(* What a step of thread t does outside the ring: nothing to the others,   *)
(* it takes the mutex when it is free or gives it up when t has it, and    *)
(* nobody but t falls asleep.                                              *)
Runs(t) ==
  /\ \A u \in Threads : u # t => pc'[u] = pc[u] /\ item'[u] = item[u]
  /\ HasItem(t)'
  /\ \/ /\ mutex' = mutex
        /\ pc'[t] \in {"check", "poll"} <=> pc[t] \in {"check", "poll"}
     \/ mutex = NoThread /\ mutex' = t /\ pc'[t] \in {"check", "poll"}
     \/ /\ pc[t] \in {"check", "poll"}
        /\ mutex' = NoThread
        /\ pc'[t] \notin {"check", "poll"}
  /\ \A u \in Threads : Asleep(u)' => Asleep(u) \/ u = t
  /\ Asleep(t)' => pc'[t] = "wait"

(* Such a step keeps the invariant.                                        *)
LEMMA RunsKeeps ==
  ASSUME SyncInv, SyncTypes', NEW t \in Threads, Runs(t)
  PROVE  SyncInv'
<1> USE QueueFacts
<1>1. MutexInv'
  <2> SUFFICES ASSUME NEW u \in Threads
               PROVE  pc'[u] \in {"check", "poll"} <=> mutex' = u
    BY DEF MutexInv
  <2>1. /\ pc[u] \in {"check", "poll"} <=> mutex = u
        /\ pc[t] \in {"check", "poll"} <=> mutex = t
        /\ u # NoThread
    BY DEF SyncInv, MutexInv
  <2>2. CASE u = t
    BY <2>1, <2>2 DEF Runs
  <2>3. CASE u # t
    BY <2>1, <2>3 DEF Runs
  <2> QED
    BY <2>2, <2>3
<1>2. SleepInv'
  BY DEF SyncInv, SleepInv, Runs
<1>3. \A u \in Threads : HasItem(u)'
  <2> SUFFICES ASSUME NEW u \in Threads PROVE HasItem(u)'
    OBVIOUS
  <2>1. CASE u = t
    BY <2>1 DEF Runs
  <2>2. CASE u # t
    BY <2>2 DEF Runs, HasItem, SyncInv
  <2> QED
    BY <2>1, <2>2
<1> QED
  BY <1>1, <1>2, <1>3 DEF SyncInv

(* A signal wakes at most one sleeper and puts nobody to sleep.            *)
LEMMA SignalFacts ==
  ASSUME NEW S, NEW T \in AfterSignal(S)
  PROVE  /\ T \subseteq S
         /\ S = {} => T = {}
         /\ S # {} => \E t \in S : T = S \ {t}
BY DEF AfterSignal

(* A jump stays among the labels.                                          *)
LEMMA GotoTyped ==
  ASSUME pc \in [Threads -> Labels], NEW t \in Threads, NEW l \in Labels,
         Goto(t, l)
  PROVE  /\ pc' \in [Threads -> Labels]
         /\ pc'[t] = l
         /\ \A u \in Threads : u # t => pc'[u] = pc[u]
BY DEF Goto

(* Every step keeps the discipline: one case per action.                   *)
LEMMA SyncStep ==
  ASSUME TypeOK, SyncInv, Queued \subseteq Items, [CallersNext]_vars
  PROVE  SyncInv'
<1> USE QueueFacts
<1>0. /\ pc \in [Threads -> Labels] /\ SyncTypes
      /\ item \in [Threads -> Items \cup {NULL}]
      /\ MutexInv /\ SleepInv /\ \A t \in Threads : HasItem(t)
  BY DEF SyncInv, SyncTypes, TypeOK
<1>1. ASSUME NEW t \in Threads, Lock(t) PROVE SyncInv'
  <2>1. pc' \in [Threads -> Labels] /\ pc'[t] = "check"
        /\ \A u \in Threads : u # t => pc'[u] = pc[u]
    BY <1>0, <1>1, GotoTyped DEF Lock, Labels
  <2>2. SyncTypes'
    BY <1>0, <1>1, <2>1 DEF Lock, SyncTypes
  <2>3. HasItem(t)'
    BY <1>0, <1>1, <2>1 DEF Lock, HasItem
  <2>4. Runs(t)
    BY <1>0, <1>1, <2>1, <2>3 DEF Lock, Runs, SleepInv, Asleep
  <2> QED
    BY <2>2, <2>4, RunsKeeps
<1>2. ASSUME NEW t \in Threads, LockFails(t) PROVE SyncInv'
  <2>1. pc' \in [Threads -> Labels] /\ pc'[t] = "idle"
        /\ \A u \in Threads : u # t => pc'[u] = pc[u]
    BY <1>0, <1>2, GotoTyped DEF LockFails, Labels
  <2>2. SyncTypes'
    BY <1>0, <1>2, <2>1 DEF LockFails, SyncTypes, Fault
  <2>3. HasItem(t)'
    BY <1>0, <1>2, <2>1 DEF LockFails, HasItem
  <2>4. Runs(t)
    BY <1>0, <1>2, <2>1, <2>3 DEF LockFails, Runs, SleepInv, Asleep
  <2> QED
    BY <2>2, <2>4, RunsKeeps
<1>3. ASSUME NEW t \in Threads, SpuriousWakeup(t) PROVE SyncInv'
  <2>2. SyncTypes'
    BY <1>0, <1>3 DEF SpuriousWakeup, SyncTypes, Fault
  <2>3. HasItem(t)'
    BY <1>0, <1>3 DEF SpuriousWakeup, HasItem
  <2>4. Runs(t)
    BY <1>0, <1>3, <2>3 DEF SpuriousWakeup, Runs, SleepInv, Asleep
  <2> QED
    BY <2>2, <2>4, RunsKeeps
<1>4. ASSUME NEW p \in Producers, EnqueueWaits(p) PROVE SyncInv'
  <2>1. pc' \in [Threads -> Labels] /\ pc'[p] = "wait"
        /\ \A u \in Threads : u # p => pc'[u] = pc[u]
    BY <1>0, <1>4, GotoTyped DEF EnqueueWaits, Labels
  <2>2. SyncTypes'
    BY <1>0, <1>4, <2>1 DEF EnqueueWaits, SyncTypes
  <2>3. HasItem(p)'
    BY <1>0, <1>4, <2>1 DEF EnqueueWaits, HasItem
  <2>4. Runs(p)
    BY <1>0, <1>4, <2>1, <2>3 DEF EnqueueWaits, Runs, SleepInv, Asleep
  <2> QED
    BY <2>2, <2>4, RunsKeeps
<1>5. ASSUME NEW p \in Producers, EnqueueWaitFails(p) PROVE SyncInv'
  <2>1. pc' \in [Threads -> Labels] /\ pc'[p] = "idle"
        /\ \A u \in Threads : u # p => pc'[u] = pc[u]
    BY <1>0, <1>5, GotoTyped DEF EnqueueWaitFails, Labels
  <2>2. SyncTypes'
    BY <1>0, <1>5, <2>1 DEF EnqueueWaitFails, SyncTypes, Fault
  <2>3. HasItem(p)'
    BY <1>0, <1>5, <2>1 DEF EnqueueWaitFails, HasItem
  <2>4. Runs(p)
    BY <1>0, <1>5, <2>1, <2>3 DEF EnqueueWaitFails, Runs, SleepInv, Asleep
  <2> QED
    BY <2>2, <2>4, RunsKeeps
<1>6. ASSUME NEW p \in Producers, Put(p) PROVE SyncInv'
  <2>1. pc' \in [Threads -> Labels] /\ pc'[p] = "idle"
        /\ \A u \in Threads : u # p => pc'[u] = pc[u]
    BY <1>0, <1>6, GotoTyped DEF Put, Labels
  <2>2. cond_empty' \subseteq cond_empty
    BY <1>6, SignalFacts DEF Put, SignalItem
  <2>3. SyncTypes'
    BY <1>0, <1>6, <2>1, <2>2 DEF Put, SyncTypes
  <2>4. HasItem(p)'
    BY <1>0, <1>6, <2>1 DEF Put, HasItem
  <2>5. Runs(p)
    BY <1>0, <1>6, <2>1, <2>2, <2>4 DEF Put, Runs, SleepInv, Asleep
  <2> QED
    BY <2>3, <2>5, RunsKeeps
<1>7. ASSUME NEW p \in Producers, NEW x \in Items, EnqueueCall(p, x)
      PROVE  SyncInv'
  <2>1. pc' \in [Threads -> Labels] /\ pc'[p] = "lock"
        /\ \A u \in Threads : u # p => pc'[u] = pc[u]
    BY <1>0, <1>7, GotoTyped DEF EnqueueCall, Labels
  <2>2. SyncTypes'
    BY <1>0, <1>7, <2>1 DEF EnqueueCall, SyncTypes, syncVars
  <2>3. HasItem(p)'
    BY <1>0, <1>7, <2>1 DEF EnqueueCall, HasItem
  <2>4. Runs(p)
    BY <1>0, <1>7, <2>1, <2>3 DEF EnqueueCall, Runs, SleepInv, Asleep, syncVars
  <2> QED
    BY <2>2, <2>4, RunsKeeps
<1>8. ASSUME NEW c \in Consumers, DequeueTake(c) \/ TryTake(c) PROVE SyncInv'
  <2>1. pc' \in [Threads -> Labels] /\ pc'[c] = "got"
        /\ \A u \in Threads : u # c => pc'[u] = pc[u]
    BY <1>0, <1>8, GotoTyped DEF DequeueTake, TryTake, Remove, Labels
  <2>2. cond_full' \subseteq cond_full
    BY <1>8, SignalFacts DEF DequeueTake, TryTake, Remove, SignalRoom
  <2>3. SyncTypes'
    BY <1>0, <1>8, <2>1, <2>2 DEF DequeueTake, TryTake, Remove, SyncTypes
  <2>4. items[front] \in Items
    <3>1. front \in 0 .. capacity - 1 /\ size \in 1 .. capacity
      BY <1>8 DEF TypeOK, DequeueTake, TryTake, Remove
    <3> QED
      BY <3>1, EntriesOnlyLeave DEF Queued
  <2>5. HasItem(c)'
    BY <1>0, <1>8, <2>1, <2>4 DEF DequeueTake, TryTake, Remove, HasItem
  <2>6. Runs(c)
    BY <1>0, <1>8, <2>1, <2>2, <2>5
    DEF DequeueTake, TryTake, Remove, Runs, SleepInv, Asleep
  <2> QED
    BY <2>3, <2>6, RunsKeeps
<1>9. ASSUME NEW c \in Consumers,
             \/ DequeueCall(c) \/ TryDequeueCall(c) \/ TryBusy(c)
      PROVE  SyncInv'
  <2>1. pc' \in [Threads -> Labels] /\ pc'[c] \in {"lock", "try", "idle"}
        /\ \A u \in Threads : u # c => pc'[u] = pc[u]
    BY <1>0, <1>9, GotoTyped DEF DequeueCall, TryDequeueCall, TryBusy, Labels
  <2>2. SyncTypes'
    BY <1>0, <1>9, <2>1
    DEF DequeueCall, TryDequeueCall, TryBusy, SyncTypes, syncVars
  <2>3. HasItem(c)'
    BY <1>0, <1>9, <2>1 DEF DequeueCall, TryDequeueCall, TryBusy, HasItem
  <2>4. Runs(c)
    BY <1>0, <1>9, <2>1, <2>3
    DEF DequeueCall, TryDequeueCall, TryBusy, Runs, SleepInv, Asleep, syncVars
  <2> QED
    BY <2>2, <2>4, RunsKeeps
<1>10. ASSUME NEW c \in Consumers,
              \/ DequeueWaits(c) \/ DequeueWaitFails(c) \/ TryEmpty(c)
       PROVE  SyncInv'
  <2>1. pc' \in [Threads -> Labels] /\ pc'[c] \in {"wait", "idle"}
        /\ (pc'[c] = "wait" <=> DequeueWaits(c))
        /\ \A u \in Threads : u # c => pc'[u] = pc[u]
    BY <1>0, <1>10, GotoTyped DEF DequeueWaits, DequeueWaitFails, TryEmpty, Labels
  <2>2. SyncTypes'
    BY <1>0, <1>10, <2>1
    DEF DequeueWaits, DequeueWaitFails, TryEmpty, SyncTypes, Fault
  <2>3. HasItem(c)'
    BY <1>0, <1>10, <2>1 DEF DequeueWaits, DequeueWaitFails, TryEmpty, HasItem
  <2>4. Runs(c)
    BY <1>0, <1>10, <2>1, <2>3
    DEF DequeueWaits, DequeueWaitFails, TryEmpty, Runs, SleepInv, Asleep
  <2> QED
    BY <2>2, <2>4, RunsKeeps
<1>11. ASSUME NEW c \in Consumers, TryLock(c) PROVE SyncInv'
  <2>1. pc' \in [Threads -> Labels] /\ pc'[c] = "poll"
        /\ \A u \in Threads : u # c => pc'[u] = pc[u]
    BY <1>0, <1>11, GotoTyped DEF TryLock, Labels
  <2>2. SyncTypes'
    BY <1>0, <1>11, <2>1 DEF TryLock, SyncTypes
  <2>3. HasItem(c)'
    BY <1>0, <1>11, <2>1 DEF TryLock, HasItem
  <2>4. Runs(c)
    BY <1>0, <1>11, <2>1, <2>3 DEF TryLock, Runs, SleepInv, Asleep
  <2> QED
    BY <2>2, <2>4, RunsKeeps
<1>12. ASSUME NEW c \in Consumers, Use(c) PROVE SyncInv'
  <2>1. pc' \in [Threads -> Labels] /\ pc'[c] = "idle"
        /\ \A u \in Threads : u # c => pc'[u] = pc[u]
    BY <1>0, <1>12, GotoTyped DEF Use, Labels
  <2>2. SyncTypes'
    BY <1>0, <1>12, <2>1 DEF Use, SyncTypes, syncVars
  <2>3. HasItem(c)'
    BY <1>0, <1>12, <2>1 DEF Use, HasItem
  <2>4. Runs(c)
    BY <1>0, <1>12, <2>1, <2>3 DEF Use, Runs, SleepInv, Asleep, syncVars
  <2> QED
    BY <2>2, <2>4, RunsKeeps
<1>13. CASE UNCHANGED queueVars
  BY <1>0, <1>13
  DEF queueVars, SyncInv, SyncTypes, MutexInv, SleepInv, Asleep, HasItem
<1> HIDE QueueFacts
<1> QED
  BY <1>1, <1>2, <1>3, <1>4, <1>5, <1>6, <1>7, <1>8, <1>9, <1>10, <1>11, <1>12,
     <1>13, StepCases

(* All of it together.                                                     *)
BaseInv == TypeOK /\ CallInv /\ SyncInv

(* The parts say the same as the whole.                                    *)
LEMMA BaseParts ==
  BaseInv <=> ItemTypes /\ Queued \subseteq Items /\ SyncInv
BY DEF BaseInv, TypeOK, CallInv, ItemTypes, SyncInv, SyncTypes, HasItem,
   Labels, Threads

(* The same of the next state.                                             *)
LEMMA BasePartsNext ==
  BaseInv' <=> ItemTypes' /\ Queued' \subseteq Items /\ SyncInv'
BY DEF BaseInv, TypeOK, CallInv, ItemTypes, SyncInv, SyncTypes, HasItem,
   Labels, Threads

(* A queue that queue_create returns is empty and nobody uses it.          *)
LEMMA BaseInit == CallersInit => BaseInv
<1> SUFFICES ASSUME CallersInit PROVE BaseInv
  OBVIOUS
<1> USE QueueFacts
<1>1. ItemTypes
  BY DEF CallersInit, Init, ItemTypes
<1>2. Queued \subseteq Items
  BY DEF CallersInit, Init, Queued, RingEntries
<1>3. SyncTypes
  BY DEF CallersInit, Init, SyncTypes, Labels
<1>4. MutexInv /\ SleepInv
  BY DEF CallersInit, Init, MutexInv, SleepInv, Asleep
<1>5. \A t \in Threads : HasItem(t)
  BY DEF CallersInit, Init, HasItem
<1> QED
  BY <1>1, <1>2, <1>3, <1>4, <1>5, BaseParts DEF SyncInv

(* Every step keeps the types and the discipline.                          *)
LEMMA BaseStep == BaseInv /\ [CallersNext]_vars => BaseInv'
<1> SUFFICES ASSUME BaseInv, [CallersNext]_vars PROVE BaseInv'
  OBVIOUS
<1>1. ItemTypes' /\ Queued' \subseteq Items
  BY ItemTypesStep DEF BaseInv
<1>2. SyncInv'
  BY SyncStep DEF BaseInv, CallInv
<1> QED
  BY <1>1, <1>2, BasePartsNext

(* Types, mutual exclusion and who has an item, in every state.            *)
THEOREM BaseCorrect == CallersSpec => []BaseInv
BY BaseInit, BaseStep, PTL DEF CallersSpec

(* The ring never holds more than `capacity' items, its index stays in the *)
(* array, and a consumer is only ever handed an item.                      *)
THEOREM QueueTypes == CallersSpec => []TypeOK
<1>1. BaseInv => TypeOK
  BY DEF BaseInv
<1> QED
  BY <1>1, BaseCorrect, PTL

-----------------------------------------------------------------------------
(* No item is lost, doubled or invented.                                   *)

(* ItemInv is kept: one case per thing a step can do to items.             *)
LEMMA MovesKeepItems ==
  ASSUME ItemTypes, ItemInv, MovesItems
  PROVE  ItemInv'
<1> USE QueueFacts
<1>0. ItemTypes
  OBVIOUS
<1>1. ASSUME NEW p \in Producers, Drops(p) PROVE ItemInv'
  <2>1. /\ Queued' = Queued
        /\ RingDistinct(items, front, size, capacity)'
    BY <1>1, QueuedUnchanged DEF Drops, ItemInv
  <2>2. item'[p] = NULL /\ \A t \in Threads : t # p => item'[t] = item[t]
    BY <1>0, <1>1 DEF Drops, ItemTypes
  <2>3. \A x : InHand(x)' <=> InHand(x)
    BY <2>2 DEF InHand
  <2>4. UNCHANGED <<offered, accepted, used>>
    BY <1>1 DEF Drops
  <2> QED
    BY <2>1, <2>2, <2>3, <2>4 DEF ItemInv
<1>2. ASSUME NEW p \in Producers, NEW x \in Items, Offers(p, x)
      PROVE  ItemInv'
  <2>1. /\ Queued' = Queued
        /\ RingDistinct(items, front, size, capacity)'
    BY <1>2, QueuedUnchanged DEF Offers, ItemInv
  <2>2. item'[p] = x /\ \A t \in Threads : t # p => item'[t] = item[t]
    BY <1>0, <1>2 DEF Offers, ItemTypes
  <2>3. \A y : InHand(y)' <=> InHand(y)
    BY <2>2 DEF InHand
  <2>4. x \notin offered /\ offered' = offered \cup {x}
        /\ UNCHANGED <<accepted, used>>
    BY <1>2 DEF Offers
  <2> QED
    BY <2>1, <2>2, <2>3, <2>4 DEF ItemInv
<1>3. ASSUME NEW p \in Producers, Puts(p) PROVE ItemInv'
  <2>1. item[p] \in Items /\ item[p] \in offered \ accepted /\ item[p] \notin Queued
    BY <1>3 DEF Puts, ItemInv
  <2>2. /\ Queued' = Queued \cup {item[p]}
        /\ RingDistinct(items, front, size, capacity)'
    BY <1>0, <1>3, <2>1, QueuedAfterPut DEF ItemInv
  <2>3. item'[p] = NULL /\ \A t \in Threads : t # p => item'[t] = item[t]
    BY <1>0, <1>3 DEF Puts, ItemTypes
  <2>4. \A y : InHand(y)' <=> InHand(y)
    BY <2>3 DEF InHand
  <2>5. accepted' = accepted \cup {item[p]} /\ UNCHANGED <<offered, used>>
    BY <1>3 DEF Puts
  <2> QED
    BY <2>1, <2>2, <2>3, <2>4, <2>5 DEF ItemInv
<1>4. ASSUME NEW c \in Consumers, Takes(c) PROVE ItemInv'
  <2> DEFINE y == items[front]
  <2>1. /\ y \in Queued
        /\ Queued' = Queued \ {y}
        /\ RingDistinct(items, front, size, capacity)'
    BY <1>0, <1>4, QueuedAfterTake DEF ItemInv
  <2>2. /\ item[c] = NULL /\ item'[c] = y
        /\ \A t \in Threads : t # c => item'[t] = item[t]
    BY <1>0, <1>4 DEF Takes, ItemTypes
  <2>3. UNCHANGED <<offered, accepted, used>>
    BY <1>4 DEF Takes
  <2> HIDE DEF y
  <2>4. y \in accepted /\ y \in Items /\ y # NULL /\ used[y] = 0
    BY <1>0, <2>1 DEF ItemInv, ItemTypes
  <2>5. \A z \in Items : InHand(z)' <=> InHand(z) \/ z = y
    BY <2>2 DEF InHand
  <2> QED
    BY <2>1, <2>2, <2>3, <2>4, <2>5 DEF ItemInv
<1>5. ASSUME NEW c \in Consumers, Uses(c) PROVE ItemInv'
  <2> DEFINE y == item[c]
  <2>1. /\ Queued' = Queued
        /\ RingDistinct(items, front, size, capacity)'
    BY <1>5, QueuedUnchanged DEF Uses, ItemInv
  <2>2. /\ item'[c] = NULL
        /\ \A t \in Threads : t # c => item'[t] = item[t]
    BY <1>0, <1>5 DEF Uses, ItemTypes
  <2>3. UNCHANGED <<offered, accepted>>
    BY <1>5 DEF Uses
  <2>4. y # NULL /\ y \in Items /\ y \in accepted \ Queued /\ used[y] = 0
    BY <1>0, <1>5 DEF Uses, ItemInv, ItemTypes
  <2>5. used'[y] = 1 /\ \A z \in Items : z # y => used'[z] = used[z]
    BY <1>0, <1>5, <2>4 DEF Uses, ItemTypes
  <2>6. \A d \in Consumers : d # c => item[d] # y
    BY <2>4 DEF ItemInv
  <2> HIDE DEF y
  <2>7. \A z \in Items : z # y => (InHand(z)' <=> InHand(z))
    BY <2>2, <2>4 DEF InHand, y
  <2>8. ASSUME NEW d \in Consumers, item'[d] # NULL
        PROVE  /\ item'[d] \in accepted' \ Queued'
               /\ used'[item'[d]] = 0
    <3>1. d # c /\ item'[d] = item[d] /\ item[d] \in Items /\ item[d] # y
      BY <1>0, <2>2, <2>6, <2>8 DEF ItemTypes
    <3>2. item[d] \in accepted \ Queued /\ used[item[d]] = 0
      BY <2>8, <3>1 DEF ItemInv
    <3> QED
      BY <2>1, <2>3, <2>5, <3>1, <3>2
  <2>9. ASSUME NEW x \in Items
        PROVE  /\ used'[x] \in {0, 1}
               /\ x \in Queued' \/ x \notin accepted' => used'[x] = 0
               /\ x \in accepted' => x \in Queued' \/ used'[x] = 1 \/ InHand(x)'
    <3>1. CASE x = y
      BY <2>1, <2>3, <2>4, <2>5, <3>1
    <3>2. CASE x # y
      BY <2>1, <2>3, <2>5, <2>7, <3>2 DEF ItemInv
    <3> QED
      BY <3>1, <3>2
  <2>10. /\ \A p \in Producers : item'[p] # NULL => item'[p] \in offered' \ accepted'
         /\ \A p, r \in Producers : item'[p] = item'[r] /\ item'[p] # NULL => p = r
         /\ \A d, e \in Consumers : item'[d] = item'[e] /\ item'[d] # NULL => d = e
    BY <2>2, <2>3 DEF ItemInv
  <2> QED
    BY <2>1, <2>3, <2>8, <2>9, <2>10 DEF ItemInv
<1>6. CASE UNCHANGED itemVars
  <2>1. Queued' = Queued /\ RingDistinct(items, front, size, capacity)'
    BY <1>6, QueuedUnchanged DEF itemVars, ItemInv
  <2>2. \A x : InHand(x)' <=> InHand(x)
    BY <1>6 DEF itemVars, InHand
  <2>3. UNCHANGED <<item, offered, accepted, used>>
    BY <1>6 DEF itemVars
  <2> QED
    BY <2>1, <2>2, <2>3 DEF ItemInv
<1> HIDE QueueFacts
<1> QED
  BY <1>1, <1>2, <1>3, <1>4, <1>5, <1>6 DEF MovesItems

(* Every step of the callers keeps ItemInv.                                *)
LEMMA ItemStep == BaseInv /\ ItemInv /\ [CallersNext]_vars => ItemInv'
<1> SUFFICES ASSUME BaseInv, ItemInv, [CallersNext]_vars PROVE ItemInv'
  OBVIOUS
<1>1. ItemTypes
  BY BaseParts
<1>2. MovesItems
  BY ItemSteps DEF BaseInv
<1> QED
  BY <1>1, <1>2, MovesKeepItems

(* An item that queue_enqueue accepted is in the queue, with one consumer, *)
(* or was used exactly once, and an item it refused is nowhere.            *)
THEOREM ItemsAreConserved == CallersSpec => []Conserved
<1>1. CallersInit => ItemInv
  <2> SUFFICES ASSUME CallersInit PROVE ItemInv
    OBVIOUS
  <2>1. Queued = {} /\ RingDistinct(items, front, size, capacity)
    BY DEF CallersInit, Init, Queued, RingEntries, RingDistinct
  <2> QED
    BY <2>1 DEF CallersInit, Init, ItemInv, Threads
<1>2. BaseInv /\ ItemInv => Conserved
  <2> SUFFICES ASSUME BaseInv, ItemInv, NEW x \in Items
               PROVE  /\ x \in accepted => InQueue(x) \/ InHand(x) \/ used[x] = 1
                      /\ x \notin accepted => ~InQueue(x) /\ ~InHand(x) /\ used[x] = 0
                      /\ used[x] > 0 => used[x] = 1 /\ ~InQueue(x) /\ ~InHand(x)
                      /\ InQueue(x) => ~InHand(x)
                      /\ \A c, d \in Consumers : item[c] = x /\ item[d] = x => c = d
                      /\ \A i, j \in 0 .. size - 1 :
                           /\ items[Slot(front, i, capacity)] = x
                           /\ items[Slot(front, j, capacity)] = x
                           => i = j
    BY DEF Conserved
  <2>1. InQueue(x) <=> x \in Queued
    BY DEF InQueue, Queued, RingEntries
  <2>2. InHand(x) => x \in accepted \ Queued /\ used[x] = 0
    BY QueueFacts DEF InHand, ItemInv
  <2>3. \A c, d \in Consumers : item[c] = x /\ item[d] = x => c = d
    BY QueueFacts DEF ItemInv
  <2>4. \A i, j \in 0 .. size - 1 :
          /\ items[Slot(front, i, capacity)] = x
          /\ items[Slot(front, j, capacity)] = x
          => i = j
    BY DEF ItemInv, RingDistinct
  <2>5. /\ used[x] \in {0, 1}
        /\ x \in Queued \/ x \notin accepted => used[x] = 0
        /\ x \in accepted => x \in Queued \/ used[x] = 1 \/ InHand(x)
        /\ Queued \subseteq accepted
    BY DEF ItemInv
  <2> QED
    BY <2>1, <2>2, <2>3, <2>4, <2>5
<1> QED
  BY <1>1, <1>2, ItemStep, BaseCorrect, PTL DEF CallersSpec

-----------------------------------------------------------------------------
(* One signal per item is enough.                                          *)

(* A set that loses nothing is as large as before.                         *)
LEMMA CountKept ==
  ASSUME NEW A, NEW B, IsFiniteSet(B), A \subseteq B,
         NEW n \in Int, NEW m \in Int, n <= Cardinality(A), m <= n
  PROVE  m <= Cardinality(B)
<1>1. Cardinality(A) \in Nat /\ Cardinality(B) \in Nat
      /\ Cardinality(A) <= Cardinality(B)
  BY FS_Subset, FS_CardinalityType
<1> QED
  BY <1>1

(* A set that gains an element grows by one.                               *)
LEMMA CountUp ==
  ASSUME NEW A, NEW B, IsFiniteSet(B), A \subseteq B,
         NEW t \in B, t \notin A,
         NEW n \in Int, n <= Cardinality(A)
  PROVE  n + 1 <= Cardinality(B)
<1>1. IsFiniteSet(A)
  BY FS_Subset
<1>2. /\ IsFiniteSet(A \cup {t})
      /\ Cardinality(A \cup {t}) = Cardinality(A) + 1
      /\ Cardinality(A) \in Nat
  BY <1>1, FS_AddElement, FS_CardinalityType
<1>3. A \cup {t} \subseteq B
  OBVIOUS
<1>4. Cardinality(A \cup {t}) <= Cardinality(B) /\ Cardinality(B) \in Nat
  BY <1>2, <1>3, FS_Subset, FS_CardinalityType
<1> QED
  BY <1>2, <1>4

(* A set that loses at most one element shrinks by at most one.            *)
LEMMA CountDown ==
  ASSUME NEW A, NEW B, IsFiniteSet(A), IsFiniteSet(B), NEW t,
         A \ {t} \subseteq B, NEW n \in Int, n <= Cardinality(A)
  PROVE  n - 1 <= Cardinality(B)
<1>1. /\ IsFiniteSet(A \ {t})
      /\ Cardinality(A \ {t}) >= Cardinality(A) - 1
      /\ Cardinality(A) \in Nat /\ Cardinality(A \ {t}) \in Nat
  <2>1. /\ IsFiniteSet(A \ {t})
        /\ Cardinality(A \ {t})
             = IF t \in A THEN Cardinality(A) - 1 ELSE Cardinality(A)
    BY FS_RemoveElement
  <2>2. Cardinality(A) \in Nat
    BY FS_CardinalityType
  <2>3. Cardinality(A \ {t}) \in Nat
    BY <2>1, FS_CardinalityType
  <2> QED
    BY <2>1, <2>2, <2>3
<1>2. Cardinality(A \ {t}) <= Cardinality(B) /\ Cardinality(B) \in Nat
  BY <1>1, FS_Subset, FS_CardinalityType
<1> QED
  BY <1>1, <1>2

(* The two halves of EnoughAwake.                                          *)
ConsumersAwake == cond_empty # {} => size <= Cardinality(Woken(Consumers))
ProducersAwake ==
  cond_full # {} => capacity - size <= Cardinality(Woken(Producers))

(* Counting the woken threads makes sense.                                 *)
LEMMA WokenFinite ==
  /\ IsFiniteSet(Woken(Consumers)) /\ IsFiniteSet(Woken(Producers))
  /\ IsFiniteSet(Woken(Consumers)') /\ IsFiniteSet(Woken(Producers)')
<1>1. /\ Woken(Consumers) \subseteq Consumers
      /\ Woken(Producers) \subseteq Producers
      /\ Woken(Consumers)' \subseteq Consumers
      /\ Woken(Producers)' \subseteq Producers
  BY DEF Woken
<1> QED
  BY <1>1, QueueAssumption, FS_Subset

(* Nobody who was awake stops, nobody falls asleep and no work arrives.    *)
LEMMA ConsumersKept ==
  ASSUME ItemTypes, ItemTypes', ConsumersAwake,
         Woken(Consumers) \subseteq Woken(Consumers)',
         cond_empty' \subseteq cond_empty, size' <= size
  PROVE  ConsumersAwake'
<1> SUFFICES ASSUME cond_empty' # {}
             PROVE  size' <= Cardinality(Woken(Consumers)')
  BY DEF ConsumersAwake
<1>1. size <= Cardinality(Woken(Consumers))
  BY DEF ConsumersAwake
<1>2. size \in Int /\ size' \in Int
  BY QueueFacts DEF ItemTypes
<1> DEFINE A == Woken(Consumers)
           B == Woken(Consumers)'
           m == size'
<1>3. IsFiniteSet(B) /\ A \subseteq B /\ size <= Cardinality(A) /\ m <= size
      /\ m \in Int
  BY <1>1, <1>2, WokenFinite
<1> HIDE DEF A, B, m
<1>4. m <= Cardinality(B)
  BY <1>2, <1>3, CountKept
<1> QED
  BY <1>4 DEF m, B

(* The same for producers and free slots.                                  *)
LEMMA ProducersKept ==
  ASSUME ItemTypes, ItemTypes', ProducersAwake,
         Woken(Producers) \subseteq Woken(Producers)',
         cond_full' \subseteq cond_full, size' >= size
  PROVE  ProducersAwake'
<1> SUFFICES ASSUME cond_full' # {}
             PROVE  capacity - size' <= Cardinality(Woken(Producers)')
  BY DEF ProducersAwake
<1> DEFINE A == Woken(Producers)
           B == Woken(Producers)'
           n == capacity - size
           m == capacity - size'
<1>1. n <= Cardinality(A)
  BY DEF ProducersAwake
<1>2. n \in Int /\ m \in Int /\ m <= n
  <2>1. size \in Int /\ size' \in Int /\ capacity \in Int
    BY QueueFacts DEF ItemTypes
  <2>2. \A a, b, k \in Int :
          b >= a => k - a \in Int /\ k - b \in Int /\ k - b <= k - a
    OBVIOUS
  <2>3. size' >= size
    OBVIOUS
  <2> QED
    BY <2>1, <2>2, <2>3
<1>3. IsFiniteSet(B) /\ A \subseteq B
  BY WokenFinite
<1> HIDE DEF A, B, n, m
<1>4. m <= Cardinality(B)
  BY <1>1, <1>2, <1>3, CountKept
<1> QED
  BY <1>4 DEF m, B

(* With nothing queued no consumer need be awake, with no free slot no     *)
(* producer.                                                               *)
LEMMA NothingToDo ==
  /\ size' = 0 => ConsumersAwake'
  /\ size' >= capacity /\ size' \in Nat => ProducersAwake'
<1>1. Cardinality(Woken(Consumers)') \in Nat
      /\ Cardinality(Woken(Producers)') \in Nat
  BY WokenFinite, FS_CardinalityType
<1> QED
  BY <1>1, QueueFacts DEF ConsumersAwake, ProducersAwake

(* Who is awake when only thread t moves and cond_full, cond_empty lose    *)
(* nobody but t.                                                           *)
LEMMA WokenAfter ==
  ASSUME NEW t, \A u \in Threads : u # t => pc'[u] = pc[u],
         \A u \in Threads : u # t => (Asleep(u)' => Asleep(u))
  PROVE  /\ Woken(Consumers) \ {t} \subseteq Woken(Consumers)'
         /\ Woken(Producers) \ {t} \subseteq Woken(Producers)'
BY DEF Woken, Threads

(* queue_enqueue adds an item and wakes a consumer, and leaves.            *)
LEMMA PutKeepsAwake ==
  ASSUME BaseInv, BaseInv', EnoughAwake, NEW p \in Producers, Put(p)
  PROVE  EnoughAwake'
<1> USE QueueFacts
<1>1. /\ pc[p] = "check" /\ pc'[p] = "idle"
      /\ \A u \in Threads : u # p => pc'[u] = pc[u]
      /\ size' = size + 1 /\ cond_full' = cond_full
      /\ size \in Int /\ size' \in Int
  BY DEF Put, Goto, BaseInv, TypeOK
<1>2. /\ cond_empty = {} => cond_empty' = {}
      /\ cond_empty # {} => \E t \in cond_empty : cond_empty' = cond_empty \ {t}
  BY SignalFacts DEF Put, SignalItem
<1>3. /\ p \notin Woken(Consumers)
      /\ Woken(Consumers) \ {p} \subseteq Woken(Consumers)'
      /\ Woken(Producers) \ {p} \subseteq Woken(Producers)'
  <2>1. \A u \in Threads : u # p => (Asleep(u)' => Asleep(u))
    BY <1>1, <1>2 DEF Asleep
  <2>2. /\ Woken(Consumers) \ {p} \subseteq Woken(Consumers)'
        /\ Woken(Producers) \ {p} \subseteq Woken(Producers)'
    BY <1>1, <2>1, WokenAfter
  <2> QED
    BY <2>2 DEF Woken
<1>4. ConsumersAwake'
  <2> SUFFICES ASSUME cond_empty' # {}
               PROVE  size' <= Cardinality(Woken(Consumers)')
    BY DEF ConsumersAwake
  <2>1. PICK t \in cond_empty : cond_empty' = cond_empty \ {t}
    BY <1>2
  <2>2. size <= Cardinality(Woken(Consumers))
    BY <2>1 DEF EnoughAwake
  <2>3. t \in Consumers /\ pc[t] = "wait" /\ t # p
    BY <2>1 DEF BaseInv, TypeOK, SyncInv, SleepInv, Asleep
  <2>4. t \notin Woken(Consumers) /\ t \in Woken(Consumers)'
    BY <1>1, <2>1, <2>3 DEF Woken, Asleep, BaseInv, TypeOK
  <2> DEFINE A == Woken(Consumers)
             B == Woken(Consumers)'
  <2>5. /\ IsFiniteSet(B) /\ A \subseteq B /\ t \in B /\ t \notin A
        /\ size <= Cardinality(A)
    BY <1>3, <2>2, <2>4, WokenFinite
  <2> HIDE DEF A, B
  <2>6. size + 1 <= Cardinality(B)
    BY <1>1, <2>5, CountUp
  <2> QED
    BY <1>1, <2>6 DEF B
<1>5. ProducersAwake'
  <2> SUFFICES ASSUME cond_full' # {}
               PROVE  capacity - size' <= Cardinality(Woken(Producers)')
    BY DEF ProducersAwake
  <2> DEFINE A == Woken(Producers)
             B == Woken(Producers)'
             n == capacity - size
  <2>1. /\ IsFiniteSet(A) /\ IsFiniteSet(B) /\ A \ {p} \subseteq B
        /\ n <= Cardinality(A) /\ n \in Int
    BY <1>1, <1>3, WokenFinite DEF EnoughAwake
  <2>2. capacity - size' = n - 1
    BY <1>1
  <2> HIDE DEF A, B, n
  <2>3. n - 1 <= Cardinality(B)
    BY <2>1, CountDown
  <2> QED
    BY <2>2, <2>3 DEF B
<1> QED
  BY <1>4, <1>5 DEF EnoughAwake, ConsumersAwake, ProducersAwake

(* queue_dequeue and queue_try_dequeue free a slot, wake a producer, and   *)
(* leave.                                                                  *)
LEMMA TakeKeepsAwake ==
  ASSUME BaseInv, BaseInv', EnoughAwake, NEW c \in Consumers,
         DequeueTake(c) \/ TryTake(c)
  PROVE  EnoughAwake'
<1> USE QueueFacts
<1>1. /\ pc[c] \in {"check", "poll"} /\ pc'[c] = "got"
      /\ \A u \in Threads : u # c => pc'[u] = pc[u]
      /\ size' = size - 1 /\ cond_empty' = cond_empty
      /\ size \in Int /\ size' \in Int
  BY DEF DequeueTake, TryTake, Remove, Goto, BaseInv, TypeOK
<1>2. /\ cond_full = {} => cond_full' = {}
      /\ cond_full # {} => \E t \in cond_full : cond_full' = cond_full \ {t}
  BY SignalFacts DEF DequeueTake, TryTake, Remove, SignalRoom
<1>3. /\ c \notin Woken(Producers)
      /\ Woken(Consumers) \ {c} \subseteq Woken(Consumers)'
      /\ Woken(Producers) \ {c} \subseteq Woken(Producers)'
  <2>1. \A u \in Threads : u # c => (Asleep(u)' => Asleep(u))
    BY <1>1, <1>2 DEF Asleep
  <2>2. /\ Woken(Consumers) \ {c} \subseteq Woken(Consumers)'
        /\ Woken(Producers) \ {c} \subseteq Woken(Producers)'
    BY <1>1, <2>1, WokenAfter
  <2> QED
    BY <2>2 DEF Woken
<1>4. ProducersAwake'
  <2> SUFFICES ASSUME cond_full' # {}
               PROVE  capacity - size' <= Cardinality(Woken(Producers)')
    BY DEF ProducersAwake
  <2>1. PICK t \in cond_full : cond_full' = cond_full \ {t}
    BY <1>2
  <2>3. t \in Producers /\ pc[t] = "wait" /\ t # c
    BY <2>1 DEF BaseInv, TypeOK, SyncInv, SleepInv, Asleep
  <2>4. t \notin Woken(Producers) /\ t \in Woken(Producers)'
    BY <1>1, <2>1, <2>3 DEF Woken, Asleep, BaseInv, TypeOK
  <2> DEFINE A == Woken(Producers)
             B == Woken(Producers)'
             n == capacity - size
  <2>5. /\ IsFiniteSet(B) /\ A \subseteq B /\ t \in B /\ t \notin A
        /\ n <= Cardinality(A) /\ n \in Int
    BY <1>1, <1>3, <2>1, <2>4, WokenFinite DEF EnoughAwake
  <2>6. capacity - size' = n + 1
    BY <1>1
  <2> HIDE DEF A, B, n
  <2>7. n + 1 <= Cardinality(B)
    BY <2>5, CountUp
  <2> QED
    BY <2>6, <2>7 DEF B
<1>5. ConsumersAwake'
  <2> SUFFICES ASSUME cond_empty' # {}
               PROVE  size' <= Cardinality(Woken(Consumers)')
    BY DEF ConsumersAwake
  <2> DEFINE A == Woken(Consumers)
             B == Woken(Consumers)'
  <2>1. /\ IsFiniteSet(A) /\ IsFiniteSet(B) /\ A \ {c} \subseteq B
        /\ size <= Cardinality(A)
    BY <1>1, <1>3, WokenFinite DEF EnoughAwake
  <2> HIDE DEF A, B
  <2>2. size - 1 <= Cardinality(B)
    BY <1>1, <2>1, CountDown
  <2> QED
    BY <1>1, <2>2 DEF B
<1> QED
  BY <1>4, <1>5 DEF EnoughAwake, ConsumersAwake, ProducersAwake

(* Every step keeps enough threads awake: one case per action.             *)
LEMMA AwakeStep == BaseInv /\ EnoughAwake /\ [CallersNext]_vars => EnoughAwake'
<1> SUFFICES ASSUME BaseInv, EnoughAwake, [CallersNext]_vars PROVE EnoughAwake'
  OBVIOUS
<1> USE QueueFacts
<1>1. BaseInv'
  BY BaseStep
<1>2. ItemTypes /\ ItemTypes'
  BY <1>1, BaseParts, BasePartsNext
<1>3. ConsumersAwake /\ ProducersAwake
  BY DEF EnoughAwake, ConsumersAwake, ProducersAwake
<1>4. size \in Nat /\ size' \in Nat /\ pc \in [Threads -> Labels] /\ SleepInv
  BY <1>2 DEF ItemTypes, BaseInv, SyncInv, SyncTypes
<1>5. SUFFICES ConsumersAwake' /\ ProducersAwake'
  BY DEF EnoughAwake, ConsumersAwake, ProducersAwake
<1>6. ASSUME Woken(Consumers) \subseteq Woken(Consumers)',
             Woken(Producers) \subseteq Woken(Producers)',
             cond_empty' \subseteq cond_empty, cond_full' \subseteq cond_full,
             size' = size
      PROVE  ConsumersAwake' /\ ProducersAwake'
  <2>1. size' <= size /\ size' >= size
    BY <1>4, <1>6
  <2>2. ConsumersAwake'
    BY <1>2, <1>3, <1>6, <2>1, ConsumersKept
  <2>3. ProducersAwake'
    BY <1>2, <1>3, <1>6, <2>1, ProducersKept
  <2> QED
    BY <2>2, <2>3
<1>7. ASSUME NEW t \in Threads, Lock(t) PROVE ConsumersAwake' /\ ProducersAwake'
  <2>1. /\ pc'[t] = "check" /\ \A u \in Threads : u # t => pc'[u] = pc[u]
        /\ cond_empty' = cond_empty /\ cond_full' = cond_full /\ size' = size
    BY <1>4, <1>7 DEF Lock, Goto, ringVars
  <2>2. /\ Woken(Consumers) \subseteq Woken(Consumers)'
        /\ Woken(Producers) \subseteq Woken(Producers)'
    BY <2>1 DEF Woken, Asleep
  <2> QED
    BY <1>6, <2>1, <2>2
<1>8. ASSUME NEW t \in Threads, LockFails(t)
      PROVE  ConsumersAwake' /\ ProducersAwake'
  <2>1. /\ pc[t] = "lock" /\ \A u \in Threads : u # t => pc'[u] = pc[u]
        /\ cond_empty' = cond_empty /\ cond_full' = cond_full /\ size' = size
    BY <1>4, <1>8 DEF LockFails, Goto, ringVars
  <2>2. /\ Woken(Consumers) \subseteq Woken(Consumers)'
        /\ Woken(Producers) \subseteq Woken(Producers)'
    BY <2>1 DEF Woken, Asleep
  <2> QED
    BY <1>6, <2>1, <2>2
<1>9. ASSUME NEW t \in Threads, SpuriousWakeup(t)
      PROVE  ConsumersAwake' /\ ProducersAwake'
  <2>1. /\ pc' = pc /\ size' = size
        /\ cond_empty' \subseteq cond_empty /\ cond_full' \subseteq cond_full
    BY <1>9 DEF SpuriousWakeup, ringVars
  <2>2. /\ Woken(Consumers) \subseteq Woken(Consumers)'
        /\ Woken(Producers) \subseteq Woken(Producers)'
    BY <2>1 DEF Woken, Asleep
  <2> QED
    BY <1>6, <2>1, <2>2
<1>10. ASSUME NEW p \in Producers, EnqueueWaits(p) \/ EnqueueWaitFails(p)
       PROVE  ConsumersAwake' /\ ProducersAwake'
  <2>1. /\ pc[p] = "check" /\ \A u \in Threads : u # p => pc'[u] = pc[u]
        /\ cond_empty' = cond_empty /\ size' = size /\ size' >= capacity
        /\ cond_full' \subseteq cond_full \cup {p}
    BY <1>4, <1>10 DEF EnqueueWaits, EnqueueWaitFails, Goto, Full, ringVars
  <2>2. Woken(Consumers) \subseteq Woken(Consumers)'
    <3>1. \A u \in Threads : u # p => (Asleep(u)' => Asleep(u))
      BY <2>1 DEF Asleep
    <3>2. Woken(Consumers) \ {p} \subseteq Woken(Consumers)'
      BY <2>1, <3>1, WokenAfter
    <3> QED
      BY <3>2 DEF Woken
  <2>3. ProducersAwake'
    BY <1>4, <2>1, NothingToDo
  <2>4. ConsumersAwake'
    <3>1. size' <= size /\ cond_empty' \subseteq cond_empty
      BY <1>4, <2>1
    <3> QED
      BY <1>2, <1>3, <2>2, <3>1, ConsumersKept
  <2> QED
    BY <2>3, <2>4
<1>11. ASSUME NEW p \in Producers, Put(p)
       PROVE  ConsumersAwake' /\ ProducersAwake'
  BY <1>1, <1>11, PutKeepsAwake DEF EnoughAwake, ConsumersAwake, ProducersAwake
<1>12. ASSUME NEW p \in Producers, NEW x \in Items, EnqueueCall(p, x)
       PROVE  ConsumersAwake' /\ ProducersAwake'
  <2>1. /\ pc[p] = "idle" /\ \A u \in Threads : u # p => pc'[u] = pc[u]
        /\ cond_empty' = cond_empty /\ cond_full' = cond_full /\ size' = size
    BY <1>4, <1>12 DEF EnqueueCall, Goto, ringVars, syncVars
  <2>2. /\ Woken(Consumers) \subseteq Woken(Consumers)'
        /\ Woken(Producers) \subseteq Woken(Producers)'
    BY <2>1 DEF Woken, Asleep
  <2> QED
    BY <1>6, <2>1, <2>2
<1>13. ASSUME NEW c \in Consumers,
              \/ DequeueCall(c) \/ TryDequeueCall(c) \/ TryLock(c)
              \/ TryBusy(c) \/ Use(c)
       PROVE  ConsumersAwake' /\ ProducersAwake'
  <2>1. /\ pc[c] \notin {"check", "wait"}
        /\ \A u \in Threads : u # c => pc'[u] = pc[u]
        /\ cond_empty' = cond_empty /\ cond_full' = cond_full /\ size' = size
    BY <1>4, <1>13 DEF DequeueCall, TryDequeueCall, TryLock, TryBusy, Use, Goto,
       ringVars, syncVars
  <2>2. /\ Woken(Consumers) \subseteq Woken(Consumers)'
        /\ Woken(Producers) \subseteq Woken(Producers)'
    BY <2>1 DEF Woken, Asleep
  <2> QED
    BY <1>6, <2>1, <2>2
<1>14. ASSUME NEW c \in Consumers,
              DequeueWaits(c) \/ DequeueWaitFails(c) \/ TryEmpty(c)
       PROVE  ConsumersAwake' /\ ProducersAwake'
  <2>1. /\ pc[c] \in {"check", "poll"}
        /\ \A u \in Threads : u # c => pc'[u] = pc[u]
        /\ cond_full' = cond_full /\ size' = size /\ size' = 0
        /\ cond_empty' \subseteq cond_empty \cup {c}
    BY <1>4, <1>14 DEF DequeueWaits, DequeueWaitFails, TryEmpty, Goto, ringVars
  <2>2. Woken(Producers) \subseteq Woken(Producers)'
    <3>1. \A u \in Threads : u # c => (Asleep(u)' => Asleep(u))
      BY <2>1 DEF Asleep
    <3>2. Woken(Producers) \ {c} \subseteq Woken(Producers)'
      BY <2>1, <3>1, WokenAfter
    <3> QED
      BY <3>2 DEF Woken
  <2>3. ConsumersAwake'
    BY <2>1, NothingToDo
  <2>4. ProducersAwake'
    <3>1. size' >= size /\ cond_full' \subseteq cond_full
      BY <1>4, <2>1
    <3> QED
      BY <1>2, <1>3, <2>2, <3>1, ProducersKept
  <2> QED
    BY <2>3, <2>4
<1>15. ASSUME NEW c \in Consumers, DequeueTake(c) \/ TryTake(c)
       PROVE  ConsumersAwake' /\ ProducersAwake'
  BY <1>1, <1>15, TakeKeepsAwake DEF EnoughAwake, ConsumersAwake, ProducersAwake
<1>16. CASE UNCHANGED queueVars
  <2>1. /\ pc' = pc /\ size' = size
        /\ cond_empty' = cond_empty /\ cond_full' = cond_full
    BY <1>16 DEF queueVars
  <2>2. /\ Woken(Consumers) \subseteq Woken(Consumers)'
        /\ Woken(Producers) \subseteq Woken(Producers)'
    BY <2>1 DEF Woken, Asleep
  <2> QED
    BY <1>6, <2>1, <2>2
<1> HIDE QueueFacts
<1> QED
  BY <1>7, <1>8, <1>9, <1>10, <1>11, <1>12, <1>13, <1>14, <1>15, <1>16, StepCases

(* One pthread_cond_signal per item, and per free slot, is enough: no      *)
(* consumer sleeps beside more items than awake consumers will look for.   *)
THEOREM OneSignalIsEnough == CallersSpec => []EnoughAwake
<1>1. CallersInit => EnoughAwake
  BY DEF CallersInit, Init, EnoughAwake
<1> QED
  BY <1>1, AwakeStep, BaseCorrect, PTL DEF CallersSpec

-----------------------------------------------------------------------------
(* The queue is a bounded FIFO.                                            *)

(* What the refinement maps: the content of the ring and the consumers'    *)
(* hands.                                                                  *)
Held == Contents(items, front, size, capacity)
Hands == [c \in Consumers |-> item[c]]

(* A created queue holds nothing.                                          *)
LEMMA FifoInit == CallersInit => Fifo!Init
<1> SUFFICES ASSUME CallersInit PROVE Fifo!Init
  OBVIOUS
<1>1. size = 0 /\ \A t \in Threads : item[t] = NULL
  BY DEF CallersInit, Init
<1>2. Contents(items, front, size, capacity) = << >>
  BY <1>1 DEF Contents
<1>3. [c \in Consumers |-> item[c]] = [c \in Consumers |-> NULL]
  BY <1>1 DEF Threads
<1> QED
  BY <1>2, <1>3 DEF Fifo!Init

(* Every step is a Put, a Take, a Finish or nothing of the bounded FIFO.   *)
LEMMA FifoStep ==
  BaseInv /\ [CallersNext]_vars
    => [Fifo!Next]_<<Contents(items, front, size, capacity),
                     [c \in Consumers |-> item[c]]>>
<1> SUFFICES ASSUME BaseInv, [CallersNext]_vars
             PROVE  \/ Fifo!Next
                    \/ Held' = Held /\ Hands' = Hands
  BY DEF Held, Hands
<1> USE QueueFacts
<1>1. ItemTypes /\ Queued \subseteq Items
  BY BaseParts
<1>2. ASSUME NEW p \in Producers, Drops(p) PROVE Held' = Held /\ Hands' = Hands
  <2>1. \A c \in Consumers : item'[c] = item[c]
    BY <1>1, <1>2 DEF Drops, ItemTypes
  <2> QED
    BY <1>2, <2>1 DEF Drops, Held, Hands, Contents
<1>3. ASSUME NEW p \in Producers, NEW x \in Items, Offers(p, x)
      PROVE  Held' = Held /\ Hands' = Hands
  <2>1. \A c \in Consumers : item'[c] = item[c]
    BY <1>1, <1>3 DEF Offers, ItemTypes
  <2> QED
    BY <1>3, <2>1 DEF Offers, Held, Hands, Contents
<1>4. ASSUME NEW p \in Producers, Puts(p) PROVE Fifo!Put(item[p])
  <2>1. \A c \in Consumers : item'[c] = item[c]
    BY <1>1, <1>4 DEF Puts, ItemTypes
  <2>2. Hands' = Hands
    BY <2>1 DEF Hands
  <2>3. /\ front \in 0 .. capacity - 1 /\ size \in 0 .. capacity - 1
        /\ size \in 0 .. capacity /\ front \in Nat /\ size \in Nat
    BY <1>1, <1>4 DEF Puts, ItemTypes
  <2>4. Len(Held) = size
    BY <2>3, ContentsLen DEF Held
  <2>5. Held' = Append(Held, item[p])
    <3>1. Slot(front, size, capacity) \in 0 .. capacity - 1
      BY <2>3, SlotInRing
    <3>2. /\ items'[Slot(front, size, capacity)] = item[p]
          /\ \A k \in 0 .. capacity - 1 :
               k # Slot(front, size, capacity) => items'[k] = items[k]
      BY <1>1, <1>4, <3>1 DEF ItemTypes, Puts
    <3>3. Contents(items', front, size + 1, capacity)
            = Append(Contents(items, front, size, capacity), item[p])
      BY <2>3, <3>2, ContentsAfterPut
    <3> QED
      BY <1>4, <3>3 DEF Held, Puts
  <2>6. Len(Held) < capacity
    BY <1>4, <2>4 DEF Puts
  <2> QED
    BY <2>2, <2>5, <2>6 DEF Fifo!Put, Held, Hands
<1>5. ASSUME NEW c \in Consumers, Takes(c) PROVE Fifo!Take(c)
  <2>1. /\ front \in 0 .. capacity - 1 /\ size \in 1 .. capacity
    BY <1>1, <1>5 DEF Takes, ItemTypes
  <2>2. /\ Held # << >> /\ Head(Held) = items[front]
        /\ Held' = Tail(Held)
    <3>1. /\ Contents(items, front, size, capacity) # << >>
          /\ Head(Contents(items, front, size, capacity)) = items[front]
          /\ Contents(items, Slot(front, 1, capacity), size - 1, capacity)
               = Tail(Contents(items, front, size, capacity))
      BY <2>1, ContentsAfterTake
    <3>2. items' = items /\ front' = Slot(front, 1, capacity) /\ size' = size - 1
      BY <1>5 DEF Takes
    <3> QED
      BY <3>1, <3>2 DEF Held
  <2>3. item[c] = NULL /\ item'[c] = items[front]
        /\ \A d \in Consumers : d # c => item'[d] = item[d]
    BY <1>1, <1>5 DEF Takes, ItemTypes
  <2>4. Hands[c] = NULL /\ Hands' = [Hands EXCEPT ![c] = Head(Held)]
    BY <2>2, <2>3 DEF Hands
  <2> QED
    BY <2>2, <2>4 DEF Fifo!Take, Held, Hands
<1>6. ASSUME NEW c \in Consumers, Uses(c) PROVE Fifo!Finish(c)
  <2>1. item[c] # NULL /\ item'[c] = NULL
        /\ \A d \in Consumers : d # c => item'[d] = item[d]
    BY <1>1, <1>6 DEF Uses, ItemTypes
  <2>2. Hands[c] # NULL /\ Hands' = [Hands EXCEPT ![c] = NULL]
    BY <2>1 DEF Hands
  <2>3. Held' = Held
    BY <1>6 DEF Uses, Held, Contents
  <2> QED
    BY <2>2, <2>3 DEF Fifo!Finish, Held, Hands
<1>7. CASE UNCHANGED itemVars
  BY <1>7 DEF itemVars, Held, Hands, Contents
<1>8. \A p \in Producers : Puts(p) => item[p] \in Items
  BY DEF Puts
<1>9. ASSUME NEW p \in Producers, Puts(p) PROVE Fifo!Next
  BY <1>4, <1>8, <1>9 DEF Fifo!Next
<1>10. ASSUME NEW c \in Consumers, Takes(c) \/ Uses(c) PROVE Fifo!Next
  BY <1>5, <1>6, <1>10 DEF Fifo!Next
<1> HIDE QueueFacts
<1> QED
  BY <1>2, <1>3, <1>7, <1>9, <1>10, ItemSteps DEF BaseInv, MovesItems

(* queue_enqueue, queue_dequeue and queue_try_dequeue implement            *)
(* BoundedFifo: items leave in the order in which they came, each to one   *)
(* consumer, and never more than `capacity' are held.                      *)
THEOREM QueueIsFifo == CallersSpec => ImplementsFifo
BY FifoInit, FifoStep, BaseCorrect, PTL DEF CallersSpec, ImplementsFifo, Fifo!Spec

-----------------------------------------------------------------------------
(* test.c: the benchmark's report.                                         *)

(* Distinct entries of a ring are as many as its size says.                *)
LEMMA RingCount ==
  ASSUME NEW a, NEW f, NEW n \in Nat, NEW c, RingDistinct(a, f, n, c)
  PROVE  /\ IsFiniteSet(RingEntries(a, f, n, c))
         /\ Cardinality(RingEntries(a, f, n, c)) = n
<1> DEFINE A(i) == a[Slot(f, i, c)]
           S == 0 .. n - 1
           T == {A(i) : i \in S}
           g == [i \in S |-> A(i)]
<1>1. RingEntries(a, f, n, c) = T
  BY DEF RingEntries
<1>2. \A i, j \in S : A(i) = A(j) => i = j
  BY DEF RingDistinct
<1>3. IsFiniteSet(S) /\ Cardinality(S) = n
  <2>1. 0 \in Int /\ n - 1 \in Int
    OBVIOUS
  <2>2. /\ IsFiniteSet(0 .. n - 1)
        /\ Cardinality(0 .. n - 1) = IF 0 > n - 1 THEN 0 ELSE (n - 1) - 0 + 1
    BY <2>1, FS_Interval
  <2> QED
    BY <2>2
<1> HIDE DEF A, S
<1>4. g \in Bijection(S, T)
  BY <1>2 DEF Bijection, Injection, Surjection, IsInjective
<1>5. ExistsBijection(S, T)
  BY <1>4 DEF ExistsBijection
<1> HIDE DEF T, g
<1>6. IsFiniteSet(T) /\ Cardinality(T) = Cardinality(S)
  BY <1>3, <1>5, FS_Bijection
<1> QED
  BY <1>1, <1>3, <1>6

(* Which thread of the benchmark has an item, and where its loops are.     *)
BenchLabels == Labels \cup {"unborn", "finished"}

BenchCalls ==
  /\ pc \in [Threads -> BenchLabels]
  /\ next_item \in [Producers -> Nat \ {0}]
  /\ \A p \in Producers :
       pc[p] \in {"lock", "check", "wait"} => item[p] \in Items
  /\ \A c \in Consumers : pc[c] = "got" <=> item[c] # NULL

(* Once main has reported, the process ends, nobody holds an item and the  *)
(* queue is as it was reported.                                            *)
ReportInv ==
  /\ final_size \in Int
  /\ final_size >= 0 => /\ main = "exit"
                        /\ final_size = size
                        /\ \A c \in Consumers : item[c] = NULL

BenchInv ==
  ItemTypes /\ Queued \subseteq Items /\ ItemInv /\ BenchCalls /\ ReportInv

(* A jump of one thread.                                                   *)
LEMMA BenchGoto ==
  ASSUME pc \in [Threads -> BenchLabels], NEW t \in Threads,
         NEW l \in BenchLabels, Goto(t, l)
  PROVE  /\ pc' \in [Threads -> BenchLabels]
         /\ pc'[t] = l
         /\ \A u \in Threads : u # t => pc'[u] = pc[u]
BY DEF Goto

(* A thread's step keeps BenchCalls when it leaves the others alone and    *)
(* its own label and item agree.                                           *)
LEMMA BenchCallsKept ==
  ASSUME BenchCalls, NEW t \in Threads, NEW l \in BenchLabels, Goto(t, l),
         next_item' \in [Producers -> Nat \ {0}],
         \A u \in Threads : u # t => item'[u] = item[u],
         t \in Producers /\ l \in {"lock", "check", "wait"}
           => item'[t] \in Items,
         t \in Consumers => (l = "got" <=> item'[t] # NULL)
  PROVE  BenchCalls'
<1> USE QueueFacts
<1>1. /\ pc' \in [Threads -> BenchLabels] /\ pc'[t] = l
      /\ \A u \in Threads : u # t => pc'[u] = pc[u]
  BY BenchGoto DEF BenchCalls
<1>2. ASSUME NEW p \in Producers, pc'[p] \in {"lock", "check", "wait"}
      PROVE  item'[p] \in Items
  <2>1. CASE p = t
    BY <1>1, <1>2, <2>1
  <2>2. CASE p # t
    BY <1>1, <1>2, <2>2 DEF BenchCalls
  <2> QED
    BY <2>1, <2>2
<1>3. ASSUME NEW c \in Consumers
      PROVE  pc'[c] = "got" <=> item'[c] # NULL
  <2>1. CASE c = t
    BY <1>1, <2>1
  <2>2. CASE c # t
    BY <1>1, <2>2 DEF BenchCalls
  <2> QED
    BY <2>1, <2>2
<1> QED
  BY <1>1, <1>2, <1>3 DEF BenchCalls

(* producer_thread: what a step does to the items.                         *)
LEMMA BenchProducer ==
  ASSUME Items = BenchItems, ItemTypes, Queued \subseteq Items, BenchCalls,
         NEW p \in Producers, ProducerThread(p)
  PROVE  MovesItems /\ BenchCalls'
<1> USE QueueFacts
<1>1. CASE ProduceItem(p)
  <2> DEFINE x == <<p, next_item[p]>>
  <2>1. next_item[p] \in 1 .. num_items
    BY <1>1, BenchAssumption DEF ProduceItem, BenchCalls
  <2>2. x \in Items
    BY <2>1 DEF BenchItems
  <2>3. EnqueueCall(p, x)
    BY <1>1 DEF ProduceItem
  <2>4. next_item' \in [Producers -> Nat \ {0}]
    BY <1>1 DEF ProduceItem, BenchCalls
  <2> HIDE DEF x
  <2>5. Offers(p, x)
    BY <2>3 DEF EnqueueCall, Offers, ringVars
  <2>6. item'[p] = x /\ \A u \in Threads : u # p => item'[u] = item[u]
    BY <2>5 DEF Offers, ItemTypes
  <2>7. Goto(p, "lock") /\ "lock" \in BenchLabels
    BY <2>3 DEF EnqueueCall, BenchLabels, Labels
  <2> QED
    BY <2>2, <2>4, <2>5, <2>6, <2>7, BenchCallsKept DEF MovesItems
<1>2. CASE ProducerFinishes(p)
  <2>1. UNCHANGED itemVars /\ next_item' = next_item
    BY <1>2 DEF ProducerFinishes, itemVars, ringVars, history, benchVars
  <2>2. Goto(p, "finished") /\ "finished" \in BenchLabels
    BY <1>2 DEF ProducerFinishes, BenchLabels
  <2> QED
    BY <2>1, <2>2, BenchCallsKept DEF MovesItems, itemVars, BenchCalls
<1>3. CASE Lock(p) /\ UNCHANGED benchVars
  <2>1. UNCHANGED itemVars /\ next_item' = next_item
    BY <1>3 DEF Lock, itemVars, ringVars, history, benchVars
  <2>2. Goto(p, "check") /\ "check" \in BenchLabels
    BY <1>3 DEF Lock, BenchLabels, Labels
  <2>3. item'[p] \in Items
    BY <1>3, <2>1 DEF Lock, itemVars, BenchCalls
  <2> QED
    BY <2>1, <2>2, <2>3, BenchCallsKept DEF MovesItems, itemVars, BenchCalls
<1>4. CASE (LockFails(p) \/ EnqueueWaitFails(p)) /\ UNCHANGED benchVars
  <2>1. Drops(p) /\ next_item' = next_item
    BY <1>4 DEF LockFails, EnqueueWaitFails, Drops, ringVars, history, benchVars
  <2>2. Goto(p, "idle") /\ "idle" \in BenchLabels
    BY <1>4 DEF LockFails, EnqueueWaitFails, BenchLabels, Labels
  <2>3. \A u \in Threads : u # p => item'[u] = item[u]
    BY <2>1 DEF Drops, ItemTypes
  <2> QED
    BY <2>1, <2>2, <2>3, BenchCallsKept DEF MovesItems, BenchCalls
<1>5. CASE EnqueueWaits(p) /\ UNCHANGED benchVars
  <2>1. UNCHANGED itemVars /\ next_item' = next_item
    BY <1>5 DEF EnqueueWaits, itemVars, ringVars, history, benchVars
  <2>2. Goto(p, "wait") /\ "wait" \in BenchLabels
    BY <1>5 DEF EnqueueWaits, BenchLabels, Labels
  <2>3. item'[p] \in Items
    BY <1>5, <2>1 DEF EnqueueWaits, itemVars, BenchCalls
  <2> QED
    BY <2>1, <2>2, <2>3, BenchCallsKept DEF MovesItems, itemVars, BenchCalls
<1>6. CASE Put(p) /\ UNCHANGED benchVars
  <2>1. item[p] \in Items
    BY <1>6 DEF Put, BenchCalls
  <2>2. size < capacity
    BY <1>6 DEF Put, Full, ItemTypes
  <2>3. Puts(p) /\ next_item' = next_item
    BY <1>6, <2>1, <2>2 DEF Put, Puts, back, benchVars
  <2>4. Goto(p, "idle") /\ "idle" \in BenchLabels
    BY <1>6 DEF Put, BenchLabels, Labels
  <2>5. \A u \in Threads : u # p => item'[u] = item[u]
    BY <2>3 DEF Puts, ItemTypes
  <2> QED
    BY <2>3, <2>4, <2>5, BenchCallsKept DEF MovesItems, BenchCalls
<1> QED
  BY <1>1, <1>2, <1>3, <1>4, <1>5, <1>6 DEF ProducerThread, EnqueueStep

(* consumer_thread: what a step does to the items.                         *)
LEMMA BenchConsumer ==
  ASSUME ItemTypes, Queued \subseteq Items, BenchCalls,
         NEW c \in Consumers, ConsumerThread(c)
  PROVE  MovesItems /\ BenchCalls'
<1> USE QueueFacts
<1>1. CASE \/ PollQueue(c) \/ PollReturnsNull(c) \/ ConsumerFinishes(c)
           \/ TryLock(c) /\ UNCHANGED benchVars
  <2>1. UNCHANGED itemVars /\ next_item' = next_item
    BY <1>1 DEF PollQueue, PollReturnsNull, ConsumerFinishes, TryDequeueCall,
       TryBusy, TryEmpty, TryLock, itemVars, ringVars, history, benchVars
  <2>2. PICK l \in {"try", "idle", "finished", "poll"} : Goto(c, l)
    BY <1>1 DEF PollQueue, PollReturnsNull, ConsumerFinishes, TryDequeueCall,
       TryBusy, TryEmpty, TryLock
  <2>3. l \in BenchLabels /\ l # "got"
    BY DEF BenchLabels, Labels
  <2>4. pc[c] # "got"
    BY <1>1 DEF PollQueue, PollReturnsNull, ConsumerFinishes, TryDequeueCall,
       TryBusy, TryEmpty, TryLock
  <2>5. item'[c] = NULL
    BY <2>1, <2>4 DEF itemVars, BenchCalls
  <2> QED
    BY <2>1, <2>2, <2>3, <2>5, BenchCallsKept DEF MovesItems, itemVars, BenchCalls
<1>2. CASE PollTakes(c)
  <2>1. item[c] = NULL
    BY <1>2 DEF PollTakes, TryTake, BenchCalls
  <2>2. Takes(c) /\ next_item' = next_item
    BY <1>2, <2>1 DEF PollTakes, TryTake, Remove, Takes, AdvanceFront, history
  <2>3. items[front] \in Items
    BY <2>2, QueuedAfterTake
  <2>4. item'[c] # NULL /\ \A u \in Threads : u # c => item'[u] = item[u]
    BY <2>2, <2>3 DEF Takes, ItemTypes
  <2>5. Goto(c, "got") /\ "got" \in BenchLabels
    BY <1>2 DEF PollTakes, TryTake, Remove, BenchLabels, Labels
  <2> QED
    BY <2>2, <2>4, <2>5, BenchCallsKept DEF MovesItems, BenchCalls
<1>3. CASE Use(c) /\ UNCHANGED benchVars
  <2>1. Uses(c) /\ next_item' = next_item
    BY <1>3 DEF Use, Uses, BenchCalls, ringVars, benchVars
  <2>2. item'[c] = NULL /\ \A u \in Threads : u # c => item'[u] = item[u]
    BY <2>1 DEF Uses, ItemTypes
  <2>3. Goto(c, "idle") /\ "idle" \in BenchLabels
    BY <1>3 DEF Use, BenchLabels, Labels
  <2> QED
    BY <2>1, <2>2, <2>3, BenchCallsKept DEF MovesItems, BenchCalls
<1> QED
  BY <1>1, <1>2, <1>3 DEF ConsumerThread

(* A step of the benchmark is one of a producer, of a consumer, or of main *)
(* and the environment.                                                    *)
LEMMA BenchCases ==
  ASSUME [BenchNext]_allVars
  PROVE  \/ \E p \in Producers : ProducerThread(p)
         \/ \E c \in Consumers : ConsumerThread(c)
         \/ \E t \in Threads : StartThread(t)
         \/ \E t \in Threads : SpuriousWakeup(t) /\ UNCHANGED benchVars
         \/ AllStarted \/ JoinProducers \/ ReportAndDestroy \/ CreateFails
         \/ UNCHANGED allVars
<1>1. CASE MainStep
  BY <1>1 DEF MainStep
<1>2. CASE Exited
  BY <1>2 DEF Exited
<1> QED
  BY <1>1, <1>2 DEF BenchNext

(* main, and what changes nothing of the queue.                            *)
LEMMA BenchMain ==
  ASSUME ItemTypes, BenchCalls,
         \/ \E t \in Threads : StartThread(t)
         \/ \E t \in Threads : SpuriousWakeup(t) /\ UNCHANGED benchVars
         \/ AllStarted \/ JoinProducers \/ ReportAndDestroy \/ CreateFails
         \/ UNCHANGED allVars
  PROVE  MovesItems /\ BenchCalls'
<1> USE QueueFacts
<1>1. ASSUME NEW t \in Threads, StartThread(t)
      PROVE  MovesItems /\ BenchCalls'
  <2>1. UNCHANGED itemVars /\ next_item' = next_item
    BY <1>1 DEF StartThread, itemVars, ringVars, history, benchVars
  <2>2. Goto(t, "idle") /\ "idle" \in BenchLabels /\ pc[t] = "unborn"
    BY <1>1 DEF StartThread, BenchLabels, Labels
  <2>3. t \in Consumers => item'[t] = NULL
    BY <2>1, <2>2 DEF itemVars, BenchCalls
  <2> QED
    BY <2>1, <2>2, <2>3, BenchCallsKept DEF MovesItems, itemVars, BenchCalls
<1>2. ASSUME UNCHANGED <<itemVars, pc, next_item>>
      PROVE  MovesItems /\ BenchCalls'
  BY <1>2 DEF MovesItems, itemVars, BenchCalls
<1>3. ASSUME NEW t \in Threads, SpuriousWakeup(t), UNCHANGED benchVars
      PROVE  UNCHANGED <<itemVars, pc, next_item>>
  BY <1>3 DEF SpuriousWakeup, itemVars, ringVars, history, benchVars
<1>4. ASSUME \/ AllStarted \/ JoinProducers \/ ReportAndDestroy \/ CreateFails
             \/ UNCHANGED allVars
      PROVE  UNCHANGED <<itemVars, pc, next_item>>
  BY <1>4 DEF AllStarted, JoinProducers, ReportAndDestroy, CreateFails, allVars,
     queueVars, benchVars, itemVars
<1> QED
  BY <1>1, <1>2, <1>3, <1>4

(* Nothing moves once main has reported.                                   *)
LEMMA ReportStep ==
  ASSUME ItemTypes, BenchCalls, ReportInv, [BenchNext]_allVars
  PROVE  ReportInv'
<1> USE QueueFacts
<1>1. CASE main # "exit"
  <2>1. ~ (final_size >= 0) /\ final_size \in Int
    BY <1>1 DEF ReportInv
  <2>2. CASE ReportAndDestroy
    <3>1. main' = "exit" /\ final_size' = size /\ size' = size /\ item' = item
      BY <2>2 DEF ReportAndDestroy, queueVars
    <3>2. \A c \in Consumers : item[c] = NULL
      BY <2>2 DEF ReportAndDestroy, BenchCalls
    <3>3. size \in Int
      BY DEF ItemTypes
    <3> QED
      BY <3>1, <3>2, <3>3 DEF ReportInv
  <2>3. CASE ~ReportAndDestroy
    <3>1. final_size' = final_size
      <4>1. ASSUME NEW p \in Producers, ProducerThread(p)
            PROVE  final_size' = final_size
        BY <4>1 DEF ProducerThread, ProduceItem, ProducerFinishes, benchVars
      <4>2. ASSUME NEW c \in Consumers, ConsumerThread(c)
            PROVE  final_size' = final_size
        BY <4>2 DEF ConsumerThread, PollQueue, PollTakes, PollReturnsNull,
           ConsumerFinishes, benchVars
      <4>3. ASSUME \/ \E t \in Threads : StartThread(t)
                   \/ \E t \in Threads : SpuriousWakeup(t) /\ UNCHANGED benchVars
                   \/ AllStarted \/ JoinProducers \/ CreateFails
                   \/ UNCHANGED allVars
            PROVE  final_size' = final_size
        BY <4>3 DEF StartThread, AllStarted, JoinProducers, CreateFails,
           allVars, benchVars
      <4> QED
        BY <2>3, <4>1, <4>2, <4>3, BenchCases, Zenon
    <3> QED
      BY <2>1, <3>1 DEF ReportInv
  <2> QED
    BY <2>2, <2>3
<1>2. CASE main = "exit"
  <2>1. UNCHANGED allVars
    <3>1. ~MainStep /\ ~CreateFails
      BY <1>2 DEF MainStep, StartThread, AllStarted, JoinProducers,
         ReportAndDestroy, CreateFails
    <3> QED
      BY <1>2, <3>1 DEF BenchNext, Exited
  <2> QED
    BY <2>1 DEF allVars, queueVars, benchVars, ReportInv
<1> QED
  BY <1>1, <1>2

(* Every step of the benchmark keeps the invariant.                        *)
LEMMA BenchStep ==
  ASSUME Items = BenchItems, BenchInv, [BenchNext]_allVars
  PROVE  BenchInv'
<1>1. MovesItems /\ BenchCalls'
  <2>1. ItemTypes /\ Queued \subseteq Items /\ BenchCalls
    BY DEF BenchInv
  <2>2. CASE \E p \in Producers : ProducerThread(p)
    BY <2>1, <2>2, BenchProducer
  <2>3. CASE \E c \in Consumers : ConsumerThread(c)
    BY <2>1, <2>3, BenchConsumer
  <2>4. CASE \/ \E t \in Threads : StartThread(t)
             \/ \E t \in Threads : SpuriousWakeup(t) /\ UNCHANGED benchVars
             \/ AllStarted \/ JoinProducers \/ ReportAndDestroy \/ CreateFails
             \/ UNCHANGED allVars
    BY <2>1, <2>4, BenchMain
  <2> QED
    BY <2>2, <2>3, <2>4, BenchCases
<1>2. ItemTypes' /\ Queued' \subseteq Items
  BY <1>1, MovesKeepTypes DEF BenchInv
<1>3. ItemInv'
  BY <1>1, MovesKeepItems DEF BenchInv
<1>4. ReportInv'
  BY ReportStep DEF BenchInv
<1> QED
  BY <1>1, <1>2, <1>3, <1>4 DEF BenchInv

(* When main reports, every item that was enqueued is used or queued.      *)
LEMMA ReportCounts ==
  ASSUME Items = BenchItems, BenchInv
  PROVE  ReportAddsUp
<1> SUFFICES ASSUME final_size >= 0
             PROVE  total_produced = total_consumed + final_size
  BY DEF ReportAddsUp
<1> DEFINE done == {x \in Items : used[x] > 0}
<1>1. /\ final_size = size /\ size \in Nat
      /\ \A c \in Consumers : item[c] = NULL
  BY DEF BenchInv, ReportInv, ItemTypes
<1>2. \A x \in Items : ~InHand(x)
  BY <1>1, QueueFacts DEF InHand
<1>3. accepted = Queued \cup done /\ Queued \cap done = {}
  <2>1. /\ accepted \subseteq Items /\ Queued \subseteq accepted
        /\ used \in [Items -> Nat]
        /\ \A x \in Items :
             /\ used[x] \in {0, 1}
             /\ x \in Queued \/ x \notin accepted => used[x] = 0
             /\ x \in accepted => x \in Queued \/ used[x] = 1 \/ InHand(x)
    BY DEF BenchInv, ItemInv, ItemTypes
  <2> QED
    BY <1>2, <2>1
<1>4. IsFiniteSet(done)
  <2>1. IsFiniteSet(1 .. num_items)
    BY BenchAssumption, FS_Interval
  <2>2. IsFiniteSet(Items)
    BY <2>1, QueueAssumption, FS_Product DEF BenchItems
  <2> QED
    BY <2>2, FS_Subset
<1>5. IsFiniteSet(Queued) /\ Cardinality(Queued) = size
  BY <1>1, RingCount DEF BenchInv, ItemInv, Queued
<1> HIDE DEF done
<1>6. Cardinality(Queued \cup done)
        = Cardinality(Queued) + Cardinality(done) - Cardinality(Queued \cap done)
  BY <1>4, <1>5, FS_Union
<1>7. Cardinality(Queued \cap done) = 0 /\ Cardinality(done) \in Nat
  BY <1>3, <1>4, FS_EmptySet, FS_CardinalityType
<1>8. total_produced = Cardinality(accepted) /\ total_consumed = Cardinality(done)
  BY DEF total_produced, total_consumed, done
<1> QED
  BY <1>1, <1>3, <1>5, <1>6, <1>7, <1>8

(* test.c's report adds up for any number of threads and items, any        *)
(* capacity, patience of the consumers and failing pthread calls: what the *)
(* producers enqueued was consumed once or is the size that is reported.   *)
THEOREM BenchReportAddsUp ==
  ASSUME Items = BenchItems
  PROVE  BenchSpec => []ReportAddsUp
<1>1. BenchInit => BenchInv
  <2> SUFFICES ASSUME BenchInit PROVE BenchInv
    OBVIOUS
  <2> USE QueueFacts
  <2>1. Queued = {} /\ RingDistinct(items, front, size, capacity)
    BY DEF BenchInit, Queued, RingEntries, RingDistinct
  <2>2. ItemTypes
    BY DEF BenchInit, ItemTypes
  <2>3. ItemInv
    BY <2>1 DEF BenchInit, ItemInv
  <2>4. BenchCalls
    BY DEF BenchInit, BenchCalls, BenchLabels
  <2>5. ReportInv
    BY DEF BenchInit, ReportInv
  <2> QED
    BY <2>1, <2>2, <2>3, <2>4, <2>5 DEF BenchInv
<1>2. BenchInv /\ [BenchNext]_allVars => BenchInv'
  BY BenchStep
<1>3. BenchInv => ReportAddsUp
  BY ReportCounts
<1> QED
  BY <1>1, <1>2, <1>3, PTL DEF BenchSpec

=============================================================================
