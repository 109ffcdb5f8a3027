----------------------------- MODULE QueueBench -----------------------------
(***************************************************************************)
(* 03_threads/producer_consumer/test.c: the benchmark that runs queue.c.   *)
(* main creates the queue and the threads, joins the producers, joins the  *)
(* consumers, reports and destroys the queue.  A producer enqueues         *)
(* num_items items.  A consumer polls with queue_try_dequeue and gives up  *)
(* after max_empty_iterations polls in a row that returned NULL.           *)
(***************************************************************************)
EXTENDS Queue

CONSTANTS num_items,            \* items per producer
          max_empty_iterations  \* 1000 in the code

(* An item carries the identity of its producer and its number: what the   *)
(* benchmark's Items are.                                                  *)
BenchItems == Producers \X (1 .. num_items)

ASSUME BenchAssumption ==
  /\ num_items \in Nat
  /\ max_empty_iterations \in Nat \ {0}

VARIABLES
  next_item,         \* the loop counter of each producer
  empty_iterations,  \* of each consumer
  main,              \* where main is
  final_size         \* what main reports, or -1

benchVars == <<next_item, empty_iterations, main, final_size>>
allVars == <<queueVars, benchVars>>

(* What main reports.                                                      *)
total_produced == Cardinality(accepted)
total_consumed == Cardinality({x \in Items : used[x] > 0})

-----------------------------------------------------------------------------
(* Threads exist once main has started them; the queue is there before.    *)
BenchInit ==
  /\ items = [i \in 0 .. capacity - 1 |-> NULL]
  /\ size = 0
  /\ front = 0
  /\ mutex = NoThread
  /\ cond_full = {}
  /\ cond_empty = {}
  /\ pc = [t \in Threads |-> "unborn"]
  /\ item = [t \in Threads |-> NULL]
  /\ offered = {}
  /\ accepted = {}
  /\ used = [x \in Items |-> 0]
  /\ faults = 0
  /\ next_item = [p \in Producers |-> 1]
  /\ empty_iterations = [c \in Consumers |-> 0]
  /\ main = "create"
  /\ final_size = -1

(* queue_create or pthread_create fails: main returns, the process ends.   *)
CreateFails ==
  /\ main = "create"
  /\ main' = "exit"
  /\ UNCHANGED <<queueVars, next_item, empty_iterations, final_size>>

(* pthread_create; the producers come first.                               *)
StartThread(t) ==
  /\ main = "create"
  /\ pc[t] = "unborn"
  /\ t \in Consumers => \A p \in Producers : pc[p] # "unborn"
  /\ Goto(t, "idle")
  /\ UNCHANGED <<ringVars, syncVars, item, history, benchVars>>

AllStarted ==
  /\ main = "create"
  /\ \A t \in Threads : pc[t] # "unborn"
  /\ main' = "join_producers"
  /\ UNCHANGED <<queueVars, next_item, empty_iterations, final_size>>

JoinProducers ==
  /\ main = "join_producers"
  /\ \A p \in Producers : pc[p] = "finished"
  /\ main' = "join_consumers"
  /\ UNCHANGED <<queueVars, next_item, empty_iterations, final_size>>

(* Slip: main reports without having joined the consumers.                 *)
ReportsEarly ==
  /\ main = "join_consumers"
  /\ final_size' = size
  /\ main' = "exit"
  /\ UNCHANGED <<queueVars, next_item, empty_iterations>>

(* The consumers are joined, the totals and queue_size are reported, the   *)
(* queue is destroyed.                                                     *)
ReportAndDestroy ==
  /\ main = "join_consumers"
  /\ \A c \in Consumers : pc[c] = "finished"
  /\ final_size' = size
  /\ main' = "exit"
  /\ UNCHANGED <<queueVars, next_item, empty_iterations>>

-----------------------------------------------------------------------------
(* producer_thread                                                         *)

ProduceItem(p) ==
  /\ next_item[p] <= num_items
  /\ EnqueueCall(p, <<p, next_item[p]>>)
  /\ next_item' = [next_item EXCEPT ![p] = @ + 1]
  /\ UNCHANGED <<empty_iterations, main, final_size>>

ProducerFinishes(p) ==
  /\ pc[p] = "idle"
  /\ next_item[p] > num_items
  /\ Goto(p, "finished")
  /\ UNCHANGED <<ringVars, syncVars, item, history, benchVars>>

ProducerThread(p) ==
  \/ ProduceItem(p) \/ ProducerFinishes(p)
  \/ EnqueueStep(p) /\ UNCHANGED benchVars

-----------------------------------------------------------------------------
(* consumer_thread                                                         *)

PollQueue(c) ==
  /\ empty_iterations[c] < max_empty_iterations
  /\ TryDequeueCall(c)
  /\ UNCHANGED benchVars

PollTakes(c) ==
  /\ TryTake(c)
  /\ empty_iterations' = [empty_iterations EXCEPT ![c] = 0]
  /\ UNCHANGED <<next_item, main, final_size>>

(* A busy mutex and an empty queue look the same.                          *)
PollReturnsNull(c) ==
  /\ TryBusy(c) \/ TryEmpty(c)
  /\ empty_iterations' = [empty_iterations EXCEPT ![c] = @ + 1]
  /\ UNCHANGED <<next_item, main, final_size>>

ConsumerFinishes(c) ==
  /\ pc[c] = "idle"
  /\ empty_iterations[c] >= max_empty_iterations
  /\ Goto(c, "finished")
  /\ UNCHANGED <<ringVars, syncVars, item, history, benchVars>>

ConsumerThread(c) ==
  \/ PollQueue(c) \/ PollTakes(c) \/ PollReturnsNull(c) \/ ConsumerFinishes(c)
  \/ (TryLock(c) \/ Use(c)) /\ UNCHANGED benchVars

-----------------------------------------------------------------------------
MainStep ==
  \/ \E t \in Threads : StartThread(t)
  \/ AllStarted \/ JoinProducers \/ ReportAndDestroy

(* The process is gone.                                                    *)
Exited == main = "exit" /\ UNCHANGED allVars

BenchNext ==
  \/ main # "exit" /\ \E p \in Producers : ProducerThread(p)
  \/ main # "exit" /\ \E c \in Consumers : ConsumerThread(c)
  \/ main # "exit" /\ \E t \in Threads : SpuriousWakeup(t) /\ UNCHANGED benchVars
  \/ MainStep
  \/ CreateFails
  \/ Exited

BenchSpec == BenchInit /\ [][BenchNext]_allVars

-----------------------------------------------------------------------------
(* The report adds up: what the producers enqueued was consumed once or is *)
(* still in the queue when queue_destroy drops it.                         *)
ReportAddsUp ==
  final_size >= 0 => total_produced = total_consumed + final_size

(* Every consumer has given up and the queue is full.                      *)
Abandoned == size = capacity /\ \A c \in Consumers : pc[c] = "finished"

(* test.c ends, unless every consumer gave up and left a full queue behind *)
(* while producers were at work: no producer sleeps through the room that  *)
(* a poll has made.                                                        *)
EndsUnlessAbandoned ==
  main = "join_producers" ~> (main = "exit" \/ Abandoned)

=============================================================================
