------------------------------ MODULE MCQueue ------------------------------
(* The two ways in which queue.c is used: by threads that call whatever it   *)
(* offers (QueueCallers) and by the benchmark of test.c (QueueBench).  A     *)
(* behaviour is of one of them, of the first when there is no main.          *)
EXTENDS QueueCallers, QueueBench

CONSTANTS p1, p2, c1, c2

NoMain == main = "none"

QueueUseInit ==
  \/ /\ CallersInit
     /\ next_item = [p \in Producers |-> 1]
     /\ empty_iterations = [c \in Consumers |-> 0]
     /\ NoMain
     /\ final_size = -1
  \/ BenchInit /\ polls = 0

(* The consumers have given up beside a full queue: main waits for ever.     *)
Hangs == main = "join_producers" /\ Abandoned /\ UNCHANGED <<allVars, polls>>

QueueUseNext ==
  \/ NoMain /\ CallersNext /\ UNCHANGED benchVars
  \/ ~NoMain /\ BenchNext /\ UNCHANGED polls
  \/ Hangs

(* The scheduler runs every thread that can run, and a consumer without main *)
(* keeps asking for items.  Who gets a contended mutex is left open: with    *)
(* finitely many items and polls weak fairness is enough.                    *)
ProducerRuns(p) ==
  \/ NoMain /\ ProducerStep(p) /\ UNCHANGED benchVars
  \/ ~NoMain /\ main # "exit" /\ ProducerThread(p) /\ UNCHANGED polls
ConsumerRuns(c) ==
  \/ NoMain /\ ConsumerStep(c) /\ UNCHANGED benchVars
  \/ ~NoMain /\ main # "exit" /\ ConsumerThread(c) /\ UNCHANGED polls

useVars == <<allVars, polls>>

QueueUseSpec ==
  /\ QueueUseInit /\ [][QueueUseNext]_useVars
  /\ WF_useVars(MainStep /\ UNCHANGED polls)
  /\ \A p \in Producers : WF_useVars(ProducerRuns(p))
  /\ \A c \in Consumers : WF_useVars(ConsumerRuns(c))

-----------------------------------------------------------------------------
(* Where consumers keep asking, every queue_enqueue eventually returns,      *)
(* although polls take items and pthread calls may fail, and every accepted  *)
(* item is eventually used: no consumer sleeps in queue_dequeue for ever     *)
(* beside an item.  The items are finite, so it is enough that again and     *)
(* again no call is open and no item waits.                                  *)
EveryoneServed ==
  []<>(NoMain => /\ \A p \in Producers : pc[p] = "idle"
                 /\ \A x \in accepted : used[x] = 1)

=============================================================================
