-------------------------- MODULE ThreadPoolProofs --------------------------
(***************************************************************************)
(* What holds of the thread pool for every number of workers, submitters,  *)
(* waiters and tasks and for every queue capacity.                         *)
(***************************************************************************)
EXTENDS ThreadPool, RingProofs, FiniteSetTheorems

(* The queue has room for at least one task per worker.                    *)
LEMMA CapacityFacts ==
  /\ Cardinality(Workers) \in Nat \ {0}
  /\ queue_capacity \in Nat \ {0}
  /\ queue_capacity >= Cardinality(Workers)
<1>1. Cardinality(Workers) \in Nat \ {0}
  BY PoolAssumption, FS_CardinalityType, FS_EmptySet
<1>2. ASSUME NEW n \in Nat \ {0}, NEW k \in Nat \ {0}
      PROVE  n * k \in Nat \ {0} /\ n * k >= n
  OBVIOUS
<1> QED
  BY <1>1, <1>2, PoolAssumption DEF queue_capacity

(* The kinds of threads are disjoint.                                      *)
LEMMA ThreadFacts ==
  /\ Threads = Workers \cup Submitters \cup Waiters \cup {Main}
  /\ \A w \in Workers : w \notin Submitters /\ w \notin Waiters /\ w # Main
  /\ \A s \in Submitters : s \notin Waiters /\ s # Main
  /\ Main \notin Waiters
  /\ NoThread \notin Threads
  /\ NoTask \notin Tasks
BY PoolAssumption DEF Threads, Clients

(* The labels of each kind of thread, spelled out.                         *)
LEMMA LabelFacts ==
  /\ CallPC = {"lock", "check", "sleep", "wait"}
  /\ WorkerPC = {"lock", "check", "sleep", "wait", "unborn", "run", "done"}
  /\ SubmitterPC = {"lock", "check", "sleep", "wait", "idle", "fault"}
  /\ WaiterPC = {"lock", "check", "sleep", "wait", "idle", "fault", "returned"}
  /\ MainPC = {"create", "spawn", "abort", "abort_join", "null", "ready",
               "lock", "check", "sleep", "wait", "shut_lock", "shut", "join",
               "destroyed"}
BY DEF CallPC, WorkerPC, SubmitterPC, WaiterPC, MainPC, CreatePC, DestroyPC

-----------------------------------------------------------------------------
(* Type correctness.                                                       *)

(* The part of the types that is about labels.                             *)
PcOK ==
  /\ pc \in [Threads -> WorkerPC \cup WaiterPC \cup MainPC]
  /\ \A w \in Workers : pc[w] \in WorkerPC
  /\ \A s \in Submitters : pc[s] \in SubmitterPC
  /\ \A a \in Waiters : pc[a] \in WaiterPC
  /\ pc[Main] \in MainPC

(* A jump to a label of the thread's own kind keeps the labels well typed. *)
LEMMA GotoKeepsPcOK ==
  ASSUME PcOK, NEW t \in Threads, NEW label, Goto(t, label),
         t \in Workers => label \in WorkerPC,
         t \in Submitters => label \in SubmitterPC,
         t \in Waiters => label \in WaiterPC,
         t = Main => label \in MainPC
  PROVE  PcOK'
<1>1. label \in WorkerPC \cup WaiterPC \cup MainPC
  BY ThreadFacts, LabelFacts
<1> QED
  BY <1>1, ThreadFacts DEF PcOK, Goto

(* The fields set by thread_pool_create have their types.                  *)
THEOREM TypeInit == Init => TypeOK
<1> SUFFICES ASSUME Init PROVE TypeOK
  OBVIOUS
<1>1. 0 \in 0 .. queue_capacity /\ 0 \in 0 .. queue_capacity - 1
  BY CapacityFacts
<1>2. PcOK
  BY ThreadFacts, LabelFacts DEF Init, PcOK, Clients
<1>3. 0 \in 0 .. MaxSpurious
  BY PoolAssumption
<1> QED
  BY <1>1, <1>2, <1>3, ThreadFacts DEF Init, TypeOK, PcOK

(* A thread inside thread_pool_submit has a task to submit.  The types need *)
(* it: what an enqueue adds to `accepted' is a task.                       *)
SubmitterHasTask ==
  \A s \in Submitters :
    pc[s] \in {"lock", "check", "sleep", "wait"} => task[s] \in Tasks

(* Every step keeps the types: one case per action.                        *)
THEOREM TypeStep == TypeOK /\ SubmitterHasTask /\ [Next]_vars => TypeOK'
<1> SUFFICES ASSUME TypeOK, SubmitterHasTask, [Next]_vars PROVE TypeOK'
  OBVIOUS
<1> PcOK
  BY DEF TypeOK, PcOK
<1> USE CapacityFacts, ThreadFacts, LabelFacts
<1>1. ASSUME NEW t \in Threads, Lock(t) PROVE TypeOK'
  <2>1. PcOK'
    BY <1>1, GotoKeepsPcOK DEF Lock, PcOK
  <2> QED
    BY <1>1, <2>1 DEF TypeOK, PcOK, Lock, poolVars, history
<1>2. ASSUME NEW t \in Threads, CondWait(t) PROVE TypeOK'
  <2>1. PcOK'
    BY <1>2, GotoKeepsPcOK DEF CondWait, PcOK
  <2> QED
    BY <1>2, <2>1 DEF TypeOK, PcOK, CondWait, poolVars, history
<1>3. ASSUME NEW t \in Threads, SpuriousWakeup(t) PROVE TypeOK'
  BY <1>3, PoolAssumption DEF TypeOK, SpuriousWakeup, poolVars, history
<1>4. ASSUME NEW w \in Workers, WorkerWaits(w) PROVE TypeOK'
  <2>1. PcOK'
    BY <1>4, GotoKeepsPcOK DEF WorkerWaits, PcOK
  <2> QED
    BY <1>4, <2>1 DEF TypeOK, PcOK, WorkerWaits, poolVars, history
<1>5. ASSUME NEW w \in Workers, WorkerExits(w) PROVE TypeOK'
  <2>1. PcOK'
    BY <1>5, GotoKeepsPcOK DEF WorkerExits, PcOK
  <2> QED
    BY <1>5, <2>1 DEF TypeOK, PcOK, WorkerExits, poolVars, history
<1>6. ASSUME NEW w \in Workers, Dequeue(w) PROVE TypeOK'
  <2>1. PcOK'
    BY <1>6, GotoKeepsPcOK DEF Dequeue, PcOK
  <2>2. queue_front' \in 0 .. queue_capacity - 1
    BY <1>6, SlotInRing DEF TypeOK, Dequeue, AdvanceFront
  <2>3. queue_size' \in 0 .. queue_capacity
    BY <1>6 DEF TypeOK, Dequeue
  <2>4. cond_work' \subseteq cond_work /\ cond_empty' \subseteq cond_empty
    BY <1>6 DEF Dequeue, WakeForRoom, WakeForEmpty, AfterBroadcast, AfterSignal
  <2>5. task' \in [Workers \cup Submitters -> Tasks \cup {NoTask}]
    BY <1>6 DEF TypeOK, Dequeue
  <2> QED
    BY <1>6, <2>1, <2>2, <2>3, <2>4, <2>5
    DEF TypeOK, PcOK, Dequeue, history
<1>7. ASSUME NEW w \in Workers, RunTask(w) PROVE TypeOK'
  <2>1. PcOK'
    BY <1>7, GotoKeepsPcOK DEF RunTask, PcOK
  <2>2. ran' \in [Tasks -> Nat]
    <3>1. CASE task[w] \in Tasks
      BY <1>7, <3>1 DEF TypeOK, RunTask
    <3>2. CASE task[w] \notin Tasks
      BY <1>7, <3>2 DEF TypeOK, RunTask
    <3> QED
      BY <3>1, <3>2
  <2>3. task' \in [Workers \cup Submitters -> Tasks \cup {NoTask}]
    BY <1>7 DEF TypeOK, RunTask
  <2> QED
    BY <1>7, <2>1, <2>2, <2>3 DEF TypeOK, PcOK, RunTask, poolVars
<1>8. ASSUME NEW s \in Submitters, NEW t \in Tasks, SubmitCall(s, t)
      PROVE  TypeOK'
  <2>1. PcOK'
    BY <1>8, GotoKeepsPcOK DEF SubmitCall, PcOK
  <2> QED
    BY <1>8, <2>1 DEF TypeOK, PcOK, SubmitCall, poolVars
<1>9. ASSUME NEW s \in Submitters, SubmitRejected(s) PROVE TypeOK'
  <2>1. PcOK'
    BY <1>9, GotoKeepsPcOK DEF SubmitRejected, PcOK
  <2> QED
    BY <1>9, <2>1 DEF TypeOK, PcOK, SubmitRejected, poolVars, history
<1>10. ASSUME NEW s \in Submitters, SubmitWaits(s) PROVE TypeOK'
  <2>1. PcOK'
    BY <1>10, GotoKeepsPcOK DEF SubmitWaits, PcOK
  <2> QED
    BY <1>10, <2>1 DEF TypeOK, PcOK, SubmitWaits, poolVars, history
<1>11. ASSUME NEW s \in Submitters, Enqueue(s) PROVE TypeOK'
  <2>1. PcOK'
    BY <1>11, GotoKeepsPcOK DEF Enqueue, PcOK
  <2>2. queue_size' \in 0 .. queue_capacity
    BY <1>11 DEF TypeOK, Enqueue, QueueFull
  <2>3. cond_work' \subseteq cond_work
    BY <1>11 DEF Enqueue, WakeOneWorker, AfterSignal
  <2>4. task[s] \in Tasks
    BY <1>11 DEF Enqueue, SubmitterHasTask
  <2>5. queue' \in [0 .. queue_capacity - 1 -> Tasks \cup {NoTask}]
    BY <1>11, <2>4 DEF TypeOK, Enqueue
  <2>6. accepted' \in SUBSET Tasks
    BY <1>11 DEF Enqueue, TypeOK, SubmitterHasTask
  <2> QED
    BY <1>11, <2>1, <2>2, <2>3, <2>5, <2>6 DEF TypeOK, PcOK, Enqueue
<1>12. ASSUME NEW a \in Waiters, WaitAllCall(a) PROVE TypeOK'
  <2>1. PcOK'
    BY <1>12, GotoKeepsPcOK DEF WaitAllCall, PcOK
  <2> QED
    BY <1>12, <2>1 DEF TypeOK, PcOK, WaitAllCall, poolVars
<1>13. ASSUME NEW a \in Waiters \cup {Main}, WaitAllWaits(a) PROVE TypeOK'
  <2>1. PcOK'
    BY <1>13, GotoKeepsPcOK DEF WaitAllWaits, PcOK
  <2> QED
    BY <1>13, <2>1 DEF TypeOK, PcOK, WaitAllWaits, poolVars, history
<1>14. ASSUME NEW a \in Waiters \cup {Main}, WaitAllReturns(a) PROVE TypeOK'
  <2>1. PcOK'
    BY <1>14, GotoKeepsPcOK DEF WaitAllReturns, PcOK
  <2> QED
    BY <1>14, <2>1 DEF TypeOK, PcOK, WaitAllReturns, poolVars, history
<1>15. ASSUME NEW w \in Workers, SpawnWorker(w) PROVE TypeOK'
  <2>1. PcOK'
    BY <1>15, GotoKeepsPcOK DEF SpawnWorker, PcOK
  <2> QED
    BY <1>15, <2>1 DEF TypeOK, PcOK, SpawnWorker, poolVars, history
<1>16. CASE CreateInit
  <2>1. PcOK'
    BY <1>16, GotoKeepsPcOK DEF CreateInit, PcOK
  <2> QED
    BY <1>16, <2>1 DEF TypeOK, PcOK, CreateInit, poolVars, history
<1>17. CASE CreateInitFails
  <2>1. PcOK'
    BY <1>17, GotoKeepsPcOK DEF CreateInitFails, PcOK
  <2> QED
    BY <1>17, <2>1 DEF TypeOK, PcOK, CreateInitFails, poolVars, history
<1>18. CASE CreateReturns
  <2>1. PcOK'
    BY <1>18, GotoKeepsPcOK DEF CreateReturns, PcOK
  <2> QED
    BY <1>18, <2>1 DEF TypeOK, PcOK, CreateReturns, poolVars, history
<1>19. CASE SpawnFails
  <2>1. PcOK'
    BY <1>19, GotoKeepsPcOK DEF SpawnFails, PcOK
  <2> QED
    BY <1>19, <2>1 DEF TypeOK, PcOK, SpawnFails, poolVars, history
<1>20. CASE AbortBroadcast
  <2>1. PcOK'
    BY <1>20, GotoKeepsPcOK DEF AbortBroadcast, PcOK
  <2> QED
    BY <1>20, <2>1 DEF TypeOK, PcOK, AbortBroadcast, AfterBroadcast, poolVars, history
<1>21. CASE AbortJoinAndFree
  <2>1. PcOK'
    BY <1>21, GotoKeepsPcOK DEF AbortJoinAndFree, PcOK
  <2> QED
    BY <1>21, <2>1 DEF TypeOK, PcOK, AbortJoinAndFree, poolVars, history
<1>22. CASE DestroyCall
  <2>1. PcOK'
    BY <1>22, GotoKeepsPcOK DEF DestroyCall, PcOK
  <2> QED
    BY <1>22, <2>1 DEF TypeOK, PcOK, DestroyCall, poolVars, history
<1>23. CASE Shutdown
  <2>1. PcOK'
    BY <1>23, GotoKeepsPcOK DEF Shutdown, PcOK
  <2> QED
    BY <1>23, <2>1 DEF TypeOK, PcOK, Shutdown, WakeAllForShutdown,
       AfterBroadcast, poolVars, history
<1>24. CASE JoinAndFree
  <2>1. PcOK'
    BY <1>24, GotoKeepsPcOK DEF JoinAndFree, PcOK
  <2> QED
    BY <1>24, <2>1 DEF TypeOK, PcOK, JoinAndFree, poolVars, history
<1>25. ASSUME NEW c \in Clients, Fault(c) PROVE TypeOK'
  <2>1. PcOK'
    BY <1>25, GotoKeepsPcOK DEF Fault, Clients, PcOK
  <2> QED
    BY <1>25, <2>1 DEF TypeOK, PcOK, Fault, poolVars, history
<1>26. CASE UNCHANGED vars
  BY <1>26 DEF TypeOK, vars
<1> QED
  BY <1>1, <1>2, <1>3, <1>4, <1>5, <1>6, <1>7, <1>8, <1>9, <1>10, <1>11, <1>12,
     <1>13, <1>14, <1>15, <1>16, <1>17, <1>18, <1>19, <1>20, <1>21, <1>22, <1>23, <1>24, <1>25, <1>26
  DEF Next, WorkerStep, SubmitStep, WaitAllStep, MainStep, Finished, Clients

(* The task of a call is set when the call begins and cleared when it ends. *)
LEMMA SubmitterHasTaskStep ==
  TypeOK /\ SubmitterHasTask /\ [Next]_vars => SubmitterHasTask'
<1> SUFFICES ASSUME TypeOK, SubmitterHasTask, [Next]_vars,
                    NEW s \in Submitters,
                    pc'[s] \in {"lock", "check", "sleep", "wait"}
             PROVE  task'[s] \in Tasks
  BY DEF SubmitterHasTask
<1> USE ThreadFacts
<1>1. ASSUME pc[s] \in {"lock", "check", "sleep", "wait"}, task'[s] = task[s]
      PROVE  task'[s] \in Tasks
  BY <1>1 DEF SubmitterHasTask
<1>2. ASSUME NEW x \in Threads, NEW label, Goto(x, label),
             x # s \/ pc[s] \in {"lock", "check", "sleep", "wait"},
             task'[s] = task[s]
      PROVE  task'[s] \in Tasks
  BY <1>1, <1>2 DEF Goto, TypeOK
<1>3. ASSUME NEW t \in Threads,
             Lock(t) \/ CondWait(t) \/ SpuriousWakeup(t) \/ Fault(t)
      PROVE  task'[s] \in Tasks
  <2>1. pc[s] # "shut_lock"
    BY LabelFacts DEF TypeOK
  <2> QED
    BY <1>1, <1>2, <1>3, <2>1 DEF Lock, CondWait, SpuriousWakeup, Fault
<1>4. ASSUME NEW w \in Workers,
             \/ WorkerWaits(w) \/ WorkerExits(w) \/ Dequeue(w)
             \/ RunTask(w) \/ SpawnWorker(w)
      PROVE  task'[s] \in Tasks
  BY <1>2, <1>4
  DEF TypeOK, WorkerWaits, WorkerExits, Dequeue, RunTask, SpawnWorker
<1>5. ASSUME NEW r \in Submitters, NEW t \in Tasks, SubmitCall(r, t)
      PROVE  task'[s] \in Tasks
  <2>1. CASE r = s
    BY <1>5, <2>1 DEF SubmitCall, TypeOK
  <2>2. CASE r # s
    BY <1>2, <1>5, <2>2 DEF SubmitCall, TypeOK
  <2> QED
    BY <2>1, <2>2
<1>6. ASSUME NEW r \in Submitters,
             SubmitRejected(r) \/ SubmitWaits(r) \/ Enqueue(r)
      PROVE  task'[s] \in Tasks
  <2>1. CASE SubmitWaits(r)
    BY <1>2, <2>1 DEF SubmitWaits, TypeOK
  <2>2. CASE SubmitRejected(r) \/ Enqueue(r)
    <3>1. r # s
      BY <2>2 DEF SubmitRejected, Enqueue, Goto, TypeOK
    <3> QED
      BY <1>2, <2>2, <3>1 DEF SubmitRejected, Enqueue, TypeOK
  <2> QED
    BY <1>6, <2>1, <2>2
<1>7. ASSUME NEW a \in Waiters \cup {Main},
             WaitAllCall(a) \/ WaitAllWaits(a) \/ WaitAllReturns(a)
      PROVE  task'[s] \in Tasks
  BY <1>2, <1>7 DEF WaitAllCall, WaitAllWaits, WaitAllReturns
<1>8. CASE \/ CreateInit \/ CreateInitFails \/ CreateReturns \/ SpawnFails
           \/ AbortBroadcast \/ AbortJoinAndFree \/ DestroyCall
           \/ Shutdown \/ JoinAndFree
  BY <1>2, <1>8 DEF CreateInit, CreateInitFails, CreateReturns, SpawnFails,
     AbortBroadcast, AbortJoinAndFree, DestroyCall, Shutdown, JoinAndFree
<1>9. CASE UNCHANGED vars
  BY <1>1, <1>9 DEF vars
<1> QED
  BY <1>3, <1>4, <1>5, <1>6, <1>7, <1>8, <1>9
  DEF Next, WorkerStep, SubmitStep, WaitAllStep, MainStep, Finished, Clients

(***************************************************************************)
(* Type correctness: the ring never holds more than queue_capacity tasks,  *)
(* its index never leaves the array, and every thread is at a label of its *)
(* own function.                                                           *)
(***************************************************************************)
THEOREM TypeCorrect == Spec => []TypeOK
<1>1. Init => SubmitterHasTask
  BY ThreadFacts DEF Init, SubmitterHasTask
<1> QED
  BY <1>1, TypeInit, TypeStep, SubmitterHasTaskStep, PTL DEF Spec

-----------------------------------------------------------------------------
(* Synchronisation: the inductive invariant behind NoLostWakeup.           *)

(* A thread that is inside the critical section holds the mutex.           *)
MutexInv ==
  \A t \in Threads : pc[t] \in {"check", "sleep", "shut"} => mutex = t

(* Only threads inside pthread_cond_wait are asleep.                       *)
SleepInv == \A t \in cond_work \cup cond_empty : pc[t] = "wait"

(* Until thread_pool_create has returned nobody calls the pool.            *)
CreateInv ==
  /\ pc[Main] = "create" => \A w \in Workers : pc[w] = "unborn"
  /\ pc[Main] \in CreatePC =>
       queue_size = 0 /\ \A c \in Clients : pc[c] = "idle"
  /\ pc[Main] \notin CreatePC => \A w \in Workers : pc[w] # "unborn"

(* `shutdown' is set by a failed create and by the destroy only.           *)
ShutdownInv ==
  /\ pc[Main] \in {"abort", "abort_join", "join", "destroyed"} => shutdown
  /\ shutdown => pc[Main] \in {"abort", "abort_join", "null", "join",
                               "destroyed"}

(* A worker stops only when nothing is queued and nothing can be.          *)
DoneInv == \A w \in Workers : pc[w] = "done" => shutdown /\ queue_size = 0

(* What a thread that decided to sleep has seen still holds: it has the    *)
(* mutex.                                                                  *)
DecisionInv ==
  /\ \A w \in Workers : pc[w] = "sleep" =>
       queue_size = 0 /\ pc[Main] \notin {"join", "destroyed"}
  /\ \A s \in Submitters : pc[s] = "sleep" =>
       queue_size = queue_capacity /\ ~shutdown

(* The sleepers on cond_work.  The last clause is the heart of it: as long *)
(* as a worker sleeps, there are at least as many workers awake as there   *)
(* are tasks queued.                                                       *)
SleepersInv ==
  /\ cond_work \cap Submitters # {} => queue_size = queue_capacity
  /\ pc[Main] \in {"join", "destroyed"} => cond_work = {}
  /\ cond_work \cap Workers # {} =>
       Cardinality(cond_work \cap Workers) + queue_size <= Cardinality(Workers)

SyncInv ==
  /\ TypeOK /\ SubmitterHasTask
  /\ MutexInv /\ SleepInv /\ CreateInv /\ ShutdownInv /\ DoneInv
  /\ DecisionInv /\ SleepersInv /\ WorkersGoneWhenFreed

(* The cardinalities of sets of sleeping workers.                          *)
LEMMA SleeperCount ==
  ASSUME NEW S, S \subseteq Workers
  PROVE  /\ Cardinality(S) \in Nat
         /\ Cardinality(S) <= Cardinality(Workers)
         /\ S # Workers => Cardinality(S) < Cardinality(Workers)
         /\ \A w \in S : Cardinality(S \ {w}) = Cardinality(S) - 1
         /\ \A T \in SUBSET S :
              Cardinality(T) \in Nat /\ Cardinality(T) <= Cardinality(S)
<1>1. IsFiniteSet(Workers) /\ IsFiniteSet(S)
  BY PoolAssumption, FS_Subset
<1> QED
  BY <1>1, FS_Subset, FS_CardinalityType, FS_RemoveElement

(* Waking sleepers and nothing else keeps what holds of the sleepers.      *)
LEMMA FewerSleepers ==
  ASSUME TypeOK, SleepersInv, cond_work' \subseteq cond_work,
         UNCHANGED <<queue_size, pc>>
  PROVE  SleepersInv'
<1>1. cond_work' \cap Workers \subseteq cond_work \cap Workers
  OBVIOUS
<1>2. /\ Cardinality(cond_work \cap Workers) \in Nat
      /\ Cardinality(cond_work' \cap Workers) \in Nat
      /\ Cardinality(cond_work' \cap Workers)
           <= Cardinality(cond_work \cap Workers)
  BY <1>1, SleeperCount
<1>3. queue_size \in Nat
  BY CapacityFacts DEF TypeOK
<1> QED
  BY <1>1, <1>2, <1>3, CapacityFacts DEF SleepersInv

(* Every step keeps the synchronisation invariant.                         *)
LEMMA SyncStep == SyncInv /\ [Next]_vars => SyncInv'
<1> SUFFICES ASSUME SyncInv, [Next]_vars PROVE SyncInv'
  OBVIOUS
<1> USE ThreadFacts, CapacityFacts
<1>a. TypeOK /\ MutexInv /\ SleepInv /\ CreateInv /\ ShutdownInv /\ DoneInv
     /\ DecisionInv /\ SleepersInv /\ WorkersGoneWhenFreed
  BY DEF SyncInv
<1>b. TypeOK' /\ SubmitterHasTask'
  BY TypeStep, SubmitterHasTaskStep DEF SyncInv
<1>1. ASSUME NEW t \in Threads, Lock(t)
      PROVE  SyncInv'
  <2>1. MutexInv' /\ SleepInv'
    BY <1>1, <1>a DEF Goto, MutexInv, SleepInv, Lock, Asleep
  <2>2. CreateInv'
    BY <1>1, <1>a DEF Goto, poolVars, CreateInv, CreatePC, Lock
  <2>3. ShutdownInv' /\ DoneInv' /\ WorkersGoneWhenFreed'
    BY <1>1, <1>a
    DEF Goto, poolVars, ShutdownInv, DoneInv, WorkersGoneWhenFreed, Lock
  <2>4. DecisionInv'
    BY <1>1, <1>a DEF Goto, DecisionInv, MutexInv, Lock
  <2>5. SleepersInv'
    BY <1>1, <1>a DEF Goto, poolVars, SleepersInv, Lock
  <2> QED
    BY <1>b, <2>1, <2>2, <2>3, <2>4, <2>5 DEF SyncInv
<1>2. ASSUME NEW t \in Threads, CondWait(t)
      PROVE  SyncInv'
  <2>1. MutexInv' /\ SleepInv'
    BY <1>2, <1>a DEF TypeOK, Goto, MutexInv, SleepInv, CondWait
  <2>2. CreateInv'
    BY <1>2, <1>a DEF Goto, poolVars, CreateInv, CreatePC, CondWait
  <2>3. ShutdownInv' /\ DoneInv' /\ WorkersGoneWhenFreed'
    BY <1>2, <1>a
    DEF Goto, poolVars, ShutdownInv, DoneInv, WorkersGoneWhenFreed, CondWait
  <2>4. DecisionInv'
    BY <1>2, <1>a DEF Goto, poolVars, DecisionInv, CondWait
  <2>5. SleepersInv'
    <3>1. queue_size' = queue_size /\ pc'[Main] \in {"join", "destroyed"} =>
            pc[Main] \in {"join", "destroyed"}
      BY <1>2, <1>a DEF CondWait, Goto
    <3>2. CASE t \in Workers
      <4>1. /\ queue_size = 0
            /\ pc[Main] \notin {"join", "destroyed"}
            /\ cond_work' = cond_work \cup {t}
            /\ queue_size' = queue_size
        BY <1>2, <1>a, <3>2 DEF CondWait, DecisionInv, poolVars
      <4>2. cond_work' \cap Submitters = cond_work \cap Submitters
        BY <3>2, <4>1
      <4>3. Cardinality(cond_work' \cap Workers) \in Nat
            /\ Cardinality(cond_work' \cap Workers) <= Cardinality(Workers)
        BY SleeperCount
      <4> QED
        BY <1>a, <3>1, <4>1, <4>2, <4>3 DEF SleepersInv
    <3>3. CASE t \in Submitters
      <4>1. /\ queue_size = queue_capacity
            /\ pc[Main] \notin {"join", "destroyed"}
            /\ cond_work' = cond_work \cup {t}
            /\ queue_size' = queue_size
        BY <1>2, <1>a, <3>3 DEF CondWait, DecisionInv, ShutdownInv, poolVars
      <4>2. cond_work' \cap Workers = cond_work \cap Workers
        BY <3>3, <4>1
      <4> QED
        BY <1>a, <3>1, <4>1, <4>2 DEF SleepersInv
    <3>4. CASE t \notin Workers \cup Submitters
      BY <1>2, <1>a, <3>1, <3>4 DEF CondWait, SleepersInv, poolVars
    <3> QED
      BY <3>2, <3>3, <3>4
  <2> QED
    BY <1>b, <2>1, <2>2, <2>3, <2>4, <2>5 DEF SyncInv
<1>3. ASSUME NEW t \in Threads, SpuriousWakeup(t)
      PROVE  SyncInv'
  <2>1. MutexInv' /\ SleepInv'
    BY <1>3, <1>a DEF MutexInv, SleepInv, SpuriousWakeup
  <2>2. CreateInv'
    BY <1>3, <1>a DEF poolVars, CreateInv, SpuriousWakeup
  <2>3. ShutdownInv' /\ DoneInv' /\ WorkersGoneWhenFreed'
    BY <1>3, <1>a
    DEF poolVars, ShutdownInv, DoneInv, WorkersGoneWhenFreed, SpuriousWakeup
  <2>4. DecisionInv'
    BY <1>3, <1>a DEF poolVars, DecisionInv, SpuriousWakeup
  <2>5. SleepersInv'
    <3>1. /\ cond_work' \subseteq cond_work
          /\ UNCHANGED <<queue_size, pc>>
      BY <1>3 DEF SpuriousWakeup, poolVars
    <3> QED
      BY <1>a, <3>1, FewerSleepers
  <2> QED
    BY <1>b, <2>1, <2>2, <2>3, <2>4, <2>5 DEF SyncInv
<1>4. ASSUME NEW w \in Workers, WorkerWaits(w)
      PROVE  SyncInv'
  <2>1. MutexInv' /\ SleepInv'
    BY <1>4, <1>a DEF Goto, MutexInv, SleepInv, WorkerWaits
  <2>2. CreateInv'
    BY <1>4, <1>a DEF Goto, poolVars, CreateInv, WorkerWaits
  <2>3. ShutdownInv' /\ DoneInv' /\ WorkersGoneWhenFreed'
    BY <1>4, <1>a
    DEF Goto, ShutdownInv, DoneInv, WorkersGoneWhenFreed, WorkerWaits
  <2>4. DecisionInv'
    BY <1>4, <1>a DEF Goto, poolVars, DecisionInv, ShutdownInv, WorkerWaits
  <2>5. SleepersInv'
    BY <1>4, <1>a DEF Goto, poolVars, SleepersInv, WorkerWaits
  <2> QED
    BY <1>b, <2>1, <2>2, <2>3, <2>4, <2>5 DEF SyncInv
<1>5. ASSUME NEW w \in Workers, WorkerExits(w)
      PROVE  SyncInv'
  <2>1. MutexInv' /\ SleepInv'
    BY <1>5, <1>a DEF TypeOK, Goto, MutexInv, SleepInv, WorkerExits
  <2>2. CreateInv'
    BY <1>5, <1>a DEF Goto, poolVars, CreateInv, WorkerExits
  <2>3. ShutdownInv' /\ DoneInv' /\ WorkersGoneWhenFreed'
    BY <1>5, <1>a
    DEF Goto, poolVars, ShutdownInv, DoneInv, WorkersGoneWhenFreed,
        WorkerExits
  <2>4. DecisionInv'
    BY <1>5, <1>a DEF Goto, DecisionInv, MutexInv, WorkerExits
  <2>5. SleepersInv'
    BY <1>5, <1>a DEF Goto, poolVars, SleepersInv, WorkerExits
  <2> QED
    BY <1>b, <2>1, <2>2, <2>3, <2>4, <2>5 DEF SyncInv
<1>6. ASSUME NEW w \in Workers, Dequeue(w)
      PROVE  SyncInv'
  <2>0. cond_work' \subseteq cond_work /\ cond_empty' \subseteq cond_empty
    BY <1>6
    DEF Dequeue, WakeForRoom, WakeForEmpty, AfterBroadcast, AfterSignal
  <2>1. MutexInv' /\ SleepInv'
    BY <1>6, <1>a, <2>0 DEF TypeOK, Goto, MutexInv, SleepInv, Dequeue
  <2>2. CreateInv'
    BY <1>6, <1>a DEF Goto, CreateInv, Dequeue
  <2>3. ShutdownInv' /\ DoneInv' /\ WorkersGoneWhenFreed'
    BY <1>6, <1>a
    DEF Goto, ShutdownInv, DoneInv, WorkersGoneWhenFreed, Dequeue
  <2>4. DecisionInv'
    BY <1>6, <1>a DEF Goto, DecisionInv, MutexInv, Dequeue
  <2>5. SleepersInv'
    <3>1. /\ queue_size \in Nat \ {0}
          /\ queue_size' = queue_size - 1
          /\ pc'[Main] = pc[Main]
      BY <1>6, <1>a DEF Dequeue, Goto, TypeOK
    <3>2. CASE queue_size = queue_capacity
      BY <1>6, <3>1, <3>2
      DEF Dequeue, WakeForRoom, AfterBroadcast, SleepersInv
    <3>3. CASE queue_size # queue_capacity
      <4>1. cond_work' = cond_work
        BY <1>6, <3>1, <3>3 DEF Dequeue, WakeForRoom
      <4>2. Cardinality(cond_work \cap Workers) \in Nat
        BY SleeperCount
      <4> QED
        BY <1>a, <3>1, <3>3, <4>1, <4>2 DEF SleepersInv
    <3> QED
      BY <3>2, <3>3
  <2> QED
    BY <1>b, <2>1, <2>2, <2>3, <2>4, <2>5 DEF SyncInv
<1>7. ASSUME NEW w \in Workers, RunTask(w)
      PROVE  SyncInv'
  <2>1. MutexInv' /\ SleepInv'
    BY <1>7, <1>a DEF Goto, MutexInv, SleepInv, RunTask
  <2>2. CreateInv'
    BY <1>7, <1>a DEF Goto, poolVars, CreateInv, RunTask
  <2>3. ShutdownInv' /\ DoneInv' /\ WorkersGoneWhenFreed'
    BY <1>7, <1>a
    DEF Goto, poolVars, ShutdownInv, DoneInv, WorkersGoneWhenFreed, RunTask
  <2>4. DecisionInv'
    BY <1>7, <1>a DEF Goto, poolVars, DecisionInv, RunTask
  <2>5. SleepersInv'
    BY <1>7, <1>a DEF Goto, poolVars, SleepersInv, RunTask
  <2> QED
    BY <1>b, <2>1, <2>2, <2>3, <2>4, <2>5 DEF SyncInv
<1>8. ASSUME NEW s \in Submitters, NEW t \in Tasks, SubmitCall(s, t)
      PROVE  SyncInv'
  <2>1. MutexInv' /\ SleepInv'
    BY <1>8, <1>a DEF Goto, MutexInv, SleepInv, SubmitCall
  <2>2. CreateInv'
    BY <1>8, <1>a DEF Goto, CreateInv, CreatePC, SubmitCall, MayCall
  <2>3. ShutdownInv' /\ DoneInv' /\ WorkersGoneWhenFreed'
    BY <1>8, <1>a
    DEF Goto, poolVars, ShutdownInv, DoneInv, WorkersGoneWhenFreed, SubmitCall
  <2>4. DecisionInv'
    BY <1>8, <1>a DEF Goto, poolVars, DecisionInv, SubmitCall
  <2>5. SleepersInv'
    BY <1>8, <1>a DEF Goto, poolVars, SleepersInv, SubmitCall
  <2> QED
    BY <1>b, <2>1, <2>2, <2>3, <2>4, <2>5 DEF SyncInv
<1>9. ASSUME NEW s \in Submitters, SubmitRejected(s)
      PROVE  SyncInv'
  <2>1. MutexInv' /\ SleepInv'
    BY <1>9, <1>a DEF TypeOK, Goto, MutexInv, SleepInv, SubmitRejected
  <2>2. CreateInv'
    BY <1>9, <1>a DEF Goto, CreateInv, Clients, SubmitRejected
  <2>3. ShutdownInv' /\ DoneInv' /\ WorkersGoneWhenFreed'
    BY <1>9, <1>a
    DEF Goto, poolVars, ShutdownInv, DoneInv, WorkersGoneWhenFreed,
        SubmitRejected
  <2>4. DecisionInv'
    BY <1>9, <1>a DEF Goto, DecisionInv, MutexInv, SubmitRejected
  <2>5. SleepersInv'
    BY <1>9, <1>a DEF Goto, poolVars, SleepersInv, SubmitRejected
  <2> QED
    BY <1>b, <2>1, <2>2, <2>3, <2>4, <2>5 DEF SyncInv
<1>10. ASSUME NEW s \in Submitters, SubmitWaits(s)
      PROVE  SyncInv'
  <2>1. MutexInv' /\ SleepInv'
    BY <1>10, <1>a DEF Goto, MutexInv, SleepInv, SubmitWaits
  <2>2. CreateInv'
    BY <1>10, <1>a DEF Goto, CreateInv, SubmitWaits, QueueFull
  <2>3. ShutdownInv' /\ DoneInv' /\ WorkersGoneWhenFreed'
    BY <1>10, <1>a
    DEF Goto, ShutdownInv, DoneInv, WorkersGoneWhenFreed, SubmitWaits,
        QueueFull
  <2>4. DecisionInv'
    BY <1>10, <1>a
    DEF TypeOK, Goto, poolVars, DecisionInv, SubmitWaits, MustReject,
        QueueFull
  <2>5. SleepersInv'
    BY <1>10, <1>a DEF Goto, poolVars, SleepersInv, SubmitWaits
  <2> QED
    BY <1>b, <2>1, <2>2, <2>3, <2>4, <2>5 DEF SyncInv
<1>11. ASSUME NEW s \in Submitters, Enqueue(s)
      PROVE  SyncInv'
  <2>0. cond_work' \subseteq cond_work
    BY <1>11 DEF Enqueue, WakeOneWorker, AfterSignal
  <2>1. MutexInv' /\ SleepInv'
    BY <1>11, <1>a, <2>0 DEF TypeOK, Goto, MutexInv, SleepInv, Enqueue
  <2>2. CreateInv'
    BY <1>11, <1>a DEF Goto, CreateInv, Clients, Enqueue
  <2>3. ShutdownInv' /\ DoneInv' /\ WorkersGoneWhenFreed'
    BY <1>11, <1>a
    DEF Goto, ShutdownInv, DoneInv, WorkersGoneWhenFreed, Enqueue, MustReject
  <2>4. DecisionInv'
    BY <1>11, <1>a DEF Goto, DecisionInv, MutexInv, Enqueue
  <2>5. SleepersInv'
    <3>1. /\ cond_work \cap Submitters = {}
          /\ queue_size \in Nat
          /\ queue_size' = queue_size + 1
          /\ pc'[Main] = pc[Main]
      BY <1>11, <1>a DEF Enqueue, Goto, TypeOK, QueueFull, SleepersInv
    <3>2. cond_work \subseteq Workers
      BY <1>a, <3>1 DEF TypeOK
    <3>3. CASE cond_work = {}
      BY <1>11, <3>3 DEF Enqueue, WakeOneWorker, AfterSignal, SleepersInv
    <3>4. CASE cond_work # {}
      <4>1. PICK v \in cond_work : cond_work' = cond_work \ {v}
        BY <1>11, <3>4 DEF Enqueue, WakeOneWorker, AfterSignal
      <4>2. /\ cond_work \cap Workers = cond_work
            /\ cond_work' \cap Workers = cond_work \ {v}
            /\ cond_work' \cap Submitters = {}
        BY <3>2, <4>1
      <4>3. /\ Cardinality(cond_work) \in Nat
            /\ Cardinality(cond_work \ {v}) = Cardinality(cond_work) - 1
            /\ Cardinality(cond_work) + queue_size <= Cardinality(Workers)
        BY <1>a, <3>2, <3>4, <4>2, SleeperCount DEF SleepersInv
      <4>4. Cardinality(cond_work' \cap Workers) = Cardinality(cond_work) - 1
        BY <4>2, <4>3
      <4>5. Cardinality(cond_work' \cap Workers) + queue_size'
              <= Cardinality(Workers)
        BY <3>1, <4>3, <4>4
      <4>6. pc'[Main] \notin {"join", "destroyed"}
        BY <1>a, <3>1, <3>4 DEF SleepersInv
      <4> QED
        BY <4>2, <4>5, <4>6 DEF SleepersInv
    <3> QED
      BY <3>3, <3>4
  <2> QED
    BY <1>b, <2>1, <2>2, <2>3, <2>4, <2>5 DEF SyncInv
<1>12. ASSUME NEW a \in Waiters, WaitAllCall(a)
      PROVE  SyncInv'
  <2>1. MutexInv' /\ SleepInv'
    BY <1>12, <1>a DEF Goto, MutexInv, SleepInv, WaitAllCall
  <2>2. CreateInv'
    BY <1>12, <1>a DEF Goto, CreateInv, CreatePC, WaitAllCall, MayCall
  <2>3. ShutdownInv' /\ DoneInv' /\ WorkersGoneWhenFreed'
    BY <1>12, <1>a
    DEF Goto, poolVars, ShutdownInv, DoneInv, WorkersGoneWhenFreed,
        WaitAllCall
  <2>4. DecisionInv'
    BY <1>12, <1>a DEF Goto, poolVars, DecisionInv, WaitAllCall
  <2>5. SleepersInv'
    BY <1>12, <1>a DEF Goto, poolVars, SleepersInv, WaitAllCall
  <2> QED
    BY <1>b, <2>1, <2>2, <2>3, <2>4, <2>5 DEF SyncInv
<1>13. ASSUME NEW a \in Waiters \cup {Main}, WaitAllWaits(a)
      PROVE  SyncInv'
  <2>1. MutexInv' /\ SleepInv'
    BY <1>13, <1>a DEF Goto, MutexInv, SleepInv, WaitAllWaits
  <2>2. CreateInv'
    BY <1>13, <1>a DEF Goto, CreateInv, CreatePC, Clients, WaitAllWaits
  <2>3. ShutdownInv' /\ DoneInv' /\ WorkersGoneWhenFreed'
    BY <1>13, <1>a
    DEF Goto, poolVars, ShutdownInv, DoneInv, WorkersGoneWhenFreed,
        WaitAllWaits
  <2>4. DecisionInv'
    BY <1>13, <1>a DEF Goto, DecisionInv, MutexInv, WaitAllWaits
  <2>5. SleepersInv'
    BY <1>13, <1>a DEF Goto, poolVars, SleepersInv, WaitAllWaits
  <2> QED
    BY <1>b, <2>1, <2>2, <2>3, <2>4, <2>5 DEF SyncInv
<1>14. ASSUME NEW a \in Waiters \cup {Main}, WaitAllReturns(a)
      PROVE  SyncInv'
  <2>1. MutexInv' /\ SleepInv'
    BY <1>14, <1>a DEF TypeOK, Goto, MutexInv, SleepInv, WaitAllReturns
  <2>2. CreateInv'
    BY <1>14, <1>a DEF Goto, CreateInv, CreatePC, Clients, WaitAllReturns
  <2>3. ShutdownInv' /\ DoneInv' /\ WorkersGoneWhenFreed'
    BY <1>14, <1>a
    DEF Goto, poolVars, ShutdownInv, DoneInv, WorkersGoneWhenFreed,
        WaitAllReturns
  <2>4. DecisionInv'
    BY <1>14, <1>a DEF Goto, DecisionInv, MutexInv, WaitAllReturns
  <2>5. SleepersInv'
    BY <1>14, <1>a DEF Goto, poolVars, SleepersInv, WaitAllReturns
  <2> QED
    BY <1>b, <2>1, <2>2, <2>3, <2>4, <2>5 DEF SyncInv
<1>15. ASSUME NEW w \in Workers, SpawnWorker(w)
      PROVE  SyncInv'
  <2>1. MutexInv' /\ SleepInv'
    BY <1>15, <1>a DEF Goto, MutexInv, SleepInv, SpawnWorker
  <2>2. CreateInv'
    BY <1>15, <1>a DEF Goto, poolVars, CreateInv, SpawnWorker
  <2>3. ShutdownInv' /\ DoneInv' /\ WorkersGoneWhenFreed'
    BY <1>15, <1>a
    DEF Goto, ShutdownInv, DoneInv, WorkersGoneWhenFreed, SpawnWorker
  <2>4. DecisionInv'
    BY <1>15, <1>a DEF Goto, poolVars, DecisionInv, SpawnWorker
  <2>5. SleepersInv'
    BY <1>15, <1>a DEF Goto, poolVars, SleepersInv, SpawnWorker
  <2> QED
    BY <1>b, <2>1, <2>2, <2>3, <2>4, <2>5 DEF SyncInv
<1>16. CASE CreateInit
  <2>1. MutexInv' /\ SleepInv'
    BY <1>16, <1>a DEF Goto, MutexInv, SleepInv, CreateInit
  <2>2. CreateInv'
    BY <1>16, <1>a DEF Goto, poolVars, CreateInv, CreatePC, CreateInit
  <2>3. ShutdownInv' /\ DoneInv' /\ WorkersGoneWhenFreed'
    BY <1>16, <1>a
    DEF Goto, ShutdownInv, DoneInv, WorkersGoneWhenFreed, CreateInit
  <2>4. DecisionInv'
    BY <1>16, <1>a DEF Goto, poolVars, DecisionInv, CreateInit
  <2>5. SleepersInv'
    BY <1>16, <1>a DEF Goto, poolVars, SleepersInv, CreateInit
  <2> QED
    BY <1>b, <2>1, <2>2, <2>3, <2>4, <2>5 DEF SyncInv
<1>17. CASE CreateInitFails
  <2>1. MutexInv' /\ SleepInv'
    BY <1>17, <1>a DEF Goto, MutexInv, SleepInv, CreateInitFails
  <2>2. CreateInv'
    BY <1>17, <1>a DEF Goto, poolVars, CreateInv, CreatePC, CreateInitFails
  <2>3. ShutdownInv' /\ DoneInv' /\ WorkersGoneWhenFreed'
    BY <1>17, <1>a
    DEF Goto, ShutdownInv, DoneInv, CreateInv, WorkersGoneWhenFreed,
        CreateInitFails
  <2>4. DecisionInv'
    BY <1>17, <1>a DEF Goto, poolVars, DecisionInv, CreateInitFails
  <2>5. SleepersInv'
    BY <1>17, <1>a DEF Goto, poolVars, SleepersInv, CreateInitFails
  <2> QED
    BY <1>b, <2>1, <2>2, <2>3, <2>4, <2>5 DEF SyncInv
<1>18. CASE CreateReturns
  <2>1. MutexInv' /\ SleepInv'
    BY <1>18, <1>a DEF Goto, MutexInv, SleepInv, CreateReturns
  <2>2. CreateInv'
    BY <1>18, <1>a DEF Goto, poolVars, CreateInv, CreatePC, CreateReturns
  <2>3. ShutdownInv' /\ DoneInv' /\ WorkersGoneWhenFreed'
    BY <1>18, <1>a
    DEF Goto, ShutdownInv, DoneInv, WorkersGoneWhenFreed, CreateReturns
  <2>4. DecisionInv'
    BY <1>18, <1>a DEF Goto, poolVars, DecisionInv, CreateReturns
  <2>5. SleepersInv'
    BY <1>18, <1>a DEF Goto, poolVars, SleepersInv, CreateReturns
  <2> QED
    BY <1>b, <2>1, <2>2, <2>3, <2>4, <2>5 DEF SyncInv
<1>19. CASE SpawnFails
  <2>1. MutexInv' /\ SleepInv'
    BY <1>19, <1>a DEF Goto, MutexInv, SleepInv, SpawnFails
  <2>2. CreateInv'
    BY <1>19, <1>a DEF Goto, poolVars, CreateInv, CreatePC, SpawnFails
  <2>3. ShutdownInv' /\ DoneInv' /\ WorkersGoneWhenFreed'
    BY <1>19, <1>a
    DEF TypeOK, Goto, ShutdownInv, DoneInv, WorkersGoneWhenFreed, SpawnFails
  <2>4. DecisionInv'
    BY <1>19, <1>a DEF Goto, poolVars, DecisionInv, CreateInv, SpawnFails
  <2>5. SleepersInv'
    BY <1>19, <1>a DEF Goto, poolVars, SleepersInv, SpawnFails
  <2> QED
    BY <1>b, <2>1, <2>2, <2>3, <2>4, <2>5 DEF SyncInv
<1>20. CASE AbortBroadcast
  <2>1. MutexInv' /\ SleepInv'
    BY <1>20, <1>a
    DEF Goto, MutexInv, SleepInv, AbortBroadcast, AfterBroadcast
  <2>2. CreateInv'
    BY <1>20, <1>a DEF Goto, poolVars, CreateInv, CreatePC, AbortBroadcast
  <2>3. ShutdownInv' /\ DoneInv' /\ WorkersGoneWhenFreed'
    BY <1>20, <1>a
    DEF Goto, poolVars, ShutdownInv, DoneInv, WorkersGoneWhenFreed,
        AbortBroadcast
  <2>4. DecisionInv'
    BY <1>20, <1>a DEF Goto, poolVars, DecisionInv, AbortBroadcast
  <2>5. SleepersInv'
    BY <1>20, <1>a DEF SleepersInv, AbortBroadcast, AfterBroadcast
  <2> QED
    BY <1>b, <2>1, <2>2, <2>3, <2>4, <2>5 DEF SyncInv
<1>21. CASE AbortJoinAndFree
  <2>1. MutexInv' /\ SleepInv'
    BY <1>21, <1>a DEF Goto, MutexInv, SleepInv, AbortJoinAndFree
  <2>2. CreateInv'
    BY <1>21, <1>a DEF Goto, poolVars, CreateInv, CreatePC, AbortJoinAndFree
  <2>3. ShutdownInv' /\ DoneInv' /\ WorkersGoneWhenFreed'
    BY <1>21, <1>a
    DEF Goto, poolVars, ShutdownInv, DoneInv, WorkersGoneWhenFreed,
        AbortJoinAndFree, Joined
  <2>4. DecisionInv'
    BY <1>21, <1>a
    DEF Goto, DecisionInv, ShutdownInv, AbortJoinAndFree, Joined
  <2>5. SleepersInv'
    BY <1>21, <1>a DEF Goto, poolVars, SleepersInv, AbortJoinAndFree
  <2> QED
    BY <1>b, <2>1, <2>2, <2>3, <2>4, <2>5 DEF SyncInv
<1>22. CASE DestroyCall
  <2>1. MutexInv' /\ SleepInv'
    BY <1>22, <1>a DEF Goto, MutexInv, SleepInv, DestroyCall
  <2>2. CreateInv'
    BY <1>22, <1>a DEF Goto, CreateInv, CreatePC, DestroyCall
  <2>3. ShutdownInv' /\ DoneInv' /\ WorkersGoneWhenFreed'
    BY <1>22, <1>a
    DEF Goto, ShutdownInv, DoneInv, WorkersGoneWhenFreed, DestroyCall
  <2>4. DecisionInv'
    BY <1>22, <1>a DEF Goto, poolVars, DecisionInv, DestroyCall
  <2>5. SleepersInv'
    BY <1>22, <1>a DEF Goto, poolVars, SleepersInv, DestroyCall
  <2> QED
    BY <1>b, <2>1, <2>2, <2>3, <2>4, <2>5 DEF SyncInv
<1>23. CASE Shutdown
  <2>1. MutexInv' /\ SleepInv'
    BY <1>23, <1>a
    DEF TypeOK, Goto, MutexInv, SleepInv, Shutdown, WakeAllForShutdown,
        AfterBroadcast
  <2>2. CreateInv'
    BY <1>23, <1>a DEF Goto, CreateInv, CreatePC, Shutdown
  <2>3. ShutdownInv' /\ DoneInv' /\ WorkersGoneWhenFreed'
    BY <1>23, <1>a
    DEF TypeOK, Goto, ShutdownInv, DoneInv, WorkersGoneWhenFreed, Shutdown
  <2>4. DecisionInv'
    BY <1>23, <1>a DEF Goto, DecisionInv, MutexInv, Shutdown
  <2>5. SleepersInv'
    BY <1>23, <1>a
    DEF SleepersInv, Shutdown, WakeAllForShutdown, AfterBroadcast
  <2> QED
    BY <1>b, <2>1, <2>2, <2>3, <2>4, <2>5 DEF SyncInv
<1>24. CASE JoinAndFree
  <2>1. MutexInv' /\ SleepInv'
    BY <1>24, <1>a DEF Goto, MutexInv, SleepInv, JoinAndFree
  <2>2. CreateInv'
    BY <1>24, <1>a DEF Goto, CreateInv, CreatePC, JoinAndFree
  <2>3. ShutdownInv' /\ DoneInv' /\ WorkersGoneWhenFreed'
    BY <1>24, <1>a
    DEF Goto, poolVars, ShutdownInv, DoneInv, WorkersGoneWhenFreed,
        JoinAndFree, Joined
  <2>4. DecisionInv'
    BY <1>24, <1>a DEF Goto, DecisionInv, ShutdownInv, JoinAndFree
  <2>5. SleepersInv'
    BY <1>24, <1>a DEF SleepersInv, JoinAndFree
  <2> QED
    BY <1>b, <2>1, <2>2, <2>3, <2>4, <2>5 DEF SyncInv
<1>25. ASSUME NEW c \in Clients, Fault(c)
      PROVE  SyncInv'
  <2>1. MutexInv' /\ SleepInv'
    BY <1>25, <1>a DEF Goto, MutexInv, SleepInv, Fault, Asleep
  <2>2. CreateInv'
    BY <1>25, <1>a DEF Goto, CreateInv, Clients, Fault
  <2>3. ShutdownInv' /\ DoneInv' /\ WorkersGoneWhenFreed'
    BY <1>25, <1>a
    DEF Goto, poolVars, ShutdownInv, DoneInv, WorkersGoneWhenFreed, Fault
  <2>4. DecisionInv'
    BY <1>25, <1>a DEF Goto, poolVars, DecisionInv, Fault
  <2>5. SleepersInv'
    BY <1>25, <1>a DEF Goto, poolVars, SleepersInv, Fault
  <2> QED
    BY <1>b, <2>1, <2>2, <2>3, <2>4, <2>5 DEF SyncInv
<1>26. CASE UNCHANGED vars
  BY <1>26, <1>a, <1>b
  DEF vars, SyncInv, MutexInv, SleepInv, CreateInv, ShutdownInv, DoneInv,
      DecisionInv, SleepersInv, WorkersGoneWhenFreed
<1> QED
  BY <1>1, <1>2, <1>3, <1>4, <1>5, <1>6, <1>7, <1>8, <1>9, <1>10, <1>11,
     <1>12, <1>13, <1>14, <1>15, <1>16, <1>17, <1>18, <1>19, <1>20, <1>21,
     <1>22, <1>23, <1>24, <1>25, <1>26
  DEF Next, WorkerStep, SubmitStep, WaitAllStep, MainStep, Finished

(* When thread_pool_create begins, nobody holds the mutex and nobody sleeps. *)
THEOREM SyncInit == Init => SyncInv
<1> SUFFICES ASSUME Init PROVE SyncInv
  OBVIOUS
<1> USE ThreadFacts
<1>1. pc[Main] = "create" /\ \A w \in Workers : pc[w] = "unborn"
  BY DEF Init
<1>2. \A c \in Clients : pc[c] = "idle"
  BY DEF Init, Clients
<1>3. \A t \in Threads : pc[t] \notin {"check", "sleep", "shut"}
  BY DEF Init
<1>4. MutexInv /\ SleepInv /\ SubmitterHasTask
  BY <1>2, <1>3 DEF Init, MutexInv, SleepInv, SubmitterHasTask, Clients
<1>5. CreateInv /\ ShutdownInv /\ DoneInv /\ WorkersGoneWhenFreed
  BY <1>1, <1>2
  DEF Init, CreateInv, CreatePC, ShutdownInv, DoneInv, WorkersGoneWhenFreed
<1>6. DecisionInv /\ SleepersInv
  BY <1>3 DEF Init, DecisionInv, SleepersInv
<1> QED
  BY <1>4, <1>5, <1>6, TypeInit DEF SyncInv

(* The mutex, the sleepers and the shutdown flag of the pool keep to the   *)
(* synchronisation invariant for ever.                                     *)
THEOREM SyncCorrect == Spec => []SyncInv
BY SyncInit, SyncStep, PTL DEF Spec

(***************************************************************************)
(* A worker that is not on its way has seen an empty queue, or sleeps; and *)
(* when all of them sleep the count of SleepersInv leaves no queued task.  *)
(***************************************************************************)
LEMMA SyncImpliesNoLostWakeup == SyncInv => NoLostWakeup
<1> SUFFICES ASSUME SyncInv PROVE NoLostWakeup
  OBVIOUS
<1> USE CapacityFacts
<1>1. ASSUME queue_size > 0, \A w \in Workers : ~OnItsWay(w)
      PROVE  FALSE
  <2>1. ASSUME NEW w \in Workers PROVE w \in cond_work
    <3>1. pc[w] \notin {"sleep", "done"}
      BY <1>1 DEF SyncInv, DecisionInv, DoneInv
    <3>2. pc[w] # "unborn"
      BY <1>1 DEF SyncInv, CreateInv
    <3>3. pc[w] \in WorkerPC
      BY DEF SyncInv, TypeOK
    <3> QED
      BY <1>1, <3>1, <3>2, <3>3, LabelFacts DEF OnItsWay
  <2>2. cond_work \cap Workers = Workers
    BY <2>1
  <2>3. Cardinality(Workers) + queue_size <= Cardinality(Workers)
    BY <2>2, PoolAssumption DEF SyncInv, SleepersInv
  <2>4. queue_size \in Nat
    BY DEF SyncInv, TypeOK
  <2> QED
    BY <1>1, <2>3, <2>4
<1>2. queue_size < queue_capacity => cond_work \cap Submitters = {}
  BY DEF SyncInv, SleepersInv, TypeOK
<1>3. pc[Main] \in {"join", "destroyed"} => cond_work = {}
  BY DEF SyncInv, SleepersInv
<1> QED
  BY <1>1, <1>2, <1>3 DEF NoLostWakeup

(***************************************************************************)
(* However many workers and submitters share cond_work, no wake-up is      *)
(* lost: a queued task never finds every worker asleep, no submitter       *)
(* sleeps while there is room, and nobody sleeps there after the shutdown. *)
(***************************************************************************)
THEOREM WakeupsAreNotLost == Spec => []NoLostWakeup
BY SyncCorrect, SyncImpliesNoLostWakeup, PTL

(***************************************************************************)
(* The pool is freed only when no worker thread can touch it again, in     *)
(* thread_pool_destroy and in the clean-up of thread_pool_create.          *)
(***************************************************************************)
THEOREM FreedAfterWorkers == Spec => []WorkersGoneWhenFreed
<1>1. SyncInv => WorkersGoneWhenFreed
  BY DEF SyncInv
<1> QED
  BY <1>1, SyncCorrect, PTL

(***************************************************************************)
(* After the shutdown nothing is accepted, and no worker leaves a task     *)
(* behind in the queue.                                                    *)
(***************************************************************************)
THEOREM ShutdownFinal == Spec => ShutdownIsFinal
<1> DEFINE Final == shutdown => /\ shutdown'
                               /\ accepted' = accepted
                               /\ \A w \in Workers :
                                    pc[w] # "done" /\ pc'[w] = "done" =>
                                      queue_size = 0
<1>1. TypeOK /\ [Next]_vars => [Final]_vars
  <2> SUFFICES ASSUME TypeOK, Next, shutdown PROVE Final
    OBVIOUS
  <2> USE ThreadFacts DEF TypeOK, Goto, history
  <2>1. ASSUME NEW t \in Threads,
               Lock(t) \/ CondWait(t) \/ SpuriousWakeup(t) \/ Fault(t)
        PROVE  Final
    BY <2>1 DEF Lock, CondWait, SpuriousWakeup, Fault
  <2>2. ASSUME NEW w \in Workers,
               \/ WorkerWaits(w) \/ WorkerExits(w) \/ Dequeue(w)
               \/ RunTask(w) \/ SpawnWorker(w)
        PROVE  Final
    BY <2>2 DEF WorkerWaits, WorkerExits, Dequeue, RunTask, SpawnWorker
  <2>3. ASSUME NEW s \in Submitters,
               \/ \E t \in Tasks : SubmitCall(s, t)
               \/ SubmitRejected(s) \/ SubmitWaits(s) \/ Enqueue(s)
        PROVE  Final
    BY <2>3 DEF SubmitCall, SubmitRejected, SubmitWaits, Enqueue, MustReject
  <2>4. ASSUME NEW a \in Waiters \cup {Main},
               WaitAllCall(a) \/ WaitAllWaits(a) \/ WaitAllReturns(a)
        PROVE  Final
    BY <2>4 DEF WaitAllCall, WaitAllWaits, WaitAllReturns
  <2>5. CASE \/ CreateInit \/ CreateInitFails \/ CreateReturns \/ SpawnFails
             \/ AbortBroadcast \/ AbortJoinAndFree \/ DestroyCall
             \/ Shutdown \/ JoinAndFree
    BY <2>5 DEF CreateInit, CreateInitFails, CreateReturns, SpawnFails,
       AbortBroadcast, AbortJoinAndFree, DestroyCall, Shutdown, JoinAndFree
  <2>6. CASE UNCHANGED vars
    BY <2>6 DEF vars
  <2> QED
    BY <2>1, <2>2, <2>3, <2>4, <2>5, <2>6
    DEF Next, WorkerStep, SubmitStep, WaitAllStep, MainStep, Finished, Clients
<1> QED
  BY <1>1, TypeCorrect, PTL DEF Spec, ShutdownIsFinal

-----------------------------------------------------------------------------
(* No task is lost, doubled or invented.                                   *)

(* The tasks in the queue.                                                 *)
Queued == RingEntries(queue, queue_front, queue_size, queue_capacity)

Distinct == RingDistinct(queue, queue_front, queue_size, queue_capacity)

(* A worker has a task exactly while it executes it, and what is queued is *)
(* a task.                                                                 *)
WorkerHasTask ==
  /\ \A w \in Workers : pc[w] = "run" <=> task[w] # NoTask
  /\ Queued \subseteq Tasks

(* Where the tasks are: with one submitter, queued once, in the hands of   *)
(* one worker, or executed.                                                *)
TaskInv ==
  /\ accepted \subseteq offered
  /\ Queued \subseteq accepted
  /\ Distinct
  /\ \A s \in Submitters : task[s] # NoTask => task[s] \in offered \ accepted
  /\ \A r, s \in Submitters : task[r] = task[s] /\ task[r] # NoTask => r = s
  /\ \A w \in Workers :
       task[w] # NoTask => task[w] \in accepted \ Queued /\ ran[task[w]] = 0
  /\ \A v, w \in Workers : task[v] = task[w] /\ task[v] # NoTask => v = w
  /\ \A t \in Tasks :
       /\ ran[t] \in {0, 1}
       /\ t \in Queued \/ t \notin accepted => ran[t] = 0
       /\ t \in accepted => t \in Queued \/ ran[t] = 1 \/ InHand(t)

(* What a step does to the tasks: the mutex, the condition variables and   *)
(* the labels are left out.                                                *)
taskVars == <<queue, queue_size, queue_front, task, offered, accepted, ran>>

Drops(s) ==
  /\ task' = [task EXCEPT ![s] = NoTask]
  /\ UNCHANGED <<queue, queue_size, queue_front, offered, accepted, ran>>

Offers(s, t) ==
  /\ t \notin offered
  /\ offered' = offered \cup {t}
  /\ task' = [task EXCEPT ![s] = t]
  /\ UNCHANGED <<queue, queue_size, queue_front, accepted, ran>>

Puts(s) ==
  /\ task[s] \in Tasks
  /\ queue_size < queue_capacity
  /\ queue' = [queue EXCEPT ![Slot(queue_front, queue_size, queue_capacity)]
                              = task[s]]
  /\ queue_size' = queue_size + 1
  /\ accepted' = accepted \cup {task[s]}
  /\ task' = [task EXCEPT ![s] = NoTask]
  /\ UNCHANGED <<queue_front, offered, ran>>

Takes(w) ==
  /\ task[w] = NoTask
  /\ queue_size > 0
  /\ task' = [task EXCEPT ![w] = queue[queue_front]]
  /\ queue_front' = Slot(queue_front, 1, queue_capacity)
  /\ queue_size' = queue_size - 1
  /\ UNCHANGED <<queue, offered, accepted, ran>>

Executes(w) ==
  /\ task[w] # NoTask
  /\ ran' = [ran EXCEPT ![task[w]] = @ + 1]
  /\ task' = [task EXCEPT ![w] = NoTask]
  /\ UNCHANGED <<queue, queue_size, queue_front, offered, accepted>>

(* Every step does one of these, or leaves the tasks alone.                *)
LEMMA TaskSteps ==
  ASSUME SyncInv, WorkerHasTask, [Next]_vars
  PROVE  \/ \E s \in Submitters :
              Drops(s) \/ Puts(s) \/ \E t \in Tasks : Offers(s, t)
         \/ \E w \in Workers : Takes(w) \/ Executes(w)
         \/ UNCHANGED taskVars
<1> USE ThreadFacts, CapacityFacts
<1>0. TypeOK /\ SubmitterHasTask
  BY DEF SyncInv
<1>1. ASSUME NEW t \in Threads,
             Lock(t) \/ CondWait(t) \/ SpuriousWakeup(t) \/ Fault(t)
      PROVE  UNCHANGED taskVars
  BY <1>1 DEF Lock, CondWait, SpuriousWakeup, Fault, taskVars, poolVars, history
<1>2. ASSUME NEW w \in Workers, WorkerWaits(w) \/ WorkerExits(w) \/ SpawnWorker(w)
      PROVE  UNCHANGED taskVars
  BY <1>2 DEF WorkerWaits, WorkerExits, SpawnWorker, taskVars, poolVars, history
<1>3. ASSUME NEW w \in Workers, Dequeue(w) PROVE Takes(w)
  <2>1. task[w] = NoTask
    BY <1>3 DEF Dequeue, WorkerHasTask
  <2>2. queue_size > 0
    BY <1>0, <1>3 DEF Dequeue, TypeOK
  <2> QED
    BY <1>3, <2>1, <2>2 DEF Dequeue, AdvanceFront, Takes, history
<1>4. ASSUME NEW w \in Workers, RunTask(w) PROVE Executes(w)
  BY <1>4 DEF RunTask, Executes, WorkerHasTask, poolVars
<1>5. ASSUME NEW s \in Submitters, NEW t \in Tasks, SubmitCall(s, t)
      PROVE  Offers(s, t)
  BY <1>5 DEF SubmitCall, Offers, poolVars
<1>6. ASSUME NEW s \in Submitters, SubmitRejected(s) PROVE Drops(s)
  BY <1>6 DEF SubmitRejected, Drops, poolVars, history
<1>7. ASSUME NEW s \in Submitters, SubmitWaits(s) PROVE UNCHANGED taskVars
  BY <1>7 DEF SubmitWaits, taskVars, poolVars, history
<1>8. ASSUME NEW s \in Submitters, Enqueue(s) PROVE Puts(s)
  <2>1. task[s] \in Tasks
    BY <1>0, <1>8 DEF Enqueue, SubmitterHasTask
  <2>2. queue_size < queue_capacity
    BY <1>0, <1>8 DEF Enqueue, QueueFull, TypeOK
  <2> QED
    BY <1>8, <2>1, <2>2 DEF Enqueue, Puts, queue_rear
<1>9. ASSUME NEW a \in Waiters \cup {Main},
             WaitAllCall(a) \/ WaitAllWaits(a) \/ WaitAllReturns(a)
      PROVE  UNCHANGED taskVars
  BY <1>9 DEF WaitAllCall, WaitAllWaits, WaitAllReturns, taskVars, poolVars,
     history
<1>10. CASE \/ CreateInit \/ CreateInitFails \/ CreateReturns \/ SpawnFails
            \/ AbortBroadcast \/ AbortJoinAndFree \/ DestroyCall
            \/ Shutdown \/ JoinAndFree
  BY <1>10 DEF CreateInit, CreateInitFails, CreateReturns, SpawnFails,
     AbortBroadcast, AbortJoinAndFree, DestroyCall, Shutdown, JoinAndFree,
     taskVars, poolVars, history
<1>11. CASE UNCHANGED vars
  BY <1>11 DEF vars, taskVars
<1> HIDE CapacityFacts
<1> QED
  BY <1>1, <1>2, <1>3, <1>4, <1>5, <1>6, <1>7, <1>8, <1>9, <1>10, <1>11
  DEF Next, WorkerStep, SubmitStep, WaitAllStep, MainStep, Finished, Clients

(* The ring after thread_pool_submit.                                      *)
LEMMA QueuedAfterPut ==
  ASSUME TypeOK, NEW s \in Submitters, Puts(s)
  PROVE  /\ Queued' = Queued \cup {task[s]}
         /\ Distinct /\ task[s] \notin Queued => Distinct'
<1> USE CapacityFacts
<1>1. /\ queue_front \in 0 .. queue_capacity - 1 /\ queue_front \in Nat
      /\ queue_size \in 0 .. queue_capacity - 1 /\ queue_size \in Nat
  BY DEF TypeOK, Puts
<1>2. Slot(queue_front, queue_size, queue_capacity) \in 0 .. queue_capacity - 1
  BY <1>1, SlotInRing
<1>3. /\ queue'[Slot(queue_front, queue_size, queue_capacity)] = task[s]
      /\ \A k \in 0 .. queue_capacity - 1 :
           k # Slot(queue_front, queue_size, queue_capacity)
             => queue'[k] = queue[k]
  BY <1>2 DEF TypeOK, Puts
<1>4. queue_front' = queue_front /\ queue_size' = queue_size + 1
  BY DEF Puts
<1> QED
  BY <1>1, <1>3, <1>4, EntriesAfterPut DEF Queued, Distinct

(* The ring after a worker's dequeue.                                      *)
LEMMA QueuedAfterTake ==
  ASSUME TypeOK, NEW w \in Workers, Takes(w)
  PROVE  /\ queue[queue_front] \in Queued /\ Queued' \subseteq Queued
         /\ Distinct => Queued' = Queued \ {queue[queue_front]} /\ Distinct'
<1> USE CapacityFacts
<1>1. /\ queue_front \in 0 .. queue_capacity - 1
      /\ queue_size \in 1 .. queue_capacity
  BY DEF TypeOK, Takes
<1>2. /\ queue' = queue /\ queue_front' = Slot(queue_front, 1, queue_capacity)
      /\ queue_size' = queue_size - 1
  BY DEF Takes
<1>3. queue[queue_front] \in Queued /\ Queued' \subseteq Queued
  BY <1>1, <1>2, EntriesOnlyLeave DEF Queued
<1>4. ASSUME Distinct
      PROVE  Queued' = Queued \ {queue[queue_front]} /\ Distinct'
  BY <1>1, <1>2, <1>4, EntriesAfterTake DEF Queued, Distinct
<1> QED
  BY <1>3, <1>4

(* The ring stays as it is.                                                *)
LEMMA QueuedUnchanged ==
  ASSUME UNCHANGED <<queue, queue_size, queue_front>>
  PROVE  Queued' = Queued /\ (Distinct' <=> Distinct)
BY DEF Queued, Distinct, RingEntries, RingDistinct

(* Every step keeps a worker's task with its label.                        *)
LEMMA WorkerHasTaskStep ==
  SyncInv /\ WorkerHasTask /\ [Next]_vars => WorkerHasTask'
<1> SUFFICES ASSUME SyncInv, WorkerHasTask, [Next]_vars PROVE WorkerHasTask'
  OBVIOUS
<1> USE ThreadFacts
<1>0. TypeOK /\ SubmitterHasTask
  BY DEF SyncInv
<1>1. Queued' \subseteq Tasks
  <2>1. ASSUME NEW s \in Submitters, Puts(s) PROVE Queued' \subseteq Tasks
    BY <1>0, <2>1, QueuedAfterPut DEF Puts, WorkerHasTask
  <2>2. ASSUME NEW w \in Workers, Takes(w) PROVE Queued' \subseteq Tasks
    BY <1>0, <2>2, QueuedAfterTake DEF WorkerHasTask
  <2>3. CASE UNCHANGED <<queue, queue_size, queue_front>>
    BY <2>3, QueuedUnchanged DEF WorkerHasTask
  <2> QED
    BY <2>1, <2>2, <2>3, TaskSteps DEF Drops, Offers, Executes, taskVars
<1> DEFINE Kept == \A w \in Workers : pc'[w] = "run" <=> task'[w] # NoTask
<1>2. ASSUME NEW x \in Threads, NEW label, Goto(x, label),
             \A w \in Workers : task'[w] = task[w],
             x \in Workers => pc[x] # "run" /\ label # "run"
      PROVE  Kept
  BY <1>0, <1>2 DEF Goto, TypeOK, WorkerHasTask
<1>3. ASSUME NEW t \in Threads,
             Lock(t) \/ CondWait(t) \/ SpuriousWakeup(t) \/ Fault(t)
      PROVE  Kept
  <2>1. CASE SpuriousWakeup(t)
    BY <2>1 DEF SpuriousWakeup, WorkerHasTask
  <2>2. CASE Lock(t) \/ CondWait(t) \/ Fault(t)
    BY <1>2, <2>2 DEF Lock, CondWait, Fault
  <2> QED
    BY <1>3, <2>1, <2>2
<1>4. ASSUME NEW w \in Workers, WorkerWaits(w) \/ WorkerExits(w) \/ SpawnWorker(w)
      PROVE  Kept
  BY <1>2, <1>4 DEF WorkerWaits, WorkerExits, SpawnWorker
<1>5. ASSUME NEW w \in Workers, Dequeue(w) PROVE Kept
  <2>1. Takes(w)
    <3>1. task[w] = NoTask /\ queue_size > 0
      BY <1>0, <1>5, CapacityFacts DEF Dequeue, WorkerHasTask, TypeOK
    <3> QED
      BY <1>5, <3>1 DEF Dequeue, AdvanceFront, Takes, history
  <2>2. queue[queue_front] \in Tasks
    BY <1>0, <2>1, QueuedAfterTake DEF WorkerHasTask
  <2> QED
    BY <1>0, <1>5, <2>2 DEF Dequeue, Goto, TypeOK, WorkerHasTask
<1>6. ASSUME NEW w \in Workers, RunTask(w) PROVE Kept
  BY <1>0, <1>6 DEF RunTask, Goto, TypeOK, WorkerHasTask
<1>7. ASSUME NEW s \in Submitters,
             \/ \E t \in Tasks : SubmitCall(s, t)
             \/ SubmitRejected(s) \/ SubmitWaits(s) \/ Enqueue(s)
      PROVE  Kept
  <2>1. \A w \in Workers : task'[w] = task[w] /\ pc'[w] = pc[w]
    BY <1>0, <1>7
    DEF SubmitCall, SubmitRejected, SubmitWaits, Enqueue, Goto, TypeOK
  <2> QED
    BY <2>1 DEF WorkerHasTask
<1>8. ASSUME NEW a \in Waiters \cup {Main},
             WaitAllCall(a) \/ WaitAllWaits(a) \/ WaitAllReturns(a)
      PROVE  Kept
  BY <1>2, <1>8 DEF WaitAllCall, WaitAllWaits, WaitAllReturns
<1>9. ASSUME \/ CreateInit \/ CreateInitFails \/ CreateReturns \/ SpawnFails
             \/ AbortBroadcast \/ AbortJoinAndFree \/ DestroyCall
             \/ Shutdown \/ JoinAndFree
      PROVE  Kept
  BY <1>2, <1>9 DEF CreateInit, CreateInitFails, CreateReturns, SpawnFails,
     AbortBroadcast, AbortJoinAndFree, DestroyCall, Shutdown, JoinAndFree
<1>10. ASSUME UNCHANGED vars PROVE Kept
  BY <1>10 DEF vars, WorkerHasTask
<1>11. Kept
  BY <1>3, <1>4, <1>5, <1>6, <1>7, <1>8, <1>9, <1>10
  DEF Next, WorkerStep, SubmitStep, WaitAllStep, MainStep, Finished, Clients
<1> QED
  BY <1>1, <1>11 DEF WorkerHasTask

(* Every step keeps TaskInv: one case per thing a step can do to tasks.    *)
LEMMA TaskStep == SyncInv /\ WorkerHasTask /\ TaskInv /\ [Next]_vars => TaskInv'
<1> SUFFICES ASSUME SyncInv, WorkerHasTask, TaskInv, [Next]_vars PROVE TaskInv'
  OBVIOUS
<1> USE ThreadFacts
<1>0. TypeOK
  BY DEF SyncInv
<1>1. ASSUME NEW s \in Submitters, Drops(s) PROVE TaskInv'
  <2>1. Queued' = Queued /\ Distinct'
    BY <1>1, QueuedUnchanged DEF Drops, TaskInv
  <2>2. /\ task'[s] = NoTask
        /\ \A u \in Workers \cup Submitters : u # s => task'[u] = task[u]
    BY <1>0, <1>1 DEF Drops, TypeOK
  <2>3. \A t : InHand(t)' <=> InHand(t)
    BY <2>2 DEF InHand
  <2>4. UNCHANGED <<offered, accepted, ran>>
    BY <1>1 DEF Drops
  <2> QED
    BY <2>1, <2>2, <2>3, <2>4 DEF TaskInv
<1>2. ASSUME NEW s \in Submitters, NEW t \in Tasks, Offers(s, t)
      PROVE  TaskInv'
  <2>1. Queued' = Queued /\ Distinct'
    BY <1>2, QueuedUnchanged DEF Offers, TaskInv
  <2>2. /\ task'[s] = t
        /\ \A u \in Workers \cup Submitters : u # s => task'[u] = task[u]
    BY <1>0, <1>2 DEF Offers, TypeOK
  <2>3. \A y : InHand(y)' <=> InHand(y)
    BY <2>2 DEF InHand
  <2>4. t \notin offered /\ offered' = offered \cup {t}
        /\ UNCHANGED <<accepted, ran>>
    BY <1>2 DEF Offers
  <2> QED
    BY <2>1, <2>2, <2>3, <2>4 DEF TaskInv
<1>3. ASSUME NEW s \in Submitters, Puts(s) PROVE TaskInv'
  <2>1. task[s] \in Tasks /\ task[s] \in offered \ accepted
        /\ task[s] \notin Queued
    BY <1>3 DEF Puts, TaskInv
  <2>2. Queued' = Queued \cup {task[s]} /\ Distinct'
    BY <1>0, <1>3, <2>1, QueuedAfterPut DEF TaskInv
  <2>3. /\ task'[s] = NoTask
        /\ \A u \in Workers \cup Submitters : u # s => task'[u] = task[u]
    BY <1>0, <1>3 DEF Puts, TypeOK
  <2>4. \A y : InHand(y)' <=> InHand(y)
    BY <2>3 DEF InHand
  <2>5. accepted' = accepted \cup {task[s]} /\ UNCHANGED <<offered, ran>>
    BY <1>3 DEF Puts
  <2> QED
    BY <2>1, <2>2, <2>3, <2>4, <2>5 DEF TaskInv
<1>4. ASSUME NEW w \in Workers, Takes(w) PROVE TaskInv'
  <2> DEFINE y == queue[queue_front]
  <2>1. y \in Queued /\ Queued' = Queued \ {y} /\ Distinct'
    BY <1>0, <1>4, QueuedAfterTake DEF TaskInv
  <2>2. /\ task[w] = NoTask /\ task'[w] = y
        /\ \A u \in Workers \cup Submitters : u # w => task'[u] = task[u]
    BY <1>0, <1>4 DEF Takes, TypeOK
  <2>3. UNCHANGED <<offered, accepted, ran>>
    BY <1>4 DEF Takes
  <2> HIDE DEF y
  <2>4. y \in accepted /\ y \in Tasks /\ y # NoTask /\ ran[y] = 0
    BY <1>0, <2>1 DEF TaskInv, TypeOK
  <2>5. \A z \in Tasks : InHand(z)' <=> InHand(z) \/ z = y
    BY <2>2 DEF InHand
  <2> QED
    BY <2>1, <2>2, <2>3, <2>4, <2>5 DEF TaskInv
<1>5. ASSUME NEW w \in Workers, Executes(w) PROVE TaskInv'
  <2> DEFINE y == task[w]
  <2>1. Queued' = Queued /\ Distinct'
    BY <1>5, QueuedUnchanged DEF Executes, TaskInv
  <2>2. /\ task'[w] = NoTask
        /\ \A u \in Workers \cup Submitters : u # w => task'[u] = task[u]
    BY <1>0, <1>5 DEF Executes, TypeOK
  <2>3. UNCHANGED <<offered, accepted>>
    BY <1>5 DEF Executes
  <2>4. y # NoTask /\ y \in Tasks /\ y \in accepted \ Queued /\ ran[y] = 0
    BY <1>0, <1>5 DEF Executes, TaskInv, TypeOK
  <2>5. ran'[y] = 1 /\ \A z \in Tasks : z # y => ran'[z] = ran[z]
    BY <1>0, <1>5, <2>4 DEF Executes, TypeOK
  <2>6. \A v \in Workers : v # w => task[v] # y
    BY <2>4 DEF TaskInv
  <2> HIDE DEF y
  <2>7. \A z \in Tasks : z # y => (InHand(z)' <=> InHand(z))
    BY <2>2, <2>4 DEF InHand, y
  <2>8. ASSUME NEW v \in Workers, task'[v] # NoTask
        PROVE  task'[v] \in accepted' \ Queued' /\ ran'[task'[v]] = 0
    <3>1. v # w /\ task'[v] = task[v] /\ task[v] \in Tasks /\ task[v] # y
      BY <1>0, <2>2, <2>6, <2>8 DEF TypeOK
    <3>2. task[v] \in accepted \ Queued /\ ran[task[v]] = 0
      BY <2>8, <3>1 DEF TaskInv
    <3> QED
      BY <2>1, <2>3, <2>5, <3>1, <3>2
  <2>9. ASSUME NEW t \in Tasks
        PROVE  /\ ran'[t] \in {0, 1}
               /\ t \in Queued' \/ t \notin accepted' => ran'[t] = 0
               /\ t \in accepted' => t \in Queued' \/ ran'[t] = 1 \/ InHand(t)'
    <3>1. CASE t = y
      BY <2>1, <2>3, <2>4, <2>5, <3>1
    <3>2. CASE t # y
      BY <2>1, <2>3, <2>5, <2>7, <3>2 DEF TaskInv
    <3> QED
      BY <3>1, <3>2
  <2>10. /\ \A s \in Submitters :
              task'[s] # NoTask => task'[s] \in offered' \ accepted'
         /\ \A r, s \in Submitters :
              task'[r] = task'[s] /\ task'[r] # NoTask => r = s
         /\ \A u, v \in Workers :
              task'[u] = task'[v] /\ task'[u] # NoTask => u = v
    BY <2>2, <2>3 DEF TaskInv
  <2> QED
    BY <2>1, <2>3, <2>8, <2>9, <2>10 DEF TaskInv
<1>6. CASE UNCHANGED taskVars
  <2>1. Queued' = Queued /\ Distinct'
    BY <1>6, QueuedUnchanged DEF taskVars, TaskInv
  <2>2. \A t : InHand(t)' <=> InHand(t)
    BY <1>6 DEF taskVars, InHand
  <2>3. UNCHANGED <<task, offered, accepted, ran>>
    BY <1>6 DEF taskVars
  <2> QED
    BY <2>1, <2>2, <2>3 DEF TaskInv
<1> QED
  BY <1>1, <1>2, <1>3, <1>4, <1>5, <1>6, TaskSteps

(* A new pool has no tasks.                                                *)
LEMMA TaskInit == Init => WorkerHasTask /\ TaskInv
<1> SUFFICES ASSUME Init PROVE WorkerHasTask /\ TaskInv
  OBVIOUS
<1>1. Queued = {} /\ Distinct
  BY DEF Init, Queued, Distinct, RingEntries, RingDistinct
<1>2. \A u \in Workers \cup Submitters : task[u] = NoTask
  BY DEF Init
<1>3. \A w \in Workers : pc[w] = "unborn"
  BY ThreadFacts DEF Init
<1> QED
  BY <1>1, <1>2, <1>3 DEF Init, WorkerHasTask, TaskInv

(* Where the tasks are, in every state.                                    *)
THEOREM TasksCorrect == Spec => [](SyncInv /\ WorkerHasTask /\ TaskInv)
BY TaskInit, TaskStep, WorkerHasTaskStep, SyncCorrect, PTL DEF Spec

(* What TaskInv says of the places of a task.                              *)
LEMMA TaskPlaces ==
  ASSUME SyncInv, TaskInv, NEW t \in Tasks
  PROVE  /\ InQueue(t) <=> t \in Queued
         /\ InHand(t) => t \in accepted \ Queued /\ ran[t] = 0
         /\ ran[t] \in {0, 1}
         /\ t \in Queued \/ t \notin accepted => ran[t] = 0
         /\ t \in accepted => t \in Queued \/ ran[t] = 1 \/ InHand(t)
         /\ Queued \subseteq accepted
<1>1. InQueue(t) <=> t \in Queued
  BY DEF InQueue, Queued, RingEntries
<1>2. InHand(t) => t \in accepted \ Queued /\ ran[t] = 0
  BY ThreadFacts DEF InHand, TaskInv
<1> QED
  BY <1>1, <1>2 DEF TaskInv

(* Every task that thread_pool_submit accepted is queued, in the hands of  *)
(* one worker, or was executed once, and in one of these places only.      *)
THEOREM TasksAreConserved == Spec => []TasksConserved
<1>1. SyncInv /\ TaskInv => TasksConserved
  <2> SUFFICES ASSUME SyncInv, TaskInv PROVE TasksConserved
    OBVIOUS
  <2>1. ASSUME NEW t \in Tasks
        PROVE  /\ ran[t] <= 1
               /\ t \in accepted <=> InQueue(t) \/ InHand(t) \/ ran[t] = 1
               /\ InQueue(t) \/ InHand(t) => ran[t] = 0
               /\ InQueue(t) => ~InHand(t)
    BY TaskPlaces
  <2>2. \A i, j \in 0 .. queue_size - 1 :
          queue[Slot(queue_front, i, queue_capacity)]
            = queue[Slot(queue_front, j, queue_capacity)] => i = j
    BY DEF TaskInv, Distinct, RingDistinct
  <2>3. \A v, w \in Workers : task[v] = task[w] /\ task[v] # NoTask => v = w
    BY DEF TaskInv
  <2> QED
    BY <2>1, <2>2, <2>3 DEF TasksConserved
<1> QED
  BY <1>1, TasksCorrect, PTL

(* When thread_pool_destroy returns, every accepted task was executed:     *)
(* every worker has ended, a worker ends only with nothing queued, and     *)
(* there was at least one.                                                 *)
THEOREM DestroyLeavesNothing == Spec => []DestroyDrains
<1>1. SyncInv /\ WorkerHasTask /\ TaskInv => DestroyDrains
  <2> SUFFICES ASSUME SyncInv, WorkerHasTask, TaskInv, pc[Main] = "destroyed",
                      NEW t \in accepted
               PROVE  ran[t] = 1
    BY DEF DestroyDrains
  <2>1. \A w \in Workers : pc[w] = "done"
    BY DEF SyncInv, WorkersGoneWhenFreed, CreateInv, CreatePC
  <2>2. queue_size = 0
    BY <2>1, PoolAssumption DEF SyncInv, DoneInv
  <2>3. Queued = {}
    BY <2>2 DEF Queued, RingEntries
  <2>4. t \in Tasks
    BY DEF SyncInv, TypeOK
  <2>5. ~InHand(t)
    BY <2>1, <2>4, ThreadFacts DEF WorkerHasTask, InHand
  <2> QED
    BY <2>3, <2>4, <2>5, TaskPlaces
<1> QED
  BY <1>1, TasksCorrect, PTL

-----------------------------------------------------------------------------
(* The pool's queue is a bounded FIFO.                                     *)

(* What the refinement maps: the content of the ring and the workers'      *)
(* hands.                                                                  *)
Held == Contents(queue, queue_front, queue_size, queue_capacity)
Hands == [w \in Workers |-> task[w]]

(* A new pool holds nothing.                                               *)
LEMMA FifoInit == Init => Fifo!Init
<1> SUFFICES ASSUME Init PROVE Fifo!Init
  OBVIOUS
<1>1. queue_size = 0 /\ \A w \in Workers : task[w] = NoTask
  BY DEF Init
<1>2. Contents(queue, queue_front, queue_size, queue_capacity) = << >>
  BY <1>1 DEF Contents
<1>3. [w \in Workers |-> task[w]] = [w \in Workers |-> NoTask]
  BY <1>1
<1> QED
  BY <1>2, <1>3 DEF Fifo!Init

(* Every step is a Put, a Take, a Finish or nothing of the bounded FIFO.   *)
LEMMA FifoStep ==
  SyncInv /\ WorkerHasTask /\ [Next]_vars
    => [Fifo!Next]_<<Contents(queue, queue_front, queue_size, queue_capacity),
                     [w \in Workers |-> task[w]]>>
<1> SUFFICES ASSUME SyncInv, WorkerHasTask, [Next]_vars
             PROVE  \/ Fifo!Next
                    \/ Held' = Held /\ Hands' = Hands
  BY DEF Held, Hands
<1> USE ThreadFacts, CapacityFacts
<1>1. TypeOK
  BY DEF SyncInv
<1>2. ASSUME NEW s \in Submitters, Drops(s) \/ \E t \in Tasks : Offers(s, t)
      PROVE  Held' = Held /\ Hands' = Hands
  <2>1. \A w \in Workers : task'[w] = task[w]
    BY <1>1, <1>2 DEF Drops, Offers, TypeOK
  <2> QED
    BY <1>2, <2>1 DEF Drops, Offers, Held, Hands, Contents
<1>3. ASSUME NEW s \in Submitters, Puts(s) PROVE Fifo!Next
  <2>1. \A w \in Workers : task'[w] = task[w]
    BY <1>1, <1>3 DEF Puts, TypeOK
  <2>2. Hands' = Hands
    BY <2>1 DEF Hands
  <2>3. /\ queue_front \in 0 .. queue_capacity - 1 /\ queue_front \in Nat
        /\ queue_size \in 0 .. queue_capacity - 1 /\ queue_size \in Nat
        /\ queue_size \in 0 .. queue_capacity
    BY <1>1, <1>3 DEF Puts, TypeOK
  <2>4. Len(Held) = queue_size
    BY <2>3, ContentsLen DEF Held
  <2>5. Held' = Append(Held, task[s])
    <3>1. Slot(queue_front, queue_size, queue_capacity)
            \in 0 .. queue_capacity - 1
      BY <2>3, SlotInRing
    <3>2. /\ queue'[Slot(queue_front, queue_size, queue_capacity)] = task[s]
          /\ \A k \in 0 .. queue_capacity - 1 :
               k # Slot(queue_front, queue_size, queue_capacity)
                 => queue'[k] = queue[k]
      BY <1>1, <1>3, <3>1 DEF TypeOK, Puts
    <3>3. Contents(queue', queue_front, queue_size + 1, queue_capacity)
            = Append(Contents(queue, queue_front, queue_size, queue_capacity),
                     task[s])
      BY <2>3, <3>2, ContentsAfterPut
    <3> QED
      BY <1>3, <3>3 DEF Held, Puts
  <2>6. Len(Held) < queue_capacity
    BY <1>3, <2>4 DEF Puts
  <2>7. Fifo!Put(task[s])
    BY <2>2, <2>5, <2>6 DEF Fifo!Put, Held, Hands
  <2>8. task[s] \in Tasks
    BY <1>3 DEF Puts
  <2> QED
    BY <2>7, <2>8 DEF Fifo!Next
<1>4. ASSUME NEW w \in Workers, Takes(w) PROVE Fifo!Take(w)
  <2>1. /\ queue_front \in 0 .. queue_capacity - 1
        /\ queue_size \in 1 .. queue_capacity
    BY <1>1, <1>4 DEF Takes, TypeOK
  <2>2. /\ Held # << >> /\ Head(Held) = queue[queue_front]
        /\ Held' = Tail(Held)
    <3>1. /\ Held # << >> /\ Head(Held) = queue[queue_front]
          /\ Contents(queue, Slot(queue_front, 1, queue_capacity),
                      queue_size - 1, queue_capacity) = Tail(Held)
      BY <2>1, ContentsAfterTake DEF Held
    <3>2. /\ queue' = queue
          /\ queue_front' = Slot(queue_front, 1, queue_capacity)
          /\ queue_size' = queue_size - 1
      BY <1>4 DEF Takes
    <3> QED
      BY <3>1, <3>2 DEF Held
  <2>3. task[w] = NoTask /\ task'[w] = queue[queue_front]
        /\ \A v \in Workers : v # w => task'[v] = task[v]
    BY <1>1, <1>4 DEF Takes, TypeOK
  <2>4. Hands[w] = NoTask /\ Hands' = [Hands EXCEPT ![w] = Head(Held)]
    BY <2>2, <2>3 DEF Hands
  <2> QED
    BY <2>2, <2>4 DEF Fifo!Take, Held, Hands
<1>5. ASSUME NEW w \in Workers, Executes(w) PROVE Fifo!Finish(w)
  <2>1. task[w] # NoTask /\ task'[w] = NoTask
        /\ \A v \in Workers : v # w => task'[v] = task[v]
    BY <1>1, <1>5 DEF Executes, TypeOK
  <2>2. Hands[w] # NoTask /\ Hands' = [Hands EXCEPT ![w] = NoTask]
    BY <2>1 DEF Hands
  <2>3. Held' = Held
    BY <1>5 DEF Executes, Held, Contents
  <2> QED
    BY <2>2, <2>3 DEF Fifo!Finish, Held, Hands
<1>6. CASE UNCHANGED taskVars
  BY <1>6 DEF taskVars, Held, Hands, Contents
<1>7. ASSUME NEW w \in Workers, Takes(w) \/ Executes(w) PROVE Fifo!Next
  BY <1>4, <1>5, <1>7 DEF Fifo!Next
<1> HIDE ThreadFacts, CapacityFacts
<1> QED
  BY <1>2, <1>3, <1>6, <1>7, TaskSteps

(* worker_thread and thread_pool_submit implement BoundedFifo: tasks leave *)
(* in the order in which they were accepted, each to one worker, and never *)
(* more than queue_capacity are held.                                      *)
THEOREM PoolIsFifo == Spec => ImplementsFifo
BY FifoInit, FifoStep, TasksCorrect, PTL DEF Spec, ImplementsFifo, Fifo!Spec

=============================================================================
