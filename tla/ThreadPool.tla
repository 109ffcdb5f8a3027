----------------------------- MODULE ThreadPool -----------------------------
(***************************************************************************)
(* 03_threads/thread_pool: a fixed set of worker threads, one bounded task *)
(* queue, one mutex and two condition variables.  `cond_work' has two      *)
(* kinds of sleepers, workers that wait for a task and submitters that     *)
(* wait for room; `cond_empty' has the callers of thread_pool_wait_all.    *)
(*                                                                         *)
(* Threads.  Main creates the pool and destroys it; Submitters call        *)
(* thread_pool_submit, each with one task at a time; every one of Waiters  *)
(* calls thread_pool_wait_all once.  What a thread does under the mutex is *)
(* one step, except that deciding to wait and going to sleep are two: the  *)
(* clean-up of a failed creation writes `shutdown' without the mutex.      *)
(*                                                                         *)
(* pc    lock   about to take the mutex   check  holds it, looks at state  *)
(*       sleep  holds it, about to call pthread_cond_wait                  *)
(*       wait   inside pthread_cond_wait  run    executes its task         *)
(***************************************************************************)
EXTENDS Integers, FiniteSets, CondVar, Ring

CONSTANTS
  Workers, Submitters, Waiters,  \* sets of threads
  Main,                          \* the thread that owns the pool
  NoThread,                      \* the owner of a free mutex
  Tasks,                         \* every task is offered to the pool once
  NoTask,
  QUEUE_CAPACITY_MULTIPLIER,     \* 10 in the code
  ThreadsCanFail,                \* may pthread_create fail?
  Overlap,                       \* may calls overlap or follow the destroy?
  MaxSpurious                    \* bound: spurious wake-ups in a behaviour

Clients == Submitters \cup Waiters
Threads == Workers \cup Clients \cup {Main}

queue_capacity == Cardinality(Workers) * QUEUE_CAPACITY_MULTIPLIER

ASSUME PoolAssumption ==
  /\ IsFiniteSet(Workers)
  /\ Workers # {}
  /\ QUEUE_CAPACITY_MULTIPLIER \in Nat \ {0}
  /\ Workers \cap Clients = {}
  /\ Submitters \cap Waiters = {}
  /\ Main \notin Workers \cup Clients
  /\ NoThread \notin Threads
  /\ NoTask \notin Tasks
  /\ ThreadsCanFail \in BOOLEAN
  /\ Overlap \in BOOLEAN
  /\ MaxSpurious \in Nat

VARIABLES
  queue, queue_size, queue_front, shutdown, \* thread_pool_t
  mutex,       \* the thread that holds pool->mutex, or NoThread
  cond_work, cond_empty,
  alive,       \* the pool is allocated and not yet freed
  pc,
  task,        \* the local task of a worker, the argument of a submitter
  offered,     \* history: tasks whose submit was called
  accepted,    \* history: tasks whose submit put them in the queue
  ran,         \* history: how often each task was executed
  due,         \* history: what was accepted when a wait_all was called
  spurious     \* spurious wake-ups so far

poolVars == <<queue, queue_size, queue_front>>
history == <<offered, accepted, ran, due>>
vars == <<queue, queue_size, queue_front, shutdown, mutex, cond_work,
          cond_empty, alive, pc, task, offered, accepted, ran, due, spurious>>

-----------------------------------------------------------------------------
Init ==
  /\ queue = [i \in 0 .. queue_capacity - 1 |-> NoTask]
  /\ queue_size = 0
  /\ queue_front = 0
  /\ shutdown = FALSE
  /\ mutex = NoThread
  /\ cond_work = {}
  /\ cond_empty = {}
  /\ alive = FALSE
  /\ pc = [t \in Threads |->
             IF t \in Workers THEN "unborn"
             ELSE IF t = Main THEN "create" ELSE "idle"]
  /\ task = [t \in Workers \cup Submitters |-> NoTask]
  /\ offered = {}
  /\ accepted = {}
  /\ ran = [t \in Tasks |-> 0]
  /\ due = [w \in Waiters |-> {}]
  /\ spurious = 0

Goto(t, label) == pc' = [pc EXCEPT ![t] = label]

-----------------------------------------------------------------------------
(* The mutex and sleeping.                                                 *)

Asleep(t) == t \in cond_work \cup cond_empty

(* pthread_mutex_lock, also the one at the end of pthread_cond_wait.       *)
Lock(t) ==
  /\ alive
  /\ pc[t] \in {"lock", "wait", "shut_lock"}
  /\ ~Asleep(t)
  /\ mutex = NoThread
  /\ mutex' = t
  /\ Goto(t, IF pc[t] = "shut_lock" THEN "shut" ELSE "check")
  /\ UNCHANGED <<poolVars, shutdown, cond_work, cond_empty, alive, task,
                 history, spurious>>

(* pthread_cond_wait gives up the mutex and falls asleep in one step.      *)
CondWait(t) ==
  /\ alive
  /\ pc[t] = "sleep"
  /\ mutex' = NoThread
  /\ IF t \in Workers \cup Submitters
       THEN cond_work' = cond_work \cup {t} /\ UNCHANGED cond_empty
       ELSE cond_empty' = cond_empty \cup {t} /\ UNCHANGED cond_work
  /\ Goto(t, "wait")
  /\ UNCHANGED <<poolVars, shutdown, alive, task, history, spurious>>

(* A sleeper wakes up although nobody signalled it.                        *)
SpuriousWakeup(t) ==
  /\ Asleep(t)
  /\ spurious < MaxSpurious
  /\ spurious' = spurious + 1
  /\ cond_work' = cond_work \ {t}
  /\ cond_empty' = cond_empty \ {t}
  /\ UNCHANGED <<poolVars, shutdown, mutex, alive, pc, task, history>>

-----------------------------------------------------------------------------
(* thread_pool_create, by Main.                                            *)

(* Allocation and initialisation succeed ...                               *)
CreateInit ==
  /\ pc[Main] = "create"
  /\ alive' = TRUE
  /\ Goto(Main, "spawn")
  /\ UNCHANGED <<poolVars, shutdown, mutex, cond_work, cond_empty, task,
                 history, spurious>>

(* ... or one of them fails, what was allocated is given back: NULL.       *)
CreateInitFails ==
  /\ pc[Main] = "create"
  /\ Goto(Main, "null")
  /\ UNCHANGED <<poolVars, shutdown, mutex, cond_work, cond_empty, alive,
                 task, history, spurious>>

SpawnWorker(w) ==
  /\ pc[Main] = "spawn"
  /\ pc[w] = "unborn"
  /\ Goto(w, "lock")
  /\ UNCHANGED <<poolVars, shutdown, mutex, cond_work, cond_empty, alive,
                 task, history, spurious>>

(* Every worker is started: the pool is returned.                          *)
CreateReturns ==
  /\ pc[Main] = "spawn"
  /\ \A w \in Workers : pc[w] # "unborn"
  /\ Goto(Main, "ready")
  /\ UNCHANGED <<poolVars, shutdown, mutex, cond_work, cond_empty, alive,
                 task, history, spurious>>

(* pthread_create fails: the flag is set, and the sleepers are woken, both *)
(* without the mutex.                                                      *)
SpawnFails ==
  /\ ThreadsCanFail
  /\ pc[Main] = "spawn"
  /\ \E w \in Workers : pc[w] = "unborn"
  /\ shutdown' = TRUE
  /\ Goto(Main, "abort")
  /\ UNCHANGED <<poolVars, mutex, cond_work, cond_empty, alive, task,
                 history, spurious>>

AbortBroadcast ==
  /\ pc[Main] = "abort"
  /\ cond_work' \in AfterBroadcast(cond_work)
  /\ Goto(Main, "abort_join")
  /\ UNCHANGED <<poolVars, shutdown, mutex, cond_empty, alive, task, history,
                 spurious>>

(* Slip: the last started worker is not joined.                            *)
JoinedAllButOne ==
  \E v \in Workers : \A w \in Workers \ {v} : pc[w] \in {"unborn", "done"}

(* pthread_join has returned for every worker that was started.            *)
Joined == \A w \in Workers : pc[w] \in {"unborn", "done"}

(* The started workers are joined, the pool is freed: NULL.                *)
AbortJoinAndFree ==
  /\ pc[Main] = "abort_join"
  /\ Joined
  /\ alive' = FALSE
  /\ Goto(Main, "null")
  /\ UNCHANGED <<poolVars, shutdown, mutex, cond_work, cond_empty, task,
                 history, spurious>>

-----------------------------------------------------------------------------
(* worker_thread                                                           *)

WorkerWaits(w) ==
  /\ pc[w] = "check"
  /\ queue_size = 0
  /\ ~shutdown
  /\ Goto(w, "sleep")
  /\ UNCHANGED <<poolVars, shutdown, mutex, cond_work, cond_empty, alive,
                 task, history, spurious>>

(* Slip: the exit test looks at `shutdown' only.                           *)
ExitsOnShutdown(w) ==
  /\ pc[w] = "check"
  /\ shutdown
  /\ mutex' = NoThread
  /\ Goto(w, "done")
  /\ UNCHANGED <<poolVars, shutdown, cond_work, cond_empty, alive, task,
                 history, spurious>>

WorkerExits(w) ==
  /\ pc[w] = "check"
  /\ queue_size = 0
  /\ shutdown
  /\ mutex' = NoThread
  /\ Goto(w, "done")
  /\ UNCHANGED <<poolVars, shutdown, cond_work, cond_empty, alive, task,
                 history, spurious>>

(* Slips: one submitter is woken where all should be; nobody is told that  *)
(* the queue is empty; the front index stays where it is.                  *)
WakeOneForRoom(size) ==
  cond_work' \in IF size = queue_capacity - 1
                   THEN AfterSignal(cond_work)
                   ELSE {cond_work}
WakeNoneForEmpty(size) == cond_empty' = cond_empty
StaleFront == queue_front' = queue_front

(* The two wake-ups of a dequeue that leaves `size' tasks behind.          *)
WakeForRoom(size) ==
  cond_work' \in IF size = queue_capacity - 1
                   THEN AfterBroadcast(cond_work)
                   ELSE {cond_work}

WakeForEmpty(size) ==
  cond_empty' \in IF size = 0 THEN AfterSignal(cond_empty) ELSE {cond_empty}

AdvanceFront == queue_front' = Slot(queue_front, 1, queue_capacity)

Dequeue(w) ==
  /\ pc[w] = "check"
  /\ queue_size # 0
  /\ task' = [task EXCEPT ![w] = queue[queue_front]]
  /\ AdvanceFront
  /\ queue_size' = queue_size - 1
  /\ WakeForRoom(queue_size - 1)
  /\ WakeForEmpty(queue_size - 1)
  /\ mutex' = NoThread
  /\ Goto(w, "run")
  /\ UNCHANGED <<queue, shutdown, alive, history, spurious>>

(* task.func(task.arg), outside the mutex.                                 *)
RunTask(w) ==
  /\ pc[w] = "run"
  /\ ran' = [ran EXCEPT ![task[w]] = @ + 1]
  /\ task' = [task EXCEPT ![w] = NoTask]
  /\ Goto(w, "lock")
  /\ UNCHANGED <<poolVars, shutdown, mutex, cond_work, cond_empty, alive,
                 offered, accepted, due, spurious>>

-----------------------------------------------------------------------------
(* thread_pool_submit.  A client may call as soon as it has a pool; unless *)
(* Overlap it does not call once the destroy has begun.                    *)

MayCall ==
  \/ pc[Main] = "ready"
  \/ Overlap /\ pc[Main] \in {"lock", "check", "sleep", "wait", "shut_lock",
                              "shut", "join", "destroyed"}

(* Slip: a submission does not look at `shutdown'.                         *)
NeverReject == FALSE

MustReject == shutdown

SubmitCall(s, t) ==
  /\ MayCall
  /\ pc[s] = "idle"
  /\ t \notin offered
  /\ offered' = offered \cup {t}
  /\ task' = [task EXCEPT ![s] = t]
  /\ Goto(s, "lock")
  /\ UNCHANGED <<poolVars, shutdown, mutex, cond_work, cond_empty, alive,
                 accepted, ran, due, spurious>>

(* The shutdown test is the same before the wait and after each wake-up.   *)
SubmitRejected(s) ==
  /\ alive
  /\ pc[s] = "check"
  /\ MustReject
  /\ mutex' = NoThread
  /\ task' = [task EXCEPT ![s] = NoTask]
  /\ Goto(s, "idle")
  /\ UNCHANGED <<poolVars, shutdown, cond_work, cond_empty, alive, history,
                 spurious>>

(* Slips: full is taken for one more than the capacity; the rear is found  *)
(* without the front; no worker is woken.                                  *)
QueueFullOffByOne == queue_size > queue_capacity
RearWithoutFront == Slot(0, queue_size, queue_capacity)
WakeNoWorker == cond_work' = cond_work

QueueFull == queue_size >= queue_capacity

SubmitWaits(s) ==
  /\ alive
  /\ pc[s] = "check"
  /\ ~MustReject
  /\ QueueFull
  /\ Goto(s, "sleep")
  /\ UNCHANGED <<poolVars, shutdown, mutex, cond_work, cond_empty, alive,
                 task, history, spurious>>

queue_rear == Slot(queue_front, queue_size, queue_capacity)

WakeOneWorker == cond_work' \in AfterSignal(cond_work)

Enqueue(s) ==
  /\ alive
  /\ pc[s] = "check"
  /\ ~MustReject
  /\ ~QueueFull
  /\ queue' = [queue EXCEPT ![queue_rear] = task[s]]
  /\ queue_size' = queue_size + 1
  /\ WakeOneWorker
  /\ accepted' = accepted \cup {task[s]}
  /\ task' = [task EXCEPT ![s] = NoTask]
  /\ mutex' = NoThread
  /\ Goto(s, "idle")
  /\ UNCHANGED <<queue_front, shutdown, cond_empty, alive, offered, ran, due,
                 spurious>>

-----------------------------------------------------------------------------
(* thread_pool_wait_all, by a waiter or, inside the destroy, by Main.      *)

WaitAllCall(w) ==
  /\ MayCall
  /\ pc[w] = "idle"
  /\ due' = [due EXCEPT ![w] = accepted]
  /\ Goto(w, "lock")
  /\ UNCHANGED <<poolVars, shutdown, mutex, cond_work, cond_empty, alive,
                 task, offered, accepted, ran, spurious>>

MustWaitForEmpty == queue_size > 0 /\ ~shutdown

WaitAllWaits(t) ==
  /\ alive
  /\ pc[t] = "check"
  /\ MustWaitForEmpty
  /\ Goto(t, "sleep")
  /\ UNCHANGED <<poolVars, shutdown, mutex, cond_work, cond_empty, alive,
                 task, history, spurious>>

WaitAllReturns(t) ==
  /\ alive
  /\ pc[t] = "check"
  /\ ~MustWaitForEmpty
  /\ mutex' = NoThread
  /\ Goto(t, IF t = Main THEN "shut_lock" ELSE "returned")
  /\ UNCHANGED <<poolVars, shutdown, cond_work, cond_empty, alive, task,
                 history, spurious>>

-----------------------------------------------------------------------------
(* thread_pool_destroy, by Main: wait_all, then the shutdown, then the     *)
(* joins, then free.                                                       *)

Quiet == /\ \A s \in Submitters : pc[s] = "idle"
         /\ \A w \in Waiters : pc[w] \in {"idle", "returned"}

DestroyCall ==
  /\ pc[Main] = "ready"
  /\ Overlap \/ Quiet
  /\ Goto(Main, "lock")
  /\ UNCHANGED <<poolVars, shutdown, mutex, cond_work, cond_empty, alive,
                 task, history, spurious>>

WakeAllForShutdown == cond_work' \in AfterBroadcast(cond_work)

Shutdown ==
  /\ pc[Main] = "shut"
  /\ shutdown' = TRUE
  /\ WakeAllForShutdown
  /\ mutex' = NoThread
  /\ Goto(Main, "join")
  /\ UNCHANGED <<poolVars, cond_empty, alive, task, history, spurious>>

JoinAndFree ==
  /\ pc[Main] = "join"
  /\ Joined
  /\ alive' = FALSE
  /\ Goto(Main, "destroyed")
  /\ UNCHANGED <<poolVars, shutdown, mutex, cond_work, cond_empty, task,
                 history, spurious>>

(* A client that is still inside a call, or makes one, when the pool is    *)
(* freed reads and writes freed memory: it faults.                         *)
Fault(t) ==
  /\ ~alive
  /\ pc[t] \in {"lock", "check", "sleep", "wait"}
  /\ ~Asleep(t)
  /\ Goto(t, "fault")
  /\ UNCHANGED <<poolVars, shutdown, mutex, cond_work, cond_empty, alive,
                 task, history, spurious>>

-----------------------------------------------------------------------------
WorkerStep(w) ==
  \/ Lock(w) \/ CondWait(w)
  \/ WorkerWaits(w) \/ WorkerExits(w) \/ Dequeue(w) \/ RunTask(w)

SubmitStep(s) ==
  \/ Lock(s) \/ CondWait(s)
  \/ SubmitRejected(s) \/ SubmitWaits(s) \/ Enqueue(s)

WaitAllStep(w) ==
  \/ Lock(w) \/ CondWait(w)
  \/ WaitAllWaits(w) \/ WaitAllReturns(w)

MainStep ==
  \/ CreateInit \/ CreateInitFails \/ CreateReturns
  \/ \E w \in Workers : SpawnWorker(w)
  \/ SpawnFails \/ AbortBroadcast \/ AbortJoinAndFree
  \/ WaitAllStep(Main)
  \/ Shutdown \/ JoinAndFree

(* Everybody is finished: the process may rest here.                       *)
Finished ==
  /\ pc[Main] \in {"null", "destroyed"}
  /\ \A w \in Workers : pc[w] \in {"unborn", "done"}
  /\ \A c \in Clients : pc[c] \in {"idle", "returned", "fault"}
  /\ UNCHANGED vars

Next ==
  \/ \E w \in Workers : WorkerStep(w)
  \/ \E s \in Submitters : SubmitStep(s) \/ \E t \in Tasks : SubmitCall(s, t)
  \/ \E w \in Waiters : WaitAllStep(w) \/ WaitAllCall(w)
  \/ MainStep
  \/ DestroyCall
  \/ \E t \in Threads : SpuriousWakeup(t)
  \/ \E c \in Clients : Fault(c)
  \/ Finished

Spec == Init /\ [][Next]_vars

(***************************************************************************)
(* The scheduler runs every thread that can run, and tasks end.  Nothing   *)
(* is assumed of the calls clients choose to make, of spurious wake-ups,   *)
(* or of who gets a contended mutex: with finitely many tasks, weak        *)
(* fairness of each thread is enough.                                      *)
(***************************************************************************)
FairSpec ==
  /\ Spec
  /\ \A w \in Workers : WF_vars(WorkerStep(w))
  /\ \A s \in Submitters : WF_vars(SubmitStep(s))
  /\ \A w \in Waiters : WF_vars(WaitAllStep(w))
  /\ WF_vars(MainStep)

-----------------------------------------------------------------------------
(* The labels of each kind of thread.                                      *)
CallPC == {"lock", "check", "sleep", "wait"}
WorkerPC == CallPC \cup {"unborn", "run", "done"}
SubmitterPC == CallPC \cup {"idle", "fault"}
WaiterPC == SubmitterPC \cup {"returned"}
CreatePC == {"create", "spawn", "abort", "abort_join", "null"}
DestroyPC == CallPC \cup {"shut_lock", "shut", "join", "destroyed"}
MainPC == CreatePC \cup {"ready"} \cup DestroyPC

(* Types of the state of thread_pool_t and of the threads: the ring never  *)
(* holds more than queue_capacity tasks and its index stays in the array.  *)
TypeOK ==
  /\ queue \in [0 .. queue_capacity - 1 -> Tasks \cup {NoTask}]
  /\ queue_size \in 0 .. queue_capacity
  /\ queue_front \in 0 .. queue_capacity - 1
  /\ shutdown \in BOOLEAN
  /\ alive \in BOOLEAN
  /\ mutex \in Threads \cup {NoThread}
  /\ cond_work \in SUBSET (Workers \cup Submitters)
  /\ cond_empty \in SUBSET (Waiters \cup {Main})
  /\ pc \in [Threads -> WorkerPC \cup WaiterPC \cup MainPC]
  /\ \A w \in Workers : pc[w] \in WorkerPC
  /\ \A s \in Submitters : pc[s] \in SubmitterPC
  /\ \A a \in Waiters : pc[a] \in WaiterPC
  /\ pc[Main] \in MainPC
  /\ task \in [Workers \cup Submitters -> Tasks \cup {NoTask}]
  /\ offered \in SUBSET Tasks
  /\ accepted \in SUBSET Tasks
  /\ ran \in [Tasks -> Nat]
  /\ due \in [Waiters -> SUBSET Tasks]
  /\ spurious \in 0 .. MaxSpurious

-----------------------------------------------------------------------------
(* Where a task can be.                                                    *)
InQueue(t) == \E i \in 0 .. queue_size - 1 :
                queue[Slot(queue_front, i, queue_capacity)] = t
InHand(t) == \E w \in Workers : task[w] = t

(* Every task that thread_pool_submit accepted is queued, in the hands of  *)
(* one worker, or has been executed once, in one of these places only, and *)
(* no other task is: the ring never overwrites a task, no exit path of     *)
(* worker_thread drops one, and no two dequeues take the same.             *)
TasksConserved ==
  /\ \A t \in Tasks :
       /\ ran[t] <= 1
       /\ t \in accepted <=> InQueue(t) \/ InHand(t) \/ ran[t] = 1
       /\ InQueue(t) \/ InHand(t) => ran[t] = 0
       /\ InQueue(t) => ~InHand(t)
  /\ \A i, j \in 0 .. queue_size - 1 :
       queue[Slot(queue_front, i, queue_capacity)]
         = queue[Slot(queue_front, j, queue_capacity)] => i = j
  /\ \A v, w \in Workers : task[v] = task[w] /\ task[v] # NoTask => v = w

(* A worker that will look at the queue again without being woken.         *)
OnItsWay(w) ==
  \/ pc[w] \in {"lock", "check", "run"}
  \/ pc[w] = "wait" /\ w \notin cond_work

(* cond_work is shared by workers that wait for a task and submitters that *)
(* wait for room, and thread_pool_submit wakes only one of them.  Still no *)
(* wake-up is lost: a queued task never finds every worker asleep, a       *)
(* submitter never sleeps while there is room, and nobody sleeps on        *)
(* cond_work once thread_pool_destroy has set `shutdown'.                  *)
NoLostWakeup ==
  /\ queue_size > 0 => \E w \in Workers : OnItsWay(w)
  /\ queue_size < queue_capacity => cond_work \cap Submitters = {}
  /\ pc[Main] \in {"join", "destroyed"} => cond_work = {}

(* thread_pool_destroy returns only after every accepted task has been     *)
(* executed, also those accepted between its wait_all and its shutdown.    *)
DestroyDrains ==
  pc[Main] = "destroyed" => \A t \in accepted : ran[t] = 1

(* The pool is freed, by thread_pool_destroy or by the clean-up of a       *)
(* failed thread_pool_create, only when no worker can touch it again.      *)
WorkersGoneWhenFreed ==
  pc[Main] \in {"null", "destroyed"} =>
    \A w \in Workers : pc[w] \in {"unborn", "done"}

(* Once `shutdown' is set no submission is accepted and no worker stops    *)
(* while a task is queued.                                                 *)
ShutdownIsFinal ==
  [][shutdown => /\ shutdown'
                 /\ accepted' = accepted
                 /\ \A w \in Workers :
                      pc[w] # "done" /\ pc'[w] = "done" => queue_size = 0]_vars

(* The ring of tasks, the mutex and the workers together behave as a       *)
(* bounded first-in first-out queue with one receiver per task.            *)
Fifo == INSTANCE BoundedFifo WITH
  Items <- Tasks, Takers <- Workers, Nothing <- NoTask,
  Capacity <- queue_capacity,
  q <- Contents(queue, queue_front, queue_size, queue_capacity),
  hand <- [w \in Workers |-> task[w]]

(* worker_thread and thread_pool_submit implement BoundedFifo.             *)
ImplementsFifo == Fifo!Spec

(* thread_pool_wait_all returns when every task submitted before the call  *)
(* has been executed.                                                      *)
WaitAllMeansComplete ==
  \A w \in Waiters : pc[w] = "returned" => \A t \in due[w] : ran[t] = 1

-----------------------------------------------------------------------------
(* Every accepted task is eventually executed.                             *)
AcceptedTasksRun ==
  \A t \in Tasks : t \in accepted ~> ran[t] = 1

(* Every call returns: a submission that blocks on a full queue, a         *)
(* thread_pool_wait_all (one at a time), and thread_pool_destroy, which    *)
(* joins every worker.                                                     *)
CallsReturn ==
  /\ \A s \in Submitters : pc[s] # "idle" ~> pc[s] = "idle"
  /\ \A w \in Waiters : pc[w] = "lock" ~> pc[w] = "returned"
  /\ pc[Main] = "lock" ~> pc[Main] = "destroyed"

=============================================================================
