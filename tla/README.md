# A TLA+ model of the systems-programming repository

The repository is a collection of small, independent C programs: processes and signals, memory,
threads, networking, storage and shared memory. There is no program that joins them, so the
project has one module per component, and composes modules where the code does (the benchmark of
the queue runs the queue, the echo servers run with their clients, the thread pool and the queue
share their synchronisation primitives).

Run a model with `tlc -config <run>.cfg <MC module>`, check the proofs with
`tlapm ThreadPoolProofs.tla` (likewise for the other modules named `...Proofs`). `PROJECT.json`
lists the runs, the mutations that show that each property can fail, the source lines of every
definition, the hazards and the findings.

## Inventory

| component | state | operations | what is hard | correct means |
|---|---|---|---|---|
| `03_threads/thread_pool` | ring of tasks, `queue_size`, `queue_front`, `shutdown`, a mutex, two condition variables | create, submit, worker loop, wait_all, destroy | `cond_work` is shared by workers and submitters and signalled once; wait_all sees an empty queue, not finished tasks; create's clean-up works without the mutex; destroy races with submit | accepted tasks run exactly once, in order; no wake-up is lost; destroy drains; the pool is freed after its workers |
| `03_threads/producer_consumer` (queue.c) | ring of items, a mutex, two condition variables | enqueue, dequeue, try_dequeue, size, destroy | one signal per item and slot, with pollers that take items meant for sleepers; pthread calls that fail half way | bounded FIFO; nothing lost or duplicated; callers come back |
| `03_threads/producer_consumer` (test.c) | loop counters, idle counters | producers, polling consumers, main | an idle timeout against slow producers | the report adds up; main ends |
| `01_processes/signal_handlers` | `server_running`, `shutdown_requested`, `active_connections`, a condition variable | accept loop, handler threads, signal handler, drain; clients | signals in any thread, EINTR, counting a connection in its own thread, sleeping on the last one | graceful drain: nobody is cut off, main does not sleep for ever |
| `08_advanced/shared_memory_ipc` | four names; a ring in shared memory, `write_pos`, three semaphores and the pointers to them; a read position per consumer | buffer_open, buffer_close, buffer_unlink, buffer_write, buffer_read, the loops of producer and consumer | processes without a common lock that fail, retry and are killed half way; pointers stored by one process and used by another; unlocked read of `write_pos`, interrupted waits, several consumers | names do not outlive their producer; the pointers lead to the right semaphores; every consumer reads every message once, whole and in order; slots are not leaked |
| `06_storage/lru_cache` | nodes with key, value, prev, next; head, tail, hash table, counters; a mutex | get, put, clear, stats, destroy | two linked structures in one pair of pointer fields | a map that evicts the least recently used entry; no dangling pointer, no leak |
| `02_memory/custom_malloc` | a heap with block headers in it, free list, statistics | init, malloc, free with coalesce, stats, cleanup | headers among client data, rest of a split, order of the free list | blocks share out the heap; client data is never touched |
| `04_networking/tcp_echo_server` | poll server: slots with a buffer each, a counter; threaded server: a counter; client: three statistics | poll loop: accept, read, echo, close; accept loop and detached threads; benchmark threads that send and wait for the echo | slots at their limit, partial reads and writes, full buffers, events that are not set, SIGPIPE, a counter incremented after the thread started | every byte is echoed once, in order; nobody is cut off; counters agree with connections; losses are reported |
| `01_processes/mini_shell` | pipes, children, descriptors of the shell | prompt, pipeline, single command with redirection, wait, exit | every copy of a pipe end must be closed, in every process and not too early; calls that fail half way | a pipeline ends, and not before its time; the prompt comes back with nothing left over |
| `02_memory/mmap_playground` | none | straight-line demonstrations and timings | - | - |

## Modules

* `CondVar` - what `pthread_cond_signal` and `pthread_cond_broadcast` do to a set of sleepers.
  `Ring` - the slot of a ring buffer.
* `ThreadPool` - thread_pool.c. Threads are workers, submitters, waiters (callers of wait_all) and
  `Main`, which creates and destroys the pool. A critical section is one step. Deciding to sleep
  and falling asleep are two steps ("sleep", "wait"), because the clean-up of a failed
  thread_pool_create sets `shutdown` and broadcasts without the mutex. `ThreadsCanFail` lets any
  pthread_create fail; `Overlap` lets submissions overlap or follow the destroy, in which case a
  call on the freed pool ends in "fault".
* `BoundedFifo` - the abstract queue: put, take, finish. Both `ThreadPool` and `Queue` implement
  it (`ImplementsFifo`), with the ring read off from `front` as the queue and the task or item of
  a worker or consumer as its hand.
* `Queue` - queue.c: the operations, and the mutex they contend for. Taking the mutex is a step of
  its own, since queue_try_dequeue can see that it is taken. A fault of the environment is a
  spurious wake-up or a pthread call that fails. Two modules use the queue: `QueueCallers` adds
  threads that enqueue, block and poll as they like; `QueueBench` adds main, the producers and the
  polling consumers of test.c.
* `SignalServer` - signal_server.c with the clients of client.c. A signal goes to main or to any
  handler thread, and interrupts a blocking accept or read (the handlers are installed without
  SA_RESTART). A history, `cut_off`, remembers the connections that the server gives up before
  their client has finished: a read that a signal interrupts, a pthread_create that fails, the
  backlog at the shutdown, and a thread that has not counted itself in when the drain ends. The
  client does not ignore SIGPIPE, so a write to a closed connection ends all its threads at once.
* `SharedOpen` - how runs of producer.c and consumer.c open, close and remove the shared buffer:
  every call of buffer_open with the clean-up of the ones before it, the consumer's retries, the
  four unlinks at the producer's end, and a kill at any point. A restart is another process. Names
  lead to objects, objects are known by their creator, and the three pointers in the shared
  structure are what sem_open returned to whoever stored them last.
* `SharedBuffer` - buffer_write and buffer_read on an opened buffer, step by step at the
  semaphores, with the loops of producer.c and consumer.c. A message is copied into its slot in two
  steps, and a slot in between is `Torn`. `polls[c]` says whether consumer `c` looks before it
  reads, as consumer.c does, or relies on buffer_read to block, as shared_buffer.h:65 says it may
  ("Blocks if no new messages since last read").
* `EchoNet` - the TCP connections between the echo servers and their clients: bounded buffers in
  both directions, backlog, shutdown, close and reset. `PollServer` - server_epoll.c, one step per
  system call of the loop, with arbitrary clients. `ThreadedServer` - server_threaded.c, main and
  its detached threads. A write to a reset connection fails with ECONNRESET, and the server goes
  on without that client, or raises SIGPIPE, and it ends. `EchoClient` - client.c, the benchmark of
  the threaded server. `EchoServers` composes them: one server with its clients.
* `MiniShell` - shell.c from the prompt back to the prompt, and the programs it starts. What
  matters is who holds which end of which pipe: fork copies the ends of the shell, dup2 and the
  close loops leave each child with its own, a pipe reports the end of the data when nobody holds
  its write end. A line is one of the kinds that the parser tells apart.
* `LruCache` - lru_cache.c. Operations hold the mutex throughout and are single steps, so what
  matters is the pointers: nodes are addresses, `prev` and `next` are the fields of the code, and
  updates happen in the code's order. An operation that would read a freed node or run in a circle
  has no step; `MemorySafe` says that no state lets it come to that. The chains of the buckets and
  the list of recent use share the field `next`, and a history, `mixed`, is set when that first
  matters: when a new entry joins a bucket that keeps another (`SharesBucket`), or an entry moved
  to the front from the middle of the list drops those behind it (`LosesRest`). `LruSpec` is the
  abstract cache of lru_cache.h.
* `Allocator` - allocator.c over an array of words in which headers and client data lie side by
  side. Clients fill their memory with their own mark, so that any write of the allocator into
  it is seen. Sizes are computed in `size_t`, with `SIZE_MAX` a constant. A history, `cramped`, is
  set when my_malloc cuts a block too small: the rest of a split has no room for a header, or the
  request wrapped and the block has no room for its client.
* `ThreadPoolProofs`, `QueueProofs` (queue and benchmark), `SharedMemoryProofs` (`SharedOpen` and
  `SharedBuffer`), `ProcessProofs` (`MiniShell` and `SignalServer`), `EchoProofs`, `LruProofs`,
  `AllocatorProofs` - the theorems about these modules. `RingProofs` - lemmas about
  `Ring`: the ring read off from its front is a sequence, to which an enqueue appends and from which
  a dequeue removes the head.
* `MC...` - model values and symmetry for TLC. `MCMemory` (cache and allocator), `MCProcesses`
  (signal server and shell) and `MCQueue` (the two uses of the queue) hold programs that have
  nothing in common; a behaviour runs one of them, and the fairness of all is stated there.

Definitions whose comment begins with "Slip" are not part of the model. They are the mutated
forms, typical mistakes, that `PROJECT.json` names under "mutants".

## What the runs check

Thread pool.
* `pool_safety`: three workers, two submitters that race with the destroy or follow it, five tasks
  and a pthread_create that may fail after any number of workers. No task is lost, executed twice
  or overwritten (`TasksConserved`); no wake-up on the shared `cond_work` is lost
  (`NoLostWakeup`); every accepted task is executed before destroy returns (`DestroyDrains`) and
  nothing is accepted after the shutdown (`ShutdownIsFinal`); the pool is freed after its workers,
  the clean-up of a failed create included (`WorkersGoneWhenFreed`); and ring, mutex and workers
  implement `BoundedFifo`.
* `pool_liveness`: a waiter beside two workers and two submitters. Accepted tasks run
  (`AcceptedTasksRun`), and submit, a single wait_all and destroy return (`CallsReturn`).

Queue.
* `queue`: threads that call whatever the queue offers, or the benchmark. Items are neither lost
  nor duplicated (`Conserved`); one signal per item and per slot is enough although polls take
  items that a woken thread was to get (`EnoughAwake`); the queue implements `BoundedFifo`; every
  enqueue returns and every accepted item arrives (`EveryoneServed`). In the benchmark items
  produced are items consumed plus items left, also when an enqueue fails (`ReportAddsUp`), and it
  ends unless the consumers abandoned a full queue (`EndsUnlessAbandoned`).

Signal server and shell.
* `processes`, server: main never sleeps on an empty counter (`NoSleepWhenDrained`) and leaves the
  drain only when every counted connection is finished (`DrainsCounted`); a connection ends before
  its client has finished only when it is one of `cut_off`, and what a client that finished by
  itself had sent was echoed (`ServedToTheEnd`); a signal ends the server (`SignalEndsServer`), and
  clients come to their end (`ClientsEnd`).
* `processes`, shell: a program sees the end of its input, or SIGPIPE, only when its neighbour has
  ended, while the shell is still forking and closing (`NoEarlyEnd`); at the prompt every child has
  been waited for, every pipe end is closed and the output restored (`CleanPrompt`); every command
  ends, even when pipe or fork fail half way and the shell gives up (`CommandsEnd`).

Shared memory.
* `shm_open`: two runs of the producer, overlapping or in turn, and a consumer with two attempts;
  any call may fail and any process be killed. Only a kill leaves names behind (`NoStaleNames`);
  nobody unlinks the names of somebody else (`OnlyOwnNames`); and as long as consumers come after
  the producer has finished opening and succeed at once, the pointers lead everybody, whoever
  stored them, to the right semaphores (`RightSemaphores`).
* `shm`: two consumers, which poll or block, come when they like and leave. A consumer.c reads
  every message once, whole and in order, as long as no other consumer reads; beside others it may
  get, in the place of a message, a later one or one that is being written, but never an older one
  (`ReadsInOrder`). For a consumer that reads alone `sem_empty` counts the free slots exactly,
  interrupted waits included (`SlotsAddUp`). Nobody is left waiting for something that is there,
  except readers that block in buffer_read beside each other, of which one post wakes only one
  (`NobodyLeftWaiting`).
* `shm_readers` expects a violation: see Findings.

Echo servers.
* `echo`: in both servers what is on the way back, in the server and on the way there is exactly
  what the client sent and has not got back, in order, whatever the sizes of reads and writes
  (`EchoInOrder`); a connection is closed early only for the reasons that `NoOneCutOff` names; the
  counters agree with slots, handlers and connections (`CountsAgree`); the client reports every
  message that was lost as an error (`LossesReported`); every byte comes back unless the
  connection ends (`EchoArrives`); a signal ends the poll server, also one that arrives between
  the test of `running` and poll (`SignalEndsPoll`).

LRU cache and allocator.
* `memory`, cache: as long as the two uses of `next` have not got into each other (`mixed`), every
  call can be completed without a freed node or a circle (`SafeUntilMixed`) and is a step of
  `LruSpec` (`LruUntilMixed`), also in a list that earlier calls have damaged.
* `memory`, allocator: as long as no block was cut too small (`cramped`), client memory is never
  touched (`IntactUntilCramped`), blocks tile the heap (`TileUntilCramped`), and the statistics
  agree with what is held (`NetUntilCramped`), over two heaps in turn.
* `lru_three` and `alloc_small` expect violations: what happens without these conditions.

### Findings

Four runs violate what the repository says of the program; `PROJECT.json` quotes the lines.
* `pool_wait_all`: wait_all returns while the last task still runs (thread_pool.h:46).
* `shm_readers`: two consumers, there before the first message, each give back the slot of every
  message, so that the producer overruns the slower one; it reads a slot that is being written
  where message 0 should be (shared_buffer.h:13, "N consumers").
* `lru_three`: a cache of three entries without collisions, as in the first test of test.c. After
  three puts, two gets and a put that evicts, a get writes through `prev` into a freed node. Two
  keys in one bucket do harm sooner: a get moves an entry out of reach of its bucket, so that
  lookups miss it, or a lookup runs in a circle with the mutex held.
* `alloc_small`: a heap of 14 words and requests of sizes that differ by a word, as those of
  benchmark.c do. The second request leaves a rest of 16 bytes, and the header written there ends
  behind the heap; where another block follows it is overwritten.

Two more disagreements are between the code and its own text, and show in the exceptions or the
result of `processes`:
* signal_server.c:27 promises a graceful drain. A connection whose thread has not counted itself yet
  is not drained, and a signal taken by a handler thread ends its connection. Without `cut_off` in
  the action `Drained`, or in `InterruptRead`, TLC refutes `ServedToTheEnd`.
* shell.c:254 offers background jobs. `&` is recognised and never acted on: `CleanPrompt` holds for
  every line.

The models contain further behaviours that a reader of the code should know of. The properties name
them as exceptions, except that of two threads in wait_all only one is woken, since the queue's
becoming empty is signalled once: `pool_liveness` has one waiter, and with two `CallsReturn` breaks.

As exceptions:
* a failed create can hang: its broadcast is made without the mutex and may fall between a worker's
  test and its sleep (`pool_safety` does not check deadlock for this reason);
* a submit during or after the destroy may reach freed memory (step "fault");
* queue_try_dequeue returns NULL from a non-empty queue when the mutex is busy;
* the consumers of the benchmark give up on a slow producer, and main then waits for ever in a join;
* reads that polled leave counts in `sem_full` behind, after which a blocking buffer_read returns a
  slot that was not written; so buffer_read does not always block, as shared_buffer.h:65 says it
  does, where there is nothing new;
* lru_cache_clear leaks nodes, also without colliding keys: the `next` of a new node was taken for
  its chain and is NULL, so of two entries it frees one;
* a request near SIZE_MAX wraps when it is rounded up or the header is added, and gets a block
  without room for it;
* adjacent blocks freed in ascending order of address are not joined;
* a killed producer's names make every later start fail, since nothing removes them;
* a consumer that comes while the producer is still opening stores SEM_FAILED over the producer's
  pointers, and one that needs a second attempt stores descriptor numbers that are not the
  producer's (`disturbed` marks both). This is macOS, where the repository's programs were built
  and sem_open returns descriptor numbers; where it returns addresses, no pointer that another
  process stored is of use;
* the poll server never uses a slot again: after MAX_CLIENTS - 1 connections it turns everybody
  away. A full buffer makes read ask for 0 bytes, and the result 0 is taken for the end of the
  connection. A new slot is examined in the same round, with `revents` that nobody has set. POLLHUP
  that arrives with the last data ends the connection before the echo is complete;
* SIGPIPE is not ignored: a client that resets its connection can end either server, and a server
  that ends can end the benchmark;
* the threaded server's counter can be -1 for a moment; its signal handler does not wake accept
  when signal() restarts system calls, so the server ends with the next connection; the benchmark
  joins a pthread_t that was never set when pthread_create fails;
* the shell parses redirections twice. The first call opens the file and lowers `arg_count`, its
  results are lost, and the second finds nothing, so that the output goes to the terminal and a
  descriptor stays open for each (`leaked`), until pipe fails. The operator and the file name stay
  in `args`, where no NULL ends the shorter list, and the program gets them as arguments;
* the shell passes an array of arrays, by a cast, where execute_piped_commands takes an array of
  pointers (shell.c:274), so a child of a pipeline takes text, or what is left on the stack behind
  it, for the address of its command. The usual outcome is a crash before exec. `Exec` has every
  outcome, a program that runs included, so that the pipes are checked for a pipeline that works
  as well.

## Bounds

* In `pool_safety` the queue has three slots for three workers (QUEUE_CAPACITY_MULTIPLIER is 1, 10
  in the code). With five tasks two submitters sleep on a full queue together, which is where one
  signal in place of a broadcast would lose a wake-up; with fewer tasks they never do. In
  `pool_liveness` a waiter is added, so that all three kinds of thread meet, and three tasks go
  round two slots.
* `MaxSpurious`, `MaxFaults`, `MaxPolls` and `MaxSignals` bound events of the environment. One or
  two are enough for each to meet every state of the other threads.
* Items of `QueueCallers` are numbered in the order in which they are offered. The queue does not
  look into an item, so this loses nothing.
* The shared ring has two slots, for three messages in `shm` and four in `shm_readers`: it wraps and
  fills, and consumers can be a ring apart. `shm` has every mixture of consumers that poll and
  consumers that block, up to their names.
* The queue has two slots for four items, and a consumer of the benchmark gives up after two empty
  polls. One pthread call fails.
* `shm_open` has two producers, so that one can start while the other opens, runs, cleans up or has
  been killed, and one consumer with two of its ten attempts, the first of which may fail.
  Producers are symmetric.
* `echo` has two connections, socket buffers and server buffers of two bytes and three bytes for
  each connection (two messages of two bytes for the benchmark): buffers fill, reads and writes are
  partial, and echoes meet new data. With `MAX_CLIENTS` 2 one connection has a slot and the other
  is turned away.
* `processes` has two clients with two messages each and two signals, so that the second finds the
  shutdown under way. The shell has pipelines of up to four commands, so that there is a command
  between two others on either side; `FILES` 8 is six descriptors for three pipes and two that
  redirections leave open, after which pipe fails. A pipe holds one byte and a program writes two,
  so that writers block.
* The cache of `memory` grows to three entries, has four keys, of which 0 and 3 share a bucket, and
  four nodes, one more than entries, so that an evicted node is used again; when nodes are used up
  malloc fails, which put handles. `MaxCount` bounds hits, misses and evictions. In `lru_three`
  every key has its own bucket.
* The allocator of `memory` has a heap of 20 words (160 bytes) and three clients. A request of 20
  takes 48 bytes with its header, one of 32 takes 56; three blocks of 48 leave 16 bytes, which is
  too small a rest, and other orders leave rests that are large enough. 200 does not fit, 0 is
  refused, and with `SIZE_MAX` 255 the requests 225 and 255 wrap. `MaxAllocs` is one more than the
  clients can hold at once, so that freed blocks are used again, in two heaps in turn.
* `Unharmed` in `memory.cfg` keeps TLC from following behaviours further after `mixed` or `cramped`
  is set, since nothing is claimed there; the step that sets it is still checked. `WithoutCall`
  leaves the result of the last call out of what tells states apart: no action reads it, and the
  step property `LruUntilMixed` is evaluated for every step.

Deadlock is checked in `pool_liveness`, `pool_wait_all`, `queue` and `processes`, whose ends are
steps that change nothing. It is not where a program really may stop: a pool whose creation failed
(above), a producer that lingers for a signal, a cache or an allocator whose calls have reached the
bound, servers and processes that have ended.

## Fairness

All fairness is weak and per thread or process: the scheduler runs every thread that can run for as
long as it can. Nothing is assumed of the environment: signals need not arrive, consumer processes
need not start, sem_wait need not be interrupted, nobody need type a line, and the clients of the
poll server need not connect, send or hang up. Three assumptions go further. In `queue` the
consumers keep asking for items, which is what makes an enqueue return. In `echo` the clients read
what has arrived, since an echo that nobody reads cannot be delivered; that poll fails is possible
and not assumed. In `processes` the shell's programs are filters: they read to the end of their
input, write and finish, though any of them may quit early. Weak fairness on lock steps is enough
because every holder of a mutex releases it and only finitely many calls compete: polls, faults and
items are bounded.

## Proofs

The theorems hold for every value of the constants that the named assumptions of the modules allow
(`PoolAssumption`, `QueueAssumption`, ...): finite sets of threads, processes and connections that
do not overlap, and sizes and bounds that are natural numbers, positive where the code needs it.
The bounds of the runs (calls, faults, signals, messages) are among these constants, so what is
proved does not depend on them. Every safety property that a passing run checks is a theorem, the
three refinements included; the liveness properties are not. Each theorem rests on an inductive
invariant, and TLC has been run on those that it can evaluate. The proofs have one shape: lemmas
say what each action does to the part of the state at hand, one lemma per part says that such an
effect keeps the invariant, and a step lemma joins them, one case per action.

No theorem has a hypothesis that the code does not see to, except those of the assumptions and
`Items = BenchItems` below. Where the code keeps a property only until something goes wrong, the
property itself says so (`OthersRead`, `cut_off`, `mixed`, `cramped`), and the theorem is about
every behaviour of the specification that the run checks.

`ThreadPoolProofs` (all sets of workers, submitters, waiters and tasks):

* `TypeCorrect`: the type invariant alone is not inductive: enqueueing stores the submitter's
  task, which must be a task. `SubmitterHasTask` is the strengthening.
* `WakeupsAreNotLost`: the inductive invariant `SyncInv` joins mutual exclusion (`MutexInv`), that
  exactly the threads in pthread_cond_wait sleep (`SleepInv`), the phases of creation
  (`CreateInv`), when `shutdown` is set (`ShutdownInv`), when workers stop (`DoneInv`), that a
  thread's decision to sleep is still right when it falls asleep (`DecisionInv`), and the heart of
  the matter, `SleepersInv`: a submitter sleeps only while the queue is full, and as long as a
  worker sleeps, sleeping workers and queued tasks together are no more than there are workers. The
  single pthread_cond_signal in submit keeps that: when a worker sleeps the queue is not full (its
  capacity is at least the number of workers), so no submitter sleeps, and the signal reaches a
  worker. If all workers slept, no task could be queued.
* `FreedAfterWorkers` and `ShutdownFinal`, an action property, from the same invariant.
* `TasksAreConserved` and `DestroyLeavesNothing`: `TaskInv` says where a task is: with one
  submitter before it is accepted, then in exactly one place of the ring, then with one worker, then
  run once. Its steps need that the entries of the ring are distinct and that advancing one end
  leaves the others in place, which are lemmas of `RingProofs`. When destroy has returned every
  worker is done, a worker is done only with the queue empty, and so only "run" is left.
* `PoolIsFifo`: the refinement. The initial ring maps to the empty queue; Enqueue maps to a put
  (`Contents` is appended to), Dequeue to a take (its head), RunTask to a finish, and every other
  step leaves ring and hands alone.

`QueueProofs` (all capacities, producers, consumers and items; specification `CallersSpec`):

* `BaseCorrect` and `QueueTypes`: types, mutual exclusion, who sleeps and who has an item
  (`BaseInv`).
* `OneSignalIsEnough`: `EnoughAwake` is inductive together with `BaseInv`. An enqueue adds one item
  and wakes one sleeping consumer; taking an item lowers the number of items by one and that of the
  consumers awake by at most one; a thread falls asleep only when there is nothing for it.
* `ItemsAreConserved` (`ItemInv`, as `TaskInv` above, with enqueues that fail) and `QueueIsFifo`.
* `BenchReportAddsUp` (specification `BenchSpec`, any number of threads, items and empty polls
  before a consumer gives up): the threads of test.c call the same operations, so `ItemInv` is
  shown again for the benchmark's steps, together with where the loops are (`BenchCalls`) and with
  `ReportInv`: once main has reported, the process ends, so the size it read is still the size and
  no consumer holds an item. Since the items in the ring are distinct, their number is the size of
  the queue. The hypothesis `Items = BenchItems` says that items are named by producer and number,
  as test.c makes them.

`SharedMemoryProofs`, `SharedOpen` (all sets of producers and consumers, killed anywhere):

* `NamesAreNotStale`, `NamesAreRemovedByTheirOwner`: `Ownership` says that the names linked to a
  living producer are exactly those that its position in buffer_open or buffer_unlink says it has
  made and not yet removed.
* `PointersAreRight`: `ReachInv` follows the semaphores into the shared structure: a process
  opened them in the same order as the one that stored the pointers, so the same value stands for
  the same semaphore in both.

`SharedMemoryProofs`, `SharedBuffer` (all numbers of slots and messages):

* `BufferTypes`: the types, for any number of consumers, as all that follows.
* `ReadersWaitForMessages`: a consumer that polls goes into buffer_read only when there is a message
  it has not read (`ReaderInv`), and `write_pos` only grows, so its position stays at or behind
  `write_pos`.
* `FreeSlotsAreCounted`: `SlotsAddUp` is inductive together with `ReaderInv`. As long as a consumer
  is the only one that has read, no other process has posted `sem_empty`.
* `MessagesAreReadInOrder`: while the consumer reads alone, `sem_empty` is exact, so the producer
  overwrites only a slot that has been read, and the slots between the two positions hold the
  messages of these positions (`WindowInv`), as positions less than a ring apart have different
  slots. Beside others only that is left which `SlotsGrow` says: a slot that is not being written
  holds the newest message with its index, at least the one a reader expects there.

`ProcessProofs`, `SignalServer` (all sets of connections):

* `ServerTypes`, `NoLostDrainWakeup` and `DrainWaitsForAll`: `active_connections` is the number of
  connections between increment_connections and decrement_connections (`CountInv`), and main
  sleeps only while it is positive (`SleepInv`); the types alone are not inductive, since only
  exact counting keeps the counter from going below 0.
* `ClientsAreServedToTheEnd`: after the shutdown no connection is left in the backlog (`ShutInv`);
  since the counter is exact, main finds it at 0 only when no handler is serving, and the threads
  that have not counted themselves in are then given up; so a connection that is not in `cut_off`
  is served until its client has hung up (`ServedInv`).

`EchoProofs` (all sets of connections, all sizes of buffers and messages, both servers):

* `EchoIsInOrder`: `ByteInv` states the order byte by byte: the bytes on the way back, in the
  server and on the way there continue each other. It needs that a connection without a handler
  or a slot has nothing in the server (`HandlerInv`, `SlotInv`) and that one that was never made is
  empty (`AwayInv`).
* `ConnectionsAreCounted`: `SlotInv`, one slot for each accepted connection, whichever slots the
  loop has emptied, and `CountInv`.
* `NobodyIsCutOff`: the poll server closes on what poll reported some system calls ago.
  `EventInv` says that what it reported is still so when the loop gets to the slot: nobody else
  reads from the connection, and a client that has hung up does not come back.
* `LossesAreReported`: `ReportInv`: messages sent, less those received and those that are awaited,
  are no more than the errors counted.

`ProcessProofs`, `MiniShell` (all numbers of commands and descriptors, all sizes of pipes):

* `PromptIsClean` and `PipesEndInOrder`: `EndsInv` and `HoldsInv` say who holds which end of which
  pipe at every stage of a child and of the shell, `StartedInv` which commands are started and not
  waited for. A pipe whose write ends nobody holds is then one whose writer has ended.

`LruProofs` (all sets of keys, values and nodes):

* `CacheIsSafe` and `CacheIsLru` hold for every number of entries, keys, nodes and buckets, until
  `mixed` is set. The inductive invariant `UnmixedInv` says that until then `CacheInv` holds: the n
  entries are a sequence of different live nodes, the most recent first (`HasEntries`, `Listed`).
  The head and the tail of the list are its ends, every `prev` leads to the node before, and each
  node is alone in its bucket. `next` may be NULL in place of the node behind: put overwrites it
  with the chain. This damage does no harm as long as eviction starts from the tail, lookups start
  from the bucket, and no entry is moved whose lost `next` matters, which is when `mixed` is set.
* A walk along `next` is a recursive function on the number of steps; `WalkSteps` shows that it is
  well defined, by the least counterexample in place of an induction. A lookup ends at the first
  node of its bucket, or goes on along the list behind it. From that follow what find_node returns
  and what evict_lru removes; further lemmas say what inserting, moving and evicting do to the
  sequence. For the refinement the sequence is read as a sequence of entries, and each step of the
  code is a step of `LruSpec` (`LruStep`).

`AllocatorProofs` (all sizes of the heap, of requests and of `SIZE_MAX`, all sets of clients):

* `HeldStayIntact`, `BlocksAlwaysTile` and `StatsAgree` are about all behaviours of `AllocSpec`.
  The inductive invariant `RoomyInv` says that until `cramped` is set `AllocInv` and `NetInv` hold
  and the sizes of blocks are whole words with room for a header (`WholeSizes`); `RoomyCuts` shows
  that a split that does not set `cramped` keeps that.
* `AllocInv` has a part that no variable holds: there is a set of blocks, the free ones, and a
  ranking of them, such that free and held blocks share out the heap (`Tiles`) and the list runs
  through the free ones in the order of their ranks (`Linked`), which excludes cycles. The other
  parts are the clients' headers (`HoldersInv`), their data and the words behind the heap
  (`ContentsInv`), and the statistics (`NetInv`).
* A search of the list is a recursive function. That it ends at the first block that fits, and that
  each round of coalesce merges two neighbours or moves on, follows from the ranks, again by least
  counterexamples. Splitting, freeing and merging each replace one or two blocks of the tiling.

Only model-checked:

* every liveness property: `AcceptedTasksRun`, `CallsReturn`, `EveryoneServed`,
  `EndsUnlessAbandoned`, `NobodyLeftWaiting`, `SignalEndsServer`, `ClientsEnd`, `EchoArrives`,
  `SignalEndsPoll`, `CommandsEnd`. The prover does not reason about fairness and ENABLED.

## Assumptions and what is not modelled

* Memory is sequentially consistent under the mutexes. For `SharedBuffer` the copy into a slot is
  seen before the new `write_pos`, as on x86; the code has no barrier of its own there.
* In `SharedBuffer` every process reaches the three semaphores. `SharedOpen` says when that is so.
* signal() restarts interrupted system calls (macOS, BSD) in server_threaded.c and shell.c;
  signal_server.c uses sigaction without SA_RESTART. poll is interrupted in either case; sem_wait
  may be or not, and `SharedBuffer` has both.
* Setup that fails before a program does anything (socket, bind, listen), printing, timing and
  argument parsing are left out; so are partial writes of an echo in `SignalServer`.
* In buffer_open the result of sem_open is tested in a register, as the Makefile's -O2 makes it, and
  not read again from the shared structure.
* Keys of the LRU cache are natural numbers; a negative key indexes the table out of bounds
  (lru_cache.c:33).
* `mini_shell`: `cd`, whose only effect is the working directory, and `help`. `&` is read by the
  parser and never acted on. A child whose exec fails calls exit(), which may move the offset of an
  input file it shares with the shell; input is from a terminal here.
* `mmap_playground`: straight-line demonstrations and timings in one thread, without state from one
  call to the next. (Its search_with_read looks at one 4096-byte chunk at a time, and misses a
  match that lies across two.)

## What could be added

Every component that is to be modelled is, and every safety property of a passing run is a theorem.
What remains with TLC is liveness, which the prover cannot reach. The clean-up of a failed
thread_pool_create, which broadcasts without the mutex, is modelled, and that it can hang is known
(see Findings); a repaired clean-up would be checked by removing the exception from `pool_safety`.
