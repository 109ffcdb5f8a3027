------------------------------ MODULE SharedOpen ------------------------------
(***************************************************************************)
(* 08_advanced/shared_memory_ipc: how processes open, close and remove the *)
(* shared buffer.  A process is one run of producer.c or consumer.c; a     *)
(* restart is another process.  Every process may be killed at any point.  *)
(*                                                                         *)
(* The buffer and its three semaphores are reached by names.  What         *)
(* sem_open returns is stored in the shared buffer, where every process    *)
(* uses it, and is a descriptor number of the process that called it: the  *)
(* value of the macOS programs in the repository.  The model counts a      *)
(* process's descriptors from 1, the first that is free when it starts; 0  *)
(* is the null pointer, and SEM_FAILED is -1.  (Where sem_open returns an  *)
(* address, as on Linux, no process can use what another has stored.)      *)
(*                                                                         *)
(* pc   start    about to call shm_open                                    *)
(*      size     (producer) about to call ftruncate                        *)
(*      map      about to call mmap                                        *)
(*      open, store   at sem_open of semaphore number `sem', and at the    *)
(*               store of its result                                       *)
(*      check    (consumer) all results are stored                         *)
(*      run      buffer_open has returned the buffer                       *)
(*      undo, unlink  (producer) removes the names in `todo', because      *)
(*               buffer_open failed or because the program ends            *)
(*      failed, done, killed                                               *)
(***************************************************************************)
EXTENDS Integers, Sequences, FiniteSets

CONSTANTS
  Producers, Consumers,
  None,
  RETRIES           \* attempts of a consumer, 10

ASSUME OpenAssumption ==
  /\ IsFiniteSet(Producers) /\ IsFiniteSet(Consumers)
  /\ Producers \cap Consumers = {}
  /\ None \notin Producers
  /\ RETRIES \in Nat \ {0}

VARIABLES
  linked,           \* the process whose object has each name, or None
  sized,            \* the shared memory objects with their full size
  field,            \* the three pointers in each shared memory object
  pc,
  desc,             \* descriptors of each process: <<creator, name>>
  mapped,           \* the object that `shared' points to, by its creator
  sem,              \* the semaphore at which each process is
  result,           \* what sem_open returned last
  todo,             \* the names that a producer has still to unlink
  retries,
  disturbed         \* history: objects that a consumer opened too early, in
                    \* a second attempt, or without reaching its semaphores

names == <<linked, sized>>
openVars == <<linked, sized, field, pc, desc, mapped, sem, result, todo,
              retries, disturbed>>

Procs == Producers \cup Consumers

(* Slip: a consumer opens the mutex first.                                 *)
MutexFirst(p) == IF p \in Consumers THEN <<"mutex", "full", "empty">>
                                    ELSE <<"full", "empty", "mutex">>

SemOrder(p) == <<"full", "empty", "mutex">>

Failed == -1

OpenInit ==
  /\ linked = [n \in {"shm", "full", "empty", "mutex"} |-> None]
  /\ sized = {}
  /\ field = [p \in Producers |-> [n \in {"full", "empty", "mutex"} |-> 0]]
  /\ pc = [x \in Procs |-> "start"]
  /\ desc = [x \in Procs |-> << >>]
  /\ mapped = [x \in Procs |-> None]
  /\ sem = [x \in Procs |-> 1]
  /\ result = [x \in Procs |-> 0]
  /\ todo = [p \in Producers |-> << >>]
  /\ retries = [c \in Consumers |-> RETRIES]
  /\ disturbed = {}

Goto(x, where) == pc' = [pc EXCEPT ![x] = where]

(* A process ends: its descriptors are closed and its memory is gone.      *)
Ends(x, how) ==
  /\ Goto(x, how)
  /\ desc' = [desc EXCEPT ![x] = << >>]
  /\ mapped' = [mapped EXCEPT ![x] = None]
  /\ sem' = [sem EXCEPT ![x] = 1]
  /\ result' = [result EXCEPT ![x] = 0]

-----------------------------------------------------------------------------
(* The producer: buffer_open(1), buffer_close and buffer_unlink.           *)

(* shm_open with O_CREAT | O_EXCL.                                         *)
ShmCreate(p) ==
  /\ pc[p] = "start"
  /\ \/ /\ linked["shm"] = None
        /\ linked' = [linked EXCEPT !["shm"] = p]
        /\ desc' = [desc EXCEPT ![p] = Append(@, <<p, "shm">>)]
        /\ Goto(p, "size")
        /\ UNCHANGED <<mapped, sem, result>>
     \/ Ends(p, "failed") /\ UNCHANGED linked
  /\ UNCHANGED <<sized, field, todo, retries, disturbed>>

Undo(p, ns) ==
  /\ todo' = [todo EXCEPT ![p] = ns]
  /\ Goto(p, "undo")

Ftruncate(p) ==
  /\ pc[p] = "size"
  /\ \/ sized' = sized \cup {p} /\ Goto(p, "map") /\ UNCHANGED todo
     \/ Undo(p, <<"shm">>) /\ UNCHANGED sized
  /\ UNCHANGED <<linked, field, desc, mapped, sem, result, retries, disturbed>>

(* mmap, and the memset that wipes what early consumers stored.            *)
MapAndZero(p) ==
  /\ pc[p] = "map"
  /\ \/ /\ mapped' = [mapped EXCEPT ![p] = p]
        /\ field' = [field EXCEPT ![p] = [n \in DOMAIN @ |-> 0]]
        /\ Goto(p, "open")
        /\ UNCHANGED todo
     \/ Undo(p, <<"shm">>) /\ UNCHANGED <<mapped, field>>
  /\ UNCHANGED <<names, desc, sem, result, retries, disturbed>>

(* sem_open with O_CREAT | O_EXCL.                                         *)
SemCreate(p) ==
  LET n == SemOrder(p)[sem[p]] IN
  /\ pc[p] = "open"
  /\ \/ /\ linked[n] = None
        /\ linked' = [linked EXCEPT ![n] = p]
        /\ desc' = [desc EXCEPT ![p] = Append(@, <<p, n>>)]
        /\ result' = [result EXCEPT ![p] = Len(desc[p]) + 1]
     \/ result' = [result EXCEPT ![p] = Failed] /\ UNCHANGED <<linked, desc>>
  /\ Goto(p, "store")
  /\ UNCHANGED <<sized, field, mapped, sem, todo, retries, disturbed>>

(* Slip: the name that could not be created is removed, too.               *)
ForgetsItFailed(p) == SubSeq(SemOrder(p), 1, sem[p]) \o <<"shm">>

(* What buffer_open removes when semaphore sem[p] cannot be created.       *)
MadeSoFar(p) == SubSeq(SemOrder(p), 1, sem[p] - 1) \o <<"shm">>

(* The result is stored in shared memory and tested.  The compiler (-O2)   *)
(* tests the register that holds it, so that another process's store to    *)
(* the same field cannot fall between the two.                             *)
SemStore(p) ==
  /\ pc[p] = "store"
  /\ field' = [field EXCEPT ![p][SemOrder(p)[sem[p]]] = result[p]]
  /\ IF result[p] = Failed
     THEN Undo(p, MadeSoFar(p)) /\ UNCHANGED sem
     ELSE /\ Goto(p, IF sem[p] = 3 THEN "run" ELSE "open")
          /\ sem' = [sem EXCEPT ![p] = IF @ = 3 THEN @ ELSE @ + 1]
          /\ UNCHANGED todo
  /\ UNCHANGED <<names, desc, mapped, result, retries, disturbed>>

(* Slip: the semaphores are not unlinked.                                  *)
UnlinksBufferOnly == <<"shm">>

(* The names that buffer_unlink removes, in its order.                     *)
AllNames == <<"shm", "full", "empty", "mutex">>

(* A signal ended the loops of main.                                       *)
ProducerQuits(p) ==
  /\ pc[p] = "run"
  /\ mapped' = [mapped EXCEPT ![p] = None]
  /\ todo' = [todo EXCEPT ![p] = AllNames]
  /\ Goto(p, "unlink")
  /\ UNCHANGED <<names, field, desc, sem, result, retries, disturbed>>

(* shm_unlink or sem_unlink: the name goes, whosever it is.                *)
UnlinkNext(p) ==
  /\ pc[p] \in {"undo", "unlink"}
  /\ linked' = [linked EXCEPT ![Head(todo[p])] = None]
  /\ todo' = [todo EXCEPT ![p] = Tail(@)]
  /\ IF Len(todo[p]) > 1
     THEN UNCHANGED <<pc, desc, mapped, sem, result>>
     ELSE Ends(p, IF pc[p] = "undo" THEN "failed" ELSE "done")
  /\ UNCHANGED <<sized, field, retries, disturbed>>

-----------------------------------------------------------------------------
(* A consumer: the retry loop of main, and buffer_open(0).                 *)

(* buffer_open returns NULL.  The descriptors of the attempt stay open.    *)
Retry(c) ==
  IF retries[c] > 1
  THEN /\ retries' = [retries EXCEPT ![c] = @ - 1]
       /\ Goto(c, "start")
       /\ mapped' = [mapped EXCEPT ![c] = None]
       /\ sem' = [sem EXCEPT ![c] = 1]
       /\ UNCHANGED <<desc, result>>
  ELSE Ends(c, "failed") /\ UNCHANGED retries

ShmOpen(c) ==
  LET s == linked["shm"] IN
  /\ pc[c] = "start"
  /\ \/ /\ s # None
        /\ desc' = [desc EXCEPT ![c] = Append(@, <<s, "shm">>)]
        /\ mapped' = [mapped EXCEPT ![c] = s]
        /\ disturbed' = IF pc[s] = "run" /\ desc[c] = << >>
                        THEN disturbed ELSE disturbed \cup {s}
        /\ Goto(c, "map")
        /\ UNCHANGED <<sem, result, retries>>
     \/ Retry(c) /\ UNCHANGED disturbed
  /\ UNCHANGED <<names, field, todo>>

(* mmap fails if the object has no size yet.                               *)
ConsumerMaps(c) ==
  /\ pc[c] = "map"
  /\ \/ /\ mapped[c] \in sized
        /\ Goto(c, "open")
        /\ UNCHANGED <<desc, mapped, sem, result, retries>>
     \/ Retry(c)
  /\ UNCHANGED <<names, field, todo, disturbed>>

SemOpen(c) ==
  LET n == SemOrder(c)[sem[c]] IN
  /\ pc[c] = "open"
  /\ \/ /\ linked[n] # None
        /\ desc' = [desc EXCEPT ![c] = Append(@, <<linked[n], n>>)]
        /\ result' = [result EXCEPT ![c] = Len(desc[c]) + 1]
        /\ UNCHANGED disturbed
     \/ /\ result' = [result EXCEPT ![c] = Failed]
        /\ disturbed' = disturbed \cup {mapped[c]}
        /\ UNCHANGED desc
  /\ Goto(c, "store")
  /\ UNCHANGED <<names, field, mapped, sem, todo, retries>>

(* The result overwrites what the producer and other consumers stored.     *)
ConsumerStores(c) ==
  /\ pc[c] = "store"
  /\ field' = [field EXCEPT ![mapped[c]][SemOrder(c)[sem[c]]] = result[c]]
  /\ Goto(c, IF sem[c] = 3 THEN "check" ELSE "open")
  /\ sem' = [sem EXCEPT ![c] = IF @ = 3 THEN @ ELSE @ + 1]
  /\ UNCHANGED <<names, desc, mapped, result, todo, retries, disturbed>>

(* The test looks at the fields, which may have changed in between.        *)
Check(c) ==
  /\ pc[c] = "check"
  /\ IF \E n \in {"full", "empty"} : field[mapped[c]][n] = Failed
        \/ result[c] = Failed
     THEN Retry(c)
     ELSE Goto(c, "run") /\ UNCHANGED <<desc, mapped, sem, result, retries>>
  /\ UNCHANGED <<names, field, todo, disturbed>>

(* buffer_close, at the end of main.                                       *)
ConsumerQuits(c) ==
  /\ pc[c] = "run"
  /\ Ends(c, "done")
  /\ UNCHANGED <<names, field, todo, retries, disturbed>>

-----------------------------------------------------------------------------
Alive(x) == pc[x] \notin {"failed", "done", "killed"}

(* SIGKILL; or any signal before main has installed its handlers.          *)
Kill(x) ==
  /\ Alive(x)
  /\ Ends(x, "killed")
  /\ UNCHANGED <<names, field, todo, retries, disturbed>>

OpenNext ==
  \/ \E p \in Producers :
       \/ ShmCreate(p) \/ Ftruncate(p) \/ MapAndZero(p) \/ SemCreate(p)
       \/ SemStore(p) \/ ProducerQuits(p) \/ UnlinkNext(p)
  \/ \E c \in Consumers :
       \/ ShmOpen(c) \/ ConsumerMaps(c) \/ SemOpen(c) \/ ConsumerStores(c)
       \/ Check(c) \/ ConsumerQuits(c)
  \/ \E x \in Procs : Kill(x)

OpenSpec == OpenInit /\ [][OpenNext]_openVars

-----------------------------------------------------------------------------
(* Names are left behind only by producers that were killed: neither a     *)
(* buffer_open that fails at any of its steps nor a complete run of        *)
(* producer.c leaves one.                                                  *)
NoStaleNames ==
  \A n \in DOMAIN linked :
    linked[n] # None => pc[linked[n]] \notin {"start", "failed", "done"}

(* A producer unlinks only what it has created, even when it starts while  *)
(* an earlier one is leaving, and so a running producer keeps all of its   *)
(* names.                                                                  *)
OnlyOwnNames ==
  [][\A n \in DOMAIN linked :
       linked[n] # None /\ linked'[n] = None =>
         \E p \in Producers : linked[n] = p /\ pc[p] \in {"undo", "unlink"}]_openVars

(* What process x reaches through pointer n of the buffer that it uses.    *)
Reached(x, n) ==
  LET v == field[mapped[x]][n] IN
  IF v \in DOMAIN desc[x] THEN desc[x][v] ELSE None

(* As long as consumers come after the producer has opened the buffer and  *)
(* succeed at once, the pointers in it lead every process, though each was *)
(* stored by another, to the semaphores of this buffer.                    *)
RightSemaphores ==
  \A x \in Procs :
    (/\ pc[x] = "run" /\ pc[mapped[x]] = "run"
     /\ mapped[x] \notin disturbed)
      => \A n \in {"full", "empty", "mutex"} : Reached(x, n) = <<mapped[x], n>>

=============================================================================
