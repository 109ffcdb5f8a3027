---------------------------- MODULE SharedBuffer ----------------------------
(***************************************************************************)
(* 08_advanced/shared_memory_ipc: messages from one producer process to    *)
(* consumer processes through a ring of slots in shared memory, guarded by *)
(* three named semaphores.  The buffer has been opened: it is set up and   *)
(* every process reaches the semaphores.                                   *)
(*                                                                         *)
(* The producer waits for `sem_empty', writes the slot of `write_pos' and  *)
(* posts `sem_full'.  A consumer keeps its own read position; it compares  *)
(* it with `write_pos' without a lock, copies the slot and posts           *)
(* `sem_empty'.  Nothing orders a copy out of a slot and a copy into it,   *)
(* so a message is written in two steps and a slot between them is Torn.   *)
(*                                                                         *)
(* Message n is the n-th message of the producer.  A consumer that polls   *)
(* is consumer.c, which reads only when a message is there; one that does  *)
(* not calls buffer_read and relies on it to block.                        *)
(***************************************************************************)
EXTENDS Integers, FiniteSets

CONSTANTS
  Readers,
  MAX_MESSAGES,   \* slots, 4096 in the code
  num_messages,   \* messages the producer sends
  MAX_IDLE,       \* idle polls after which a consumer gives up, 100
  Torn, Blank     \* a slot being written; the empty string

ASSUME BufferAssumption ==
  /\ IsFiniteSet(Readers)
  /\ MAX_MESSAGES \in Nat \ {0}
  /\ num_messages \in Nat
  /\ MAX_IDLE \in Nat \ {0}
  /\ Torn \notin Nat
  /\ Blank \notin Nat

VARIABLES
  data, write_pos,
  sem_full, sem_empty, sem_mutex,  \* the values of the semaphores
  producer, consumer,              \* where each process is
  producer_running, running,       \* the flag of each process
  polls,                           \* does a consumer look before it reads?
  my_read_pos, idle_count,         \* of each consumer
  msg                              \* the last message each consumer read

shared == <<data, write_pos, sem_full, sem_empty, sem_mutex>>
consumerState == <<consumer, running, polls, my_read_pos, idle_count, msg>>
vars == <<data, write_pos, sem_full, sem_empty, sem_mutex, producer, consumer,
          producer_running, running, polls, my_read_pos, idle_count, msg>>

(* The buffer is zeroed and the semaphores have their initial values.      *)
Init ==
  /\ data = [i \in 0 .. MAX_MESSAGES - 1 |-> Blank]
  /\ write_pos = 0
  /\ sem_full = 0
  /\ sem_empty = MAX_MESSAGES
  /\ sem_mutex = 1
  /\ producer = "loop"
  /\ producer_running = TRUE
  /\ consumer = [c \in Readers |-> "off"]
  /\ running = [c \in Readers |-> TRUE]
  /\ polls \in [Readers -> BOOLEAN]
  /\ my_read_pos = [c \in Readers |-> 0]
  /\ idle_count = [c \in Readers |-> 0]
  /\ msg = [c \in Readers |-> Blank]

SlotOf(pos) == pos % MAX_MESSAGES

-----------------------------------------------------------------------------
(* The producer: main of producer.c and buffer_write.                      *)

(* One message per round, while there are messages and no signal came.     *)
ProducerLoop ==
  /\ producer = "loop"
  /\ producer' = IF write_pos < num_messages /\ producer_running
                   THEN "empty" ELSE "linger"
  /\ UNCHANGED <<shared, producer_running, consumerState>>

WaitEmpty ==
  /\ producer = "empty"
  /\ sem_empty > 0
  /\ sem_empty' = sem_empty - 1
  /\ producer' = "mutex"
  /\ UNCHANGED <<data, write_pos, sem_full, sem_mutex, producer_running,
                 consumerState>>

(* sem_wait is interrupted by a signal: buffer_write returns -1, and the   *)
(* producer's loop ends.                                                   *)
WaitEmptyInterrupted ==
  /\ producer = "empty"
  /\ ~producer_running
  /\ producer' = "linger"
  /\ UNCHANGED <<shared, producer_running, consumerState>>

WaitMutex ==
  /\ producer = "mutex"
  /\ sem_mutex > 0
  /\ sem_mutex' = sem_mutex - 1
  /\ producer' = "copy"
  /\ UNCHANGED <<data, write_pos, sem_full, sem_empty, producer_running,
                 consumerState>>

(* Slip: an interrupted write keeps the slot that it took.                 *)
InterruptedKeepsSlot ==
  /\ producer = "mutex"
  /\ ~producer_running
  /\ producer' = "linger"
  /\ UNCHANGED <<shared, producer_running, consumerState>>

(* The slot that was taken is given back.                                  *)
WaitMutexInterrupted ==
  /\ producer = "mutex"
  /\ ~producer_running
  /\ sem_empty' = sem_empty + 1
  /\ producer' = "linger"
  /\ UNCHANGED <<data, write_pos, sem_full, sem_mutex, producer_running,
                 consumerState>>

CopyBegins ==
  /\ producer = "copy"
  /\ data' = [data EXCEPT ![SlotOf(write_pos)] = Torn]
  /\ producer' = "advance"
  /\ UNCHANGED <<write_pos, sem_full, sem_empty, sem_mutex, producer_running,
                 consumerState>>

CopyEnds ==
  /\ producer = "advance"
  /\ data' = [data EXCEPT ![SlotOf(write_pos)] = write_pos]
  /\ write_pos' = write_pos + 1
  /\ producer' = "post_mutex"
  /\ UNCHANGED <<sem_full, sem_empty, sem_mutex, producer_running,
                 consumerState>>

PostMutex ==
  /\ producer = "post_mutex"
  /\ sem_mutex' = sem_mutex + 1
  /\ producer' = "post_full"
  /\ UNCHANGED <<data, write_pos, sem_full, sem_empty, producer_running,
                 consumerState>>

(* Slip: readers are not told.                                             *)
SkipPostFull ==
  /\ producer = "post_full"
  /\ producer' = "loop"
  /\ UNCHANGED <<shared, producer_running, consumerState>>

PostFull ==
  /\ producer = "post_full"
  /\ sem_full' = sem_full + 1
  /\ producer' = "loop"
  /\ UNCHANGED <<data, write_pos, sem_empty, sem_mutex, producer_running,
                 consumerState>>

(* After the last message the producer sleeps until a signal comes, then   *)
(* unmaps and unlinks the buffer.                                          *)
ProducerLeaves ==
  /\ producer = "linger"
  /\ ~producer_running
  /\ producer' = "gone"
  /\ UNCHANGED <<shared, producer_running, consumerState>>

-----------------------------------------------------------------------------
(* A consumer: main of consumer.c and buffer_read.                         *)

(* buffer_open has succeeded.  A consumer may come at any time, and starts *)
(* with message 0.                                                         *)
Attach(c) ==
  /\ consumer[c] = "off"
  /\ producer # "gone"
  /\ consumer' = [consumer EXCEPT ![c] = "loop"]
  /\ UNCHANGED <<shared, producer, producer_running, running, polls,
                 my_read_pos, idle_count, msg>>

(* Slip: a consumer looks one message too far.                             *)
MayBeThere(c) == my_read_pos[c] <= write_pos

Available(c) == my_read_pos[c] < write_pos

GivesUp(c) == ~running[c] \/ idle_count[c] >= MAX_IDLE

Idle(c) ==
  /\ consumer[c] = "loop"
  /\ ~GivesUp(c)
  /\ polls[c]
  /\ ~Available(c)
  /\ idle_count' = [idle_count EXCEPT ![c] = @ + 1]
  /\ UNCHANGED <<shared, producer, producer_running, consumer, running,
                 polls, my_read_pos, msg>>

ReadCall(c) ==
  /\ consumer[c] = "loop"
  /\ ~GivesUp(c)
  /\ polls[c] => Available(c)
  /\ idle_count' = [idle_count EXCEPT ![c] = 0]
  /\ consumer' = [consumer EXCEPT ![c] = "read"]
  /\ UNCHANGED <<shared, producer, producer_running, running, polls,
                 my_read_pos, msg>>

(* buffer_read compares the positions and waits for sem_full if they meet. *)
CheckPosition(c) ==
  /\ consumer[c] = "read"
  /\ consumer' = [consumer EXCEPT ![c] = IF Available(c) THEN "copy"
                                         ELSE "full"]
  /\ UNCHANGED <<shared, producer, producer_running, running, polls,
                 my_read_pos, idle_count, msg>>

WaitFull(c) ==
  /\ consumer[c] = "full"
  /\ sem_full > 0
  /\ sem_full' = sem_full - 1
  /\ consumer' = [consumer EXCEPT ![c] = "copy"]
  /\ UNCHANGED <<data, write_pos, sem_empty, sem_mutex, producer,
                 producer_running, running, polls, my_read_pos, idle_count,
                 msg>>

(* sem_wait is interrupted by a signal: buffer_read returns -1.            *)
WaitFullInterrupted(c) ==
  /\ consumer[c] = "full"
  /\ ~running[c]
  /\ consumer' = [consumer EXCEPT ![c] = "loop"]
  /\ UNCHANGED <<shared, producer, producer_running, running, polls,
                 my_read_pos, idle_count, msg>>

CopyOut(c) ==
  /\ consumer[c] = "copy"
  /\ msg' = [msg EXCEPT ![c] = data[SlotOf(my_read_pos[c])]]
  /\ my_read_pos' = [my_read_pos EXCEPT ![c] = @ + 1]
  /\ consumer' = [consumer EXCEPT ![c] = "post_empty"]
  /\ UNCHANGED <<shared, producer, producer_running, running, polls,
                 idle_count>>

PostEmpty(c) ==
  /\ consumer[c] = "post_empty"
  /\ sem_empty' = sem_empty + 1
  /\ consumer' = [consumer EXCEPT ![c] = "loop"]
  /\ UNCHANGED <<data, write_pos, sem_full, sem_mutex, producer,
                 producer_running, running, polls, my_read_pos, idle_count,
                 msg>>

(* A signal or MAX_IDLE idle polls in a row: the consumer leaves.          *)
Leave(c) ==
  /\ consumer[c] = "loop"
  /\ GivesUp(c)
  /\ consumer' = [consumer EXCEPT ![c] = "gone"]
  /\ UNCHANGED <<shared, producer, producer_running, running, polls,
                 my_read_pos, idle_count, msg>>

-----------------------------------------------------------------------------
(* signal_handler of the two programs.                                     *)
SignalProducer ==
  /\ producer # "gone"
  /\ producer_running
  /\ producer_running' = FALSE
  /\ UNCHANGED <<shared, producer, consumerState>>

SignalConsumer(c) ==
  /\ consumer[c] \notin {"off", "gone"}
  /\ running[c]
  /\ running' = [running EXCEPT ![c] = FALSE]
  /\ UNCHANGED <<shared, producer, producer_running, consumer, polls,
                 my_read_pos, idle_count, msg>>

ProducerStep ==
  \/ ProducerLoop \/ WaitEmpty \/ WaitMutex \/ CopyBegins \/ CopyEnds
  \/ PostMutex \/ PostFull \/ ProducerLeaves

ConsumerStep(c) ==
  \/ Idle(c) \/ ReadCall(c) \/ CheckPosition(c) \/ WaitFull(c)
  \/ CopyOut(c) \/ PostEmpty(c) \/ Leave(c)

Next ==
  \/ ProducerStep
  \/ WaitEmptyInterrupted \/ WaitMutexInterrupted \/ SignalProducer
  \/ \E c \in Readers :
       \/ Attach(c) \/ ConsumerStep(c)
       \/ WaitFullInterrupted(c) \/ SignalConsumer(c)

Spec == Init /\ [][Next]_vars

(* The scheduler runs every program that can run.  No consumer need come,  *)
(* and a signal that came before sem_wait was called does not interrupt    *)
(* it, so nothing is assumed of the interrupted calls.                     *)
Fairness ==
  /\ WF_vars(ProducerStep)
  /\ \A c \in Readers : WF_vars(ConsumerStep(c))

-----------------------------------------------------------------------------
(* Types of SharedBuffer and of the processes' locals; the semaphore that  *)
(* serves as a mutex is 0 or 1.                                            *)
TypeOK ==
  /\ data \in [0 .. MAX_MESSAGES - 1 -> Nat \cup {Torn, Blank}]
  /\ write_pos \in 0 .. num_messages
  /\ sem_full \in Nat
  /\ sem_empty \in Nat
  /\ sem_mutex \in 0 .. 1
  /\ producer \in {"loop", "empty", "mutex", "copy", "advance", "post_mutex",
                   "post_full", "linger", "gone"}
  /\ producer_running \in BOOLEAN
  /\ consumer \in [Readers -> {"off", "loop", "read", "full", "copy",
                                 "post_empty", "gone"}]
  /\ running \in [Readers -> BOOLEAN]
  /\ polls \in [Readers -> BOOLEAN]
  /\ my_read_pos \in [Readers -> Nat]
  /\ idle_count \in [Readers -> 0 .. MAX_IDLE]
  /\ msg \in [Readers -> Nat \cup {Torn, Blank}]

(* A consumer other than c has read a message.                             *)
OthersRead(c) == \E d \in Readers \ {c} : my_read_pos[d] > 0

(* What consumer.c reads at position n is message n, whole, as long as no  *)
(* other consumer reads: no message is skipped, repeated, overwritten      *)
(* before it is read, or read half-written.  With others, who give back    *)
(* the slots too, it may read in its place a later message or one that is  *)
(* being written, but never an older one or an empty slot.                 *)
ReadsInOrder ==
  \A c \in Readers :
    polls[c] /\ my_read_pos[c] > 0 =>
      \/ msg[c] = my_read_pos[c] - 1
      \/ /\ OthersRead(c)
         /\ msg[c] = Torn \/ msg[c] \in my_read_pos[c] .. write_pos - 1

(* sem_empty is the number of free slots, whatever signals interrupt, for  *)
(* a consumer that polls and is the only one that has read: free slots,    *)
(* the slot taken by a write under way, messages not yet read and the slot *)
(* read but not yet given back add up to the whole ring.                   *)
SlotsAddUp ==
  \A c \in Readers :
    polls[c] /\ ~OthersRead(c) =>
      /\ my_read_pos[c] <= write_pos
      /\ sem_empty
           + (IF producer \in {"mutex", "copy", "advance"} THEN 1 ELSE 0)
           + (write_pos - my_read_pos[c])
           + (IF consumer[c] = "post_empty" THEN 1 ELSE 0) = MAX_MESSAGES

(* Another consumer relies on buffer_read to block and takes from sem_full *)
(* what a blocked c waits for: one post per message wakes only one.        *)
Rival(c) == \E d \in Readers \ {c} : consumer[d] # "off" /\ ~polls[d]

(* Nobody is left waiting for what is there, whichever consumers come and  *)
(* leave, except a consumer that blocks in buffer_read and has a rival.  A *)
(* producer that waits for a free slot gets one, unless a consumer has     *)
(* left with a ring full of messages unread; a consumer blocked in         *)
(* buffer_read goes on when a message is there that it has not read.       *)
NobodyLeftWaiting ==
  \A c \in Readers :
    /\ producer = "empty" /\ consumer[c] # "off" ~>
         \/ producer # "empty"
         \/ consumer[c] = "gone" /\ write_pos - my_read_pos[c] >= MAX_MESSAGES
         \/ ~polls[c] /\ Rival(c)
    /\ consumer[c] = "full" /\ Available(c) ~>
         consumer[c] # "full" \/ Rival(c)

(* shared_buffer.h: one producer writes, N consumers read from the same    *)
(* buffer; shared_buffer.c: several readers consume the same messages      *)
(* independently.  Every consumer.c reads message n at position n.         *)
EveryReaderReadsAll ==
  \A c \in Readers :
    polls[c] /\ my_read_pos[c] > 0 => msg[c] = my_read_pos[c] - 1

=============================================================================
