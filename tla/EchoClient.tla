------------------------------ MODULE EchoClient ------------------------------
(***************************************************************************)
(* client.c: the benchmark of the threaded server.  main starts a worker   *)
(* for every connection, joins them and reports; a worker sends a message, *)
(* waits for its echo, and so on.  SIGPIPE is not ignored.                 *)
(*                                                                         *)
(* worker   none, connect, write, read, done, unborn                       *)
(* bench    run, report, crashed, killed                                   *)
(***************************************************************************)
EXTENDS EchoNet

CONSTANTS num_messages, message_size

ASSUME ClientAssumption ==
  /\ num_messages \in Nat
  /\ message_size \in 1 .. SOCKBUF   \* 4096 at most, below any kernel's buffers

VARIABLES
  bench, worker,
  round,           \* the loop counter of each worker
  total,           \* bytes of the echo read so far
  messages_sent, messages_received, errors

clientVars == <<bench, worker, round, total, messages_sent, messages_received,
                errors>>

ClientInit ==
  /\ bench = "run"
  /\ worker = [c \in Conns |-> "none"]
  /\ round = [c \in Conns |-> 0]
  /\ total = [c \in Conns |-> 0]
  /\ messages_sent = 0
  /\ messages_received = 0
  /\ errors = 0

-----------------------------------------------------------------------------
(* benchmark                                                               *)

(* pthread_create, which may fail: then threads[i] stays uninitialised.    *)
SpawnWorker(c) ==
  /\ worker[c] = "none"
  /\ worker' \in {[worker EXCEPT ![c] = "connect"], [worker EXCEPT ![c] = "unborn"]}
  /\ UNCHANGED <<bench, round, total, messages_sent, messages_received, errors,
                 netVars>>

(* All threads are joined.  To join one that was never created is          *)
(* undefined: an error that nobody looks at, or a crash.                   *)
JoinAndReport ==
  /\ bench = "run"
  /\ \A c \in Conns : worker[c] \in {"done", "unborn"}
  /\ \/ bench' = "report"
     \/ \E c \in Conns : worker[c] = "unborn" /\ bench' = "crashed"
  /\ UNCHANGED <<worker, round, total, messages_sent, messages_received, errors,
                 netVars>>

-----------------------------------------------------------------------------
(* client_worker                                                           *)

(* Neither socket nor connect fails.                                       *)
Connect(c) ==
  /\ worker[c] = "connect"
  /\ ClientConnects(c)
  /\ worker' = [worker EXCEPT ![c] = "write"]
  /\ UNCHANGED <<bench, round, total, messages_sent, messages_received, errors>>

ConnectFails(c) ==
  /\ worker[c] = "connect"
  /\ worker' = [worker EXCEPT ![c] = "done"]
  /\ errors' = errors + 1
  /\ UNCHANGED <<bench, round, total, messages_sent, messages_received, netVars>>

WriteMessage(c) ==
  /\ worker[c] = "write"
  /\ round[c] < num_messages
  /\ ClientWrites(c, message_size)
  /\ messages_sent' = messages_sent + 1
  /\ total' = [total EXCEPT ![c] = 0]
  /\ worker' = [worker EXCEPT ![c] = "read"]
  /\ UNCHANGED <<bench, round, messages_received, errors>>

(* The write is incomplete: the worker gives up.                           *)
WriteFails(c) ==
  /\ worker[c] = "write"
  /\ round[c] < num_messages
  /\ errors' = errors + 1
  /\ CloseClientEnds({c})
  /\ worker' = [worker EXCEPT ![c] = "done"]
  /\ UNCHANGED <<bench, round, total, messages_sent, messages_received>>

(* A write to a connection that was reset kills the process: all workers.  *)
ClientSigpipe(c) ==
  /\ worker[c] = "write"
  /\ round[c] < num_messages
  /\ c \in reset
  /\ bench' = "killed"
  /\ CloseClientEnds({d \in Conns : client_end[d] = "open"})
  /\ UNCHANGED <<worker, round, total, messages_sent, messages_received, errors>>

ReadEcho(c) ==
  /\ worker[c] = "read"
  /\ \E n \in 1 .. Smaller(Len(down[c]), message_size - total[c]) :
       /\ ClientReads(c, n)
       /\ total' = [total EXCEPT ![c] = @ + n]
  /\ IF total'[c] = message_size
     THEN /\ messages_received' = messages_received + 1
          /\ round' = [round EXCEPT ![c] = @ + 1]
          /\ worker' = [worker EXCEPT ![c] = "write"]
     ELSE UNCHANGED <<messages_received, round, worker>>
  /\ UNCHANGED <<bench, messages_sent, errors>>

(* Slip: the end of the connection is not counted as an error.             *)
ReadFailsSilently(c) ==
  /\ worker[c] = "read"
  /\ EndOfEcho(c)
  /\ round' = [round EXCEPT ![c] = @ + 1]
  /\ worker' = [worker EXCEPT ![c] = "write"]
  /\ UNCHANGED <<bench, total, messages_sent, messages_received, errors, netVars>>

(* The read ends or fails: only the inner loop is left, and the next       *)
(* message is sent.                                                        *)
ReadFails(c) ==
  /\ worker[c] = "read"
  /\ EndOfEcho(c)
  /\ errors' = errors + 1
  /\ round' = [round EXCEPT ![c] = @ + 1]
  /\ worker' = [worker EXCEPT ![c] = "write"]
  /\ UNCHANGED <<bench, total, messages_sent, messages_received, netVars>>

HangUp(c) ==
  /\ worker[c] = "write"
  /\ round[c] = num_messages
  /\ CloseClientEnds({c})
  /\ worker' = [worker EXCEPT ![c] = "done"]
  /\ UNCHANGED <<bench, round, total, messages_sent, messages_received, errors>>

WorkerStep(c) ==
  /\ bench = "run"
  /\ \/ SpawnWorker(c)
     \/ Connect(c)
     \/ ConnectFails(c)
     \/ WriteMessage(c)
     \/ WriteFails(c)
     \/ ClientSigpipe(c)
     \/ ReadEcho(c)
     \/ ReadFails(c)
     \/ HangUp(c)

=============================================================================
