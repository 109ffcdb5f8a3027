---------------------------- MODULE ThreadedServer ----------------------------
(***************************************************************************)
(* server_threaded.c: main accepts, a detached thread per connection       *)
(* echoes.  A critical section of client_count_lock is one step.           *)
(*                                                                         *)
(* main     loop, accept, count (a thread was created and is not counted   *)
(*          yet), close, sleep, exit, killed                               *)
(* handler  none, test (of `running'), read, write, close, leave (closed,  *)
(*          still counted), done                                           *)
(***************************************************************************)
EXTENDS EchoNet

VARIABLES
  t_running, t_active_clients, main, handler,
  chunk          \* what each handler has read and not yet written

threadVars == <<t_running, t_active_clients, main, handler, chunk>>

ThreadsInit ==
  /\ t_running = TRUE
  /\ t_active_clients = 0
  /\ main = "loop"
  /\ handler = [c \in Conns |-> "none"]
  /\ chunk = [c \in Conns |-> << >>]

ServerAlive == main \notin {"exit", "killed"}

-----------------------------------------------------------------------------
(* main                                                                    *)

LoopTest ==
  /\ main = "loop"
  /\ main' = IF t_running THEN "accept" ELSE "close"
  /\ UNCHANGED <<t_running, t_active_clients, handler, chunk, netVars>>

AcceptAndSpawn(c) ==
  /\ main = "accept"
  /\ c \in Backlog
  /\ AcceptConn(c)
  /\ handler' = [handler EXCEPT ![c] = "test"]
  /\ main' = "count"
  /\ UNCHANGED <<t_running, t_active_clients, chunk>>

(* pthread_create fails: the connection is closed.                         *)
SpawnFails(c) ==
  /\ main = "accept"
  /\ c \in Backlog
  /\ CloseServerEnds({c})
  /\ main' = "loop"
  /\ UNCHANGED <<listening, t_running, t_active_clients, handler, chunk>>

(* accept fails, or a signal interrupts it.                                *)
AcceptFails ==
  /\ main = "accept"
  /\ main' = "loop"
  /\ UNCHANGED <<t_running, t_active_clients, handler, chunk, netVars>>

(* Slip: a client that has left already is not counted.                    *)
CountUnlessDone ==
  /\ main = "count"
  /\ t_active_clients' = t_active_clients +
       (IF \E c \in Conns : handler[c] = "test" THEN 1 ELSE 0)
  /\ main' = "loop"
  /\ UNCHANGED <<t_running, handler, chunk, netVars>>

CountIn ==
  /\ main = "count"
  /\ t_active_clients' = t_active_clients + 1
  /\ main' = "loop"
  /\ UNCHANGED <<t_running, handler, chunk, netVars>>

CloseListener ==
  /\ main = "close"
  /\ CloseServerEnds(Backlog)
  /\ listening' = FALSE
  /\ main' = "sleep"
  /\ UNCHANGED <<t_running, t_active_clients, handler, chunk>>

(* The process ends, and every thread and connection with it.              *)
ServerStops(how) ==
  /\ CloseServerEnds(Accepted \cup Backlog)
  /\ listening' = FALSE
  /\ main' = how
  /\ UNCHANGED <<t_running, t_active_clients, handler, chunk>>

(* The second is over: the count is printed and main returns.              *)
ServerExits == main = "sleep" /\ ServerStops("exit")

-----------------------------------------------------------------------------
(* handle_client                                                           *)

HandlerTest(c) ==
  /\ handler[c] = "test"
  /\ handler' = [handler EXCEPT ![c] = IF t_running THEN "read" ELSE "close"]
  /\ UNCHANGED <<t_running, t_active_clients, main, chunk, netVars>>

HandlerReads(c) ==
  /\ handler[c] = "read"
  /\ \E n \in 1 .. Len(up[c]) :
       ServerReads(c, n) /\ chunk' = [chunk EXCEPT ![c] = SubSeq(up[c], 1, n)]
  /\ handler' = [handler EXCEPT ![c] = "write"]
  /\ UNCHANGED <<t_running, t_active_clients, main>>

(* The end of the input, an error, or a signal.                            *)
HandlerReadsNothing(c) ==
  /\ handler[c] = "read"
  /\ EndOfInput(c) \/ ~t_running
  /\ handler' = [handler EXCEPT ![c] = "close"]
  /\ UNCHANGED <<t_running, t_active_clients, main, chunk, netVars>>

(* Slip: a partial write is taken for a complete one.                      *)
WrittenOnce(c, n) == << >>

(* What the inner loop still has to write.                                 *)
Unechoed(c, n) == Rest(chunk[c], n)

HandlerWrites(c) ==
  /\ handler[c] = "write"
  /\ \E n \in 1 .. Len(chunk[c]) :
       /\ ServerWrites(c, SubSeq(chunk[c], 1, n))
       /\ chunk' = [chunk EXCEPT ![c] = Unechoed(c, n)]
       /\ handler' = [handler EXCEPT ![c] =
                        IF Unechoed(c, n) = << >> THEN "test" ELSE "write"]
  /\ UNCHANGED <<t_running, t_active_clients, main>>

(* A signal interrupts the write, or it fails with ECONNRESET: the rest of *)
(* the chunk is given up.                                                  *)
HandlerGivesUp(c) ==
  /\ handler[c] = "write"
  /\ ~t_running \/ c \in reset
  /\ chunk' = [chunk EXCEPT ![c] = << >>]
  /\ handler' = [handler EXCEPT ![c] = "test"]
  /\ UNCHANGED <<t_running, t_active_clients, main, netVars>>

(* A write to a connection that was reset, and SIGPIPE, which is not       *)
(* ignored: it ends the whole server.                                      *)
ServerSigpipe(c) ==
  /\ handler[c] = "write"
  /\ c \in reset
  /\ ServerStops("killed")

HandlerCloses(c) ==
  /\ handler[c] = "close"
  /\ CloseServerEnds({c})
  /\ handler' = [handler EXCEPT ![c] = "leave"]
  /\ UNCHANGED <<listening, t_running, t_active_clients, main, chunk>>

CountOut(c) ==
  /\ handler[c] = "leave"
  /\ t_active_clients' = t_active_clients - 1
  /\ handler' = [handler EXCEPT ![c] = "done"]
  /\ UNCHANGED <<t_running, main, chunk, netVars>>

ServerSignal ==
  /\ ServerAlive
  /\ t_running
  /\ t_running' = FALSE
  /\ UNCHANGED <<t_active_clients, main, handler, chunk, netVars>>

MainStep ==
  \/ LoopTest
  \/ \E c \in Conns : AcceptAndSpawn(c)
  \/ \E c \in Conns : SpawnFails(c)
  \/ AcceptFails
  \/ CountIn
  \/ CloseListener
  \/ ServerExits

HandlerStep(c) ==
  /\ ServerAlive
  /\ \/ HandlerTest(c)
     \/ HandlerReads(c)
     \/ HandlerReadsNothing(c)
     \/ HandlerWrites(c)
     \/ HandlerGivesUp(c)
     \/ ServerSigpipe(c)
     \/ HandlerCloses(c)
     \/ CountOut(c)

=============================================================================
