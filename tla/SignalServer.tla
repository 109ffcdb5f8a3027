---------------------------- MODULE SignalServer ----------------------------
(***************************************************************************)
(* 01_processes/signal_handlers: a TCP echo server that drains its clients *)
(* when SIGINT or SIGTERM arrives (signal_server.c), and the clients that  *)
(* talk to it (client.c).                                                  *)
(*                                                                         *)
(* The main thread accepts; each connection is served by a detached thread *)
(* that counts itself in and out.  The counter, the shutdown flag and the  *)
(* condition variable are only touched under the mutex, so a critical      *)
(* section is one step.  A signal is delivered to any thread that does not *)
(* block it.  SA_RESTART is not set, so it interrupts an accept or a read  *)
(* that has begun to block; one that comes just before does not.           *)
(*                                                                         *)
(* main   loop   about to test server_running   accept  in accept()       *)
(*        flag   out of the loop                 drain   tests the counter *)
(*        wait   in pthread_cond_wait            cleanup, exit             *)
(* conn   none, backlog, started (thread created, not yet counted),        *)
(*        serving (in the read loop), closing, closed (not yet counted     *)
(*        out), done, dropped (closed by the server without a thread)      *)
(* peer   away, sending, reading, gone                                     *)
(***************************************************************************)
EXTENDS Integers, FiniteSets, CondVar

CONSTANTS
  Conns,               \* one connection, handler thread and client each
  Main,
  MESSAGES,            \* messages per client, 5 in client.c
  MaxSignals,          \* bound: signals in a behaviour
  MaxSpurious          \* bound: spurious wake-ups in a behaviour

ASSUME ServerAssumption ==
  /\ IsFiniteSet(Conns)
  /\ MESSAGES \in Nat
  /\ MaxSignals \in Nat
  /\ MaxSpurious \in Nat

VARIABLES
  server_running, shutdown_requested, active_connections,
  cond_drain,      \* {Main} when main sleeps on it
  listening,       \* the server socket is open
  main, conn,      \* where main and each connection are
  peer,            \* where each client is
  sent, echoed,    \* messages sent by each client, and sent back to it
  signals, spurious,
  cut_off          \* history: connections that the server gives up

mainVars == <<server_running, shutdown_requested, listening, main>>
drainVars == <<active_connections, cond_drain>>
peerVars == <<peer, sent, echoed>>
bounds == <<signals, spurious>>
vars == <<server_running, shutdown_requested, active_connections, cond_drain,
          listening, main, conn, peer, sent, echoed, signals, spurious,
          cut_off>>

(* The socket, the handlers and the flags are set up, the server listens.  *)
Init ==
  /\ server_running = TRUE
  /\ shutdown_requested = FALSE
  /\ active_connections = 0
  /\ cond_drain = {}
  /\ listening = TRUE
  /\ main = "loop"
  /\ conn = [c \in Conns |-> "none"]
  /\ peer = [c \in Conns |-> "away"]
  /\ sent = [c \in Conns |-> 0]
  /\ echoed = [c \in Conns |-> 0]
  /\ signals = 0
  /\ spurious = 0
  /\ cut_off = {}

(* The threads of the process run until main returns.                      *)
Running == main # "exit"

(* The server's end of the connection is closed.                           *)
ServerClosed(c) == conn[c] \in {"closed", "done", "dropped"} \/ ~Running

-----------------------------------------------------------------------------
(* main: the accept loop.                                                  *)

LoopTest ==
  /\ main = "loop"
  /\ main' = IF server_running THEN "accept" ELSE "flag"
  /\ UNCHANGED <<server_running, shutdown_requested, listening, drainVars,
                 conn, peerVars, bounds, cut_off>>

Accept(c) ==
  /\ main = "accept"
  /\ conn[c] = "backlog"
  /\ conn' = [conn EXCEPT ![c] = "started"]
  /\ main' = "loop"
  /\ UNCHANGED <<server_running, shutdown_requested, listening, drainVars,
                 peerVars, bounds, cut_off>>

(* Slip: pthread_create fails and the connection is left open.             *)
SpawnFailsAndLeaks(c) ==
  /\ main = "accept"
  /\ conn[c] = "backlog"
  /\ conn' = [conn EXCEPT ![c] = "none"]
  /\ main' = "loop"
  /\ UNCHANGED <<server_running, shutdown_requested, listening, drainVars,
                 peerVars, bounds, cut_off>>

(* pthread_create fails: the connection is closed, the loop goes on.       *)
SpawnFails(c) ==
  /\ main = "accept"
  /\ conn[c] = "backlog"
  /\ conn' = [conn EXCEPT ![c] = "dropped"]
  /\ cut_off' = cut_off \cup {c}
  /\ main' = "loop"
  /\ UNCHANGED <<server_running, shutdown_requested, listening, drainVars,
                 peerVars, bounds>>

(* Nobody connected for a second: EAGAIN.                                  *)
AcceptTimeout ==
  /\ main = "accept"
  /\ \A c \in Conns : conn[c] # "backlog"
  /\ main' = "loop"
  /\ UNCHANGED <<server_running, shutdown_requested, listening, drainVars,
                 conn, peerVars, bounds, cut_off>>

(* Any other error of accept: the server shuts down.                       *)
AcceptError ==
  /\ main = "accept"
  /\ main' = "flag"
  /\ UNCHANGED <<server_running, shutdown_requested, listening, drainVars,
                 conn, peerVars, bounds, cut_off>>

-----------------------------------------------------------------------------
(* main: the shutdown phase.                                               *)

(* The flag is set and the socket closed; the backlog is reset.            *)
BeginShutdown ==
  /\ main = "flag"
  /\ shutdown_requested' = TRUE
  /\ listening' = FALSE
  /\ conn' = [c \in Conns |->
                IF conn[c] = "backlog" THEN "dropped" ELSE conn[c]]
  /\ cut_off' = cut_off \cup {c \in Conns : conn[c] = "backlog"}
  /\ main' = "drain"
  /\ UNCHANGED <<server_running, drainVars, peerVars, bounds>>

(* Slip: one connection is left alone.                                     *)
AllButOneDone == active_connections > 1

StillActive == active_connections > 0

DrainWaits ==
  /\ main \in {"drain", "wait"}
  /\ cond_drain = {}
  /\ StillActive
  /\ cond_drain' = {Main}
  /\ main' = "wait"
  /\ UNCHANGED <<server_running, shutdown_requested, listening,
                 active_connections, conn, peerVars, bounds, cut_off>>

(* A connection whose thread has not counted itself in is not waited for.  *)
Drained ==
  /\ main \in {"drain", "wait"}
  /\ cond_drain = {}
  /\ ~StillActive
  /\ main' = "cleanup"
  /\ cut_off' = cut_off \cup {c \in Conns : conn[c] = "started"}
  /\ UNCHANGED <<server_running, shutdown_requested, listening, drainVars,
                 conn, peerVars, bounds>>

(* The mutex and the condition variable are destroyed and main returns:    *)
(* the process ends, and with it every thread that is left.                *)
CleanupAndExit ==
  /\ main = "cleanup"
  /\ main' = "exit"
  /\ UNCHANGED <<server_running, shutdown_requested, listening, drainVars,
                 conn, peerVars, bounds, cut_off>>

SpuriousWakeup ==
  /\ cond_drain # {}
  /\ spurious < MaxSpurious
  /\ spurious' = spurious + 1
  /\ cond_drain' = {}
  /\ UNCHANGED <<mainVars, active_connections, conn, peerVars, signals,
                 cut_off>>

-----------------------------------------------------------------------------
(* handle_client                                                           *)

increment_connections(c) ==
  /\ Running
  /\ conn[c] = "started"
  /\ active_connections' = active_connections + 1
  /\ conn' = [conn EXCEPT ![c] = "serving"]
  /\ UNCHANGED <<mainVars, cond_drain, peerVars, bounds, cut_off>>

(* read returns a message, write sends it back.                            *)
Echo(c) ==
  /\ Running
  /\ conn[c] = "serving"
  /\ echoed[c] < sent[c]
  /\ echoed' = [echoed EXCEPT ![c] = sent[c]]
  /\ UNCHANGED <<mainVars, drainVars, conn, peer, sent, bounds, cut_off>>

(* Slip: one message is echoed, not all of them.                           *)
EndsAfterOneMessage(c) ==
  /\ Running
  /\ conn[c] = "serving"
  /\ echoed[c] = sent[c]
  /\ peer[c] = "gone" \/ echoed[c] > 0
  /\ conn' = [conn EXCEPT ![c] = "closing"]
  /\ UNCHANGED <<mainVars, drainVars, peerVars, bounds, cut_off>>

(* read returns 0: the client has closed its end.                          *)
EndOfFile(c) ==
  /\ Running
  /\ conn[c] = "serving"
  /\ echoed[c] = sent[c]
  /\ peer[c] = "gone"
  /\ conn' = [conn EXCEPT ![c] = "closing"]
  /\ UNCHANGED <<mainVars, drainVars, peerVars, bounds, cut_off>>

CloseClient(c) ==
  /\ Running
  /\ conn[c] = "closing"
  /\ conn' = [conn EXCEPT ![c] = "closed"]
  /\ UNCHANGED <<mainVars, drainVars, peerVars, bounds, cut_off>>

(* Slip: main is not told.                                                 *)
NeverWake(active) == cond_drain' = cond_drain

WakeWhenDrained(active) ==
  cond_drain' \in IF shutdown_requested /\ active = 0
                    THEN AfterSignal(cond_drain)
                    ELSE {cond_drain}

decrement_connections(c) ==
  /\ Running
  /\ conn[c] = "closed"
  /\ active_connections' = active_connections - 1
  /\ WakeWhenDrained(active_connections - 1)
  /\ conn' = [conn EXCEPT ![c] = "done"]
  /\ UNCHANGED <<mainVars, peerVars, bounds, cut_off>>

-----------------------------------------------------------------------------
(* signal_handler sets the flag.  An interrupted accept or read returns    *)
(* EINTR: main leaves its loop, a handler thread ends its connection.      *)

SignalFlag ==
  /\ Running
  /\ signals < MaxSignals
  /\ signals' = signals + 1
  /\ server_running' = FALSE
  /\ UNCHANGED <<shutdown_requested, listening, drainVars, peerVars, spurious>>

SignalMain ==
  /\ SignalFlag
  /\ main' \in IF main = "accept" THEN {"accept", "flag"} ELSE {main}
  /\ UNCHANGED <<conn, cut_off>>

SignalWorker(c) ==
  /\ SignalFlag
  /\ conn[c] \in {"started", "serving", "closing", "closed"}
  /\ UNCHANGED <<main, conn, cut_off>>

InterruptRead(c) ==
  /\ SignalFlag
  /\ conn[c] = "serving"
  /\ echoed[c] = sent[c]
  /\ conn' = [conn EXCEPT ![c] = "closing"]
  /\ cut_off' = cut_off \cup {c}
  /\ UNCHANGED main

-----------------------------------------------------------------------------
(* client.c: connect, send and receive MESSAGES messages, close.           *)

Connect(c) ==
  /\ peer[c] = "away"
  /\ listening
  /\ conn' = [conn EXCEPT ![c] = "backlog"]
  /\ peer' = [peer EXCEPT ![c] = "sending"]
  /\ UNCHANGED <<mainVars, drainVars, sent, echoed, bounds, cut_off>>

ConnectFails(c) ==
  /\ peer[c] = "away"
  /\ ~listening
  /\ peer' = [peer EXCEPT ![c] = "gone"]
  /\ UNCHANGED <<mainVars, drainVars, conn, sent, echoed, bounds, cut_off>>

Send(c) ==
  /\ peer[c] = "sending"
  /\ sent[c] < MESSAGES
  /\ sent' = [sent EXCEPT ![c] = @ + 1]
  /\ peer' = [peer EXCEPT ![c] = "reading"]
  /\ UNCHANGED <<mainVars, drainVars, conn, echoed, bounds, cut_off>>

(* The connection was reset: write fails, the loop ends.                   *)
SendFails(c) ==
  /\ peer[c] = "sending"
  /\ sent[c] < MESSAGES
  /\ ServerClosed(c)
  /\ peer' = [peer EXCEPT ![c] = "gone"]
  /\ UNCHANGED <<mainVars, drainVars, conn, sent, echoed, bounds, cut_off>>

(* The server has closed the connection, and SIGPIPE, which client.c does  *)
(* not ignore, ends the process with all its client threads.               *)
ClientKilled(c) ==
  /\ peer[c] = "sending"
  /\ sent[c] < MESSAGES
  /\ ServerClosed(c)
  /\ peer' = [d \in Conns |-> "gone"]
  /\ UNCHANGED <<mainVars, drainVars, conn, sent, echoed, bounds, cut_off>>

(* read returns the echo, or nothing once the server has closed.           *)
Receive(c) ==
  /\ peer[c] = "reading"
  /\ echoed[c] = sent[c] \/ ServerClosed(c)
  /\ peer' = [peer EXCEPT ![c] = "sending"]
  /\ UNCHANGED <<mainVars, drainVars, conn, sent, echoed, bounds, cut_off>>

HangUp(c) ==
  /\ peer[c] = "sending"
  /\ sent[c] = MESSAGES
  /\ peer' = [peer EXCEPT ![c] = "gone"]
  /\ UNCHANGED <<mainVars, drainVars, conn, sent, echoed, bounds, cut_off>>

-----------------------------------------------------------------------------
MainStep ==
  \/ LoopTest \/ AcceptTimeout \/ AcceptError
  \/ \E c \in Conns : Accept(c) \/ SpawnFails(c)
  \/ BeginShutdown \/ DrainWaits \/ Drained \/ CleanupAndExit

HandlerStep(c) ==
  \/ increment_connections(c) \/ Echo(c) \/ EndOfFile(c)
  \/ CloseClient(c) \/ decrement_connections(c)

PeerStep(c) ==
  Send(c) \/ SendFails(c) \/ ClientKilled(c) \/ Receive(c) \/ HangUp(c)

Ended == ~Running /\ (\A c \in Conns : peer[c] = "gone") /\ UNCHANGED vars

Next ==
  \/ MainStep
  \/ SpuriousWakeup
  \/ SignalMain
  \/ \E c \in Conns :
       \/ HandlerStep(c) \/ SignalWorker(c) \/ InterruptRead(c)
       \/ Connect(c) \/ ConnectFails(c) \/ PeerStep(c)
  \/ Ended

Spec == Init /\ [][Next]_vars

-----------------------------------------------------------------------------
(* Types of ServerState, of the flags and of the connections.              *)
TypeOK ==
  /\ server_running \in BOOLEAN
  /\ shutdown_requested \in BOOLEAN
  /\ active_connections \in 0 .. Cardinality(Conns)
  /\ cond_drain \in SUBSET {Main}
  /\ listening \in BOOLEAN
  /\ main \in {"loop", "accept", "flag", "drain", "wait", "cleanup", "exit"}
  /\ conn \in [Conns -> {"none", "backlog", "started", "serving", "closing",
                         "closed", "done", "dropped"}]
  /\ peer \in [Conns -> {"away", "sending", "reading", "gone"}]
  /\ sent \in [Conns -> 0 .. MESSAGES]
  /\ echoed \in [Conns -> 0 .. MESSAGES]
  /\ signals \in 0 .. MaxSignals
  /\ spurious \in 0 .. MaxSpurious
  /\ cut_off \in SUBSET Conns

(* main never sleeps on cond_drain when no counted connection is left to   *)
(* wake it: decrement_connections signals exactly when it must.            *)
NoSleepWhenDrained == cond_drain # {} => active_connections > 0

Counted(c) == conn[c] \in {"serving", "closing", "closed"}

(* main leaves the drain only when every connection that has been counted  *)
(* in has been closed and counted out.                                     *)
DrainsCounted ==
  [][main # "cleanup" /\ main' = "cleanup" =>
       \A c \in Conns : ~Counted(c)]_vars

(* The server's end of a connection closes only after the client has hung  *)
(* up and has had every message echoed, unless the connection is cut off:  *)
(* its own read was interrupted by a signal, pthread_create failed for it, *)
(* it was in the backlog when the socket was closed, or its thread had not *)
(* counted itself in when main found the counter at 0.  The first and the  *)
(* last are existing clients for which the graceful drain does not wait.   *)
ServedToTheEnd ==
  \A c \in Conns :
    conn[c] # "none" /\ ServerClosed(c) =>
      c \in cut_off \/ (peer[c] = "gone" /\ echoed[c] = sent[c])

(* A signal ends the server, whichever thread takes it.                    *)
SignalEndsServer == ~server_running ~> main = "exit"

(* Every client that connects gets to its end.                             *)
ClientsEnd == \A c \in Conns : peer[c] = "sending" ~> peer[c] = "gone"

=============================================================================
