----------------------------- MODULE EchoServers -----------------------------
(***************************************************************************)
(* The echo servers with their clients: the poll server with any clients,  *)
(* or the threaded server with the benchmark of client.c.  The servers     *)
(* share nothing, so a behaviour has one of them.                          *)
(***************************************************************************)
EXTENDS PollServer, ThreadedServer, EchoClient

vars == <<netVars, pollVars, threadVars, clientVars>>

Init == NetInit /\ PollInit /\ ThreadsInit /\ ClientInit

PollSystem(step) == port = 8889 /\ step /\ UNCHANGED <<threadVars, clientVars>>
ThreadSystem(step) == port = 8888 /\ step /\ UNCHANGED pollVars

PollServerStep == PollSystem(PollStep)
PeerRead(c) == PollSystem(PeerReads(c))
MainThread == ThreadSystem(MainStep /\ UNCHANGED clientVars)
HandlerThread(c) == ThreadSystem(HandlerStep(c) /\ UNCHANGED clientVars)
WorkerThread(c) == ThreadSystem(WorkerStep(c) /\ UNCHANGED threadVars)
BenchMain == ThreadSystem(JoinAndReport /\ UNCHANGED threadVars)

Next ==
  \/ PollServerStep
  \/ PollSystem(PollSignal)
  \/ PollSystem(PollFails)
  \/ \E c \in Conns : PeerRead(c)
  \/ \E c \in Conns : PollSystem(PeerActs(c))
  \/ MainThread
  \/ ThreadSystem(ServerSignal /\ UNCHANGED clientVars)
  \/ \E c \in Conns : HandlerThread(c)
  \/ \E c \in Conns : WorkerThread(c)
  \/ BenchMain

Spec == Init /\ [][Next]_vars

(***************************************************************************)
(* The scheduler runs every thread that can run, and clients read what     *)
(* comes back.  The poll server's clients need not connect, send or hang   *)
(* up, and no signal need arrive.                                          *)
(***************************************************************************)
FairSpec ==
  /\ Spec
  /\ WF_vars(PollServerStep)
  /\ WF_vars(MainThread)
  /\ \A c \in Conns : WF_vars(PeerRead(c))
  /\ \A c \in Conns : WF_vars(HandlerThread(c))
  /\ \A c \in Conns : WF_vars(WorkerThread(c))

-----------------------------------------------------------------------------
(* The bytes of a connection that its server holds.                        *)
Held(c) == IF port = 8889 THEN buffer[c] ELSE chunk[c]

(* A connection whose bytes are still to be echoed.                        *)
Underway(c) ==
  /\ server_end[c] \in {"backlog", "open"}
  /\ c \notin reset
  /\ port = 8888 => t_running

(* No byte is lost, repeated or overtaken on its way through either        *)
(* server, whatever the sizes of reads and writes: what is on the way      *)
(* back, in the server's buffer and on the way there are, in this order,   *)
(* the bytes that the client has sent and not yet got back.  (A signal     *)
(* makes a handler thread give up its chunk.)                              *)
EchoInOrder ==
  \A c \in Conns :
    Underway(c) =>
      down[c] \o Held(c) \o up[c] =
           [i \in 1 .. sent[c] - got[c] |-> got[c] + i]

(* A server closes an accepted connection only when it stops, when the     *)
(* client has shut down or hung up - or, in the poll server, when the      *)
(* buffer is full or the slot is so new that poll has not looked at it.    *)
NoOneCutOff ==
  [][\A c \in Conns :
       (server_end[c] = "open" /\ server_end'[c] = "closed") =>
         \/ client_end[c] \in {"half", "closed"} \/ c \in reset
         \/ port = 8888 /\ (~t_running \/ ~ServerAlive')
         \/ port = 8889 /\ (~PollAlive' \/ c \in fresh \/ Room(c) = 0)]_vars

(* The counters.  The threaded server counts the handlers that have not    *)
(* left, less the one that main has started and not counted yet, so that   *)
(* it can be -1; the poll server counts its slots, and every accepted      *)
(* connection has exactly one.                                             *)
CountsAgree ==
  /\ port = 8888 /\ ServerAlive =>
       t_active_clients = Cardinality({c \in Conns : handler[c] \notin {"none", "done"}})
                          - (IF main = "count" THEN 1 ELSE 0)
  /\ port = 8889 /\ PollAlive =>
       /\ p_active_clients = Cardinality(Live)
       /\ {fds[i] : i \in Live} = Accepted
       /\ Cardinality(Live) = Cardinality(Accepted)

(* The client's report adds up: a message that was sent and not received   *)
(* is counted as an error.                                                 *)
LossesReported == bench = "report" => messages_sent - messages_received <= errors

(* Every byte that reaches a server comes back, unless the connection      *)
(* ends: an echo that did not fit is tried again.                          *)
EchoArrives ==
  \A c \in Conns :
    []<>(got[c] = sent[c] \/ server_end[c] # "open" \/ client_end[c] = "closed"
         \/ c \in reset)

(* A signal ends the poll server.                                          *)
SignalEndsPoll == ~p_running ~> ~PollAlive

=============================================================================
