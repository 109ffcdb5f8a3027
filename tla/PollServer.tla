------------------------------ MODULE PollServer ------------------------------
(***************************************************************************)
(* server_epoll.c: one thread, a poll() loop over non-blocking sockets     *)
(* with a buffer each; and clients that write, read, shut down and hang up *)
(* when they like.                                                         *)
(*                                                                         *)
(* at   test    about to test `running'                                    *)
(*      poll    the test is done: about to call poll, or in it             *)
(*      accept  in the accept loop                                         *)
(*      read, write  at slot `slot' of the client loop                     *)
(*      exit, killed                                                       *)
(***************************************************************************)
EXTENDS EchoNet

CONSTANTS
  NoFd,            \* fd -1: a slot whose connection is closed
  MAX_CLIENTS,     \* slots, the listening socket's included; 10000
  BUFFER_SIZE,     \* 4096 in the code
  BYTES            \* bound: bytes that a client of this server sends

ASSUME PollAssumption ==
  /\ NoFd \notin Conns
  /\ MAX_CLIENTS \in Nat \ {0}
  /\ BUFFER_SIZE \in Nat \ {0}
  /\ BYTES \in Nat

VARIABLES
  p_running, at, slot,
  fds,               \* the connections of slots 1 .. nfds - 1
  revents,           \* of each connection's slot
  buffer,            \* client->buffer, its first buffer_len bytes
  p_active_clients,
  fresh              \* history: connections that no poll has looked at yet

slotVars == <<fds, buffer, p_active_clients>>
pollVars == <<p_running, at, slot, fds, revents, buffer, p_active_clients, fresh>>

PollInit ==
  /\ p_running = TRUE
  /\ at = "test"
  /\ slot = 1
  /\ fds = << >>
  /\ revents = [c \in Conns |-> {}]
  /\ buffer = [c \in Conns |-> << >>]
  /\ p_active_clients = 0
  /\ fresh = {}

Live == {i \in DOMAIN fds : fds[i] # NoFd}
PollAlive == at \notin {"exit", "killed"}

-----------------------------------------------------------------------------
(* The event loop.                                                         *)

(* What poll reports.  POLLHUP comes with a reset and, on some systems,    *)
(* with the end of the client's data: those are in `hups'.                 *)
Ready(c, hups) ==
  (IF up[c] # << >> \/ EndOfInput(c) THEN {"POLLIN"} ELSE {}) \cup
  (IF c \in reset \/ c \in hups THEN {"POLLHUP"} ELSE {})

TestRunning ==
  /\ at = "test"
  /\ p_running
  /\ at' = "poll"
  /\ UNCHANGED <<p_running, slot, revents, slotVars, fresh, netVars>>

(* Slip: no timeout, the loop only goes on when something is ready.        *)
PollWithoutTimeout ==
  /\ at = "poll"
  /\ \E hups \in SUBSET {c \in Conns : client_end[c] \in {"half", "closed"}} :
       revents' = [c \in Conns |-> IF \E i \in Live : fds[i] = c
                                   THEN Ready(c, hups) ELSE {}]
  /\ Backlog # {} \/ \E c \in Conns : revents'[c] # {}
  /\ at' = IF Backlog # {} THEN "accept" ELSE "read"
  /\ slot' = 1
  /\ fresh' = {}
  /\ UNCHANGED <<p_running, slotVars, netVars>>

(* poll returns, with events or after its timeout of a second.             *)
PollReturns ==
  /\ at = "poll"
  /\ \E hups \in SUBSET {c \in Conns : client_end[c] \in {"half", "closed"}} :
       revents' = [c \in Conns |-> IF \E i \in Live : fds[i] = c
                                   THEN Ready(c, hups) ELSE {}]
  /\ at' = IF Backlog # {} THEN "accept" ELSE "read"
  /\ slot' = 1
  /\ fresh' = {}
  /\ UNCHANGED <<p_running, slotVars, netVars>>

(* A new slot.  Its revents are what malloc left there.                    *)
AddSlot(c) ==
  /\ AcceptConn(c)
  /\ fds' = Append(fds, c)
  /\ buffer' = [buffer EXCEPT ![c] = << >>]
  /\ p_active_clients' = p_active_clients + 1
  /\ fresh' = fresh \cup {c}
  /\ \E r \in SUBSET {"POLLIN", "POLLHUP"} : revents' = [revents EXCEPT ![c] = r]

(* A connection from the backlog gets a slot, or is closed: the slots are  *)
(* used up, or it cannot be made non-blocking.                             *)
AcceptOne(c) ==
  /\ at = "accept"
  /\ c \in Backlog
  /\ \/ Len(fds) + 1 < MAX_CLIENTS /\ AddSlot(c)
     \/ CloseServerEnds({c}) /\ UNCHANGED <<listening, slotVars, revents, fresh>>
  /\ UNCHANGED <<p_running, at, slot>>

(* accept has no connection, or fails.                                     *)
AcceptEnds ==
  /\ at = "accept"
  /\ at' = "read"
  /\ UNCHANGED <<p_running, slot, revents, slotVars, fresh, netVars>>

-----------------------------------------------------------------------------
(* The client loop.                                                        *)

NextSlot == at' = "read" /\ slot' = slot + 1

DropClient(c) ==
  /\ CloseServerEnds({c})
  /\ fds' = [fds EXCEPT ![slot] = NoFd]
  /\ buffer' = [buffer EXCEPT ![c] = << >>]
  /\ p_active_clients' = p_active_clients - 1
  /\ NextSlot
  /\ UNCHANGED <<p_running, revents, fresh, listening>>

Room(c) == BUFFER_SIZE - Len(buffer[c])

SkipSlot ==
  /\ at = "read"
  /\ slot \in DOMAIN fds \ Live
  /\ NextSlot
  /\ UNCHANGED <<p_running, revents, slotVars, fresh, netVars>>

(* Some bytes, as many as there are and fit, are read into the buffer.     *)
ReadSome(c) ==
  /\ at = "read"
  /\ slot \in Live /\ fds[slot] = c
  /\ "POLLIN" \in revents[c]
  /\ \E n \in 1 .. Smaller(Len(up[c]), Room(c)) :
       /\ ServerReads(c, n)
       /\ buffer' = [buffer EXCEPT ![c] = @ \o SubSeq(up[c], 1, n)]
  /\ at' = "write"
  /\ UNCHANGED <<p_running, slot, fds, revents, p_active_clients, fresh>>

(* The read returns 0 or fails: the end of the input, nothing there after  *)
(* all, or no room in the buffer.                                          *)
ReadNothing(c) ==
  /\ at = "read"
  /\ slot \in Live /\ fds[slot] = c
  /\ "POLLIN" \in revents[c]
  /\ up[c] = << >> \/ Room(c) = 0
  /\ DropClient(c)

NothingToRead(c) ==
  /\ at = "read"
  /\ slot \in Live /\ fds[slot] = c
  /\ "POLLIN" \notin revents[c]
  /\ at' = "write"
  /\ UNCHANGED <<p_running, slot, revents, slotVars, fresh, netVars>>

HungUp(c) ==
  /\ at = "write"
  /\ fds[slot] = c
  /\ "POLLHUP" \in revents[c]
  /\ DropClient(c)

(* Slip: the rest is not moved to the front of the buffer.                 *)
KeepsFront(c, n) == SubSeq(buffer[c], 1, Len(buffer[c]) - n)

(* What is left in the buffer after a write of n bytes.                    *)
Unwritten(c, n) == Rest(buffer[c], n)

(* The buffer, or a part of it, is echoed.                                 *)
EchoSome(c) ==
  /\ at = "write"
  /\ fds[slot] = c
  /\ "POLLHUP" \notin revents[c]
  /\ \E n \in 1 .. Len(buffer[c]) :
       /\ ServerWrites(c, SubSeq(buffer[c], 1, n))
       /\ buffer' = [buffer EXCEPT ![c] = Unwritten(c, n)]
  /\ NextSlot
  /\ UNCHANGED <<p_running, fds, revents, p_active_clients, fresh>>

(* Slip: a write that has to wait is taken for an error.                   *)
DropOnEagain(c) ==
  /\ at = "write"
  /\ fds[slot] = c
  /\ "POLLHUP" \notin revents[c]
  /\ \/ /\ buffer[c] = << >>
        /\ NextSlot
        /\ UNCHANGED <<p_running, revents, slotVars, fresh, netVars>>
     \/ /\ buffer[c] # << >> /\ c \notin reset
        /\ client_end[c] # "closed" /\ Len(down[c]) = SOCKBUF
        /\ DropClient(c)

(* Nothing to echo, or the write fails, because the connection was reset   *)
(* (ECONNRESET) or because there is no room (EAGAIN).                      *)
EchoNothing(c) ==
  /\ at = "write"
  /\ fds[slot] = c
  /\ "POLLHUP" \notin revents[c]
  /\ \/ buffer[c] = << >>
     \/ c \in reset
     \/ client_end[c] # "closed" /\ Len(down[c]) = SOCKBUF
  /\ NextSlot
  /\ UNCHANGED <<p_running, revents, slotVars, fresh, netVars>>

(* The process ends, and closes everything.                                *)
PollStops(how) ==
  /\ CloseServerEnds(Accepted \cup Backlog)
  /\ listening' = FALSE
  /\ at' = how
  /\ UNCHANGED <<p_running, slot, revents, slotVars, fresh>>

(* A write to a connection that was reset after the poll: SIGPIPE, which   *)
(* is not ignored.                                                         *)
PollSigpipe(c) ==
  /\ at = "write"
  /\ fds[slot] = c
  /\ "POLLHUP" \notin revents[c]
  /\ buffer[c] # << >>
  /\ c \in reset
  /\ PollStops("killed")

RoundEnds ==
  /\ at = "read"
  /\ slot = Len(fds) + 1
  /\ at' = "test"
  /\ UNCHANGED <<p_running, slot, revents, slotVars, fresh, netVars>>

(* The loop is over.                                                       *)
Cleanup ==
  /\ at = "test"
  /\ ~p_running
  /\ PollStops("exit")

(* poll fails, for another reason than a signal.                           *)
PollFails ==
  /\ at = "poll"
  /\ PollStops("exit")

(* SIGINT.  It interrupts poll (EINTR) if it comes during the call; when   *)
(* it comes between the test and the call, only the timeout ends the call. *)
PollSignal ==
  /\ PollAlive
  /\ p_running
  /\ p_running' = FALSE
  /\ at' = at \/ (at = "poll" /\ at' = "test")
  /\ UNCHANGED <<slot, revents, slotVars, fresh, netVars>>

PollStep ==
  \/ TestRunning
  \/ PollReturns
  \/ \E c \in Conns : AcceptOne(c)
  \/ AcceptEnds
  \/ SkipSlot
  \/ \E c \in Conns : ReadSome(c)
  \/ \E c \in Conns : ReadNothing(c)
  \/ \E c \in Conns : NothingToRead(c)
  \/ \E c \in Conns : HungUp(c)
  \/ \E c \in Conns : EchoSome(c)
  \/ \E c \in Conns : EchoNothing(c)
  \/ \E c \in Conns : PollSigpipe(c)
  \/ RoundEnds
  \/ Cleanup

-----------------------------------------------------------------------------
(* Clients of this server: any TCP client.                                 *)

PeerReads(c) == ClientReads(c, 1) /\ UNCHANGED pollVars

PeerActs(c) ==
  /\ \/ ClientConnects(c)
     \/ sent[c] < BYTES /\ ClientWrites(c, 1)
     \/ /\ client_end[c] = "open"
        /\ client_end' = [client_end EXCEPT ![c] = "half"]
        /\ UNCHANGED <<port, listening, server_end, up, down, reset, sent, got>>
     \/ client_end[c] \in {"open", "half"} /\ CloseClientEnds({c})
  /\ UNCHANGED pollVars

=============================================================================
