------------------------------- MODULE EchoNet -------------------------------
(***************************************************************************)
(* The TCP connections that join the two echo servers of                   *)
(* 04_networking/tcp_echo_server to their clients: what the kernel does    *)
(* between a write on one side and a read on the other.                    *)
(*                                                                         *)
(* Byte n of a connection is the n-th byte that its client writes, so an   *)
(* echo shows where it comes from.                                         *)
(*                                                                         *)
(* server_end  none, backlog, open, closed                                 *)
(* client_end  away, open, half (shut down for writing), closed            *)
(***************************************************************************)
EXTENDS Integers, Sequences, FiniteSets

CONSTANTS
  Conns,
  SOCKBUF        \* bytes that the kernel holds in one direction

ASSUME NetAssumption == IsFiniteSet(Conns) /\ SOCKBUF \in Nat \ {0}

VARIABLES
  port,                    \* the server that runs: 8888 (threads), 8889 (poll)
  listening,
  server_end, client_end,
  up, down,                \* bytes on their way to the server, to the client
  reset,                   \* connections that ended in a RST
  sent, got                \* bytes that each client wrote, and read

netVars == <<port, listening, server_end, client_end, up, down, reset, sent, got>>

NetInit ==
  /\ port \in {8888, 8889}
  /\ listening = TRUE
  /\ server_end = [c \in Conns |-> "none"]
  /\ client_end = [c \in Conns |-> "away"]
  /\ up = [c \in Conns |-> << >>]
  /\ down = [c \in Conns |-> << >>]
  /\ reset = {}
  /\ sent = [c \in Conns |-> 0]
  /\ got = [c \in Conns |-> 0]

Rest(s, n) == SubSeq(s, n + 1, Len(s))
Smaller(m, n) == IF m < n THEN m ELSE n

Backlog == {c \in Conns : server_end[c] = "backlog"}
Accepted == {c \in Conns : server_end[c] = "open"}

-----------------------------------------------------------------------------
(* Sockets are closed, by close() or because their process ends.  Bytes    *)
(* that were not read, and connections that were not accepted, are reset.  *)
CloseServerEnds(S) ==
  /\ server_end' = [c \in Conns |-> IF c \in S THEN "closed" ELSE server_end[c]]
  /\ reset' = reset \cup {c \in S : up[c] # << >> \/ server_end[c] = "backlog"}
  /\ up' = [c \in Conns |-> IF c \in S THEN << >> ELSE up[c]]
  /\ UNCHANGED <<port, client_end, down, sent, got>>

CloseClientEnds(S) ==
  /\ client_end' = [c \in Conns |-> IF c \in S THEN "closed" ELSE client_end[c]]
  /\ reset' = reset \cup {c \in S : down[c] # << >>}
  /\ down' = [c \in Conns |-> IF c \in S THEN << >> ELSE down[c]]
  /\ UNCHANGED <<port, listening, server_end, up, sent, got>>

AcceptConn(c) ==
  /\ server_end' = [server_end EXCEPT ![c] = "open"]
  /\ UNCHANGED <<port, listening, client_end, up, down, reset, sent, got>>

(* A read of the server: data, or the end (0 or an error).                 *)
ServerReads(c, n) ==
  /\ n \in 1 .. Len(up[c])
  /\ up' = [up EXCEPT ![c] = Rest(@, n)]
  /\ UNCHANGED <<port, listening, server_end, client_end, down, reset, sent, got>>

EndOfInput(c) == up[c] = << >> /\ (client_end[c] \in {"half", "closed"} \/ c \in reset)

(* A write of the server.  The first one to a closed client is accepted,   *)
(* its bytes are lost and the answer is a RST.                             *)
ServerWrites(c, bytes) ==
  /\ c \notin reset
  /\ IF client_end[c] = "closed"
     THEN reset' = reset \cup {c} /\ UNCHANGED down
     ELSE /\ Len(down[c]) + Len(bytes) <= SOCKBUF
          /\ down' = [down EXCEPT ![c] = @ \o bytes]
          /\ UNCHANGED reset
  /\ UNCHANGED <<port, listening, server_end, client_end, up, sent, got>>

(* The client connects, if somebody listens.                               *)
ClientConnects(c) ==
  /\ client_end[c] = "away"
  /\ listening
  /\ client_end' = [client_end EXCEPT ![c] = "open"]
  /\ server_end' = [server_end EXCEPT ![c] = "backlog"]
  /\ UNCHANGED <<port, listening, up, down, reset, sent, got>>

(* The client writes n bytes.                                              *)
ClientWrites(c, n) ==
  /\ client_end[c] = "open"
  /\ c \notin reset
  /\ sent' = [sent EXCEPT ![c] = @ + n]
  /\ IF server_end[c] = "closed"
     THEN reset' = reset \cup {c} /\ UNCHANGED up
     ELSE /\ Len(up[c]) + n <= SOCKBUF
          /\ up' = [up EXCEPT ![c] = @ \o [i \in 1 .. n |-> sent[c] + i]]
          /\ UNCHANGED reset
  /\ UNCHANGED <<port, listening, server_end, client_end, down, got>>

ClientReads(c, n) ==
  /\ client_end[c] \in {"open", "half"}
  /\ n \in 1 .. Len(down[c])
  /\ down' = [down EXCEPT ![c] = Rest(@, n)]
  /\ got' = [got EXCEPT ![c] = @ + n]
  /\ UNCHANGED <<port, listening, server_end, client_end, up, reset, sent>>

EndOfEcho(c) == down[c] = << >> /\ (server_end[c] = "closed" \/ c \in reset)

=============================================================================
