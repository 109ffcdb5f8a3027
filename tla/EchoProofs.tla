----------------------------- MODULE EchoProofs -----------------------------
(***************************************************************************)
(* What holds of the echo servers and of the benchmark for every number of *)
(* connections, every size of the buffers and every number of messages.    *)
(***************************************************************************)
EXTENDS EchoServers, FiniteSetTheorems, TLAPS

Ends == {"none", "backlog", "open", "closed"}
Bytes == [Conns -> Seq(Nat)]

NetTypes ==
  /\ port \in {8888, 8889}
  /\ server_end \in [Conns -> Ends]
  /\ client_end \in [Conns -> {"away", "open", "half", "closed"}]
  /\ up \in Bytes
  /\ down \in Bytes
  /\ reset \in SUBSET Conns
  /\ sent \in [Conns -> Nat]
  /\ got \in [Conns -> Nat]

PollTypes ==
  /\ slot \in Nat
  /\ fds \in Seq(Conns \cup {NoFd})
  /\ revents \in [Conns -> SUBSET {"POLLIN", "POLLHUP"}]
  /\ buffer \in Bytes
  /\ p_active_clients \in Int
  /\ fresh \in SUBSET Conns

ThreadTypes ==
  /\ t_running \in BOOLEAN
  /\ t_active_clients \in Int
  /\ handler \in [Conns -> {"none", "test", "read", "write", "close", "leave", "done"}]
  /\ chunk \in Bytes

(* The server that runs.  (Named, since the provers are slow with large    *)
(* numbers.)                                                               *)
Threaded == port = 8888
Polling == port = 8889

(* A connection that its client has not made does not exist.               *)
AwayInv ==
  \A c \in Conns : client_end[c] = "away" =>
    /\ server_end[c] = "none"
    /\ up[c] = << >> /\ down[c] = << >>
    /\ sent[c] = 0 /\ got[c] = 0

(* The slots in use are those of the accepted connections, one each.       *)
SlotInv ==
  Polling /\ PollAlive =>
    /\ \A i \in Live : fds[i] \in Accepted
    /\ \A c \in Accepted : \E i \in Live : fds[i] = c
    /\ \A i, j \in Live : fds[i] = fds[j] => i = j
    /\ at = "write" => slot \in Live
    /\ p_active_clients = Cardinality(Live)
    /\ p_active_clients = Cardinality(Accepted)

(* The client has shut down or hung up, or the connection was reset.       *)
Ended(c) == client_end[c] \in {"half", "closed"} \/ c \in reset

(* The slots whose revents the client loop has yet to read.                *)
ToRead == {i \in Live : \/ at \in {"accept", "read"} /\ i >= slot
                        \/ at = "write" /\ i > slot}

(* What poll has reported of a connection is still so when the client loop *)
(* gets there: of one that poll has looked at.                             *)
EventInv ==
  Polling =>
    /\ \A c \in Conns \ fresh : "POLLHUP" \in revents[c] => Ended(c)
    /\ \A i \in ToRead :
         fds[i] \notin fresh /\ "POLLIN" \in revents[fds[i]] =>
           up[fds[i]] # << >> \/ Ended(fds[i])

(* A handler has a connection that was accepted, has nothing to write      *)
(* before it has read, and closes for a reason.                            *)
HandlerInv ==
  Threaded =>
    \A c \in Conns :
      /\ handler[c] # "none" => server_end[c] \in {"open", "closed"}
      /\ handler[c] \in {"none", "test", "read"} => chunk[c] = << >>
      /\ handler[c] = "close" => ~t_running \/ Ended(c)

Counted == {c \in Conns : handler[c] \notin {"none", "done"}}

CountInv ==
  Threaded /\ ServerAlive =>
    t_active_clients = Cardinality(Counted) - (IF main = "count" THEN 1 ELSE 0)

(* The bytes of a sequence are those that follow byte n.                   *)
From(s, n) == \A i \in 1 .. Len(s) : s[i] = n + i

(* EchoInOrder, byte by byte.                                              *)
Ordered(d, h, u, s, g) ==
  /\ Len(d) + Len(h) + Len(u) = s - g
  /\ From(d, g)
  /\ From(h, g + Len(d))
  /\ From(u, g + Len(d) + Len(h))

InOrder(c) == Ordered(down[c], Held(c), up[c], sent[c], got[c])

ByteInv ==
  \A c \in Conns :
    /\ server_end[c] \in {"none", "backlog"} => Held(c) = << >>
    /\ Underway(c) => InOrder(c)

EchoInv ==
  /\ NetTypes /\ PollTypes /\ ThreadTypes
  /\ AwayInv /\ SlotInv /\ EventInv /\ HandlerInv /\ CountInv /\ ByteInv

(* The messages whose echo a worker awaits.                                *)
Awaited == {c \in Conns : worker[c] = "read"}

ReportInv ==
  /\ worker \in [Conns -> {"none", "connect", "write", "read", "done", "unborn"}]
  /\ messages_sent \in Nat /\ messages_received \in Nat /\ errors \in Nat
  /\ bench \in {"run", "report"} =>
       messages_sent - messages_received - Cardinality(Awaited) <= errors
  /\ bench = "report" => Awaited = {}

-----------------------------------------------------------------------------
(* The steps of the network.                                               *)

NetIdle == UNCHANGED <<port, server_end, client_end, up, down, reset, sent, got>>

ShutsDown(c) ==
  /\ client_end[c] = "open"
  /\ client_end' = [client_end EXCEPT ![c] = "half"]
  /\ UNCHANGED <<port, listening, server_end, up, down, reset, sent, got>>

NetStep ==
  \/ NetIdle
  \/ \E S \in SUBSET Conns :
       (\A c \in S : server_end[c] # "none") /\ CloseServerEnds(S)
  \/ \E S \in SUBSET Conns : CloseClientEnds(S)
  \/ \E c \in Backlog : AcceptConn(c)
  \/ \E c \in Conns, n \in Nat : ServerReads(c, n)
  \/ \E c \in Conns, bytes \in Seq(Nat) :
       server_end[c] \in {"open", "closed"} /\ ServerWrites(c, bytes)
  \/ \E c \in Conns : ClientConnects(c)
  \/ \E c \in Conns, n \in Nat : ClientWrites(c, n)
  \/ \E c \in Conns, n \in Nat : ClientReads(c, n)
  \/ \E c \in Conns : ShutsDown(c)

(* The rest of a sequence of bytes.                                        *)
LEMMA RestOf ==
  ASSUME NEW s \in Seq(Nat), NEW n \in 0 .. Len(s)
  PROVE  /\ Rest(s, n) \in Seq(Nat)
         /\ Len(Rest(s, n)) = Len(s) - n
         /\ \A i \in 1 .. Len(s) - n : Rest(s, n)[i] = s[n + i]
BY DEF Rest

(* The first bytes of a sequence.                                          *)
LEMMA FrontOf ==
  ASSUME NEW s \in Seq(Nat), NEW n \in 0 .. Len(s)
  PROVE  /\ SubSeq(s, 1, n) \in Seq(Nat)
         /\ Len(SubSeq(s, 1, n)) = n
         /\ \A i \in 1 .. n : SubSeq(s, 1, n)[i] = s[i]
OBVIOUS

(* Two sequences of bytes, one after the other.                            *)
LEMMA Joined ==
  ASSUME NEW s \in Seq(Nat), NEW t \in Seq(Nat)
  PROVE  /\ s \o t \in Seq(Nat)
         /\ Len(s \o t) = Len(s) + Len(t)
         /\ \A i \in 1 .. Len(s) : (s \o t)[i] = s[i]
         /\ \A i \in 1 .. Len(t) : (s \o t)[Len(s) + i] = t[i]
OBVIOUS

(* The bytes that a client writes.                                         *)
LEMMA NewBytes ==
  ASSUME NEW n \in Nat, NEW k \in Nat
  PROVE  /\ [i \in 1 .. n |-> k + i] \in Seq(Nat)
         /\ Len([i \in 1 .. n |-> k + i]) = n
         /\ From([i \in 1 .. n |-> k + i], k)
<1> DEFINE s == [i \in 1 .. n |-> k + i]
<1>1. s \in [1 .. n -> Nat]
  OBVIOUS
<1>2. s \in Seq(Nat) /\ Len(s) = n
  BY <1>1
<1>. QED  BY <1>2 DEF From

(* One connection gets other bytes.                                        *)
LEMMA StillBytes ==
  ASSUME NEW f \in Bytes, NEW c \in Conns, NEW x \in Seq(Nat)
  PROVE  [f EXCEPT ![c] = x] \in Bytes
BY DEF Bytes

(* Types: one step per operation of the network.                           *)
LEMMA NetTypesStep ==
  ASSUME NetTypes, NetStep
  PROVE  NetTypes'
<1> USE DEF NetTypes, Bytes, Ends
<1>1. CASE NetIdle
  BY <1>1 DEF NetIdle
<1>2. ASSUME NEW S \in SUBSET Conns, CloseServerEnds(S)  PROVE NetTypes'
  BY <1>2 DEF CloseServerEnds
<1>3. ASSUME NEW S \in SUBSET Conns, CloseClientEnds(S)  PROVE NetTypes'
  BY <1>3 DEF CloseClientEnds
<1>4. ASSUME NEW c \in Conns, AcceptConn(c)  PROVE NetTypes'
  BY <1>4 DEF AcceptConn
<1>5. ASSUME NEW c \in Conns, NEW n \in Nat, ServerReads(c, n)  PROVE NetTypes'
  <2>1. Rest(up[c], n) \in Seq(Nat)
    BY <1>5, RestOf DEF ServerReads
  <2>. QED  BY <1>5, <2>1 DEF ServerReads
<1>6. ASSUME NEW c \in Conns, NEW b \in Seq(Nat), ServerWrites(c, b)  PROVE NetTypes'
  <2>1. down[c] \in Seq(Nat)
    OBVIOUS
  <2>2. down[c] \o b \in Seq(Nat)
    BY <2>1, Joined
  <2>3. down' \in Bytes
    <3> DEFINE x == down[c] \o b
    <3>1. x \in Seq(Nat)
      BY <2>2
    <3>2. down' = down \/ down' = [down EXCEPT ![c] = x]
      BY <1>6 DEF ServerWrites
    <3> HIDE DEF x, Bytes
    <3>. QED  BY <3>1, <3>2, StillBytes
  <2>4. reset' \in SUBSET Conns
    BY <1>6 DEF ServerWrites
  <2>. QED  BY <1>6, <2>3, <2>4 DEF ServerWrites
<1>7. ASSUME NEW c \in Conns, ClientConnects(c)  PROVE NetTypes'
  BY <1>7 DEF ClientConnects
<1>8. ASSUME NEW c \in Conns, NEW n \in Nat, ClientWrites(c, n)  PROVE NetTypes'
  <2> DEFINE b == [i \in 1 .. n |-> sent[c] + i]
  <2>1. up[c] \in Seq(Nat) /\ sent[c] \in Nat
    OBVIOUS
  <2>2. b \in Seq(Nat)
    BY <2>1, NewBytes
  <2> HIDE DEF b
  <2>3. up[c] \o b \in Seq(Nat)
    BY <2>1, <2>2, Joined
  <2>4. sent[c] + n \in Nat
    BY <2>1
  <2>5. up' \in Bytes
    <3> DEFINE x == up[c] \o b
    <3>1. x \in Seq(Nat)
      BY <2>3
    <3>2. up' = up \/ up' = [up EXCEPT ![c] = x]
      BY <1>8 DEF ClientWrites, b
    <3> HIDE DEF x, Bytes
    <3>. QED  BY <3>1, <3>2, StillBytes
  <2>6. reset' \in SUBSET Conns
    BY <1>8 DEF ClientWrites
  <2>7. sent' \in [Conns -> Nat]
    BY <1>8, <2>4 DEF ClientWrites
  <2>. QED  BY <1>8, <2>5, <2>6, <2>7 DEF ClientWrites
<1>9. ASSUME NEW c \in Conns, NEW n \in Nat, ClientReads(c, n)  PROVE NetTypes'
  <2>1. Rest(down[c], n) \in Seq(Nat)
    BY <1>9, RestOf DEF ClientReads
  <2>. QED  BY <1>9, <2>1 DEF ClientReads
<1>10. ASSUME NEW c \in Conns, ShutsDown(c)  PROVE NetTypes'
  BY <1>10 DEF ShutsDown
<1>. QED  BY <1>1, <1>2, <1>3, <1>4, <1>5, <1>6, <1>7, <1>8, <1>9, <1>10, SMTT(60)
           DEF NetStep, Backlog

(* A connection that was not made does not exist.                          *)
LEMMA AwayStep ==
  ASSUME NetTypes, AwayInv, NetStep
  PROVE  AwayInv'
<1> SUFFICES ASSUME NEW d \in Conns, client_end'[d] = "away"
             PROVE  /\ server_end'[d] = "none"
                    /\ up'[d] = << >> /\ down'[d] = << >>
                    /\ sent'[d] = 0 /\ got'[d] = 0
  BY DEF AwayInv
<1> DEFINE Stays == /\ server_end'[d] = "none"
                    /\ up'[d] = << >> /\ down'[d] = << >>
                    /\ sent'[d] = 0 /\ got'[d] = 0
           Was == /\ server_end[d] = "none"
                  /\ up[d] = << >> /\ down[d] = << >>
                  /\ sent[d] = 0 /\ got[d] = 0
<1>0. client_end[d] = "away" => Was
  BY DEF AwayInv
<1>1. CASE NetIdle
  BY <1>0, <1>1 DEF NetIdle
<1>2. ASSUME NEW S \in SUBSET Conns, \A c \in S : server_end[c] # "none",
             CloseServerEnds(S)
      PROVE  Stays
  BY <1>0, <1>2 DEF CloseServerEnds, NetTypes, Bytes
<1>3. ASSUME NEW S \in SUBSET Conns, CloseClientEnds(S)  PROVE Stays
  BY <1>0, <1>3 DEF CloseClientEnds, NetTypes, Bytes
<1>4. ASSUME NEW c \in Conns, server_end[c] = "backlog", AcceptConn(c)  PROVE Stays
  BY <1>0, <1>4 DEF AcceptConn, NetTypes, Bytes
<1>5. ASSUME NEW c \in Conns, NEW n \in Nat, ServerReads(c, n)  PROVE Stays
  BY <1>0, <1>5 DEF ServerReads, NetTypes, Bytes
<1>6. ASSUME NEW c \in Conns, NEW b \in Seq(Nat), server_end[c] \in {"open", "closed"},
             ServerWrites(c, b)
      PROVE Stays
  BY <1>0, <1>6 DEF ServerWrites, NetTypes, Bytes
<1>7. ASSUME NEW c \in Conns, ClientConnects(c)  PROVE Stays
  BY <1>0, <1>7 DEF ClientConnects, NetTypes, Bytes
<1>8. ASSUME NEW c \in Conns, NEW n \in Nat, ClientWrites(c, n)  PROVE Stays
  BY <1>0, <1>8 DEF ClientWrites, NetTypes, Bytes
<1>9. ASSUME NEW c \in Conns, NEW n \in Nat, ClientReads(c, n)  PROVE Stays
  BY <1>0, <1>9 DEF ClientReads, NetTypes, Bytes
<1>10. ASSUME NEW c \in Conns, ShutsDown(c)  PROVE Stays
  BY <1>0, <1>10 DEF ShutsDown, NetTypes, Bytes
<1>. QED  BY <1>1, <1>2, <1>3, <1>4, <1>5, <1>6, <1>7, <1>8, <1>9, <1>10
           DEF NetStep, Backlog

(* A connection that has ended does not come back, and the server that     *)
(* runs stays the same.                                                    *)
LEMMA EndedStays ==
  ASSUME NetTypes, NetStep
  PROVE  port' = port /\ \A c \in Conns : Ended(c) => Ended(c)'
<1> USE DEF NetTypes
<1>1. CASE NetIdle
  BY <1>1 DEF NetIdle, Ended
<1> DEFINE Stays == port' = port /\ \A c \in Conns : Ended(c) => Ended(c)'
<1>2. ASSUME NEW S \in SUBSET Conns, CloseServerEnds(S)  PROVE Stays
  BY <1>2 DEF CloseServerEnds, Ended
<1>3. ASSUME NEW S \in SUBSET Conns, CloseClientEnds(S)  PROVE Stays
  BY <1>3 DEF CloseClientEnds, Ended
<1>4. ASSUME NEW c \in Conns, AcceptConn(c)  PROVE Stays
  BY <1>4 DEF AcceptConn, Ended
<1>5. ASSUME NEW c \in Conns, NEW n \in Nat, ServerReads(c, n)  PROVE Stays
  BY <1>5 DEF ServerReads, Ended
<1>6. ASSUME NEW c \in Conns, NEW b \in Seq(Nat), ServerWrites(c, b)  PROVE Stays
  BY <1>6 DEF ServerWrites, Ended
<1>7. ASSUME NEW c \in Conns, ClientConnects(c)  PROVE Stays
  BY <1>7 DEF ClientConnects, Ended
<1>8. ASSUME NEW c \in Conns, NEW n \in Nat, ClientWrites(c, n)  PROVE Stays
  BY <1>8 DEF ClientWrites, Ended
<1>9. ASSUME NEW c \in Conns, NEW n \in Nat, ClientReads(c, n)  PROVE Stays
  BY <1>9 DEF ClientReads, Ended
<1>10. ASSUME NEW c \in Conns, ShutsDown(c)  PROVE Stays
  BY <1>10 DEF ShutsDown, Ended
<1>. QED  BY <1>1, <1>2, <1>3, <1>4, <1>5, <1>6, <1>7, <1>8, <1>9, <1>10
           DEF NetStep, Backlog

-----------------------------------------------------------------------------
(* The bytes of a connection.                                              *)

LEMMA FromRest ==
  ASSUME NEW s \in Seq(Nat), NEW n \in 0 .. Len(s), NEW k \in Int, From(s, k)
  PROVE  From(Rest(s, n), k + n)
<1> DEFINE r == Rest(s, n)
<1>1. Len(r) = Len(s) - n /\ \A i \in 1 .. Len(s) - n : r[i] = s[n + i]
  BY RestOf
<1> HIDE DEF r
<1>2. SUFFICES ASSUME NEW i \in 1 .. Len(r)  PROVE r[i] = k + n + i
  BY DEF From, r
<1>3. n + i \in 1 .. Len(s)
  BY <1>1
<1>. QED  BY <1>1, <1>3 DEF From

(* The beginning of a run of successive bytes is such a run.               *)
LEMMA FromFront ==
  ASSUME NEW s \in Seq(Nat), NEW n \in 0 .. Len(s), NEW k \in Int, From(s, k)
  PROVE  From(SubSeq(s, 1, n), k)
<1> DEFINE r == SubSeq(s, 1, n)
<1>1. Len(r) = n /\ \A i \in 1 .. n : r[i] = s[i]
  BY FrontOf
<1> HIDE DEF r
<1>2. SUFFICES ASSUME NEW i \in 1 .. Len(r)  PROVE r[i] = k + i
  BY DEF From, r
<1>. QED  BY <1>1 DEF From

(* Two runs of successive bytes, the second where the first ends.          *)
LEMMA FromJoined ==
  ASSUME NEW s \in Seq(Nat), NEW t \in Seq(Nat), NEW k \in Int,
         From(s, k), From(t, k + Len(s))
  PROVE  From(s \o t, k)
<1> DEFINE r == s \o t
<1>1. /\ Len(r) = Len(s) + Len(t)
      /\ \A i \in 1 .. Len(s) : r[i] = s[i]
      /\ \A i \in 1 .. Len(t) : r[Len(s) + i] = t[i]
  BY Joined
<1> HIDE DEF r
<1>2. SUFFICES ASSUME NEW i \in 1 .. Len(r)  PROVE r[i] = k + i
  BY DEF From, r
<1>3. CASE i <= Len(s)
  BY <1>1, <1>3 DEF From
<1>4. CASE i > Len(s)
  <2> DEFINE j == i - Len(s)
  <2>1. j \in 1 .. Len(t) /\ i = Len(s) + j
    BY <1>1, <1>4
  <2> HIDE DEF j
  <2>2. r[Len(s) + j] = t[j] /\ t[j] = k + Len(s) + j
    BY <1>1, <2>1 DEF From
  <2>. QED  BY <2>1, <2>2
<1>. QED  BY <1>3, <1>4

(* The server reads n bytes.                                               *)
LEMMA OrderedRead ==
  ASSUME NEW d \in Seq(Nat), NEW h \in Seq(Nat), NEW u \in Seq(Nat),
         NEW s \in Nat, NEW g \in Nat, Ordered(d, h, u, s, g),
         NEW n \in 1 .. Len(u)
  PROVE  Ordered(d, h \o SubSeq(u, 1, n), Rest(u, n), s, g)
<1> DEFINE f == SubSeq(u, 1, n)
           r == Rest(u, n)
           j == h \o f
           k == g + Len(d)
           m == g + Len(d) + Len(h)
<1>0. n \in 0 .. Len(u) /\ m \in Int /\ From(u, m)
  BY DEF Ordered
<1> HIDE DEF m
<1>1. f \in Seq(Nat) /\ Len(f) = n
  BY <1>0, FrontOf
<1>2. Len(r) = Len(u) - n
  BY <1>0, RestOf
<1>3. From(f, m)
  BY <1>0, FromFront
<1>4. From(r, m + n)
  BY <1>0, FromRest
<1>5. From(h, k) /\ k \in Int
  BY DEF Ordered
<1> HIDE DEF f, r, k
<1>6. Len(j) = Len(h) + n
  BY <1>1, Joined
<1>7. From(j, k)
  <2>1. m = k + Len(h)
    BY DEF m, k
  <2>2. From(f, k + Len(h))
    BY <1>3, <2>1
  <2>. QED  BY <1>1, <2>2, <1>5, FromJoined
<1> HIDE DEF j
<1>8. From(r, k + Len(j)) /\ Len(d) + Len(j) + Len(r) = s - g
  <2>1. m + n = k + Len(j)
    BY <1>6 DEF m, k
  <2>2. Len(d) + Len(h) + Len(u) = s - g
    BY DEF Ordered
  <2>3. Len(d) + Len(j) + Len(r) = s - g
    <3> DEFINE a == Len(d)  b == Len(h)  c == Len(u)  x == Len(j)  y == Len(r)
    <3>1. a \in Int /\ b \in Int /\ c \in Int /\ n \in Int
      OBVIOUS
    <3>2. a + b + c = s - g /\ x = b + n /\ y = c - n
      BY <1>2, <1>6, <2>2
    <3> HIDE DEF a, b, c, x, y
    <3>3. a + x + y = s - g
      BY <3>1, <3>2
    <3>. QED  BY <3>3 DEF a, b, c, x, y
  <2>. QED  BY <1>4, <2>1, <2>3
<1>. QED  BY <1>7, <1>8 DEF Ordered, k, f, r, j

(* The server writes n bytes.                                              *)
LEMMA OrderedWrite ==
  ASSUME NEW d \in Seq(Nat), NEW h \in Seq(Nat), NEW u \in Seq(Nat),
         NEW s \in Nat, NEW g \in Nat, Ordered(d, h, u, s, g),
         NEW n \in 1 .. Len(h)
  PROVE  Ordered(d \o SubSeq(h, 1, n), Rest(h, n), u, s, g)
<1> DEFINE f == SubSeq(h, 1, n)
           r == Rest(h, n)
           j == d \o f
<1>1. f \in Seq(Nat) /\ Len(f) = n
  BY FrontOf
<1>2. Len(r) = Len(h) - n
  BY RestOf
<1>3. From(f, g + Len(d))
  BY FromFront DEF Ordered
<1>4. From(r, g + Len(d) + n)
  BY FromRest DEF Ordered
<1> HIDE DEF f, r
<1>5. Len(j) = Len(d) + n
  BY <1>1, Joined
<1>6. From(j, g)
  BY <1>1, <1>3, FromJoined DEF Ordered
<1> HIDE DEF j
<1>7. From(r, g + Len(j)) /\ Len(j) + Len(r) + Len(u) = s - g
  <2>1. g + Len(d) + n = g + Len(j)
    BY <1>5
  <2>2. Len(d) + Len(h) + Len(u) = s - g
    BY DEF Ordered
  <2>3. Len(j) + Len(r) + Len(u) = s - g
    <3> DEFINE a == Len(d)  b == Len(h)  c == Len(u)  x == Len(j)  y == Len(r)
    <3>1. a \in Int /\ b \in Int /\ c \in Int /\ n \in Int
      OBVIOUS
    <3>2. a + b + c = s - g /\ x = a + n /\ y = b - n
      BY <1>2, <1>5, <2>2
    <3> HIDE DEF a, b, c, x, y
    <3>3. x + y + c = s - g
      BY <3>1, <3>2
    <3>. QED  BY <3>3 DEF a, b, c, x, y
  <2>. QED  BY <1>4, <2>1, <2>3
<1>8. From(u, g + Len(j) + Len(r))
  <2>1. g + Len(d) + Len(h) = g + Len(j) + Len(r)
    BY <1>2, <1>5
  <2>. QED  BY <2>1 DEF Ordered
<1>. QED  BY <1>6, <1>7, <1>8 DEF Ordered, f, r, j

(* The client writes n bytes.                                              *)
LEMMA OrderedSend ==
  ASSUME NEW d \in Seq(Nat), NEW h \in Seq(Nat), NEW u \in Seq(Nat),
         NEW s \in Nat, NEW g \in Nat, Ordered(d, h, u, s, g), NEW n \in Nat
  PROVE  Ordered(d, h, u \o [i \in 1 .. n |-> s + i], s + n, g)
<1> DEFINE b == [i \in 1 .. n |-> s + i]
           j == u \o b
           k == g + Len(d) + Len(h)
<1>1. b \in Seq(Nat) /\ Len(b) = n /\ From(b, s)
  BY NewBytes
<1> HIDE DEF b
<1>2. Len(j) = Len(u) + n
  BY <1>1, Joined
<1>3. From(b, k + Len(u)) /\ From(u, k) /\ k \in Int
  <2>1. s = k + Len(u)
    BY DEF Ordered
  <2>2. From(b, k + Len(u))
    BY <1>1, <2>1
  <2>. QED  BY <2>2 DEF Ordered
<1> HIDE DEF k
<1>4. From(j, k)
  BY <1>1, <1>3, FromJoined
<1> HIDE DEF j
<1>5. Len(d) + Len(h) + Len(j) = s + n - g
  <2>1. Len(d) + Len(h) + Len(u) = s - g
    BY DEF Ordered
  <2> DEFINE x == Len(d)  y == Len(h)  z == Len(u)  w == Len(j)
  <2>2. x \in Int /\ y \in Int /\ z \in Int /\ n \in Int
    OBVIOUS
  <2>3. x + y + z = s - g /\ w = z + n
    BY <1>2, <2>1
  <2> HIDE DEF x, y, z, w
  <2>4. x + y + w = s + n - g
    BY <2>2, <2>3
  <2>. QED  BY <2>4 DEF x, y, z, w
<1>. QED  BY <1>4, <1>5 DEF Ordered, b, j, k

(* The client reads n bytes.                                               *)
LEMMA OrderedGet ==
  ASSUME NEW d \in Seq(Nat), NEW h \in Seq(Nat), NEW u \in Seq(Nat),
         NEW s \in Nat, NEW g \in Nat, Ordered(d, h, u, s, g),
         NEW n \in 1 .. Len(d)
  PROVE  Ordered(Rest(d, n), h, u, s, g + n)
<1> DEFINE r == Rest(d, n)
<1>0. n \in 0 .. Len(d) /\ From(d, g)
  BY DEF Ordered
<1>1. Len(r) = Len(d) - n
  BY <1>0, RestOf
<1>2. From(r, g + n)
  BY <1>0, FromRest
<1> HIDE DEF r
<1>3. From(h, g + n + Len(r)) /\ From(u, g + n + Len(r) + Len(h))
  <2>1. g + n + Len(r) = g + Len(d)
    BY <1>1
  <2>. QED  BY <2>1 DEF Ordered
<1>4. Len(r) + Len(h) + Len(u) = s - (g + n)
  <2>1. Len(d) + Len(h) + Len(u) = s - g
    BY DEF Ordered
  <2>. QED  BY <1>1, <2>1
<1>. QED  BY <1>2, <1>3, <1>4 DEF Ordered, r

(* No bytes at all are in order.                                           *)
LEMMA OrderedEmpty == Ordered(<< >>, << >>, << >>, 0, 0)
BY DEF Ordered, From

(* Byte by byte is the sequence of the bytes.                              *)
LEMMA OrderedBytes ==
  ASSUME NEW d \in Seq(Nat), NEW h \in Seq(Nat), NEW u \in Seq(Nat),
         NEW s \in Nat, NEW g \in Nat, Ordered(d, h, u, s, g)
  PROVE  d \o h \o u = [i \in 1 .. s - g |-> g + i]
<1> DEFINE j == d \o h
           r == j \o u
<1>1. j \in Seq(Nat) /\ Len(j) = Len(d) + Len(h)
  BY Joined
<1>2. From(j, g)
  BY FromJoined DEF Ordered
<1> HIDE DEF j
<1>3. r \in Seq(Nat) /\ Len(r) = Len(j) + Len(u)
  BY <1>1, Joined
<1>4. From(u, g + Len(j))
  <2>1. g + Len(d) + Len(h) = g + Len(j)
    BY <1>1
  <2>. QED  BY <2>1 DEF Ordered
<1>5. From(r, g)
  <2>1. g \in Int /\ j \in Seq(Nat)
    BY <1>1
  <2>. QED  BY <2>1, <1>2, <1>4, FromJoined
<1> HIDE DEF r
<1>6. Len(r) = s - g
  BY <1>1, <1>3 DEF Ordered
<1>7. r = [i \in 1 .. s - g |-> g + i]
  <2>1. r = [i \in 1 .. Len(r) |-> r[i]]
    BY <1>3
  <2>. QED  BY <1>5, <1>6, <2>1 DEF From
<1>. QED  BY <1>7 DEF r, j

(* What a step may do with the bytes of a connection.                      *)
SameNet(d) == sent'[d] = sent[d] /\ got'[d] = got[d]

ByteStep(d) ==
  \/ SameNet(d) /\ up'[d] = up[d] /\ down'[d] = down[d] /\ Held(d)' = Held(d)
  \/ \E n \in 1 .. Len(up[d]) :
       /\ Held(d)' = Held(d) \o SubSeq(up[d], 1, n) /\ up'[d] = Rest(up[d], n)
       /\ down'[d] = down[d] /\ SameNet(d)
  \/ \E n \in 1 .. Len(Held(d)) :
       /\ down'[d] = down[d] \o SubSeq(Held(d), 1, n) /\ Held(d)' = Rest(Held(d), n)
       /\ up'[d] = up[d] /\ SameNet(d)
  \/ \E n \in Nat :
       /\ up'[d] = up[d] \o [i \in 1 .. n |-> sent[d] + i] /\ sent'[d] = sent[d] + n
       /\ down'[d] = down[d] /\ Held(d)' = Held(d) /\ got'[d] = got[d]
  \/ \E n \in 1 .. Len(down[d]) :
       /\ down'[d] = Rest(down[d], n) /\ got'[d] = got[d] + n
       /\ up'[d] = up[d] /\ Held(d)' = Held(d) /\ sent'[d] = sent[d]

(* A connection without a byte.                                            *)
Blank(d) ==
  /\ up[d] = << >> /\ down[d] = << >> /\ Held(d) = << >>
  /\ sent[d] = 0 /\ got[d] = 0

ByteMove ==
  \A d \in Conns :
    /\ server_end'[d] \in {"none", "backlog"} => Held(d)' = << >>
    /\ Underway(d)' => (Underway(d) /\ ByteStep(d)) \/ Blank(d)'

(* The server's bytes are bytes.                                           *)
LEMMA HeldIsSeq ==
  ASSUME NetTypes, PollTypes, ThreadTypes, NEW c \in Conns
  PROVE  Held(c) \in Seq(Nat)
BY DEF Held, PollTypes, ThreadTypes, Bytes

(* Such a step keeps the bytes in order.                                   *)
LEMMA ByteInvStep ==
  ASSUME NetTypes, PollTypes, ThreadTypes, ByteInv, ByteMove
  PROVE  ByteInv'
<1> SUFFICES ASSUME NEW d \in Conns, Underway(d)'
             PROVE  InOrder(d)'
  BY DEF ByteInv, ByteMove
<1>1. CASE Blank(d)'
  BY <1>1, OrderedEmpty DEF InOrder, Blank
<1>2. CASE Underway(d) /\ ByteStep(d)
  <2> DEFINE D == down[d]
             H == Held(d)
             U == up[d]
             S == sent[d]
             G == got[d]
  <2>1. D \in Seq(Nat) /\ H \in Seq(Nat) /\ U \in Seq(Nat) /\ S \in Nat /\ G \in Nat
    BY HeldIsSeq DEF NetTypes, Bytes
  <2>2. Ordered(D, H, U, S, G)
    BY <1>2 DEF ByteInv, InOrder
  <2>3. /\ \A n \in 1 .. Len(U) : Ordered(D, H \o SubSeq(U, 1, n), Rest(U, n), S, G)
        /\ \A n \in 1 .. Len(H) : Ordered(D \o SubSeq(H, 1, n), Rest(H, n), U, S, G)
        /\ \A n \in Nat : Ordered(D, H, U \o [i \in 1 .. n |-> S + i], S + n, G)
        /\ \A n \in 1 .. Len(D) : Ordered(Rest(D, n), H, U, S, G + n)
    <3> HIDE DEF D, H, U, S, G
    <3>1. \A n \in 1 .. Len(U) : Ordered(D, H \o SubSeq(U, 1, n), Rest(U, n), S, G)
      BY <2>1, <2>2, OrderedRead
    <3>2. \A n \in 1 .. Len(H) : Ordered(D \o SubSeq(H, 1, n), Rest(H, n), U, S, G)
      BY <2>1, <2>2, OrderedWrite
    <3>3. \A n \in Nat : Ordered(D, H, U \o [i \in 1 .. n |-> S + i], S + n, G)
      BY <2>1, <2>2, OrderedSend
    <3>4. \A n \in 1 .. Len(D) : Ordered(Rest(D, n), H, U, S, G + n)
      BY <2>1, <2>2, OrderedGet
    <3>. QED  BY <3>1, <3>2, <3>3, <3>4
  <2>4. CASE SameNet(d) /\ up'[d] = U /\ down'[d] = D /\ Held(d)' = H
    BY <2>2, <2>4 DEF SameNet, InOrder
  <2>5. ASSUME NEW n \in 1 .. Len(U),
               Held(d)' = H \o SubSeq(U, 1, n), up'[d] = Rest(U, n),
               down'[d] = D, SameNet(d)
        PROVE  InOrder(d)'
    BY <2>3, <2>5 DEF SameNet, InOrder
  <2>6. ASSUME NEW n \in 1 .. Len(H),
               down'[d] = D \o SubSeq(H, 1, n), Held(d)' = Rest(H, n),
               up'[d] = U, SameNet(d)
        PROVE  InOrder(d)'
    BY <2>3, <2>6 DEF SameNet, InOrder
  <2>7. ASSUME NEW n \in Nat,
               up'[d] = U \o [i \in 1 .. n |-> S + i], sent'[d] = S + n,
               down'[d] = D, Held(d)' = H, got'[d] = G
        PROVE  InOrder(d)'
    BY <2>3, <2>7 DEF InOrder
  <2>8. ASSUME NEW n \in 1 .. Len(D),
               down'[d] = Rest(D, n), got'[d] = G + n,
               up'[d] = U, Held(d)' = H, sent'[d] = S
        PROVE  InOrder(d)'
    BY <2>3, <2>8 DEF InOrder
  <2>. QED  BY <1>2, <2>4, <2>5, <2>6, <2>7, <2>8 DEF ByteStep
<1>. QED  BY <1>1, <1>2 DEF ByteMove

-----------------------------------------------------------------------------
(* The steps of the poll server and of its clients, by what they do to the *)
(* slots and the connections.                                              *)

PollIdle ==
  /\ UNCHANGED <<slotVars, netVars, revents, fresh>>
  /\ PollAlive /\ slot' \in Nat
  /\ at' = "write" => slot' \in Live
  /\ ToRead' \subseteq ToRead

Adds(c) ==
  /\ c \in Backlog /\ AddSlot(c)
  /\ at = "accept" /\ UNCHANGED <<at, slot>>

Refuses(c) == c \in Backlog /\ CloseServerEnds({c}) /\ UNCHANGED pollVars

Drops(c) ==
  /\ slot \in Live /\ fds[slot] = c /\ DropClient(c)
  /\ \/ at = "read" /\ "POLLIN" \in revents[c] /\ (up[c] = << >> \/ Room(c) = 0)
     \/ at = "write" /\ "POLLHUP" \in revents[c]

Stops == PollAlive /\ \E how \in {"exit", "killed"} : PollStops(how)

PollEffect ==
  \/ PollIdle
  \/ PollReturns
  \/ \E c \in Conns : Adds(c)
  \/ \E c \in Conns : Refuses(c)
  \/ \E c \in Conns : Drops(c)
  \/ \E c \in Conns : ReadSome(c)
  \/ \E c \in Conns : EchoSome(c) /\ slot \in Live
  \/ Stops

(* Every step of the server is one of them.                                *)
LEMMA PollSteps ==
  ASSUME EchoInv, Polling, PollStep \/ PollSignal \/ PollFails
  PROVE  PollEffect
<1>1. CASE TestRunning
  BY <1>1 DEF EchoInv, PollTypes, TestRunning, PollEffect, PollIdle, slotVars, PollAlive,
              ToRead, Live
<1>2. CASE PollReturns
  BY <1>2 DEF PollEffect
<1>3. ASSUME NEW c \in Conns, AcceptOne(c)  PROVE PollEffect
  <2>1. Adds(c) \/ Refuses(c)
    BY <1>3 DEF AcceptOne, Adds, Refuses, pollVars, slotVars
  <2>. QED  BY <2>1 DEF PollEffect
<1>4. CASE AcceptEnds
  BY <1>4 DEF EchoInv, PollTypes, AcceptEnds, PollEffect, PollIdle, slotVars, PollAlive,
              ToRead, Live
<1>5. CASE SkipSlot
  BY <1>5 DEF EchoInv, PollTypes, SkipSlot, NextSlot, PollEffect, PollIdle, slotVars, PollAlive,
              ToRead, Live
<1>6. ASSUME NEW c \in Conns, ReadSome(c)  PROVE PollEffect
  BY <1>6 DEF PollEffect
<1>7. ASSUME NEW c \in Conns, ReadNothing(c)  PROVE PollEffect
  <2>1. Drops(c)
    BY <1>7 DEF ReadNothing, Drops
  <2>. QED  BY <2>1 DEF PollEffect
<1>8. ASSUME NEW c \in Conns, NothingToRead(c)  PROVE PollEffect
  BY <1>8 DEF EchoInv, PollTypes, NothingToRead, PollEffect, PollIdle, slotVars, PollAlive,
              ToRead, Live
<1> DEFINE Writes == at = "write"
<1>w. Writes => slot \in Live
  BY DEF EchoInv, SlotInv, PollAlive
<1>9. ASSUME NEW c \in Conns, HungUp(c)  PROVE PollEffect
  <2>1. Drops(c)
    BY <1>9, <1>w DEF HungUp, Drops
  <2>. QED  BY <2>1 DEF PollEffect
<1>10. ASSUME NEW c \in Conns, EchoSome(c)  PROVE PollEffect
  BY <1>10, <1>w DEF EchoSome, PollEffect
<1>11. ASSUME NEW c \in Conns, EchoNothing(c)  PROVE PollEffect
  BY <1>11 DEF EchoInv, PollTypes, EchoNothing, NextSlot, PollEffect, PollIdle, slotVars,
               PollAlive, ToRead, Live
<1>12. ASSUME NEW c \in Conns, PollSigpipe(c)  PROVE PollEffect
  BY <1>12 DEF PollSigpipe, Stops, PollEffect, PollAlive
<1>13. CASE RoundEnds
  BY <1>13 DEF EchoInv, PollTypes, RoundEnds, PollEffect, PollIdle, slotVars, PollAlive,
               ToRead, Live
<1>14. CASE Cleanup
  BY <1>14 DEF Cleanup, Stops, PollEffect, PollAlive
<1>15. CASE PollSignal
  <2>1. UNCHANGED <<slotVars, netVars, revents, fresh>> /\ PollAlive /\ slot' \in Nat
    BY <1>15 DEF PollSignal, EchoInv, PollTypes
  <2>2. at' = "write" => slot' \in Live
    BY <1>15, <1>w DEF PollSignal
  <2>3. ToRead' \subseteq ToRead
    BY <1>15 DEF PollSignal, ToRead, Live, slotVars
  <2>. QED  BY <2>1, <2>2, <2>3 DEF PollEffect, PollIdle
<1>16. CASE PollFails
  BY <1>16 DEF PollFails, Stops, PollEffect, PollAlive
<1>. QED  BY <1>1, <1>2, <1>3, <1>4, <1>5, <1>6, <1>7, <1>8, <1>9, <1>10, <1>11, <1>12,
             <1>13, <1>14, <1>15, <1>16 DEF PollStep

(* There are finitely many slots.                                          *)
LEMMA FiniteSlots ==
  ASSUME PollTypes
  PROVE  /\ Live \subseteq 1 .. Len(fds) /\ IsFiniteSet(Live)
         /\ Cardinality(Live) \in Nat
<1>1. Live \subseteq 1 .. Len(fds)
  BY DEF Live, PollTypes
<1>2. IsFiniteSet(1 .. Len(fds))
  BY FS_Interval DEF PollTypes
<1>3. IsFiniteSet(Live)
  BY <1>1, <1>2, FS_Subset
<1>. QED  BY <1>1, <1>3, FS_CardinalityType

(* There are finitely many connections.                                    *)
LEMMA FiniteConns ==
  ASSUME NEW S \in SUBSET Conns
  PROVE  IsFiniteSet(S) /\ Cardinality(S) \in Nat
BY NetAssumption, FS_Subset, FS_CardinalityType

(* What the invariants need of such a step.                                *)
PollKept == NetStep /\ PollTypes' /\ SlotInv' /\ EventInv' /\ ByteMove

(* A step of the server that touches no connection and no slot.            *)
LEMMA IdleKeeps ==
  ASSUME EchoInv, Polling, UNCHANGED threadVars, PollIdle
  PROVE  PollKept
<1> USE DEF PollIdle, netVars, slotVars, threadVars
<1>1. NetStep
  BY DEF NetStep, NetIdle
<1>2. PollTypes'
  BY DEF EchoInv, PollTypes
<1>3. Live' = Live /\ Accepted' = Accepted
  BY DEF Live, Accepted
<1>4. SlotInv'
  BY <1>3 DEF EchoInv, SlotInv, PollAlive
<1>5. EventInv'
  BY <1>3 DEF EchoInv, EventInv, Ended
<1>6. ByteMove
  BY DEF Polling, Threaded, EchoInv, ByteInv, ByteMove, ByteStep, SameNet, Held,
         Underway
<1>. QED  BY <1>1, <1>2, <1>4, <1>5, <1>6 DEF PollKept

(* poll reports what is so.                                                *)
LEMMA LooksKeeps ==
  ASSUME EchoInv, Polling, UNCHANGED threadVars, PollReturns
  PROVE  PollKept
<1> USE DEF netVars, slotVars, threadVars
<1>0. UNCHANGED <<slotVars, netVars>> /\ fresh' = {} /\ slot' = 1 /\ PollAlive
      /\ at' # "write"
  BY DEF PollReturns, PollAlive
<1>1. NetStep
  BY <1>0 DEF NetStep, NetIdle
<1>3. Live' = Live /\ Accepted' = Accepted
  BY <1>0 DEF Live, Accepted
<1>4. SlotInv'
  BY <1>0, <1>3 DEF EchoInv, SlotInv, PollAlive
<1>5. PICK hups \in SUBSET {c \in Conns : client_end[c] \in {"half", "closed"}} :
        revents' = [c \in Conns |-> IF \E i \in Live : fds[i] = c
                                    THEN Ready(c, hups) ELSE {}]
  BY DEF PollReturns
<1>6. revents' \in [Conns -> SUBSET {"POLLIN", "POLLHUP"}]
  BY <1>5 DEF Ready
<1>2. PollTypes'
  BY <1>0, <1>6 DEF EchoInv, PollTypes
<1>7. \A c \in Conns : /\ "POLLHUP" \in revents'[c] => Ended(c)
                       /\ "POLLIN" \in revents'[c] => up[c] # << >> \/ Ended(c)
  BY <1>5 DEF Ready, EndOfInput, Ended
<1>8. EventInv'
  <2>1. \A i \in Live : fds[i] \in Conns
    BY DEF EchoInv, PollTypes, Live
  <2>2. \A c \in Conns : Ended(c)' <=> Ended(c)
    BY <1>0 DEF Ended
  <2>. QED  BY <1>0, <1>3, <1>7, <2>1, <2>2 DEF EventInv, ToRead
<1>9. ByteMove
  BY <1>0 DEF Polling, Threaded, EchoInv, ByteInv, ByteMove, ByteStep, SameNet,
              Held, Underway
<1>. QED  BY <1>1, <1>2, <1>4, <1>8, <1>9 DEF PollKept

(* A connection gets a slot.                                               *)
LEMMA AddsKeeps ==
  ASSUME EchoInv, Polling, UNCHANGED threadVars, NEW c \in Conns, Adds(c)
  PROVE  PollKept
<1> DEFINE n == Len(fds) + 1
<1>0. /\ server_end[c] = "backlog" /\ AcceptConn(c) /\ at = "accept" /\ at' = at /\ slot' = slot
      /\ fds' = Append(fds, c) /\ buffer' = [buffer EXCEPT ![c] = << >>]
      /\ p_active_clients' = p_active_clients + 1 /\ fresh' = fresh \cup {c}
      /\ PollAlive /\ UNCHANGED threadVars
  BY DEF Adds, AddSlot, Backlog, PollAlive
<1>r. PICK r \in SUBSET {"POLLIN", "POLLHUP"} : revents' = [revents EXCEPT ![c] = r]
  BY Zenon DEF Adds, AddSlot
<1>n. /\ server_end' = [server_end EXCEPT ![c] = "open"]
      /\ UNCHANGED <<port, client_end, up, down, reset, sent, got>>
  BY <1>0 DEF AcceptConn
<1>1. NetStep
  BY <1>0 DEF NetStep, Backlog
<1>2. PollTypes'
  <2>1. fds' \in Seq(Conns \cup {NoFd})
    BY <1>0 DEF EchoInv, PollTypes
  <2>2. buffer' \in Bytes
    <3>1. buffer \in Bytes /\ << >> \in Seq(Nat)
      BY DEF EchoInv, PollTypes
    <3>. QED  BY <1>0, <3>1, StillBytes
  <2>3. revents' \in [Conns -> SUBSET {"POLLIN", "POLLHUP"}]
    BY <1>r DEF EchoInv, PollTypes
  <2>. QED  BY <1>0, <2>1, <2>2, <2>3 DEF EchoInv, PollTypes
<1>3. /\ \A i \in 1 .. Len(fds) : fds'[i] = fds[i]
      /\ fds'[n] = c /\ n \notin 1 .. Len(fds) /\ n \in Nat
      /\ DOMAIN fds' = 1 .. Len(fds) \cup {n} /\ DOMAIN fds = 1 .. Len(fds)
  BY <1>0 DEF EchoInv, PollTypes
<1> HIDE DEF n
<1>4. Live' = Live \cup {n} /\ n \notin Live
  BY <1>3, PollAssumption DEF Live
<1>5. Accepted' = Accepted \cup {c} /\ c \notin Accepted
  BY <1>0, <1>n DEF Accepted, EchoInv, NetTypes
<1>l. \A i \in Live : fds'[i] = fds[i]
  BY <1>3 DEF Live
<1>o. /\ \A i \in Live : fds[i] \in Accepted
      /\ \A d \in Accepted : \E i \in Live : fds[i] = d
      /\ \A i, j \in Live : fds[i] = fds[j] => i = j
      /\ p_active_clients = Cardinality(Live)
      /\ p_active_clients = Cardinality(Accepted)
  BY <1>0 DEF EchoInv, SlotInv
<1>6. SlotInv'
  <2>1. \A i \in Live' : fds'[i] \in Accepted'
    BY <1>3, <1>4, <1>5, <1>l, <1>o
  <2>2. \A d \in Accepted' : \E i \in Live' : fds'[i] = d
    BY <1>3, <1>4, <1>5, <1>l, <1>o
  <2>3. \A i, j \in Live' : fds'[i] = fds'[j] => i = j
    BY <1>3, <1>4, <1>5, <1>l, <1>o
  <2>4. p_active_clients' = Cardinality(Live')
    <3>1. Cardinality(Live \cup {n}) = Cardinality(Live) + 1
      BY <1>4, FiniteSlots, FS_AddElement DEF EchoInv
    <3>. QED  BY <1>0, <1>4, <1>o, <3>1
  <2>5. p_active_clients' = Cardinality(Accepted')
    <3>1. IsFiniteSet(Accepted)
      BY FiniteConns DEF Accepted
    <3>2. Cardinality(Accepted \cup {c}) = Cardinality(Accepted) + 1
      BY <1>5, <3>1, FS_AddElement
    <3>. QED  BY <1>0, <1>5, <1>o, <3>2
  <2>6. at' # "write"
    BY <1>0
  <2>. QED  BY <2>1, <2>2, <2>3, <2>4, <2>5, <2>6 DEF SlotInv
<1>7. EventInv'
  <2>1. \A d \in Conns : Ended(d)' <=> Ended(d)
    BY <1>n DEF Ended
  <2>2. \A d \in Conns \ fresh' : d \notin fresh /\ revents'[d] = revents[d]
    BY <1>0, <1>r DEF EchoInv, PollTypes
  <2>3. \A d \in Conns \ fresh' : "POLLHUP" \in revents'[d] => Ended(d)'
    BY <2>1, <2>2 DEF EchoInv, EventInv
  <2>4. \A i \in ToRead' : fds'[i] \in fresh' \/ (i \in ToRead /\ fds'[i] = fds[i])
    BY <1>0, <1>3, <1>4, <1>l DEF ToRead
  <2>5. \A i \in Live : fds[i] \in Conns
    BY DEF EchoInv, PollTypes, Live
  <2>6. ASSUME NEW i \in ToRead', fds'[i] \notin fresh', "POLLIN" \in revents'[fds'[i]]
        PROVE  (up[fds[i]] # << >> \/ Ended(fds[i]))'
    <3>1. i \in ToRead /\ fds'[i] = fds[i] /\ fds[i] \in Conns
      BY <2>4, <2>5, <2>6 DEF ToRead
    <3>2. fds[i] \notin fresh /\ "POLLIN" \in revents[fds[i]]
      BY <2>2, <2>6, <3>1
    <3>3. up[fds[i]] # << >> \/ Ended(fds[i])
      BY <3>1, <3>2 DEF EchoInv, EventInv
    <3>. QED  BY <1>n, <2>1, <3>1, <3>3 DEF Ended
  <2>. QED  BY <2>3, <2>6 DEF EventInv
<1>8. ByteMove
  <2>1. buffer[c] = << >>
    BY <1>0 DEF Polling, Threaded, EchoInv, ByteInv, Held
  <2>2. \A d \in Conns : buffer'[d] = buffer[d]
    BY <1>0, <2>1 DEF EchoInv, PollTypes, Bytes
  <2>3. \A d \in Conns : Held(d)' = Held(d)
    BY <1>n, <2>2 DEF Polling, Threaded, Held
  <2>4. \A d \in Conns : ByteStep(d)
    BY <1>n, <2>3 DEF ByteStep, SameNet
  <2>5. \A d \in Conns : Underway(d)' => Underway(d)
    BY <1>0, <1>n DEF Polling, Threaded, Underway, EchoInv, NetTypes
  <2>6. \A d \in Conns : server_end'[d] \in {"none", "backlog"}
                           => server_end[d] \in {"none", "backlog"}
    BY <1>n DEF EchoInv, NetTypes
  <2>. QED  BY <2>3, <2>4, <2>5, <2>6 DEF ByteMove, EchoInv, ByteInv
<1>. QED  BY <1>1, <1>2, <1>6, <1>7, <1>8 DEF PollKept

(* A step that leaves the slots and the reports alone, and after which     *)
(* nobody else is accepted or has fewer bytes for the server.              *)
LEMMA SlotsAlone ==
  ASSUME EchoInv, Polling, NetStep, UNCHANGED pollVars, Accepted' = Accepted,
         \A d \in Accepted : up[d] # << >> => up'[d] # << >>
  PROVE  PollTypes' /\ SlotInv' /\ EventInv'
<1> USE DEF pollVars
<1>1. PollTypes'
  BY DEF EchoInv, PollTypes
<1>2. Live' = Live /\ ToRead' = ToRead /\ port' = port /\ (PollAlive' <=> PollAlive)
  BY EndedStays DEF Live, ToRead, EchoInv, PollAlive
<1>3. SlotInv'
  BY <1>2 DEF EchoInv, SlotInv
<1>4. \A d \in Conns : Ended(d) => Ended(d)'
  BY EndedStays DEF EchoInv
<1>5. \A i \in ToRead : fds[i] \in Accepted /\ fds[i] \in Conns
  BY DEF EchoInv, SlotInv, PollAlive, ToRead, Accepted
<1>6. \A d \in Conns \ fresh' : "POLLHUP" \in revents'[d] => Ended(d)'
  BY <1>4 DEF EchoInv, EventInv
<1>7. ASSUME NEW i \in ToRead, fds[i] \notin fresh, "POLLIN" \in revents[fds[i]]
      PROVE  (up[fds[i]] # << >> \/ Ended(fds[i]))'
  <2> DEFINE d == fds[i]
  <2>1. up[d] # << >> \/ Ended(d)
    BY <1>7 DEF EchoInv, EventInv
  <2>2. d \in Accepted /\ d \in Conns /\ fds'[i] = d
    BY <1>5
  <2>3. up'[d] # << >> \/ Ended(d)'
    BY <1>4, <2>1, <2>2
  <2>. QED  BY <2>2, <2>3 DEF Ended
<1>8. EventInv'
  BY <1>2, <1>6, <1>7 DEF EventInv
<1>. QED  BY <1>1, <1>3, <1>8

(* A connection is closed before it has a slot.                            *)
LEMMA RefusesKeeps ==
  ASSUME EchoInv, Polling, UNCHANGED threadVars, NEW c \in Conns, Refuses(c)
  PROVE  PollKept
<1>0. server_end[c] = "backlog" /\ CloseServerEnds({c}) /\ UNCHANGED pollVars
  BY DEF Refuses, Backlog
<1>1. NetStep
  BY <1>0 DEF NetStep
<1>n. /\ server_end' = [d \in Conns |-> IF d \in {c} THEN "closed" ELSE server_end[d]]
      /\ \A d \in Conns : d # c => server_end'[d] = server_end[d] /\ up'[d] = up[d]
      /\ reset \subseteq reset' /\ UNCHANGED <<port, client_end, down, sent, got>>
      /\ server_end'[c] = "closed"
  BY <1>0 DEF CloseServerEnds
<1>2. Accepted' = Accepted
  BY <1>0, <1>n DEF Accepted
<1>3. \A d \in Accepted : up'[d] = up[d]
  BY <1>0, <1>n DEF Accepted
<1>4. PollTypes' /\ SlotInv' /\ EventInv'
  BY <1>0, <1>1, <1>2, <1>3, SlotsAlone
<1>5. ByteMove
  <2>1. \A d \in Conns : Held(d)' = Held(d)
    BY <1>0, <1>n DEF Held, pollVars, threadVars
  <2>2. \A d \in Conns : d # c => ByteStep(d)
    BY <1>n, <2>1 DEF ByteStep, SameNet
  <2>3. \A d \in Conns : Underway(d)' => d # c /\ Underway(d)
    BY <1>n DEF Polling, Threaded, Underway, threadVars
  <2>4. \A d \in Conns : server_end'[d] \in {"none", "backlog"}
                           => server_end[d] \in {"none", "backlog"}
    BY <1>n
  <2>. QED  BY <2>1, <2>2, <2>3, <2>4 DEF ByteMove, EchoInv, ByteInv
<1>. QED  BY <1>1, <1>4, <1>5 DEF PollKept

(* The process ends.                                                       *)
LEMMA StopsKeeps ==
  ASSUME EchoInv, Polling, UNCHANGED threadVars, Stops
  PROVE  PollKept
<1> DEFINE S == Accepted \cup Backlog
<1>0. /\ CloseServerEnds(S) /\ ~PollAlive' /\ PollAlive
      /\ UNCHANGED <<slot, revents, slotVars, fresh>>
      /\ at' \in {"exit", "killed"}
  BY DEF Stops, PollStops, PollAlive
<1>s. S \in SUBSET Conns /\ \A c \in S : server_end[c] # "none"
  BY DEF Accepted, Backlog
<1>1. NetStep
  BY <1>0, <1>s DEF NetStep
<1>n. /\ \A d \in Conns : IF d \in S THEN server_end'[d] = "closed"
                          ELSE server_end'[d] = server_end[d] /\ up'[d] = up[d]
      /\ reset \subseteq reset' /\ UNCHANGED <<port, client_end, down, sent, got>>
  BY <1>0, <1>s DEF CloseServerEnds
<1>2. PollTypes'
  BY <1>0 DEF EchoInv, PollTypes, slotVars
<1>3. SlotInv'
  BY <1>0 DEF SlotInv
<1>4. EventInv'
  <2>1. \A d \in Conns : Ended(d) => Ended(d)'
    BY <1>1, EndedStays DEF EchoInv
  <2>2. ToRead' = {}
    BY <1>0 DEF ToRead
  <2>3. \A d \in Conns \ fresh' : "POLLHUP" \in revents'[d] => Ended(d)'
    BY <1>0, <2>1 DEF EchoInv, EventInv
  <2>. QED  BY <2>2, <2>3 DEF EventInv
<1>5. ByteMove
  <2>1. \A d \in Conns : Held(d)' = Held(d)
    BY <1>0, <1>n DEF Held, slotVars, threadVars
  <2>2. \A d \in Conns : d \notin S => ByteStep(d)
    BY <1>n, <2>1 DEF ByteStep, SameNet
  <2>3. \A d \in Conns : Underway(d)' => d \notin S /\ Underway(d)
    BY <1>n DEF Polling, Threaded, Underway, threadVars
  <2>4. \A d \in Conns : server_end'[d] \in {"none", "backlog"}
                           => server_end[d] \in {"none", "backlog"}
    BY <1>n
  <2>. QED  BY <2>1, <2>2, <2>3, <2>4 DEF ByteMove, EchoInv, ByteInv
<1>. QED  BY <1>1, <1>2, <1>3, <1>4, <1>5 DEF PollKept

(* The server closes a slot.                                               *)
LEMMA DropsKeeps ==
  ASSUME EchoInv, Polling, UNCHANGED threadVars, NEW c \in Conns, Drops(c)
  PROVE  PollKept
<1>0. /\ slot \in Live /\ fds[slot] = c /\ CloseServerEnds({c})
      /\ fds' = [fds EXCEPT ![slot] = NoFd] /\ buffer' = [buffer EXCEPT ![c] = << >>]
      /\ p_active_clients' = p_active_clients - 1
      /\ at' = "read" /\ slot' = slot + 1 /\ UNCHANGED <<revents, fresh>>
      /\ at \in {"read", "write"} /\ PollAlive
  BY DEF Drops, DropClient, NextSlot, PollAlive
<1>o. /\ \A i \in Live : fds[i] \in Accepted
      /\ \A d \in Accepted : \E i \in Live : fds[i] = d
      /\ \A i, j \in Live : fds[i] = fds[j] => i = j
      /\ p_active_clients = Cardinality(Live)
      /\ p_active_clients = Cardinality(Accepted)
  BY <1>0 DEF EchoInv, SlotInv
<1>c. server_end[c] = "open"
  BY <1>0, <1>o DEF Accepted
<1>1. NetStep
  BY <1>0, <1>c DEF NetStep
<1>n. /\ \A d \in Conns : d # c => server_end'[d] = server_end[d] /\ up'[d] = up[d]
      /\ reset \subseteq reset' /\ UNCHANGED <<port, client_end, down, sent, got>>
      /\ server_end'[c] = "closed"
  BY <1>0 DEF CloseServerEnds
<1>2. PollTypes'
  <2>1. fds' \in Seq(Conns \cup {NoFd})
    BY <1>0 DEF EchoInv, PollTypes, Live
  <2>2. buffer' \in Bytes
    <3>1. buffer \in Bytes /\ << >> \in Seq(Nat)
      BY DEF EchoInv, PollTypes
    <3>. QED  BY <1>0, <3>1, StillBytes
  <2>. QED  BY <1>0, <2>1, <2>2 DEF EchoInv, PollTypes
<1>3. /\ DOMAIN fds' = DOMAIN fds /\ \A i \in DOMAIN fds : i # slot => fds'[i] = fds[i]
      /\ fds'[slot] = NoFd
  BY <1>0 DEF EchoInv, PollTypes, Live
<1>4. Live' = Live \ {slot}
  BY <1>0, <1>3 DEF Live
<1>5. Accepted' = Accepted \ {c} /\ c \in Accepted
  BY <1>n, <1>c DEF Accepted
<1>l. \A i \in Live' : i \in Live /\ fds'[i] = fds[i] /\ fds[i] # c
  BY <1>0, <1>3, <1>4, <1>o DEF Live
<1>6. SlotInv'
  <2>1. \A i \in Live' : fds'[i] \in Accepted'
    BY <1>5, <1>l, <1>o
  <2>2. \A d \in Accepted' : \E i \in Live' : fds'[i] = d
    BY <1>0, <1>4, <1>5, <1>l, <1>o
  <2>3. \A i, j \in Live' : fds'[i] = fds'[j] => i = j
    BY <1>l, <1>o
  <2>4. p_active_clients' = Cardinality(Live')
    <3>1. Cardinality(Live \ {slot}) = Cardinality(Live) - 1
      BY <1>0, FiniteSlots, FS_RemoveElement DEF EchoInv
    <3>. QED  BY <1>0, <1>4, <1>o, <3>1
  <2>5. p_active_clients' = Cardinality(Accepted')
    <3>1. IsFiniteSet(Accepted)
      BY FiniteConns DEF Accepted
    <3>2. Cardinality(Accepted \ {c}) = Cardinality(Accepted) - 1
      BY <1>5, <3>1, FS_RemoveElement
    <3>. QED  BY <1>0, <1>5, <1>o, <3>2
  <2>6. at' # "write"
    BY <1>0
  <2>. QED  BY <2>1, <2>2, <2>3, <2>4, <2>5, <2>6 DEF SlotInv
<1>7. EventInv'
  <2>1. \A d \in Conns : Ended(d) => Ended(d)'
    BY <1>1, EndedStays DEF EchoInv
  <2>2. \A i \in ToRead' : i \in ToRead /\ fds'[i] = fds[i] /\ fds[i] # c /\ fds[i] \in Conns
    <3>1. slot \in Nat /\ \A i \in Live : i \in Nat /\ fds[i] \in Conns
      BY DEF EchoInv, PollTypes, Live
    <3>2. \A i \in ToRead' : i \in Live' /\ i >= slot + 1
      BY <1>0 DEF ToRead
    <3>3. \A i \in Live : i >= slot + 1 => i > slot /\ i >= slot
      BY <3>1
    <3>4. \A i \in ToRead' : i \in Live /\ i > slot /\ i >= slot
      BY <1>l, <3>2, <3>3
    <3>5. \A i \in ToRead' : i \in ToRead
      BY <1>0, <3>4 DEF ToRead
    <3>. QED  BY <1>l, <3>1, <3>2, <3>5
  <2>3. \A d \in Conns \ fresh' : "POLLHUP" \in revents'[d] => Ended(d)'
    BY <1>0, <2>1 DEF EchoInv, EventInv
  <2>4. ASSUME NEW i \in ToRead', fds'[i] \notin fresh', "POLLIN" \in revents'[fds'[i]]
        PROVE  (up[fds[i]] # << >> \/ Ended(fds[i]))'
    <3> DEFINE d == fds[i]
    <3>1. i \in ToRead /\ fds'[i] = d /\ d # c /\ d \in Conns
      BY <2>2
    <3>2. up[d] # << >> \/ Ended(d)
      BY <1>0, <2>4, <3>1 DEF EchoInv, EventInv
    <3>3. up'[d] # << >> \/ Ended(d)'
      BY <1>n, <2>1, <3>1, <3>2
    <3>. QED  BY <3>1, <3>3 DEF Ended
  <2>. QED  BY <2>3, <2>4 DEF EventInv
<1>8. ByteMove
  <2>1. \A d \in Conns : d # c => Held(d)' = Held(d)
    BY <1>0, <1>n DEF Held, EchoInv, PollTypes, Bytes, threadVars
  <2>2. \A d \in Conns : d # c => ByteStep(d)
    BY <1>n, <2>1 DEF ByteStep, SameNet
  <2>3. \A d \in Conns : Underway(d)' => d # c /\ Underway(d)
    BY <1>n DEF Polling, Threaded, Underway, threadVars
  <2>4. \A d \in Conns : server_end'[d] \in {"none", "backlog"}
                           => d # c /\ server_end[d] \in {"none", "backlog"}
    BY <1>n
  <2>. QED  BY <2>1, <2>2, <2>3, <2>4 DEF ByteMove, EchoInv, ByteInv
<1>. QED  BY <1>1, <1>2, <1>6, <1>7, <1>8 DEF PollKept

(* The server reads into a slot's buffer.                                  *)
LEMMA ReadsKeeps ==
  ASSUME EchoInv, Polling, UNCHANGED threadVars, NEW c \in Conns, ReadSome(c)
  PROVE  PollKept
<1>0. PICK n \in 1 .. Smaller(Len(up[c]), Room(c)) :
        /\ ServerReads(c, n)
        /\ buffer' = [buffer EXCEPT ![c] = @ \o SubSeq(up[c], 1, n)]
  BY Zenon DEF ReadSome
<1>u. /\ at = "read" /\ at' = "write" /\ slot \in Live /\ fds[slot] = c
      /\ UNCHANGED <<slot, fds, revents, p_active_clients, fresh>> /\ PollAlive
  BY DEF ReadSome, PollAlive
<1>t. buffer \in Bytes /\ up \in Bytes /\ buffer[c] \in Seq(Nat) /\ up[c] \in Seq(Nat)
  BY DEF EchoInv, NetTypes, PollTypes, Bytes
<1>k. n \in 1 .. Len(up[c]) /\ n \in Nat
  BY <1>0 DEF ServerReads
<1>o. /\ \A i \in Live : fds[i] \in Accepted
      /\ \A i, j \in Live : fds[i] = fds[j] => i = j
  BY <1>u DEF EchoInv, SlotInv
<1>n. /\ up' = [up EXCEPT ![c] = Rest(@, n)]
      /\ UNCHANGED <<port, server_end, client_end, down, reset, sent, got>>
  BY <1>0 DEF ServerReads
<1>1. NetStep
  BY <1>0, <1>k DEF NetStep
<1>2. PollTypes'
  <2> DEFINE x == buffer[c] \o SubSeq(up[c], 1, n)
  <2>1. SubSeq(up[c], 1, n) \in Seq(Nat)
    BY <1>t, <1>k, FrontOf
  <2>2. x \in Seq(Nat)
    BY <1>t, <2>1, Joined
  <2>3. buffer' = [buffer EXCEPT ![c] = x]
    BY <1>0
  <2> HIDE DEF x
  <2>4. buffer' \in Bytes
    BY <1>t, <2>2, <2>3, StillBytes
  <2>. QED  BY <1>u, <2>4 DEF EchoInv, PollTypes
<1>3. Live' = Live /\ Accepted' = Accepted
  BY <1>u, <1>n DEF Live, Accepted
<1>4. SlotInv'
  BY <1>u, <1>3 DEF EchoInv, SlotInv, PollAlive
<1>5. EventInv'
  <2>1. \A d \in Conns : Ended(d)' <=> Ended(d)
    BY <1>n DEF Ended
  <2>2. slot \in Nat /\ \A i \in Live : i \in Nat /\ fds[i] \in Conns
    BY DEF EchoInv, PollTypes, Live
  <2>3. \A i \in ToRead' : i \in Live /\ i > slot
    BY <1>u, <1>3 DEF ToRead
  <2>4. \A i \in ToRead' : i \in ToRead /\ fds[i] # c
    <3>1. \A i \in Live : i > slot => i >= slot /\ i # slot
      BY <2>2
    <3>2. \A i \in ToRead' : i \in ToRead
      BY <1>u, <2>3, <3>1 DEF ToRead
    <3>. QED  BY <1>u, <1>o, <2>3, <3>1, <3>2
  <2>5. \A d \in Conns \ fresh' : "POLLHUP" \in revents'[d] => Ended(d)'
    BY <1>u, <2>1 DEF EchoInv, EventInv
  <2>6. ASSUME NEW i \in ToRead', fds'[i] \notin fresh', "POLLIN" \in revents'[fds'[i]]
        PROVE  (up[fds[i]] # << >> \/ Ended(fds[i]))'
    <3> DEFINE d == fds[i]
    <3>1. i \in ToRead /\ fds'[i] = d /\ d # c /\ d \in Conns
      BY <1>u, <2>2, <2>3, <2>4
    <3>2. up[d] # << >> \/ Ended(d)
      BY <1>u, <2>6, <3>1 DEF EchoInv, EventInv
    <3>3. up'[d] # << >> \/ Ended(d)'
      BY <1>n, <1>t, <2>1, <3>1, <3>2 DEF Bytes
    <3>. QED  BY <3>1, <3>3 DEF Ended
  <2>. QED  BY <2>5, <2>6 DEF EventInv
<1>6. ByteMove
  <2>1. /\ Held(c)' = Held(c) \o SubSeq(up[c], 1, n) /\ up'[c] = Rest(up[c], n)
        /\ \A d \in Conns : d # c => Held(d)' = Held(d) /\ up'[d] = up[d]
    BY <1>0, <1>n, <1>t DEF Polling, Threaded, Held, Bytes
  <2>2. ByteStep(c)
    BY <1>k, <1>n, <2>1 DEF ByteStep, SameNet
  <2>3. \A d \in Conns : d # c => ByteStep(d)
    BY <1>n, <2>1 DEF ByteStep, SameNet
  <2>4. \A d \in Conns : Underway(d)' => Underway(d)
    BY <1>n DEF Polling, Threaded, Underway, threadVars
  <2>5. server_end[c] = "open"
    BY <1>u, <1>o DEF Accepted
  <2>. QED  BY <1>n, <2>1, <2>2, <2>3, <2>4, <2>5 DEF ByteMove, EchoInv, ByteInv
<1>. QED  BY <1>1, <1>2, <1>4, <1>5, <1>6 DEF PollKept

(* The server echoes from a slot's buffer.                                 *)
LEMMA EchoesKeeps ==
  ASSUME EchoInv, Polling, UNCHANGED threadVars, NEW c \in Conns,
         EchoSome(c), slot \in Live
  PROVE  PollKept
<1>0. PICK n \in 1 .. Len(buffer[c]) :
        /\ ServerWrites(c, SubSeq(buffer[c], 1, n))
        /\ buffer' = [buffer EXCEPT ![c] = Rest(buffer[c], n)]
  BY Zenon DEF EchoSome, Unwritten
<1>u. /\ at = "write" /\ at' = "read" /\ fds[slot] = c /\ slot' = slot + 1
      /\ UNCHANGED <<fds, revents, p_active_clients, fresh>> /\ PollAlive
  BY DEF EchoSome, NextSlot, PollAlive
<1>t. buffer \in Bytes /\ down \in Bytes /\ buffer[c] \in Seq(Nat) /\ slot \in Nat
  BY DEF EchoInv, NetTypes, PollTypes, Bytes
<1>k. n \in 0 .. Len(buffer[c])
  BY <1>0
<1>o. server_end[c] = "open"
  BY <1>u DEF EchoInv, SlotInv, Accepted
<1> DEFINE f == SubSeq(buffer[c], 1, n)
<1>f. f \in Seq(Nat)
  BY <1>t, <1>k, FrontOf
<1>n. /\ UNCHANGED <<port, server_end, client_end, up, sent, got>>
      /\ reset \subseteq reset'
      /\ c \in reset' \/ down' = [down EXCEPT ![c] = @ \o f]
      /\ \A d \in Conns : d # c => down'[d] = down[d]
  BY <1>0, <1>t DEF ServerWrites, Bytes
<1>1. NetStep
  BY <1>0, <1>f, <1>o DEF NetStep
<1>2. PollTypes'
  <2>1. Rest(buffer[c], n) \in Seq(Nat)
    BY <1>t, <1>k, RestOf
  <2>2. buffer' \in Bytes
    BY <1>0, <1>t, <2>1, StillBytes
  <2>. QED  BY <1>u, <1>t, <2>2 DEF EchoInv, PollTypes
<1>3. Live' = Live /\ Accepted' = Accepted
  BY <1>u, <1>n DEF Live, Accepted
<1>4. SlotInv'
  BY <1>u, <1>3, <1>n DEF EchoInv, SlotInv
<1>5. EventInv'
  <2>1. \A d \in Conns : Ended(d) => Ended(d)'
    BY <1>n DEF Ended
  <2>2. \A i \in Live : i \in Nat /\ fds[i] \in Conns
    BY DEF EchoInv, PollTypes, Live
  <2>3. \A i \in ToRead' : i \in Live /\ i >= slot + 1
    BY <1>u, <1>3 DEF ToRead
  <2>4. \A i \in Live : i >= slot + 1 => i > slot
    BY <1>t, <2>2
  <2>5. \A i \in ToRead' : i \in ToRead
    BY <1>u, <2>3, <2>4 DEF ToRead
  <2>6. \A d \in Conns \ fresh' : "POLLHUP" \in revents'[d] => Ended(d)'
    BY <1>u, <2>1 DEF EchoInv, EventInv
  <2>7. ASSUME NEW i \in ToRead', fds'[i] \notin fresh', "POLLIN" \in revents'[fds'[i]]
        PROVE  (up[fds[i]] # << >> \/ Ended(fds[i]))'
    <3> DEFINE d == fds[i]
    <3>1. i \in ToRead /\ fds'[i] = d /\ d \in Conns
      BY <1>u, <2>2, <2>3, <2>5
    <3>2. up[d] # << >> \/ Ended(d)
      BY <1>u, <2>7, <3>1 DEF EchoInv, EventInv
    <3>3. up'[d] # << >> \/ Ended(d)'
      BY <1>n, <2>1, <3>1, <3>2
    <3>. QED  BY <3>1, <3>3 DEF Ended
  <2>. QED  BY <2>6, <2>7 DEF EventInv
<1>6. ByteMove
  <2>1. /\ Held(c) = buffer[c] /\ Held(c)' = Rest(buffer[c], n)
        /\ \A d \in Conns : d # c => Held(d)' = Held(d)
    BY <1>0, <1>n, <1>t DEF Polling, Threaded, Held, Bytes
  <2>2. Underway(c)' => ByteStep(c)
    <3>1. SUFFICES ASSUME c \notin reset'  PROVE ByteStep(c)
      BY DEF Underway
    <3>2. down'[c] = down[c] \o SubSeq(Held(c), 1, n)
      BY <1>n, <1>t, <2>1, <3>1 DEF Bytes
    <3>. QED  BY <1>n, <2>1, <3>2 DEF ByteStep, SameNet
  <2>3. \A d \in Conns : d # c => ByteStep(d)
    BY <1>n, <2>1 DEF ByteStep, SameNet
  <2>4. \A d \in Conns : Underway(d)' => Underway(d)
    BY <1>n DEF Polling, Threaded, Underway, threadVars
  <2>. QED  BY <1>n, <1>o, <2>1, <2>2, <2>3, <2>4 DEF ByteMove, EchoInv, ByteInv
<1>. QED  BY <1>1, <1>2, <1>4, <1>5, <1>6 DEF PollKept

(* A client of the poll server, or a worker of the benchmark, connects.    *)
LEMMA ConnectsKeeps ==
  ASSUME EchoInv, UNCHANGED <<pollVars, threadVars>>, NEW c \in Conns, ClientConnects(c)
  PROVE  NetStep /\ ByteMove /\ Accepted' = Accepted /\ UNCHANGED up
<1>n. /\ client_end[c] = "away"
      /\ server_end' = [server_end EXCEPT ![c] = "backlog"]
      /\ UNCHANGED <<port, up, down, reset, sent, got>>
  BY DEF ClientConnects
<1>1. NetStep
  BY DEF NetStep
<1>2. /\ server_end[c] = "none" /\ up[c] = << >> /\ down[c] = << >>
      /\ sent[c] = 0 /\ got[c] = 0 /\ Held(c) = << >>
  BY <1>n DEF EchoInv, AwayInv, ByteInv
<1>3. Accepted' = Accepted
  BY <1>n, <1>2 DEF Accepted, EchoInv, NetTypes
<1>4. \A d \in Conns : Held(d)' = Held(d)
  BY <1>n DEF Held, pollVars, threadVars
<1>5. Blank(c)'
  BY <1>n, <1>2, <1>4 DEF Blank
<1>6. \A d \in Conns : d # c => ByteStep(d) /\ (Underway(d)' => Underway(d))
                                /\ server_end'[d] = server_end[d]
  BY <1>n, <1>4 DEF Polling, Threaded, ByteStep, SameNet, Underway, threadVars,
                    EchoInv, NetTypes
<1>7. ByteMove
  BY <1>2, <1>4, <1>5, <1>6 DEF ByteMove, EchoInv, ByteInv
<1>. QED  BY <1>1, <1>3, <1>7, <1>n

(* A client writes.                                                        *)
LEMMA SendsKeeps ==
  ASSUME EchoInv, UNCHANGED <<pollVars, threadVars>>, NEW c \in Conns, NEW n \in Nat,
         ClientWrites(c, n)
  PROVE  /\ NetStep /\ ByteMove /\ Accepted' = Accepted
         /\ \A d \in Accepted : up[d] # << >> => up'[d] # << >>
<1> DEFINE b == [i \in 1 .. n |-> sent[c] + i]
<1>t. up \in Bytes /\ up[c] \in Seq(Nat) /\ sent[c] \in Nat /\ sent \in [Conns -> Nat]
  BY DEF EchoInv, NetTypes, Bytes
<1>n. /\ UNCHANGED <<port, server_end, client_end, down, got>>
      /\ reset \subseteq reset' /\ sent' = [sent EXCEPT ![c] = @ + n]
      /\ (server_end[c] = "closed" /\ up' = up) \/ up' = [up EXCEPT ![c] = @ \o b]
      /\ \A d \in Conns : d # c => up'[d] = up[d] /\ sent'[d] = sent[d]
  BY <1>t DEF ClientWrites, Bytes
<1>1. NetStep
  BY DEF NetStep
<1>2. Accepted' = Accepted
  BY <1>n DEF Accepted
<1>3. \A d \in Conns : Held(d)' = Held(d)
  BY <1>n DEF Held, pollVars, threadVars
<1>4. Underway(c)' => ByteStep(c)
  <2>1. SUFFICES ASSUME server_end[c] # "closed"  PROVE ByteStep(c)
    BY <1>n DEF Underway
  <2>2. up'[c] = up[c] \o b /\ sent'[c] = sent[c] + n
    BY <1>n, <1>t, <2>1 DEF Bytes
  <2>. QED  BY <1>n, <1>3, <2>2 DEF ByteStep
<1>5. \A d \in Conns : d # c => ByteStep(d)
  BY <1>n, <1>3 DEF ByteStep, SameNet
<1>6. \A d \in Conns : Underway(d)' => Underway(d)
  BY <1>n DEF Polling, Threaded, Underway, threadVars
<1>7. ByteMove
  BY <1>n, <1>3, <1>4, <1>5, <1>6 DEF ByteMove, EchoInv, ByteInv
<1>8. up[c] # << >> => up'[c] # << >>
  <2>1. SUFFICES ASSUME up[c] # << >>, up' = [up EXCEPT ![c] = @ \o b]
                 PROVE  up'[c] # << >>
    BY <1>n
  <2>2. b \in Seq(Nat) /\ Len(b) = n
    BY <1>t, NewBytes
  <2> HIDE DEF b
  <2>3. Len(up[c] \o b) = Len(up[c]) + n
    BY <1>t, <2>2, Joined
  <2>4. Len(up[c]) \in Nat /\ Len(up[c]) # 0
    BY <1>t, <2>1
  <2>5. up'[c] = up[c] \o b
    BY <1>t, <2>1 DEF Bytes
  <2>6. Len(up'[c]) # 0
    BY <2>3, <2>4, <2>5
  <2>. QED  BY <2>6
<1>9. \A d \in Accepted : up[d] # << >> => up'[d] # << >>
  BY <1>n, <1>8 DEF Accepted
<1>. QED  BY <1>1, <1>2, <1>7, <1>9

(* A client reads.                                                         *)
LEMMA GetsKeeps ==
  ASSUME EchoInv, UNCHANGED <<pollVars, threadVars>>, NEW c \in Conns, NEW n \in Nat,
         ClientReads(c, n)
  PROVE  NetStep /\ ByteMove /\ Accepted' = Accepted /\ UNCHANGED up
<1>n. /\ n \in 1 .. Len(down[c])
      /\ down' = [down EXCEPT ![c] = Rest(@, n)] /\ got' = [got EXCEPT ![c] = @ + n]
      /\ UNCHANGED <<port, server_end, client_end, up, reset, sent>>
  BY DEF ClientReads
<1>1. NetStep
  BY DEF NetStep
<1>2. Accepted' = Accepted
  BY <1>n DEF Accepted
<1>3. \A d \in Conns : Held(d)' = Held(d)
  BY <1>n DEF Held, pollVars, threadVars
<1>4. /\ down'[c] = Rest(down[c], n) /\ got'[c] = got[c] + n
      /\ \A d \in Conns : d # c => down'[d] = down[d] /\ got'[d] = got[d]
  BY <1>n DEF EchoInv, NetTypes, Bytes
<1>5. ByteStep(c)
  BY <1>n, <1>3, <1>4 DEF ByteStep
<1>6. \A d \in Conns : d # c => ByteStep(d)
  BY <1>n, <1>3, <1>4 DEF ByteStep, SameNet
<1>7. \A d \in Conns : Underway(d)' => Underway(d)
  BY <1>n DEF Polling, Threaded, Underway, threadVars
<1>8. ByteMove
  BY <1>n, <1>3, <1>5, <1>6, <1>7 DEF ByteMove, EchoInv, ByteInv
<1>. QED  BY <1>1, <1>2, <1>8, <1>n

(* Clients close.                                                          *)
LEMMA ClosesKeeps ==
  ASSUME EchoInv, UNCHANGED <<pollVars, threadVars>>, NEW S \in SUBSET Conns,
         CloseClientEnds(S)
  PROVE  NetStep /\ ByteMove /\ Accepted' = Accepted /\ UNCHANGED up
<1>n. /\ UNCHANGED <<port, server_end, up, sent, got>> /\ reset \subseteq reset'
      /\ \A d \in Conns : d \in reset' \/ down'[d] = down[d]
  BY DEF CloseClientEnds, EchoInv, NetTypes, Bytes
<1>1. NetStep
  BY DEF NetStep
<1>2. Accepted' = Accepted
  BY <1>n DEF Accepted
<1>3. \A d \in Conns : Held(d)' = Held(d)
  BY <1>n DEF Held, pollVars, threadVars
<1>4. \A d \in Conns : Underway(d)' => Underway(d) /\ ByteStep(d)
  BY <1>n, <1>3 DEF Polling, Threaded, Underway, ByteStep, SameNet, threadVars
<1>5. ByteMove
  BY <1>n, <1>3, <1>4 DEF ByteMove, EchoInv, ByteInv
<1>. QED  BY <1>1, <1>2, <1>5, <1>n

(* The clients of the poll server.                                         *)
LEMMA PeersKeep ==
  ASSUME EchoInv, Polling, UNCHANGED threadVars, NEW c \in Conns,
         PeerReads(c) \/ PeerActs(c)
  PROVE  PollKept
<1>0. UNCHANGED <<pollVars, threadVars>>
  BY DEF PeerReads, PeerActs
<1> DEFINE Kept == /\ NetStep /\ ByteMove /\ Accepted' = Accepted
                   /\ \A d \in Accepted : up[d] # << >> => up'[d] # << >>
<1>1. CASE PeerReads(c)
  <2>1. ClientReads(c, 1) /\ 1 \in Nat
    BY <1>1 DEF PeerReads
  <2>2. Kept
    BY <1>0, <2>1, GetsKeeps
  <2>. QED  BY <1>0, <2>2, SlotsAlone DEF PollKept
<1>2. ASSUME ClientConnects(c)  PROVE Kept
  BY <1>0, <1>2, ConnectsKeeps
<1>3. ASSUME ClientWrites(c, 1)  PROVE Kept
  <2>1. 1 \in Nat
    OBVIOUS
  <2>. QED  BY <1>0, <1>3, <2>1, SendsKeeps
<1>4. ASSUME ShutsDown(c)  PROVE Kept
  <2>1. /\ UNCHANGED <<port, server_end, up, down, reset, sent, got>>
    BY <1>4 DEF ShutsDown
  <2>2. NetStep
    BY <1>4 DEF NetStep
  <2>3. ByteMove
    BY <1>0, <2>1 DEF Polling, Threaded, EchoInv, ByteInv, ByteMove, ByteStep,
                      SameNet, Held, Underway, pollVars, threadVars
  <2>. QED  BY <2>1, <2>2, <2>3 DEF Accepted
<1>5. ASSUME CloseClientEnds({c})  PROVE Kept
  <2>1. {c} \in SUBSET Conns
    OBVIOUS
  <2>. QED  BY <1>0, <1>5, <2>1, ClosesKeeps
<1>6. CASE PeerActs(c)
  <2>1. Kept
    BY <1>2, <1>3, <1>4, <1>5, <1>6 DEF PeerActs, ShutsDown
  <2>. QED  BY <1>0, <2>1, SlotsAlone DEF PollKept
<1>. QED  BY <1>1, <1>6

(* Every step of the poll server and its clients.                          *)
LEMMA PollSystemKeeps ==
  ASSUME EchoInv,
         \/ PollServerStep
         \/ PollSystem(PollSignal)
         \/ PollSystem(PollFails)
         \/ \E c \in Conns : PeerRead(c)
         \/ \E c \in Conns : PollSystem(PeerActs(c))
  PROVE  PollKept /\ Polling /\ UNCHANGED <<threadVars, clientVars>>
<1>1. Polling /\ UNCHANGED <<threadVars, clientVars>>
  BY DEF Polling, Threaded, PollServerStep, PeerRead, PollSystem
<1>2. ASSUME PollStep \/ PollSignal \/ PollFails  PROVE PollKept
  <2>1. PollEffect
    BY <1>1, <1>2, PollSteps
  <2>. QED  BY <1>1, <2>1, IdleKeeps, LooksKeeps, AddsKeeps, RefusesKeeps, DropsKeeps,
               ReadsKeeps, EchoesKeeps, StopsKeeps DEF PollEffect
<1>. QED  BY <1>1, <1>2, PeersKeep DEF PollServerStep, PeerRead, PollSystem

-----------------------------------------------------------------------------
(* The threaded server.                                                    *)

ThreadKept == NetStep /\ ThreadTypes' /\ HandlerInv' /\ CountInv' /\ ByteMove

(* A connection that was accepted is not unmade.                           *)
LEMMA OnceAccepted ==
  ASSUME NetTypes, AwayInv, NetStep
  PROVE  \A d \in Conns : server_end[d] \in {"open", "closed"}
                            => server_end'[d] \in {"open", "closed"}
<1> USE DEF NetTypes
<1> DEFINE Stays == \A d \in Conns : server_end[d] \in {"open", "closed"}
                                       => server_end'[d] \in {"open", "closed"}
<1>1. CASE NetIdle
  BY <1>1 DEF NetIdle
<1>2. ASSUME NEW S \in SUBSET Conns, CloseServerEnds(S)  PROVE Stays
  BY <1>2 DEF CloseServerEnds
<1>3. ASSUME NEW S \in SUBSET Conns, CloseClientEnds(S)  PROVE Stays
  BY <1>3 DEF CloseClientEnds
<1>4. ASSUME NEW c \in Conns, AcceptConn(c)  PROVE Stays
  BY <1>4 DEF AcceptConn
<1>5. ASSUME NEW c \in Conns, NEW n \in Nat, ServerReads(c, n)  PROVE Stays
  BY <1>5 DEF ServerReads
<1>6. ASSUME NEW c \in Conns, NEW b \in Seq(Nat), ServerWrites(c, b)  PROVE Stays
  BY <1>6 DEF ServerWrites
<1>7. ASSUME NEW c \in Conns, ClientConnects(c)  PROVE Stays
  BY <1>7 DEF ClientConnects, AwayInv
<1>8. ASSUME NEW c \in Conns, NEW n \in Nat, ClientWrites(c, n)  PROVE Stays
  BY <1>8 DEF ClientWrites
<1>9. ASSUME NEW c \in Conns, NEW n \in Nat, ClientReads(c, n)  PROVE Stays
  BY <1>9 DEF ClientReads
<1>10. ASSUME NEW c \in Conns, ShutsDown(c)  PROVE Stays
  BY <1>10 DEF ShutsDown
<1>. QED  BY <1>1, <1>2, <1>3, <1>4, <1>5, <1>6, <1>7, <1>8, <1>9, <1>10
           DEF NetStep, Backlog

(* The handlers that a step leaves alone.                                  *)
LEMMA HandlerAlone ==
  ASSUME EchoInv, Threaded, NetStep, t_running' => t_running, NEW d \in Conns,
         handler'[d] = handler[d], chunk'[d] = chunk[d]
  PROVE  /\ handler'[d] # "none" => server_end'[d] \in {"open", "closed"}
         /\ handler'[d] \in {"none", "test", "read"} => chunk'[d] = << >>
         /\ handler'[d] = "close" => ~t_running' \/ Ended(d)'
BY EndedStays, OnceAccepted DEF EchoInv, HandlerInv

(* A step of the network that the server has no part in.                   *)
LEMMA ThreadsAlone ==
  ASSUME EchoInv, Threaded, NetStep, UNCHANGED threadVars
  PROVE  ThreadTypes' /\ HandlerInv' /\ CountInv'
<1> USE DEF threadVars
<1>1. ThreadTypes'
  BY DEF EchoInv, ThreadTypes
<1>2. \A d \in Conns : /\ handler'[d] # "none" => server_end'[d] \in {"open", "closed"}
                       /\ handler'[d] \in {"none", "test", "read"} => chunk'[d] = << >>
                       /\ handler'[d] = "close" => ~t_running' \/ Ended(d)'
  BY HandlerAlone
<1>3. HandlerInv'
  BY <1>2 DEF HandlerInv
<1>4. CountInv'
  BY EndedStays DEF EchoInv, CountInv, Counted, ServerAlive
<1>. QED  BY <1>1, <1>3, <1>4

(* A step that changes neither the network nor a handler.                  *)
LEMMA MainIdleKeeps ==
  ASSUME EchoInv, Threaded, UNCHANGED pollVars, UNCHANGED <<netVars, handler, chunk>>,
         t_running' \in BOOLEAN, t_running' => t_running,
         ServerAlive' => ServerAlive,
         \/ t_active_clients' = t_active_clients /\ (main' = "count" <=> main = "count")
         \/ t_active_clients' = t_active_clients + 1 /\ main = "count" /\ main' # "count"
  PROVE  ThreadKept
<1>1. NetStep
  BY DEF NetStep, NetIdle, netVars
<1>2. ThreadTypes'
  BY DEF EchoInv, ThreadTypes
<1>3. \A d \in Conns : /\ handler'[d] # "none" => server_end'[d] \in {"open", "closed"}
                       /\ handler'[d] \in {"none", "test", "read"} => chunk'[d] = << >>
                       /\ handler'[d] = "close" => ~t_running' \/ Ended(d)'
  BY <1>1, HandlerAlone
<1>4. HandlerInv'
  BY <1>3 DEF HandlerInv
<1>5. CountInv'
  <2>1. Counted' = Counted
    BY DEF Counted
  <2>2. Cardinality(Counted) \in Nat
    BY FiniteConns DEF Counted
  <2>. QED  BY <2>1, <2>2 DEF EchoInv, CountInv, netVars, ThreadTypes
<1>6. ByteMove
  BY DEF Polling, Threaded, EchoInv, ByteInv, ByteMove, ByteStep, SameNet, Held,
         Underway, netVars, pollVars
<1>. QED  BY <1>1, <1>2, <1>4, <1>5, <1>6 DEF ThreadKept

(* Connections are closed, and no handler moves.                           *)
LEMMA ShutsKeeps ==
  ASSUME EchoInv, Threaded, UNCHANGED pollVars,
         UNCHANGED <<t_running, t_active_clients, handler, chunk>>,
         ServerAlive, ServerAlive' => main # "count" /\ main' # "count",
         NEW S \in SUBSET Conns, \A c \in S : server_end[c] # "none", CloseServerEnds(S)
  PROVE  ThreadKept
<1>1. NetStep
  BY DEF NetStep
<1>n. /\ \A d \in Conns : IF d \in S THEN server_end'[d] = "closed"
                          ELSE server_end'[d] = server_end[d] /\ up'[d] = up[d]
      /\ reset \subseteq reset' /\ UNCHANGED <<port, client_end, down, sent, got>>
  BY DEF CloseServerEnds
<1>2. ThreadTypes'
  BY DEF EchoInv, ThreadTypes
<1>3. \A d \in Conns : /\ handler'[d] # "none" => server_end'[d] \in {"open", "closed"}
                       /\ handler'[d] \in {"none", "test", "read"} => chunk'[d] = << >>
                       /\ handler'[d] = "close" => ~t_running' \/ Ended(d)'
  BY <1>1, HandlerAlone
<1>4. HandlerInv'
  BY <1>3 DEF HandlerInv
<1>5. CountInv'
  <2>1. Counted' = Counted
    BY DEF Counted
  <2>. QED  BY <2>1 DEF EchoInv, CountInv
<1>6. ByteMove
  <2>1. \A d \in Conns : Held(d)' = Held(d)
    BY <1>n DEF Held, pollVars
  <2>2. \A d \in Conns : d \notin S => ByteStep(d)
    BY <1>n, <2>1 DEF ByteStep, SameNet
  <2>3. \A d \in Conns : Underway(d)' => d \notin S /\ Underway(d)
    BY <1>n DEF Polling, Threaded, Underway
  <2>4. \A d \in Conns : server_end'[d] \in {"none", "backlog"}
                           => server_end[d] \in {"none", "backlog"}
    BY <1>n
  <2>. QED  BY <2>1, <2>2, <2>3, <2>4 DEF ByteMove, EchoInv, ByteInv
<1>. QED  BY <1>1, <1>2, <1>4, <1>5, <1>6 DEF ThreadKept

(* A connection gets a handler.                                            *)
LEMMA SpawnKeeps ==
  ASSUME EchoInv, Threaded, UNCHANGED pollVars, NEW c \in Conns, AcceptAndSpawn(c)
  PROVE  ThreadKept
<1>0. /\ main = "accept" /\ server_end[c] = "backlog" /\ AcceptConn(c)
      /\ handler' = [handler EXCEPT ![c] = "test"] /\ main' = "count"
      /\ UNCHANGED <<t_running, t_active_clients, chunk>>
  BY DEF AcceptAndSpawn, Backlog
<1>n. /\ server_end' = [server_end EXCEPT ![c] = "open"]
      /\ UNCHANGED <<port, client_end, up, down, reset, sent, got>>
  BY <1>0 DEF AcceptConn
<1>h. /\ handler[c] = "none" /\ handler'[c] = "test" /\ server_end'[c] = "open"
      /\ \A d \in Conns : d # c => handler'[d] = handler[d] /\ server_end'[d] = server_end[d]
  <2>1. handler[c] = "none"
    BY <1>0 DEF EchoInv, HandlerInv
  <2>2. handler'[c] = "test" /\ \A d \in Conns : d # c => handler'[d] = handler[d]
    BY <1>0 DEF EchoInv, ThreadTypes
  <2>3. /\ server_end'[c] = "open"
        /\ \A d \in Conns : d # c => server_end'[d] = server_end[d]
    BY <1>n DEF EchoInv, NetTypes
  <2>. QED  BY <2>1, <2>2, <2>3
<1>1. NetStep
  BY <1>0 DEF NetStep, Backlog
<1>2. ThreadTypes'
  BY <1>0 DEF EchoInv, ThreadTypes
<1>3. \A d \in Conns : d # c =>
        /\ handler'[d] # "none" => server_end'[d] \in {"open", "closed"}
        /\ handler'[d] \in {"none", "test", "read"} => chunk'[d] = << >>
        /\ handler'[d] = "close" => ~t_running' \/ Ended(d)'
  BY <1>0, <1>1, <1>h, HandlerAlone
<1>4. chunk[c] = << >>
  BY <1>h DEF EchoInv, HandlerInv
<1>5. HandlerInv'
  BY <1>0, <1>3, <1>4, <1>h DEF HandlerInv
<1>6. CountInv'
  <2>1. Counted' = Counted \cup {c} /\ c \notin Counted
    BY <1>h DEF Counted
  <2>2. IsFiniteSet(Counted) /\ Cardinality(Counted) \in Nat
    BY FiniteConns DEF Counted
  <2>3. Cardinality(Counted') = Cardinality(Counted) + 1
    BY <2>1, <2>2, FS_AddElement
  <2>4. t_active_clients = Cardinality(Counted)
    BY <1>0, <2>2 DEF EchoInv, CountInv, ServerAlive
  <2>. QED  BY <1>0, <2>2, <2>3, <2>4 DEF CountInv
<1>7. ByteMove
  <2>1. \A d \in Conns : Held(d)' = Held(d)
    BY <1>0, <1>n DEF Held, pollVars
  <2>2. \A d \in Conns : ByteStep(d)
    BY <1>n, <2>1 DEF ByteStep, SameNet
  <2>3. \A d \in Conns : Underway(d)' => Underway(d)
    BY <1>0, <1>h, <1>n DEF Polling, Threaded, Underway
  <2>4. \A d \in Conns : server_end'[d] \in {"none", "backlog"}
                           => server_end[d] \in {"none", "backlog"}
    BY <1>h
  <2>. QED  BY <2>1, <2>2, <2>3, <2>4 DEF ByteMove, EchoInv, ByteInv
<1>. QED  BY <1>1, <1>2, <1>5, <1>6, <1>7 DEF ThreadKept

(* A handler that stays counted: its own stage and chunk, and the others.  *)
LEMMA HandlerKeeps ==
  ASSUME EchoInv, Threaded, NEW c \in Conns, NetStep, ByteMove,
         UNCHANGED <<t_running, t_active_clients, main>>,
         ThreadTypes', handler[c] \notin {"none", "done"},
         handler'[c] \notin {"none", "done"},
         \A d \in Conns : d # c => handler'[d] = handler[d] /\ chunk'[d] = chunk[d],
         handler'[c] \in {"test", "read"} => chunk'[c] = << >>,
         handler'[c] = "close" => ~t_running \/ Ended(c)'
  PROVE  ThreadKept
<1>1. port' = port /\ \A d \in Conns : server_end[d] \in {"open", "closed"}
                                         => server_end'[d] \in {"open", "closed"}
  BY OnceAccepted, EndedStays DEF EchoInv
<1>2. \A d \in Conns : d # c =>
        /\ handler'[d] # "none" => server_end'[d] \in {"open", "closed"}
        /\ handler'[d] \in {"none", "test", "read"} => chunk'[d] = << >>
        /\ handler'[d] = "close" => ~t_running' \/ Ended(d)'
  BY HandlerAlone
<1>3. server_end'[c] \in {"open", "closed"}
  BY <1>1 DEF EchoInv, HandlerInv
<1>4. HandlerInv'
  BY <1>2, <1>3 DEF HandlerInv
<1>5. Counted' = Counted
  BY DEF Counted
<1>6. CountInv'
  BY <1>1, <1>5 DEF EchoInv, CountInv, ServerAlive
<1>. QED  BY <1>4, <1>6 DEF ThreadKept

(* A handler moves, and no byte does.                                      *)
Moves(c) ==
  \E stage \in {"test", "read", "write", "close"} :
    /\ handler' = [handler EXCEPT ![c] = stage]
    /\ stage = "close" => ~t_running \/ Ended(c)

(* It stays counted, and closes for a reason.                              *)
LEMMA StageKeeps ==
  ASSUME EchoInv, Threaded, UNCHANGED pollVars, NEW c \in Conns,
         UNCHANGED <<netVars, t_running, t_active_clients, main, chunk>>,
         handler[c] \in {"test", "read"},
         Moves(c)
  PROVE  ThreadKept
<1>0. PICK stage \in {"test", "read", "write", "close"} :
        /\ handler' = [handler EXCEPT ![c] = stage]
        /\ stage = "close" => ~t_running \/ Ended(c)
  BY Zenon DEF Moves
<1>1. NetStep
  BY DEF NetStep, NetIdle, netVars
<1>2. ThreadTypes'
  BY <1>0 DEF EchoInv, ThreadTypes
<1>3. ByteMove
  BY DEF Polling, Threaded, EchoInv, ByteInv, ByteMove, ByteStep, SameNet, Held,
         Underway, netVars, pollVars
<1>4. /\ handler'[c] = stage /\ chunk'[c] = << >>
      /\ \A d \in Conns : d # c => handler'[d] = handler[d] /\ chunk'[d] = chunk[d]
  BY <1>0 DEF EchoInv, ThreadTypes, HandlerInv
<1>5. Ended(c) => Ended(c)'
  BY <1>1, EndedStays DEF EchoInv
<1>6. handler[c] \notin {"none", "done"} /\ handler'[c] \notin {"none", "done"}
  BY <1>4
<1>7. UNCHANGED <<t_running, t_active_clients, main>>
  OBVIOUS
<1>8. handler'[c] = "close" => ~t_running \/ Ended(c)'
  BY <1>0, <1>4, <1>5
<1>. QED  BY <1>1, <1>2, <1>3, <1>4, <1>6, <1>7, <1>8, HandlerKeeps

(* A handler reads.                                                        *)
LEMMA HandlerReadsKeeps ==
  ASSUME EchoInv, Threaded, UNCHANGED pollVars, NEW c \in Conns, HandlerReads(c)
  PROVE  ThreadKept
<1>0. PICK n \in 1 .. Len(up[c]) :
        ServerReads(c, n) /\ chunk' = [chunk EXCEPT ![c] = SubSeq(up[c], 1, n)]
  BY Zenon DEF HandlerReads
<1>u. /\ handler[c] = "read" /\ handler' = [handler EXCEPT ![c] = "write"]
      /\ UNCHANGED <<t_running, t_active_clients, main>>
  BY DEF HandlerReads
<1>n. /\ up' = [up EXCEPT ![c] = Rest(@, n)]
      /\ UNCHANGED <<port, server_end, client_end, down, reset, sent, got>>
  BY <1>0 DEF ServerReads
<1>t. chunk \in Bytes /\ up \in Bytes /\ up[c] \in Seq(Nat)
      /\ n \in 0 .. Len(up[c]) /\ n \in Nat
  BY <1>0 DEF EchoInv, NetTypes, ThreadTypes, Bytes
<1>1. NetStep
  BY <1>0, <1>t DEF NetStep
<1> DEFINE f == SubSeq(up[c], 1, n)
<1>f. f \in Seq(Nat)
  BY <1>t, FrontOf
<1>c. chunk' = [chunk EXCEPT ![c] = f]
  BY <1>0
<1>2. ThreadTypes'
  <2> HIDE DEF f
  <2>1. chunk' \in Bytes
    BY <1>c, <1>t, <1>f, StillBytes
  <2>. QED  BY <1>u, <2>1 DEF EchoInv, ThreadTypes
<1>3. /\ handler'[c] = "write" /\ chunk'[c] = f /\ chunk[c] = << >>
      /\ \A d \in Conns : d # c => handler'[d] = handler[d] /\ chunk'[d] = chunk[d]
  BY <1>c, <1>u, <1>t DEF EchoInv, ThreadTypes, HandlerInv, Bytes
<1>4. ByteMove
  <2>1. << >> \o f = f
    BY <1>f
  <2>2. /\ Held(c)' = Held(c) \o SubSeq(up[c], 1, n) /\ up'[c] = Rest(up[c], n)
        /\ \A d \in Conns : d # c => Held(d)' = Held(d) /\ up'[d] = up[d]
    <3>1. Held(c)' = f /\ Held(c) = << >>
      BY <1>3, <1>n DEF Polling, Threaded, Held
    <3>. QED  BY <1>3, <1>n, <1>t, <2>1, <3>1 DEF Polling, Threaded, Held, Bytes
  <2>3. ByteStep(c)
    BY <1>n, <2>2 DEF ByteStep, SameNet
  <2>4. \A d \in Conns : d # c => ByteStep(d)
    BY <1>n, <2>2 DEF ByteStep, SameNet
  <2>5. \A d \in Conns : Underway(d)' => Underway(d)
    BY <1>n, <1>u DEF Polling, Threaded, Underway
  <2>6. server_end[c] \in {"open", "closed"}
    BY <1>u DEF EchoInv, HandlerInv
  <2>. QED  BY <1>n, <2>2, <2>3, <2>4, <2>5, <2>6 DEF ByteMove, EchoInv, ByteInv
<1>. QED  BY <1>1, <1>2, <1>3, <1>4, <1>u, HandlerKeeps

(* A handler writes.                                                       *)
LEMMA HandlerWritesKeeps ==
  ASSUME EchoInv, Threaded, UNCHANGED pollVars, NEW c \in Conns, HandlerWrites(c)
  PROVE  ThreadKept
<1>0. PICK n \in 1 .. Len(chunk[c]) :
        /\ ServerWrites(c, SubSeq(chunk[c], 1, n))
        /\ chunk' = [chunk EXCEPT ![c] = Rest(chunk[c], n)]
        /\ handler' = [handler EXCEPT ![c] =
                         IF Rest(chunk[c], n) = << >> THEN "test" ELSE "write"]
  BY Zenon DEF HandlerWrites, Unechoed
<1>u. handler[c] = "write" /\ UNCHANGED <<t_running, t_active_clients, main>>
  BY DEF HandlerWrites
<1>t. chunk \in Bytes /\ down \in Bytes /\ chunk[c] \in Seq(Nat) /\ n \in 0 .. Len(chunk[c])
  BY <1>0 DEF EchoInv, NetTypes, ThreadTypes, Bytes
<1> DEFINE f == SubSeq(chunk[c], 1, n)
           r == Rest(chunk[c], n)
<1>f. f \in Seq(Nat) /\ r \in Seq(Nat)
  BY <1>t, FrontOf, RestOf, SMTT(60)
<1>n. /\ UNCHANGED <<port, server_end, client_end, up, sent, got>>
      /\ reset \subseteq reset'
      /\ c \in reset' \/ down' = [down EXCEPT ![c] = @ \o f]
      /\ \A d \in Conns : d # c => down'[d] = down[d]
  BY <1>0, <1>t DEF ServerWrites, Bytes
<1>o. server_end[c] \in {"open", "closed"}
  BY <1>u DEF EchoInv, HandlerInv
<1>1. NetStep
  BY <1>0, <1>f, <1>o DEF NetStep
<1>2. ThreadTypes'
  <2>0. chunk' = [chunk EXCEPT ![c] = r]
    BY <1>0
  <2> HIDE DEF r
  <2>1. chunk' \in Bytes
    BY <2>0, <1>t, <1>f, StillBytes
  <2>2. handler' \in [Conns -> {"none", "test", "read", "write", "close", "leave", "done"}]
    BY <1>0 DEF EchoInv, ThreadTypes
  <2>. QED  BY <1>u, <2>1, <2>2 DEF EchoInv, ThreadTypes
<1>3. /\ handler'[c] \in {"test", "write"} /\ chunk'[c] = r
      /\ handler'[c] = "test" => r = << >>
      /\ \A d \in Conns : d # c => handler'[d] = handler[d] /\ chunk'[d] = chunk[d]
  BY <1>0, <1>t DEF EchoInv, ThreadTypes, Bytes
<1>4. ByteMove
  <2>1. /\ Held(c) = chunk[c] /\ Held(c)' = r
        /\ \A d \in Conns : d # c => Held(d)' = Held(d)
    BY <1>n, <1>3 DEF Polling, Threaded, Held
  <2>2. Underway(c)' => ByteStep(c)
    <3>1. SUFFICES ASSUME c \notin reset'  PROVE ByteStep(c)
      BY DEF Underway
    <3>2. down'[c] = down[c] \o SubSeq(Held(c), 1, n)
      BY <1>n, <1>t, <2>1, <3>1 DEF Bytes
    <3>. QED  BY <1>n, <2>1, <3>2 DEF ByteStep, SameNet
  <2>3. \A d \in Conns : d # c => ByteStep(d)
    BY <1>n, <2>1 DEF ByteStep, SameNet
  <2>4. \A d \in Conns : Underway(d)' => Underway(d)
    BY <1>n, <1>u DEF Polling, Threaded, Underway
  <2>. QED  BY <1>n, <1>o, <2>1, <2>2, <2>3, <2>4 DEF ByteMove, EchoInv, ByteInv
<1> HIDE DEF r
<1>5. /\ handler[c] \notin {"none", "done"} /\ handler'[c] \notin {"none", "done"}
      /\ handler'[c] \in {"test", "read"} => chunk'[c] = << >>
      /\ handler'[c] # "close"
  BY <1>3, <1>u
<1>. QED  BY <1>1, <1>2, <1>3, <1>4, <1>5, <1>u, HandlerKeeps

(* A handler gives up its chunk after a signal or a reset.                 *)
LEMMA GivesUpKeeps ==
  ASSUME EchoInv, Threaded, UNCHANGED pollVars, NEW c \in Conns, HandlerGivesUp(c)
  PROVE  ThreadKept
<1>0. /\ handler[c] = "write" /\ (~t_running \/ c \in reset)
      /\ chunk' = [chunk EXCEPT ![c] = << >>] /\ handler' = [handler EXCEPT ![c] = "test"]
      /\ UNCHANGED <<t_running, t_active_clients, main, netVars>>
  BY DEF HandlerGivesUp
<1>1. NetStep
  BY <1>0 DEF NetStep, NetIdle, netVars
<1>2. ThreadTypes'
  <2>1. chunk \in Bytes /\ << >> \in Seq(Nat)
    BY DEF EchoInv, ThreadTypes
  <2>2. chunk' \in Bytes
    BY <1>0, <2>1, StillBytes
  <2>. QED  BY <1>0, <2>2 DEF EchoInv, ThreadTypes
<1>3. /\ handler'[c] = "test" /\ chunk'[c] = << >>
      /\ \A d \in Conns : d # c => handler'[d] = handler[d] /\ chunk'[d] = chunk[d]
  BY <1>0 DEF EchoInv, ThreadTypes, Bytes
<1>4. ByteMove
  <2>1. \A d \in Conns : Underway(d)' => Underway(d) /\ d # c
    BY <1>0 DEF Polling, Threaded, Underway, netVars
  <2>2. /\ Held(c)' = << >>
        /\ \A d \in Conns : d # c => Held(d)' = Held(d)
    BY <1>0, <1>3 DEF Polling, Threaded, Held, netVars
  <2>3. \A d \in Conns : d # c => ByteStep(d)
    BY <1>0, <2>2 DEF ByteStep, SameNet, netVars
  <2>. QED  BY <1>0, <2>1, <2>2, <2>3 DEF ByteMove, EchoInv, ByteInv, netVars
<1>. QED  BY <1>0, <1>1, <1>2, <1>3, <1>4, HandlerKeeps

(* A handler closes its connection.                                        *)
LEMMA HandlerClosesKeeps ==
  ASSUME EchoInv, Threaded, UNCHANGED pollVars, NEW c \in Conns, HandlerCloses(c)
  PROVE  ThreadKept
<1>0. /\ handler[c] = "close" /\ CloseServerEnds({c})
      /\ handler' = [handler EXCEPT ![c] = "leave"]
      /\ UNCHANGED <<t_running, t_active_clients, main, chunk>>
  BY DEF HandlerCloses
<1>o. server_end[c] # "none"
  BY <1>0 DEF EchoInv, HandlerInv
<1>1. NetStep
  BY <1>0, <1>o DEF NetStep
<1>n. /\ \A d \in Conns : d # c => server_end'[d] = server_end[d] /\ up'[d] = up[d]
      /\ reset \subseteq reset' /\ UNCHANGED <<port, client_end, down, sent, got>>
      /\ server_end'[c] = "closed"
  BY <1>0 DEF CloseServerEnds
<1>2. ThreadTypes'
  BY <1>0 DEF EchoInv, ThreadTypes
<1>3. /\ handler'[c] = "leave"
      /\ \A d \in Conns : d # c => handler'[d] = handler[d] /\ chunk'[d] = chunk[d]
  BY <1>0 DEF EchoInv, ThreadTypes
<1>4. ByteMove
  <2>1. \A d \in Conns : Held(d)' = Held(d)
    BY <1>0, <1>n DEF Held, pollVars
  <2>2. \A d \in Conns : d # c => ByteStep(d)
    BY <1>n, <2>1 DEF ByteStep, SameNet
  <2>3. \A d \in Conns : Underway(d)' => d # c /\ Underway(d)
    BY <1>0, <1>n DEF Polling, Threaded, Underway
  <2>4. \A d \in Conns : server_end'[d] \in {"none", "backlog"}
                           => server_end[d] \in {"none", "backlog"}
    BY <1>n
  <2>. QED  BY <2>1, <2>2, <2>3, <2>4 DEF ByteMove, EchoInv, ByteInv
<1>. QED  BY <1>0, <1>1, <1>2, <1>3, <1>4, HandlerKeeps

(* A handler is counted out.                                               *)
LEMMA CountOutKeeps ==
  ASSUME EchoInv, Threaded, UNCHANGED pollVars, NEW c \in Conns, CountOut(c)
  PROVE  ThreadKept
<1>0. /\ handler[c] = "leave" /\ t_active_clients' = t_active_clients - 1
      /\ handler' = [handler EXCEPT ![c] = "done"]
      /\ UNCHANGED <<t_running, main, chunk, netVars>>
  BY DEF CountOut
<1>1. NetStep
  BY <1>0 DEF NetStep, NetIdle, netVars
<1>2. ThreadTypes'
  BY <1>0 DEF EchoInv, ThreadTypes
<1>3. /\ handler'[c] = "done"
      /\ \A d \in Conns : d # c => handler'[d] = handler[d] /\ chunk'[d] = chunk[d]
  BY <1>0 DEF EchoInv, ThreadTypes
<1>4. \A d \in Conns : d # c =>
        /\ handler'[d] # "none" => server_end'[d] \in {"open", "closed"}
        /\ handler'[d] \in {"none", "test", "read"} => chunk'[d] = << >>
        /\ handler'[d] = "close" => ~t_running' \/ Ended(d)'
  BY <1>0, <1>1, <1>3, HandlerAlone
<1>5. HandlerInv'
  BY <1>0, <1>3, <1>4 DEF EchoInv, HandlerInv, netVars
<1>6. CountInv'
  <2>1. Counted' = Counted \ {c} /\ c \in Counted
    BY <1>0, <1>3 DEF Counted
  <2>2. IsFiniteSet(Counted) /\ Cardinality(Counted) \in Nat
    BY FiniteConns DEF Counted
  <2>3. Cardinality(Counted') = Cardinality(Counted) - 1
    BY <2>1, <2>2, FS_RemoveElement
  <2>. QED  BY <1>0, <2>2, <2>3 DEF EchoInv, CountInv, ServerAlive, netVars
<1>7. ByteMove
  BY <1>0 DEF Polling, Threaded, EchoInv, ByteInv, ByteMove, ByteStep, SameNet,
              Held, Underway, netVars, pollVars
<1>. QED  BY <1>1, <1>2, <1>5, <1>6, <1>7 DEF ThreadKept

(* Every step of main.                                                     *)
LEMMA MainKeeps ==
  ASSUME EchoInv, Threaded, UNCHANGED pollVars, MainStep \/ ServerSignal
  PROVE  ThreadKept
<1>t. t_running \in BOOLEAN
  BY DEF EchoInv, ThreadTypes
<1>1. CASE LoopTest
  <2>1. /\ UNCHANGED <<netVars, handler, chunk>> /\ t_running' = t_running /\ ServerAlive
        /\ t_active_clients' = t_active_clients /\ main # "count" /\ main' # "count"
    BY <1>1 DEF LoopTest, ServerAlive
  <2>. QED  BY <1>t, <2>1, MainIdleKeeps
<1>2. ASSUME NEW c \in Conns, AcceptAndSpawn(c)  PROVE ThreadKept
  BY <1>2, SpawnKeeps
<1>3. ASSUME NEW c \in Conns, SpawnFails(c)  PROVE ThreadKept
  <2>1. /\ UNCHANGED <<t_running, t_active_clients, handler, chunk>>
        /\ ServerAlive /\ main # "count" /\ main' # "count" /\ CloseServerEnds({c})
        /\ {c} \in SUBSET Conns /\ \A d \in {c} : server_end[d] # "none"
    BY <1>3 DEF SpawnFails, ServerAlive, Backlog
  <2>. QED  BY <2>1, ShutsKeeps
<1>4. CASE AcceptFails
  <2>1. /\ UNCHANGED <<netVars, handler, chunk>> /\ t_running' = t_running /\ ServerAlive
        /\ t_active_clients' = t_active_clients /\ main # "count" /\ main' # "count"
    BY <1>4 DEF AcceptFails, ServerAlive
  <2>. QED  BY <1>t, <2>1, MainIdleKeeps
<1>5. CASE CountIn
  <2>1. /\ UNCHANGED <<netVars, handler, chunk>> /\ t_running' = t_running /\ ServerAlive
        /\ t_active_clients' = t_active_clients + 1 /\ main = "count" /\ main' # "count"
    BY <1>5 DEF CountIn, ServerAlive
  <2>. QED  BY <1>t, <2>1, MainIdleKeeps
<1>6. CASE CloseListener
  <2>1. /\ UNCHANGED <<t_running, t_active_clients, handler, chunk>>
        /\ ServerAlive /\ main # "count" /\ main' # "count" /\ CloseServerEnds(Backlog)
        /\ Backlog \in SUBSET Conns /\ \A d \in Backlog : server_end[d] # "none"
    BY <1>6 DEF CloseListener, ServerAlive, Backlog
  <2>. QED  BY <2>1, ShutsKeeps
<1>7. CASE ServerExits
  <2> DEFINE S == Accepted \cup Backlog
  <2>1. /\ UNCHANGED <<t_running, t_active_clients, handler, chunk>>
        /\ ServerAlive /\ ~ServerAlive' /\ CloseServerEnds(S)
    BY <1>7 DEF ServerExits, ServerStops, ServerAlive
  <2>2. S \in SUBSET Conns /\ \A d \in S : server_end[d] # "none"
    BY DEF Accepted, Backlog
  <2> HIDE DEF S
  <2>. QED  BY <2>1, <2>2, ShutsKeeps
<1>8. CASE ServerSignal
  <2>1. /\ UNCHANGED <<netVars, handler, chunk>> /\ t_running' = FALSE /\ ServerAlive
        /\ t_active_clients' = t_active_clients /\ main' = main
    BY <1>8 DEF ServerSignal
  <2>2. t_running' \in BOOLEAN /\ (t_running' => t_running)
    BY <2>1
  <2>. QED  BY <2>1, <2>2, MainIdleKeeps
<1>. QED  BY <1>1, <1>2, <1>3, <1>4, <1>5, <1>6, <1>7, <1>8 DEF MainStep

(* Every step of a handler.                                                *)
LEMMA HandlersKeep ==
  ASSUME EchoInv, Threaded, UNCHANGED pollVars, NEW c \in Conns, HandlerStep(c)
  PROVE  ThreadKept
<1>1. CASE HandlerTest(c)
  <2>1. /\ UNCHANGED <<netVars, t_running, t_active_clients, main, chunk>>
        /\ handler[c] \in {"test", "read"}
    BY <1>1 DEF HandlerTest
  <2>2. Moves(c)
    BY <1>1 DEF HandlerTest, Moves
  <2>. QED  BY <2>1, <2>2, StageKeeps
<1>2. CASE HandlerReadsNothing(c)
  <2>1. /\ UNCHANGED <<netVars, t_running, t_active_clients, main, chunk>>
        /\ handler[c] \in {"test", "read"} /\ (~t_running \/ Ended(c))
    BY <1>2 DEF HandlerReadsNothing, EndOfInput, Ended
  <2>2. Moves(c)
    BY <1>2, <2>1 DEF HandlerReadsNothing, Moves
  <2>. QED  BY <2>1, <2>2, StageKeeps
<1>3. CASE ServerSigpipe(c)
  <2> DEFINE S == Accepted \cup Backlog
  <2>1. /\ UNCHANGED <<t_running, t_active_clients, handler, chunk>>
        /\ ServerAlive /\ ~ServerAlive' /\ CloseServerEnds(S)
    BY <1>3 DEF ServerSigpipe, ServerStops, ServerAlive, HandlerStep
  <2>2. S \in SUBSET Conns /\ \A d \in S : server_end[d] # "none"
    BY DEF Accepted, Backlog
  <2> HIDE DEF S
  <2>. QED  BY <2>1, <2>2, ShutsKeeps
<1>. QED  BY <1>1, <1>2, <1>3, HandlerReadsKeeps, HandlerWritesKeeps, GivesUpKeeps,
             HandlerClosesKeeps, CountOutKeeps DEF HandlerStep

(* Every step of a worker, and of the benchmark's main.                    *)
LEMMA WorkersKeep ==
  ASSUME EchoInv, Threaded, UNCHANGED <<pollVars, threadVars>>, NEW c \in Conns,
         WorkerStep(c) \/ JoinAndReport
  PROVE  ThreadKept
<1> DEFINE Kept == NetStep /\ ByteMove
<1>1. ASSUME UNCHANGED netVars  PROVE Kept
  <2>1. NetStep
    BY <1>1 DEF NetStep, NetIdle, netVars
  <2>2. ByteMove
    BY <1>1 DEF Polling, Threaded, EchoInv, ByteInv, ByteMove, ByteStep, SameNet,
                Held, Underway, netVars, pollVars, threadVars
  <2>. QED  BY <2>1, <2>2
<1>2. ASSUME NEW S \in SUBSET Conns, CloseClientEnds(S)  PROVE Kept
  BY <1>2, ClosesKeeps
<1>3. CASE SpawnWorker(c) \/ ConnectFails(c) \/ ReadFails(c) \/ JoinAndReport
  <2>1. Kept
    BY <1>1, <1>3 DEF SpawnWorker, ConnectFails, ReadFails, JoinAndReport
  <2>. QED  BY <2>1, ThreadsAlone DEF ThreadKept
<1>4. CASE Connect(c)
  <2>1. Kept
    BY <1>4, ConnectsKeeps DEF Connect
  <2>. QED  BY <2>1, ThreadsAlone DEF ThreadKept
<1>5. CASE WriteMessage(c)
  <2>1. ClientWrites(c, message_size) /\ message_size \in Nat
    BY <1>5, ClientAssumption, NetAssumption DEF WriteMessage
  <2>2. Kept
    BY <2>1, SendsKeeps
  <2>. QED  BY <2>2, ThreadsAlone DEF ThreadKept
<1>6. CASE WriteFails(c) \/ HangUp(c)
  <2>1. {c} \in SUBSET Conns /\ CloseClientEnds({c})
    BY <1>6 DEF WriteFails, HangUp
  <2>2. Kept
    BY <1>2, <2>1
  <2>. QED  BY <2>2, ThreadsAlone DEF ThreadKept
<1>7. CASE ClientSigpipe(c)
  <2> DEFINE S == {d \in Conns : client_end[d] = "open"}
  <2>1. S \in SUBSET Conns /\ CloseClientEnds(S)
    BY <1>7 DEF ClientSigpipe
  <2> HIDE DEF S
  <2>2. Kept
    BY <1>2, <2>1
  <2>. QED  BY <2>2, ThreadsAlone DEF ThreadKept
<1>8. CASE ReadEcho(c)
  <2>1. PICK n \in 1 .. Smaller(Len(down[c]), message_size - total[c]) : ClientReads(c, n)
    BY <1>8 DEF ReadEcho
  <2>2. n \in Nat
    BY <2>1 DEF ClientReads
  <2>3. Kept
    BY <2>1, <2>2, GetsKeeps
  <2>. QED  BY <2>3, ThreadsAlone DEF ThreadKept
<1>. QED  BY <1>3, <1>4, <1>5, <1>6, <1>7, <1>8 DEF WorkerStep

-----------------------------------------------------------------------------
(* The invariant.                                                          *)

(* A step is one of the poll server's system or of the threaded one's.     *)
LEMMA EchoSteps ==
  ASSUME EchoInv, Next
  PROVE  \/ PollKept /\ Polling /\ UNCHANGED <<threadVars, clientVars>>
         \/ ThreadKept /\ Threaded /\ UNCHANGED pollVars
<1>1. ASSUME Threaded, UNCHANGED pollVars,
             \/ MainStep /\ UNCHANGED clientVars
             \/ ServerSignal /\ UNCHANGED clientVars
             \/ \E c \in Conns : HandlerStep(c)
             \/ \E c \in Conns : WorkerStep(c) /\ UNCHANGED threadVars
      PROVE  ThreadKept
  BY <1>1, MainKeeps, HandlersKeep, WorkersKeep
<1>2. ASSUME Threaded, UNCHANGED <<pollVars, threadVars>>, JoinAndReport
      PROVE  ThreadKept
  <2>1. UNCHANGED netVars
    BY <1>2 DEF JoinAndReport
  <2>2. NetStep
    BY <2>1 DEF NetStep, NetIdle, netVars
  <2>3. ByteMove
    BY <1>2, <2>1 DEF Polling, Threaded, EchoInv, ByteInv, ByteMove, ByteStep,
                      SameNet, Held, Underway, netVars, pollVars, threadVars
  <2>. QED  BY <1>2, <2>2, <2>3, ThreadsAlone DEF ThreadKept
<1>. QED  BY <1>1, <1>2, PollSystemKeeps
          DEF Polling, Threaded, Next, MainThread, HandlerThread, WorkerThread,
              BenchMain, ThreadSystem

(* The invariant holds at first.                                           *)
LEMMA EchoInit ==
  ASSUME Init
  PROVE  EchoInv
<1> USE DEF Init, NetInit, PollInit, ThreadsInit
<1>1. << >> \in Seq(Nat) /\ << >> \in Seq(Conns \cup {NoFd})
  OBVIOUS
<1>2. NetTypes
  BY <1>1 DEF NetTypes, Bytes, Ends
<1>3. PollTypes
  BY <1>1 DEF PollTypes, Bytes
<1>4. ThreadTypes
  BY <1>1 DEF ThreadTypes, Bytes
<1>5. AwayInv
  BY DEF AwayInv
<1>6. Live = {} /\ Accepted = {} /\ Counted = {} /\ Cardinality({}) = 0
  BY FS_EmptySet DEF Live, Accepted, Counted
<1>7. SlotInv
  BY <1>6 DEF SlotInv
<1>8. EventInv
  BY <1>6 DEF EventInv, ToRead
<1>9. HandlerInv
  BY DEF HandlerInv
<1>10. CountInv
  BY <1>6 DEF CountInv
<1>11. ByteInv
  BY DEF ByteInv, Held, Underway
<1>. QED  BY <1>2, <1>3, <1>4, <1>5, <1>7, <1>8, <1>9, <1>10, <1>11 DEF EchoInv

(* Every step keeps it.                                                    *)
LEMMA EchoKeeps ==
  ASSUME EchoInv, [Next]_vars
  PROVE  EchoInv'
<1>1. CASE UNCHANGED vars
  <2> USE <1>1 DEF vars, netVars, pollVars, threadVars
  <2>1. NetTypes' /\ PollTypes' /\ ThreadTypes'
    BY DEF EchoInv, NetTypes, PollTypes, ThreadTypes
  <2>2. AwayInv' /\ HandlerInv' /\ CountInv'
    BY DEF Polling, Threaded, EchoInv, AwayInv, HandlerInv, CountInv, Ended,
           Counted, ServerAlive
  <2>3. SlotInv'
    BY DEF Polling, Threaded, EchoInv, SlotInv, Live, Accepted, PollAlive
  <2>4. EventInv'
    BY DEF Polling, Threaded, EchoInv, EventInv, Live, ToRead, Ended
  <2>5. ByteInv'
    BY DEF Polling, Threaded, EchoInv, ByteInv, Held, Underway, InOrder
  <2>. QED  BY <2>1, <2>2, <2>3, <2>4, <2>5 DEF EchoInv
<1>2. CASE Next
  <2>1. NetStep /\ ByteMove
    BY <1>2, EchoSteps DEF PollKept, ThreadKept
  <2>2. NetTypes' /\ AwayInv' /\ port' = port
    BY <2>1, NetTypesStep, AwayStep, EndedStays DEF EchoInv
  <2>3. ByteInv'
    BY <2>1, ByteInvStep DEF EchoInv
  <2>4. CASE PollKept /\ Polling /\ UNCHANGED <<threadVars, clientVars>>
    <3>1. ThreadTypes'
      BY <2>4 DEF EchoInv, ThreadTypes, threadVars
    <3>2. HandlerInv' /\ CountInv'
      BY <2>2, <2>4 DEF Polling, Threaded, HandlerInv, CountInv
    <3>. QED  BY <2>2, <2>3, <2>4, <3>1, <3>2 DEF EchoInv, PollKept
  <2>5. CASE ThreadKept /\ Threaded /\ UNCHANGED pollVars
    <3>1. PollTypes'
      BY <2>5 DEF EchoInv, PollTypes, pollVars
    <3>2. SlotInv' /\ EventInv'
      BY <2>2, <2>5 DEF Polling, Threaded, SlotInv, EventInv
    <3>. QED  BY <2>2, <2>3, <2>5, <3>1, <3>2 DEF EchoInv, ThreadKept
  <2>. QED  BY <1>2, <2>4, <2>5, EchoSteps
<1>. QED  BY <1>1, <1>2

(* The invariant of the servers.                                           *)
THEOREM EchoCorrect == Spec => []EchoInv
<1>1. Init => EchoInv
  BY EchoInit
<1>2. EchoInv /\ [Next]_vars => EchoInv'
  BY EchoKeeps
<1>. QED  BY <1>1, <1>2, PTL DEF Spec

(* Through either server, with any number of connections and any sizes of  *)
(* reads and writes, no byte is lost, repeated or overtaken.               *)
THEOREM EchoIsInOrder == Spec => []EchoInOrder
<1>1. EchoInv => EchoInOrder
  <2> DEFINE Right(c) == down[c] \o Held(c) \o up[c] =
                           [i \in 1 .. sent[c] - got[c] |-> got[c] + i]
  <2>0. SUFFICES ASSUME EchoInv, NEW c \in Conns, Underway(c)
                 PROVE  Right(c)
    BY Zenon DEF EchoInOrder
  <2> DEFINE D == down[c]
             H == Held(c)
             U == up[c]
             S == sent[c]
             G == got[c]
  <2>1. /\ D \in Seq(Nat) /\ U \in Seq(Nat) /\ S \in Nat /\ G \in Nat
    BY <2>0 DEF EchoInv, NetTypes, Bytes
  <2>2. H \in Seq(Nat)
    BY <2>0, HeldIsSeq DEF EchoInv
  <2>3. Ordered(D, H, U, S, G)
    BY <2>0 DEF EchoInv, ByteInv, InOrder
  <2> HIDE DEF D, H, U, S, G
  <2>4. D \o H \o U = [i \in 1 .. S - G |-> G + i]
    BY <2>1, <2>2, <2>3, OrderedBytes
  <2>. QED  BY <2>4 DEF D, H, U, S, G
<1>. QED  BY <1>1, EchoCorrect, PTL

(* The counters of both servers agree with their connections, and every    *)
(* accepted connection has one slot of the poll server.                    *)
THEOREM ConnectionsAreCounted == Spec => []CountsAgree
<1>1. EchoInv => CountsAgree
  <2> SUFFICES ASSUME EchoInv  PROVE CountsAgree
    OBVIOUS
  <2>1. port = 8888 /\ ServerAlive =>
          t_active_clients = Cardinality({c \in Conns : handler[c] \notin {"none", "done"}})
                             - (IF main = "count" THEN 1 ELSE 0)
    BY DEF Polling, Threaded, EchoInv, CountInv, Counted
  <2>2. ASSUME port = 8889, PollAlive
        PROVE  /\ p_active_clients = Cardinality(Live)
               /\ {fds[i] : i \in Live} = Accepted
               /\ Cardinality(Live) = Cardinality(Accepted)
    BY <2>2 DEF Polling, Threaded, EchoInv, SlotInv
  <2>. QED  BY <2>1, <2>2 DEF CountsAgree
<1>. QED  BY <1>1, EchoCorrect, PTL

-----------------------------------------------------------------------------
(* Why a server closes a connection.                                       *)

Closes(c) == server_end[c] = "open" /\ server_end'[c] = "closed"

(* A client does not close the server's end.                               *)
LEMMA ClientsDoNotClose ==
  ASSUME NetTypes, NEW c \in Conns,
         \/ UNCHANGED server_end
         \/ \E d \in Conns : ClientConnects(d) \/ AcceptConn(d)
         \/ \E d \in Conns, n \in Nat : ClientWrites(d, n) \/ ClientReads(d, n)
         \/ \E S \in SUBSET Conns : CloseClientEnds(S)
  PROVE  ~Closes(c)
BY DEF Closes, NetTypes, ClientConnects, AcceptConn, ClientWrites, ClientReads,
       CloseClientEnds

(* The poll server: what poll has told is still true, or it was not asked. *)
LEMMA PollCloses ==
  ASSUME EchoInv, Polling, NEW c \in Conns, Closes(c),
         PollStep \/ PollSignal \/ PollFails
  PROVE  Ended(c) \/ ~PollAlive' \/ c \in fresh \/ Room(c) = 0
<1>0. NetTypes /\ server_end[c] = "open"
  BY DEF EchoInv, Closes
<1> DEFINE Reason == Ended(c) \/ ~PollAlive' \/ c \in fresh \/ Room(c) = 0
<1>1. CASE PollIdle \/ PollReturns
  BY <1>0, <1>1, ClientsDoNotClose DEF PollIdle, PollReturns, netVars
<1>2. ASSUME NEW d \in Conns, Adds(d)  PROVE Reason
  BY <1>0, <1>2, ClientsDoNotClose DEF Adds, AddSlot
<1>3. ASSUME NEW d \in Conns, Refuses(d)  PROVE Reason
  <2>1. server_end[d] = "backlog" /\ CloseServerEnds({d})
    BY <1>3 DEF Refuses, Backlog
  <2>2. c # d
    BY <1>0, <2>1
  <2>3. server_end'[c] = server_end[c]
    BY <2>1, <2>2 DEF CloseServerEnds
  <2>. QED  BY <2>3 DEF Closes
<1>4. ASSUME NEW d \in Conns, Drops(d)  PROVE Reason
  <2>1. CloseServerEnds({d}) /\ slot \in Live /\ fds[slot] = d
    BY <1>4 DEF Drops, DropClient
  <2>2. c = d
    BY <2>1 DEF CloseServerEnds, Closes
  <2>3. CASE at = "read" /\ "POLLIN" \in revents[c] /\ up[c] = << >>
    <3>1. slot \in Nat
      BY DEF EchoInv, PollTypes
    <3>2. slot \in ToRead
      BY <2>1, <2>3, <3>1 DEF ToRead
    <3>3. fds[slot] = c
      BY <2>1, <2>2
    <3>. QED  BY <2>3, <3>2, <3>3 DEF EchoInv, EventInv
  <2>4. CASE at = "write" /\ "POLLHUP" \in revents[c]
    BY <2>4 DEF EchoInv, EventInv
  <2>. QED  BY <1>4, <2>2, <2>3, <2>4 DEF Drops
<1>5. ASSUME NEW d \in Conns, ReadSome(d) \/ EchoSome(d)  PROVE Reason
  <2>1. UNCHANGED server_end
    BY <1>5 DEF ReadSome, EchoSome, ServerReads, ServerWrites
  <2>. QED  BY <1>0, <2>1, ClientsDoNotClose
<1>6. CASE Stops
  BY <1>6 DEF Stops, PollStops, PollAlive
<1>7. PollEffect
  BY PollSteps
<1>. QED  BY <1>1, <1>2, <1>3, <1>4, <1>5, <1>6, <1>7 DEF PollEffect

(* The clients of the poll server.                                         *)
LEMMA PeersDoNotClose ==
  ASSUME NetTypes, NEW c \in Conns, NEW d \in Conns, PeerReads(d) \/ PeerActs(d)
  PROVE  ~Closes(c)
<1>1. {d} \in SUBSET Conns /\ 1 \in Nat
  OBVIOUS
<1>2. \/ UNCHANGED server_end
      \/ ClientConnects(d)
      \/ ClientWrites(d, 1) \/ ClientReads(d, 1)
      \/ CloseClientEnds({d})
  BY DEF PeerReads, PeerActs
<1>. QED  BY <1>1, <1>2, ClientsDoNotClose

(* The workers of the benchmark.                                           *)
LEMMA WorkersDoNotClose ==
  ASSUME NetTypes, NEW c \in Conns, NEW d \in Conns, WorkerStep(d)
  PROVE  ~Closes(c)
<1>1. CASE SpawnWorker(d) \/ ConnectFails(d) \/ ReadFails(d)
  BY <1>1, ClientsDoNotClose DEF SpawnWorker, ConnectFails, ReadFails, netVars
<1>2. CASE Connect(d)
  BY <1>2, ClientsDoNotClose DEF Connect
<1>3. CASE WriteMessage(d)
  <2>1. ClientWrites(d, message_size) /\ message_size \in Nat
    BY <1>3, ClientAssumption, NetAssumption DEF WriteMessage
  <2>. QED  BY <2>1, ClientsDoNotClose
<1>4. CASE WriteFails(d) \/ HangUp(d) \/ ClientSigpipe(d)
  <2>1. UNCHANGED server_end
    BY <1>4 DEF WriteFails, HangUp, ClientSigpipe, CloseClientEnds
  <2>. QED  BY <2>1, ClientsDoNotClose
<1>5. CASE ReadEcho(d)
  <2>1. UNCHANGED server_end
    BY <1>5 DEF ReadEcho, ClientReads
  <2>. QED  BY <2>1, ClientsDoNotClose
<1>. QED  BY <1>1, <1>2, <1>3, <1>4, <1>5 DEF WorkerStep

(* The threaded server: its handlers close for a reason.                   *)
LEMMA ThreadsClose ==
  ASSUME EchoInv, Threaded, NEW c \in Conns, Closes(c),
         MainStep \/ ServerSignal \/ \E d \in Conns : HandlerStep(d)
  PROVE  Ended(c) \/ ~t_running \/ ~ServerAlive'
<1>0. NetTypes /\ server_end[c] = "open" /\ server_end'[c] # server_end[c]
  BY DEF EchoInv, Closes
<1> DEFINE Reason == Ended(c) \/ ~t_running \/ ~ServerAlive'
<1>1. CASE LoopTest \/ AcceptFails \/ CountIn \/ ServerSignal
  BY <1>0, <1>1 DEF LoopTest, AcceptFails, CountIn, ServerSignal, netVars
<1>2. ASSUME NEW d \in Conns, AcceptAndSpawn(d)  PROVE Reason
  BY <1>0, <1>2, ClientsDoNotClose DEF AcceptAndSpawn
<1>3. ASSUME NEW S \in SUBSET Backlog, CloseServerEnds(S)  PROVE Reason
  BY <1>0, <1>3 DEF CloseServerEnds, Backlog
<1>4. ASSUME NEW d \in Conns, SpawnFails(d)  PROVE Reason
  <2>1. {d} \in SUBSET Backlog /\ CloseServerEnds({d})
    BY <1>4 DEF SpawnFails
  <2>. QED  BY <1>3, <2>1
<1>5. CASE CloseListener
  <2>1. Backlog \in SUBSET Backlog /\ CloseServerEnds(Backlog)
    BY <1>5 DEF CloseListener
  <2>. QED  BY <1>3, <2>1
<1>6. CASE ServerExits
  BY <1>6 DEF ServerExits, ServerStops, ServerAlive
<1>7. ASSUME NEW d \in Conns, HandlerStep(d)  PROVE Reason
  <2>1. CASE \/ HandlerTest(d) \/ HandlerReads(d) \/ HandlerReadsNothing(d)
             \/ HandlerWrites(d) \/ HandlerGivesUp(d) \/ CountOut(d)
    <3>1. UNCHANGED server_end
      BY <2>1 DEF HandlerTest, HandlerReads, HandlerReadsNothing, HandlerWrites,
                  HandlerGivesUp, CountOut, ServerReads, ServerWrites, netVars
    <3>. QED  BY <1>0, <3>1
  <2>2. CASE ServerSigpipe(d)
    BY <2>2 DEF ServerSigpipe, ServerStops, ServerAlive
  <2>3. CASE HandlerCloses(d)
    <3>1. handler[d] = "close" /\ CloseServerEnds({d})
      BY <2>3 DEF HandlerCloses
    <3>2. c = d
      BY <1>0, <3>1 DEF CloseServerEnds
    <3>. QED  BY <3>1, <3>2 DEF EchoInv, HandlerInv
  <2>. QED  BY <1>7, <2>1, <2>2, <2>3 DEF HandlerStep
<1>. QED  BY <1>1, <1>2, <1>4, <1>5, <1>6, <1>7 DEF MainStep

(* A server cuts nobody off: it closes an accepted connection only when it *)
(* stops, when the client has ended it - or, in the poll server, when the  *)
(* buffer is full or poll has not looked at the slot yet.                  *)
THEOREM NobodyIsCutOff == Spec => NoOneCutOff
<1> DEFINE Reason(c) ==
      \/ client_end[c] \in {"half", "closed"} \/ c \in reset
      \/ port = 8888 /\ (~t_running \/ ~ServerAlive')
      \/ port = 8889 /\ (~PollAlive' \/ c \in fresh \/ Room(c) = 0)
           A == \A c \in Conns :
                  (server_end[c] = "open" /\ server_end'[c] = "closed") => Reason(c)
<1>1. EchoInv /\ [Next]_vars => [A]_vars
  <2>0. SUFFICES ASSUME EchoInv, Next, NEW c \in Conns, Closes(c)
                 PROVE  Ended(c) \/ Reason(c)
    BY DEF Ended, Closes
  <2>1. NetTypes
    BY <2>0 DEF EchoInv
  <2>2. CASE PollServerStep \/ PollSystem(PollSignal) \/ PollSystem(PollFails)
    BY <2>0, <2>2, PollCloses DEF Polling, Threaded, PollServerStep, PollSystem
  <2>3. ASSUME NEW d \in Conns, PeerRead(d) \/ PollSystem(PeerActs(d))
        PROVE  Reason(c)
    BY <2>0, <2>1, <2>3, PeersDoNotClose DEF PeerRead, PollSystem
  <2>4. CASE \/ MainThread \/ ThreadSystem(ServerSignal /\ UNCHANGED clientVars)
             \/ \E d \in Conns : HandlerThread(d)
    BY <2>0, <2>4, ThreadsClose DEF Polling, Threaded, MainThread, HandlerThread,
        ThreadSystem
  <2>5. ASSUME NEW d \in Conns, WorkerThread(d)  PROVE Reason(c)
    BY <2>0, <2>1, <2>5, WorkersDoNotClose DEF WorkerThread, ThreadSystem
  <2>6. CASE BenchMain
    BY <2>0, <2>1, <2>6, ClientsDoNotClose DEF BenchMain, ThreadSystem, JoinAndReport, netVars
  <2>. QED  BY <2>0, <2>2, <2>3, <2>4, <2>5, <2>6 DEF Next
<1>. QED  BY <1>1, EchoCorrect, PTL DEF Spec, NoOneCutOff

-----------------------------------------------------------------------------
(* The report of the benchmark.                                            *)

(* A worker's step that leaves it waiting, or not waiting.                 *)
LEMMA AwaitedSame ==
  ASSUME ReportInv, bench = "run", NEW c \in Conns,
         bench' \in {"run", "killed"},
         worker' \in [Conns -> {"none", "connect", "write", "read", "done", "unborn"}],
         \A d \in Conns : worker'[d] = "read" <=> worker[d] = "read",
         messages_sent' = messages_sent, messages_received' = messages_received,
         errors' = errors \/ errors' = errors + 1
  PROVE  ReportInv'
<1>1. Awaited' = Awaited
  BY DEF Awaited
<1>2. Cardinality(Awaited) \in Nat
  BY FiniteConns DEF Awaited
<1>. QED  BY <1>1, <1>2 DEF ReportInv

(* Every step of the benchmark keeps what it reports.                      *)
LEMMA ReportKeeps ==
  ASSUME ReportInv, NEW c \in Conns, WorkerStep(c)
  PROVE  ReportInv'
<1>0. /\ bench = "run" /\ IsFiniteSet(Awaited) /\ Cardinality(Awaited) \in Nat
      /\ worker \in [Conns -> {"none", "connect", "write", "read", "done", "unborn"}]
      /\ messages_sent \in Nat /\ messages_received \in Nat /\ errors \in Nat
      /\ messages_sent - messages_received - Cardinality(Awaited) <= errors
  BY FiniteConns DEF WorkerStep, ReportInv, Awaited
<1>1. CASE SpawnWorker(c)
  <2>1. /\ worker' \in [Conns -> {"none", "connect", "write", "read", "done", "unborn"}]
        /\ \A d \in Conns : worker'[d] = "read" <=> worker[d] = "read"
        /\ UNCHANGED <<bench, messages_sent, messages_received, errors>>
    BY <1>0, <1>1 DEF SpawnWorker
  <2>. QED  BY <1>0, <2>1, AwaitedSame
<1>2. CASE Connect(c) \/ ConnectFails(c) \/ WriteFails(c) \/ HangUp(c)
  <2>1. /\ worker' \in [Conns -> {"none", "connect", "write", "read", "done", "unborn"}]
        /\ \A d \in Conns : worker'[d] = "read" <=> worker[d] = "read"
        /\ UNCHANGED <<bench, messages_sent, messages_received>>
        /\ errors' = errors \/ errors' = errors + 1
    BY <1>0, <1>2 DEF Connect, ConnectFails, WriteFails, HangUp
  <2>. QED  BY <1>0, <2>1, AwaitedSame
<1>3. CASE ClientSigpipe(c)
  <2>1. /\ bench' = "killed" /\ UNCHANGED <<worker, messages_sent, messages_received, errors>>
    BY <1>3 DEF ClientSigpipe
  <2>. QED  BY <1>0, <2>1, AwaitedSame
<1>4. CASE WriteMessage(c)
  <2>1. /\ worker[c] = "write" /\ worker' = [worker EXCEPT ![c] = "read"]
        /\ messages_sent' = messages_sent + 1
        /\ UNCHANGED <<bench, messages_received, errors>>
    BY <1>4 DEF WriteMessage
  <2>2. worker' \in [Conns -> {"none", "connect", "write", "read", "done", "unborn"}]
    BY <1>0, <2>1
  <2>3. Awaited' = Awaited \cup {c} /\ c \notin Awaited
    BY <1>0, <2>1 DEF Awaited
  <2>4. Cardinality(Awaited') = Cardinality(Awaited) + 1
    BY <1>0, <2>3, FS_AddElement
  <2>. QED  BY <1>0, <2>1, <2>2, <2>4 DEF ReportInv
<1>5. CASE ReadEcho(c) /\ messages_received' = messages_received + 1
                       /\ worker' = [worker EXCEPT ![c] = "write"]
  <2>1. worker[c] = "read" /\ UNCHANGED <<bench, messages_sent, errors>>
    BY <1>5 DEF ReadEcho
  <2>2. worker' \in [Conns -> {"none", "connect", "write", "read", "done", "unborn"}]
    BY <1>0, <1>5
  <2>3. Awaited' = Awaited \ {c} /\ c \in Awaited
    BY <1>0, <1>5, <2>1 DEF Awaited
  <2>4. Cardinality(Awaited') = Cardinality(Awaited) - 1
    BY <1>0, <2>3, FS_RemoveElement
  <2>. QED  BY <1>0, <1>5, <2>1, <2>2, <2>4 DEF ReportInv
<1>6. CASE ReadEcho(c) /\ UNCHANGED <<messages_received, worker>>
  <2>1. UNCHANGED <<bench, messages_sent, errors>>
    BY <1>6 DEF ReadEcho
  <2>. QED  BY <1>0, <1>6, <2>1, AwaitedSame
<1>7. CASE ReadFails(c)
  <2>1. /\ worker[c] = "read" /\ worker' = [worker EXCEPT ![c] = "write"]
        /\ errors' = errors + 1
        /\ UNCHANGED <<bench, messages_sent, messages_received>>
    BY <1>7 DEF ReadFails
  <2>2. worker' \in [Conns -> {"none", "connect", "write", "read", "done", "unborn"}]
    BY <1>0, <2>1
  <2>3. Awaited' = Awaited \ {c} /\ c \in Awaited
    BY <1>0, <2>1 DEF Awaited
  <2>4. Cardinality(Awaited') = Cardinality(Awaited) - 1
    BY <1>0, <2>3, FS_RemoveElement
  <2>. QED  BY <1>0, <2>1, <2>2, <2>4 DEF ReportInv
<1>8. ReadEcho(c) =>
        \/ messages_received' = messages_received + 1
           /\ worker' = [worker EXCEPT ![c] = "write"]
        \/ UNCHANGED <<messages_received, worker>>
  BY DEF ReadEcho
<1>. QED  BY <1>1, <1>2, <1>3, <1>4, <1>5, <1>6, <1>7, <1>8 DEF WorkerStep

(* The report of the benchmark adds up, with any number of connections and *)
(* messages: a message that was sent and whose echo did not come back is   *)
(* counted as an error.                                                    *)
THEOREM LossesAreReported == Spec => []LossesReported
<1>1. Init => ReportInv
  <2> SUFFICES ASSUME Init  PROVE ReportInv
    OBVIOUS
  <2>1. Awaited = {} /\ Cardinality({}) = 0
    BY FS_EmptySet DEF Init, ClientInit, Awaited
  <2>. QED  BY <2>1 DEF Init, ClientInit, ReportInv
<1>2. ReportInv /\ [Next]_vars => ReportInv'
  <2> SUFFICES ASSUME ReportInv, [Next]_vars  PROVE ReportInv'
    OBVIOUS
  <2>1. ASSUME UNCHANGED clientVars  PROVE ReportInv'
    BY <2>1 DEF ReportInv, Awaited, clientVars
  <2>2. CASE BenchMain
    <3>1. /\ \A c \in Conns : worker[c] # "read"
          /\ bench = "run"
          /\ UNCHANGED <<worker, messages_sent, messages_received, errors>>
      BY <2>2 DEF BenchMain, ThreadSystem, JoinAndReport
    <3>2. Awaited = {} /\ Awaited' = {}
      BY <3>1 DEF Awaited
    <3>. QED  BY <3>1, <3>2 DEF ReportInv
  <2>3. ASSUME NEW c \in Conns, WorkerThread(c)  PROVE ReportInv'
    BY <2>3, ReportKeeps DEF WorkerThread, ThreadSystem
  <2>. QED  BY <2>1, <2>2, <2>3
               DEF Next, vars, PollServerStep, PeerRead, PollSystem, MainThread,
                   HandlerThread, ThreadSystem
<1>3. ReportInv => LossesReported
  BY FS_EmptySet DEF ReportInv, LossesReported
<1>. QED  BY <1>1, <1>2, <1>3, PTL DEF Spec

=============================================================================
