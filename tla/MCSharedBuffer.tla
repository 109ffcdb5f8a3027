--------------------------- MODULE MCSharedBuffer ---------------------------
(* Model values for the runs of SharedBuffer.                              *)
EXTENDS SharedBuffer

CONSTANTS c1, c2

(* The consumers are alike: of two ways to tell which of them poll that    *)
(* are mirror images of each other, one is enough.                         *)
InitUpToNames == Init /\ (polls[c2] => polls[c1])
SpecUpToNames == InitUpToNames /\ [][Next]_vars /\ Fairness

(* Every consumer is a consumer.c and has come before the first message is *)
(* written: nobody is late, and nobody relies on buffer_read to block.     *)
ConsumersFirst ==
  /\ Init /\ polls = [c \in Readers |-> TRUE]
  /\ [][/\ Next
        /\ write_pos > 0 => \A c \in Readers :
             consumer[c] = "off" => consumer'[c] = "off"]_vars

=============================================================================
