----------------------------- MODULE MCSharedOpen -----------------------------
(* Model values for the run of SharedOpen; the two runs of producer.c are  *)
(* alike.                                                                  *)
EXTENDS SharedOpen, TLC

CONSTANTS p1, p2, c1

Symmetry == Permutations(Producers)

=============================================================================
