---------------------------- MODULE MCThreadPool ----------------------------
(* Model values and symmetry for the runs of ThreadPool.                   *)
EXTENDS ThreadPool, TLC

CONSTANTS w1, w2, w3, s1, s2, a1, t1, t2, t3, t4, t5

(* Workers, submitters and tasks are interchangeable (safety runs only).   *)
Symmetry ==
  Permutations(Workers) \cup Permutations(Submitters) \cup Permutations(Tasks)

=============================================================================
