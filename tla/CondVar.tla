------------------------------ MODULE CondVar ------------------------------
(***************************************************************************)
(* POSIX condition variables, as the code under 01_processes and           *)
(* 03_threads uses them.  A condition variable is the set of the threads   *)
(* asleep on it.  A thread that waits joins the set as it gives up the     *)
(* mutex, and may compete for the mutex again once it has left the set.    *)
(***************************************************************************)

(***************************************************************************)
(* pthread_cond_signal: one sleeper is woken, the scheduler chooses which; *)
(* with nobody asleep the signal is lost.                                  *)
(***************************************************************************)
AfterSignal(sleepers) ==
  IF sleepers = {} THEN {{}} ELSE {sleepers \ {t} : t \in sleepers}

(* pthread_cond_broadcast: every sleeper is woken.                         *)
AfterBroadcast(sleepers) == {{}}

=============================================================================
