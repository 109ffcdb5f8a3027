\* Submissions race with the destroy and may follow it, and pthread_create may fail after
\* any number of workers.  No deadlock check: the clean-up of a failed create can hang.
CONSTANTS
  w1 = w1 w2 = w2 w3 = w3 s1 = s1 s2 = s2 a1 = a1
  t1 = t1 t2 = t2 t3 = t3 t4 = t4 t5 = t5
  Main = Main NoThread = NoThread NoTask = NoTask
  Workers = {w1, w2, w3}
  Submitters = {s1, s2}
  Waiters = {}
  Tasks = {t1, t2, t3, t4, t5}
  QUEUE_CAPACITY_MULTIPLIER = 1
  ThreadsCanFail = TRUE
  Overlap = TRUE
  MaxSpurious = 1
SPECIFICATION Spec
SYMMETRY Symmetry
INVARIANTS TypeOK TasksConserved NoLostWakeup DestroyDrains WorkersGoneWhenFreed
PROPERTIES ShutdownIsFinal ImplementsFifo
CHECK_DEADLOCK FALSE
