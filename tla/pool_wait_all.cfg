\* One worker, one waiter: wait_all returns while a task still runs.
CONSTANTS
  w1 = w1 w2 = w2 w3 = w3 s1 = s1 s2 = s2 a1 = a1
  t1 = t1 t2 = t2 t3 = t3 t4 = t4 t5 = t5
  Main = Main NoThread = NoThread NoTask = NoTask
  Workers = {w1}
  Submitters = {s1}
  Waiters = {a1}
  Tasks = {t1, t2}
  QUEUE_CAPACITY_MULTIPLIER = 1
  ThreadsCanFail = FALSE
  Overlap = FALSE
  MaxSpurious = 0
SPECIFICATION Spec
INVARIANT WaitAllMeansComplete
