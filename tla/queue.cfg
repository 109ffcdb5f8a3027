\* Two producers and two consumers, a queue of two slots, one pthread call that fails.
\* Consumers that block or poll, and the consumers of test.c, which only poll.
CONSTANTS
  p1 = p1 p2 = p2 c1 = c1 c2 = c2
  NoThread = NoThread NULL = NULL
  Producers = {p1, p2}
  Consumers = {c1, c2}
  Items <- BenchItems
  capacity = 2
  MaxFaults = 1
  MaxPolls = 1
  num_items = 2
  max_empty_iterations = 2
SPECIFICATION QueueUseSpec
INVARIANTS Conserved EnoughAwake ReportAddsUp
PROPERTIES ImplementsFifo EveryoneServed EndsUnlessAbandoned
