\* Two runs of the producer, at the same time or one after the other, and a consumer
\* with two attempts.  No deadlock check: every program ends.
CONSTANTS
  p1 = p1 p2 = p2 c1 = c1 None = None
  Producers = {p1, p2}
  Consumers = {c1}
  RETRIES = 2
SYMMETRY Symmetry
SPECIFICATION OpenSpec
INVARIANTS NoStaleNames RightSemaphores
PROPERTIES OnlyOwnNames
CHECK_DEADLOCK FALSE
