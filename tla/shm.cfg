\* Two consumers, three messages through two slots, signals to all.  No deadlock check:
\* without a signal the producer waits for ever, by design.
CONSTANTS
  c1 = c1 c2 = c2 Torn = Torn Blank = Blank
  Readers = {c1, c2}
  MAX_MESSAGES = 2
  num_messages = 3
  MAX_IDLE = 1
SPECIFICATION SpecUpToNames
INVARIANTS ReadsInOrder SlotsAddUp
PROPERTY NobodyLeftWaiting
CHECK_DEADLOCK FALSE
