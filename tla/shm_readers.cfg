\* Two consumers that are there from the start, of which each gives back the slot of every message.
CONSTANTS
  c1 = c1 c2 = c2 Torn = Torn Blank = Blank
  Readers = {c1, c2}
  MAX_MESSAGES = 2
  num_messages = 4
  MAX_IDLE = 1
SPECIFICATION ConsumersFirst
INVARIANT EveryReaderReadsAll
CHECK_DEADLOCK FALSE
