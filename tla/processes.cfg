\* The server: two clients with two messages each, and two signals that any thread may
\* take.  The shell: lines of up to four commands, pipes of one byte, and few enough
\* descriptors that redirections use them up.
CONSTANTS
  c1 = c1 c2 = c2 Main = Main
  Conns = {c1, c2}
  MESSAGES = 2
  MaxSignals = 2
  MaxSpurious = 1
  MAX_PIPES = 3
  FILES = 8
  PIPE_BUF = 1
  WRITES = 2
SPECIFICATION ProcessesSpec
INVARIANTS NoSleepWhenDrained ServedToTheEnd CleanPrompt
PROPERTIES DrainsCounted SignalEndsServer ClientsEnd NoEarlyEnd CommandsEnd
