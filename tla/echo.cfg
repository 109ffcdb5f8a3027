\* Two connections, three bytes each way through buffers of two; the poll server has
\* room for one client, so that the other is turned away.  No deadlock check: servers
\* and clients end.
CONSTANTS
  c1 = c1 c2 = c2 NoFd = NoFd
  Conns = {c1, c2}
  SOCKBUF = 2
  MAX_CLIENTS = 2
  BUFFER_SIZE = 2
  BYTES = 3
  num_messages = 2
  message_size = 2
SPECIFICATION FairSpec
INVARIANTS EchoInOrder CountsAgree LossesReported
PROPERTIES NoOneCutOff EchoArrives SignalEndsPoll
CHECK_DEADLOCK FALSE
