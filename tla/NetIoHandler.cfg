SPECIFICATION FairSpec
CONSTANTS
  Conns = {c1, c2, c3}
  NoConn = NoConn
  Fds = {f1}
  NoFd = NoFd
  Threads = {io1, io2}
  Acceptor = io1
  MaxList = 2
INVARIANTS
  SocketOrder
  EntryRemoved
  OwnContext
PROPERTIES
  CloseEnds
CHECK_DEADLOCK FALSE
