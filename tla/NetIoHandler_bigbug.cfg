SPECIFICATION Spec
CONSTANTS
  Conns = {c1, c2}
  NoConn = NoConn
  Fds = {f1}
  NoFd = NoFd
  Threads = {io1, io2}
  Acceptor = io1
  MaxList = 2
INVARIANTS
  OutMatched
CHECK_DEADLOCK FALSE
