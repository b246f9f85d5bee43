---------------------------- MODULE NetIoHandler ----------------------------
(***************************************************************************)
(* commonlib/net_handler: how accepted connections reach the main thread.  *)
(*                                                                         *)
(* The io threads push IN, DATA and OUT messages about a socket onto one   *)
(* list; the main thread takes the whole list and applies it to a table    *)
(* keyed by file descriptor.  The operating system hands a descriptor out  *)
(* again as soon as close() has released it.                               *)
(***************************************************************************)
EXTENDS Naturals, Sequences, FiniteSets

CONSTANTS
  Conns,    \* TcpSocket objects
  NoConn,   \* no context under a descriptor
  Fds,      \* file descriptors
  NoFd,     \* the descriptor of a socket that was not accepted yet
  Threads,  \* io threads (_svr_thread_cnt)
  Acceptor, \* the io thread the listening socket belongs to
  MaxList   \* M_MAX_MESSAGE_LIST

ASSUME NamesAssumption ==
  NoConn \notin Conns /\ NoFd \notin Fds /\ Acceptor \in Threads
ASSUME ListAssumption == MaxList \in Nat

VARIABLES
  sock,       \* per socket: where it is in its life, see Life
  fd,         \* per socket: _fd, which survives the close
  thread,     \* per socket: the io thread whose epoll it belongs to
  msg_list,   \* _tcp_socket_msg_list
  tmp_list,   \* what is left of the list the main thread is consuming
  container,  \* _tcp_socket_container: the socket under a descriptor
  crossed     \* history: sockets whose descriptor was announced again before
              \* the end of its last socket, see Reused

vars == << sock, fd, thread, msg_list, tmp_list, container, crossed >>

-----------------------------------------------------------------------------
(* "announced": accepted and pushed as IN, in no epoll yet; "lost": closed   *)
(* while announced, without a close handler, see CloseSock; "closing": _flag *)
(* is E_STATE_CLOSE and the close request queued; "released": its descriptor *)
(* is closed; "closed": and OUT was pushed.                                  *)
Life == {"new", "announced", "open", "lost", "closing", "released", "closed"}

Kinds == {"IN", "DATA", "OUT"}
Msgs == [type : Kinds, ptr : Conns]

Msg(kind, c) == [type |-> kind, ptr |-> c]

Init ==
  /\ sock = [c \in Conns |-> "new"]
  /\ fd = [c \in Conns |-> NoFd]
  /\ thread = [c \in Conns |-> Acceptor]
  /\ msg_list = << >>
  /\ tmp_list = << >>
  /\ container = [f \in Fds |-> NoConn]
  /\ crossed = {}

(* Descriptors the operating system holds open.                            *)
InUse ==
  {fd[c] : c \in {d \in Conns : sock[d] \in {"announced", "open", "closing"}}}

(* What the main thread has still to apply, in order.                      *)
Unapplied == tmp_list \o msg_list

(* The earlier sockets with descriptor f whose end the main thread is not    *)
(* to learn before what comes next: OUT is pushed after close() released the *)
(* descriptor, and never for a lost socket that is, or will be, in the table. *)
Reused(f) ==
  {d \in Conns : fd[d] = f /\
     \/ sock[d] = "released"
     \/ sock[d] = "lost" /\ \/ container[f] = d
                            \/ \E i \in 1..Len(Unapplied) : Unapplied[i] = Msg("IN", d)}

(* An io thread is in _DoClose, between close() and the close handler, or   *)
(* in TcpSocket::Init, between OnConnected and _TryRecvData.                *)
Occupied(t) ==
  \E c \in Conns :
    \/ thread[c] = t /\ sock[c] = "released"
    \/ t = Acceptor /\ sock[c] = "announced"

(* _Close: the first call sets the flag and queues the close request with   *)
(* the io thread of the socket's epoll.  A socket that has no epoll yet is  *)
(* still in blocking mode: its descriptor is closed on the spot, and no     *)
(* handler is called, then or later.  (_Close waits for unsent data first,  *)
(* which only makes it later.)                                              *)
CloseSock(c) ==
  sock' = [sock EXCEPT ![c] = CASE @ = "open" -> "closing"
                                [] @ = "announced" -> "lost"
                                [] OTHER -> @]

-----------------------------------------------------------------------------
(* The io threads.                                                         *)

Push_Front(kind, c) == msg_list' = << Msg(kind, c) >> \o msg_list

Push(kind, c) == msg_list' = Append(msg_list, Msg(kind, c))

(* AcceptOperation::Complete, TcpSocket::Init, OnConnected: an accepted     *)
(* socket is announced ...                                                  *)
OnConnected(c, f) ==
  /\ sock[c] = "new"
  /\ f \notin InUse
  /\ ~Occupied(Acceptor)
  /\ sock' = [sock EXCEPT ![c] = "announced"]
  /\ fd' = [fd EXCEPT ![c] = f]
  /\ Push("IN", c)
  /\ crossed' = crossed \cup Reused(f) \cup {d \in {c} : Reused(f) # {}}
  /\ UNCHANGED << thread, tmp_list, container >>

(* ... and then, in _TryRecvData, joins the epoll of some io thread (a lost *)
(* one does not: its descriptor is gone).                                   *)
TryRecvData(c, t) ==
  /\ sock[c] = "announced"
  /\ sock' = [sock EXCEPT ![c] = "open"]
  /\ thread' = [thread EXCEPT ![c] = t]
  /\ UNCHANGED << fd, msg_list, tmp_list, container, crossed >>

(* _ReadHandler and OnReceiveData: a packet is pushed, or dropped when the  *)
(* list is full.  The main thread may close the socket while the handler is *)
(* running, which does not stop it.                                         *)
OnReceiveData(c) ==
  /\ sock[c] \in {"open", "closing"}
  /\ ~Occupied(thread[c])
  /\ Len(msg_list) < MaxList
  /\ Push("DATA", c)
  /\ UNCHANGED << sock, fd, thread, tmp_list, container, crossed >>

(* _ReadHandler / _WriteHandler end a connection that failed.               *)
PeerClose(c) ==
  /\ sock[c] = "open"
  /\ ~Occupied(thread[c])
  /\ CloseSock(c)
  /\ UNCHANGED << fd, thread, msg_list, tmp_list, container, crossed >>

(* _DoClose: close() releases the descriptor ...                            *)
DoClose(c) ==
  /\ sock[c] = "closing"
  /\ ~Occupied(thread[c])
  /\ sock' = [sock EXCEPT ![c] = "released"]
  /\ UNCHANGED << fd, thread, msg_list, tmp_list, container, crossed >>

OnDisconnected_Silent(c) ==
  /\ sock[c] = "released"
  /\ sock' = [sock EXCEPT ![c] = "closed"]
  /\ UNCHANGED << fd, thread, msg_list, tmp_list, container, crossed >>

(* ... and then the close handler announces the end.                        *)
OnDisconnected(c) ==
  /\ sock[c] = "released"
  /\ sock' = [sock EXCEPT ![c] = "closed"]
  /\ Push("OUT", c)
  /\ UNCHANGED << fd, thread, tmp_list, container, crossed >>

-----------------------------------------------------------------------------
(* The main thread.                                                        *)

(* ConsumTcpSocketMsg takes the whole list ...                              *)
SwapList ==
  /\ tmp_list = << >> /\ msg_list # << >>
  /\ tmp_list' = msg_list
  /\ msg_list' = << >>
  /\ UNCHANGED << sock, fd, thread, container, crossed >>

(* OnConnection: the socket enters the table, or is closed when its        *)
(* descriptor is taken.                                                    *)
OnConnection(c) ==
  IF container[fd[c]] = NoConn
    THEN container' = [container EXCEPT ![fd[c]] = c] /\ UNCHANGED sock
    ELSE CloseSock(c) /\ UNCHANGED container

OnDisConnection_Kept(c) == UNCHANGED << sock, container >>

(* OnDisConnection: the application is told, then the context under the     *)
(* descriptor is erased, whose ever it is.                                  *)
OnDisConnection(c) ==
  /\ container' = [container EXCEPT ![fd[c]] = NoConn]
  /\ UNCHANGED sock

(* ... and applies one message after the other.  A DATA message only        *)
(* touches the context's counters and calls the application back.           *)
ConsumTcpSocketMsg ==
  /\ tmp_list # << >>
  /\ tmp_list' = Tail(tmp_list)
  /\ LET m == Head(tmp_list) IN
     \/ m.type = "IN" /\ OnConnection(m.ptr)
     \/ m.type = "DATA" /\ UNCHANGED << sock, container >>
     \/ m.type = "OUT" /\ OnDisConnection(m.ptr)
  /\ UNCHANGED << fd, thread, msg_list, crossed >>

(* IsConnected: from Init on, that is also while the socket has no epoll.   *)
IsConnected(c) == sock[c] \in {"announced", "open"}

(* CheckTcpSocketExpire closes a connection on which nothing arrived for    *)
(* thirty seconds.                                                          *)
CheckTcpSocketExpire(f) ==
  /\ container[f] # NoConn
  /\ IsConnected(container[f])
  /\ CloseSock(container[f])
  /\ UNCHANGED << fd, thread, msg_list, tmp_list, container, crossed >>

(* CloseFd: the application closes a connection by its descriptor.          *)
CloseFd(f) ==
  /\ container[f] # NoConn
  /\ CloseSock(container[f])
  /\ UNCHANGED << fd, thread, msg_list, tmp_list, container, crossed >>

-----------------------------------------------------------------------------
IoThreads ==
  \E c \in Conns :
    \/ \E f \in Fds : OnConnected(c, f)
    \/ \E t \in Threads : TryRecvData(c, t)
    \/ OnReceiveData(c)
    \/ PeerClose(c)
    \/ DoClose(c)
    \/ OnDisconnected(c)

MainThread ==
  \/ SwapList
  \/ ConsumTcpSocketMsg
  \/ \E f \in Fds : CheckTcpSocketExpire(f) \/ CloseFd(f)

Next == IoThreads \/ MainThread

Spec == Init /\ [][Next]_vars

(* The io threads finish what they are at and serve the close requests, and *)
(* the main loop consumes the list in every round.                          *)
Fairness ==
  /\ \A c \in Conns :
       /\ WF_vars(\E t \in Threads : TryRecvData(c, t))
       /\ WF_vars(DoClose(c)) /\ WF_vars(OnDisconnected(c))
  /\ WF_vars(SwapList) /\ WF_vars(ConsumTcpSocketMsg)

FairSpec == Spec /\ Fairness

-----------------------------------------------------------------------------
(* The types of the sockets, the lists and the table.                       *)
TypeOK ==
  /\ sock \in [Conns -> Life]
  /\ fd \in [Conns -> Fds \cup {NoFd}]
  /\ thread \in [Conns -> Threads]
  /\ msg_list \in Seq(Msgs)
  /\ tmp_list \in Seq(Msgs)
  /\ container \in [Fds -> Conns \cup {NoConn}]
  /\ crossed \subseteq Conns
  /\ \A c \in Conns : sock[c] # "new" => fd[c] # NoFd

(* For one socket the order is OnConnected, OnReceiveData, OnDisconnected   *)
(* (the comment in netio.hpp), also as the main thread applies them: IN     *)
(* once and first, OUT once and last.                                       *)
SocketOrder ==
  \A i, j \in 1..Len(Unapplied) :
    LET a == Unapplied[i]  b == Unapplied[j] IN
    (i < j /\ a.ptr = b.ptr) => a.type # "OUT" /\ b.type # "IN"

(* No context outlives its connection: while a socket is in the table, its  *)
(* OUT is still to be applied.  (A lost socket has none: its context stays, *)
(* see CloseEnds.)                                                          *)
EntryRemoved ==
  \A f \in Fds : container[f] # NoConn =>
    \/ sock[container[f]] # "closed"
    \/ \E i \in 1..Len(Unapplied) : Unapplied[i] = Msg("OUT", container[f])

(* A packet, and the end, of a connection find the context of that          *)
(* connection when they are applied, although descriptors are used again:   *)
(* unless this one was announced again before the end of its last socket    *)
(* was pushed, and only the sockets involved then.                          *)
OwnContext ==
  tmp_list # << >> =>
    LET m == Head(tmp_list) IN
    m.type # "IN" /\ m.ptr \notin crossed => container[fd[m.ptr]] = m.ptr

(* The log line "not exist, this is a big bug" (OnDisConnection) is never   *)
(* written: an OUT finds a context under its descriptor.                    *)
OutMatched ==
  tmp_list # << >> =>
    LET m == Head(tmp_list) IN m.type = "OUT" => container[fd[m.ptr]] # NoConn

(* A connection of the table on which Close was called, while it was in an  *)
(* epoll, leaves the table in the end: its descriptor can be accepted again. *)
(* (One closed before that never leaves it.)                                *)
CloseEnds ==
  \A c \in Conns :
    (sock[c] = "closing") ~> (sock[c] = "closed" /\ \A f \in Fds : container[f] # c)
=============================================================================
