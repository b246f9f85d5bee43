------------------------- MODULE NetIoHandlerProofs -------------------------
(***************************************************************************)
(* What the main thread may rely on when it applies the messages of the    *)
(* io threads, for any number of sockets, descriptors and io threads.      *)
(***************************************************************************)
EXTENDS NetIoHandler, SequenceTheorems, TLAPS

(* The messages still to be applied are about sockets that were announced,  *)
(* and OUT about sockets that are closed.                                   *)
Announced ==
  \A i \in 1..Len(Unapplied) :
    /\ sock[Unapplied[i].ptr] # "new"
    /\ Unapplied[i].type = "OUT" => sock[Unapplied[i].ptr] = "closed"

(* A socket in the table is there under its descriptor, and its IN is not   *)
(* still to come.                                                           *)
Tabled ==
  \A f \in Fds : container[f] # NoConn =>
    /\ fd[container[f]] = f /\ sock[container[f]] # "new"
    /\ \A i \in 1..Len(Unapplied) : Unapplied[i] # Msg("IN", container[f])

(* A message about a closed socket is its OUT or comes before it.           *)
Ended ==
  \A i \in 1..Len(Unapplied) : sock[Unapplied[i].ptr] = "closed" =>
    \E j \in i..Len(Unapplied) : Unapplied[j] = Msg("OUT", Unapplied[i].ptr)

NetInv ==
  TypeOK /\ SocketOrder /\ Announced /\ Tabled /\ Ended /\ EntryRemoved

(* The main thread learned the end of the socket, or will, or has nothing   *)
(* that it should forget.                                                   *)
Settled(c) ==
  \/ sock[c] = "closed"
  \/ /\ sock[c] = "lost" /\ container[fd[c]] # c
     /\ \A i \in 1..Len(Unapplied) : Unapplied[i] # Msg("IN", c)

(* The two sockets did not share a descriptor in the wrong order.           *)
Apart(c, d) == c # d /\ ~(c \in crossed /\ d \in crossed)

(* Of two such sockets with the same descriptor one is settled.             *)
OneOpen ==
  \A c, d \in Conns :
    Apart(c, d) /\ sock[c] # "new" /\ sock[d] # "new" /\ fd[c] = fd[d]
      => Settled(c) \/ Settled(d)

(* A socket without an epoll has no message but IN.                         *)
Early ==
  \A i \in 1..Len(Unapplied) :
    Unapplied[i].type # "IN" => sock[Unapplied[i].ptr] \notin {"announced", "lost"}

(* A socket that has not ended is in the table, or its IN is to come.       *)
Known ==
  \A c \in Conns \ crossed : sock[c] \notin {"new", "closed", "lost"} =>
    \/ container[fd[c]] = c
    \/ \E i \in 1..Len(Unapplied) : Unapplied[i] = Msg("IN", c)

(* When a message other than IN is applied, its socket is in the table.     *)
Introduced ==
  \A i \in 1..Len(Unapplied) :
    Unapplied[i].type # "IN" /\ Unapplied[i].ptr \notin crossed =>
      \/ container[fd[Unapplied[i].ptr]] = Unapplied[i].ptr
      \/ \E k \in 1..(i - 1) : Unapplied[k] = Msg("IN", Unapplied[i].ptr)

(* Before a message of another socket with the descriptor, OUT empties the  *)
(* entry.                                                                   *)
Emptied ==
  \A f \in Fds : container[f] # NoConn =>
    \A i \in 1..Len(Unapplied) :
      fd[Unapplied[i].ptr] = f /\ Apart(Unapplied[i].ptr, container[f]) =>
        \E k \in 1..(i - 1) : Unapplied[k] = Msg("OUT", container[f])

(* Between messages of two sockets with the same descriptor is the OUT of   *)
(* the first.                                                               *)
Separated ==
  \A i, j \in 1..Len(Unapplied) :
    i < j /\ Apart(Unapplied[i].ptr, Unapplied[j].ptr)
      /\ fd[Unapplied[i].ptr] = fd[Unapplied[j].ptr] =>
        \E k \in i..(j - 1) : Unapplied[k] = Msg("OUT", Unapplied[i].ptr)

OneInv ==
  NetInv /\ OneOpen /\ Early /\ Known /\ Introduced /\ Emptied /\ Separated

-----------------------------------------------------------------------------
(* What a step does to the messages still to be applied.                    *)
Pushed(m) ==
  /\ Len(Unapplied') = Len(Unapplied) + 1
  /\ Unapplied'[Len(Unapplied) + 1] = m
  /\ \A i \in 1..Len(Unapplied) : Unapplied'[i] = Unapplied[i]

Popped ==
  /\ Len(Unapplied) \in Nat \ {0}
  /\ Len(Unapplied') = Len(Unapplied) - 1
  /\ \A i \in 1..(Len(Unapplied) - 1) : Unapplied'[i] = Unapplied[i + 1]

(* The messages still to be applied are messages.                           *)
LEMMA QueueType ==
  ASSUME TypeOK
  PROVE  /\ Unapplied \in Seq(Msgs) /\ Len(Unapplied) \in Nat
         /\ \A i \in 1..Len(Unapplied) :
              /\ Unapplied[i] \in Msgs
              /\ Unapplied[i].ptr \in Conns /\ Unapplied[i].type \in Kinds
              /\ Unapplied[i] = Msg(Unapplied[i].type, Unapplied[i].ptr)
<1>1. Unapplied \in Seq(Msgs)
  BY DEF TypeOK, Unapplied
<1>2. Len(Unapplied) \in Nat /\ \A i \in 1..Len(Unapplied) : Unapplied[i] \in Msgs
  BY <1>1
<1>3. \A m \in Msgs : m.ptr \in Conns /\ m.type \in Kinds /\ m = Msg(m.type, m.ptr)
  BY DEF Msgs, Msg
<1> QED BY <1>1, <1>2, <1>3

(* Pushing appends one message.                                             *)
LEMMA QueuePush ==
  ASSUME TypeOK, NEW kind \in Kinds, NEW c \in Conns,
         Push(kind, c), tmp_list' = tmp_list
  PROVE  Pushed(Msg(kind, c))
<1>1. PICK s \in Seq(Msgs), t \in Seq(Msgs), m \in Msgs :
        s = tmp_list /\ t = msg_list /\ m = Msg(kind, c)
  BY DEF TypeOK, Msg, Msgs
<1>2. Unapplied = s \o t /\ Unapplied' = s \o Append(t, m)
  BY <1>1 DEF Unapplied, Push
<1>3. /\ Len(s) \in Nat /\ Len(t) \in Nat
      /\ Len(s \o t) = Len(s) + Len(t)
      /\ \A i \in 1..(Len(s) + Len(t)) :
           (s \o t)[i] = IF i <= Len(s) THEN s[i] ELSE t[i - Len(s)]
  BY ConcatProperties, LenProperties
<1>4. PICK r \in Seq(Msgs) : r = Append(t, m)
  BY AppendProperties
<1>5. /\ Len(r) = Len(t) + 1 /\ r[Len(t) + 1] = m
      /\ \A i \in 1..Len(t) : r[i] = t[i]
  BY <1>4
<1>6. /\ Len(s \o r) = Len(s) + Len(r)
      /\ \A i \in 1..(Len(s) + Len(r)) :
           (s \o r)[i] = IF i <= Len(s) THEN s[i] ELSE r[i - Len(s)]
  OBVIOUS
<1>7. PICK u, v : u = s \o t /\ v = s \o r
  OBVIOUS
<1>8. /\ Len(v) = Len(u) + 1 /\ v[Len(u) + 1] = m
      /\ \A i \in 1..Len(u) : v[i] = u[i]
  <2>1. PICK a \in Nat, b \in Nat : a = Len(s) /\ b = Len(t)
    BY <1>3
  <2>2. /\ Len(u) = a + b /\ Len(v) = a + (b + 1)
        /\ \A i \in 1..(a + b) : u[i] = IF i <= a THEN s[i] ELSE t[i - a]
        /\ \A i \in 1..(a + (b + 1)) : v[i] = IF i <= a THEN s[i] ELSE r[i - a]
    BY <1>3, <1>5, <1>6, <1>7, <2>1
  <2>3. v[a + (b + 1)] = m
    <3>1. a + (b + 1) \in 1..(a + (b + 1)) /\ ~(a + (b + 1) <= a) /\ a + (b + 1) - a = b + 1
      OBVIOUS
    <3> QED BY <1>5, <2>1, <2>2, <3>1
  <2>4. ASSUME NEW i \in 1..(a + b) PROVE v[i] = u[i]
    <3>1. i \in 1..(a + (b + 1)) /\ (~(i <= a) => i - a \in 1..b)
      OBVIOUS
    <3> QED BY <1>5, <2>1, <2>2, <3>1
  <2>5. Len(u) + 1 = a + (b + 1) /\ Len(v) = Len(u) + 1
    BY <2>2
  <2> QED BY <2>2, <2>3, <2>4, <2>5
<1> QED BY <1>1, <1>2, <1>4, <1>7, <1>8 DEF Pushed

(* Consuming takes the first message away.                                  *)
LEMMA QueuePop ==
  ASSUME TypeOK, tmp_list # << >>, tmp_list' = Tail(tmp_list), msg_list' = msg_list
  PROVE  Popped /\ Unapplied[1] = Head(tmp_list)
<1>1. PICK s \in Seq(Msgs), t \in Seq(Msgs) : s = tmp_list /\ t = msg_list /\ s # << >>
  BY DEF TypeOK
<1>2. Unapplied = s \o t /\ Unapplied' = Tail(s) \o t
  BY <1>1 DEF Unapplied
<1>3. /\ Len(s) \in Nat \ {0} /\ Len(t) \in Nat
      /\ Len(s \o t) = Len(s) + Len(t)
      /\ \A i \in 1..(Len(s) + Len(t)) :
           (s \o t)[i] = IF i <= Len(s) THEN s[i] ELSE t[i - Len(s)]
  BY <1>1, EmptySeq
<1>4. PICK r \in Seq(Msgs) : r = Tail(s)
  BY <1>1
<1>5. /\ Len(r) = Len(s) - 1 /\ \A i \in 1..Len(r) : r[i] = s[i + 1]
      /\ s[1] = Head(s)
  BY <1>1, <1>4, HeadTailProperties
<1>6. /\ Len(r \o t) = Len(r) + Len(t)
      /\ \A i \in 1..(Len(r) + Len(t)) :
           (r \o t)[i] = IF i <= Len(r) THEN r[i] ELSE t[i - Len(r)]
  OBVIOUS
<1>7. PICK u, v : u = s \o t /\ v = r \o t
  OBVIOUS
<1>8. /\ Len(u) \in Nat \ {0} /\ Len(v) = Len(u) - 1
      /\ \A i \in 1..(Len(u) - 1) : v[i] = u[i + 1]
      /\ u[1] = s[1]
  BY <1>3, <1>5, <1>6, <1>7
<1> QED BY <1>1, <1>2, <1>4, <1>5, <1>7, <1>8 DEF Popped

(* Taking the list over leaves what is to be applied as it is.              *)
LEMMA QueueSwap ==
  ASSUME TypeOK, SwapList
  PROVE  Unapplied' = Unapplied
<1>1. tmp_list = << >> /\ tmp_list' = msg_list /\ msg_list' = << >> /\ msg_list \in Seq(Msgs)
  BY DEF SwapList, TypeOK
<1>2. \A s \in Seq(Msgs) : s \o << >> = s /\ << >> \o s = s
  BY ConcatEmptySeq
<1> QED BY <1>1, <1>2 DEF Unapplied

(* The types hold at the start, and every step keeps them.                  *)
LEMMA NetTypes == (Init => TypeOK) /\ (TypeOK /\ [Next]_vars => TypeOK')
<1>1. ASSUME Init PROVE TypeOK
  <2>1. << >> \in Seq(Msgs) /\ crossed \subseteq Conns
    BY <1>1, EmptySeq DEF Init
  <2>2. /\ sock \in [Conns -> Life] /\ fd \in [Conns -> Fds \cup {NoFd}]
        /\ thread \in [Conns -> Threads]
        /\ container \in [Fds -> Conns \cup {NoConn}]
        /\ \A c \in Conns : sock[c] # "new" => fd[c] # NoFd
    BY <1>1, NamesAssumption DEF Init, Life
  <2> QED BY <1>1, <2>1, <2>2 DEF Init, TypeOK
<1>2. ASSUME TypeOK, [Next]_vars PROVE TypeOK'
  <2> USE <1>2, NamesAssumption DEF TypeOK
  <2>1. ASSUME NEW c \in Conns, NEW f \in Fds, OnConnected(c, f) PROVE TypeOK'
    <3>1. msg_list' \in Seq(Msgs)
      BY <2>1, AppendProperties DEF OnConnected, Push, Msg, Msgs, Kinds
    <3>2. crossed' \subseteq Conns
      BY <2>1 DEF OnConnected, Reused
    <3> QED BY <2>1, <3>1, <3>2 DEF OnConnected, Life
  <2>2. ASSUME NEW c \in Conns, NEW t \in Threads, TryRecvData(c, t) PROVE TypeOK'
    BY <2>2 DEF TryRecvData, Life
  <2>3. ASSUME NEW c \in Conns, OnReceiveData(c) PROVE TypeOK'
    <3>1. msg_list' \in Seq(Msgs)
      BY <2>3, AppendProperties DEF OnReceiveData, Push, Msg, Msgs, Kinds
    <3> QED BY <2>3, <3>1 DEF OnReceiveData
  <2>4. ASSUME NEW c \in Conns, CloseSock(c)
        PROVE  /\ sock' \in [Conns -> Life]
               /\ \A d \in Conns : sock'[d] # "new" => sock[d] # "new"
    BY <2>4 DEF CloseSock, Life
  <2>5. ASSUME NEW c \in Conns, PeerClose(c) PROVE TypeOK'
    BY <2>4, <2>5 DEF PeerClose
  <2>6. ASSUME NEW c \in Conns, DoClose(c) PROVE TypeOK'
    BY <2>6 DEF DoClose, Life
  <2>7. ASSUME NEW c \in Conns, OnDisconnected(c) PROVE TypeOK'
    <3>1. msg_list' \in Seq(Msgs)
      BY <2>7, AppendProperties DEF OnDisconnected, Push, Msg, Msgs, Kinds
    <3> QED BY <2>7, <3>1 DEF OnDisconnected, Life
  <2>8. ASSUME SwapList PROVE TypeOK'
    BY <2>8 DEF SwapList
  <2>9. ASSUME ConsumTcpSocketMsg PROVE TypeOK'
    <3>1. PICK m \in Msgs : m = Head(tmp_list)
      BY <2>9, HeadTailProperties DEF ConsumTcpSocketMsg
    <3>2. m.ptr \in Conns
      BY DEF Msgs
    <3>3. tmp_list' \in Seq(Msgs) /\ UNCHANGED << fd, thread, msg_list, crossed >>
      BY <2>9, HeadTailProperties DEF ConsumTcpSocketMsg
    <3>4. CASE m.type = "IN" /\ OnConnection(m.ptr)
      <4>1. /\ sock' \in [Conns -> Life]
            /\ \A d \in Conns : sock'[d] # "new" => sock[d] # "new"
        BY <2>4, <3>2, <3>4 DEF OnConnection
      <4>2. container' \in [Fds -> Conns \cup {NoConn}]
        BY <3>2, <3>4 DEF OnConnection
      <4> QED BY <3>3, <4>1, <4>2
    <3>5. CASE UNCHANGED << sock, container >>
      BY <3>3, <3>5
    <3>6. CASE OnDisConnection(m.ptr)
      BY <3>2, <3>3, <3>6 DEF OnDisConnection
    <3> QED BY <2>9, <3>1, <3>4, <3>5, <3>6 DEF ConsumTcpSocketMsg
  <2>10. ASSUME NEW f \in Fds, CheckTcpSocketExpire(f) PROVE TypeOK'
    <3>1. container[f] \in Conns
      BY <2>10 DEF CheckTcpSocketExpire
    <3> QED BY <2>4, <2>10, <3>1 DEF CheckTcpSocketExpire
  <2>11. ASSUME NEW f \in Fds, CloseFd(f) PROVE TypeOK'
    <3>1. container[f] \in Conns
      BY <2>11 DEF CloseFd
    <3> QED BY <2>4, <2>11, <3>1 DEF CloseFd
  <2>12. CASE UNCHANGED vars
    BY <2>12 DEF vars
  <2> QED BY <2>1, <2>2, <2>3, <2>5, <2>6, <2>7, <2>8, <2>9, <2>10, <2>11, <2>12
       DEF Next, IoThreads, MainThread
<1> QED BY <1>1, <1>2

-----------------------------------------------------------------------------
(* No socket is announced, and none ends, but that it may be lost.          *)
Alike ==
  \A c \in Conns :
    /\ sock'[c] = "new" <=> sock[c] = "new"
    /\ sock'[c] = "closed" <=> sock[c] = "closed"
    /\ sock[c] = "lost" => sock'[c] = "lost"
    /\ sock'[c] \in {"announced", "lost"} => sock[c] \in {"announced", "lost"}

(* _Close neither announces nor ends a socket.                              *)
LEMMA CloseAlike ==
  ASSUME TypeOK, NEW c \in Conns, CloseSock(c)
  PROVE  Alike
<1>1. \A d \in Conns : sock'[d] =
        IF d = c THEN CASE sock[c] = "open" -> "closing"
                        [] sock[c] = "announced" -> "lost"
                        [] OTHER -> sock[c]
                 ELSE sock[d]
  BY DEF TypeOK, CloseSock
<1> QED BY <1>1 DEF Alike

(* What the invariant needs to know of a step, by its kind.                 *)
Still == Alike /\ UNCHANGED << fd, container, crossed >> /\ Unapplied' = Unapplied

(* Every step is of one of seven kinds.                                     *)
LEMMA StepKinds ==
  ASSUME TypeOK, [Next]_vars
  PROVE  \/ Still
         \/ \E c \in Conns, f \in Fds :
              OnConnected(c, f) /\ Pushed(Msg("IN", c))
         \/ \E c \in Conns : OnReceiveData(c) /\ Pushed(Msg("DATA", c))
         \/ \E c \in Conns : OnDisconnected(c) /\ Pushed(Msg("OUT", c))
         \/ \E c \in Conns :
              /\ Popped /\ Unapplied[1] = Msg("IN", c) /\ OnConnection(c)
              /\ Alike /\ UNCHANGED << fd, crossed >>
         \/ \E c \in Conns :
              /\ Popped /\ Unapplied[1] = Msg("DATA", c)
              /\ Alike /\ UNCHANGED << sock, fd, container, crossed >>
         \/ \E c \in Conns :
              /\ Popped /\ Unapplied[1] = Msg("OUT", c) /\ OnDisConnection(c)
              /\ Alike /\ UNCHANGED << fd, crossed >>
<1>0. UNCHANGED << tmp_list, msg_list >> => Unapplied' = Unapplied
  BY DEF Unapplied
<1>00. sock' = sock => Alike
  BY DEF Alike
<1>1. ASSUME NEW c \in Conns, NEW f \in Fds, OnConnected(c, f)
      PROVE  Pushed(Msg("IN", c))
  BY <1>1, QueuePush DEF OnConnected, Kinds
<1>2. ASSUME NEW c \in Conns, NEW t \in Threads, TryRecvData(c, t)
      PROVE  Still
  <2>1. Alike
    BY <1>2 DEF TryRecvData, Alike, TypeOK
  <2> QED BY <1>0, <1>2, <2>1 DEF TryRecvData, Still
<1>3. ASSUME NEW c \in Conns, OnReceiveData(c) PROVE Pushed(Msg("DATA", c))
  BY <1>3, QueuePush DEF OnReceiveData, Kinds
<1>4. ASSUME NEW c \in Conns, PeerClose(c) PROVE Still
  BY <1>0, <1>4, CloseAlike DEF PeerClose, Still
<1>5. ASSUME NEW c \in Conns, DoClose(c) PROVE Still
  <2>1. Alike
    BY <1>5 DEF DoClose, Alike, TypeOK
  <2> QED BY <1>0, <1>5, <2>1 DEF DoClose, Still
<1>6. ASSUME NEW c \in Conns, OnDisconnected(c) PROVE Pushed(Msg("OUT", c))
  BY <1>6, QueuePush DEF OnDisconnected, Kinds
<1>7. ASSUME SwapList PROVE Still
  BY <1>00, <1>7, QueueSwap DEF SwapList, Still
<1>8. ASSUME ConsumTcpSocketMsg
      PROVE  \E c \in Conns : 
               /\ Popped /\ Alike /\ UNCHANGED << fd, crossed >>
               /\ \/ Unapplied[1] = Msg("IN", c) /\ OnConnection(c)
                  \/ Unapplied[1] = Msg("DATA", c) /\ UNCHANGED << sock, container >>
                  \/ Unapplied[1] = Msg("OUT", c) /\ OnDisConnection(c)
  <2>1. Popped /\ Unapplied[1] = Head(tmp_list) /\ UNCHANGED << fd, crossed >>
    BY <1>8, QueuePop DEF ConsumTcpSocketMsg
  <2>2. PICK m \in Msgs : m = Head(tmp_list)
    BY <1>8, HeadTailProperties DEF ConsumTcpSocketMsg, TypeOK
  <2>3. m.ptr \in Conns /\ m = Msg(m.type, m.ptr)
    BY DEF Msgs, Msg
  <2>4. \/ m.type = "IN" /\ OnConnection(m.ptr)
        \/ m.type = "DATA" /\ UNCHANGED << sock, container >>
        \/ m.type = "OUT" /\ OnDisConnection(m.ptr)
    BY <1>8, <2>2 DEF ConsumTcpSocketMsg
  <2>5. Alike
    BY <1>00, <2>3, <2>4, CloseAlike DEF OnConnection, OnDisConnection
  <2> QED BY <2>1, <2>2, <2>3, <2>4, <2>5
<1>9. ASSUME NEW f \in Fds, CheckTcpSocketExpire(f) PROVE Still
  <2>1. container[f] \in Conns
    BY <1>9 DEF CheckTcpSocketExpire, TypeOK
  <2> QED BY <1>0, <1>9, <2>1, CloseAlike DEF CheckTcpSocketExpire, Still
<1>10. ASSUME NEW f \in Fds, CloseFd(f) PROVE Still
  <2>1. container[f] \in Conns
    BY <1>10 DEF CloseFd, TypeOK
  <2> QED BY <1>0, <1>10, <2>1, CloseAlike DEF CloseFd, Still
<1>12. ASSUME UNCHANGED vars PROVE Still
  BY <1>0, <1>00, <1>12 DEF vars, Still
<1>11. ASSUME IoThreads PROVE
         \/ Still
         \/ \E c \in Conns, f \in Fds :
              OnConnected(c, f) /\ Pushed(Msg("IN", c))
         \/ \E c \in Conns : OnReceiveData(c) /\ Pushed(Msg("DATA", c))
         \/ \E c \in Conns : OnDisconnected(c) /\ Pushed(Msg("OUT", c))
  BY <1>1, <1>2, <1>3, <1>4, <1>5, <1>6, <1>11 DEF IoThreads
<1> QED BY <1>7, <1>8, <1>9, <1>10, <1>11, <1>12, Zenon DEF Next, MainThread

-----------------------------------------------------------------------------
(* A step that pushes nothing and applies nothing keeps the invariant.      *)
LEMMA NetStill ==
  ASSUME NetInv, TypeOK', Still
  PROVE  NetInv'
<1>1. \A i \in 1..Len(Unapplied) : Unapplied[i].ptr \in Conns
  BY QueueType DEF NetInv
<1>2. \A f \in Fds : container[f] # NoConn => container[f] \in Conns
  BY DEF NetInv, TypeOK
<1>3. SocketOrder' /\ Announced'
  BY <1>1 DEF NetInv, Still, Alike, SocketOrder, Announced
<1>4. Tabled'
  BY <1>2 DEF NetInv, Still, Alike, Tabled, Msg
<1>5. Ended'
  BY <1>1 DEF NetInv, Still, Alike, Ended, Msg
<1>6. EntryRemoved'
  BY <1>2 DEF NetInv, Still, Alike, EntryRemoved, Msg
<1> QED BY <1>3, <1>4, <1>5, <1>6 DEF NetInv

(* What a pushed message is, and what was there before.                     *)
LEMMA PushedParts ==
  ASSUME TypeOK, NEW m, Pushed(m)
  PROVE  /\ Len(Unapplied) \in Nat /\ Len(Unapplied') \in Nat
         /\ Len(Unapplied') = Len(Unapplied) + 1
         /\ \A i \in 1..Len(Unapplied') :
              \/ i \in 1..Len(Unapplied) /\ Unapplied'[i] = Unapplied[i]
              \/ i = Len(Unapplied') /\ Unapplied'[i] = m
         /\ Len(Unapplied') \in 1..Len(Unapplied') /\ Unapplied'[Len(Unapplied')] = m
         /\ \A i \in 1..Len(Unapplied) :
              i \in 1..Len(Unapplied') /\ Unapplied'[i] = Unapplied[i]
<1>1. Len(Unapplied) \in Nat
  BY QueueType
<1>2. PICK n \in Nat : n = Len(Unapplied)
  BY <1>1
<1>3. /\ Len(Unapplied') = n + 1 /\ Unapplied'[n + 1] = m
      /\ \A i \in 1..n : Unapplied'[i] = Unapplied[i]
  BY <1>2 DEF Pushed
<1>4. \A i \in 1..(n + 1) : i \in 1..n \/ i = n + 1
  OBVIOUS
<1>5. n + 1 \in Nat /\ n + 1 \in 1..(n + 1) /\ \A i \in 1..n : i \in 1..(n + 1)
  OBVIOUS
<1> QED BY <1>2, <1>3, <1>4, <1>5

(* Pushing a message keeps what concerns the order of the messages.         *)
LEMMA PushOrder ==
  ASSUME NetInv, NEW c \in Conns, NEW kind \in Kinds, Pushed(Msg(kind, c)),
         kind = "IN" <=> sock[c] = "new", sock[c] # "closed"
  PROVE  SocketOrder'
<1> DEFINE n == Len(Unapplied)
<1>1. /\ n \in Nat /\ Len(Unapplied') = n + 1
      /\ \A i \in 1..(n + 1) :
           \/ i \in 1..n /\ Unapplied'[i] = Unapplied[i]
           \/ i = n + 1 /\ Unapplied'[i] = Msg(kind, c)
  BY PushedParts DEF NetInv
<1>2. \A i \in 1..n : Unapplied[i].ptr = c => kind # "IN" /\ Unapplied[i].type # "OUT"
  BY DEF NetInv, Announced
<1> HIDE DEF n
<1> SUFFICES ASSUME NEW i \in 1..(n + 1), NEW j \in 1..(n + 1), i < j,
                    Unapplied'[i].ptr = Unapplied'[j].ptr
             PROVE  Unapplied'[i].type # "OUT" /\ Unapplied'[j].type # "IN"
  BY <1>1 DEF SocketOrder
<1>3. i \in 1..n /\ Unapplied'[i] = Unapplied[i]
  BY <1>1
<1>4. CASE j \in 1..n
  <2>1. Unapplied'[j] = Unapplied[j]
    BY <1>1, <1>4
  <2> QED BY <1>3, <1>4, <2>1 DEF NetInv, SocketOrder, n
<1>5. CASE j = n + 1
  <2>1. Unapplied'[j] = Msg(kind, c)
    BY <1>1, <1>5
  <2>2. Unapplied'[j].ptr = c /\ Unapplied'[j].type = kind
    BY <2>1 DEF Msg
  <2> QED BY <1>2, <1>3, <2>2
<1> QED BY <1>1, <1>4, <1>5

(* An accepted socket is announced.                                         *)
LEMMA NetConnected ==
  ASSUME NetInv, TypeOK', NEW c \in Conns, NEW f \in Fds,
         OnConnected(c, f), Pushed(Msg("IN", c))
  PROVE  NetInv'
<1> DEFINE n == Len(Unapplied)
<1>0. TypeOK
  BY DEF NetInv
<1>1. /\ n \in Nat /\ Len(Unapplied') = n + 1
      /\ \A i \in 1..(n + 1) :
           \/ i \in 1..n /\ Unapplied'[i] = Unapplied[i]
           \/ i = n + 1 /\ Unapplied'[i] = Msg("IN", c)
      /\ \A i \in 1..n : i \in 1..(n + 1) /\ Unapplied'[i] = Unapplied[i]
  BY <1>0, PushedParts
<1>2. /\ sock[c] = "new" /\ sock' = [sock EXCEPT ![c] = "announced"]
      /\ fd' = [fd EXCEPT ![c] = f] /\ container' = container
  BY DEF OnConnected
<1>3. \A d \in Conns : d # c => sock'[d] = sock[d] /\ fd'[d] = fd[d]
  BY <1>0, <1>2 DEF TypeOK
<1>4. sock'[c] = "announced"
  BY <1>0, <1>2 DEF TypeOK
<1>5. \A i \in 1..n : Unapplied[i].ptr \in Conns /\ Unapplied[i].ptr # c
  BY <1>0, <1>2, QueueType DEF NetInv, Announced
<1>6. \A g \in Fds : container[g] # NoConn => container[g] \in Conns /\ container[g] # c
  BY <1>0, <1>2 DEF NetInv, Tabled, TypeOK
<1>7. Msg("IN", c).ptr = c /\ Msg("IN", c).type = "IN" /\ \A d : d # c => Msg("IN", c) # Msg("IN", d)
  BY DEF Msg
<1>8. SocketOrder'
  BY <1>2, PushOrder DEF Kinds
<1> HIDE DEF n
<1>9. Announced'
  BY <1>1, <1>3, <1>4, <1>5, <1>7 DEF NetInv, Announced, n
<1>10. Tabled'
  <2>1. ASSUME NEW g \in Fds, container[g] # NoConn, NEW i \in 1..(n + 1)
        PROVE  Unapplied'[i] # Msg("IN", container[g])
    BY <1>1, <1>6, <1>7, <2>1 DEF NetInv, Tabled, n
  <2>2. ASSUME NEW g \in Fds, container[g] # NoConn
        PROVE  fd'[container[g]] = g /\ sock'[container[g]] # "new"
    BY <1>3, <1>6, <2>2 DEF NetInv, Tabled
  <2> QED BY <1>1, <1>2, <2>1, <2>2 DEF Tabled, Msg
<1>11. Ended'
  <2>1. ASSUME NEW i \in 1..(n + 1), sock'[Unapplied'[i].ptr] = "closed"
        PROVE  \E j \in i..(n + 1) : Unapplied'[j] = Msg("OUT", Unapplied'[i].ptr)
    <3>1. i \in 1..n /\ Unapplied'[i] = Unapplied[i] /\ Unapplied[i].ptr # c
      BY <1>1, <1>4, <1>5, <1>7, <2>1
    <3>2. sock[Unapplied[i].ptr] = "closed"
      BY <1>3, <1>5, <2>1, <3>1
    <3>3. PICK j \in i..n : Unapplied[j] = Msg("OUT", Unapplied[i].ptr)
      BY <3>1, <3>2 DEF NetInv, Ended, n
    <3>4. j \in 1..n /\ j \in i..(n + 1)
      BY <1>1, <3>1
    <3> QED BY <1>1, <3>1, <3>3, <3>4
  <2> QED BY <1>1, <2>1 DEF Ended, Msg
<1>12. EntryRemoved'
  <2>1. ASSUME NEW g \in Fds, container[g] # NoConn, sock'[container[g]] = "closed"
        PROVE  \E i \in 1..(n + 1) : Unapplied'[i] = Msg("OUT", container[g])
    <3>1. sock[container[g]] = "closed"
      BY <1>3, <1>6, <2>1
    <3>2. PICK i \in 1..n : Unapplied[i] = Msg("OUT", container[g])
      BY <2>1, <3>1 DEF NetInv, EntryRemoved, n
    <3> QED BY <1>1, <3>2
  <2> QED BY <1>1, <1>2, <2>1 DEF EntryRemoved, Msg
<1> QED BY <1>8, <1>9, <1>10, <1>11, <1>12 DEF NetInv

(* A packet is pushed.                                                      *)
LEMMA NetReceived ==
  ASSUME NetInv, TypeOK', NEW c \in Conns, OnReceiveData(c), Pushed(Msg("DATA", c))
  PROVE  NetInv'
<1> DEFINE n == Len(Unapplied)
<1>0. TypeOK
  BY DEF NetInv
<1>1. /\ n \in Nat /\ Len(Unapplied') = n + 1
      /\ \A i \in 1..(n + 1) :
           \/ i \in 1..n /\ Unapplied'[i] = Unapplied[i]
           \/ i = n + 1 /\ Unapplied'[i] = Msg("DATA", c)
      /\ \A i \in 1..n : i \in 1..(n + 1) /\ Unapplied'[i] = Unapplied[i]
  BY <1>0, PushedParts
<1>2. sock[c] \notin {"new", "closed"} /\ UNCHANGED << sock, fd, container >>
  BY DEF OnReceiveData
<1>3. /\ Msg("DATA", c).ptr = c /\ Msg("DATA", c).type = "DATA"
      /\ \A d : Msg("DATA", c) # Msg("IN", d)
  BY DEF Msg
<1>4. SocketOrder'
  BY <1>2, PushOrder DEF Kinds
<1> HIDE DEF n
<1>5. Announced'
  BY <1>1, <1>2, <1>3 DEF NetInv, Announced, n
<1>6. Tabled'
  <2>1. ASSUME NEW g \in Fds, container[g] # NoConn, NEW i \in 1..(n + 1)
        PROVE  Unapplied'[i] # Msg("IN", container[g])
    BY <1>1, <1>3, <2>1 DEF NetInv, Tabled, n
  <2> QED BY <1>1, <1>2, <2>1 DEF NetInv, Tabled, Msg
<1>7. Ended'
  <2>1. ASSUME NEW i \in 1..(n + 1), sock[Unapplied'[i].ptr] = "closed"
        PROVE  \E j \in i..(n + 1) : Unapplied'[j] = Msg("OUT", Unapplied'[i].ptr)
    <3>1. i \in 1..n /\ Unapplied'[i] = Unapplied[i]
      BY <1>1, <1>2, <1>3, <2>1
    <3>2. PICK j \in i..n : Unapplied[j] = Msg("OUT", Unapplied[i].ptr)
      BY <2>1, <3>1 DEF NetInv, Ended, n
    <3>3. j \in 1..n /\ j \in i..(n + 1)
      BY <1>1, <3>1
    <3> QED BY <1>1, <3>1, <3>2, <3>3
  <2> QED BY <1>1, <1>2, <2>1 DEF Ended, Msg
<1>8. EntryRemoved'
  <2>1. ASSUME NEW g \in Fds, container[g] # NoConn, sock[container[g]] = "closed"
        PROVE  \E i \in 1..(n + 1) : Unapplied'[i] = Msg("OUT", container[g])
    <3>1. PICK i \in 1..n : Unapplied[i] = Msg("OUT", container[g])
      BY <2>1 DEF NetInv, EntryRemoved, n
    <3> QED BY <1>1, <3>1
  <2> QED BY <1>1, <1>2, <2>1 DEF EntryRemoved, Msg
<1> QED BY <1>4, <1>5, <1>6, <1>7, <1>8 DEF NetInv

(* The end of a socket is pushed.                                           *)
LEMMA NetDisconnected ==
  ASSUME NetInv, TypeOK', NEW c \in Conns, OnDisconnected(c), Pushed(Msg("OUT", c))
  PROVE  NetInv'
<1> DEFINE n == Len(Unapplied)
<1>0. TypeOK
  BY DEF NetInv
<1>1. /\ n \in Nat /\ Len(Unapplied') = n + 1
      /\ \A i \in 1..(n + 1) :
           \/ i \in 1..n /\ Unapplied'[i] = Unapplied[i]
           \/ i = n + 1 /\ Unapplied'[i] = Msg("OUT", c)
      /\ \A i \in 1..n : i \in 1..(n + 1) /\ Unapplied'[i] = Unapplied[i]
      /\ n + 1 \in 1..(n + 1) /\ Unapplied'[n + 1] = Msg("OUT", c)
  BY <1>0, PushedParts
<1>2. /\ sock[c] = "released" /\ sock' = [sock EXCEPT ![c] = "closed"]
      /\ UNCHANGED << fd, container >>
  BY DEF OnDisconnected
<1>3. sock'[c] = "closed" /\ \A d \in Conns : d # c => sock'[d] = sock[d]
  BY <1>0, <1>2 DEF TypeOK
<1>4. /\ Msg("OUT", c).ptr = c /\ Msg("OUT", c).type = "OUT"
      /\ \A d : Msg("OUT", c) # Msg("IN", d)
  BY DEF Msg
<1>5. \A i \in 1..n : Unapplied[i].ptr \in Conns
  BY <1>0, QueueType
<1>6. \A g \in Fds : container[g] # NoConn => container[g] \in Conns
  BY <1>0 DEF TypeOK
<1>7. SocketOrder'
  BY <1>2, PushOrder DEF Kinds
<1> HIDE DEF n
<1>8. Announced'
  BY <1>1, <1>3, <1>4, <1>5 DEF NetInv, Announced, n
<1>9. Tabled'
  <2>1. ASSUME NEW g \in Fds, container[g] # NoConn, NEW i \in 1..(n + 1)
        PROVE  Unapplied'[i] # Msg("IN", container[g])
    BY <1>1, <1>4, <2>1 DEF NetInv, Tabled, n
  <2>2. ASSUME NEW g \in Fds, container[g] # NoConn PROVE sock'[container[g]] # "new"
    BY <1>3, <1>6, <2>2 DEF NetInv, Tabled
  <2> QED BY <1>1, <1>2, <2>1, <2>2 DEF NetInv, Tabled, Msg
<1>10. Ended'
  <2>1. ASSUME NEW i \in 1..(n + 1), sock'[Unapplied'[i].ptr] = "closed"
        PROVE  \E j \in i..(n + 1) : Unapplied'[j] = Msg("OUT", Unapplied'[i].ptr)
    <3>1. CASE Unapplied'[i].ptr = c
      <4>1. n + 1 \in i..(n + 1)
        BY <1>1
      <4> QED BY <1>1, <3>1, <4>1
    <3>2. CASE Unapplied'[i].ptr # c
      <4>1. i \in 1..n /\ Unapplied'[i] = Unapplied[i] /\ Unapplied[i].ptr # c
        BY <1>1, <1>4, <3>2
      <4>2. sock[Unapplied[i].ptr] = "closed"
        BY <1>3, <1>5, <2>1, <4>1
      <4>3. PICK j \in i..n : Unapplied[j] = Msg("OUT", Unapplied[i].ptr)
        BY <4>1, <4>2 DEF NetInv, Ended, n
      <4>4. j \in 1..n /\ j \in i..(n + 1)
        BY <1>1, <4>1
      <4> QED BY <1>1, <4>1, <4>3, <4>4
    <3> QED BY <3>1, <3>2
  <2> QED BY <1>1, <2>1 DEF Ended, Msg
<1>11. EntryRemoved'
  <2>1. ASSUME NEW g \in Fds, container[g] # NoConn, sock'[container[g]] = "closed"
        PROVE  \E i \in 1..(n + 1) : Unapplied'[i] = Msg("OUT", container[g])
    <3>1. CASE container[g] = c
      BY <1>1, <3>1
    <3>2. CASE container[g] # c
      <4>1. sock[container[g]] = "closed"
        BY <1>3, <1>6, <2>1, <3>2
      <4>2. PICK i \in 1..n : Unapplied[i] = Msg("OUT", container[g])
        BY <2>1, <4>1 DEF NetInv, EntryRemoved, n
      <4> QED BY <1>1, <4>2
    <3> QED BY <3>1, <3>2
  <2> QED BY <1>1, <1>2, <2>1 DEF EntryRemoved, Msg
<1> QED BY <1>7, <1>8, <1>9, <1>10, <1>11 DEF NetInv

(* What is left after a message was taken.                                  *)
LEMMA PoppedParts ==
  ASSUME TypeOK, Popped
  PROVE  /\ Len(Unapplied) \in Nat /\ Len(Unapplied') \in Nat
         /\ Len(Unapplied) = Len(Unapplied') + 1
         /\ 1 \in 1..Len(Unapplied)
         /\ \A i \in 1..Len(Unapplied') :
              i + 1 \in 1..Len(Unapplied) /\ Unapplied'[i] = Unapplied[i + 1]
         /\ \A i \in 1..Len(Unapplied) : i # 1 =>
              i - 1 \in 1..Len(Unapplied') /\ Unapplied'[i - 1] = Unapplied[i]
<1>1. PICK n \in Nat \ {0} : n = Len(Unapplied)
  BY DEF Popped
<1>2. Len(Unapplied') = n - 1 /\ \A i \in 1..(n - 1) : Unapplied'[i] = Unapplied[i + 1]
  BY <1>1 DEF Popped
<1>3. n - 1 \in Nat /\ n = (n - 1) + 1 /\ 1 \in 1..n /\ \A i \in 1..(n - 1) : i + 1 \in 1..n
  OBVIOUS
<1>4. \A i \in 1..n : i # 1 => i - 1 \in 1..(n - 1) /\ (i - 1) + 1 = i
  OBVIOUS
<1>5. \A i \in 1..n : i # 1 => Unapplied'[i - 1] = Unapplied[i]
  BY <1>2, <1>4
<1> QED BY <1>1, <1>2, <1>3, <1>4, <1>5

(* Taking a message keeps what concerns only the messages.                  *)
LEMMA PopOrder ==
  ASSUME NetInv, Popped, Alike
  PROVE  SocketOrder' /\ Announced' /\ Ended'
<1>0. TypeOK
  BY DEF NetInv
<1>1. PICK n \in Nat, p \in Nat : n = Len(Unapplied) /\ p = Len(Unapplied')
  BY <1>0, PoppedParts
<1>2. /\ n = p + 1
      /\ \A i \in 1..p : i + 1 \in 1..n /\ Unapplied'[i] = Unapplied[i + 1]
      /\ \A i \in 1..n : i # 1 => i - 1 \in 1..p /\ Unapplied'[i - 1] = Unapplied[i]
  BY <1>0, <1>1, PoppedParts
<1>3. \A i \in 1..n : Unapplied[i].ptr \in Conns
  BY <1>0, <1>1, QueueType
<1>4. SocketOrder'
  <2>1. ASSUME NEW i \in 1..p, NEW j \in 1..p, i < j,
               Unapplied'[i].ptr = Unapplied'[j].ptr
        PROVE  Unapplied'[i].type # "OUT" /\ Unapplied'[j].type # "IN"
    <3>1. i + 1 < j + 1 /\ i + 1 \in 1..n /\ j + 1 \in 1..n
      BY <1>2, <2>1
    <3>2. Unapplied'[i] = Unapplied[i + 1] /\ Unapplied'[j] = Unapplied[j + 1]
      BY <1>2
    <3>3. \A a, b \in 1..n : a < b /\ Unapplied[a].ptr = Unapplied[b].ptr =>
            Unapplied[a].type # "OUT" /\ Unapplied[b].type # "IN"
      BY <1>1 DEF NetInv, SocketOrder
    <3> QED BY <2>1, <3>1, <3>2, <3>3
  <2> QED BY <1>1, <2>1 DEF SocketOrder
<1>5. Announced'
  <2>1. ASSUME NEW i \in 1..p
        PROVE  /\ sock'[Unapplied'[i].ptr] # "new"
               /\ Unapplied'[i].type = "OUT" => sock'[Unapplied'[i].ptr] = "closed"
    <3>1. i + 1 \in 1..n /\ Unapplied'[i] = Unapplied[i + 1]
      BY <1>2
    <3> QED BY <1>1, <1>3, <3>1 DEF NetInv, Announced, Alike
  <2> QED BY <1>1, <2>1 DEF Announced
<1>6. Ended'
  <2>1. ASSUME NEW i \in 1..p, sock'[Unapplied'[i].ptr] = "closed"
        PROVE  \E j \in i..p : Unapplied'[j] = Msg("OUT", Unapplied'[i].ptr)
    <3>1. i + 1 \in 1..n /\ Unapplied'[i] = Unapplied[i + 1]
      BY <1>2
    <3>2. sock[Unapplied[i + 1].ptr] = "closed"
      BY <1>3, <2>1, <3>1 DEF Alike
    <3>3. PICK j \in (i + 1)..n : Unapplied[j] = Msg("OUT", Unapplied[i + 1].ptr)
      BY <1>1, <3>1, <3>2 DEF NetInv, Ended
    <3>4. j \in 1..n /\ j # 1 /\ j - 1 \in i..p
      BY <1>2, <3>1
    <3> QED BY <1>2, <3>1, <3>3, <3>4
  <2> QED BY <1>1, <2>1 DEF Ended, Msg
<1> QED BY <1>4, <1>5, <1>6

(* IN and DATA are applied.                                                 *)
LEMMA NetApplied ==
  ASSUME NetInv, TypeOK', Popped, Alike, fd' = fd, NEW c \in Conns,
         \/ Unapplied[1] = Msg("IN", c) /\ OnConnection(c)
         \/ Unapplied[1] = Msg("DATA", c) /\ container' = container
  PROVE  NetInv'
<1>0. TypeOK /\ NoConn \notin Conns
  BY NamesAssumption DEF NetInv
<1>1. PICK n \in Nat, p \in Nat : n = Len(Unapplied) /\ p = Len(Unapplied')
  BY <1>0, PoppedParts
<1>2. /\ n = p + 1 /\ 1 \in 1..n
      /\ \A i \in 1..p : i + 1 \in 1..n /\ Unapplied'[i] = Unapplied[i + 1]
      /\ \A i \in 1..n : i # 1 => i - 1 \in 1..p /\ Unapplied'[i - 1] = Unapplied[i]
  BY <1>0, <1>1, PoppedParts
<1>3. /\ \A d : Unapplied[1] # Msg("OUT", d)
      /\ Unapplied[1].ptr = c
  BY DEF Msg
<1>4. sock[c] # "new" /\ fd[c] \in Fds
  BY <1>0, <1>1, <1>2, <1>3 DEF NetInv, Announced, TypeOK
<1>5. \A g \in Fds : container[g] # NoConn => container[g] \in Conns
  BY <1>0 DEF TypeOK
<1>6. ASSUME NEW d, NEW i \in 1..n, Unapplied[i] = Msg("OUT", d)
      PROVE  \E j \in 1..p : Unapplied'[j] = Msg("OUT", d)
  BY <1>2, <1>3, <1>6
<1>7. ASSUME NEW g \in Fds, container'[g] # NoConn
      PROVE  \/ container'[g] = container[g]
             \/ container'[g] = c /\ g = fd[c] /\ Unapplied[1] = Msg("IN", c)
  BY <1>0, <1>4, <1>7 DEF OnConnection, TypeOK
<1>8. Tabled'
  <2>1. ASSUME NEW g \in Fds, container'[g] # NoConn
        PROVE  /\ fd[container'[g]] = g /\ sock'[container'[g]] # "new"
               /\ \A i \in 1..p : Unapplied'[i] # Msg("IN", container'[g])
    <3>1. CASE container'[g] = container[g]
      <4>1. /\ fd[container[g]] = g /\ sock[container[g]] # "new"
            /\ \A i \in 1..n : Unapplied[i] # Msg("IN", container[g])
        BY <1>1, <2>1, <3>1 DEF NetInv, Tabled
      <4>2. sock'[container[g]] # "new"
        BY <1>5, <2>1, <3>1, <4>1 DEF Alike
      <4> QED BY <1>2, <3>1, <4>1, <4>2
    <3>2. CASE container'[g] = c /\ g = fd[c] /\ Unapplied[1] = Msg("IN", c)
      <4>1. sock'[c] # "new"
        BY <1>4 DEF Alike
      <4>2. ASSUME NEW i \in 1..p PROVE Unapplied'[i] # Msg("IN", c)
        <5>1. i + 1 \in 1..n /\ 1 < i + 1 /\ Unapplied'[i] = Unapplied[i + 1]
          BY <1>2
        <5>2. Unapplied[i + 1].ptr = c => Unapplied[i + 1].type # "IN"
          BY <1>1, <1>2, <1>3, <5>1 DEF NetInv, SocketOrder
        <5>3. Msg("IN", c).ptr = c /\ Msg("IN", c).type = "IN"
          BY DEF Msg
        <5> QED BY <5>1, <5>2, <5>3
      <4> QED BY <3>2, <4>1, <4>2
    <3> QED BY <1>7, <2>1, <3>1, <3>2
  <2> QED BY <1>1, <2>1 DEF Tabled, Msg
<1>9. EntryRemoved'
  <2>1. ASSUME NEW g \in Fds, container'[g] # NoConn, sock'[container'[g]] = "closed"
        PROVE  \E i \in 1..p : Unapplied'[i] = Msg("OUT", container'[g])
    <3>1. CASE container'[g] = container[g]
      <4>1. sock[container[g]] = "closed"
        BY <1>5, <2>1, <3>1 DEF Alike
      <4>2. PICK i \in 1..n : Unapplied[i] = Msg("OUT", container[g])
        BY <1>1, <2>1, <3>1, <4>1 DEF NetInv, EntryRemoved
      <4> QED BY <1>6, <3>1, <4>2
    <3>2. CASE container'[g] = c
      <4>1. sock[c] = "closed"
        BY <2>1, <3>2 DEF Alike
      <4>2. PICK i \in 1..n : Unapplied[i] = Msg("OUT", c)
        BY <1>1, <1>2, <1>3, <4>1 DEF NetInv, Ended
      <4> QED BY <1>6, <3>2, <4>2
    <3> QED BY <1>7, <2>1, <3>1, <3>2
  <2> QED BY <1>1, <2>1 DEF EntryRemoved, Msg
<1>10. SocketOrder' /\ Announced' /\ Ended'
  BY PopOrder
<1> QED BY <1>8, <1>9, <1>10 DEF NetInv

(* OUT is applied.                                                          *)
LEMMA NetRemoved ==
  ASSUME NetInv, TypeOK', Popped, Alike, fd' = fd, NEW c \in Conns,
         Unapplied[1] = Msg("OUT", c), OnDisConnection(c)
  PROVE  NetInv'
<1>0. TypeOK
  BY DEF NetInv
<1>1. PICK n \in Nat, p \in Nat : n = Len(Unapplied) /\ p = Len(Unapplied')
  BY <1>0, PoppedParts
<1>2. /\ n = p + 1 /\ 1 \in 1..n
      /\ \A i \in 1..p : i + 1 \in 1..n /\ Unapplied'[i] = Unapplied[i + 1]
      /\ \A i \in 1..n : i # 1 => i - 1 \in 1..p /\ Unapplied'[i - 1] = Unapplied[i]
  BY <1>0, <1>1, PoppedParts
<1>3. \A d : Unapplied[1] = Msg("OUT", d) => d = c
  BY DEF Msg
<1>4. ASSUME NEW g \in Fds, container'[g] # NoConn
      PROVE  container'[g] = container[g] /\ container[g] \in Conns /\ container[g] # c
  <2>1. g # fd[c] /\ container'[g] = container[g]
    BY <1>0, <1>4 DEF OnDisConnection, TypeOK
  <2>2. container[g] \in Conns /\ fd[container[g]] = g
    BY <1>0, <1>4, <2>1 DEF NetInv, Tabled, TypeOK
  <2> QED BY <2>1, <2>2
<1>5. Tabled'
  <2>1. ASSUME NEW g \in Fds, container'[g] # NoConn
        PROVE  /\ fd[container'[g]] = g /\ sock'[container'[g]] # "new"
               /\ \A i \in 1..p : Unapplied'[i] # Msg("IN", container'[g])
    <3>1. /\ fd[container[g]] = g /\ sock[container[g]] # "new"
          /\ \A i \in 1..n : Unapplied[i] # Msg("IN", container[g])
      BY <1>1, <1>4, <2>1 DEF NetInv, Tabled
    <3>2. sock'[container[g]] # "new"
      BY <1>4, <2>1, <3>1 DEF Alike
    <3> QED BY <1>2, <1>4, <2>1, <3>1, <3>2
  <2> QED BY <1>1, <2>1 DEF Tabled, Msg
<1>6. EntryRemoved'
  <2>1. ASSUME NEW g \in Fds, container'[g] # NoConn, sock'[container'[g]] = "closed"
        PROVE  \E i \in 1..p : Unapplied'[i] = Msg("OUT", container'[g])
    <3>1. sock[container[g]] = "closed" /\ container[g] # NoConn
      BY <1>4, <2>1 DEF Alike
    <3>2. PICK i \in 1..n : Unapplied[i] = Msg("OUT", container[g])
      BY <1>1, <3>1 DEF NetInv, EntryRemoved
    <3>3. i # 1
      BY <1>3, <1>4, <2>1, <3>2
    <3> QED BY <1>2, <1>4, <2>1, <3>2, <3>3
  <2> QED BY <1>1, <2>1 DEF EntryRemoved, Msg
<1>7. SocketOrder' /\ Announced' /\ Ended'
  BY PopOrder
<1> QED BY <1>5, <1>6, <1>7 DEF NetInv

(* The invariant holds at the start, and every step keeps it.               *)
LEMMA NetInduction == (Init => NetInv) /\ (NetInv /\ [Next]_vars => NetInv')
<1>1. ASSUME Init PROVE NetInv
  <2>1. TypeOK
    BY <1>1, NetTypes
  <2>2. << >> \o << >> = << >> /\ Len(<< >>) = 0
    OBVIOUS
  <2>3. Unapplied = << >>
    BY <1>1, <2>2 DEF Init, Unapplied
  <2>4. \A i \in 1..Len(Unapplied) : FALSE
    BY <2>2, <2>3
  <2>5. \A f \in Fds : container[f] = NoConn
    BY <1>1 DEF Init
  <2> QED BY <2>1, <2>4, <2>5
       DEF NetInv, SocketOrder, Announced, Tabled, Ended, EntryRemoved
<1>2. ASSUME NetInv, [Next]_vars PROVE NetInv'
  <2>0. TypeOK /\ TypeOK'
    BY <1>2, NetTypes DEF NetInv
  <2>1. CASE Still
    BY <1>2, <2>0, <2>1, NetStill
  <2>2. ASSUME NEW c \in Conns, NEW f \in Fds, OnConnected(c, f), Pushed(Msg("IN", c))
        PROVE  NetInv'
    BY <1>2, <2>0, <2>2, NetConnected
  <2>3. ASSUME NEW c \in Conns, OnReceiveData(c), Pushed(Msg("DATA", c)) PROVE NetInv'
    BY <1>2, <2>0, <2>3, NetReceived
  <2>4. ASSUME NEW c \in Conns, OnDisconnected(c), Pushed(Msg("OUT", c)) PROVE NetInv'
    BY <1>2, <2>0, <2>4, NetDisconnected
  <2>5. ASSUME NEW c \in Conns, Popped, Unapplied[1] = Msg("IN", c), OnConnection(c),
               Alike, fd' = fd
        PROVE  NetInv'
    BY <1>2, <2>0, <2>5, NetApplied
  <2>6. ASSUME NEW c \in Conns, Popped, Unapplied[1] = Msg("DATA", c),
               Alike, UNCHANGED << fd, container >>
        PROVE  NetInv'
    BY <1>2, <2>0, <2>6, NetApplied
  <2>7. ASSUME NEW c \in Conns, Popped, Unapplied[1] = Msg("OUT", c), OnDisConnection(c),
               Alike, fd' = fd
        PROVE  NetInv'
    BY <1>2, <2>0, <2>7, NetRemoved
  <2> QED BY <1>2, <2>0, <2>1, <2>2, <2>3, <2>4, <2>5, <2>6, <2>7, StepKinds
<1> QED BY <1>1, <1>2

(* The invariant holds of every reachable state.                            *)
LEMMA NetInvHolds == Spec => []NetInv
BY NetInduction, PTL DEF Spec

(* For any number of io threads, sockets and descriptors the main thread    *)
(* applies the messages of one socket in the order OnConnected,             *)
(* OnReceiveData, OnDisconnected: IN once and first, OUT once and last.     *)
THEOREM OrderPerSocket == Spec => []SocketOrder
<1>1. NetInv => SocketOrder
  BY DEF NetInv
<1> QED BY <1>1, NetInvHolds, PTL

(* For any number of io threads the table keeps no context of a closed      *)
(* connection: OnDisConnection will still be called for it.                 *)
THEOREM NoContextLeft == Spec => []EntryRemoved
<1>1. NetInv => EntryRemoved
  BY DEF NetInv
<1> QED BY <1>1, NetInvHolds, PTL

-----------------------------------------------------------------------------
(* Sockets that share a descriptor follow each other, but for those that    *)
(* got it before the end of its last socket was pushed.                     *)
OneStep == OneOpen /\ Early /\ Known /\ Introduced /\ Emptied /\ Separated

(* A step that pushes nothing and applies nothing.                          *)
LEMMA OneStill ==
  ASSUME OneInv, Still
  PROVE  OneStep'
<1>0. TypeOK /\ NetInv
  BY DEF OneInv, NetInv
<1>1. \A i \in 1..Len(Unapplied) : Unapplied[i].ptr \in Conns
  BY <1>0, QueueType
<1>2. \A d \in Conns : Settled(d) => Settled(d)'
  BY DEF Still, Alike, Settled, Msg
<1>3. OneOpen'
  <2>1. ASSUME NEW c \in Conns, NEW d \in Conns, Apart(c, d)',
               sock'[c] # "new", sock'[d] # "new", fd'[c] = fd'[d]
        PROVE  Settled(c)' \/ Settled(d)'
    <3>1. Apart(c, d) /\ sock[c] # "new" /\ sock[d] # "new" /\ fd[c] = fd[d]
      BY <2>1 DEF Still, Alike, Apart
    <3> QED BY <1>2, <3>1 DEF OneInv, OneOpen
  <2> QED BY <2>1 DEF OneOpen
<1>4. Early'
  BY <1>1 DEF OneInv, Still, Alike, Early
<1>5. Known'
  BY DEF OneInv, Still, Alike, Known, Msg
<1>6. Introduced'
  BY DEF OneInv, Still, Introduced, Msg
<1>7. Emptied'
  BY DEF OneInv, Still, Emptied, Msg, Apart
<1>8. Separated'
  BY DEF OneInv, Still, Separated, Msg, Apart
<1> QED BY <1>3, <1>4, <1>5, <1>6, <1>7, <1>8 DEF OneStep

(* All other sockets with the descriptor f of c are settled, except that    *)
(* both are crossed.                                                        *)
Alone(c, f) ==
  \A d \in Conns : sock[d] # "new" /\ fd[d] = f /\ Apart(c, d)' => Settled(d)

(* The messages of a settled socket end with its OUT, and a context it has  *)
(* is erased by it.                                                         *)
LEMMA SettledEnds ==
  ASSUME OneInv, NEW d \in Conns, Settled(d)
  PROVE  /\ \A i \in 1..Len(Unapplied) : Unapplied[i].ptr = d =>
              \E k \in i..Len(Unapplied) : Unapplied[k] = Msg("OUT", d)
         /\ fd[d] \in Fds /\ container[fd[d]] = d =>
              \E k \in 1..Len(Unapplied) : Unapplied[k] = Msg("OUT", d)
<1>0. TypeOK /\ NetInv /\ NoConn \notin Conns
  BY NamesAssumption DEF OneInv, NetInv
<1>1. CASE sock[d] = "closed"
  BY <1>0, <1>1 DEF NetInv, Ended, EntryRemoved
<1>2. CASE sock[d] # "closed"
  <2>1. /\ sock[d] = "lost" /\ container[fd[d]] # d
        /\ \A i \in 1..Len(Unapplied) : Unapplied[i] # Msg("IN", d)
    BY <1>2 DEF Settled
  <2>2. ASSUME NEW i \in 1..Len(Unapplied), Unapplied[i].ptr = d PROVE FALSE
    <3>1. Unapplied[i].type = "IN"
      BY <2>1, <2>2 DEF OneInv, Early
    <3> QED BY <1>0, <2>1, <2>2, <3>1, QueueType
  <2> QED BY <2>1, <2>2
<1> QED BY <1>1, <1>2

(* A message about c is pushed when the other sockets that had the          *)
(* descriptor are settled: their OUT is before it.                          *)
LEMMA OnePush ==
  ASSUME OneInv, NEW c \in Conns, NEW kind \in Kinds, NEW f \in Fds,
         Pushed(Msg(kind, c)), Alone(c, f),
         sock[c] \notin {"closed", "lost"},
         kind = "IN" <=> sock[c] = "new",
         fd' = [fd EXCEPT ![c] = f], kind # "IN" => fd[c] = f,
         sock'[c] \notin {"new", "lost"}, kind # "OUT" => sock'[c] # "closed",
         kind = "OUT" => sock'[c] = "closed",
         kind # "IN" => sock[c] # "announced" /\ sock'[c] # "announced",
         \A d \in Conns : d # c => sock'[d] = sock[d],
         container' = container, crossed \subseteq crossed'
  PROVE  OneStep'
<1>0. TypeOK /\ NetInv
  BY DEF OneInv, NetInv
<1>1. PICK n \in Nat : n = Len(Unapplied)
  BY <1>0, QueueType
<1>2. /\ Len(Unapplied') = n + 1
      /\ \A i \in 1..(n + 1) :
           \/ i \in 1..n /\ Unapplied'[i] = Unapplied[i]
           \/ i = n + 1 /\ Unapplied'[i] = Msg(kind, c)
      /\ \A i \in 1..n : i \in 1..(n + 1) /\ Unapplied'[i] = Unapplied[i]
      /\ n + 1 \in 1..(n + 1) /\ Unapplied'[n + 1] = Msg(kind, c)
  BY <1>0, <1>1, PushedParts
<1>3. Msg(kind, c).ptr = c /\ Msg(kind, c).type = kind
  BY DEF Msg
<1>4. fd'[c] = f /\ \A d \in Conns : d # c => fd'[d] = fd[d]
  BY <1>0 DEF TypeOK
<1>5. \A i \in 1..n : /\ Unapplied[i].ptr \in Conns
                      /\ sock[Unapplied[i].ptr] # "new"
                      /\ fd'[Unapplied[i].ptr] = fd[Unapplied[i].ptr]
  <2>1. \A i \in 1..n : Unapplied[i].ptr \in Conns /\ sock[Unapplied[i].ptr] # "new"
    BY <1>0, <1>1, QueueType DEF NetInv, Announced
  <2> QED BY <1>4, <2>1
<1>6. \A g \in Fds : container[g] # NoConn =>
        container[g] \in Conns /\ sock[container[g]] # "new" /\ fd[container[g]] = g
  BY <1>0 DEF NetInv, Tabled, TypeOK
<1>62. \A d, e \in Conns : Apart(d, e)' => Apart(d, e)
  BY DEF Apart
<1>63. ASSUME NEW d \in Conns, d # c, sock[d] # "new", Settled(d)
       PROVE  Settled(d)'
  <2>1. sock'[d] = sock[d] /\ fd'[d] = fd[d]
    BY <1>4, <1>63
  <2>2. CASE sock[d] = "closed"
    BY <2>1, <2>2 DEF Settled
  <2>3. CASE sock[d] # "closed"
    <3>1. /\ sock[d] = "lost" /\ container[fd[d]] # d
          /\ \A i \in 1..n : Unapplied[i] # Msg("IN", d)
      BY <1>1, <1>63, <2>3 DEF Settled
    <3>2. \A i \in 1..(n + 1) : Unapplied'[i] # Msg("IN", d)
      BY <1>2, <1>3, <1>63, <3>1 DEF Msg
    <3> QED BY <1>2, <2>1, <3>1, <3>2 DEF Settled, Msg
  <2> QED BY <2>2, <2>3
<1>7. OneOpen'
  <2>1. ASSUME NEW d \in Conns, NEW e \in Conns, Apart(d, e)',
               sock'[d] # "new", sock'[e] # "new", fd'[d] = fd'[e]
        PROVE  Settled(d)' \/ Settled(e)'
    <3>0. d # e /\ Apart(e, d)' /\ Apart(d, e)
      BY <1>62, <2>1 DEF Apart
    <3>1. CASE d = c
      BY <1>4, <1>63, <2>1, <3>0, <3>1 DEF Alone
    <3>2. CASE e = c
      BY <1>4, <1>63, <2>1, <3>0, <3>2 DEF Alone
    <3>3. CASE d # c /\ e # c
      BY <1>4, <1>63, <2>1, <3>0, <3>3 DEF OneInv, OneOpen
    <3> QED BY <3>1, <3>2, <3>3
  <2> QED BY <2>1 DEF OneOpen
<1>75. Early'
  <2>1. ASSUME NEW i \in 1..(n + 1), Unapplied'[i].type # "IN"
        PROVE  sock'[Unapplied'[i].ptr] \notin {"announced", "lost"}
    <3>1. CASE i \in 1..n /\ Unapplied'[i] = Unapplied[i] /\ Unapplied[i].ptr # c
      BY <1>1, <1>5, <2>1, <3>1 DEF OneInv, Early
    <3>2. CASE Unapplied'[i].ptr = c
      <4>1. kind # "IN"
        BY <1>2, <1>3, <1>5, <2>1, <3>2
      <4> QED BY <3>2, <4>1
    <3> QED BY <1>2, <1>3, <3>1, <3>2
  <2> QED BY <1>2, <2>1 DEF Early
<1>8. Known'
  <2>1. ASSUME NEW d \in Conns \ crossed', sock'[d] \notin {"new", "closed", "lost"}
        PROVE  \/ container[fd'[d]] = d
               \/ \E i \in 1..(n + 1) : Unapplied'[i] = Msg("IN", d)
    <3>1. CASE d = c /\ kind = "IN"
      BY <1>2, <3>1
    <3>2. CASE ~(d = c /\ kind = "IN")
      <4>1. sock[d] \notin {"new", "closed", "lost"} /\ fd'[d] = fd[d] /\ d \notin crossed
        BY <1>4, <2>1, <3>2
      <4>2. container[fd[d]] = d \/ \E i \in 1..n : Unapplied[i] = Msg("IN", d)
        BY <1>1, <4>1 DEF OneInv, Known
      <4> QED BY <1>2, <4>1, <4>2
    <3> QED BY <3>1, <3>2
  <2> QED BY <1>2, <2>1 DEF Known, Msg
<1>9. Introduced'
  <2>1. ASSUME NEW i \in 1..(n + 1), Unapplied'[i].type # "IN",
               Unapplied'[i].ptr \notin crossed'
        PROVE  \/ container[fd'[Unapplied'[i].ptr]] = Unapplied'[i].ptr
               \/ \E k \in 1..(i - 1) : Unapplied'[k] = Msg("IN", Unapplied'[i].ptr)
    <3>1. CASE i \in 1..n /\ Unapplied'[i] = Unapplied[i]
      <4>1. \/ container[fd[Unapplied[i].ptr]] = Unapplied[i].ptr
            \/ \E k \in 1..(i - 1) : Unapplied[k] = Msg("IN", Unapplied[i].ptr)
        BY <1>1, <2>1, <3>1 DEF OneInv, Introduced
      <4>2. \A k \in 1..(i - 1) : k \in 1..n
        BY <3>1
      <4> QED BY <1>2, <1>5, <3>1, <4>1, <4>2
    <3>2. CASE i = n + 1 /\ Unapplied'[i] = Msg(kind, c)
      <4>1. kind # "IN" /\ fd'[c] = fd[c] /\ c \notin crossed
        BY <1>3, <1>4, <2>1, <3>2
      <4>2. container[fd[c]] = c \/ \E k \in 1..n : Unapplied[k] = Msg("IN", c)
        BY <1>1, <4>1 DEF OneInv, Known
      <4>3. i - 1 = n
        BY <3>2
      <4> QED BY <1>2, <1>3, <3>2, <4>1, <4>2, <4>3
    <3> QED BY <1>2, <3>1, <3>2
  <2> QED BY <1>2, <2>1 DEF Introduced, Msg
<1>10. Emptied'
  <2>1. ASSUME NEW g \in Fds, container[g] # NoConn, NEW i \in 1..(n + 1),
               fd'[Unapplied'[i].ptr] = g, Unapplied'[i].ptr # container[g],
               ~(Unapplied'[i].ptr \in crossed' /\ container[g] \in crossed')
        PROVE  \E k \in 1..(i - 1) : Unapplied'[k] = Msg("OUT", container[g])
    <3>1. CASE i \in 1..n /\ Unapplied'[i] = Unapplied[i]
      <4>0. Apart(Unapplied[i].ptr, container[g])
        BY <2>1, <3>1 DEF Apart
      <4>1. PICK k \in 1..(i - 1) : Unapplied[k] = Msg("OUT", container[g])
        BY <1>1, <1>5, <2>1, <3>1, <4>0 DEF OneInv, Emptied
      <4>2. k \in 1..n
        BY <3>1
      <4> QED BY <1>2, <4>1, <4>2
    <3>2. CASE i = n + 1 /\ Unapplied'[i] = Msg(kind, c)
      <4>1. g = f /\ Apart(c, container[g])'
        BY <1>2, <1>3, <1>4, <2>1, <3>2 DEF Apart
      <4>2. Settled(container[g]) /\ container[g] \in Conns /\ fd[container[g]] = g
        BY <1>6, <2>1, <4>1 DEF Alone
      <4>3. PICK k \in 1..n : Unapplied[k] = Msg("OUT", container[g])
        BY <1>1, <2>1, <4>2, SettledEnds
      <4>4. i - 1 = n
        BY <3>2
      <4> QED BY <1>2, <4>3, <4>4
    <3> QED BY <1>2, <3>1, <3>2
  <2> QED BY <1>2, <2>1 DEF Emptied, Msg, Apart
<1>11. Separated'
  <2>1. ASSUME NEW i \in 1..(n + 1), NEW j \in 1..(n + 1), i < j,
               Unapplied'[i].ptr # Unapplied'[j].ptr,
               ~(Unapplied'[i].ptr \in crossed' /\ Unapplied'[j].ptr \in crossed'),
               fd'[Unapplied'[i].ptr] = fd'[Unapplied'[j].ptr]
        PROVE  \E k \in i..(j - 1) : Unapplied'[k] = Msg("OUT", Unapplied'[i].ptr)
    <3>1. i \in 1..n /\ Unapplied'[i] = Unapplied[i]
      BY <1>2, <2>1
    <3>2. CASE j \in 1..n /\ Unapplied'[j] = Unapplied[j]
      <4>1. /\ Apart(Unapplied[i].ptr, Unapplied[j].ptr)
            /\ fd[Unapplied[i].ptr] = fd[Unapplied[j].ptr]
        BY <1>5, <2>1, <3>1, <3>2 DEF Apart
      <4>2. PICK k \in i..(j - 1) : Unapplied[k] = Msg("OUT", Unapplied[i].ptr)
        BY <1>1, <2>1, <3>1, <3>2, <4>1 DEF OneInv, Separated
      <4>3. k \in 1..n
        BY <3>1, <3>2
      <4> QED BY <1>2, <3>1, <4>2, <4>3
    <3>3. CASE j = n + 1 /\ Unapplied'[j] = Msg(kind, c)
      <4>1. Apart(c, Unapplied[i].ptr)' /\ fd[Unapplied[i].ptr] = f
        BY <1>2, <1>3, <1>4, <1>5, <2>1, <3>1, <3>3 DEF Apart
      <4>2. Settled(Unapplied[i].ptr)
        BY <1>5, <3>1, <4>1 DEF Alone
      <4>3. PICK k \in i..n : Unapplied[k] = Msg("OUT", Unapplied[i].ptr)
        BY <1>1, <1>5, <3>1, <4>2, SettledEnds
      <4>4. k \in 1..n /\ k \in i..(j - 1)
        BY <3>1, <3>3
      <4> QED BY <1>2, <3>1, <4>3, <4>4
    <3> QED BY <1>2, <3>2, <3>3
  <2> QED BY <1>2, <2>1 DEF Separated, Msg, Apart
<1> QED BY <1>7, <1>75, <1>8, <1>9, <1>10, <1>11 DEF OneStep

(* Taking a message away keeps the rest separated.                          *)
LEMMA PopSeparated ==
  ASSUME OneInv, Popped, UNCHANGED << fd, crossed >>
  PROVE  Separated'
<1>0. TypeOK
  BY DEF OneInv, NetInv
<1>1. PICK n \in Nat, p \in Nat : n = Len(Unapplied) /\ p = Len(Unapplied')
  BY <1>0, PoppedParts
<1>2. /\ n = p + 1
      /\ \A i \in 1..p : i + 1 \in 1..n /\ Unapplied'[i] = Unapplied[i + 1]
      /\ \A i \in 1..n : i # 1 => i - 1 \in 1..p /\ Unapplied'[i - 1] = Unapplied[i]
  BY <1>0, <1>1, PoppedParts
<1>3. ASSUME NEW i \in 1..p, NEW j \in 1..p, i < j,
             Apart(Unapplied'[i].ptr, Unapplied'[j].ptr),
             fd[Unapplied'[i].ptr] = fd[Unapplied'[j].ptr]
      PROVE  \E k \in i..(j - 1) : Unapplied'[k] = Msg("OUT", Unapplied'[i].ptr)
  <2>1. /\ i + 1 \in 1..n /\ j + 1 \in 1..n
        /\ Unapplied'[i] = Unapplied[i + 1] /\ Unapplied'[j] = Unapplied[j + 1]
    BY <1>2
  <2>2. i + 1 < j + 1 /\ j + 1 - 1 = j
    BY <1>3
  <2>3. \A a, b \in 1..n :
          a < b /\ Apart(Unapplied[a].ptr, Unapplied[b].ptr)
            /\ fd[Unapplied[a].ptr] = fd[Unapplied[b].ptr] =>
              \E k \in a..(b - 1) : Unapplied[k] = Msg("OUT", Unapplied[a].ptr)
    BY <1>1 DEF OneInv, Separated
  <2>4. PICK k \in (i + 1)..(j + 1 - 1) : Unapplied[k] = Msg("OUT", Unapplied[i + 1].ptr)
    BY <1>3, <2>1, <2>2, <2>3
  <2>5. k \in 1..n /\ k # 1 /\ k - 1 \in i..(j - 1)
    BY <2>1, <2>2
  <2> QED BY <1>2, <2>1, <2>4, <2>5
<1> QED BY <1>1, <1>3 DEF Separated, Msg, Apart

(* Taking a message away keeps settled sockets settled, and the messages of *)
(* sockets without an epoll.                                                *)
LEMMA PopSettled ==
  ASSUME OneInv, Popped, UNCHANGED << fd, crossed >>, Alike,
         \A g \in Fds : \/ container'[g] \in {container[g], NoConn}
                        \/ /\ Unapplied[1] = Msg("IN", container'[g])
                           /\ container'[g] \in Conns
  PROVE  OneOpen' /\ Early'
<1>0. TypeOK /\ NetInv /\ NoConn \notin Conns
  BY NamesAssumption DEF OneInv, NetInv
<1>1. PICK n \in Nat, p \in Nat : n = Len(Unapplied) /\ p = Len(Unapplied')
  BY <1>0, PoppedParts
<1>2. /\ n = p + 1 /\ 1 \in 1..n
      /\ \A i \in 1..p : i + 1 \in 1..n /\ Unapplied'[i] = Unapplied[i + 1]
  BY <1>0, <1>1, PoppedParts
<1>3. \A i \in 1..n : Unapplied[i].ptr \in Conns
  BY <1>0, <1>1, QueueType
<1>4. ASSUME NEW d \in Conns, sock[d] # "new", Settled(d) PROVE Settled(d)'
  <2>1. CASE sock[d] = "closed"
    BY <2>1 DEF Alike, Settled
  <2>2. CASE sock[d] # "closed"
    <3>1. /\ sock[d] = "lost" /\ container[fd[d]] # d
          /\ \A i \in 1..n : Unapplied[i] # Msg("IN", d)
      BY <1>1, <1>4, <2>2 DEF Settled
    <3>2. fd[d] \in Fds
      BY <1>0, <1>4 DEF TypeOK
    <3>3. container'[fd[d]] # d
      BY <1>0, <1>2, <3>1, <3>2
    <3>4. \A i \in 1..p : Unapplied'[i] # Msg("IN", d)
      BY <1>2, <3>1
    <3> QED BY <1>1, <3>1, <3>3, <3>4 DEF Alike, Settled, Msg
  <2> QED BY <2>1, <2>2
<1>5. OneOpen'
  <2>1. ASSUME NEW c \in Conns, NEW d \in Conns, Apart(c, d)',
               sock'[c] # "new", sock'[d] # "new", fd'[c] = fd'[d]
        PROVE  Settled(c)' \/ Settled(d)'
    <3>1. Apart(c, d) /\ sock[c] # "new" /\ sock[d] # "new" /\ fd[c] = fd[d]
      BY <2>1 DEF Alike, Apart
    <3> QED BY <1>4, <3>1 DEF OneInv, OneOpen
  <2> QED BY <2>1 DEF OneOpen
<1>6. Early'
  <2>1. ASSUME NEW i \in 1..p, Unapplied'[i].type # "IN"
        PROVE  sock'[Unapplied'[i].ptr] \notin {"announced", "lost"}
    <3>1. i + 1 \in 1..n /\ Unapplied'[i] = Unapplied[i + 1]
      BY <1>2
    <3> QED BY <1>1, <1>3, <2>1, <3>1 DEF OneInv, Early, Alike
  <2> QED BY <1>1, <2>1 DEF Early
<1> QED BY <1>5, <1>6

(* IN is applied: the entry of the descriptor is empty, or both sockets are  *)
(* crossed.                                                                 *)
LEMMA OneIn ==
  ASSUME OneInv, Popped, Alike, UNCHANGED << fd, crossed >>, NEW c \in Conns,
         Unapplied[1] = Msg("IN", c), OnConnection(c)
  PROVE  OneStep'
<1>0. TypeOK /\ NetInv /\ NoConn \notin Conns
  BY NamesAssumption DEF OneInv, NetInv
<1>1. PICK n \in Nat, p \in Nat : n = Len(Unapplied) /\ p = Len(Unapplied')
  BY <1>0, PoppedParts
<1>2. /\ n = p + 1 /\ 1 \in 1..n
      /\ \A i \in 1..p : i + 1 \in 1..n /\ Unapplied'[i] = Unapplied[i + 1]
      /\ \A i \in 1..n : i # 1 => i - 1 \in 1..p /\ Unapplied'[i - 1] = Unapplied[i]
  BY <1>0, <1>1, PoppedParts
<1>3. /\ Unapplied[1].ptr = c /\ \A d : Unapplied[1] # Msg("OUT", d)
      /\ \A d : Unapplied[1] = Msg("IN", d) => d = c
  BY DEF Msg
<1>4. sock[c] # "new" /\ fd[c] \in Fds
  BY <1>0, <1>1, <1>2, <1>3 DEF NetInv, Announced, TypeOK
<1>5. container[fd[c]] # NoConn =>
        ~Apart(c, container[fd[c]]) /\ container[fd[c]] # c /\ c \in crossed
  <2>1. ASSUME container[fd[c]] # NoConn PROVE ~Apart(c, container[fd[c]])
    <3>1. ASSUME Apart(c, container[fd[c]]) PROVE FALSE
      <4>1. PICK k \in 1..(1 - 1) : Unapplied[k] = Msg("OUT", container[fd[c]])
        BY <1>1, <1>2, <1>3, <1>4, <2>1, <3>1 DEF OneInv, Emptied
      <4> QED BY <4>1
    <3> QED BY <3>1
  <2>2. container[fd[c]] # NoConn => container[fd[c]] # c
    BY <1>0, <1>1, <1>2, <1>4 DEF NetInv, Tabled
  <2> QED BY <2>1, <2>2 DEF Apart
<1>6. /\ \A g \in Fds : g # fd[c] => container'[g] = container[g]
      /\ container[fd[c]] = NoConn => container'[fd[c]] = c
      /\ container[fd[c]] # NoConn => container'[fd[c]] = container[fd[c]]
  BY <1>0, <1>4 DEF OnConnection, TypeOK
<1>7. c \notin crossed => container'[fd[c]] = c /\ container[fd[c]] = NoConn
  BY <1>5, <1>6
<1>8. \A d \in Conns : sock[d] # "new" => fd[d] \in Fds
  BY <1>0 DEF TypeOK
<1>9. \A i \in 1..n : Unapplied[i].ptr \in Conns /\ fd[Unapplied[i].ptr] \in Fds
  BY <1>0, <1>1, <1>8, QueueType DEF NetInv, Announced
<1>10. ASSUME NEW d \in Conns, fd[d] \in Fds, container[fd[d]] = d
       PROVE  container'[fd[d]] = d
  BY <1>0, <1>4, <1>6, <1>10
<1>11. OneOpen' /\ Early'
  BY <1>0, <1>4, <1>6, PopSettled
<1>12. Known'
  <2>1. ASSUME NEW d \in Conns \ crossed, sock'[d] \notin {"new", "closed", "lost"}
        PROVE  \/ container'[fd[d]] = d
               \/ \E i \in 1..p : Unapplied'[i] = Msg("IN", d)
    <3>1. sock[d] \notin {"new", "closed", "lost"}
      BY <2>1 DEF Alike
    <3>2. CASE container[fd[d]] = d
      BY <1>8, <1>10, <3>1, <3>2
    <3>3. ASSUME NEW i \in 1..n, Unapplied[i] = Msg("IN", d)
          PROVE  \/ container'[fd[d]] = d
                 \/ \E k \in 1..p : Unapplied'[k] = Msg("IN", d)
      BY <1>2, <1>3, <1>7, <2>1, <3>3
    <3> QED BY <1>1, <3>1, <3>2, <3>3 DEF OneInv, Known
  <2> QED BY <1>1, <2>1 DEF Known, Msg
<1>13. Introduced'
  <2>1. ASSUME NEW i \in 1..p, Unapplied'[i].type # "IN", Unapplied'[i].ptr \notin crossed
        PROVE  \/ container'[fd[Unapplied'[i].ptr]] = Unapplied'[i].ptr
               \/ \E k \in 1..(i - 1) : Unapplied'[k] = Msg("IN", Unapplied'[i].ptr)
    <3>1. PICK d \in Conns : /\ d = Unapplied'[i].ptr /\ d = Unapplied[i + 1].ptr
                            /\ fd[d] \in Fds /\ Unapplied[i + 1].type # "IN"
                            /\ i + 1 \in 1..n /\ d \notin crossed
      BY <1>2, <1>9, <2>1
    <3>2. CASE container[fd[d]] = d
      BY <1>10, <3>1, <3>2
    <3>3. ASSUME NEW k \in 1..(i + 1 - 1), Unapplied[k] = Msg("IN", d)
          PROVE  \/ container'[fd[d]] = d
                 \/ \E l \in 1..(i - 1) : Unapplied'[l] = Msg("IN", d)
      <4>1. CASE k = 1
        BY <1>3, <1>7, <3>1, <3>3, <4>1
      <4>2. CASE k # 1
        <5>1. k \in 1..n /\ k - 1 \in 1..(i - 1)
          BY <1>2, <3>1, <4>2
        <5> QED BY <1>2, <3>3, <4>2, <5>1
      <4> QED BY <4>1, <4>2
    <3>4. container[fd[d]] = d \/ \E k \in 1..(i + 1 - 1) : Unapplied[k] = Msg("IN", d)
      BY <1>1, <3>1 DEF OneInv, Introduced
    <3> QED BY <3>1, <3>2, <3>3, <3>4
  <2> QED BY <1>1, <2>1 DEF Introduced, Msg
<1>14. Emptied'
  <2>1. ASSUME NEW g \in Fds, container'[g] # NoConn, NEW i \in 1..p,
               fd[Unapplied'[i].ptr] = g, Apart(Unapplied'[i].ptr, container'[g])
        PROVE  \E k \in 1..(i - 1) : Unapplied'[k] = Msg("OUT", container'[g])
    <3>1. i + 1 \in 1..n /\ Unapplied'[i] = Unapplied[i + 1] /\ 1 < i + 1
      BY <1>2
    <3>2. \E k \in 1..(i + 1 - 1) : Unapplied[k] = Msg("OUT", container'[g])
      <4>1. CASE container'[g] = container[g]
        BY <1>1, <2>1, <3>1, <4>1 DEF OneInv, Emptied
      <4>2. CASE g = fd[c] /\ container'[g] = c
        <5>1. Apart(Unapplied[1].ptr, Unapplied[i + 1].ptr) /\ fd[Unapplied[i + 1].ptr] = fd[c]
          BY <1>3, <2>1, <3>1, <4>2 DEF Apart
        <5>2. \A j \in 1..n : 1 < j /\ Apart(Unapplied[1].ptr, Unapplied[j].ptr)
                /\ fd[Unapplied[1].ptr] = fd[Unapplied[j].ptr] =>
                  \E k \in 1..(j - 1) : Unapplied[k] = Msg("OUT", Unapplied[1].ptr)
          BY <1>1, <1>2 DEF OneInv, Separated
        <5>3. \E k \in 1..(i + 1 - 1) : Unapplied[k] = Msg("OUT", Unapplied[1].ptr)
          BY <1>3, <3>1, <5>1, <5>2
        <5> QED BY <1>3, <4>2, <5>3
      <4> QED BY <1>6, <4>1, <4>2
    <3>3. PICK k \in 1..(i + 1 - 1) : Unapplied[k] = Msg("OUT", container'[g])
      BY <3>2
    <3>4. k # 1 /\ k \in 1..n /\ k - 1 \in 1..(i - 1)
      BY <1>3, <3>1, <3>3
    <3> QED BY <1>2, <3>3, <3>4
  <2> QED BY <1>1, <2>1 DEF Emptied, Msg, Apart
<1>15. Separated'
  BY PopSeparated
<1> QED BY <1>11, <1>12, <1>13, <1>14, <1>15 DEF OneStep

(* DATA is applied.                                                         *)
LEMMA OneData ==
  ASSUME OneInv, Popped, Alike, NEW c \in Conns,
         Unapplied[1] = Msg("DATA", c), UNCHANGED << sock, fd, container, crossed >>
  PROVE  OneStep'
<1>0. TypeOK
  BY DEF OneInv, NetInv
<1>1. PICK n \in Nat, p \in Nat : n = Len(Unapplied) /\ p = Len(Unapplied')
  BY <1>0, PoppedParts
<1>2. /\ n = p + 1
      /\ \A i \in 1..p : i + 1 \in 1..n /\ Unapplied'[i] = Unapplied[i + 1]
      /\ \A i \in 1..n : i # 1 => i - 1 \in 1..p /\ Unapplied'[i - 1] = Unapplied[i]
  BY <1>0, <1>1, PoppedParts
<1>3. \A d : Unapplied[1] # Msg("OUT", d) /\ Unapplied[1] # Msg("IN", d)
  BY DEF Msg
<1>4. ASSUME NEW i \in 1..p, NEW m, Unapplied[1] # m,
             \E k \in 1..(i + 1 - 1) : Unapplied[k] = m
      PROVE  \E k \in 1..(i - 1) : Unapplied'[k] = m
  <2>1. PICK k \in 1..(i + 1 - 1) : Unapplied[k] = m
    BY <1>4
  <2>2. k # 1 /\ k \in 1..n /\ k - 1 \in 1..(i - 1)
    BY <1>2, <1>4, <2>1
  <2> QED BY <1>2, <2>1, <2>2
<1>5. OneOpen' /\ Early'
  BY PopSettled
<1>6. Known'
  <2>1. ASSUME NEW d \in Conns, NEW i \in 1..n, Unapplied[i] = Msg("IN", d)
        PROVE  \E k \in 1..p : Unapplied'[k] = Msg("IN", d)
    BY <1>2, <1>3, <2>1
  <2> QED BY <1>1, <2>1 DEF OneInv, Known, Msg
<1>7. Introduced'
  <2>1. ASSUME NEW i \in 1..p, Unapplied'[i].type # "IN", Unapplied'[i].ptr \notin crossed
        PROVE  \/ container[fd[Unapplied'[i].ptr]] = Unapplied'[i].ptr
               \/ \E k \in 1..(i - 1) : Unapplied'[k] = Msg("IN", Unapplied'[i].ptr)
    <3>1. i + 1 \in 1..n /\ Unapplied'[i] = Unapplied[i + 1]
      BY <1>2
    <3>2. \/ container[fd[Unapplied'[i].ptr]] = Unapplied'[i].ptr
          \/ \E k \in 1..(i + 1 - 1) : Unapplied[k] = Msg("IN", Unapplied'[i].ptr)
      BY <1>1, <2>1, <3>1 DEF OneInv, Introduced
    <3> QED BY <1>3, <1>4, <3>2
  <2> QED BY <1>1, <2>1 DEF Introduced, Msg
<1>8. Emptied'
  <2>1. ASSUME NEW g \in Fds, container[g] # NoConn, NEW i \in 1..p,
               fd[Unapplied'[i].ptr] = g, Apart(Unapplied'[i].ptr, container[g])
        PROVE  \E k \in 1..(i - 1) : Unapplied'[k] = Msg("OUT", container[g])
    <3>1. i + 1 \in 1..n /\ Unapplied'[i] = Unapplied[i + 1]
      BY <1>2
    <3>2. \E k \in 1..(i + 1 - 1) : Unapplied[k] = Msg("OUT", container[g])
      BY <1>1, <2>1, <3>1 DEF OneInv, Emptied
    <3> QED BY <1>3, <1>4, <3>2
  <2> QED BY <1>1, <2>1 DEF Emptied, Msg, Apart
<1>9. Separated'
  BY PopSeparated
<1> QED BY <1>5, <1>6, <1>7, <1>8, <1>9 DEF OneStep

(* OUT is applied: it finds its own context, or that of a socket with which *)
(* it is crossed.                                                           *)
LEMMA OneOut ==
  ASSUME OneInv, Popped, Alike, UNCHANGED << fd, crossed >>, NEW c \in Conns,
         Unapplied[1] = Msg("OUT", c), OnDisConnection(c)
  PROVE  OneStep'
<1>0. TypeOK /\ NetInv /\ NoConn \notin Conns
  BY NamesAssumption DEF OneInv, NetInv
<1>1. PICK n \in Nat, p \in Nat : n = Len(Unapplied) /\ p = Len(Unapplied')
  BY <1>0, PoppedParts
<1>2. /\ n = p + 1 /\ 1 \in 1..n
      /\ \A i \in 1..p : i + 1 \in 1..n /\ Unapplied'[i] = Unapplied[i + 1]
      /\ \A i \in 1..n : i # 1 => i - 1 \in 1..p /\ Unapplied'[i - 1] = Unapplied[i]
  BY <1>0, <1>1, PoppedParts
<1>3. /\ Unapplied[1].ptr = c /\ Unapplied[1].type = "OUT"
      /\ \A d : Unapplied[1] # Msg("IN", d)
      /\ \A d : Unapplied[1] = Msg("OUT", d) => d = c
  BY DEF Msg
<1>4. sock[c] = "closed" /\ fd[c] \in Fds
  BY <1>0, <1>1, <1>2, <1>3 DEF NetInv, Announced, TypeOK
<1>5. ASSUME container[fd[c]] \notin {NoConn, c}
      PROVE  container[fd[c]] \in crossed
  <2>1. ASSUME Apart(c, container[fd[c]]) PROVE FALSE
    <3>1. PICK k \in 1..(1 - 1) : Unapplied[k] = Msg("OUT", container[fd[c]])
      BY <1>1, <1>2, <1>3, <1>4, <1>5, <2>1 DEF OneInv, Emptied
    <3> QED BY <3>1
  <2> QED BY <1>5, <2>1 DEF Apart
<1>6. sock' = sock /\ container' = [container EXCEPT ![fd[c]] = NoConn]
  BY DEF OnDisConnection
<1>7. /\ container'[fd[c]] = NoConn
      /\ \A g \in Fds : g # fd[c] => container'[g] = container[g]
  BY <1>0, <1>4, <1>6 DEF TypeOK
<1>8. \A d \in Conns : sock[d] # "new" => fd[d] \in Fds
  BY <1>0 DEF TypeOK
<1>9. \A i \in 1..n : Unapplied[i].ptr \in Conns /\ fd[Unapplied[i].ptr] \in Fds
  BY <1>0, <1>1, <1>8, QueueType DEF NetInv, Announced
<1>10. ASSUME NEW i \in 1..p, NEW m, Unapplied[1] # m,
              \E k \in 1..(i + 1 - 1) : Unapplied[k] = m
       PROVE  \E k \in 1..(i - 1) : Unapplied'[k] = m
  <2>1. PICK k \in 1..(i + 1 - 1) : Unapplied[k] = m
    BY <1>10
  <2>2. k # 1 /\ k \in 1..n /\ k - 1 \in 1..(i - 1)
    BY <1>2, <1>10, <2>1
  <2> QED BY <1>2, <2>1, <2>2
<1>11. ASSUME NEW d \in Conns \ crossed, d # c, fd[d] \in Fds, container[fd[d]] = d
       PROVE  container'[fd[d]] = d
  BY <1>0, <1>5, <1>7, <1>11
<1>12. OneOpen' /\ Early'
  BY <1>7, PopSettled
<1>13. Known'
  <2>1. ASSUME NEW d \in Conns, NEW i \in 1..n, Unapplied[i] = Msg("IN", d)
        PROVE  \E k \in 1..p : Unapplied'[k] = Msg("IN", d)
    BY <1>2, <1>3, <2>1
  <2>2. ASSUME NEW d \in Conns \ crossed, sock[d] \notin {"new", "closed", "lost"}
        PROVE  \/ container'[fd[d]] = d
               \/ \E i \in 1..p : Unapplied'[i] = Msg("IN", d)
    BY <1>1, <1>4, <1>8, <1>11, <2>1, <2>2 DEF OneInv, Known
  <2> QED BY <1>1, <1>6, <2>2 DEF Known, Msg
<1>14. Introduced'
  <2>1. ASSUME NEW i \in 1..p, Unapplied'[i].type # "IN", Unapplied'[i].ptr \notin crossed
        PROVE  \/ container'[fd[Unapplied'[i].ptr]] = Unapplied'[i].ptr
               \/ \E k \in 1..(i - 1) : Unapplied'[k] = Msg("IN", Unapplied'[i].ptr)
    <3>1. i + 1 \in 1..n /\ Unapplied'[i] = Unapplied[i + 1] /\ 1 < i + 1
      BY <1>2
    <3>2. Unapplied[i + 1].ptr # c
      BY <1>0, <1>1, <1>2, <1>3, <3>1 DEF NetInv, SocketOrder
    <3>3. \/ container[fd[Unapplied'[i].ptr]] = Unapplied'[i].ptr
          \/ \E k \in 1..(i + 1 - 1) : Unapplied[k] = Msg("IN", Unapplied'[i].ptr)
      BY <1>1, <2>1, <3>1 DEF OneInv, Introduced
    <3> QED BY <1>3, <1>9, <1>10, <1>11, <2>1, <3>1, <3>2, <3>3
  <2> QED BY <1>1, <2>1 DEF Introduced, Msg
<1>15. Emptied'
  <2>1. ASSUME NEW g \in Fds, container'[g] # NoConn, NEW i \in 1..p,
               fd[Unapplied'[i].ptr] = g, Apart(Unapplied'[i].ptr, container'[g])
        PROVE  \E k \in 1..(i - 1) : Unapplied'[k] = Msg("OUT", container'[g])
    <3>1. i + 1 \in 1..n /\ Unapplied'[i] = Unapplied[i + 1]
      BY <1>2
    <3>2. g # fd[c] /\ container'[g] = container[g]
      BY <1>7, <2>1
    <3>3. \E k \in 1..(i + 1 - 1) : Unapplied[k] = Msg("OUT", container[g])
      BY <1>1, <2>1, <3>1, <3>2 DEF OneInv, Emptied
    <3>4. container[g] # c
      BY <1>0, <2>1, <3>2 DEF NetInv, Tabled
    <3> QED BY <1>3, <1>10, <3>2, <3>3, <3>4
  <2> QED BY <1>1, <2>1 DEF Emptied, Msg, Apart
<1>16. Separated'
  BY PopSeparated
<1> QED BY <1>12, <1>13, <1>14, <1>15, <1>16 DEF OneStep

(* A socket is accepted when every socket that had its descriptor is        *)
(* settled, or else is crossed with it.                                     *)
LEMMA AcceptAlone ==
  ASSUME TypeOK, NEW c \in Conns, NEW f \in Fds, OnConnected(c, f)
  PROVE  Alone(c, f)
<1> SUFFICES ASSUME NEW d \in Conns, sock[d] # "new", fd[d] = f, Apart(c, d)'
             PROVE  Settled(d)
  BY DEF Alone
<1>1. sock[d] \in {"lost", "released", "closed"}
  BY DEF OnConnected, InUse, TypeOK, Life
<1>2. d \notin Reused(f)
  <2>1. ASSUME d \in Reused(f) PROVE c \in crossed' /\ d \in crossed'
    BY <2>1 DEF OnConnected
  <2> QED BY <2>1 DEF Apart
<1> QED BY <1>1, <1>2 DEF Reused, Settled

(* Every step keeps the invariant.                                          *)
LEMMA OneInduction == (Init => OneInv) /\ (OneInv /\ [Next]_vars => OneInv')
<1>1. ASSUME Init PROVE OneInv
  <2>1. NetInv
    BY <1>1, NetInduction
  <2>2. << >> \o << >> = << >> /\ Len(<< >>) = 0
    OBVIOUS
  <2>3. Unapplied = << >>
    BY <1>1, <2>2 DEF Init, Unapplied
  <2>4. \A i \in 1..Len(Unapplied) : FALSE
    BY <2>2, <2>3
  <2>5. Early /\ Introduced /\ Emptied /\ Separated
    BY <2>4 DEF Early, Introduced, Emptied, Separated
  <2>6. OneOpen /\ Known
    BY <1>1 DEF Init, OneOpen, Known
  <2> QED BY <2>1, <2>5, <2>6 DEF OneInv
<1>2. ASSUME OneInv, [Next]_vars PROVE OneInv'
  <2>0. TypeOK /\ NetInv /\ NetInv'
    BY <1>2, NetInduction DEF OneInv, NetInv
  <2>1. ASSUME Still PROVE OneStep'
    BY <1>2, <2>1, OneStill
  <2>2. ASSUME NEW c \in Conns, NEW f \in Fds, OnConnected(c, f), Pushed(Msg("IN", c))
        PROVE  OneStep'
    <3>1. Alone(c, f)
      BY <2>0, <2>2, AcceptAlone
    <3>2. /\ sock[c] = "new" /\ sock'[c] = "announced"
          /\ fd' = [fd EXCEPT ![c] = f]
          /\ \A d \in Conns : d # c => sock'[d] = sock[d]
          /\ container' = container /\ crossed \subseteq crossed'
      BY <2>0, <2>2 DEF OnConnected, TypeOK
    <3> QED BY <1>2, <2>2, <3>1, <3>2, OnePush DEF Kinds
  <2>3. ASSUME NEW c \in Conns, sock[c] \notin {"new", "closed", "lost"}, crossed' = crossed
        PROVE  fd[c] \in Fds /\ Alone(c, fd[c]) /\ fd = [fd EXCEPT ![c] = fd[c]]
    <3>1. fd[c] \in Fds /\ fd = [fd EXCEPT ![c] = fd[c]]
      BY <2>0, <2>3 DEF TypeOK
    <3>2. ~Settled(c)
      BY <2>3 DEF Settled
    <3>3. \A d \in Conns : Apart(c, d)' => Apart(c, d)
      BY <2>3 DEF Apart
    <3> QED BY <1>2, <2>3, <3>1, <3>2, <3>3 DEF OneInv, OneOpen, Alone
  <2>4. ASSUME NEW c \in Conns, OnReceiveData(c), Pushed(Msg("DATA", c)) PROVE OneStep'
    <3>1. /\ sock[c] \notin {"new", "closed", "lost", "announced"}
          /\ UNCHANGED << sock, fd, container, crossed >>
      BY <2>4 DEF OnReceiveData
    <3>2. PICK f \in Fds : f = fd[c] /\ Alone(c, f) /\ fd' = [fd EXCEPT ![c] = f]
      BY <2>3, <3>1
    <3> QED BY <1>2, <2>4, <3>1, <3>2, OnePush DEF Kinds
  <2>5. ASSUME NEW c \in Conns, OnDisconnected(c), Pushed(Msg("OUT", c)) PROVE OneStep'
    <3>1. /\ sock[c] \notin {"new", "closed", "lost", "announced"} /\ sock'[c] = "closed"
          /\ \A d \in Conns : d # c => sock'[d] = sock[d]
          /\ UNCHANGED << fd, container, crossed >>
      BY <2>0, <2>5 DEF OnDisconnected, TypeOK
    <3>2. PICK f \in Fds : f = fd[c] /\ Alone(c, f) /\ fd' = [fd EXCEPT ![c] = f]
      BY <2>3, <3>1
    <3> QED BY <1>2, <2>5, <3>1, <3>2, OnePush DEF Kinds
  <2>6. ASSUME NEW c \in Conns, Popped, Unapplied[1] = Msg("IN", c), OnConnection(c),
               Alike, UNCHANGED << fd, crossed >>
        PROVE  OneStep'
    BY <1>2, <2>6, OneIn
  <2>7. ASSUME NEW c \in Conns, Popped, Unapplied[1] = Msg("DATA", c),
               Alike, UNCHANGED << sock, fd, container, crossed >>
        PROVE  OneStep'
    BY <1>2, <2>7, OneData
  <2>8. ASSUME NEW c \in Conns, Popped, Unapplied[1] = Msg("OUT", c), OnDisConnection(c),
               Alike, UNCHANGED << fd, crossed >>
        PROVE  OneStep'
    BY <1>2, <2>8, OneOut
  <2>9. OneStep'
    BY <1>2, <2>0, <2>1, <2>2, <2>4, <2>5, <2>6, <2>7, <2>8, StepKinds
  <2> QED BY <2>0, <2>9 DEF OneInv, OneStep
<1> QED BY <1>1, <1>2

(* For any number of io threads, sockets and descriptors, a packet and the  *)
(* end of a connection are applied to the context of that connection, for   *)
(* every connection whose descriptor was not announced again before the end *)
(* of its last socket was pushed.                                           *)
THEOREM EachFindsItsOwn == Spec => []OwnContext
<1>1. Init => OneInv
  BY OneInduction
<1>2. OneInv /\ [Next]_vars => OneInv'
  BY OneInduction
<1>3. OneInv => OwnContext
  <2> SUFFICES ASSUME OneInv, tmp_list # << >>, Head(tmp_list).type # "IN",
                      Head(tmp_list).ptr \notin crossed
               PROVE  container[fd[Head(tmp_list).ptr]] = Head(tmp_list).ptr
    BY DEF OwnContext
  <2>1. TypeOK
    BY DEF OneInv, NetInv
  <2>2. PICK s \in Seq(Msgs), t \in Seq(Msgs) : s = tmp_list /\ t = msg_list
    BY <2>1 DEF TypeOK
  <2>3. Len(s) \in Nat /\ Len(t) \in Nat /\ 1 <= Len(s) /\ s[1] = Head(s)
    BY <2>2, EmptySeq, HeadTailProperties, LenProperties
  <2>4. 1 \in 1..Len(s \o t) /\ (s \o t)[1] = s[1]
    BY <2>3, ConcatProperties
  <2>5. 1 \in 1..Len(Unapplied) /\ Unapplied[1] = Head(tmp_list)
    BY <2>2, <2>3, <2>4 DEF Unapplied
  <2>6. \/ container[fd[Head(tmp_list).ptr]] = Head(tmp_list).ptr
        \/ \E k \in 1..(1 - 1) : Unapplied[k] = Msg("IN", Head(tmp_list).ptr)
    BY <2>5 DEF OneInv, Introduced
  <2> QED BY <2>6
<1> QED BY <1>1, <1>2, <1>3, PTL DEF Spec
=============================================================================
