-------------------------- MODULE TcpStreamSocket ---------------------------
(***************************************************************************)
(* slience/netio/tcp_stream_socket: packets over a TCP connection, from    *)
(* SendPacket of one socket, through its write side (TcpBaseSocket) and    *)
(* the byte stream, to _CutMsgPack of the socket at the other end.         *)
(*                                                                         *)
(* A packet is a header (its length and a code) and a body.  Bytes are     *)
(* numbered by their place in the stream of accepted bytes; 0 is any byte  *)
(* that is not of the stream: the zeros readbuf starts with and whatever   *)
(* lies behind it.  _CutMsgPack cuts one packet per round of its loop,     *)
(* and each round is a step here.                                          *)
(***************************************************************************)
EXTENDS TcpBaseSocket, SequencesExt

CONSTANTS
  Hdr,        \* sizeof(PacketHeader)
  ReadSize,   \* M_SOCKET_READ_SIZE
  BufferSize, \* M_BUFFER_DEFAILT_SIZE: a longer content moves the buffer
  MaxPackets  \* bound: packets accepted for sending

ASSUME HeaderAssumption == Hdr \in Nat \ {0} /\ MaxPackets \in Nat
ASSUME ReadAssumption == ReadSize \in Nat \ {0} /\ BufferSize \in Nat

VARIABLES
  packets,    \* history: the packets accepted, each its first byte and len
  taken,      \* how many bytes of `sent' the receiver has read
  reader,     \* the receiver: "read", "cut", "closed" or "undefined"
  rstop,      \* the application has closed the receiver's socket
  rfailed,    \* history: a read failed, or could not be begun
  readbuf,    \* _reader.readbuf
  msgbuffer,  \* _reader.msgbuffer
  off,        \* buf - readbuf
  tran_byte,  \* tran_byte
  delivered,  \* history: what OnReceiveData was given
  torn        \* history: where a read ended: "no" packet, a "header" or a
              \*   "body" was torn by it

baseVars == << flag, writing, msgbuffer1, msgbuffer2, accepted, sent, failed,
               closes >>
cutVars == << msgbuffer, off, tran_byte, reader >>
streamSocketVars == << baseVars, cutVars, packets, taken, rstop, rfailed,
                       readbuf, delivered, torn >>

-----------------------------------------------------------------------------
Body(p) == [i \in 1..p.len |-> p.first + Hdr + i - 1]

(* The packets whose header these bytes are: one or none.                  *)
Heads(bytes) ==
  {p \in Range(packets) : bytes = [i \in 1..Hdr |-> p.first + i - 1]}

(* The n bytes at buf + o.                                                 *)
At(o, n) ==
  [i \in 1..n |-> IF o + i <= ReadSize THEN readbuf[o + i] ELSE 0]

StreamInit ==
  /\ Init
  /\ packets = << >>
  /\ taken = 0
  /\ reader = "read"
  /\ rstop = FALSE
  /\ rfailed = FALSE
  /\ readbuf = [i \in 1..ReadSize |-> 0]
  /\ msgbuffer = << >>
  /\ off = 0
  /\ tran_byte = 0
  /\ delivered = << >>
  /\ torn = "no"

-----------------------------------------------------------------------------
(* SendPacket of len bytes; Send does the rest under the same lock.        *)
SendPacket(len) ==
  /\ Len(packets) < MaxPackets
  /\ Send(Hdr + len)
  /\ packets' = Append(packets, [first |-> accepted + 1, len |-> len])
  /\ UNCHANGED << cutVars, taken, rstop, rfailed, readbuf, delivered, torn >>

(* Close of the sender's socket, and its write handler: see TcpBaseSocket. *)
CloseSender ==
  /\ Close
  /\ UNCHANGED << cutVars, packets, taken, rstop, rfailed, readbuf, delivered,
                  torn >>

Write ==
  /\ WriteFailed \/ \E k \in Bytes : WriteHandler(k)
  /\ UNCHANGED << cutVars, packets, taken, rstop, rfailed, readbuf, delivered,
                  torn >>

-----------------------------------------------------------------------------
(* Where a read that ends with byte n leaves the packet n belongs to.      *)
Tear(n) ==
  LET p == CHOOSE q \in Range(packets) :
             q.first <= n /\ n < q.first + Hdr + q.len
      place == n - p.first + 1
  IN IF place = Hdr + p.len THEN "no"
     ELSE IF place <= Hdr THEN "header" ELSE "body"

Worse(a, b) == IF "body" \in {a, b} THEN "body"
               ELSE IF "header" \in {a, b} THEN "header" ELSE "no"

(* _ReadHandler when n bytes have come.  A socket the application has      *)
(* closed drops them.                                                      *)
ReadHandler(n) ==
  /\ reader = "read"
  /\ n <= ReadSize /\ taken + n <= Len(sent)
  /\ taken' = taken + n
  /\ readbuf' = SubSeq(sent, taken + 1, taken + n)
                  \o SubSeq(readbuf, n + 1, ReadSize)
  /\ reader' = IF rstop THEN "closed" ELSE "cut"
  /\ off' = 0
  /\ tran_byte' = n
  /\ torn' = Worse(torn, Tear(sent[taken + n]))
  /\ UNCHANGED << baseVars, packets, rstop, rfailed, msgbuffer, delivered >>

(* _ReadHandler when the peer has closed.                                  *)
ReadEnds ==
  /\ reader = "read"
  /\ flag = "CLOSE" /\ taken = Len(sent)
  /\ reader' = "closed"
  /\ UNCHANGED << baseVars, msgbuffer, off, tran_byte, packets, taken, rstop,
                  rfailed, readbuf, delivered, torn >>

(* _ReadHandler with an error, whatever is under way, or _TryRecvData whose *)
(* AsyncRecvSome fails.                                                     *)
ReadFails ==
  /\ reader = "read"
  /\ reader' = "closed"
  /\ rfailed' = TRUE
  /\ UNCHANGED << baseVars, msgbuffer, off, tran_byte, packets, taken, rstop,
                  readbuf, delivered, torn >>

(* Close of the receiver's socket by its application.                      *)
CloseReader ==
  /\ ~rstop
  /\ rstop' = TRUE
  /\ UNCHANGED << baseVars, cutVars, packets, taken, rfailed, readbuf,
                  delivered, torn >>

-----------------------------------------------------------------------------
Keep_NoRecv(m) ==
  /\ msgbuffer' = m
  /\ reader' = "closed"
  /\ UNCHANGED << off, tran_byte, delivered >>

(* The bytes that are left are no whole packet: keep m and read on.        *)
Keep(m) ==
  /\ msgbuffer' = m
  /\ reader' = "read"
  /\ UNCHANGED << off, tran_byte, delivered >>

(* Give d to OnReceiveData and go on with t bytes at o.                    *)
Deliver(d, o, t) ==
  /\ delivered' = Append(delivered, d)
  /\ msgbuffer' = << >>
  /\ off' = o
  /\ tran_byte' = t
  /\ UNCHANGED reader

(* What has no defined outcome, and the end of the connection.             *)
Stop(how) ==
  /\ reader' = how
  /\ UNCHANGED << msgbuffer, off, tran_byte, delivered >>

(* Bytes that are no header: their length and code may be anything, but    *)
(* the code is hardly the right one.                                       *)
Misframed(m) == Keep(m) \/ Stop("closed")

CutFirst_Kept ==
  LET heads == Heads(At(off, Hdr)) IN
  IF tran_byte < Hdr THEN Keep(At(off, tran_byte))
  ELSE IF heads = {} THEN Misframed(At(off, tran_byte))
  ELSE \E p \in heads :
         IF tran_byte - Hdr < p.len
           THEN Keep(At(off, tran_byte))
           ELSE Deliver(At(off + Hdr, p.len), off + Hdr, tran_byte - Hdr)

CutFirst_WithHeader ==
  LET heads == Heads(At(off, Hdr)) IN
  IF tran_byte < Hdr THEN Keep(At(off, tran_byte))
  ELSE IF heads = {} THEN Misframed(At(off, tran_byte))
  ELSE \E p \in heads :
         IF tran_byte - Hdr < p.len
           THEN Keep(At(off, tran_byte))
           ELSE Deliver(At(off, p.len), off + Hdr + p.len,
                        tran_byte - Hdr - p.len)

(* One round with an empty msgbuffer: the packet lies in readbuf.          *)
CutFirst ==
  LET heads == Heads(At(off, Hdr)) IN
  IF tran_byte < Hdr THEN Keep(At(off, tran_byte))
  ELSE IF heads = {} THEN Misframed(At(off, tran_byte))
  ELSE \E p \in heads :
         IF tran_byte - Hdr < p.len
           THEN Keep(At(off, tran_byte))
           ELSE Deliver(At(off + Hdr, p.len), off + Hdr + p.len,
                        tran_byte - Hdr - p.len)

(* The end of a round with m, a header and `body' more bytes, in msgbuffer *)
(* and t bytes left at o.  `header' still points into the buffer when that *)
(* has moved, and a length below `body' wraps around: neither is defined.  *)
CutWith(m, o, t) ==
  LET body == Len(m) - Hdr
      sum == t + body
      heads == Heads(SubSeq(m, 1, Hdr))
  IN IF heads = {} THEN Misframed(m \o At(o, sum))
     ELSE \E p \in heads :
            IF p.len > sum THEN Keep(m \o At(o, sum))
            ELSE IF p.len < body THEN Stop("undefined")
            ELSE LET rest == p.len - body
                     whole == m \o At(o, rest)
                 IN \/ Deliver(SubSeq(whole, 1, p.len), o + rest, sum - rest)
                    \/ Len(whole) > BufferSize /\ Stop("undefined")

(* One round with the start of a packet in msgbuffer.                      *)
CutRest ==
  LET have == Len(msgbuffer)
      need == IF have < Hdr THEN Hdr - have ELSE 0
  IN IF have + tran_byte < Hdr THEN Keep(msgbuffer \o At(off, tran_byte))
     ELSE CutWith(msgbuffer \o At(off, need), off + need, tran_byte - need)

(* One round of _CutMsgPack.                                               *)
CutMsgPack ==
  /\ reader = "cut"
  /\ IF msgbuffer = << >> THEN CutFirst ELSE CutRest
  /\ UNCHANGED << baseVars, packets, taken, rstop, rfailed, readbuf, torn >>

-----------------------------------------------------------------------------
Receiver ==
  \/ \E n \in 1..ReadSize : ReadHandler(n)
  \/ ReadEnds
  \/ CutMsgPack

StreamNext ==
  \/ \E len \in Lens : SendPacket(len)
  \/ CloseSender
  \/ Write
  \/ Receiver
  \/ ReadFails
  \/ CloseReader

StreamSpec == StreamInit /\ [][StreamNext]_streamSocketVars

(* The system takes what is written, delivers it, and the io thread of the *)
(* receiver serves it.                                                     *)
StreamFairness ==
  /\ WF_streamSocketVars(Write)
  /\ WF_streamSocketVars(Receiver)

StreamFairSpec == StreamSpec /\ StreamFairness

-----------------------------------------------------------------------------
Packet == [first : Bytes, len : Lens]

(* The types of the receiver's state, and what TcpBaseSocket says of the   *)
(* sender's.                                                               *)
StreamTypeOK ==
  /\ TypeOK
  /\ packets \in Seq(Packet)
  /\ taken \in 0..Len(sent)
  /\ reader \in {"read", "cut", "closed", "undefined"}
  /\ rstop \in BOOLEAN /\ rfailed \in BOOLEAN
  /\ readbuf \in [1..ReadSize -> Bytes \cup {0}]
  /\ msgbuffer \in Seq(Bytes \cup {0})
  /\ off \in Nat /\ tran_byte \in Nat
  /\ delivered \in Seq(Seq(Bytes \cup {0}))
  /\ torn \in {"no", "header", "body"}

(* Until a read ends inside a packet, the connection is a packet stream:   *)
(* _CutMsgPack delivers exactly the packets that SendPacket accepted, in   *)
(* their order, however they are grouped into writes and reads.  What the  *)
(* application is given of a packet is its body.                           *)
Stream == INSTANCE PacketStream WITH
  Packets <- {Body(p) : p \in Packet},
  in <- [i \in 1..Len(packets) |-> Body(packets[i])],
  out <- delivered,
  broken <- torn # "no"

ImplementsStream == Stream!Spec

(* A read that ends inside a header does not lose the frames: as long as   *)
(* none has ended inside a body, and packets fit the buffer as it is made, *)
(* the k-th delivery has the length of the k-th packet, and the receiver   *)
(* closes for no other reason than its own application, the peer or a read *)
(* error: the connection is not taken for a malformed one.                 *)
FramesInSync ==
  (torn # "body" /\ reader # "undefined") =>
    /\ Len(delivered) <= Len(packets)
    /\ \A k \in 1..Len(delivered) : Len(delivered[k]) = packets[k].len
    /\ reader = "closed" => (rstop \/ rfailed \/ flag = "CLOSE")

(* "Cuts the packets out; false means that a packet is wrong" (the comment *)
(* on _CutMsgPack): what is handed on is a packet that was sent.           *)
CutsPackets ==
  \A k \in 1..Len(delivered) :
    \E p \in Range(packets) : delivered[k] = Body(p)

(* Every packet that was accepted arrives, also when the sender closes     *)
(* after it, unless a write or a read fails, the receiver closes or a read *)
(* ends inside a body.                                                     *)
AllArrive ==
  \A k \in 1..MaxPackets :
    (Len(packets) >= k)
      ~> (Len(delivered) >= k \/ failed \/ rfailed \/ rstop
            \/ torn = "body" \/ reader = "undefined")
=============================================================================
