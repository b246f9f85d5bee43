--------------------------- MODULE TcpBaseSocket ----------------------------
(***************************************************************************)
(* slience/netio/tcp_base_socket: the send side of a connection and how it *)
(* is closed.                                                              *)
(*                                                                         *)
(* Any thread may send or close; the io thread runs the write and the read *)
(* handler.  All of them hold _writer.lock, so each is one step.  Two      *)
(* buffers take turns: msgbuffer2 collects what is sent, msgbuffer1 is     *)
(* being written by the one write operation in progress.                   *)
(***************************************************************************)
EXTENDS Naturals, Sequences

CONSTANTS
  Lens,      \* lengths of the packets that are sent, header included
  PackSize,  \* M_SOCKET_PACK_SIZE
  MaxBuffer, \* E_MAX_BUFFER_SIZE
  MaxBytes   \* bound: bytes accepted for sending

ASSUME LensAssumption == Lens \subseteq Nat /\ PackSize \in Nat
ASSUME SizeAssumption == MaxBuffer \in Nat /\ MaxBytes \in Nat

VARIABLES
  flag,        \* _flag: "START", "STOP" or "CLOSE"
  writing,     \* _writer.writing
  msgbuffer1,  \* the bytes of _writer.msgbuffer1
  msgbuffer2,  \* the bytes of _writer.msgbuffer2
  accepted,    \* history: bytes Send said it would send, numbered from 1
  sent,        \* history: the bytes the system took, in order
  failed,      \* history: a write operation ended with an error
  closes       \* history: calls of _socket->Close, each one OnDisconnected

vars == << flag, writing, msgbuffer1, msgbuffer2, accepted, sent, failed,
           closes >>

-----------------------------------------------------------------------------
Bytes == 1..MaxBytes

Init ==
  /\ flag = "START"
  /\ writing = FALSE
  /\ msgbuffer1 = << >>
  /\ msgbuffer2 = << >>
  /\ accepted = 0
  /\ sent = << >>
  /\ failed = FALSE
  /\ closes = 0

Close_Twice(fl, wr) ==
  IF wr THEN flag' = "STOP" /\ UNCHANGED closes
        ELSE flag' = "CLOSE" /\ closes' = closes + 1

Close_Undrained(fl, wr) ==
  IF fl = "CLOSE" THEN flag' = fl /\ UNCHANGED closes
  ELSE flag' = "CLOSE" /\ closes' = closes + 1

(* _Close, with the flag at fl and `writing' at wr: the first call after    *)
(* the last write operation closes the socket.                              *)
DoClose(fl, wr) ==
  IF fl = "CLOSE" THEN flag' = fl /\ UNCHANGED closes
  ELSE IF wr THEN flag' = "STOP" /\ UNCHANGED closes
  ELSE flag' = "CLOSE" /\ closes' = closes + 1

Swap_NoClear(b1, b2) ==
  IF b1 = << >> THEN << b2, b2 >> ELSE << b1, b2 >>

(* The first half of _TrySendData: the buffers take turns.                  *)
Swap(b1, b2) == IF b1 = << >> THEN << b2, << >> >> ELSE << b1, b2 >>

(* The rest of _TrySendData when no write is in progress: start one, unless *)
(* there is nothing to send.  Starting it may fail, and then the socket is  *)
(* closed.                                                                  *)
StartWrite(b1, b2) ==
  /\ msgbuffer1' = Swap(b1, b2)[1]
  /\ msgbuffer2' = Swap(b1, b2)[2]
  /\ \/ writing' = TRUE /\ UNCHANGED << flag, failed, closes >>
     \/ writing' = FALSE /\ failed' = TRUE /\ DoClose(flag, FALSE)

-----------------------------------------------------------------------------
CheckCanSend(len) ==
  /\ len > 0 /\ len <= PackSize
  /\ flag = "START"
  /\ Len(msgbuffer2) + len <= MaxBuffer

(* Send and SendPacket, when _CheckCanSend allows it.                       *)
Send(len) ==
  /\ CheckCanSend(len)
  /\ accepted + len <= MaxBytes
  /\ accepted' = accepted + len
  /\ LET b2 == msgbuffer2 \o [i \in 1..len |-> accepted + i] IN
     IF writing
       THEN /\ msgbuffer2' = b2
            /\ UNCHANGED << flag, writing, msgbuffer1, failed, closes >>
       ELSE StartWrite(msgbuffer1, b2)
  /\ UNCHANGED sent

(* Close, from the main thread, or from the read handler when the peer has  *)
(* closed, the read failed or a packet was malformed.                       *)
Close ==
  /\ DoClose(flag, writing)
  /\ UNCHANGED << writing, msgbuffer1, msgbuffer2, accepted, sent, failed >>

(* _WriteHandler with an error or nothing written.                          *)
WriteFailed ==
  /\ writing
  /\ writing' = FALSE
  /\ failed' = TRUE
  /\ DoClose(flag, FALSE)
  /\ UNCHANGED << msgbuffer1, msgbuffer2, accepted, sent >>

WriteHandler_OneShot(k) ==
  /\ writing /\ k <= Len(msgbuffer1)
  /\ sent' = sent \o SubSeq(msgbuffer1, 1, k)
  /\ msgbuffer1' = SubSeq(msgbuffer1, k + 1, Len(msgbuffer1))
  /\ writing' = FALSE
  /\ IF flag # "START" THEN DoClose(flag, FALSE)
                       ELSE UNCHANGED << flag, closes >>
  /\ UNCHANGED << msgbuffer2, failed, accepted >>

WriteHandler_NoClose(k) ==
  LET rest == SubSeq(msgbuffer1, k + 1, Len(msgbuffer1)) IN
  /\ writing /\ k <= Len(msgbuffer1)
  /\ sent' = sent \o SubSeq(msgbuffer1, 1, k)
  /\ IF rest = << >> /\ msgbuffer2 = << >>
       THEN /\ writing' = FALSE
            /\ msgbuffer1' = rest
            /\ UNCHANGED << flag, closes, msgbuffer2, failed >>
       ELSE StartWrite(rest, msgbuffer2)
  /\ UNCHANGED accepted

(* _WriteHandler after k bytes were written: go on while there is data; if  *)
(* there is none and the socket was told to close, close it.                *)
WriteHandler(k) ==
  LET rest == SubSeq(msgbuffer1, k + 1, Len(msgbuffer1)) IN
  /\ writing /\ k <= Len(msgbuffer1)
  /\ sent' = sent \o SubSeq(msgbuffer1, 1, k)
  /\ IF rest = << >> /\ msgbuffer2 = << >>
       THEN /\ writing' = FALSE
            /\ msgbuffer1' = rest
            /\ IF flag # "START" THEN DoClose(flag, FALSE)
                                 ELSE UNCHANGED << flag, closes >>
            /\ UNCHANGED << msgbuffer2, failed >>
       ELSE StartWrite(rest, msgbuffer2)
  /\ UNCHANGED accepted

-----------------------------------------------------------------------------
Next ==
  \/ \E len \in Lens : Send(len)
  \/ Close
  \/ WriteFailed
  \/ \E k \in Bytes : WriteHandler(k)

Spec == Init /\ [][Next]_vars

(* The peer goes on reading, so a write operation ends.                     *)
Fairness == WF_vars(WriteFailed \/ \E k \in Bytes : WriteHandler(k))

FairSpec == Spec /\ Fairness

-----------------------------------------------------------------------------
Numbered == [i \in 1..accepted |-> i]

(* The types of the flags and buffers; msgbuffer2 stays within its limit.   *)
TypeOK ==
  /\ flag \in {"START", "STOP", "CLOSE"}
  /\ writing \in BOOLEAN
  /\ msgbuffer1 \in Seq(Bytes)
  /\ msgbuffer2 \in Seq(Bytes) /\ Len(msgbuffer2) <= MaxBuffer
  /\ accepted \in 0..MaxBytes
  /\ sent \in Seq(Bytes)
  /\ failed \in BOOLEAN
  /\ closes \in Nat

(* No accepted byte is lost, doubled or overtaken between Send and the      *)
(* system, whichever buffer it passes through.                              *)
StreamIntact == sent \o msgbuffer1 \o msgbuffer2 = Numbered

(* Data never lies in the buffers of an open socket without a write in      *)
(* progress, which alone would send it.                                     *)
NoStranded ==
  (flag # "CLOSE" /\ ~writing) => (msgbuffer1 = << >> /\ msgbuffer2 = << >>)

(* "The connection is cut only after all data have been sent" (the comment  *)
(* on Close): a socket that was closed without a write error has sent all   *)
(* it accepted.                                                             *)
CloseDrains == (flag = "CLOSE" /\ ~failed) => sent = Numbered

(* The close handler is armed once, when the flag becomes CLOSE: the        *)
(* application is told of a disconnection exactly once.                     *)
DisconnectOnce == closes = IF flag = "CLOSE" THEN 1 ELSE 0

(* A socket told to close is closed, if the peer keeps reading.             *)
CloseHappens == (flag = "STOP") ~> (flag = "CLOSE")
=============================================================================
