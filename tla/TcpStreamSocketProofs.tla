------------------------ MODULE TcpStreamSocketProofs -----------------------
(***************************************************************************)
(* Proofs about TcpBaseSocket and TcpStreamSocket, for every set of packet *)
(* lengths and every size of the buffers.                                  *)
(***************************************************************************)
EXTENDS TcpStreamSocket, SequenceTheorems, TLAPS

(* A socket is closed only when no write operation is in progress.          *)
ClosedNotWriting == flag = "CLOSE" => ~writing

(* What a socket had to send is gone when it is closed without an error.    *)
ClosedEmpty ==
  (flag = "CLOSE" /\ ~failed) => (msgbuffer1 = << >> /\ msgbuffer2 = << >>)

(* The inductive invariant of the send side.                                *)
SendInv ==
  /\ TypeOK
  /\ StreamIntact
  /\ NoStranded
  /\ ClosedNotWriting
  /\ ClosedEmpty
  /\ DisconnectOnce

(* What a thread or a handler does to the send side, a packet of whatever   *)
(* length included.                                                         *)
SendStep ==
  \/ \E len \in Nat : Send(len)
  \/ Close
  \/ WriteFailed
  \/ \E k \in Bytes : WriteHandler(k)

-----------------------------------------------------------------------------
(* Bytes numbered from a to b follow on those numbered up to a - 1.         *)
LEMMA NumberedAppend ==
  ASSUME NEW a \in Nat, NEW n \in Nat
  PROVE  [i \in 1..a |-> i] \o [i \in 1..n |-> a + i] = [i \in 1..(a + n) |-> i]
<1> DEFINE s == [i \in 1..a |-> i]
           t == [i \in 1..n |-> a + i]
           u == [i \in 1..(a + n) |-> i]
<1>1. s \in Seq(Nat) /\ t \in Seq(Nat) /\ u \in Seq(Nat)
  OBVIOUS
<1>2. Len(s) = a /\ Len(t) = n /\ Len(u) = a + n
  OBVIOUS
<1>3. s \o t \in Seq(Nat) /\ Len(s \o t) = a + n
  BY <1>1, <1>2, ConcatProperties
<1>4. \A i \in 1..(a + n) : (s \o t)[i] = u[i]
  BY <1>1, <1>2, ConcatProperties
<1>. QED BY <1>1, <1>2, <1>3, <1>4, SeqEqual

(* The buffers change places without losing a byte.                         *)
LEMMA SwapKeeps ==
  ASSUME NEW b1 \in Seq(Bytes), NEW b2 \in Seq(Bytes)
  PROVE  /\ Swap(b1, b2)[1] \in Seq(Bytes)
         /\ Swap(b1, b2)[2] \in Seq(Bytes)
         /\ Len(Swap(b1, b2)[2]) <= Len(b2)
         /\ Swap(b1, b2)[1] \o Swap(b1, b2)[2] = b1 \o b2
         /\ b2 # << >> => Swap(b1, b2)[1] # << >>
<1>1. CASE b1 = << >>
  <2>1. Swap(b1, b2)[1] = b2 /\ Swap(b1, b2)[2] = << >>
    BY <1>1 DEF Swap
  <2>2. b2 \o << >> = b2 /\ << >> \o b2 = b2
    BY ConcatEmptySeq
  <2>3. << >> \in Seq(Bytes) /\ Len(<< >>) <= Len(b2)
    OBVIOUS
  <2>4. Swap(b1, b2)[1] \o Swap(b1, b2)[2] = b1 \o b2
    BY <1>1, <2>1, <2>2, Zenon
  <2>. QED BY <2>1, <2>3, <2>4, Zenon
<1>2. CASE b1 # << >>
  BY <1>2 DEF Swap
<1>. QED BY <1>1, <1>2

(* Bytes may be put together in any grouping.                               *)
LEMMA Assoc == \A s, a, b \in Seq(Bytes) : (s \o a) \o b = s \o (a \o b)
BY ConcatAssociative

(* Cutting the first k bytes off a buffer and putting them behind what was  *)
(* sent leaves the stream as it was.                                        *)
LEMMA WrittenMoves ==
  \A s, b \in Seq(Bytes) : \A k \in 0..Len(b) :
    /\ SubSeq(b, 1, k) \in Seq(Bytes)
    /\ SubSeq(b, k + 1, Len(b)) \in Seq(Bytes)
    /\ (s \o SubSeq(b, 1, k)) \o SubSeq(b, k + 1, Len(b)) = s \o b
<1>1. TAKE s, b \in Seq(Bytes)
<1>2. TAKE k \in 0..Len(b)
<1> DEFINE first == SubSeq(b, 1, k)
           rest == SubSeq(b, k + 1, Len(b))
<1>3. first \in Seq(Bytes) /\ rest \in Seq(Bytes)
  BY SubSeqProperties, \A i \in 1..Len(b) : b[i] \in Bytes, Len(b) \in Nat
<1>4. first \o rest = b
  <2>1. 1 \in 1..(Len(b) + 1) /\ k \in (1 - 1)..Len(b) /\ Len(b) \in k..Len(b)
    OBVIOUS
  <2>2. first \o rest = SubSeq(b, 1, Len(b))
    BY <2>1, ConcatAdjacentSubSeq
  <2>. QED BY <2>2, SubSeqFull
<1>5. (s \o first) \o rest = s \o b
  <2> HIDE DEF first, rest
  <2>. QED BY Assoc, <1>3, <1>4, Zenon
<1>. QED BY <1>3, <1>5

(* _Close takes the flag to a later state and tells of a disconnection when *)
(* it becomes CLOSE.                                                        *)
LEMMA DoCloseKeeps ==
  ASSUME TypeOK, DisconnectOnce, NEW wr \in BOOLEAN, DoClose(flag, wr)
  PROVE  /\ flag' \in {"STOP", "CLOSE"}
         /\ closes' \in Nat
         /\ DisconnectOnce'
         /\ ~wr => flag' = "CLOSE"
         /\ (wr /\ flag # "CLOSE") => flag' = "STOP"
         /\ flag = "CLOSE" => flag' = "CLOSE"
BY DEF TypeOK, DisconnectOnce, DoClose

(* Starting a write operation on b1 and b2, of which one holds data: all    *)
(* of the invariant but the stream itself, which stays what b1 and b2 were. *)
LEMMA StartWriteKeeps ==
  ASSUME SendInv, flag # "CLOSE",
         NEW b1 \in Seq(Bytes), NEW b2 \in Seq(Bytes), Len(b2) <= MaxBuffer,
         accepted' \in 0..MaxBytes, sent' \in Seq(Bytes),
         StartWrite(b1, b2)
  PROVE  /\ TypeOK'
         /\ NoStranded'
         /\ ClosedNotWriting'
         /\ ClosedEmpty'
         /\ DisconnectOnce'
         /\ sent' \o msgbuffer1' \o msgbuffer2' = (sent' \o b1) \o b2
<1>1. /\ msgbuffer1' \in Seq(Bytes)
      /\ msgbuffer2' \in Seq(Bytes)
      /\ Len(msgbuffer2') <= Len(b2)
      /\ msgbuffer1' \o msgbuffer2' = b1 \o b2
  BY SwapKeeps DEF StartWrite
<1>2. Len(msgbuffer2') <= MaxBuffer
  BY <1>1, SizeAssumption, Len(msgbuffer2') \in Nat, Len(b2) \in Nat
<1>3. sent' \o msgbuffer1' \o msgbuffer2' = (sent' \o b1) \o b2
  <2>1. (sent' \o msgbuffer1') \o msgbuffer2' = sent' \o (msgbuffer1' \o msgbuffer2')
    BY <1>1, Assoc, Zenon
  <2>2. (sent' \o b1) \o b2 = sent' \o (b1 \o b2)
    BY Assoc, Zenon
  <2>. QED BY <1>1, <2>1, <2>2, Zenon
<1>4. CASE writing' = TRUE /\ UNCHANGED << flag, failed, closes >>
  BY <1>1, <1>2, <1>3, <1>4
     DEF SendInv, TypeOK, NoStranded, ClosedNotWriting, ClosedEmpty, DisconnectOnce
<1>5. CASE writing' = FALSE /\ failed' = TRUE /\ DoClose(flag, FALSE)
  <2>1. flag' = "CLOSE" /\ closes' \in Nat /\ DisconnectOnce'
    BY <1>5, DoCloseKeeps DEF SendInv
  <2>. QED
    BY <1>1, <1>2, <1>3, <1>5, <2>1
       DEF SendInv, TypeOK, NoStranded, ClosedNotWriting, ClosedEmpty
<1>. QED BY <1>4, <1>5 DEF StartWrite

-----------------------------------------------------------------------------
(* A new socket has accepted nothing and sent nothing.                      *)
LEMMA SendInit == Init => SendInv
<1> SUFFICES ASSUME Init PROVE SendInv
  OBVIOUS
<1>1. sent = << >> /\ msgbuffer1 = << >> /\ msgbuffer2 = << >> /\ accepted = 0
  BY DEF Init
<1>2. StreamIntact
  <2>1. << >> \o << >> = << >> /\ [i \in 1..0 |-> i] = << >>
    BY ConcatEmptySeq
  <2>2. sent \o msgbuffer1 = << >>
    BY <1>1, <2>1
  <2>3. Numbered = << >>
    BY <1>1, <2>1 DEF Numbered
  <2>. QED BY <1>1, <2>1, <2>2, <2>3, Zenon DEF StreamIntact
<1>3. TypeOK
  <2>1. << >> \in Seq(Bytes) /\ Len(<< >>) <= MaxBuffer /\ 0 \in 0..MaxBytes
    BY SizeAssumption
  <2>2. accepted \in 0..MaxBytes /\ sent \in Seq(Bytes) /\ msgbuffer1 \in Seq(Bytes)
    BY <1>1, <2>1
  <2>3. msgbuffer2 \in Seq(Bytes) /\ Len(msgbuffer2) <= MaxBuffer
    BY <1>1, <2>1
  <2>. QED BY <2>2, <2>3 DEF Init, TypeOK
<1>. QED
  BY <1>2, <1>3
     DEF Init, SendInv, NoStranded, ClosedNotWriting, ClosedEmpty, DisconnectOnce

(* Send appends the packet behind everything accepted before it, in the     *)
(* buffer that a write in progress does not touch.                          *)
LEMMA SendKeeps ==
  ASSUME SendInv, NEW len \in Nat, Send(len)
  PROVE  SendInv'
<1> DEFINE new == [i \in 1..len |-> accepted + i]
<1>1. /\ accepted \in Nat /\ accepted + len <= MaxBytes
      /\ len > 0 /\ flag = "START"
      /\ accepted' = accepted + len /\ sent' = sent
      /\ Len(msgbuffer2) + len <= MaxBuffer
  BY DEF SendInv, TypeOK, Send, CheckCanSend
<1>2. new \in Seq(Bytes) /\ Len(new) = len
  BY <1>1, SizeAssumption DEF Bytes
<1>3. /\ sent \in Seq(Bytes) /\ msgbuffer1 \in Seq(Bytes)
      /\ msgbuffer2 \in Seq(Bytes)
      /\ sent \o msgbuffer1 \in Seq(Bytes)
      /\ msgbuffer2 \o new \in Seq(Bytes)
      /\ Len(msgbuffer2 \o new) = Len(msgbuffer2) + len
  BY <1>2, ConcatProperties DEF SendInv, TypeOK
<1>4. (sent \o msgbuffer1) \o (msgbuffer2 \o new) = Numbered'
  <2>1. (sent \o msgbuffer1) \o (msgbuffer2 \o new)
          = ((sent \o msgbuffer1) \o msgbuffer2) \o new
    <3> HIDE DEF new
    <3> DEFINE so == sent \o msgbuffer1
    <3>1. so \in Seq(Bytes) /\ msgbuffer2 \in Seq(Bytes) /\ new \in Seq(Bytes)
      BY <1>2, <1>3
    <3> HIDE DEF so
    <3>2. so \o (msgbuffer2 \o new) = (so \o msgbuffer2) \o new
      BY <3>1, ConcatAssociative
    <3>. QED BY <3>2 DEF so
  <2>2. (sent \o msgbuffer1) \o msgbuffer2 = [i \in 1..accepted |-> i]
    BY DEF SendInv, StreamIntact, Numbered
  <2>3. [i \in 1..accepted |-> i] \o new = [i \in 1..(accepted + len) |-> i]
    BY <1>1, NumberedAppend
  <2>4. Numbered' = [i \in 1..(accepted + len) |-> i]
    BY <1>1 DEF Numbered
  <2>. QED BY <2>1, <2>2, <2>3, <2>4, Zenon
<1>5. accepted' \in 0..MaxBytes
  BY <1>1, SizeAssumption
<1> HIDE DEF new
<1>6. CASE writing
  <2>1. /\ msgbuffer2' = msgbuffer2 \o new
        /\ UNCHANGED << flag, writing, msgbuffer1, failed, closes >>
    BY <1>6 DEF Send, new
  <2>2. TypeOK'
    BY <1>1, <1>3, <1>5, <2>1 DEF SendInv, TypeOK
  <2>3. StreamIntact'
    BY <1>1, <1>4, <2>1 DEF StreamIntact
  <2>. QED
    BY <1>1, <1>6, <2>1, <2>2, <2>3
       DEF SendInv, NoStranded, ClosedNotWriting, ClosedEmpty, DisconnectOnce
<1>7. CASE ~writing
  <2>1. StartWrite(msgbuffer1, msgbuffer2 \o new)
    BY <1>7 DEF Send, new
  <2>2. /\ TypeOK' /\ NoStranded' /\ ClosedNotWriting' /\ ClosedEmpty'
        /\ DisconnectOnce'
        /\ sent' \o msgbuffer1' \o msgbuffer2'
             = (sent' \o msgbuffer1) \o (msgbuffer2 \o new)
    BY <1>1, <1>3, <1>5, <2>1, StartWriteKeeps
  <2>3. StreamIntact'
    BY <1>1, <1>4, <2>2 DEF StreamIntact
  <2>. QED BY <2>2, <2>3 DEF SendInv
<1>. QED BY <1>6, <1>7

(* Closing touches no buffer; if it closes the socket at once, no write was *)
(* in progress and so there was nothing left.                               *)
LEMMA CloseKeeps ==
  ASSUME SendInv, Close
  PROVE  SendInv'
<1>1. /\ UNCHANGED << writing, msgbuffer1, msgbuffer2, accepted, sent, failed >>
      /\ DoClose(flag, writing)
  BY DEF Close
<1>2. /\ flag' \in {"STOP", "CLOSE"} /\ closes' \in Nat /\ DisconnectOnce'
      /\ ~writing => flag' = "CLOSE"
      /\ (writing /\ flag # "CLOSE") => flag' = "STOP"
      /\ flag = "CLOSE" => flag' = "CLOSE"
  BY <1>1, DoCloseKeeps DEF SendInv, TypeOK
<1>3. TypeOK' /\ StreamIntact'
  BY <1>1, <1>2 DEF SendInv, TypeOK, StreamIntact, Numbered
<1>. QED
  BY <1>1, <1>2, <1>3
     DEF SendInv, TypeOK, NoStranded, ClosedNotWriting, ClosedEmpty

(* A write that fails closes the socket with the failure on record.         *)
LEMMA WriteFailedKeeps ==
  ASSUME SendInv, WriteFailed
  PROVE  SendInv'
<1>1. /\ writing' = FALSE /\ failed' = TRUE
      /\ UNCHANGED << msgbuffer1, msgbuffer2, accepted, sent >>
      /\ DoClose(flag, FALSE)
  BY DEF WriteFailed
<1>2. flag' = "CLOSE" /\ closes' \in Nat /\ DisconnectOnce'
  BY <1>1, DoCloseKeeps DEF SendInv
<1>3. TypeOK' /\ StreamIntact'
  BY <1>1, <1>2 DEF SendInv, TypeOK, StreamIntact, Numbered
<1>. QED
  BY <1>1, <1>2, <1>3 DEF SendInv, NoStranded, ClosedNotWriting, ClosedEmpty

(* The bytes the system took leave msgbuffer1 and join what was sent; the   *)
(* write operation ends only when both buffers are empty.                   *)
LEMMA WriteHandlerKeeps ==
  ASSUME SendInv, NEW k \in Bytes, WriteHandler(k)
  PROVE  SendInv'
<1> DEFINE rest == SubSeq(msgbuffer1, k + 1, Len(msgbuffer1))
<1>1. /\ writing /\ k \in 0..Len(msgbuffer1) /\ accepted' = accepted
      /\ sent' = sent \o SubSeq(msgbuffer1, 1, k)
      /\ flag # "CLOSE"
      /\ sent \in Seq(Bytes) /\ msgbuffer1 \in Seq(Bytes)
      /\ msgbuffer2 \in Seq(Bytes) /\ Len(msgbuffer2) <= MaxBuffer
  BY SizeAssumption DEF SendInv, TypeOK, ClosedNotWriting, WriteHandler, Bytes
<1>2. rest \in Seq(Bytes) /\ sent' \in Seq(Bytes) /\ sent' \o rest = sent \o msgbuffer1
  <2>1. SubSeq(msgbuffer1, 1, k) \in Seq(Bytes) /\ rest \in Seq(Bytes)
    BY <1>1, WrittenMoves
  <2>2. sent' \in Seq(Bytes)
    BY <1>1, <2>1, ConcatProperties
  <2>3. (sent \o SubSeq(msgbuffer1, 1, k)) \o rest = sent \o msgbuffer1
    BY <1>1, WrittenMoves, Zenon
  <2>. QED BY <1>1, <2>1, <2>2, <2>3
<1>3. accepted' \in 0..MaxBytes
  BY <1>1 DEF SendInv, TypeOK
<1>4. (sent' \o rest) \o msgbuffer2 = Numbered'
  BY <1>1, <1>2 DEF SendInv, StreamIntact, Numbered
<1>5. CASE rest = << >> /\ msgbuffer2 = << >>
  <2>1. /\ writing' = FALSE /\ msgbuffer1' = rest
        /\ UNCHANGED << msgbuffer2, failed >>
        /\ IF flag # "START" THEN DoClose(flag, FALSE)
                             ELSE UNCHANGED << flag, closes >>
    BY <1>5 DEF WriteHandler
  <2>2. StreamIntact'
    BY <1>4, <2>1 DEF StreamIntact
  <2>3. flag' \in {"START", "CLOSE"} /\ closes' \in Nat /\ DisconnectOnce'
    BY <2>1, DoCloseKeeps DEF SendInv, TypeOK, DisconnectOnce
  <2>4. TypeOK'
    BY <1>2, <1>3, <2>1, <2>3 DEF SendInv, TypeOK
  <2>. QED
    BY <1>5, <2>1, <2>2, <2>3, <2>4
       DEF SendInv, NoStranded, ClosedNotWriting, ClosedEmpty
<1>6. CASE ~(rest = << >> /\ msgbuffer2 = << >>)
  <2>1. StartWrite(rest, msgbuffer2)
    BY <1>6 DEF WriteHandler
  <2> HIDE DEF rest
  <2>2. /\ TypeOK' /\ NoStranded' /\ ClosedNotWriting' /\ ClosedEmpty'
        /\ DisconnectOnce'
        /\ sent' \o msgbuffer1' \o msgbuffer2' = (sent' \o rest) \o msgbuffer2
    BY <1>1, <1>2, <1>3, <2>1, StartWriteKeeps
  <2>3. StreamIntact'
    BY <1>4, <2>2 DEF StreamIntact
  <2>. QED BY <2>2, <2>3 DEF SendInv
<1>. QED BY <1>5, <1>6

(* Every step of the send side keeps its invariant.                         *)
LEMMA SendInvStep == SendInv /\ [SendStep]_baseVars => SendInv'
<1> SUFFICES ASSUME SendInv, [SendStep]_baseVars PROVE SendInv'
  OBVIOUS
<1>1. CASE SendStep
  BY <1>1, SendKeeps, CloseKeeps, WriteFailedKeeps, WriteHandlerKeeps DEF SendStep
<1>2. CASE UNCHANGED baseVars
  BY <1>2
     DEF baseVars, SendInv, TypeOK, StreamIntact, Numbered, NoStranded,
         ClosedNotWriting, ClosedEmpty, DisconnectOnce
<1>. QED BY <1>1, <1>2

(* The steps of a socket, and those of a whole connection, are steps of the *)
(* send side or leave it alone.                                             *)
LEMMA SendSteps ==
  /\ [Next]_vars => [SendStep]_baseVars
  /\ [StreamNext]_streamSocketVars => [SendStep]_baseVars
<1>1. [Next]_vars => [SendStep]_baseVars
  BY LensAssumption DEF Next, SendStep, vars, baseVars
<1>2. ASSUME [StreamNext]_streamSocketVars PROVE [SendStep]_baseVars
  <2>1. ASSUME NEW len \in Lens, SendPacket(len) PROVE SendStep
    BY <2>1, LensAssumption, HeaderAssumption, Hdr + len \in Nat
       DEF SendPacket, SendStep
  <2>2. CASE CloseSender \/ Write
    BY <2>2 DEF CloseSender, Write, SendStep
  <2>3. CASE Receiver \/ ReadFails \/ CloseReader \/ UNCHANGED streamSocketVars
    BY <2>3
       DEF Receiver, ReadHandler, ReadEnds, ReadFails, CutMsgPack, CloseReader,
           streamSocketVars
  <2>. QED BY <1>2, <2>1, <2>2, <2>3 DEF StreamNext
<1>. QED BY <1>1, <1>2

-----------------------------------------------------------------------------
(* The properties the invariant was made for follow from it.                *)
LEMMA SendInvImplies ==
  SendInv => TypeOK /\ StreamIntact /\ NoStranded /\ CloseDrains /\ DisconnectOnce
<1> SUFFICES ASSUME SendInv, flag = "CLOSE", ~failed PROVE sent = Numbered
  BY DEF SendInv, CloseDrains
<1>1. msgbuffer1 = << >> /\ msgbuffer2 = << >>
  BY DEF SendInv, ClosedEmpty
<1>2. sent \o << >> = sent
  BY ConcatEmptySeq DEF SendInv, TypeOK
<1>. QED BY <1>1, <1>2 DEF SendInv, StreamIntact

(* The send side of one socket, whichever threads call it: its buffers lose *)
(* no byte and strand none, it is cut only when it has sent all it accepted *)
(* or a write has failed, and it tells of one disconnection.                *)
THEOREM SendSafety ==
  Spec => [](TypeOK /\ StreamIntact /\ NoStranded /\ CloseDrains /\ DisconnectOnce)
<1>1. Spec => []SendInv
  BY SendInit, SendInvStep, SendSteps, PTL DEF Spec
<1>. QED BY <1>1, SendInvImplies, PTL

(* The same of a socket that sends packets to a reader at the other end.    *)
THEOREM ChannelSendSafety ==
  StreamSpec => [](TypeOK /\ StreamIntact /\ NoStranded /\ CloseDrains /\ DisconnectOnce)
<1>1. StreamInit => Init
  BY DEF StreamInit
<1>2. StreamSpec => []SendInv
  BY <1>1, SendInit, SendInvStep, SendSteps, PTL DEF StreamSpec
<1>. QED BY <1>2, SendInvImplies, PTL

-----------------------------------------------------------------------------
(* The last byte of a packet.                                               *)
EndOf(p) == p.first + Hdr + p.len - 1

(* The first byte of the packet that is to be delivered next.               *)
NextFirst ==
  IF Len(delivered) = 0 THEN 1 ELSE EndOf(packets[Len(delivered)]) + 1

(* The packets lie one behind the other and are all that was accepted.      *)
Layout ==
  /\ Len(packets) = 0 => accepted = 0
  /\ Len(packets) > 0 => EndOf(packets[Len(packets)]) = accepted
  /\ \A i \in 1..Len(packets) :
       packets[i].first = IF i = 1 THEN 1 ELSE EndOf(packets[i - 1]) + 1
  /\ \A i, j \in 1..Len(packets) : i < j => EndOf(packets[i]) < packets[j].first
  /\ \A n \in 1..accepted : \E i \in 1..Len(packets) :
       packets[i].first <= n /\ n <= EndOf(packets[i])

(* What `torn' says of the last read: it ended in no body, or in no packet. *)
LastRead ==
  /\ torn # "body" => \A i \in 1..Len(packets) :
       ~ (packets[i].first + Hdr <= taken /\ taken < EndOf(packets[i]))
  /\ torn = "no" => \A i \in 1..Len(packets) :
       ~ (packets[i].first <= taken /\ taken < EndOf(packets[i]))

(* The receiver's place in the stream: msgbuffer holds the start of the     *)
(* next packet, at most its header, and what is left in readbuf follows it. *)
InSync ==
  /\ Len(delivered) <= Len(packets)
  /\ \A k \in 1..Len(delivered) : Len(delivered[k]) = packets[k].len
  /\ Len(msgbuffer) <= Hdr
  /\ \A i \in 1..Len(msgbuffer) : msgbuffer[i] = NextFirst + i - 1
  /\ reader = "read" => taken = NextFirst - 1 + Len(msgbuffer)
  /\ reader = "cut" =>
       /\ taken = NextFirst - 1 + Len(msgbuffer) + tran_byte
       /\ off + tran_byte <= ReadSize
       /\ \A i \in 1..tran_byte : readbuf[off + i] = taken - tran_byte + i
  /\ reader = "closed" => (rstop \/ rfailed \/ flag = "CLOSE")

(* Until a read tears a packet nothing waits in msgbuffer, and what was     *)
(* delivered are the bodies of the packets.                                 *)
Whole ==
  /\ reader # "undefined"
  /\ msgbuffer = << >>
  /\ \A k \in 1..Len(delivered) : delivered[k] = Body(packets[k])

(* The inductive invariant of the connection.                               *)
ChannelInv ==
  /\ SendInv
  /\ StreamTypeOK
  /\ Layout
  /\ LastRead
  /\ (torn # "body" /\ reader # "undefined") => InSync
  /\ torn = "no" => Whole

(* What the system took are the first bytes of those accepted.              *)
LEMMA SentNumbered ==
  ASSUME SendInv
  PROVE  /\ Len(sent) \in Nat /\ Len(sent) <= accepted
         /\ \A i \in 1..Len(sent) : sent[i] = i
<1>1. /\ sent \in Seq(Bytes) /\ msgbuffer1 \in Seq(Bytes)
      /\ msgbuffer2 \in Seq(Bytes) /\ accepted \in Nat
  BY SizeAssumption DEF SendInv, TypeOK
<1> DEFINE so == sent \o msgbuffer1
<1>2. /\ so \in Seq(Bytes) /\ Len(so) = Len(sent) + Len(msgbuffer1)
      /\ \A i \in 1..Len(sent) : so[i] = sent[i]
  BY <1>1, ConcatProperties
<1> HIDE DEF so
<1>3. /\ Len(so \o msgbuffer2) = Len(so) + Len(msgbuffer2)
      /\ \A i \in 1..Len(so) : (so \o msgbuffer2)[i] = so[i]
  <2>1. so \in Seq(Bytes) /\ msgbuffer2 \in Seq(Bytes)
    BY <1>1, <1>2
  <2>2. Len(so) \in Nat /\ Len(msgbuffer2) \in Nat
    BY <2>1
  <2>. QED BY <2>1, <2>2, ConcatProperties
<1>4. so \o msgbuffer2 = Numbered
  BY DEF SendInv, StreamIntact, so
<1>5. Len(Numbered) = accepted /\ \A i \in 1..accepted : Numbered[i] = i
  BY <1>1, Len([i \in 1..accepted |-> i]) = accepted DEF Numbered
<1>6. Len(sent) \in Nat /\ Len(msgbuffer1) \in Nat /\ Len(msgbuffer2) \in Nat
  BY <1>1
<1>7. Len(so) + Len(msgbuffer2) = accepted
  BY <1>3, <1>4, <1>5, Zenon
<1>8. Len(sent) <= Len(so) /\ Len(so) <= accepted /\ Len(so) \in Nat
  BY <1>2, <1>6, <1>7
<1>9. ASSUME NEW i \in 1..Len(sent) PROVE sent[i] = i
  <2>1. i \in 1..Len(so) /\ i \in 1..accepted
    BY <1>1, <1>6, <1>8
  <2>2. so[i] = Numbered[i]
    BY <1>3, <1>4, <2>1
  <2>. QED BY <1>2, <1>5, <2>1, <2>2
<1>. QED BY <1>1, <1>6, <1>8, <1>9

(* The bytes at a place in readbuf, and what lies behind it.                *)
LEMMA AtFacts ==
  ASSUME StreamTypeOK, NEW o \in Nat, NEW n \in Nat
  PROVE  /\ At(o, n) \in Seq(Bytes \cup {0})
         /\ Len(At(o, n)) = n
         /\ \A i \in 1..n : o + i <= ReadSize => At(o, n)[i] = readbuf[o + i]
<1>1. \A i \in 1..n : (IF o + i <= ReadSize THEN readbuf[o + i] ELSE 0) \in Bytes \cup {0}
  BY ReadAssumption DEF StreamTypeOK
<1>2. At(o, n) = [i \in 1..n |-> IF o + i <= ReadSize THEN readbuf[o + i] ELSE 0]
  BY DEF At
<1> HIDE DEF At
<1>3. At(o, n) \in [1..n -> Bytes \cup {0}]
  BY <1>1, <1>2
<1>4. At(o, n) \in Seq(Bytes \cup {0}) /\ Len(At(o, n)) = n
  BY <1>3
<1>. QED BY <1>2, <1>4

(* A packet has its header and its bytes have their numbers.                *)
LEMMA PacketFacts ==
  ASSUME StreamTypeOK, NEW i \in 1..Len(packets)
  PROVE  /\ packets[i].first \in Nat \ {0}
         /\ packets[i].len \in Nat /\ packets[i].len \in Lens
         /\ EndOf(packets[i]) \in Nat
         /\ packets[i].first + Hdr <= EndOf(packets[i]) + 1
         /\ packets[i] \in Range(packets)
<1>1. packets[i] \in Packet
  BY DEF StreamTypeOK
<1>2. packets[i] \in Range(packets)
  BY DEF StreamTypeOK, Range
<1>3. packets[i].first \in 1..MaxBytes /\ packets[i].len \in Lens
  BY <1>1 DEF Packet, Bytes
<1>4. packets[i].first \in Nat \ {0} /\ packets[i].len \in Nat
  <2>1. \A f \in 1..MaxBytes : f \in Nat \ {0}
    BY SizeAssumption
  <2>. QED BY <1>3, <2>1, LensAssumption, Zenon
<1>. QED BY <1>2, <1>3, <1>4, HeaderAssumption DEF EndOf

(* The packet that is to be delivered next, once a byte of it was sent, and *)
(* that its header is the header of no other packet.                        *)
LEMMA NextPacket ==
  ASSUME StreamTypeOK, Layout, Len(delivered) <= Len(packets),
         NextFirst <= accepted
  PROVE  /\ Len(delivered) + 1 \in 1..Len(packets)
         /\ packets[Len(delivered) + 1].first = NextFirst
         /\ Heads([i \in 1..Hdr |-> NextFirst + i - 1])
              = {packets[Len(delivered) + 1]}
<1> DEFINE d == Len(delivered)
           p == packets[d + 1]
           bytes == [i \in 1..Hdr |-> NextFirst + i - 1]
<1>1. d \in Nat /\ Len(packets) \in Nat /\ accepted \in Nat /\ Hdr \in Nat \ {0}
  BY HeaderAssumption, SizeAssumption DEF StreamTypeOK, TypeOK
<1>2. d # Len(packets)
  <2>1. CASE d = 0
    BY <1>1, <2>1 DEF NextFirst, Layout
  <2>2. CASE d # 0
    BY <1>1, <2>2, PacketFacts DEF NextFirst, Layout
  <2>. QED BY <2>1, <2>2
<1>3. d + 1 \in 1..Len(packets)
  BY <1>1, <1>2
<1>4. p.first = NextFirst
  BY <1>1, <1>3 DEF Layout, NextFirst
<1>5. p \in Heads(bytes)
  BY <1>3, <1>4, PacketFacts DEF Heads
<1>6. ASSUME NEW q \in Heads(bytes) PROVE q = p
  <2>1. PICK j \in 1..Len(packets) : q = packets[j]
    BY <1>6 DEF Heads, Range, StreamTypeOK
  <2>2. bytes = [i \in 1..Hdr |-> q.first + i - 1]
    BY <1>6 DEF Heads
  <2>3. bytes[1] = NextFirst + 1 - 1 /\ bytes[1] = q.first + 1 - 1
    BY <1>1, <2>2
  <2>4. q.first = p.first
    BY <1>3, <1>4, <2>1, <2>3, PacketFacts
  <2>5. /\ j < d + 1 => EndOf(q) < p.first
        /\ d + 1 < j => EndOf(p) < q.first
    BY <1>3, <2>1 DEF Layout
  <2>6. j = d + 1
    BY <1>1, <1>3, <2>1, <2>4, <2>5, PacketFacts, HeaderAssumption
  <2>. QED BY <2>1, <2>6
<1>. QED BY <1>3, <1>4, <1>5, <1>6

(* A byte belongs to one packet, and Tear tells where in it.                *)
LEMMA TearFacts ==
  ASSUME StreamTypeOK, Layout, NEW n \in 1..accepted, NEW i \in 1..Len(packets),
         packets[i].first <= n, n <= EndOf(packets[i])
  PROVE  /\ \A j \in 1..Len(packets) :
              (packets[j].first <= n /\ n <= EndOf(packets[j])) => j = i
         /\ Tear(n) = IF n = EndOf(packets[i]) THEN "no"
                      ELSE IF n < packets[i].first + Hdr THEN "header" ELSE "body"
<1>1. accepted \in Nat /\ Len(packets) \in Nat
  BY SizeAssumption DEF StreamTypeOK, TypeOK
<1>2. ASSUME NEW j \in 1..Len(packets),
             packets[j].first <= n, n <= EndOf(packets[j])
      PROVE  j = i
  <2>1. /\ j < i => EndOf(packets[j]) < packets[i].first
        /\ i < j => EndOf(packets[i]) < packets[j].first
    BY DEF Layout
  <2>. QED BY <1>1, <1>2, <2>1, PacketFacts
<1> DEFINE In(q) == q.first <= n /\ n < q.first + Hdr + q.len
<1>3. ASSUME NEW j \in 1..Len(packets)
      PROVE  In(packets[j]) <=> (packets[j].first <= n /\ n <= EndOf(packets[j]))
  <2>1. packets[j].first \in Nat /\ packets[j].len \in Nat /\ Hdr \in Nat /\ n \in Nat
    BY <1>1, PacketFacts, HeaderAssumption
  <2>2. \A f, l, h, m \in Nat : m < f + h + l <=> m <= f + h + l - 1
    OBVIOUS
  <2>. QED BY <2>1, <2>2, Zenon DEF EndOf
<1>4. (CHOOSE q \in Range(packets) : In(q)) = packets[i]
  <2>1. packets[i] \in Range(packets) /\ In(packets[i])
    BY <1>3, PacketFacts
  <2>2. \A q \in Range(packets) : In(q) => q = packets[i]
    <3>1. DOMAIN packets = 1..Len(packets)
      BY DEF StreamTypeOK
    <3>2. ASSUME NEW j \in 1..Len(packets), In(packets[j]) PROVE packets[j] = packets[i]
      BY <1>2, <1>3, <3>2
    <3> HIDE DEF In
    <3>. QED BY <3>1, <3>2 DEF Range
  <2> HIDE DEF In
  <2>. QED BY <2>1, <2>2
<1>5. Tear(n) = LET place == n - packets[i].first + 1 IN
                IF place = Hdr + packets[i].len THEN "no"
                ELSE IF place <= Hdr THEN "header" ELSE "body"
  BY <1>4 DEF Tear
<1>6. packets[i].first \in Nat /\ packets[i].len \in Nat /\ Hdr \in Nat /\ n \in Nat
  BY <1>1, PacketFacts, HeaderAssumption
<1>7. /\ n - packets[i].first + 1 = Hdr + packets[i].len <=> n = EndOf(packets[i])
      /\ n - packets[i].first + 1 <= Hdr <=> n < packets[i].first + Hdr
  <2>1. \A f, l, h, m \in Nat : m - f + 1 = h + l <=> m = f + h + l - 1
    OBVIOUS
  <2>2. \A f, h, m \in Nat : m - f + 1 <= h <=> m < f + h
    OBVIOUS
  <2>3. n - packets[i].first + 1 = Hdr + packets[i].len
          <=> n = packets[i].first + Hdr + packets[i].len - 1
    <3>1. \A f, l \in Nat : n - f + 1 = Hdr + l <=> n = f + Hdr + l - 1
      BY <1>6, <2>1
    <3>. QED BY <1>6, <3>1, Zenon
  <2>4. n - packets[i].first + 1 <= Hdr <=> n < packets[i].first + Hdr
    BY <1>6, <2>2, Zenon
  <2>. QED BY <2>3, <2>4, Zenon DEF EndOf
<1>. QED BY <1>2, <1>5, <1>7

-----------------------------------------------------------------------------
(* A new connection.                                                        *)
LEMMA ChannelInit == StreamInit => ChannelInv
<1> SUFFICES ASSUME StreamInit PROVE ChannelInv
  OBVIOUS
<1>1. /\ packets = << >> /\ taken = 0 /\ reader = "read" /\ rstop = FALSE /\ rfailed = FALSE
      /\ readbuf = [i \in 1..ReadSize |-> 0] /\ msgbuffer = << >>
      /\ off = 0 /\ tran_byte = 0 /\ delivered = << >> /\ torn = "no"
  BY DEF StreamInit
<1>2. Init /\ accepted = 0 /\ sent = << >>
  BY DEF StreamInit, Init
<1>3. SendInv
  BY <1>2, SendInit
<1>4. /\ << >> \in Seq(Packet) /\ << >> \in Seq(Bytes \cup {0})
      /\ << >> \in Seq(Seq(Bytes \cup {0})) /\ Len(<< >>) = 0
  OBVIOUS
<1>5. readbuf \in [1..ReadSize -> Bytes \cup {0}]
  BY <1>1
<1>6. TypeOK
  BY <1>3 DEF SendInv
<1>7. taken \in 0..Len(sent)
  BY <1>1, <1>2
<1>8. StreamTypeOK
  BY <1>1, <1>4, <1>5, <1>6, <1>7 DEF StreamTypeOK
<1>9. Len(packets) = 0 /\ Len(delivered) = 0 /\ Len(msgbuffer) = 0
  BY <1>1, <1>4
<1>10. Layout /\ LastRead /\ Whole
  BY <1>1, <1>2, <1>9 DEF Layout, LastRead, Whole
<1>11. InSync
  BY <1>1, <1>9, HeaderAssumption DEF InSync, NextFirst
<1>. QED BY <1>3, <1>8, <1>10, <1>11 DEF ChannelInv

(* A step of the sender that accepts no packet: nothing on the receiver's   *)
(* side changes but that there may be more to read, or an end.              *)
LEMMA QuietSenderKeeps ==
  ASSUME ChannelInv, SendInv', accepted' = accepted,
         Len(sent) <= Len(sent'), flag = "CLOSE" => flag' = "CLOSE",
         UNCHANGED << cutVars, packets, taken, readbuf, delivered, torn >>,
         rstop' \in BOOLEAN, rstop => rstop', rfailed' = rfailed
  PROVE  ChannelInv'
<1>1. /\ UNCHANGED << packets, taken, readbuf, delivered, torn >>
      /\ UNCHANGED << msgbuffer, off, tran_byte, reader >>
  BY DEF cutVars
<1>2. StreamTypeOK /\ Layout /\ LastRead
  BY DEF ChannelInv
<1>3. taken' \in 0..Len(sent')
  <2>1. taken \in 0..Len(sent) /\ Len(sent) \in Nat /\ Len(sent') \in Nat
    BY <1>2 DEF StreamTypeOK, TypeOK, SendInv
  <2>. QED BY <1>1, <2>1
<1>4. StreamTypeOK'
  BY <1>1, <1>2, <1>3 DEF StreamTypeOK, SendInv
<1>5. Layout' /\ LastRead'
  BY <1>1, <1>2 DEF Layout, LastRead, EndOf
<1>6. NextFirst' = NextFirst
  BY <1>1 DEF NextFirst, EndOf
<1>7. InSync => InSync'
  BY <1>1, <1>6 DEF InSync
<1>8. Whole => Whole'
  BY <1>1 DEF Whole, Body
<1>. QED BY <1>1, <1>4, <1>5, <1>7, <1>8 DEF ChannelInv

(* A packet that is accepted lies behind all the others, so what was read   *)
(* and delivered before is as it was.                                       *)
LEMMA SendPacketKeeps ==
  ASSUME ChannelInv, NEW len \in Lens, SendPacket(len)
  PROVE  ChannelInv'
<1> DEFINE q == [first |-> accepted + 1, len |-> len]
           n == Len(packets)
<1>1. /\ packets' = Append(packets, q) /\ Send(Hdr + len)
      /\ UNCHANGED << taken, reader, rstop, rfailed, readbuf, msgbuffer, off,
                      tran_byte, delivered, torn >>
  BY DEF SendPacket, cutVars
<1>2. SendInv /\ StreamTypeOK /\ Layout /\ LastRead /\ TypeOK
  BY DEF ChannelInv, SendInv
<1>3. len \in Nat /\ Hdr \in Nat \ {0} /\ Hdr + len \in Nat
  BY LensAssumption, HeaderAssumption
<1>4. SendInv'
  BY <1>1, <1>2, <1>3, SendKeeps
<1>5. /\ accepted \in Nat /\ accepted' = accepted + (Hdr + len)
      /\ accepted + (Hdr + len) <= MaxBytes /\ sent' = sent /\ flag = "START"
  BY <1>1, <1>2, SizeAssumption DEF Send, CheckCanSend, TypeOK
<1>6. packets \in Seq(Packet) /\ n \in Nat /\ q \in Packet
  <2>1. accepted + 1 \in Bytes
    BY <1>3, <1>5, SizeAssumption DEF Bytes
  <2>. QED BY <1>2, <2>1 DEF StreamTypeOK, Packet
<1>7. /\ packets' \in Seq(Packet) /\ Len(packets') = n + 1
      /\ packets'[n + 1] = q
      /\ \A i \in 1..n : packets'[i] = packets[i]
  BY <1>1, <1>6, AppendProperties
<1>8. q.first = accepted + 1 /\ q.len = len /\ EndOf(q) = accepted'
  BY <1>3, <1>5 DEF EndOf
<1>9. 1..(n + 1) = (1..n) \cup {n + 1}
  BY <1>6
<1> HIDE DEF q
<1>10. taken \in Nat /\ taken <= Len(sent) /\ Len(sent) <= accepted /\ Len(sent) \in Nat
  BY <1>2, SentNumbered DEF StreamTypeOK
<1>11. StreamTypeOK'
  <2>1. TypeOK'
    BY <1>4 DEF SendInv
  <2>. QED BY <1>1, <1>2, <1>5, <1>7, <2>1 DEF StreamTypeOK
<1>12. \A i \in 1..n : EndOf(packets[i]) \in Nat /\ EndOf(packets[i]) <= accepted
  <2>1. TAKE i \in 1..n
  <2>2. EndOf(packets[i]) \in Nat
    BY <1>2, PacketFacts
  <2>3. CASE i = n
    BY <1>5, <1>6, <2>2, <2>3, <1>2 DEF Layout
  <2>4. CASE i # n
    <3>1. n \in 1..n /\ i < n
      BY <1>6, <2>4
    <3>2. EndOf(packets[i]) < packets[n].first /\ EndOf(packets[n]) = accepted
      BY <1>2, <1>6, <3>1 DEF Layout
    <3>3. /\ packets[n].first \in Nat /\ EndOf(packets[n]) \in Nat
          /\ packets[n].first + Hdr <= EndOf(packets[n]) + 1
      BY <1>2, <3>1, PacketFacts
    <3>. QED BY <1>3, <2>2, <3>2, <3>3
  <2>. QED BY <2>3, <2>4
<1>13. Layout'
  <2>1. EndOf(packets'[Len(packets')]) = accepted' /\ Len(packets') > 0
    BY <1>6, <1>7, <1>8
  <2>2. ASSUME NEW i \in 1..(n + 1)
        PROVE  packets'[i].first = IF i = 1 THEN 1 ELSE EndOf(packets'[i - 1]) + 1
    <3>1. CASE i \in 1..n
      <4>1. packets[i].first = IF i = 1 THEN 1 ELSE EndOf(packets[i - 1]) + 1
        BY <1>2, <3>1 DEF Layout
      <4>2. i # 1 => i - 1 \in 1..n
        BY <1>6, <3>1
      <4>. QED BY <1>7, <3>1, <4>1, <4>2
    <3>2. CASE i = n + 1
      <4>1. CASE n = 0
        BY <1>2, <1>7, <1>8, <3>2, <4>1 DEF Layout
      <4>2. CASE n # 0
        <5>1. n \in 1..n /\ i # 1 /\ i - 1 = n
          BY <1>6, <3>2, <4>2
        <5>2. EndOf(packets'[i - 1]) = accepted
          BY <1>2, <1>6, <1>7, <4>2, <5>1 DEF Layout
        <5>. QED BY <1>7, <1>8, <3>2, <5>1, <5>2
      <4>. QED BY <4>1, <4>2
    <3>. QED BY <1>9, <3>1, <3>2
  <2>3. ASSUME NEW i \in 1..(n + 1), NEW j \in 1..(n + 1), i < j
        PROVE  EndOf(packets'[i]) < packets'[j].first
    <3>1. i \in 1..n /\ packets'[i] = packets[i]
      BY <1>6, <1>7, <2>3
    <3>2. CASE j \in 1..n
      BY <1>2, <1>7, <2>3, <3>1, <3>2 DEF Layout
    <3>3. CASE j = n + 1
      BY <1>5, <1>7, <1>8, <1>12, <3>1, <3>3
    <3>. QED BY <1>9, <3>2, <3>3
  <2>4. ASSUME NEW m \in 1..accepted'
        PROVE  \E i \in 1..(n + 1) :
                 packets'[i].first <= m /\ m <= EndOf(packets'[i])
    <3>1. CASE m \in 1..accepted
      <4>1. PICK i \in 1..n : packets[i].first <= m /\ m <= EndOf(packets[i])
        BY <1>2, <3>1 DEF Layout
      <4>. QED BY <1>7, <1>9, <4>1
    <3>2. CASE m \notin 1..accepted
      <4>1. q.first <= m /\ m <= EndOf(q) /\ n + 1 \in 1..(n + 1)
        BY <1>3, <1>5, <1>6, <1>8, <3>2
      <4>. QED BY <1>7, <4>1
    <3>. QED BY <3>1, <3>2
  <2>5. /\ \A i \in 1..(n + 1) :
             packets'[i].first = IF i = 1 THEN 1 ELSE EndOf(packets'[i - 1]) + 1
        /\ \A i, j \in 1..(n + 1) : i < j => EndOf(packets'[i]) < packets'[j].first
        /\ \A m \in 1..accepted' : \E i \in 1..(n + 1) :
             packets'[i].first <= m /\ m <= EndOf(packets'[i])
    BY <2>2, <2>3, <2>4
  <2>. QED BY <1>7, <2>1, <2>5 DEF Layout, EndOf
<1>14. LastRead'
  <2>1. ~ (packets'[n + 1].first <= taken) /\ ~ (packets'[n + 1].first + Hdr <= taken)
    BY <1>3, <1>5, <1>7, <1>8, <1>10
  <2>2. torn' # "body" => \A i \in 1..(n + 1) :
          ~ (packets'[i].first + Hdr <= taken' /\ taken' < EndOf(packets'[i]))
    BY <1>1, <1>2, <1>7, <1>9, <2>1 DEF LastRead
  <2>3. torn' = "no" => \A i \in 1..(n + 1) :
          ~ (packets'[i].first <= taken' /\ taken' < EndOf(packets'[i]))
    BY <1>1, <1>2, <1>7, <1>9, <2>1 DEF LastRead
  <2>. QED BY <1>7, <2>2, <2>3 DEF LastRead, EndOf
<1>15. ASSUME InSync PROVE InSync' /\ (Whole => Whole')
  <2>1. Len(delivered) \in Nat /\ Len(delivered) <= n
    BY <1>2, <1>15 DEF InSync, StreamTypeOK
  <2>2. \A k \in 1..Len(delivered) : k \in 1..n /\ packets'[k] = packets[k]
    BY <1>6, <1>7, <2>1
  <2>3. NextFirst' = NextFirst
    BY <1>1, <2>1, <2>2 DEF NextFirst, EndOf
  <2>4. Len(delivered') <= Len(packets')
    BY <1>1, <1>6, <1>7, <2>1
  <2>5. InSync'
    BY <1>1, <1>5, <1>15, <2>2, <2>3, <2>4 DEF InSync
  <2>6. Whole => Whole'
    BY <1>1, <2>2 DEF Whole, Body
  <2>. QED BY <2>5, <2>6
<1>. QED BY <1>1, <1>4, <1>11, <1>13, <1>14, <1>15 DEF ChannelInv, Whole

(* A read takes the next bytes of the stream, and `torn' records where it   *)
(* ends.                                                                    *)
LEMMA ReadHandlerKeeps ==
  ASSUME ChannelInv, NEW n \in 1..ReadSize, ReadHandler(n)
  PROVE  ChannelInv'
<1> DEFINE last == taken + n
           came == SubSeq(sent, taken + 1, last)
           old == SubSeq(readbuf, n + 1, ReadSize)
<1>1. /\ reader = "read" /\ last <= Len(sent) /\ taken' = last
      /\ readbuf' = came \o old
      /\ reader' = (IF rstop THEN "closed" ELSE "cut")
      /\ off' = 0 /\ tran_byte' = n /\ torn' = Worse(torn, Tear(sent[last]))
      /\ UNCHANGED << flag, writing, msgbuffer1, msgbuffer2, accepted, sent,
                      failed, closes, packets, rstop, rfailed, msgbuffer, delivered >>
  BY DEF ReadHandler, baseVars
<1>2. SendInv /\ StreamTypeOK /\ Layout /\ LastRead /\ TypeOK
  BY DEF ChannelInv, SendInv
<1>3. SendInv'
  BY <1>1, <1>2, SendInvStep DEF baseVars
<1>4. /\ n \in Nat /\ n <= ReadSize /\ ReadSize \in Nat /\ taken \in Nat
      /\ sent \in Seq(Bytes) /\ Len(sent) \in Nat /\ Len(sent) <= accepted
      /\ accepted \in Nat /\ \A i \in 1..Len(sent) : sent[i] = i
  BY <1>2, ReadAssumption, SizeAssumption, SentNumbered DEF StreamTypeOK, TypeOK
<1>5. /\ last \in 1..accepted /\ last \in 1..Len(sent) /\ sent[last] = last
  BY <1>1, <1>4
<1>6. /\ came \in Seq(Bytes \cup {0}) /\ Len(came) = n
      /\ \A i \in 1..n : came[i] = taken + i
  <2>1. \A i \in (taken + 1)..last : i \in 1..Len(sent)
    BY <1>1, <1>4
  <2>2. \A i \in (taken + 1)..last : sent[i] \in Bytes \cup {0} /\ sent[i] = i
    BY <1>4, <2>1
  <2>3. /\ came \in Seq(Bytes \cup {0})
        /\ Len(came) = IF taken + 1 <= last THEN last - (taken + 1) + 1 ELSE 0
        /\ \A i \in 1..(last - (taken + 1) + 1) : came[i] = sent[taken + 1 + i - 1]
    <3>1. taken + 1 \in Int /\ last \in Int /\ \A i \in (taken + 1)..last : sent[i] \in Bytes \cup {0}
      BY <1>4, <2>2
    <3> HIDE DEF last
    <3>. QED BY <3>1, SubSeqProperties DEF came
  <2>4. last - (taken + 1) + 1 = n /\ taken + 1 <= last
    BY <1>4
  <2>5. \A i \in 1..n : taken + 1 + i - 1 = taken + i /\ taken + i \in (taken + 1)..last
    BY <1>4
  <2>. QED BY <2>2, <2>3, <2>4, <2>5
<1>7. old \in Seq(Bytes \cup {0}) /\ Len(old) = ReadSize - n
  <2>1. readbuf \in [1..ReadSize -> Bytes \cup {0}]
    BY <1>2 DEF StreamTypeOK
  <2>2. \A i \in (n + 1)..ReadSize : i \in 1..ReadSize
    BY <1>4
  <2>3. \A i \in (n + 1)..ReadSize : readbuf[i] \in Bytes \cup {0}
    BY <2>1, <2>2
  <2>4. /\ old \in Seq(Bytes \cup {0})
        /\ Len(old) = IF n + 1 <= ReadSize THEN ReadSize - (n + 1) + 1 ELSE 0
    BY <1>4, <2>3, SubSeqProperties
  <2>. QED BY <1>4, <2>4
<1> HIDE DEF came, old
<1>8. /\ readbuf' \in [1..ReadSize -> Bytes \cup {0}]
      /\ \A i \in 1..n : readbuf'[i] = taken + i
  <2>1. /\ readbuf' \in Seq(Bytes \cup {0})
        /\ Len(readbuf') = n + (ReadSize - n)
        /\ \A i \in 1..(Len(came) + Len(old)) :
             readbuf'[i] = IF i <= Len(came) THEN came[i] ELSE old[i - Len(came)]
    <3>1. /\ came \o old \in Seq(Bytes \cup {0})
          /\ Len(came \o old) = Len(came) + Len(old)
          /\ \A i \in 1..(Len(came) + Len(old)) :
               (came \o old)[i] = IF i <= Len(came) THEN came[i] ELSE old[i - Len(came)]
      BY <1>6, <1>7, ConcatProperties
    <3>. QED BY <1>1, <1>6, <1>7, <3>1, Zenon
  <2>2. Len(readbuf') = ReadSize /\ \A i \in 1..n : i \in 1..(n + (ReadSize - n)) /\ i <= n
    BY <1>4, <2>1
  <2>. QED BY <1>6, <1>7, <2>1, <2>2
<1>9. StreamTypeOK'
  <2>1. TypeOK' /\ taken' \in 0..Len(sent')
    BY <1>1, <1>3, <1>4 DEF SendInv
  <2>2. torn' \in {"no", "header", "body"}
    BY <1>1 DEF Worse
  <2>3. off' \in Nat /\ tran_byte' \in Nat /\ reader' \in {"read", "cut", "closed", "undefined"}
    BY <1>1, <1>4
  <2>. QED BY <1>1, <1>2, <1>8, <2>1, <2>2, <2>3 DEF StreamTypeOK
<1>10. Layout'
  BY <1>1, <1>2 DEF Layout, EndOf
<1>11. PICK i \in 1..Len(packets) :
         packets[i].first <= last /\ last <= EndOf(packets[i])
  BY <1>2, <1>5 DEF Layout
<1>12. /\ \A j \in 1..Len(packets) :
            (packets[j].first <= last /\ last <= EndOf(packets[j])) => j = i
       /\ Tear(last) = IF last = EndOf(packets[i]) THEN "no"
                       ELSE IF last < packets[i].first + Hdr THEN "header" ELSE "body"
  BY <1>2, <1>5, <1>11, TearFacts
<1>13. LastRead'
  <2>1. ASSUME torn' # "body", NEW j \in 1..Len(packets),
               packets[j].first + Hdr <= last, last < EndOf(packets[j])
        PROVE  FALSE
    <3>1. /\ packets[j].first \in Nat /\ EndOf(packets[j]) \in Nat /\ Hdr \in Nat
          /\ last \in Nat
      BY <1>2, <1>4, PacketFacts, HeaderAssumption
    <3>2. packets[j].first <= last /\ last <= EndOf(packets[j])
      BY <2>1, <3>1
    <3>3. j = i
      BY <1>12, <3>2
    <3>4. last # EndOf(packets[i]) /\ ~ (last < packets[i].first + Hdr)
      BY <2>1, <3>1, <3>3
    <3>5. Tear(last) = "body"
      BY <1>12, <3>4
    <3>. QED BY <1>1, <1>5, <2>1, <3>5 DEF Worse
  <2>2. ASSUME torn' = "no", NEW j \in 1..Len(packets),
               packets[j].first <= last, last < EndOf(packets[j])
        PROVE  FALSE
    <3>1. EndOf(packets[j]) \in Nat /\ last \in Nat
      BY <1>2, <1>4, PacketFacts
    <3>2. j = i
      BY <1>12, <2>2, <3>1
    <3>3. last # EndOf(packets[i])
      BY <2>2, <3>1, <3>2
    <3>4. Tear(last) \in {"header", "body"}
      BY <1>12, <3>3
    <3>. QED BY <1>1, <1>5, <2>2, <3>4 DEF Worse
  <2>. QED BY <1>1, <2>1, <2>2 DEF LastRead, EndOf
<1>14. (torn' # "body" => torn # "body") /\ (torn' = "no" => torn = "no")
  BY <1>1, <1>2 DEF Worse, StreamTypeOK
<1>15. NextFirst' = NextFirst
  BY <1>1 DEF NextFirst, EndOf
<1>16. ASSUME InSync PROVE InSync'
  <2>1. taken = NextFirst - 1 + Len(msgbuffer)
    BY <1>1, <1>16 DEF InSync
  <2>2. taken' = taken + n /\ tran_byte' = n /\ off' = 0
    BY <1>1
  <2>3. NextFirst \in Nat /\ Len(msgbuffer) \in Nat
    <3>1. Len(delivered) \in Nat /\ Len(msgbuffer) \in Nat
      BY <1>2 DEF StreamTypeOK
    <3>2. Len(delivered) # 0 => Len(delivered) \in 1..Len(packets)
      BY <1>2, <1>16, <3>1 DEF InSync, StreamTypeOK
    <3>. QED BY <1>2, <3>1, <3>2, PacketFacts DEF NextFirst
  <2>4. taken' = NextFirst' - 1 + Len(msgbuffer') + tran_byte'
    BY <1>1, <1>4, <1>15, <2>1, <2>2, <2>3
  <2>5. off' + tran_byte' <= ReadSize
    BY <1>4, <2>2
  <2>6. \A j \in 1..tran_byte' : readbuf'[off' + j] = taken' - tran_byte' + j
    BY <1>4, <1>8, <2>2
  <2>. QED BY <1>1, <1>15, <1>16, <2>4, <2>5, <2>6 DEF InSync
<1>17. Whole => Whole'
  BY <1>1 DEF Whole, Body
<1>. QED BY <1>1, <1>3, <1>9, <1>10, <1>13, <1>14, <1>16, <1>17 DEF ChannelInv

(* The end of the connection is read only when it was closed; an error may  *)
(* end the reading at any time.                                             *)
LEMMA ReadEndsKeeps ==
  ASSUME ChannelInv, ReadEnds \/ ReadFails
  PROVE  ChannelInv'
<1>1. /\ reader = "read" /\ reader' = "closed" /\ rfailed' \in BOOLEAN
      /\ flag = "CLOSE" \/ rfailed' = TRUE
      /\ UNCHANGED << flag, writing, msgbuffer1, msgbuffer2, accepted, sent,
                      failed, closes, packets, taken, rstop, readbuf, msgbuffer,
                      off, tran_byte, delivered, torn >>
  BY DEF ReadEnds, ReadFails, baseVars, ChannelInv, StreamTypeOK
<1>2. SendInv /\ StreamTypeOK /\ Layout /\ LastRead
  BY DEF ChannelInv
<1>3. SendInv'
  BY <1>1, <1>2, SendInvStep DEF baseVars
<1>4. StreamTypeOK'
  BY <1>1, <1>2, <1>3 DEF StreamTypeOK, SendInv
<1>5. Layout' /\ LastRead' /\ NextFirst' = NextFirst
  BY <1>1, <1>2 DEF Layout, LastRead, EndOf, NextFirst
<1>6. InSync => InSync'
  BY <1>1, <1>5 DEF InSync
<1>7. Whole => Whole'
  BY <1>1 DEF Whole, Body
<1>. QED BY <1>1, <1>3, <1>4, <1>5, <1>6, <1>7 DEF ChannelInv

(* What a round of _CutMsgPack may leave behind, in sync or not: at most    *)
(* one delivery more.                                                       *)
CutOutcome ==
  /\ msgbuffer' \in Seq(Bytes \cup {0})
  /\ off' \in Nat /\ tran_byte' \in Nat
  /\ reader' \in {"read", "cut", "closed", "undefined"}
  /\ \/ delivered' = delivered
     \/ \E x \in Seq(Bytes \cup {0}) : delivered' = Append(delivered, x)

(* Each way a round may end is such an outcome.                             *)
LEMMA CutEnds ==
  ASSUME StreamTypeOK
  PROVE  /\ \A m \in Seq(Bytes \cup {0}) : Keep(m) \/ Misframed(m) => CutOutcome
         /\ \A x \in Seq(Bytes \cup {0}) : \A o, t \in Nat :
              Deliver(x, o, t) => CutOutcome
         /\ Stop("closed") \/ Stop("undefined") => CutOutcome
<1>1. << >> \in Seq(Bytes \cup {0})
  OBVIOUS
<1>2. /\ msgbuffer \in Seq(Bytes \cup {0}) /\ off \in Nat /\ tran_byte \in Nat
      /\ reader \in {"read", "cut", "closed", "undefined"}
  BY DEF StreamTypeOK
<1>3. ASSUME NEW m \in Seq(Bytes \cup {0}), Keep(m) \/ Misframed(m) PROVE CutOutcome
  BY <1>2, <1>3 DEF Keep, Misframed, Stop, CutOutcome
<1>4. ASSUME NEW x \in Seq(Bytes \cup {0}), NEW o \in Nat, NEW t \in Nat, Deliver(x, o, t)
      PROVE  CutOutcome
  BY <1>1, <1>2, <1>4, Zenon DEF Deliver, CutOutcome
<1>5. ASSUME Stop("closed") \/ Stop("undefined") PROVE CutOutcome
  BY <1>2, <1>5 DEF Stop, CutOutcome
<1>. QED BY <1>3, <1>4, <1>5

(* A header that is found has the length of a packet.                       *)
LEMMA HeadsType ==
  ASSUME StreamTypeOK, NEW bytes, NEW p \in Heads(bytes)
  PROVE  p.len \in Nat
<1>1. PICK j \in 1..Len(packets) : p = packets[j]
  BY DEF Heads, Range, StreamTypeOK
<1>. QED BY <1>1, PacketFacts

(* An outcome of a round has the types of the receiver's state.             *)
LEMMA StreamTypeStep ==
  ASSUME StreamTypeOK, CutOutcome,
         UNCHANGED << flag, writing, msgbuffer1, msgbuffer2, accepted, sent,
                      failed, closes, packets, taken, rstop, rfailed, readbuf, torn >>
  PROVE  StreamTypeOK'
<1>1. delivered' \in Seq(Seq(Bytes \cup {0}))
  <2>1. delivered \in Seq(Seq(Bytes \cup {0}))
    BY DEF StreamTypeOK
  <2>2. \A x \in Seq(Bytes \cup {0}) : Append(delivered, x) \in Seq(Seq(Bytes \cup {0}))
    BY <2>1, AppendProperties
  <2>. QED BY <2>1, <2>2 DEF CutOutcome
<1>2. TypeOK'
  BY DEF StreamTypeOK, TypeOK
<1>. QED BY <1>1, <1>2 DEF StreamTypeOK, CutOutcome

(* A round of _CutMsgPack keeps the types and touches nothing but what it   *)
(* cuts.                                                                    *)
LEMMA CutType ==
  ASSUME StreamTypeOK, CutMsgPack
  PROVE  /\ CutOutcome
         /\ StreamTypeOK'
         /\ reader = "cut"
         /\ UNCHANGED << flag, writing, msgbuffer1, msgbuffer2, accepted, sent,
                         failed, closes, packets, taken, rstop, rfailed, readbuf, torn >>
<1>1. /\ reader = "cut"
      /\ UNCHANGED << flag, writing, msgbuffer1, msgbuffer2, accepted, sent,
                      failed, closes, packets, taken, rstop, rfailed, readbuf, torn >>
  BY DEF CutMsgPack, baseVars
<1>2. /\ msgbuffer \in Seq(Bytes \cup {0}) /\ off \in Nat /\ tran_byte \in Nat
      /\ Hdr \in Nat /\ Len(msgbuffer) \in Nat
  BY HeaderAssumption DEF StreamTypeOK
<1>3. ASSUME msgbuffer = << >> PROVE CutOutcome
  <2>1. CutFirst
    BY <1>3 DEF CutMsgPack
  <2>2. At(off, tran_byte) \in Seq(Bytes \cup {0})
    BY <1>2, AtFacts
  <2>3. CASE tran_byte < Hdr
    <3>1. Keep(At(off, tran_byte))
      BY <2>1, <2>3 DEF CutFirst
    <3>. QED BY <2>2, <3>1, CutEnds, Zenon
  <2>4. CASE ~ (tran_byte < Hdr)
    <3>1. CASE Heads(At(off, Hdr)) = {}
      <4>1. Misframed(At(off, tran_byte))
        BY <2>1, <2>4, <3>1 DEF CutFirst
      <4>. QED BY <2>2, <4>1, CutEnds, Zenon
    <3>2. CASE Heads(At(off, Hdr)) # {}
      <4>1. PICK p \in Heads(At(off, Hdr)) :
              IF tran_byte - Hdr < p.len
                THEN Keep(At(off, tran_byte))
                ELSE Deliver(At(off + Hdr, p.len), off + Hdr + p.len,
                             tran_byte - Hdr - p.len)
        BY <2>1, <2>4, <3>2 DEF CutFirst
      <4>2. p.len \in Nat
        BY HeadsType
      <4>3. CASE tran_byte - Hdr < p.len
        <5>1. Keep(At(off, tran_byte))
          BY <4>1, <4>3
        <5>. QED BY <2>2, <5>1, CutEnds, Zenon
      <4>4. CASE ~ (tran_byte - Hdr < p.len)
        <5>1. off + Hdr \in Nat /\ off + Hdr + p.len \in Nat
          BY <1>2, <4>2
        <5>2. tran_byte - Hdr - p.len \in Nat
          BY <1>2, <4>2, <4>4
        <5>3. At(off + Hdr, p.len) \in Seq(Bytes \cup {0})
          BY <4>2, <5>1, AtFacts
        <5>4. Deliver(At(off + Hdr, p.len), off + Hdr + p.len, tran_byte - Hdr - p.len)
          BY <4>1, <4>4
        <5>. QED BY <5>1, <5>2, <5>3, <5>4, CutEnds, Zenon
      <4>. QED BY <4>3, <4>4
    <3>. QED BY <3>1, <3>2
  <2>. QED BY <2>3, <2>4
<1>4. ASSUME msgbuffer # << >> PROVE CutOutcome
  <2> DEFINE have == Len(msgbuffer)
             need == IF have < Hdr THEN Hdr - have ELSE 0
             m == msgbuffer \o At(off, need)
             o == off + need
             t == tran_byte - need
             body == Len(m) - Hdr
             sum == t + body
  <2>1. IF have + tran_byte < Hdr THEN Keep(msgbuffer \o At(off, tran_byte))
        ELSE CutWith(m, o, t)
    BY <1>4 DEF CutMsgPack, CutRest
  <2>2. CASE have + tran_byte < Hdr
    <3>1. msgbuffer \o At(off, tran_byte) \in Seq(Bytes \cup {0})
      BY <1>2, AtFacts, ConcatProperties
    <3>2. Keep(msgbuffer \o At(off, tran_byte))
      BY <2>1, <2>2
    <3>. QED BY <3>1, <3>2, CutEnds, Zenon
  <2>3. CASE ~ (have + tran_byte < Hdr)
    <3>1. need \in Nat /\ o \in Nat /\ t \in Nat
      BY <1>2, <2>3
    <3>2. At(off, need) \in Seq(Bytes \cup {0}) /\ Len(At(off, need)) = need
      BY <1>2, <3>1, AtFacts
    <3>3. m \in Seq(Bytes \cup {0}) /\ Len(m) = have + need
      BY <1>2, <3>2, ConcatProperties
    <3>4. body \in Nat /\ sum \in Nat
      BY <1>2, <3>1, <3>3
    <3>5. CutWith(m, o, t)
      BY <2>1, <2>3
    <3> HIDE DEF need, m, o, t
    <3>6. \A k \in Nat : m \o At(o, k) \in Seq(Bytes \cup {0})
      BY <3>1, <3>3, AtFacts, ConcatProperties
    <3>7. CASE Heads(SubSeq(m, 1, Hdr)) = {}
      <4>1. Misframed(m \o At(o, sum))
        BY <3>5, <3>7 DEF CutWith
      <4>2. m \o At(o, sum) \in Seq(Bytes \cup {0})
        BY <3>4, <3>6
      <4>. QED BY <4>1, <4>2, CutEnds, Zenon
    <3>8. CASE Heads(SubSeq(m, 1, Hdr)) # {}
      <4>1. PICK p \in Heads(SubSeq(m, 1, Hdr)) :
              IF p.len > sum THEN Keep(m \o At(o, sum))
              ELSE IF p.len < body THEN Stop("undefined")
              ELSE LET rest == p.len - body
                       whole == m \o At(o, rest)
                   IN \/ Deliver(SubSeq(whole, 1, p.len), o + rest, sum - rest)
                      \/ Len(whole) > BufferSize /\ Stop("undefined")
        BY <3>5, <3>8 DEF CutWith
      <4>2. p.len \in Nat
        BY HeadsType
      <4>3. CASE p.len > sum
        <5>1. Keep(m \o At(o, sum))
          BY <4>1, <4>3
        <5>2. m \o At(o, sum) \in Seq(Bytes \cup {0})
          BY <3>4, <3>6
        <5>. QED BY <5>1, <5>2, CutEnds, Zenon
      <4>4. CASE ~ (p.len > sum) /\ p.len < body
        <5>1. Stop("undefined")
          BY <4>1, <4>4
        <5>. QED BY <5>1, CutEnds, Zenon
      <4>5. CASE ~ (p.len > sum) /\ ~ (p.len < body)
        <5> DEFINE rest == p.len - body
                   whole == m \o At(o, rest)
        <5>1. rest \in Nat /\ o + rest \in Nat /\ sum - rest \in Nat
          BY <3>1, <3>4, <4>2, <4>5
        <5>2. whole \in Seq(Bytes \cup {0}) /\ Len(whole) = Len(m) + rest
          <6>1. At(o, rest) \in Seq(Bytes \cup {0}) /\ Len(At(o, rest)) = rest
            BY <3>1, <5>1, AtFacts
          <6> HIDE DEF rest
          <6>. QED BY <3>3, <6>1, ConcatProperties
        <5>3. SubSeq(whole, 1, p.len) \in Seq(Bytes \cup {0})
          <6>1. Len(m) = body + Hdr /\ Len(whole) = p.len + Hdr
            BY <1>2, <3>3, <3>4, <4>2, <5>2
          <6> HIDE DEF whole
          <6>2. \A i \in 1..p.len : i \in 1..Len(whole)
            BY <1>2, <4>2, <6>1
          <6>3. \A i \in 1..p.len : whole[i] \in Bytes \cup {0}
            BY <5>2, <6>2
          <6>. QED BY <4>2, <6>3, SubSeqProperties
        <5>4. \/ Deliver(SubSeq(whole, 1, p.len), o + rest, sum - rest)
              \/ Stop("undefined")
          BY <4>1, <4>5
        <5> HIDE DEF rest, whole
        <5>. QED BY <5>1, <5>3, <5>4, CutEnds, Zenon
      <4>. QED BY <4>3, <4>4, <4>5
    <3>. QED BY <3>7, <3>8
  <2>. QED BY <2>2, <2>3
<1>. QED BY <1>1, <1>3, <1>4, StreamTypeStep

(* The packet that is to be delivered next was accepted, and has len bytes. *)
NextIs(len) ==
  /\ Len(delivered) + 1 \in 1..Len(packets)
  /\ packets[Len(delivered) + 1].first = NextFirst
  /\ packets[Len(delivered) + 1].len = len

(* A round is being made, and this is left as it is.                        *)
InRound ==
  /\ reader = "cut"
  /\ UNCHANGED << flag, packets, taken, rstop, rfailed, readbuf >>

(* The bytes a round looks at are those that follow in the stream.          *)
LEMMA AtInSync ==
  ASSUME StreamTypeOK, InSync, reader = "cut",
         NEW o \in Nat, NEW n \in Nat, o + n <= tran_byte
  PROVE  /\ At(off + o, n) \in Seq(Bytes \cup {0})
         /\ Len(At(off + o, n)) = n
         /\ \A i \in 1..n :
              At(off + o, n)[i] = NextFirst - 1 + Len(msgbuffer) + o + i
<1>1. /\ off \in Nat /\ tran_byte \in Nat /\ taken \in Nat /\ Len(msgbuffer) \in Nat
      /\ ReadSize \in Nat /\ off + o \in Nat
  <2>1. taken \in Nat
    BY DEF StreamTypeOK, TypeOK
  <2>. QED BY <2>1, ReadAssumption DEF StreamTypeOK
<1>2. /\ taken = NextFirst - 1 + Len(msgbuffer) + tran_byte
      /\ off + tran_byte <= ReadSize
      /\ \A i \in 1..tran_byte : readbuf[off + i] = taken - tran_byte + i
  BY DEF InSync
<1>3. NextFirst \in Nat
  <2>1. Len(delivered) \in Nat /\ Len(packets) \in Nat /\ Len(delivered) <= Len(packets)
    BY DEF StreamTypeOK, InSync
  <2>2. Len(delivered) # 0 => Len(delivered) \in 1..Len(packets)
    BY <2>1
  <2>. QED BY <2>2, PacketFacts DEF NextFirst
<1>4. /\ At(off + o, n) \in Seq(Bytes \cup {0}) /\ Len(At(off + o, n)) = n
      /\ \A i \in 1..n : off + o + i <= ReadSize =>
           At(off + o, n)[i] = readbuf[off + o + i]
  BY <1>1, AtFacts
<1>5. ASSUME NEW i \in 1..n
      PROVE  At(off + o, n)[i] = NextFirst - 1 + Len(msgbuffer) + o + i
  <2>1. o + i \in 1..tran_byte /\ off + o + i <= ReadSize /\ off + o + i = off + (o + i)
    BY <1>1, <1>2
  <2>2. At(off + o, n)[i] = taken - tran_byte + (o + i)
    BY <1>2, <1>4, <2>1
  <2>. QED BY <1>1, <1>2, <1>3, <2>2
<1>. QED BY <1>4, <1>5

(* Keeping the bytes of a torn header keeps the receiver's place.           *)
LEMMA KeepInSync ==
  ASSUME StreamTypeOK, InSync, InRound,
         NEW m \in Seq(Bytes \cup {0}), Keep(m),
         Len(m) = Len(msgbuffer) + tran_byte, Len(m) <= Hdr,
         \A i \in 1..Len(m) : m[i] = NextFirst + i - 1
  PROVE  InSync'
<1>1. /\ msgbuffer' = m /\ reader' = "read"
      /\ UNCHANGED << off, tran_byte, delivered >>
  BY DEF Keep
<1> USE DEF InRound
<1>2. NextFirst' = NextFirst
  BY <1>1 DEF NextFirst, EndOf
<1>3. taken' = NextFirst' - 1 + Len(msgbuffer')
  <2>1. taken = NextFirst - 1 + Len(msgbuffer) + tran_byte /\ taken \in Nat
    BY DEF InSync, StreamTypeOK, TypeOK
  <2>2. Len(msgbuffer) \in Nat /\ tran_byte \in Nat
    BY DEF StreamTypeOK
  <2>3. NextFirst \in Nat
    <3>1. Len(delivered) \in Nat /\ Len(packets) \in Nat /\ Len(delivered) <= Len(packets)
      BY DEF StreamTypeOK, InSync
    <3>2. Len(delivered) # 0 => Len(delivered) \in 1..Len(packets)
      BY <3>1
    <3>. QED BY <3>2, PacketFacts DEF NextFirst
  <2>. QED BY <1>1, <1>2, <2>1, <2>2, <2>3
<1>. QED BY <1>1, <1>2, <1>3 DEF InSync

(* Delivering as many bytes as the next packet has, and going on behind it, *)
(* keeps the receiver's place.                                              *)
LEMMA DeliverInSync ==
  ASSUME StreamTypeOK, InSync, InRound, NEW len \in Nat, NextIs(len),
         NEW x \in Seq(Bytes \cup {0}), Len(x) = len,
         NEW o \in Nat, NEW t \in Nat, Deliver(x, o, t),
         o = off + (Hdr - Len(msgbuffer)) + len,
         t = tran_byte - (Hdr - Len(msgbuffer)) - len
  PROVE  InSync'
<1> DEFINE d == Len(delivered)
<1>1. /\ delivered' = Append(delivered, x) /\ msgbuffer' = << >>
      /\ off' = o /\ tran_byte' = t /\ reader' = "cut"
  BY DEF Deliver, InRound
<1>2. /\ off \in Nat /\ tran_byte \in Nat /\ Len(msgbuffer) \in Nat /\ taken \in Nat
      /\ ReadSize \in Nat /\ Hdr \in Nat
  BY ReadAssumption, HeaderAssumption DEF StreamTypeOK, TypeOK
<1>3. /\ taken = NextFirst - 1 + Len(msgbuffer) + tran_byte
      /\ off + tran_byte <= ReadSize /\ Len(msgbuffer) <= Hdr
  BY DEF InSync, InRound
<1>4. NextFirst \in Nat
  BY PacketFacts DEF NextIs
<1>5. taken = (NextFirst + Hdr + len) - 1 + 0 + t
  BY <1>2, <1>3, <1>4
<1>6. o + t <= ReadSize
  BY <1>2, <1>3
<1>7. ASSUME NEW i \in 1..t PROVE readbuf[o + i] = taken - t + i
  <2> DEFINE j == (Hdr - Len(msgbuffer)) + len + i
  <2>1. j \in 1..tran_byte /\ off + j = o + i /\ taken - tran_byte + j = taken - t + i
    BY <1>2, <1>3
  <2>2. readbuf[off + j] = taken - tran_byte + j
    BY <2>1 DEF InSync, InRound
  <2>. QED BY <2>1, <2>2
<1>8. /\ delivered \in Seq(Seq(Bytes \cup {0})) /\ d \in Nat /\ Len(packets) \in Nat
  BY DEF StreamTypeOK
<1>9. /\ Len(delivered') = d + 1 /\ delivered'[d + 1] = x
      /\ \A k \in 1..d : delivered'[k] = delivered[k]
  BY <1>1, <1>8, AppendProperties
<1>10. NextFirst' = NextFirst + Hdr + len
  <2>1. NextFirst' = EndOf(packets[d + 1]) + 1
    BY <1>8, <1>9 DEF NextFirst, EndOf, InRound
  <2>2. EndOf(packets[d + 1]) = NextFirst + Hdr + len - 1
    BY DEF EndOf, NextIs
  <2>. QED BY <1>2, <1>4, <2>1, <2>2
<1>11. \A k \in 1..(d + 1) : Len(delivered'[k]) = packets[k].len
  <2>1. \A k \in 1..d : Len(delivered[k]) = packets[k].len
    BY DEF InSync
  <2>2. \A k \in 1..(d + 1) : k \in 1..d \/ k = d + 1
    BY <1>8
  <2>. QED BY <1>9, <2>1, <2>2 DEF NextIs
<1>12. Len(msgbuffer') = 0
  BY <1>1
<1>13. taken' = NextFirst' - 1 + Len(msgbuffer') + tran_byte'
  BY <1>1, <1>5, <1>10, <1>12 DEF InRound
<1>14. off' + tran_byte' <= ReadSize
  BY <1>1, <1>6
<1>15. Len(delivered') <= Len(packets')
  BY <1>8, <1>9 DEF InRound, NextIs
<1>16. /\ \A i \in 1..Len(msgbuffer') : msgbuffer'[i] = NextFirst' + i - 1
       /\ Len(msgbuffer') <= Hdr
  BY <1>2, <1>12
<1>17. \A i \in 1..tran_byte' : readbuf'[off' + i] = taken' - tran_byte' + i
  BY <1>1, <1>7 DEF InRound
<1>18. \A k \in 1..Len(delivered') : Len(delivered'[k]) = packets'[k].len
  BY <1>9, <1>11 DEF InRound
<1>. QED
  BY <1>1, <1>13, <1>14, <1>15, <1>16, <1>17, <1>18 DEF InSync

(* A receiver that has read a byte of the next packet knows that packet by  *)
(* its header, and has not stopped reading inside its body.                 *)
NextFound(len) ==
  /\ NextIs(len)
  /\ Heads([i \in 1..Hdr |-> NextFirst + i - 1]) = {packets[Len(delivered) + 1]}
  /\ taken < NextFirst + Hdr \/ taken >= NextFirst + Hdr + len - 1
  /\ torn = "no" => taken >= NextFirst + Hdr + len - 1

(* Such a packet was accepted.                                              *)
LEMMA FindNext ==
  ASSUME ChannelInv, InSync, torn # "body", NextFirst <= taken
  PROVE  \E len \in Nat : NextFound(len)
<1> DEFINE p == packets[Len(delivered) + 1]
<1>1. SendInv /\ StreamTypeOK /\ Layout /\ LastRead
  BY DEF ChannelInv
<1>2. /\ Len(delivered) <= Len(packets) /\ Len(delivered) \in Nat
      /\ Len(packets) \in Nat /\ taken \in Nat /\ accepted \in Nat /\ Hdr \in Nat
  BY <1>1, SizeAssumption, HeaderAssumption DEF InSync, StreamTypeOK, TypeOK
<1>3. NextFirst \in Nat
  <2>1. Len(delivered) # 0 => Len(delivered) \in 1..Len(packets)
    BY <1>2
  <2>. QED BY <1>1, <2>1, PacketFacts DEF NextFirst
<1>4. taken <= accepted
  BY <1>1, <1>2, SentNumbered DEF StreamTypeOK
<1>5. NextFirst <= accepted
  BY <1>2, <1>3, <1>4
<1>6. /\ Len(delivered) + 1 \in 1..Len(packets)
      /\ p.first = NextFirst
      /\ Heads([i \in 1..Hdr |-> NextFirst + i - 1]) = {p}
  BY <1>1, <1>2, <1>5, NextPacket
<1>7. PICK len \in Nat : len = p.len
  BY <1>1, <1>6, PacketFacts
<1>8. EndOf(p) = NextFirst + Hdr + len - 1
  BY <1>6, <1>7 DEF EndOf
<1>9. /\ ~ (p.first + Hdr <= taken /\ taken < EndOf(p))
      /\ torn = "no" => ~ (p.first <= taken /\ taken < EndOf(p))
  BY <1>1, <1>6 DEF LastRead
<1>10. /\ ~ (NextFirst + Hdr <= taken /\ taken < NextFirst + Hdr + len - 1)
       /\ torn = "no" => ~ (NextFirst <= taken /\ taken < NextFirst + Hdr + len - 1)
  BY <1>6, <1>8, <1>9
<1>11. /\ taken < NextFirst + Hdr \/ taken >= NextFirst + Hdr + len - 1
       /\ torn = "no" => taken >= NextFirst + Hdr + len - 1
  BY <1>2, <1>3, <1>10
<1>. QED BY <1>6, <1>7, <1>11 DEF NextFound, NextIs

(* What a round makes of a stream whose bodies were never torn: the         *)
(* receiver's place is kept, and if no header was torn either, a delivery   *)
(* is the next packet.                                                      *)
RoundInSync ==
  /\ reader' # "undefined" => InSync'
  /\ torn = "no" =>
       /\ reader' # "undefined"
       /\ msgbuffer' = << >>
       /\ \/ delivered' = delivered
          \/ /\ Len(delivered) + 1 \in 1..Len(packets)
             /\ delivered' = Append(delivered, Body(packets[Len(delivered) + 1]))

(* A round with an empty msgbuffer.                                         *)
LEMMA CutFirstInSync ==
  ASSUME ChannelInv, InSync, InRound, torn # "body", msgbuffer = << >>, CutFirst
  PROVE  RoundInSync
<1>1. SendInv /\ StreamTypeOK /\ Len(msgbuffer) = 0
  BY DEF ChannelInv
<1>2. /\ off \in Nat /\ tran_byte \in Nat /\ taken \in Nat /\ Hdr \in Nat \ {0}
  BY <1>1, HeaderAssumption DEF StreamTypeOK, TypeOK
<1>3. NextFirst \in Nat
  <2>1. Len(delivered) \in Nat /\ Len(packets) \in Nat /\ Len(delivered) <= Len(packets)
    BY <1>1 DEF StreamTypeOK, InSync
  <2>2. Len(delivered) # 0 => Len(delivered) \in 1..Len(packets)
    BY <2>1
  <2>. QED BY <1>1, <2>2, PacketFacts DEF NextFirst
<1>4. taken = NextFirst - 1 + tran_byte
  <2>1. taken = NextFirst - 1 + Len(msgbuffer) + tran_byte
    BY DEF InSync, InRound
  <2>. QED BY <1>1, <1>2, <1>3, <2>1
<1>5. ASSUME NEW o \in Nat, NEW n \in Nat, o + n <= tran_byte
      PROVE  /\ At(off + o, n) \in Seq(Bytes \cup {0}) /\ Len(At(off + o, n)) = n
             /\ \A i \in 1..n : At(off + o, n)[i] = NextFirst + o + i - 1
  <2>1. /\ At(off + o, n) \in Seq(Bytes \cup {0}) /\ Len(At(off + o, n)) = n
        /\ \A i \in 1..n :
             At(off + o, n)[i] = NextFirst - 1 + Len(msgbuffer) + o + i
    BY <1>1, <1>5, AtInSync DEF InRound
  <2>2. \A i \in 1..n : NextFirst - 1 + Len(msgbuffer) + o + i = NextFirst + o + i - 1
    BY <1>1, <1>3
  <2>. QED BY <2>1, <2>2
<1>6. off + 0 = off
  BY <1>2
<1>7. /\ At(off, tran_byte) \in Seq(Bytes \cup {0})
      /\ Len(At(off, tran_byte)) = tran_byte
      /\ \A i \in 1..tran_byte : At(off, tran_byte)[i] = NextFirst + i - 1
  <2>1. 0 \in Nat /\ 0 + tran_byte <= tran_byte /\ NextFirst + 0 = NextFirst
    BY <1>2, <1>3
  <2>. QED BY <1>2, <1>5, <1>6, <2>1
<1>8. ASSUME Keep(At(off, tran_byte)), tran_byte <= Hdr,
             torn = "no" => tran_byte = 0
      PROVE  RoundInSync
  <2>1. InSync'
    <3>1. Len(At(off, tran_byte)) = Len(msgbuffer) + tran_byte
      BY <1>1, <1>2, <1>7
    <3>. QED BY <1>1, <1>7, <1>8, <3>1, KeepInSync
  <2>2. torn = "no" => msgbuffer' = << >>
    <3>1. msgbuffer' = At(off, tran_byte)
      BY <1>8 DEF Keep
    <3>. QED BY <1>7, <1>8, <3>1, EmptySeq
  <2>. QED BY <1>8, <2>1, <2>2 DEF RoundInSync, Keep
<1>9. CASE tran_byte < Hdr
  <2>1. Keep(At(off, tran_byte))
    BY <1>9 DEF CutFirst
  <2>2. ASSUME torn = "no", tran_byte # 0 PROVE FALSE
    <3>1. NextFirst <= taken
      BY <1>2, <1>3, <1>4, <2>2
    <3>2. PICK len \in Nat : NextFound(len)
      BY <3>1, FindNext
    <3>3. taken >= NextFirst + Hdr + len - 1
      BY <2>2, <3>2 DEF NextFound
    <3>. QED BY <1>2, <1>3, <1>4, <1>9, <3>3
  <2>. QED BY <1>2, <1>8, <1>9, <2>1, <2>2
<1>10. CASE ~ (tran_byte < Hdr)
  <2>1. NextFirst <= taken
    BY <1>2, <1>3, <1>4, <1>10
  <2>2. PICK len \in Nat : NextFound(len)
    BY <2>1, FindNext
  <2> DEFINE p == packets[Len(delivered) + 1]
  <2>3. Heads(At(off, Hdr)) = {p}
    <3>1. 0 \in Nat /\ 0 + Hdr <= tran_byte /\ NextFirst + 0 = NextFirst
      BY <1>2, <1>3, <1>10
    <3>2. /\ At(off, Hdr) \in Seq(Bytes \cup {0}) /\ Len(At(off, Hdr)) = Hdr
          /\ \A i \in 1..Hdr : At(off, Hdr)[i] = NextFirst + i - 1
      BY <1>2, <1>5, <1>6, <3>1
    <3>3. At(off, Hdr) = [i \in 1..Hdr |-> NextFirst + i - 1]
      BY <3>2
    <3>. QED BY <2>2, <3>3 DEF NextFound
  <2>4. IF tran_byte - Hdr < p.len
          THEN Keep(At(off, tran_byte))
          ELSE Deliver(At(off + Hdr, p.len), off + Hdr + p.len,
                       tran_byte - Hdr - p.len)
    BY <1>10, <2>3 DEF CutFirst
  <2>5. p.len = len /\ p.first = NextFirst /\ Len(delivered) + 1 \in 1..Len(packets)
    BY <2>2 DEF NextFound, NextIs
  <2>6. /\ taken < NextFirst + Hdr \/ taken >= NextFirst + Hdr + len - 1
        /\ torn = "no" => taken >= NextFirst + Hdr + len - 1
    BY <2>2 DEF NextFound
  <2>7. CASE tran_byte - Hdr < len
    <3>1. Keep(At(off, tran_byte))
      BY <2>4, <2>5, <2>7
    <3>2. tran_byte <= Hdr /\ torn # "no"
      BY <1>2, <1>3, <1>4, <2>6, <2>7
    <3>. QED BY <1>8, <3>1, <3>2
  <2>8. CASE ~ (tran_byte - Hdr < len)
    <3> DEFINE x == At(off + Hdr, len)
               o == off + Hdr + len
               t == tran_byte - Hdr - len
    <3>1. Deliver(x, o, t)
      BY <2>4, <2>5, <2>8
    <3>2. /\ o \in Nat /\ t \in Nat /\ Hdr + len <= tran_byte
          /\ o = off + (Hdr - Len(msgbuffer)) + len
          /\ t = tran_byte - (Hdr - Len(msgbuffer)) - len
      BY <1>1, <1>2, <2>8
    <3>3. /\ x \in Seq(Bytes \cup {0}) /\ Len(x) = len
          /\ \A i \in 1..len : x[i] = NextFirst + Hdr + i - 1
      BY <1>2, <1>5, <3>2
    <3>4. x = Body(p)
      <4>1. Body(p) = [i \in 1..len |-> NextFirst + Hdr + i - 1]
        BY <2>5 DEF Body
      <4>2. x = [i \in 1..len |-> x[i]]
        BY <3>3
      <4> HIDE DEF x
      <4>. QED BY <3>3, <4>1, <4>2
    <3> HIDE DEF x, o, t
    <3>5. InSync'
      BY <1>1, <2>2, <3>1, <3>2, <3>3, DeliverInSync DEF NextFound
    <3>6. /\ delivered' = Append(delivered, x) /\ msgbuffer' = << >>
          /\ reader' = "cut"
      BY <3>1 DEF Deliver, InRound
    <3>. QED BY <2>5, <3>4, <3>5, <3>6 DEF RoundInSync
  <2>. QED BY <2>7, <2>8
<1>. QED BY <1>9, <1>10

(* A round with the start of a header, or all of it, in msgbuffer.          *)
LEMMA CutRestInSync ==
  ASSUME ChannelInv, InSync, InRound, torn \notin {"no", "body"}, CutRest
  PROVE  RoundInSync
<1> DEFINE have == Len(msgbuffer)
           need == Hdr - have
           m == msgbuffer \o At(off, need)
           t == tran_byte - need
<1>1. SendInv /\ StreamTypeOK
  BY DEF ChannelInv
<1>2. /\ off \in Nat /\ tran_byte \in Nat /\ taken \in Nat /\ Hdr \in Nat \ {0}
      /\ msgbuffer \in Seq(Bytes \cup {0}) /\ have \in Nat
  BY <1>1, HeaderAssumption DEF StreamTypeOK, TypeOK
<1>3. NextFirst \in Nat
  <2>1. Len(delivered) \in Nat /\ Len(packets) \in Nat /\ Len(delivered) <= Len(packets)
    BY <1>1 DEF StreamTypeOK, InSync
  <2>2. Len(delivered) # 0 => Len(delivered) \in 1..Len(packets)
    BY <2>1
  <2>. QED BY <1>1, <2>2, PacketFacts DEF NextFirst
<1>4. /\ taken = NextFirst - 1 + have + tran_byte /\ have <= Hdr
      /\ \A i \in 1..have : msgbuffer[i] = NextFirst + i - 1
  BY DEF InSync, InRound
<1>5. need \in Nat /\ (IF have < Hdr THEN Hdr - have ELSE 0) = need
  BY <1>2, <1>4
(* The bytes of msgbuffer and n more are the stream from the next packet on. *)
<1>6. ASSUME NEW n \in Nat, n <= tran_byte
      PROVE  /\ msgbuffer \o At(off, n) \in Seq(Bytes \cup {0})
             /\ Len(msgbuffer \o At(off, n)) = have + n
             /\ \A i \in 1..(have + n) : (msgbuffer \o At(off, n))[i] = NextFirst + i - 1
  <2>1. off + 0 = off /\ 0 \in Nat /\ 0 + n <= tran_byte
    BY <1>2, <1>6
  <2>2. /\ At(off, n) \in Seq(Bytes \cup {0}) /\ Len(At(off, n)) = n
        /\ \A i \in 1..n : At(off, n)[i] = NextFirst - 1 + have + 0 + i
    BY <1>1, <2>1, AtInSync DEF InRound
  <2>3. /\ msgbuffer \o At(off, n) \in Seq(Bytes \cup {0})
        /\ Len(msgbuffer \o At(off, n)) = have + n
        /\ \A i \in 1..(have + n) : (msgbuffer \o At(off, n))[i]
             = IF i <= have THEN msgbuffer[i] ELSE At(off, n)[i - have]
    <3>1. PICK a \in Seq(Bytes \cup {0}) : a = At(off, n)
      BY <2>2
    <3>2. /\ msgbuffer \o a \in Seq(Bytes \cup {0})
          /\ Len(msgbuffer \o a) = have + Len(a)
          /\ \A i \in 1..(have + Len(a)) :
               (msgbuffer \o a)[i] = IF i <= have THEN msgbuffer[i] ELSE a[i - have]
      BY <1>2, ConcatProperties
    <3>. QED BY <2>2, <3>1, <3>2, Zenon
  <2>4. ASSUME NEW i \in 1..(have + n)
        PROVE  (msgbuffer \o At(off, n))[i] = NextFirst + i - 1
    <3>1. CASE i <= have
      BY <1>2, <1>4, <2>3, <3>1
    <3>2. CASE ~ (i <= have)
      <4>1. i - have \in 1..n
        BY <1>2, <3>2
      <4>2. (msgbuffer \o At(off, n))[i] = NextFirst - 1 + have + 0 + (i - have)
        BY <2>2, <2>3, <3>2, <4>1
      <4>. QED BY <1>2, <1>3, <4>2
    <3>. QED BY <3>1, <3>2
  <2>. QED BY <2>3, <2>4
<1>7. CASE have + tran_byte < Hdr
  <2>1. Keep(msgbuffer \o At(off, tran_byte))
    BY <1>7 DEF CutRest
  <2>2. PICK k : k = msgbuffer \o At(off, tran_byte)
    OBVIOUS
  <2>3. /\ k \in Seq(Bytes \cup {0}) /\ Len(k) = have + tran_byte
        /\ \A i \in 1..Len(k) : k[i] = NextFirst + i - 1
    BY <1>2, <1>6, <2>2
  <2>4. Keep(k) /\ Len(k) <= Hdr
    BY <1>2, <1>7, <2>1, <2>2, <2>3
  <2>5. InSync'
    BY <1>1, <2>3, <2>4, KeepInSync
  <2>. QED BY <2>5 DEF RoundInSync
<1>8. CASE ~ (have + tran_byte < Hdr)
  <2>1. CutWith(m, off + need, t)
    BY <1>5, <1>8 DEF CutRest
  <2>2. need <= tran_byte /\ t \in Nat /\ have + need = Hdr /\ off + need \in Nat
    BY <1>2, <1>5, <1>8
  <2>3. /\ m \in Seq(Bytes \cup {0}) /\ Len(m) = Hdr
        /\ \A i \in 1..Hdr : m[i] = NextFirst + i - 1
    BY <1>5, <1>6, <2>2
  <2>4. NextFirst <= taken
    BY <1>2, <1>3, <1>4, <1>8
  <2>5. PICK len \in Nat : NextFound(len)
    BY <2>4, FindNext
  <2> DEFINE p == packets[Len(delivered) + 1]
  <2> HIDE DEF m
  <2>6. SubSeq(m, 1, Hdr) = m
    BY <2>3, SubSeqFull
  <2>7. m = [i \in 1..Hdr |-> NextFirst + i - 1]
    BY <2>3
  <2>8. Heads(SubSeq(m, 1, Hdr)) = {p} /\ p.len = len
    BY <2>5, <2>6, <2>7 DEF NextFound, NextIs
  <2>9. t + (Len(m) - Hdr) = t /\ Len(m) - Hdr = 0
    BY <1>2, <2>2, <2>3
  <2>10. IF len > t THEN Keep(m \o At(off + need, t))
         ELSE IF len < 0 THEN Stop("undefined")
         ELSE LET whole == m \o At(off + need, len - 0)
              IN \/ Deliver(SubSeq(whole, 1, len), off + need + (len - 0), t - (len - 0))
                 \/ Len(whole) > BufferSize /\ Stop("undefined")
    BY <2>1, <2>8, <2>9 DEF CutWith
  <2>11. taken < NextFirst + Hdr \/ taken >= NextFirst + Hdr + len - 1
    BY <2>5 DEF NextFound
  <2>12. CASE len > t
    <3>1. t = 0
      BY <1>2, <1>3, <1>4, <2>2, <2>11, <2>12
    <3>2. PICK k : k = m \o At(off + need, 0)
      OBVIOUS
    <3>3. Keep(k)
      BY <2>10, <2>12, <3>1, <3>2
    <3>4. At(off + need, 0) \in Seq(Bytes \cup {0}) /\ Len(At(off + need, 0)) = 0
      BY <1>1, <2>2, AtFacts
    <3>5. k = m
      <4>1. At(off + need, 0) = << >>
        BY <3>4, EmptySeq
      <4>. QED BY <2>3, <3>2, <4>1, ConcatEmptySeq
    <3>6. Len(m) = have + tran_byte /\ Len(m) <= Hdr
      BY <1>2, <2>2, <2>3, <3>1
    <3>7. InSync'
      BY <1>1, <2>3, <3>3, <3>5, <3>6, KeepInSync
    <3>. QED BY <3>7 DEF RoundInSync
  <2>13. CASE ~ (len > t)
    <3> DEFINE whole == m \o At(off + need, len)
               x == SubSeq(whole, 1, len)
               o == off + need + len
    <3>1. \/ Deliver(x, o, t - len)
          \/ Stop("undefined")
      BY <2>10, <2>13, len - 0 = len, ~ (len < 0)
    <3>2. /\ o \in Nat /\ t - len \in Nat
          /\ o = off + (Hdr - Len(msgbuffer)) + len
          /\ t - len = tran_byte - (Hdr - Len(msgbuffer)) - len
      BY <1>2, <2>2, <2>13
    <3>3. At(off + need, len) \in Seq(Bytes \cup {0}) /\ Len(At(off + need, len)) = len
      BY <1>1, <2>2, AtFacts
    <3>4. whole \in Seq(Bytes \cup {0}) /\ Len(whole) = Hdr + len
      <4>1. PICK a \in Seq(Bytes \cup {0}) : a = At(off + need, len) /\ Len(a) = len
        BY <3>3
      <4>2. m \o a \in Seq(Bytes \cup {0}) /\ Len(m \o a) = Len(m) + Len(a)
        BY <2>3, ConcatProperties
      <4>. QED BY <2>3, <4>1, <4>2, Zenon
    <3> HIDE DEF whole
    <3>5. x \in Seq(Bytes \cup {0}) /\ Len(x) = len
      <4>1. \A i \in 1..len : i \in 1..Len(whole)
        BY <1>2, <3>4
      <4>2. \A i \in 1..len : whole[i] \in Bytes \cup {0}
        BY <3>4, <4>1
      <4>. QED BY <4>2, SubSeqProperties
    <3> HIDE DEF x, o
    <3>6. CASE Deliver(x, o, t - len)
      <4>1. PICK tt \in Nat : tt = t - len
        BY <3>2
      <4>2. tt = tran_byte - (Hdr - Len(msgbuffer)) - len /\ Deliver(x, o, tt)
        BY <3>2, <3>6, <4>1
      <4>3. NextIs(len)
        BY <2>5 DEF NextFound
      <4>4. InSync'
        BY <1>1, <3>2, <3>5, <4>2, <4>3, DeliverInSync
      <4>. QED BY <4>4 DEF RoundInSync
    <3>7. CASE Stop("undefined")
      BY <3>7 DEF Stop, RoundInSync
    <3>. QED BY <3>1, <3>6, <3>7
  <2>. QED BY <2>12, <2>13
<1>. QED BY <1>7, <1>8

(* A round of _CutMsgPack, as long as no body was torn.                     *)
LEMMA CutInSync ==
  ASSUME ChannelInv, CutMsgPack, torn # "body"
  PROVE  RoundInSync
<1>1. StreamTypeOK
  BY DEF ChannelInv
<1>2. InRound /\ InSync
  BY <1>1, CutType DEF InRound, ChannelInv
<1>3. CASE msgbuffer = << >>
  BY <1>2, <1>3, CutFirstInSync DEF CutMsgPack
<1>4. CASE msgbuffer # << >>
  <2>1. torn \notin {"no", "body"}
    BY <1>4 DEF ChannelInv, Whole
  <2>. QED BY <1>2, <1>4, <2>1, CutRestInSync DEF CutMsgPack
<1>. QED BY <1>3, <1>4

(* A round keeps the invariant.                                             *)
LEMMA CutKeeps ==
  ASSUME ChannelInv, CutMsgPack
  PROVE  ChannelInv'
<1>1. SendInv /\ StreamTypeOK /\ Layout /\ LastRead
  BY DEF ChannelInv
<1>2. /\ CutOutcome /\ StreamTypeOK' /\ reader = "cut"
      /\ UNCHANGED << flag, writing, msgbuffer1, msgbuffer2, accepted, sent,
                      failed, closes, packets, taken, rstop, rfailed, readbuf, torn >>
  BY <1>1, CutType
<1>3. SendInv'
  BY <1>1, <1>2, SendInvStep DEF baseVars
<1>4. Layout' /\ LastRead'
  BY <1>1, <1>2 DEF Layout, LastRead, EndOf
<1>5. (torn' # "body" /\ reader' # "undefined") => InSync'
  BY <1>2, CutInSync DEF RoundInSync
<1>6. ASSUME torn' = "no" PROVE Whole'
  <2>1. torn = "no" /\ RoundInSync /\ Whole
    BY <1>2, <1>6, CutInSync DEF ChannelInv
  <2>2. reader' # "undefined" /\ msgbuffer' = << >>
    BY <2>1 DEF RoundInSync
  <2>3. CASE delivered' = delivered
    BY <1>2, <2>1, <2>2, <2>3 DEF Whole, Body
  <2>4. CASE /\ Len(delivered) + 1 \in 1..Len(packets)
             /\ delivered' = Append(delivered, Body(packets[Len(delivered) + 1]))
    <3> DEFINE d == Len(delivered)
    <3>1. delivered \in Seq(Seq(Bytes \cup {0})) /\ d \in Nat
      BY <1>1 DEF StreamTypeOK
    <3>2. delivered' \in Seq(Seq(Bytes \cup {0}))
      BY <1>2 DEF StreamTypeOK
    <3>3. PICK x : x = Body(packets[d + 1])
      OBVIOUS
    <3>4. /\ Len(delivered') = d + 1 /\ delivered'[d + 1] = x
          /\ \A k \in 1..d : delivered'[k] = delivered[k]
      BY <2>4, <3>1, <3>3
    <3>5. \A k \in 1..(d + 1) : k \in 1..d \/ k = d + 1
      BY <3>1
    <3>6. \A k \in 1..(d + 1) : delivered'[k] = Body(packets[k])
      BY <2>1, <3>3, <3>4, <3>5 DEF Whole
    <3>. QED BY <1>2, <2>2, <3>4, <3>6 DEF Whole, Body
  <2>. QED BY <2>1, <2>3, <2>4, <1>6 DEF RoundInSync
<1>. QED BY <1>2, <1>3, <1>4, <1>5, <1>6 DEF ChannelInv

-----------------------------------------------------------------------------
(* A write operation, or a close, of the sender: what was taken by the      *)
(* system stays taken, and a closed socket stays closed.                    *)
LEMMA QuietSteps ==
  ASSUME SendInv, Close \/ WriteFailed \/ \E k \in Bytes : WriteHandler(k)
  PROVE  /\ accepted' = accepted /\ Len(sent) <= Len(sent')
         /\ flag = "CLOSE" => flag' = "CLOSE"
<1>1. sent \in Seq(Bytes) /\ Len(sent) \in Nat /\ msgbuffer1 \in Seq(Bytes)
  BY DEF SendInv, TypeOK
<1>2. CASE Close \/ WriteFailed
  BY <1>1, <1>2 DEF Close, WriteFailed, DoClose
<1>3. ASSUME NEW k \in Bytes, WriteHandler(k)
      PROVE  /\ accepted' = accepted /\ Len(sent) <= Len(sent')
             /\ flag = "CLOSE" => flag' = "CLOSE"
  <2>1. /\ accepted' = accepted /\ sent' = sent \o SubSeq(msgbuffer1, 1, k)
        /\ k \in 0..Len(msgbuffer1) /\ flag # "CLOSE"
    BY <1>3, SizeAssumption DEF WriteHandler, SendInv, ClosedNotWriting, Bytes
  <2>2. PICK w \in Seq(Bytes) : w = SubSeq(msgbuffer1, 1, k)
    BY <1>1, <2>1, WrittenMoves
  <2>3. Len(sent \o w) = Len(sent) + Len(w) /\ Len(w) \in Nat
    BY <1>1, ConcatProperties
  <2>. QED BY <1>1, <2>1, <2>2, <2>3
<1>. QED BY <1>2, <1>3

(* Every step of the connection keeps its invariant.                        *)
LEMMA ChannelStep == ChannelInv /\ [StreamNext]_streamSocketVars => ChannelInv'
<1> SUFFICES ASSUME ChannelInv, [StreamNext]_streamSocketVars PROVE ChannelInv'
  OBVIOUS
<1>1. SendInv /\ SendInv' /\ rstop \in BOOLEAN
  BY SendSteps, SendInvStep DEF ChannelInv, StreamTypeOK
<1>2. ASSUME NEW len \in Lens, SendPacket(len) PROVE ChannelInv'
  BY <1>2, SendPacketKeeps
<1>3. CASE CloseSender \/ Write
  <2>1. /\ Close \/ WriteFailed \/ \E k \in Bytes : WriteHandler(k)
        /\ UNCHANGED << cutVars, packets, taken, readbuf, delivered, torn >>
        /\ UNCHANGED << rstop, rfailed >>
    BY <1>3 DEF CloseSender, Write
  <2>2. /\ accepted' = accepted /\ Len(sent) <= Len(sent')
        /\ flag = "CLOSE" => flag' = "CLOSE"
    BY <1>1, <2>1, QuietSteps
  <2>. QED BY <1>1, <2>1, <2>2, QuietSenderKeeps
<1>4. CASE CloseReader \/ UNCHANGED streamSocketVars
  <2>1. /\ UNCHANGED << cutVars, packets, taken, readbuf, delivered, torn >>
        /\ UNCHANGED << flag, accepted, sent, rfailed >>
        /\ rstop' = rstop \/ rstop' = TRUE
    BY <1>4 DEF CloseReader, streamSocketVars, baseVars
  <2>2. Len(sent) <= Len(sent')
    BY <1>1, <2>1 DEF SendInv, TypeOK
  <2>. QED BY <1>1, <2>1, <2>2, QuietSenderKeeps
<1>5. CASE Receiver \/ ReadFails
  BY <1>5, ReadHandlerKeeps, ReadEndsKeeps, CutKeeps DEF Receiver
<1>. QED BY <1>2, <1>3, <1>4, <1>5 DEF StreamNext

(* The invariant of the connection.                                         *)
LEMMA ChannelInvariant == StreamSpec => []ChannelInv
BY ChannelInit, ChannelStep, PTL DEF StreamSpec

(* The types of a connection's two ends.                                    *)
THEOREM ChannelTypes == StreamSpec => []StreamTypeOK
<1>1. ChannelInv => StreamTypeOK
  BY DEF ChannelInv
<1>. QED BY <1>1, ChannelInvariant, PTL

(* A read that ends inside a header never costs the receiver its place in   *)
(* the stream, whatever the lengths of packets, reads and buffers, and it   *)
(* never takes the connection for a malformed one.  (A read that ends       *)
(* inside a body does, and so may a buffer that moves.)                     *)
THEOREM HeadersMayTear == StreamSpec => []FramesInSync
<1>1. ChannelInv => FramesInSync
  BY DEF ChannelInv, InSync, FramesInSync
<1>. QED BY <1>1, ChannelInvariant, PTL

-----------------------------------------------------------------------------
(* A step of the connection is a step of a packet stream, or none.          *)
LEMMA StreamStep ==
  ASSUME ChannelInv, [StreamNext]_streamSocketVars
  PROVE  [Stream!Next]_Stream!streamVars
<1> DEFINE bodies == [i \in 1..Len(packets) |-> Body(packets[i])]
<1>1. StreamTypeOK
  BY DEF ChannelInv
<1>2. ASSUME NEW len \in Lens, SendPacket(len) PROVE Stream!Put
  <2>1. PICK q : q = [first |-> accepted + 1, len |-> len]
    OBVIOUS
  <2>2. packets' = Append(packets, q) /\ delivered' = delivered /\ torn' = torn
    BY <1>2, <2>1 DEF SendPacket
  <2>3. packets \in Seq(Packet) /\ Len(packets) \in Nat
    BY <1>1 DEF StreamTypeOK
  <2>4. q \in Packet
    <3>1. Send(Hdr + len) /\ len \in Nat /\ Hdr \in Nat \ {0} /\ accepted \in Nat
      BY <1>1, <1>2, LensAssumption, HeaderAssumption, SizeAssumption
         DEF SendPacket, StreamTypeOK, TypeOK
    <3>2. accepted + (Hdr + len) <= MaxBytes
      BY <3>1 DEF Send
    <3>3. accepted + 1 \in Bytes
      BY <3>1, <3>2, SizeAssumption DEF Bytes
    <3>. QED BY <2>1, <3>3 DEF Packet
  <2>5. /\ Len(packets') = Len(packets) + 1
        /\ packets'[Len(packets) + 1] = q
        /\ \A i \in 1..Len(packets) : packets'[i] = packets[i]
    BY <2>2, <2>3, <2>4, AppendProperties
  <2>6. bodies' = Append(bodies, Body(q))
    <3> DEFINE n == Len(packets)
    <3>1. bodies' = [i \in 1..(n + 1) |-> Body(packets'[i])]
      BY <2>5 DEF Body
    <3>2. PICK B : B = {Body(packets[i]) : i \in 1..n} \cup {Body(q)}
      OBVIOUS
    <3>3. bodies \in Seq(B) /\ Len(bodies) = n
      BY <2>3, <3>2
    <3> HIDE DEF bodies
    <3>4. PICK b \in B : b = Body(q)
      BY <3>2
    <3>5. /\ Append(bodies, b) \in Seq(B) /\ Len(Append(bodies, b)) = n + 1
          /\ Append(bodies, b)[n + 1] = b
          /\ \A i \in 1..n : Append(bodies, b)[i] = bodies[i]
      BY <3>3, AppendProperties
    <3>6. \A i \in 1..(n + 1) : i \in 1..n \/ i = n + 1
      BY <2>3
    <3>7. \A i \in 1..(n + 1) : Append(bodies, b)[i] = Body(packets'[i])
      BY <2>5, <3>4, <3>5, <3>6 DEF bodies
    <3>8. PICK a \in Seq(B) : a = Append(bodies, b)
      BY <3>5
    <3>9. a = [i \in 1..(n + 1) |-> a[i]]
      <4>1. Len(a) = n + 1 /\ a \in Seq(B) /\ n + 1 \in Nat
        BY <2>3, <3>5, <3>8
      <4>. QED BY <4>1
    <3>10. \A i \in 1..(n + 1) : a[i] = Body(packets'[i])
      BY <3>7, <3>8
    <3>. QED BY <3>1, <3>4, <3>8, <3>9, <3>10
  <2>. QED BY <2>2, <2>4, <2>6 DEF Stream!Put
<1>3. CASE \/ CloseSender \/ Write \/ ReadEnds \/ ReadFails \/ CloseReader
           \/ UNCHANGED streamSocketVars
  <2>1. UNCHANGED << packets, delivered, torn >>
    BY <1>3
       DEF CloseSender, Write, ReadEnds, ReadFails, CloseReader, streamSocketVars, cutVars
  <2>. QED BY <2>1 DEF Stream!streamVars, Body
<1>4. ASSUME NEW n \in 1..ReadSize, ReadHandler(n)
      PROVE  Stream!Break \/ UNCHANGED Stream!streamVars
  <2>1. /\ UNCHANGED << packets, delivered >>
        /\ torn # "no" => torn' # "no"
    BY <1>1, <1>4 DEF ReadHandler, Worse, StreamTypeOK
  <2>2. bodies' = bodies
    BY <2>1 DEF Body
  <2>. QED BY <2>1, <2>2 DEF Stream!Break, Stream!streamVars
<1>5. ASSUME CutMsgPack
      PROVE  Stream!Get \/ Stream!Garble \/ UNCHANGED Stream!streamVars
  <2>1. CutOutcome /\ UNCHANGED << packets, torn >>
    BY <1>1, <1>5, CutType
  <2>2. bodies' = bodies
    BY <2>1 DEF Body
  <2>3. CASE delivered' = delivered
    BY <2>1, <2>2, <2>3 DEF Stream!streamVars
  <2>4. CASE delivered' # delivered /\ torn = "no"
    <3>1. RoundInSync
      BY <1>5, <2>4, CutInSync
    <3>2. /\ Len(delivered) + 1 \in 1..Len(packets)
          /\ delivered' = Append(delivered, Body(packets[Len(delivered) + 1]))
      BY <2>4, <3>1 DEF RoundInSync
    <3>3. bodies[Len(delivered) + 1] = Body(packets[Len(delivered) + 1])
      BY <3>2
    <3>4. Len(bodies) = Len(packets) /\ Len(delivered) \in Nat /\ Len(packets) \in Nat
      BY <1>1 DEF StreamTypeOK
    <3>5. Len(delivered) < Len(bodies)
      BY <3>2, <3>4
    <3>. QED BY <2>1, <2>2, <2>4, <3>2, <3>3, <3>5 DEF Stream!Get
  <2>5. CASE delivered' # delivered /\ torn # "no"
    <3>1. PICK x \in Seq(Bytes \cup {0}) : delivered' = Append(delivered, x)
      BY <2>1, <2>5 DEF CutOutcome
    <3>2. delivered \in Seq(Seq(Bytes \cup {0})) /\ Len(delivered) \in Nat
      BY <1>1 DEF StreamTypeOK
    <3>3. /\ delivered' \in Seq(Seq(Bytes \cup {0}))
          /\ Len(delivered') = Len(delivered) + 1
          /\ \A i \in 1..Len(delivered) : delivered'[i] = delivered[i]
      BY <3>1, <3>2, AppendProperties
    <3>4. SubSeq(delivered', 1, Len(delivered)) = delivered
      <4>1. \A i \in 1..Len(delivered) : delivered'[i] \in Seq(Bytes \cup {0})
        BY <3>2, <3>3
      <4>2. PICK s : s = SubSeq(delivered', 1, Len(delivered))
        OBVIOUS
      <4>3. /\ s \in Seq(Seq(Bytes \cup {0})) /\ Len(s) = Len(delivered)
            /\ \A i \in 1..Len(delivered) : s[i] = delivered[i]
        BY <3>2, <3>3, <4>1, <4>2, SubSeqProperties
      <4>. QED BY <3>2, <4>2, <4>3, SeqEqual
    <3>. QED BY <2>1, <2>2, <2>5, <3>3, <3>4 DEF Stream!Garble
  <2>. QED BY <2>3, <2>4, <2>5
<1>. QED
  BY <1>2, <1>3, <1>4, <1>5 DEF StreamNext, Receiver, Stream!Next

(* Until a read ends inside a packet, a connection of two sockets is a      *)
(* packet stream: the packets come out whole, once and in their order.      *)
THEOREM ChannelImplementsStream == StreamSpec => ImplementsStream
<1>1. StreamInit => Stream!Init
  <2>1. [i \in 1..Len(<< >>) |-> Body(<< >>[i])] = << >>
    OBVIOUS
  <2>. QED BY <2>1 DEF StreamInit, Stream!Init
<1>2. ChannelInv /\ [StreamNext]_streamSocketVars => [Stream!Next]_Stream!streamVars
  BY StreamStep
<1>. QED
  BY <1>1, <1>2, ChannelInvariant, PTL DEF StreamSpec, ImplementsStream, Stream!Spec
=============================================================================
