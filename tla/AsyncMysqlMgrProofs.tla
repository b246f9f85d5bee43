------------------------ MODULE AsyncMysqlMgrProofs -------------------------
(***************************************************************************)
(* Proofs about the database worker threads, for any number of workers and *)
(* requests, any limit of the queues and any number of spurious wakeups.   *)
(***************************************************************************)
EXTENDS AsyncMysqlMgr, SequenceTheorems, TLAPS

-----------------------------------------------------------------------------
(* Sequences.                                                              *)

(* A sequence that is not empty is its head and its tail, which is what     *)
(* Pop cuts it into.                                                        *)
LEMMA HeadAndTail ==
  ASSUME NEW S, NEW s \in Seq(S), s # << >>
  PROVE  /\ SubSeq(s, 1, 1) = << Head(s) >> /\ SubSeq(s, 2, Len(s)) = Tail(s)
         /\ Head(s) \in S /\ Tail(s) \in Seq(S)
         /\ Len(s) \in Nat /\ Len(s) > 0 /\ Len(Tail(s)) = Len(s) - 1
         /\ Head(s) = s[1]
         /\ \A i \in 1..Len(Tail(s)) : i + 1 \in 1..Len(s) /\ Tail(s)[i] = s[i + 1]
         /\ << Head(s) >> \o Tail(s) = s
<1>1. /\ Len(s) \in Nat /\ Len(s) > 0 /\ Head(s) = s[1]
      /\ Head(s) \in S /\ Tail(s) \in Seq(S) /\ Len(Tail(s)) = Len(s) - 1
  OBVIOUS
<1>2. \A i \in 1..Len(Tail(s)) : i + 1 \in 1..Len(s) /\ Tail(s)[i] = s[i + 1]
  OBVIOUS
<1>3. SubSeq(s, 1, 1) = << Head(s) >>
  <2>1. /\ SubSeq(s, 1, 1) \in Seq(S) /\ Len(SubSeq(s, 1, 1)) = 1
        /\ SubSeq(s, 1, 1)[1] = s[1]
    BY <1>1, SubSeqProperties
  <2>2. /\ << Head(s) >> \in Seq(S) /\ Len(<< Head(s) >>) = 1
        /\ << Head(s) >>[1] = s[1]
    BY <1>1
  <2>3. PICK a \in Seq(S), b \in Seq(S) : a = SubSeq(s, 1, 1) /\ b = << Head(s) >>
    BY <2>1, <2>2
  <2>4. Len(a) = Len(b) /\ \A i \in 1..Len(a) : a[i] = b[i]
    BY <1>1, <2>1, <2>2, <2>3
  <2>5. a = b
    BY <2>4, SeqEqual
  <2> QED BY <2>3, <2>5
<1>4. SubSeq(s, 2, Len(s)) = Tail(s)
  BY <1>1, <1>2
<1>5. << Head(s) >> \o Tail(s) = s
  BY <1>1, <1>2
<1> QED BY <1>1, <1>2, <1>3, <1>4, <1>5

(* Append at the end of a concatenation, and in the middle of one.          *)
LEMMA AppendConcat ==
  ASSUME NEW S, NEW s \in Seq(S), NEW t \in Seq(S), NEW e \in S
  PROVE  /\ s \o Append(t, e) = Append(s \o t, e)
         /\ Append(s, e) \o t = s \o (<< e >> \o t)
         /\ s \o (t \o << e >>) = Append(s \o t, e)
<1>1. << e >> \in Seq(S) /\ s \o t \in Seq(S)
  OBVIOUS
<1>2. \A u \in Seq(S) : Append(u, e) = u \o << e >>
  BY AppendIsConcat
<1>3. Append(t, e) = t \o << e >> /\ Append(s, e) = s \o << e >>
      /\ Append(s \o t, e) = (s \o t) \o << e >>
  BY <1>1, <1>2
<1>4. (s \o t) \o << e >> = s \o (t \o << e >>)
  BY <1>1, ConcatAssociative
<1>5. (s \o << e >>) \o t = s \o (<< e >> \o t)
  BY <1>1, ConcatAssociative
<1> QED BY <1>3, <1>4, <1>5

(* What a sequence with one more element in front is made of.               *)
LEMMA PushFront ==
  ASSUME NEW S, NEW q \in Seq(S), NEW e \in S
  PROVE  /\ << e >> \o q # << >> /\ Head(<< e >> \o q) = e
         /\ Tail(<< e >> \o q) = q
<1>0. << e >> \in Seq(S) /\ Len(<< e >>) = 1 /\ << e >>[1] = e
  OBVIOUS
<1>1. PICK h \in Seq(S) : h = << e >> /\ Len(h) = 1 /\ h[1] = e
  BY <1>0, Zenon
<1>2. PICK s \in Seq(S) : s = h \o q
  BY ConcatProperties
<1>3. /\ Len(s) = 1 + Len(q)
      /\ \A i \in 1..(1 + Len(q)) : s[i] = IF i <= 1 THEN h[i] ELSE q[i - 1]
  BY <1>1, <1>2, ConcatProperties
<1>4. Len(q) \in Nat
  BY LenProperties
<1>5. s # << >> /\ s[1] = e
  BY <1>1, <1>3, <1>4
<1>6. PICK t \in Seq(S) : t = Tail(s) /\ Len(t) = Len(q)
  BY <1>3, <1>4, <1>5, HeadTailProperties
<1>7. \A i \in 1..Len(t) : t[i] = s[i + 1]
  BY <1>3, <1>4, <1>5, <1>6
<1>8. \A i \in 1..Len(t) : t[i] = q[i]
  BY <1>3, <1>4, <1>6, <1>7
<1>9. t = q
  BY <1>6, <1>8, SeqEqual
<1> QED BY <1>1, <1>2, <1>5, <1>6, <1>9

(* Every request of a sequence has a number of at most m.                   *)
UpTo(s, m) == \A i \in 1..Len(s) : s[i].n <= m

(* Where the numbers of sequences built from others lie.                    *)
LEMMA UpToParts ==
  ASSUME NEW s \in Seq(Reqs), NEW m \in Int, UpTo(s, m)
  PROVE  /\ \A r \in Reqs : r.n <= m => UpTo(Append(s, r), m)
         /\ \A t \in Seq(Reqs) : UpTo(t, m) => UpTo(s \o t, m)
         /\ s # << >> => /\ UpTo(<< Head(s) >>, m) /\ UpTo(Tail(s), m)
                         /\ Head(s).n <= m
<1>1. ASSUME NEW r \in Reqs, r.n <= m PROVE UpTo(Append(s, r), m)
  BY <1>1 DEF UpTo
<1>2. ASSUME NEW t \in Seq(Reqs), UpTo(t, m) PROVE UpTo(s \o t, m)
  BY <1>2 DEF UpTo
<1>3. ASSUME s # << >>
      PROVE  UpTo(<< Head(s) >>, m) /\ UpTo(Tail(s), m) /\ Head(s).n <= m
  <2>1. Head(s).n <= m
    BY <1>3, HeadAndTail DEF UpTo
  <2>2. UpTo(Tail(s), m)
    BY <1>3, HeadAndTail DEF UpTo
  <2> QED BY <2>1, <2>2 DEF UpTo
<1> QED BY <1>1, <1>2, <1>3

(* Requests, their numbers and their workers.                               *)
LEMMA ReqParts ==
  ASSUME NEW r \in Reqs
  PROVE  r.n \in 1..MaxReqs /\ r.orderid \in OrderIds /\ Work(r) \in Workers
<1>1. r.n \in 1..MaxReqs /\ r.orderid \in OrderIds
  BY DEF Reqs
<1>2. \A a \in Nat : a % W \in 0..(W - 1)
  BY SizesAssumption
<1>3. OrderIds \subseteq Nat
  BY SizesAssumption DEF OrderIds
<1> QED BY <1>1, <1>2, <1>3 DEF Work, Workers

(* A larger bound.                                                          *)
LEMMA UpToMore ==
  ASSUME NEW s \in Seq(Reqs), NEW m \in Int, NEW k \in Int, UpTo(s, m), m <= k
  PROVE  UpTo(s, k)
<1>1. \A i \in 1..Len(s) : s[i].n \in Int
  BY ReqParts
<1> QED BY <1>1 DEF UpTo

-----------------------------------------------------------------------------
(* The invariant.                                                          *)

(* A worker that looks for a request has none in hand.                      *)
HandsEmpty ==
  \A w \in Workers : worker[w] \in {"lock", "wait", "woken"} => hand[w] = << >>

(* The number of the last request that AddRequest pushed: one that still    *)
(* waits for room is not in any queue.                                      *)
LastPushed == IF main \in {"wait", "woken"} THEN added - 1 ELSE added

(* Requests are numbered in the order they come, so none is pushed twice.   *)
Numbered ==
  /\ main # "free" => req.n = added
  /\ UpTo(picked, LastPushed) /\ UpTo(rsp_queue, LastPushed)
  /\ \A w \in Workers : UpTo(hand[w], LastPushed) /\ UpTo(queue[w], LastPushed)

(* What a queue may still grow to without another test of its length: a    *)
(* worker that is about to notify may wake the main thread, and the main    *)
(* thread that was woken pushes without looking.                            *)
WillNotify(w) == IF worker[w] = "notify" THEN 1 ELSE 0
WillPush(w) == IF main = "woken" /\ Work(req) = w THEN 1 ELSE 0
Load(w) == Len(queue[w]) + WillNotify(w) + WillPush(w)

Slack == \A w \in Workers : Load(w) <= QueueMax + 1 + spurious

MgrInv == TypeOK /\ HandsEmpty /\ Numbered /\ Slack

(* The invariant holds at the start.                                        *)
LEMMA InitInv == Init => MgrInv
<1> SUFFICES ASSUME Init PROVE MgrInv
  OBVIOUS
<1>1. TypeOK
  BY SizesAssumption DEF Init, TypeOK
<1>2. HandsEmpty
  BY DEF Init, HandsEmpty
<1>3. Numbered
  BY SizesAssumption DEF Init, Numbered, LastPushed, UpTo
<1>4. Slack
  BY SizesAssumption DEF Init, Slack, Load, WillNotify, WillPush
<1> QED BY <1>1, <1>2, <1>3, <1>4 DEF MgrInv

(* What the invariant says of the numbers.                                  *)
LEMMA LastPushedType ==
  ASSUME TypeOK
  PROVE  LastPushed \in Int /\ LastPushed <= added /\ added \in Int
BY SizesAssumption DEF TypeOK, LastPushed

-----------------------------------------------------------------------------
(* The steps.                                                              *)

(* What a worker has in hand.                                              *)
LEMMA HandParts ==
  ASSUME TypeOK, NEW w \in Workers
  PROVE  /\ queue[w] \in Seq(Reqs) /\ hand[w] \in Seq(Reqs)
         /\ hand[w] # << >> => hand[w] = << Head(hand[w]) >>
<1>1. queue[w] \in Seq(Reqs)
  BY DEF TypeOK
<1>2. hand[w] = << >> \/ \E r \in Reqs : hand[w] = << r >>
  BY DEF TypeOK
<1>3. ASSUME NEW r \in Reqs, hand[w] = << r >>
      PROVE  hand[w] \in Seq(Reqs) /\ hand[w] = << Head(hand[w]) >>
  BY <1>3
<1>4. << >> \in Seq(Reqs)
  OBVIOUS
<1>5. CASE hand[w] = << >>
  BY <1>1, <1>4, <1>5
<1> QED BY <1>1, <1>2, <1>3, <1>5, Zenon

(* Types.                                                                   *)
LEMMA TypesStep == TypeOK /\ HandsEmpty /\ [Next]_vars => TypeOK'
<1> SUFFICES ASSUME TypeOK, HandsEmpty, [Next]_vars PROVE TypeOK'
  OBVIOUS
<1> USE SizesAssumption
<1>1. ASSUME NEW o \in OrderIds, AddRequest(o) PROVE TypeOK'
  <2> DEFINE r == [n |-> added + 1, orderid |-> o]
  <2>1. r \in Reqs /\ added + 1 \in 0..MaxReqs
    BY <1>1 DEF AddRequest, TypeOK, Reqs
  <2>2. Work(r) \in Workers
    BY <2>1, ReqParts
  <2> HIDE DEF r
  <2>3. CASE MustWait(r)
    <3>1. main' = "wait" /\ queue' = queue
      BY <1>1, <2>3 DEF AddRequest, r
    <3> QED BY <1>1, <2>1, <3>1 DEF AddRequest, TypeOK, r
  <2>4. CASE ~MustWait(r)
    <3>1. main' = "notify" /\ queue' = [queue EXCEPT ![Work(r)] = Append(@, r)]
      BY <1>1, <2>4 DEF AddRequest, Push, r
    <3>2. queue' \in [Workers -> Seq(Reqs)]
      BY <2>1, <2>2, <3>1 DEF TypeOK
    <3> QED BY <1>1, <2>1, <3>1, <3>2 DEF AddRequest, TypeOK, r
  <2> QED BY <2>3, <2>4
<1>2. CASE AddRequestWoken
  <2>1. req \in Reqs /\ Work(req) \in Workers
    BY <1>2, ReqParts DEF AddRequestWoken, TypeOK
  <2>2. queue' \in [Workers -> Seq(Reqs)]
    BY <1>2, <2>1 DEF AddRequestWoken, Push, TypeOK
  <2> QED BY <1>2, <2>1, <2>2 DEF AddRequestWoken, Push, TypeOK
<1>3. CASE AddRequestNotify
  BY <1>3 DEF AddRequestNotify, TypeOK
<1>4. CASE Pick
  BY <1>4, HeadAndTail DEF Pick, TypeOK
<1>5. ASSUME NEW w \in Workers, Pop(w), queue[w] # << >>
      PROVE  /\ queue' \in [Workers -> Seq(Reqs)]
             /\ hand' \in [Workers -> {<< >>} \cup {<< r >> : r \in Reqs}]
             /\ \A v \in Workers : hand[v] # << >> => hand'[v] # << >>
  <2>1. queue[w] \in Seq(Reqs)
    BY DEF TypeOK
  <2>2. /\ hand' = [hand EXCEPT ![w] = << Head(queue[w]) >>]
        /\ queue' = [queue EXCEPT ![w] = Tail(queue[w])]
        /\ Head(queue[w]) \in Reqs /\ Tail(queue[w]) \in Seq(Reqs)
    BY <1>5, <2>1, HeadAndTail DEF Pop
  <2>3. << Head(queue[w]) >> # << >>
    OBVIOUS
  <2> QED BY <2>2, <2>3 DEF TypeOK
<1>6. ASSUME NEW w \in Workers, RunLock(w) PROVE TypeOK'
  <2>1. CASE queue[w] = << >>
    BY <1>6, <2>1 DEF RunLock, TypeOK
  <2>2. CASE queue[w] # << >>
    <3>1. Pop(w) /\ worker' = [worker EXCEPT ![w] = "notify"]
      BY <1>6, <2>2 DEF RunLock
    <3> QED BY <1>5, <1>6, <2>2, <3>1 DEF RunLock, TypeOK
  <2> QED BY <2>1, <2>2
<1>7. ASSUME NEW w \in Workers, RunWoken(w) PROVE TypeOK'
  <2>1. CASE queue[w] = << >>
    BY <1>7, <2>1 DEF RunWoken, TypeOK
  <2>2. CASE queue[w] # << >>
    <3>1. Pop(w) /\ worker' = [worker EXCEPT ![w] = "notify"]
      BY <1>7, <2>2 DEF RunWoken
    <3> QED BY <1>5, <1>7, <2>2, <3>1 DEF RunWoken, TypeOK
  <2> QED BY <2>1, <2>2
<1>8. ASSUME NEW w \in Workers, RunNotify(w) PROVE TypeOK'
  BY <1>8 DEF RunNotify, TypeOK
<1>9. ASSUME NEW w \in Workers, RunProcess(w) PROVE TypeOK'
  <2>2. hand[w] \in Seq(Reqs)
    BY HandParts
  <2>3. rsp_queue \in Seq(Reqs) /\ rsp_queue' = rsp_queue \o hand[w]
    BY <1>9 DEF RunProcess, TypeOK
  <2>4. rsp_queue' \in Seq(Reqs)
    BY <2>2, <2>3
  <2> QED BY <1>9, <2>4 DEF RunProcess, TypeOK
<1>10. CASE SpuriousWakeup
  <2>1. spurious' \in 0..MaxSpurious
    BY <1>10 DEF SpuriousWakeup, TypeOK
  <2>2. CASE main = "wait" /\ main' = "woken" /\ UNCHANGED worker
    BY <1>10, <2>1, <2>2 DEF SpuriousWakeup, TypeOK
  <2>3. ASSUME NEW w \in Workers, worker[w] = "wait",
               worker' = [worker EXCEPT ![w] = "woken"], UNCHANGED main
        PROVE  TypeOK'
    BY <1>10, <2>1, <2>3 DEF SpuriousWakeup, TypeOK
  <2> QED BY <1>10, <2>2, <2>3 DEF SpuriousWakeup
<1>11. CASE UNCHANGED vars
  BY <1>11 DEF vars, TypeOK
<1> QED BY <1>1, <1>2, <1>3, <1>4, <1>6, <1>7, <1>8, <1>9, <1>10, <1>11
        DEF Next, Main, Run

(* Hands.                                                                   *)
LEMMA HandsStep == TypeOK /\ HandsEmpty /\ [Next]_vars => HandsEmpty'
<1> SUFFICES ASSUME TypeOK, HandsEmpty, [Next]_vars PROVE HandsEmpty'
  OBVIOUS
<1>1. CASE Main \/ UNCHANGED vars
  BY <1>1 DEF Main, AddRequest, AddRequestWoken, AddRequestNotify, Pick, vars,
              HandsEmpty, TypeOK
<1>2. ASSUME NEW w \in Workers, Run(w) PROVE HandsEmpty'
  BY <1>2 DEF Run, RunLock, RunWoken, RunNotify, RunProcess, Pop, HandsEmpty, TypeOK
<1>3. CASE SpuriousWakeup
  BY <1>3 DEF SpuriousWakeup, HandsEmpty, TypeOK
<1> QED BY <1>1, <1>2, <1>3 DEF Next

(* What leaves the queue when it is not empty.                              *)
LEMMA PopParts ==
  ASSUME TypeOK, NEW w \in Workers, Pop(w), queue[w] # << >>
  PROVE  /\ hand' = [hand EXCEPT ![w] = << Head(queue[w]) >>]
         /\ queue' = [queue EXCEPT ![w] = Tail(queue[w])]
<1>1. queue[w] \in Seq(Reqs)
  BY DEF TypeOK
<1> QED BY <1>1, HeadAndTail DEF Pop

(* What a push of r does: none of the other queues changes, and LastPushed  *)
(* moves on to r.                                                           *)
LEMMA PushNumbered ==
  ASSUME TypeOK, Numbered, TypeOK',
         NEW r \in Reqs, Push(r), r.n = added', added' = LastPushed + 1, req' = r,
         UNCHANGED << rsp_queue, hand, picked >>
  PROVE  Numbered'
<1>1. LastPushed' = added' /\ added' \in Int /\ LastPushed \in Int
  BY SizesAssumption DEF Push, LastPushed, TypeOK
<1>2. ASSUME NEW s \in Seq(Reqs), UpTo(s, LastPushed) PROVE UpTo(s, LastPushed')
  BY <1>1, <1>2, UpToMore
<1>3. UpTo(picked', LastPushed') /\ UpTo(rsp_queue', LastPushed')
  BY <1>2 DEF Numbered, TypeOK
<1>4. ASSUME NEW w \in Workers
      PROVE  UpTo(hand'[w], LastPushed') /\ UpTo(queue'[w], LastPushed')
  <2>1. queue[w] \in Seq(Reqs) /\ hand[w] \in Seq(Reqs)
    BY HandParts
  <2>2. UpTo(hand[w], LastPushed') /\ UpTo(queue[w], LastPushed')
    BY <1>2, <2>1 DEF Numbered
  <2>3. UpTo(Append(queue[w], r), LastPushed')
    <3>1. PICK m \in Int : m = LastPushed'
      BY <1>1
    <3>2. r.n <= m
      BY <1>1, <3>1
    <3> QED BY <2>1, <2>2, <3>1, <3>2, UpToParts
  <2>4. queue'[w] = queue[w] \/ queue'[w] = Append(queue[w], r)
    BY ReqParts DEF Push, TypeOK
  <2> QED BY <2>2, <2>3, <2>4
<1>5. main' # "free" => req'.n = added'
  OBVIOUS
<1> QED BY <1>3, <1>4, <1>5 DEF Numbered

(* Numbers.                                                                 *)
LEMMA NumberedStep ==
  TypeOK /\ HandsEmpty /\ Numbered /\ TypeOK' /\ [Next]_vars => Numbered'
<1> SUFFICES ASSUME TypeOK, HandsEmpty, Numbered, TypeOK', [Next]_vars
             PROVE  Numbered'
  OBVIOUS
<1>0. LastPushed \in Int /\ added \in Int
  BY LastPushedType
<1>1. ASSUME NEW o \in OrderIds, AddRequest(o) PROVE Numbered'
  <2>1. PICK r : r = [n |-> added + 1, orderid |-> o]
    OBVIOUS
  <2>2. /\ r = req' /\ added' = added + 1 /\ main = "free"
        /\ UNCHANGED << rsp_queue, hand, picked >>
    BY <1>1, <2>1 DEF AddRequest
  <2>3. r.n = added' /\ LastPushed = added
    BY <2>1, <2>2 DEF LastPushed
  <2>4. CASE MustWait(r)
    <3>1. main' = "wait" /\ queue' = queue
      BY <1>1, <2>1, <2>4 DEF AddRequest
    <3>2. LastPushed' = LastPushed
      BY <1>0, <2>2, <2>3, <3>1 DEF LastPushed
    <3> QED BY <2>2, <2>3, <3>1, <3>2 DEF Numbered
  <2>5. CASE ~MustWait(r)
    <3>1. Push(r)
      BY <1>1, <2>1, <2>5 DEF AddRequest
    <3>2. r \in Reqs
      BY <2>2, <3>1 DEF Push, TypeOK
    <3> QED BY <2>2, <2>3, <3>1, <3>2, PushNumbered
  <2> QED BY <2>4, <2>5
<1>2. CASE AddRequestWoken
  <2>1. req \in Reqs /\ req.n = added /\ added = LastPushed + 1
    BY <1>0, <1>2 DEF AddRequestWoken, TypeOK, Numbered, LastPushed
  <2>2. Push(req) /\ UNCHANGED << rsp_queue, hand, picked, req, added >>
    BY <1>2 DEF AddRequestWoken
  <2> QED BY <2>1, <2>2, PushNumbered
<1>3. CASE AddRequestNotify
  <2>1. LastPushed' = LastPushed
    BY <1>3 DEF AddRequestNotify, LastPushed
  <2> QED BY <1>3, <2>1 DEF AddRequestNotify, Numbered
<1>4. CASE Pick
  <2>1. LastPushed' = LastPushed
    BY <1>4 DEF Pick, LastPushed
  <2>2. UpTo(Tail(rsp_queue), LastPushed) /\ Head(rsp_queue).n <= LastPushed
    BY <1>0, <1>4, UpToParts DEF Pick, Numbered, TypeOK
  <2>3. UpTo(Append(picked, Head(rsp_queue)), LastPushed)
    BY <1>0, <1>4, <2>2, UpToParts, HeadAndTail DEF Pick, Numbered, TypeOK
  <2> QED BY <1>4, <2>1, <2>2, <2>3 DEF Pick, Numbered
<1>5. ASSUME NEW w \in Workers, Pop(w), queue[w] # << >>,
             UNCHANGED << rsp_queue, main, req, added, picked >>
      PROVE  Numbered'
  <2>1. LastPushed' = LastPushed
    BY <1>5 DEF LastPushed
  <2>2. UpTo(Tail(queue[w]), LastPushed) /\ UpTo(<< Head(queue[w]) >>, LastPushed)
    BY <1>0, <1>5, UpToParts, HandParts DEF Numbered
  <2>3. \A v \in Workers : UpTo(hand'[v], LastPushed) /\ UpTo(queue'[v], LastPushed)
    <3>1. /\ hand' = [hand EXCEPT ![w] = << Head(queue[w]) >>]
          /\ queue' = [queue EXCEPT ![w] = Tail(queue[w])]
      BY <1>5, PopParts
    <3> QED BY <2>2, <3>1 DEF Numbered, TypeOK
  <2> QED BY <1>5, <2>1, <2>3 DEF Numbered
<1>6. ASSUME NEW w \in Workers, RunLock(w) \/ RunWoken(w) PROVE Numbered'
  <2>1. UNCHANGED << rsp_queue, main, req, added, picked >>
    BY <1>6 DEF RunLock, RunWoken
  <2>2. CASE queue[w] = << >>
    <3>1. queue' = queue /\ LastPushed' = LastPushed
      BY <1>6, <2>1, <2>2 DEF RunLock, RunWoken, LastPushed
    <3>2. hand' = hand \/ hand' = [hand EXCEPT ![w] = << >>]
      BY <1>6, <2>2 DEF RunLock, RunWoken
    <3>3. UpTo(<< >>, LastPushed)
      BY DEF UpTo
    <3>4. \A v \in Workers : UpTo(hand'[v], LastPushed)
      BY <3>2, <3>3 DEF Numbered, TypeOK
    <3> QED BY <2>1, <3>1, <3>4 DEF Numbered
  <2>3. CASE queue[w] # << >>
    <3>1. Pop(w)
      BY <1>6, <2>3 DEF RunLock, RunWoken
    <3> QED BY <1>5, <2>1, <2>3, <3>1
  <2> QED BY <2>2, <2>3
<1>7. ASSUME NEW w \in Workers, RunNotify(w) PROVE Numbered'
  <2>1. LastPushed' = LastPushed /\ (main = "free" <=> main' = "free")
    BY <1>7 DEF RunNotify, LastPushed
  <2> QED BY <1>7, <2>1 DEF RunNotify, Numbered
<1>8. ASSUME NEW w \in Workers, RunProcess(w) PROVE Numbered'
  <2>1. LastPushed' = LastPushed
    BY <1>8 DEF RunProcess, LastPushed
  <2>2. hand[w] \in Seq(Reqs) /\ UpTo(hand[w], LastPushed)
    BY HandParts DEF Numbered
  <2>3. UpTo(rsp_queue \o hand[w], LastPushed)
    BY <1>0, <2>2, UpToParts DEF Numbered, TypeOK
  <2>4. UpTo(<< >>, LastPushed)
    BY DEF UpTo
  <2>5. \A v \in Workers : UpTo(hand'[v], LastPushed)
    BY <1>8, <2>4 DEF RunProcess, Numbered, TypeOK
  <2> QED BY <1>8, <2>1, <2>3, <2>5 DEF RunProcess, Numbered
<1>9. CASE SpuriousWakeup
  <2>1. LastPushed' = LastPushed /\ (main = "free" <=> main' = "free")
    BY <1>9 DEF SpuriousWakeup, LastPushed
  <2> QED BY <1>9, <2>1 DEF SpuriousWakeup, Numbered
<1>10. CASE UNCHANGED vars
  BY <1>10 DEF vars, Numbered, LastPushed
<1> QED BY <1>1, <1>2, <1>3, <1>4, <1>6, <1>7, <1>8, <1>9, <1>10
        DEF Next, Main, Run

(* The numbers in Slack.                                                    *)
LEMMA LoadParts ==
  ASSUME TypeOK, Slack, NEW w \in Workers
  PROVE  /\ Len(queue[w]) \in Nat /\ Load(w) \in Nat
         /\ WillNotify(w) \in {0, 1} /\ WillPush(w) \in {0, 1}
         /\ Load(w) <= QueueMax + 1 + spurious
         /\ spurious \in Nat /\ QueueMax \in Nat \ {0}
<1>1. WillNotify(w) \in {0, 1}
  BY DEF WillNotify
<1>2. WillPush(w) \in {0, 1}
  BY DEF WillPush
<1>3. Len(queue[w]) \in Nat /\ spurious \in Nat /\ QueueMax \in Nat \ {0}
  BY SizesAssumption DEF TypeOK
<1>4. Load(w) \in Nat
  BY <1>1, <1>2, <1>3 DEF Load
<1> QED BY <1>1, <1>2, <1>3, <1>4 DEF Slack

(* Room in the queues.                                                      *)
LEMMA SlackStep ==
  TypeOK /\ HandsEmpty /\ Slack /\ TypeOK' /\ [Next]_vars => Slack'
<1> SUFFICES ASSUME TypeOK, HandsEmpty, Slack, TypeOK', [Next]_vars,
                    NEW v \in Workers
             PROVE  Load(v)' <= QueueMax + 1 + spurious'
  BY DEF Slack
<1>0. /\ Len(queue[v]) \in Nat /\ Load(v) \in Nat
      /\ WillNotify(v) \in {0, 1} /\ WillPush(v) \in {0, 1}
      /\ Load(v) <= QueueMax + 1 + spurious
      /\ spurious \in Nat /\ QueueMax \in Nat \ {0}
  BY LoadParts
<1>00. /\ Len(queue'[v]) \in Nat /\ spurious' \in Nat
       /\ WillNotify(v)' \in {0, 1} /\ WillPush(v)' \in {0, 1}
  <2>1. Len(queue'[v]) \in Nat /\ spurious' \in Nat
    BY SizesAssumption DEF TypeOK
  <2>2. WillNotify(v)' \in {0, 1}
    BY DEF WillNotify
  <2>3. WillPush(v)' \in {0, 1}
    BY DEF WillPush
  <2> QED BY <2>1, <2>2, <2>3
<1>1. ASSUME spurious' = spurious,
             Len(queue'[v]) + WillNotify(v)' + WillPush(v)'
               <= Len(queue[v]) + WillNotify(v) + WillPush(v)
      PROVE  Load(v)' <= QueueMax + 1 + spurious'
  <2>1. Load(v)' <= Load(v)
    BY <1>1 DEF Load
  <2>2. Load(v)' \in Nat
    BY <1>00 DEF Load
  <2> QED BY <1>0, <1>1, <2>1, <2>2
<1>2. ASSUME NEW o \in OrderIds, AddRequest(o)
      PROVE  Load(v)' <= QueueMax + 1 + spurious'
  <2>1. PICK r : r = [n |-> added + 1, orderid |-> o]
    OBVIOUS
  <2>2. main = "free" /\ worker' = worker /\ spurious' = spurious
    BY <1>2 DEF AddRequest
  <2>3. main' # "woken"
    BY <1>2 DEF AddRequest, Push
  <2>4. WillNotify(v)' = WillNotify(v) /\ WillPush(v)' = 0
    BY <2>2, <2>3 DEF WillNotify, WillPush
  <2>5. CASE queue'[v] = queue[v]
    BY <1>0, <1>00, <1>1, <2>2, <2>4, <2>5
  <2>6. CASE queue'[v] # queue[v]
    <3>1. ~MustWait(r) /\ queue' = [queue EXCEPT ![Work(r)] = Append(@, r)]
      BY <1>2, <2>1, <2>6 DEF AddRequest, Push
    <3>2. v = Work(r) /\ queue[v] \in Seq(Reqs) /\ queue'[v] = Append(queue[v], r)
      BY <2>6, <3>1 DEF TypeOK
    <3>3. Len(queue[v]) < QueueMax /\ Len(queue'[v]) = Len(queue[v]) + 1
      BY <1>0, <3>1, <3>2 DEF MustWait
    <3> QED BY <1>0, <1>00, <2>2, <2>4, <3>3 DEF Load
  <2> QED BY <2>5, <2>6
<1>3. CASE AddRequestWoken
  <2>1. /\ main = "woken" /\ main' = "notify" /\ worker' = worker /\ req' = req
        /\ queue' = [queue EXCEPT ![Work(req)] = Append(@, req)]
        /\ spurious' = spurious
    BY <1>3 DEF AddRequestWoken, Push
  <2>2. WillNotify(v)' = WillNotify(v) /\ WillPush(v)' = 0
    BY <2>1 DEF WillNotify, WillPush
  <2>3. CASE v = Work(req)
    <3>1. queue[v] \in Seq(Reqs) /\ queue'[v] = Append(queue[v], req)
      BY <2>1, <2>3 DEF TypeOK
    <3>2. Len(queue'[v]) = Len(queue[v]) + 1
      BY <3>1
    <3>3. WillPush(v) = 1
      BY <2>1, <2>3 DEF WillPush
    <3> QED BY <1>0, <1>00, <1>1, <2>1, <2>2, <3>2, <3>3
  <2>4. CASE v # Work(req)
    <3>1. queue'[v] = queue[v]
      BY <2>1, <2>4 DEF TypeOK
    <3>2. WillPush(v) = 0
      BY <2>4 DEF WillPush
    <3>3. WillNotify(v)' <= WillNotify(v) /\ WillPush(v)' <= WillPush(v)
      BY <1>0, <1>00, <2>2, <3>2
    <3>4. Len(queue'[v]) = Len(queue[v])
      BY <3>1
    <3> QED BY <1>0, <1>00, <1>1, <2>1, <3>3, <3>4
  <2> QED BY <2>3, <2>4
<1>4. CASE AddRequestNotify
  <2>1. /\ main' = "free" /\ queue' = queue /\ spurious' = spurious
        /\ worker'[v] = "notify" => worker[v] = "notify"
    BY <1>4 DEF AddRequestNotify, TypeOK
  <2>2. WillNotify(v)' <= WillNotify(v) /\ WillPush(v)' = 0
    BY <2>1 DEF WillNotify, WillPush
  <2> QED BY <1>0, <1>00, <1>1, <2>1, <2>2
<1>5. CASE Pick \/ UNCHANGED vars
  <2>1. /\ queue' = queue /\ spurious' = spurious
        /\ WillNotify(v)' = WillNotify(v) /\ WillPush(v)' = WillPush(v)
    BY <1>5 DEF Pick, vars, WillNotify, WillPush
  <2> QED BY <1>0, <1>1, <2>1
<1>6. ASSUME NEW w \in Workers, RunLock(w) \/ RunWoken(w)
      PROVE  Load(v)' <= QueueMax + 1 + spurious'
  <2>1. /\ main' = main /\ req' = req /\ spurious' = spurious /\ worker[w] # "notify"
        /\ worker' = [worker EXCEPT ![w] = worker'[w]]
    BY <1>6 DEF RunLock, RunWoken, TypeOK
  <2>2. WillPush(v)' = WillPush(v)
    BY <2>1 DEF WillPush
  <2>3. CASE v # w
    <3>1. queue'[v] = queue[v] /\ worker'[v] = worker[v]
      BY <1>6, <2>1, <2>3 DEF RunLock, RunWoken, Pop, TypeOK
    <3>2. WillNotify(v)' = WillNotify(v)
      BY <3>1 DEF WillNotify
    <3> QED BY <1>0, <1>1, <2>1, <2>2, <3>1, <3>2
  <2>4. CASE v = w /\ queue[v] # << >>
    <3>1. Pop(v)
      BY <1>6, <2>4 DEF RunLock, RunWoken
    <3>2. queue'[v] = Tail(queue[v]) /\ queue[v] \in Seq(Reqs)
      BY <2>4, <3>1, PopParts DEF TypeOK
    <3>3. Len(queue'[v]) = Len(queue[v]) - 1
      BY <2>4, <3>2, HeadAndTail
    <3>4. WillNotify(v) = 0
      BY <2>1, <2>4 DEF WillNotify
    <3> QED BY <1>0, <1>00, <1>1, <2>1, <2>2, <3>3, <3>4
  <2>5. CASE v = w /\ queue[v] = << >>
    <3>1. queue' = queue
      BY <1>6, <2>5 DEF RunLock, RunWoken
    <3>2. Len(queue'[v]) = 0
      BY <2>5, <3>1
    <3> QED BY <1>0, <1>00, <3>2 DEF Load
  <2> QED BY <2>3, <2>4, <2>5
<1>7. ASSUME NEW w \in Workers, RunNotify(w)
      PROVE  Load(v)' <= QueueMax + 1 + spurious'
  <2>1. /\ worker[w] = "notify" /\ worker'[w] # "notify"
        /\ v # w => worker'[v] = worker[v]
        /\ main' = IF main = "wait" /\ Work(req) = w THEN "woken" ELSE main
        /\ queue' = queue /\ req' = req /\ spurious' = spurious
    BY <1>7 DEF RunNotify, TypeOK
  <2>2. CASE v = w
    <3>1. WillNotify(v) = 1 /\ WillNotify(v)' = 0
      BY <2>1, <2>2 DEF WillNotify
    <3> QED BY <1>0, <1>00, <1>1, <2>1, <3>1
  <2>3. CASE v # w
    <3>1. WillNotify(v)' = WillNotify(v) /\ WillPush(v)' = WillPush(v)
      BY <2>1, <2>3 DEF WillNotify, WillPush
    <3> QED BY <1>0, <1>1, <2>1, <3>1
  <2> QED BY <2>2, <2>3
<1>8. ASSUME NEW w \in Workers, RunProcess(w)
       PROVE  Load(v)' <= QueueMax + 1 + spurious'
  <2>1. /\ worker'[v] = "notify" => worker[v] = "notify"
        /\ queue' = queue /\ req' = req /\ main' = main /\ spurious' = spurious
    BY <1>8 DEF RunProcess, TypeOK
  <2>2. WillNotify(v)' <= WillNotify(v) /\ WillPush(v)' = WillPush(v)
    BY <2>1 DEF WillNotify, WillPush
  <2> QED BY <1>0, <1>00, <1>1, <2>1, <2>2
<1>9. CASE SpuriousWakeup
  <2>1. /\ worker'[v] = "notify" => worker[v] = "notify"
        /\ queue' = queue /\ req' = req /\ spurious' = spurious + 1
    BY <1>9 DEF SpuriousWakeup, TypeOK
  <2>2. WillNotify(v)' <= WillNotify(v)
    BY <2>1 DEF WillNotify
  <2>3. WillPush(v)' <= WillPush(v) + 1
    BY <1>0, <1>00
  <2> QED BY <1>0, <1>00, <2>1, <2>2, <2>3 DEF Load
<1> QED BY <1>2, <1>3, <1>4, <1>5, <1>6, <1>7, <1>8, <1>9
        DEF Next, Main, Run

(* The invariant holds in every behaviour.                                  *)
LEMMA InvHolds == Spec => []MgrInv
<1>1. MgrInv /\ [Next]_vars => MgrInv'
  BY TypesStep, HandsStep, NumberedStep, SlackStep DEF MgrInv
<1> QED BY InitInv, <1>1, PTL DEF Spec

-----------------------------------------------------------------------------
(* No queue grows beyond its limit by more than one request, and by one     *)
(* more for each spurious wakeup, although AddRequest does not repeat its   *)
(* test after the wait: for any number of workers and any limit.            *)
THEOREM QueuesAreBounded == Spec => []QueueBound
<1>1. ASSUME TypeOK, Slack PROVE QueueBound
  <2> SUFFICES ASSUME NEW w \in Workers
               PROVE  Len(queue[w]) <= QueueMax + 1 + spurious
    BY DEF QueueBound
  <2>1. Load(w) <= QueueMax + 1 + spurious /\ Len(queue[w]) \in Nat
    BY <1>1, LoadParts
  <2> QED BY <1>1, <2>1, LoadParts DEF Load
<1>2. MgrInv => QueueBound
  BY <1>1 DEF MgrInv
<1> QED BY <1>2, InvHolds, PTL

-----------------------------------------------------------------------------
(* The refinement.                                                         *)

(* What OrderedService sees.                                                *)
Asked == [w \in Workers |-> hand[w] \o queue[w]]
Answers == picked \o rsp_queue

(* The initial states map to the service's.                                 *)
LEMMA ServiceInit == Init => Service!Init
<1> SUFFICES ASSUME Init PROVE Service!Init
  OBVIOUS
<1>1. << >> \o << >> = << >>
  OBVIOUS
<1> QED BY <1>1 DEF Init, Service!Init

(* A request that is not pushed yet is not asked.                           *)
LEMMA NotAsked ==
  ASSUME TypeOK, Numbered, NEW r \in Reqs, r.n > LastPushed
  PROVE  ~Service!Asked(r)
<1>1. r.n \in Int /\ LastPushed \in Int
  BY LastPushedType, ReqParts
<1>2. ASSUME NEW s \in Seq(Reqs), UpTo(s, LastPushed), NEW i \in 1..Len(s)
      PROVE  s[i] # r
  BY <1>1, <1>2 DEF UpTo
<1>3. ASSUME NEW s \in Seq(Reqs), NEW t \in Seq(Reqs),
             UpTo(s, LastPushed), UpTo(t, LastPushed), NEW i \in 1..Len(s \o t)
      PROVE  (s \o t)[i] # r
  <2>1. s \o t \in Seq(Reqs)
    BY ConcatProperties
  <2>2. UpTo(s \o t, LastPushed)
    <3>1. PICK m \in Int : m = LastPushed
      BY <1>1
    <3>2. UpTo(s, m) /\ UpTo(t, m)
      BY <1>3, <3>1
    <3>3. UpTo(s \o t, m)
      BY <3>2, UpToParts
    <3> QED BY <3>1, <3>3
  <2> QED BY <1>2, <1>3, <2>1, <2>2
<1>4. \A i \in 1..Len(picked \o rsp_queue) : (picked \o rsp_queue)[i] # r
  BY <1>3 DEF TypeOK, Numbered
<1>5. \A w \in Workers : \A i \in 1..Len(hand[w] \o queue[w]) :
        (hand[w] \o queue[w])[i] # r
  BY <1>3, HandParts DEF Numbered
<1> QED BY <1>4, <1>5 DEF Service!Asked

(* A push asks the service.                                                 *)
LEMMA PushAsks ==
  ASSUME TypeOK, Numbered, NEW r \in Reqs, r.n > LastPushed, Push(r),
         UNCHANGED << rsp_queue, hand, picked >>
  PROVE  Service!Next
<1>1. Work(r) \in Workers /\ queue' = [queue EXCEPT ![Work(r)] = Append(@, r)]
  BY ReqParts DEF Push
<1>2. ASSUME NEW w \in Workers
      PROVE  hand'[w] \o queue'[w]
               = IF w = Work(r) THEN Append(hand[w] \o queue[w], r)
                                ELSE hand[w] \o queue[w]
  <2>1. queue[w] \in Seq(Reqs) /\ hand[w] \in Seq(Reqs)
    BY HandParts
  <2>2. PICK h \in Seq(Reqs), q \in Seq(Reqs) : h = hand[w] /\ q = queue[w]
    BY <2>1
  <2>3. h \o Append(q, r) = Append(h \o q, r)
    BY AppendConcat
  <2>4. queue'[w] = IF w = Work(r) THEN Append(queue[w], r) ELSE queue[w]
    BY <1>1 DEF TypeOK
  <2> QED BY <2>2, <2>3, <2>4
<1>3. Asked' = [Asked EXCEPT ![Work(r)] = Append(@, r)]
  BY <1>1, <1>2 DEF Asked
<1>4. Answers' = Answers
  BY DEF Answers
<1>5. Service!Ask(Work(r), r)
  BY <1>3, <1>4, NotAsked DEF Service!Ask, Asked, Answers
<1> QED BY <1>1, <1>5 DEF Service!Next

(* To take a request from the queue in hand is not seen.                    *)
LEMMA PopIsUnseen ==
  ASSUME TypeOK, HandsEmpty, NEW w \in Workers,
         worker[w] \in {"lock", "wait", "woken"},
         \/ queue[w] # << >> /\ Pop(w)
         \/ queue' = queue /\ hand' = hand
         \/ queue' = queue /\ hand' = [hand EXCEPT ![w] = << >>],
         UNCHANGED << picked, rsp_queue >>
  PROVE  Asked' = Asked /\ Answers' = Answers
<1>1. hand[w] = << >> /\ queue[w] \in Seq(Reqs)
  BY HandParts DEF HandsEmpty
<1>2. << >> \o queue[w] = queue[w]
  BY <1>1
<1>3. CASE queue[w] # << >> /\ Pop(w)
  <2>1. << Head(queue[w]) >> \o Tail(queue[w]) = queue[w]
    BY <1>1, <1>3, HeadAndTail
  <2>2. /\ hand' = [hand EXCEPT ![w] = << Head(queue[w]) >>]
        /\ queue' = [queue EXCEPT ![w] = Tail(queue[w])]
    BY <1>3, PopParts
  <2>3. ASSUME NEW v \in Workers
        PROVE  hand'[v] \o queue'[v] = hand[v] \o queue[v]
    BY <1>1, <1>2, <2>1, <2>2 DEF TypeOK
  <2> QED BY <2>3 DEF Asked, Answers
<1>4. CASE queue' = queue /\ hand' = hand
  BY <1>4 DEF Asked, Answers
<1>5. CASE queue' = queue /\ hand' = [hand EXCEPT ![w] = << >>]
  <2>1. hand' = hand
    BY <1>1, <1>5 DEF TypeOK
  <2> QED BY <1>5, <2>1 DEF Asked, Answers
<1> QED BY <1>3, <1>4, <1>5

(* The response that a worker hands over is the service's answer.           *)
LEMMA ProcessAnswers ==
  ASSUME TypeOK, NEW w \in Workers, RunProcess(w)
  PROVE  Service!Next
<1>1. /\ hand[w] # << >> /\ hand[w] = << Head(hand[w]) >>
      /\ hand[w] \in Seq(Reqs) /\ queue[w] \in Seq(Reqs)
      /\ picked \in Seq(Reqs) /\ rsp_queue \in Seq(Reqs)
  BY HandParts DEF RunProcess, TypeOK
<1>2. PICK r \in Reqs : hand[w] = << r >>
  BY <1>1 DEF TypeOK
<1>3. /\ << r >> \o queue[w] # << >> /\ Head(<< r >> \o queue[w]) = r
      /\ Tail(<< r >> \o queue[w]) = queue[w]
  BY <1>1, PushFront
<1>4. Answers' = Append(Answers, r)
  <2>1. Answers' = picked \o (rsp_queue \o << r >>)
    BY <1>2 DEF RunProcess, Answers
  <2>2. picked \o (rsp_queue \o << r >>) = Append(picked \o rsp_queue, r)
    BY <1>1
  <2> QED BY <2>1, <2>2 DEF Answers
<1>5. Asked' = [Asked EXCEPT ![w] = Tail(@)]
  <2>1. hand' = [hand EXCEPT ![w] = << >>] /\ queue' = queue
    BY DEF RunProcess
  <2>2. << >> \o queue[w] = queue[w]
    BY <1>1
  <2>3. ASSUME NEW v \in Workers
        PROVE  hand'[v] \o queue'[v]
                 = IF v = w THEN Tail(hand[v] \o queue[v]) ELSE hand[v] \o queue[v]
    BY <1>2, <1>3, <2>1, <2>2 DEF TypeOK
  <2> QED BY <2>3 DEF Asked
<1>6. Asked[w] # << >> /\ Head(Asked[w]) = r
  BY <1>2, <1>3 DEF Asked
<1>7. Service!Answer(w)
  BY <1>4, <1>5, <1>6 DEF Service!Answer, Asked, Answers
<1> QED BY <1>7 DEF Service!Next

(* Every step is a step of the service or is not seen.                      *)
LEMMA ServiceStep ==
  TypeOK /\ HandsEmpty /\ Numbered /\ TypeOK' /\ [Next]_vars
    => [Service!Next]_(Service!serviceVars)
<1> SUFFICES ASSUME TypeOK, HandsEmpty, Numbered, TypeOK', [Next]_vars
             PROVE  Service!Next \/ (Asked' = Asked /\ Answers' = Answers)
  BY DEF Service!serviceVars, Asked, Answers
<1>0. LastPushed \in Int /\ added \in Int
  BY LastPushedType
<1>1. ASSUME NEW o \in OrderIds, AddRequest(o)
      PROVE  Service!Next \/ (Asked' = Asked /\ Answers' = Answers)
  <2>1. PICK r : r = [n |-> added + 1, orderid |-> o]
    OBVIOUS
  <2>2. r = req' /\ main = "free" /\ UNCHANGED << rsp_queue, hand, picked >>
    BY <1>1, <2>1 DEF AddRequest
  <2>3. CASE MustWait(r)
    <3>1. queue' = queue
      BY <1>1, <2>1, <2>3 DEF AddRequest
    <3> QED BY <2>2, <3>1 DEF Asked, Answers
  <2>4. CASE ~MustWait(r)
    <3>1. Push(r)
      BY <1>1, <2>1, <2>4 DEF AddRequest
    <3>2. r \in Reqs
      BY <2>2, <3>1 DEF Push, TypeOK
    <3>3. r.n > LastPushed
      BY <1>0, <2>1, <2>2 DEF LastPushed
    <3> QED BY <2>2, <3>1, <3>2, <3>3, PushAsks
  <2> QED BY <2>3, <2>4
<1>2. CASE AddRequestWoken
  <2>1. req \in Reqs /\ req.n > LastPushed
    BY <1>0, <1>2 DEF AddRequestWoken, TypeOK, Numbered, LastPushed
  <2>2. Push(req) /\ UNCHANGED << rsp_queue, hand, picked >>
    BY <1>2 DEF AddRequestWoken
  <2> QED BY <2>1, <2>2, PushAsks
<1>3. CASE Pick
  <2>1. /\ picked \in Seq(Reqs) /\ rsp_queue \in Seq(Reqs) /\ rsp_queue # << >>
        /\ picked' = Append(picked, Head(rsp_queue)) /\ rsp_queue' = Tail(rsp_queue)
    BY <1>3 DEF Pick, TypeOK
  <2>2. PICK h \in Reqs, t \in Seq(Reqs) :
          h = Head(rsp_queue) /\ t = Tail(rsp_queue) /\ << h >> \o t = rsp_queue
    BY <2>1, HeadAndTail
  <2>3. Append(picked, h) \o t = picked \o (<< h >> \o t)
    BY <2>1, <2>2
  <2>4. Answers' = Answers
    BY <2>1, <2>2, <2>3 DEF Answers
  <2> QED BY <1>3, <2>4 DEF Pick, Asked
<1>4. ASSUME NEW w \in Workers, RunLock(w) \/ RunWoken(w)
      PROVE  Asked' = Asked /\ Answers' = Answers
  <2>1. UNCHANGED << picked, rsp_queue >> /\ worker[w] \in {"lock", "wait", "woken"}
    BY <1>4 DEF RunLock, RunWoken
  <2>2. \/ queue[w] # << >> /\ Pop(w)
        \/ queue' = queue /\ hand' = hand
        \/ queue' = queue /\ hand' = [hand EXCEPT ![w] = << >>]
    BY <1>4 DEF RunLock, RunWoken
  <2> QED BY <2>1, <2>2, PopIsUnseen
<1>5. ASSUME NEW w \in Workers, RunProcess(w) PROVE Service!Next
  BY <1>5, ProcessAnswers
<1>6. ASSUME UNCHANGED << queue, hand, picked, rsp_queue >>
      PROVE  Asked' = Asked /\ Answers' = Answers
  BY <1>6 DEF Asked, Answers
<1>7. CASE AddRequestNotify \/ SpuriousWakeup \/ UNCHANGED vars
           \/ \E w \in Workers : RunNotify(w)
  BY <1>6, <1>7 DEF AddRequestNotify, SpuriousWakeup, vars, RunNotify
<1> QED BY <1>1, <1>2, <1>3, <1>4, <1>5, <1>7 DEF Next, Main, Run

(* The worker threads with their queues, the condition variable that each   *)
(* shares with the main thread, and wakeups that come too early or from     *)
(* nowhere implement a service that answers every request once and those    *)
(* of one worker in the order they came: no request is lost, doubled or     *)
(* overtaken between AddRequest and Pick, for any number of workers.        *)
THEOREM ThreadsImplementService == Spec => ImplementsService
<1>1. MgrInv /\ MgrInv' /\ [Next]_vars => [Service!Next]_(Service!serviceVars)
  BY ServiceStep DEF MgrInv
<1> QED BY ServiceInit, InvHolds, <1>1, PTL DEF Spec, ImplementsService, Service!Spec
=============================================================================
