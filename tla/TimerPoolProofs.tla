-------------------------- MODULE TimerPoolProofs ---------------------------
(***************************************************************************)
(* Proofs about the timing wheel, for any number and width of its buckets, *)
(* any lag of the clock and any number of timers.                          *)
(***************************************************************************)
EXTENDS TimerPool, TLAPS

-----------------------------------------------------------------------------
(* Division.  Turn and CalcBucket both divide, by different numbers.       *)

(* Quotient and remainder.                                                  *)
LEMMA Division ==
  ASSUME NEW a \in Nat, NEW d \in Nat \ {0}
  PROVE  /\ a \div d \in Nat /\ a % d \in Nat /\ a % d < d
         /\ a = d * (a \div d) + (a % d)
<1>1. a \div d \in Nat
  OBVIOUS
<1>2. \A x \in Nat : x % d \in 0..(d - 1)
  OBVIOUS
<1>3. a = d * (a \div d) + (a % d)
  OBVIOUS
<1> QED BY <1>1, <1>2, <1>3

(* The quotient is the only number with its property.                       *)
LEMMA Quotient ==
  ASSUME NEW a \in Nat, NEW d \in Nat \ {0}, NEW q \in Nat,
         d * q <= a, a < d * q + d
  PROVE  a \div d = q
OBVIOUS

(* The quotient grows with the dividend.                                    *)
LEMMA QuotientGrows ==
  ASSUME NEW a \in Nat, NEW b \in Nat, NEW d \in Nat \ {0}, a <= b
  PROVE  a \div d <= b \div d
OBVIOUS

(* To divide twice is to divide by the product.                             *)
LEMMA DivideTwice ==
  ASSUME NEW a \in Nat, NEW d \in Nat \ {0}, NEW e \in Nat \ {0}
  PROVE  (a \div d) \div e = a \div (d * e)
OBVIOUS

-----------------------------------------------------------------------------
(* The wheel.                                                              *)

(* Every time has a bucket and a turn, and turns follow each other.         *)
LEMMA WheelParts ==
  /\ \A a \in Nat : CalcBucket(a) \in Indices /\ Turn(a) \in Nat
  /\ \A a, b \in Nat : a <= b => Turn(a) <= Turn(b)
<1>1. Gran * N \in Nat \ {0}
  BY WheelAssumption
<1>2. ASSUME NEW a \in Nat PROVE CalcBucket(a) \in Indices
  <2>1. PICK q \in Nat : q = a \div Gran
    BY WheelAssumption, Division
  <2>2. q % N \in 0..(N - 1)
    BY WheelAssumption
  <2> QED BY <2>1, <2>2 DEF CalcBucket, Indices
<1>3. \A a \in Nat : Turn(a) \in Nat
  BY <1>1, Division DEF Turn
<1>4. \A a, b \in Nat : a <= b => Turn(a) <= Turn(b)
  BY <1>1, QuotientGrows DEF Turn
<1> QED BY <1>2, <1>3, <1>4

(* Within a turn of the wheel the buckets are in the order of the times.    *)
LEMMA SameTurn ==
  ASSUME NEW a \in Nat, NEW b \in Nat, a <= b, Turn(a) = Turn(b)
  PROVE  CalcBucket(a) <= CalcBucket(b)
<1>1. PICK q \in Nat, r \in Nat : q = a \div Gran /\ r = b \div Gran
  BY WheelAssumption, Division
<1>2. q <= r
  BY <1>1, WheelAssumption, QuotientGrows
<1>3. q \div N = Turn(a) /\ r \div N = Turn(b)
  BY <1>1, WheelAssumption, DivideTwice DEF Turn
<1>4. PICK p \in Nat : p = q \div N /\ p = r \div N
  BY <1>3, WheelAssumption, Division
<1>5. q = N * p + (q % N) /\ r = N * p + (r % N)
  BY <1>4, WheelAssumption, Division
<1>6. q % N \in Nat /\ r % N \in Nat /\ N * p \in Nat
  BY WheelAssumption, Division
<1>7. q % N <= r % N
  <2>1. PICK x \in Nat, y \in Nat, z \in Nat : x = N * p /\ y = q % N /\ z = r % N
    BY <1>6
  <2>2. q = x + y /\ r = x + z
    BY <1>5, <2>1
  <2>3. y <= z
    BY <1>2, <2>2
  <2> QED BY <2>1, <2>3
<1> QED BY <1>1, <1>7 DEF CalcBucket

(* The fields of a node.                                                    *)
LEMMA NodeParts ==
  ASSUME NEW n \in Nodes
  PROVE  n.timer_id \in 1..MaxTimers /\ n.timer_id \in Nat /\ n.expire \in Nat
<1>1. MaxNow + N * Gran \in Nat
  BY WheelAssumption, HorizonAssumption
<1>2. n.timer_id \in 1..MaxTimers /\ n.expire \in 1..(MaxNow + N * Gran)
  BY DEF Nodes
<1> QED BY <1>1, <1>2, HorizonAssumption

-----------------------------------------------------------------------------
(* The invariant.                                                          *)

(* A node is filed under its expiry.                                        *)
Filed == \A b \in Indices : \A n \in bucket[b] : CalcBucket(n.expire) = b

(* The nodes about to be called back are due, and from the bucket visited   *)
(* last.                                                                    *)
Listed == \A n \in nodelist : n.expire <= at /\ CalcBucket(n.expire) = s_idx - 1

(* Between two calls of Update the cursor is at the bucket of the last one, *)
(* and nothing is left to call back; during a call that bucket is the last. *)
InStep ==
  /\ at <= now
  /\ pc = "idle" => nodelist = {} /\ cursor = CalcBucket(at)
  /\ pc # "idle" => e_idx = CalcBucket(at)

(* A timer of an earlier turn that is still stored was due when the wheel   *)
(* started over.                                                            *)
ThisTurn ==
  \A b \in Indices : \A n \in bucket[b] :
    n \in skipped \/ Turn(at) <= Turn(n.expire)

WheelInv ==
  TypeOK /\ Filed /\ Listed /\ InStep /\ ThisTurn /\ Accounted /\ AheadOfSweep

(* The two parts of Accounted.                                              *)
Apart ==
  /\ Stored \cap nodelist = {} /\ Stored \cap fired = {}
  /\ Stored \cap cancelled = {} /\ Stored \cap dropped = {}
  /\ nodelist \cap fired = {} /\ nodelist \cap cancelled = {}
  /\ nodelist \cap dropped = {} /\ fired \cap cancelled = {}
  /\ fired \cap dropped = {} /\ cancelled \cap dropped = {}

Everywhere == Stored \cup nodelist \cup fired \cup cancelled \cup dropped

IdsExact == {n.timer_id : n \in Everywhere} = 1..(cur_timer_id - 1)

(* Accounted, without the tuple of places.                                  *)
LEMMA AccountedParts == Accounted <=> Apart /\ IdsExact
<1> DEFINE P == << Stored, nodelist, fired, cancelled, dropped >>
<1>1. /\ P[1] = Stored /\ P[2] = nodelist /\ P[3] = fired
      /\ P[4] = cancelled /\ P[5] = dropped
  OBVIOUS
<1> HIDE DEF P
<1>2. (\A i, j \in 1..5 : i # j => P[i] \cap P[j] = {}) <=> Apart
  <2>1. ASSUME \A i, j \in 1..5 : i # j => P[i] \cap P[j] = {} PROVE Apart
    BY <1>1, <2>1 DEF Apart
  <2>2. ASSUME Apart, NEW i \in 1..5, NEW j \in 1..5, i # j
        PROVE  P[i] \cap P[j] = {}
    <3>1. i \in {1, 2, 3, 4, 5} /\ j \in {1, 2, 3, 4, 5}
      OBVIOUS
    <3>2. \A S, T : S \cap T = T \cap S
      OBVIOUS
    <3> QED BY <1>1, <2>2, <3>1, <3>2 DEF Apart
  <2> QED BY <2>1, <2>2
<1>3. UNION {P[i] : i \in 1..5} = Everywhere
  <2>1. 1..5 = {1, 2, 3, 4, 5}
    OBVIOUS
  <2>2. UNION {P[i] : i \in {1, 2, 3, 4, 5}} = P[1] \cup P[2] \cup P[3] \cup P[4] \cup P[5]
    OBVIOUS
  <2> QED BY <1>1, <2>1, <2>2 DEF Everywhere
<1> QED BY <1>2, <1>3 DEF Accounted, IdsExact, P

(* The invariant holds at the start.                                        *)
LEMMA InitInv == Init => WheelInv
<1> SUFFICES ASSUME Init PROVE WheelInv
  OBVIOUS
<1>1. 0 \in Indices /\ CalcBucket(0) = 0
  <2>1. 0 \div Gran = 0 /\ 0 % N = 0
    BY WheelAssumption
  <2> QED BY <2>1, WheelAssumption DEF CalcBucket, Indices
<1>2. TypeOK
  <2>1. 1 \in 1..(MaxTimers + 1) /\ 0 \in 0..MaxNow /\ 0 \in 0..N
    BY WheelAssumption, HorizonAssumption
  <2> QED BY <1>1, <2>1 DEF Init, TypeOK
<1>3. Filed /\ Listed /\ InStep /\ ThisTurn /\ AheadOfSweep
  BY <1>1 DEF Init, Filed, Listed, InStep, ThisTurn, AheadOfSweep
<1>4. Stored = {}
  BY DEF Init, Stored
<1>5. Apart
  BY <1>4 DEF Init, Apart
<1>6. IdsExact
  BY <1>4 DEF Init, IdsExact, Everywhere
<1> QED BY <1>2, <1>3, <1>5, <1>6, AccountedParts DEF WheelInv

(* What the types say of the numbers.                                       *)
LEMMA Numbers ==
  ASSUME TypeOK
  PROVE  /\ now \in Nat /\ at \in Nat /\ s_idx \in Nat /\ e_idx \in Indices
         /\ e_idx \in Nat /\ cur_timer_id \in Nat \ {0}
         /\ \A b \in Indices : b \in Nat /\ bucket[b] \subseteq Nodes
BY WheelAssumption, HorizonAssumption DEF TypeOK, Indices

(* A stored node lies in the bucket of its expiry.                          *)
LEMMA StoredParts ==
  ASSUME TypeOK, Filed
  PROVE  \A n : n \in Stored <=>
           n \in Nodes /\ CalcBucket(n.expire) \in Indices
             /\ n \in bucket[CalcBucket(n.expire)]
<1>1. \A n : n \in Stored <=> \E b \in Indices : n \in bucket[b]
  BY DEF Stored
<1>2. \A b \in Indices : bucket[b] \subseteq Nodes
  BY DEF TypeOK
<1> QED BY <1>1, <1>2 DEF Filed

-----------------------------------------------------------------------------
(* The operations.                                                         *)

(* The node AddTimer makes, and where it goes: among the stored ones or the *)
(* dropped ones.                                                            *)
LEMMA AddTimerParts ==
  ASSUME WheelInv, NEW interval \in 1..(N * Gran), AddTimer(interval)
  PROVE  \E node \in Nodes :
           /\ node.timer_id = cur_timer_id /\ node.expire > now
           /\ CalcBucket(node.expire) \in Indices
           /\ \/ /\ dropped' = dropped \cup {node}
                 /\ bucket' = bucket
              \/ /\ bucket' = [bucket EXCEPT ![CalcBucket(node.expire)] = @ \cup {node}]
                 /\ dropped' = dropped
           /\ cur_timer_id' = cur_timer_id + 1 /\ cur_timer_id' \in 1..(MaxTimers + 1)
           /\ UNCHANGED << now, sweepVars, fired, cancelled >>
<1>1. PICK node : node = [timer_id |-> cur_timer_id, expire |-> now + interval]
  OBVIOUS
<1>2. cur_timer_id \in 1..MaxTimers /\ cur_timer_id + 1 \in 1..(MaxTimers + 1)
  BY HorizonAssumption DEF WheelInv, TypeOK, AddTimer
<1>3. /\ now + interval \in 1..(MaxNow + N * Gran) /\ now + interval > now
      /\ now + interval \in Nat
  <2>1. PICK h \in Nat : h = N * Gran
    BY WheelAssumption
  <2>2. now \in Nat /\ now <= MaxNow /\ interval \in Nat /\ interval >= 1 /\ interval <= h
    BY <2>1, HorizonAssumption DEF WheelInv, TypeOK
  <2> QED BY <2>1, <2>2, HorizonAssumption
<1>4. node.timer_id = cur_timer_id /\ node.expire = now + interval
  BY <1>1
<1>5. node \in Nodes
  BY <1>1, <1>2, <1>3 DEF Nodes
<1>6. CalcBucket(node.expire) \in Indices
  BY <1>3, <1>4, WheelParts
<1>7. Insert(node) /\ cur_timer_id' = cur_timer_id + 1
      /\ UNCHANGED << now, sweepVars, fired, cancelled >>
  BY <1>1 DEF AddTimer
<1> QED BY <1>2, <1>3, <1>4, <1>5, <1>6, <1>7 DEF Insert

(* The nodes a round of the sweep takes out of a bucket.                    *)
LEMMA VisitParts ==
  ASSUME TypeOK, VisitBucket
  PROVE  /\ s_idx \in Indices /\ s_idx <= e_idx /\ s_idx \in Nat /\ s_idx + 1 \in 0..N
         /\ bucket' = [bucket EXCEPT ![s_idx] = @ \ Due(s_idx)]
         /\ nodelist' = Due(s_idx) /\ nodelist = {} /\ s_idx' = s_idx + 1
         /\ Due(s_idx) \subseteq bucket[s_idx]
<1>1. s_idx \in 0..N /\ e_idx \in 0..(N - 1) /\ s_idx <= e_idx
  BY DEF TypeOK, VisitBucket, SweepOn, Indices
<1>2. s_idx \in 0..(N - 1) /\ s_idx \in Nat /\ s_idx + 1 \in 0..N
  BY <1>1, WheelAssumption
<1> QED BY <1>1, <1>2 DEF VisitBucket, Due, Indices

-----------------------------------------------------------------------------
(* Steps: the types.                                                       *)
LEMMA TypesStep == WheelInv /\ [Next]_vars => TypeOK'
<1> SUFFICES ASSUME WheelInv, [Next]_vars PROVE TypeOK'
  OBVIOUS
<1>0. TypeOK
  BY DEF WheelInv
<1> USE <1>0
<1>1. CASE Clock
  <2>1. now' \in 0..MaxNow
    BY <1>1, HorizonAssumption DEF Clock, TypeOK
  <2> QED BY <1>1, <2>1 DEF Clock, TypeOK
<1>2. ASSUME NEW interval \in 1..(N * Gran), AddTimer(interval) PROVE TypeOK'
  <2>1. PICK node \in Nodes :
          /\ CalcBucket(node.expire) \in Indices
          /\ \/ /\ dropped' = dropped \cup {node}
                /\ bucket' = bucket
             \/ /\ bucket' = [bucket EXCEPT ![CalcBucket(node.expire)] = @ \cup {node}]
                /\ dropped' = dropped
          /\ cur_timer_id' \in 1..(MaxTimers + 1)
          /\ UNCHANGED << now, sweepVars, fired, cancelled >>
    BY <1>2, AddTimerParts
  <2>2. bucket' \in [Indices -> SUBSET Nodes] /\ dropped' \subseteq Nodes
    BY <2>1 DEF TypeOK
  <2>3. pc \in {"idle", "callback"}
    BY <1>2 DEF AddTimer
  <2> QED BY <2>1, <2>2, <2>3 DEF TypeOK, sweepVars
<1>3. ASSUME NEW n \in Stored, CancelTimer(n) PROVE TypeOK'
  <2>1. n \in Nodes /\ CalcBucket(n.expire) \in Indices
    BY StoredParts DEF WheelInv
  <2>2. bucket' \in [Indices -> SUBSET Nodes] /\ cancelled' \subseteq Nodes
    BY <1>3, <2>1 DEF CancelTimer, TypeOK
  <2> QED BY <1>3, <2>2 DEF CancelTimer, sweepVars, TypeOK
<1>4. ASSUME NEW t \in 0..MaxNow, UpdateBegin(t) PROVE TypeOK'
  <2>1. t \in Nat /\ CalcBucket(t) \in Indices
    BY WheelParts, HorizonAssumption
  <2>2. Stored \subseteq Nodes
    BY DEF Stored, TypeOK
  <2>3. skipped' \subseteq Nodes
    BY <1>4, <2>2 DEF UpdateBegin, TypeOK
  <2>4. s_idx' \in 0..N
    BY <1>4, WheelAssumption DEF UpdateBegin, TypeOK, Indices
  <2> QED BY <1>4, <2>1, <2>3, <2>4 DEF UpdateBegin, TypeOK
<1>5. CASE VisitBucket
  <2>1. bucket' \in [Indices -> SUBSET Nodes] /\ nodelist' \subseteq Nodes
    BY <1>5, VisitParts DEF TypeOK
  <2>2. s_idx' \in 0..N
    BY <1>5, VisitParts
  <2> QED BY <1>5, <2>1, <2>2 DEF VisitBucket, TypeOK
<1>6. ASSUME NEW n \in nodelist, Callback(n) PROVE TypeOK'
  BY <1>6 DEF Callback, TypeOK
<1>7. CASE UpdateEnd
  BY <1>7 DEF UpdateEnd, TypeOK
<1>8. CASE UNCHANGED vars
  BY <1>8 DEF vars, TypeOK
<1> QED BY <1>1, <1>2, <1>3, <1>4, <1>5, <1>6, <1>7, <1>8 DEF Next

(* Steps: where nodes lie and the sweep is.                                 *)
LEMMA PlacesStep ==
  WheelInv /\ TypeOK' /\ [Next]_vars => Filed' /\ Listed' /\ InStep'
<1> SUFFICES ASSUME WheelInv, TypeOK', [Next]_vars
             PROVE  Filed' /\ Listed' /\ InStep'
  OBVIOUS
<1>0. TypeOK /\ Filed /\ Listed /\ InStep
  BY DEF WheelInv
<1> USE <1>0
<1>1. CASE Clock
  <2>1. at <= now'
    BY <1>1, Numbers DEF Clock, InStep, TypeOK
  <2> QED BY <1>1, <2>1 DEF Clock, Filed, Listed, InStep
<1>2. ASSUME NEW interval \in 1..(N * Gran), AddTimer(interval)
      PROVE  Filed' /\ Listed' /\ InStep'
  <2>1. PICK node \in Nodes :
          /\ CalcBucket(node.expire) \in Indices
          /\ \/ bucket' = bucket
             \/ bucket' = [bucket EXCEPT ![CalcBucket(node.expire)] = @ \cup {node}]
          /\ UNCHANGED << now, sweepVars >>
    BY <1>2, AddTimerParts
  <2>2. Filed'
    BY <2>1 DEF Filed, TypeOK
  <2> QED BY <2>1, <2>2 DEF sweepVars, Listed, InStep
<1>3. ASSUME NEW n \in Stored, CancelTimer(n) PROVE Filed' /\ Listed' /\ InStep'
  <2>1. Filed'
    BY <1>3 DEF CancelTimer, Filed, TypeOK
  <2> QED BY <1>3, <2>1 DEF CancelTimer, sweepVars, Listed, InStep
<1>4. ASSUME NEW t \in 0..MaxNow, UpdateBegin(t) PROVE Filed' /\ Listed' /\ InStep'
  <2>1. t <= now
    BY <1>4, Numbers DEF UpdateBegin
  <2> QED BY <1>4, <2>1 DEF UpdateBegin, Filed, Listed, InStep
<1>5. CASE VisitBucket
  <2>1. Filed'
    BY <1>5, VisitParts DEF Filed, TypeOK
  <2>2. ASSUME NEW n \in Due(s_idx)
        PROVE  n.expire <= at /\ CalcBucket(n.expire) = s_idx' - 1
    BY <1>5, VisitParts DEF Due, Filed
  <2>3. nodelist' = Due(s_idx) /\ at' = at
    BY <1>5 DEF VisitBucket
  <2>4. Listed'
    BY <2>2, <2>3 DEF Listed
  <2> QED BY <1>5, <2>1, <2>4 DEF VisitBucket, InStep
<1>6. ASSUME NEW n \in nodelist, Callback(n) PROVE Filed' /\ Listed' /\ InStep'
  BY <1>6 DEF Callback, Filed, Listed, InStep
<1>7. CASE UpdateEnd
  BY <1>7 DEF UpdateEnd, Filed, Listed, InStep
<1>8. CASE UNCHANGED vars
  BY <1>8 DEF vars, Filed, Listed, InStep
<1> QED BY <1>1, <1>2, <1>3, <1>4, <1>5, <1>6, <1>7, <1>8 DEF Next

(* Steps: what is stored is of the turn of the last Update, or was due when *)
(* the turn changed.                                                        *)
LEMMA TurnStep == WheelInv /\ TypeOK' /\ [Next]_vars => ThisTurn'
<1> SUFFICES ASSUME WheelInv, TypeOK', [Next]_vars,
                    NEW b \in Indices, NEW n \in bucket'[b]
             PROVE  n \in skipped' \/ Turn(at') <= Turn(n.expire)
  BY DEF ThisTurn
<1>0. TypeOK /\ ThisTurn /\ InStep
  BY DEF WheelInv
<1>1. n \in Nodes /\ n.expire \in Nat /\ at \in Nat /\ now \in Nat
  <2>1. n \in Nodes
    BY DEF TypeOK
  <2> QED BY <1>0, <2>1, NodeParts, Numbers
<1>2. CASE n \in bucket[b] /\ at' = at /\ skipped' = skipped
  BY <1>0, <1>2 DEF ThisTurn
<1>3. ASSUME NEW interval \in 1..(N * Gran), AddTimer(interval)
      PROVE  n \in skipped' \/ Turn(at') <= Turn(n.expire)
  <2>1. PICK node \in Nodes :
          /\ node.expire > now
          /\ CalcBucket(node.expire) \in Indices
          /\ \/ bucket' = bucket
             \/ bucket' = [bucket EXCEPT ![CalcBucket(node.expire)] = @ \cup {node}]
          /\ UNCHANGED << now, sweepVars >>
    BY <1>3, AddTimerParts
  <2>2. n \in bucket[b] \/ n = node
    BY <1>0, <2>1 DEF TypeOK
  <2>3. at' = at /\ skipped' = skipped
    BY <2>1 DEF sweepVars
  <2>4. CASE n = node
    <3>1. at <= n.expire
      BY <1>0, <1>1, <2>1, <2>4 DEF InStep
    <3> QED BY <1>1, <2>3, <3>1, WheelParts
  <2> QED BY <1>2, <2>2, <2>3, <2>4
<1>4. ASSUME NEW t \in 0..MaxNow, UpdateBegin(t)
      PROVE  n \in skipped' \/ Turn(at') <= Turn(n.expire)
  <2>1. n \in bucket[b] /\ at' = t /\ t \in Nat /\ n \in Stored
    BY <1>4, HorizonAssumption DEF UpdateBegin, Stored
  <2>2. CASE Turn(t) = Turn(at)
    BY <1>0, <1>4, <2>1, <2>2 DEF UpdateBegin, ThisTurn
  <2>3. CASE Turn(t) # Turn(at) /\ n.expire <= t
    BY <1>4, <2>1, <2>3 DEF UpdateBegin
  <2>4. CASE ~(n.expire <= t)
    <3>1. t <= n.expire
      BY <1>1, <2>1, <2>4
    <3> QED BY <1>1, <2>1, <3>1, WheelParts
  <2> QED BY <2>2, <2>3, <2>4
<1>5. ASSUME NEW m \in Stored, CancelTimer(m) PROVE n \in bucket[b]
  BY <1>0, <1>5 DEF CancelTimer, TypeOK
<1>6. CASE VisitBucket
  <2>1. n \in bucket[b]
    BY <1>0, <1>6, VisitParts DEF TypeOK
  <2> QED BY <1>2, <1>6, <2>1 DEF VisitBucket
<1>7. ASSUME UNCHANGED bucket PROVE n \in bucket[b]
  BY <1>7
<1>8. CASE Clock \/ UpdateEnd \/ UNCHANGED vars
  BY <1>2, <1>7, <1>8 DEF Clock, UpdateEnd, vars
<1>9. ASSUME NEW m \in nodelist, Callback(m) PROVE n \in bucket[b]
  BY <1>7, <1>9 DEF Callback
<1> QED BY <1>2, <1>3, <1>4, <1>5, <1>6, <1>8, <1>9
        DEF Next, CancelTimer, Callback, sweepVars

(* A timer the next sweep has to call back lies ahead of the cursor.        *)
LEMMA Ahead ==
  ASSUME NEW a \in Nat, NEW t \in Nat, NEW e \in Nat,
         a <= e, e <= t, Turn(a) = Turn(t)
  PROVE  CalcBucket(a) <= CalcBucket(e) /\ CalcBucket(e) <= CalcBucket(t)
<1>1. Turn(a) <= Turn(e) /\ Turn(e) <= Turn(t)
  BY WheelParts
<1>2. Turn(a) \in Nat /\ Turn(e) \in Nat /\ Turn(t) \in Nat
  BY WheelParts
<1>3. Turn(a) = Turn(e) /\ Turn(e) = Turn(t)
  BY <1>1, <1>2
<1> QED BY <1>3, SameTurn

(* Steps: what is due lies ahead of the sweep.                              *)
LEMMA AheadStep == WheelInv /\ TypeOK' /\ [Next]_vars => AheadOfSweep'
<1> DEFINE OK(n, b) == \/ n.expire > at' \/ n \in skipped'
                       \/ pc' # "idle" /\ s_idx' <= b /\ b <= e_idx'
<1> SUFFICES ASSUME WheelInv, TypeOK', [Next]_vars,
                    NEW b \in Indices, NEW n \in bucket'[b]
             PROVE  OK(n, b)
  BY DEF AheadOfSweep
<1>0. TypeOK /\ AheadOfSweep /\ InStep /\ Filed
  BY DEF WheelInv
<1>1. /\ n \in Nodes /\ n.expire \in Nat /\ at \in Nat /\ now \in Nat
      /\ b \in Nat /\ s_idx \in Nat /\ e_idx \in Nat
  <2>1. n \in Nodes
    BY DEF TypeOK
  <2> QED BY <1>0, <2>1, NodeParts, Numbers
<1>2. ASSUME n \in bucket[b], UNCHANGED << at, skipped, s_idx, e_idx >>,
             pc = "idle" <=> pc' = "idle"
      PROVE  OK(n, b)
  BY <1>0, <1>2 DEF AheadOfSweep
<1>3. ASSUME NEW interval \in 1..(N * Gran), AddTimer(interval)
      PROVE  OK(n, b)
  <2>1. PICK node \in Nodes :
          /\ node.expire > now
          /\ CalcBucket(node.expire) \in Indices
          /\ \/ bucket' = bucket
             \/ bucket' = [bucket EXCEPT ![CalcBucket(node.expire)] = @ \cup {node}]
          /\ UNCHANGED << now, sweepVars >>
    BY <1>3, AddTimerParts
  <2>2. n \in bucket[b] \/ n = node
    BY <1>0, <2>1 DEF TypeOK
  <2>3. CASE n = node
    <3>1. n.expire > at
      BY <1>0, <1>1, <2>1, <2>3 DEF InStep
    <3> QED BY <2>1, <3>1 DEF sweepVars
  <2> QED BY <1>2, <2>1, <2>2, <2>3 DEF sweepVars
<1>4. ASSUME NEW t \in 0..MaxNow, UpdateBegin(t) PROVE OK(n, b)
  <2>1. /\ n \in bucket[b] /\ at' = t /\ t \in Nat /\ n \in Stored /\ pc = "idle"
        /\ pc' = "sweep" /\ s_idx' = cursor /\ e_idx' = CalcBucket(t)
        /\ skipped \subseteq skipped'
    BY <1>4, HorizonAssumption DEF UpdateBegin, Stored
  <2>2. n.expire > at \/ n \in skipped
    BY <1>0, <2>1 DEF AheadOfSweep
  <2>3. CASE n.expire > t \/ n \in skipped
    BY <2>1, <2>3
  <2>4. CASE Turn(t) # Turn(at) /\ n.expire <= t
    BY <1>4, <2>1, <2>4 DEF UpdateBegin
  <2>5. CASE Turn(t) = Turn(at) /\ n.expire <= t /\ n.expire > at
    <3>1. at <= n.expire
      BY <1>1, <2>5
    <3>2. CalcBucket(at) <= CalcBucket(n.expire) /\ CalcBucket(n.expire) <= CalcBucket(t)
      BY <1>1, <2>1, <2>5, <3>1, Ahead
    <3>3. CalcBucket(n.expire) = b /\ cursor = CalcBucket(at)
      BY <1>0, <2>1 DEF Filed, InStep
    <3> QED BY <2>1, <3>2, <3>3
  <2>6. n.expire > t \/ n.expire <= t
    BY <1>1, <2>1
  <2> QED BY <2>2, <2>3, <2>4, <2>5, <2>6
<1>5. CASE VisitBucket
  <2>1. /\ n \in bucket[b] /\ at' = at /\ skipped' = skipped /\ e_idx' = e_idx
        /\ s_idx' = s_idx + 1 /\ pc' # "idle"
    BY <1>0, <1>5, VisitParts DEF VisitBucket, TypeOK
  <2>2. CASE b = s_idx
    <3>1. n \notin Due(s_idx)
      BY <1>0, <1>5, <2>2, VisitParts DEF TypeOK
    <3>2. n.expire > at
      BY <1>1, <2>1, <2>2, <3>1 DEF Due
    <3> QED BY <2>1, <3>2
  <2>3. CASE b # s_idx
    <3>1. n.expire > at \/ n \in skipped \/ (s_idx <= b /\ b <= e_idx)
      BY <1>0, <2>1 DEF AheadOfSweep
    <3>2. s_idx <= b => s_idx + 1 <= b
      BY <1>1, <2>3
    <3> QED BY <2>1, <3>1, <3>2
  <2> QED BY <2>2, <2>3
<1>6. CASE UpdateEnd
  <2>1. ~(s_idx <= e_idx) /\ UNCHANGED << bucket, at, skipped >>
    BY <1>6 DEF UpdateEnd, SweepOn
  <2>2. ~(s_idx <= b /\ b <= e_idx)
    BY <1>1, <2>1
  <2> QED BY <1>0, <2>1, <2>2 DEF AheadOfSweep
<1>7. ASSUME NEW m \in Stored, CancelTimer(m) PROVE OK(n, b)
  <2>1. n \in bucket[b]
    BY <1>0, <1>7 DEF CancelTimer, TypeOK
  <2> QED BY <1>2, <1>7, <2>1 DEF CancelTimer, sweepVars
<1>8. ASSUME NEW m \in nodelist, Callback(m) PROVE OK(n, b)
  <2>1. n \in bucket[b] /\ pc # "idle" /\ pc' # "idle"
    BY <1>8 DEF Callback
  <2> QED BY <1>2, <1>8, <2>1 DEF Callback
<1>9. CASE Clock \/ UNCHANGED vars
  BY <1>2, <1>9 DEF Clock, vars
<1> QED BY <1>3, <1>4, <1>5, <1>6, <1>7, <1>8, <1>9 DEF Next

(* Accounted is preserved when a set of nodes moves from one place to       *)
(* another; here the ids are all that matters.                              *)
LEMMA SameIds ==
  ASSUME IdsExact, Everywhere' = Everywhere, cur_timer_id' = cur_timer_id
  PROVE  IdsExact'
BY DEF IdsExact

(* Steps: every timer is in exactly one place.                              *)
LEMMA AccountedStep == WheelInv /\ TypeOK' /\ [Next]_vars => Accounted'
<1> SUFFICES ASSUME WheelInv, TypeOK', [Next]_vars PROVE Apart' /\ IdsExact'
  <2>1. (Accounted <=> Apart /\ IdsExact)'
    BY AccountedParts, PTL
  <2> QED BY <2>1
<1>0. TypeOK /\ Filed /\ Apart /\ IdsExact
  BY AccountedParts DEF WheelInv
<1>1. ASSUME UNCHANGED << bucket, nodelist, fired, cancelled, dropped, cur_timer_id >>
      PROVE  Apart' /\ IdsExact'
  BY <1>0, <1>1 DEF Apart, IdsExact, Everywhere, Stored
<1>2. ASSUME NEW interval \in 1..(N * Gran), AddTimer(interval)
      PROVE  Apart' /\ IdsExact'
  <2>1. PICK node \in Nodes :
          /\ node.timer_id = cur_timer_id
          /\ CalcBucket(node.expire) \in Indices
          /\ \/ /\ dropped' = dropped \cup {node}
                /\ bucket' = bucket
             \/ /\ bucket' = [bucket EXCEPT ![CalcBucket(node.expire)] = @ \cup {node}]
                /\ dropped' = dropped
          /\ cur_timer_id' = cur_timer_id + 1
          /\ UNCHANGED << now, sweepVars, fired, cancelled >>
    BY <1>2, AddTimerParts
  <2>2. node \notin Everywhere
    <3>1. cur_timer_id \in Nat \ {0}
      BY <1>0, Numbers
    <3>2. cur_timer_id \notin 1..(cur_timer_id - 1)
      BY <3>1
    <3> QED BY <1>0, <2>1, <3>2 DEF IdsExact
  <2>3. \/ dropped' = dropped \cup {node} /\ Stored' = Stored
        \/ dropped' = dropped /\ Stored' = Stored \cup {node}
    <3>1. CASE dropped' = dropped \cup {node} /\ bucket' = bucket
      BY <3>1 DEF Stored
    <3>2. CASE dropped' = dropped /\
               bucket' = [bucket EXCEPT ![CalcBucket(node.expire)] = @ \cup {node}]
      <4>1. \A b \in Indices :
              bucket'[b] = IF b = CalcBucket(node.expire) THEN bucket[b] \cup {node}
                                                         ELSE bucket[b]
        BY <1>0, <3>2 DEF TypeOK
      <4>2. Stored' = Stored \cup {node}
        BY <2>1, <4>1 DEF Stored
      <4> QED BY <3>2, <4>2
    <3> QED BY <2>1, <3>1, <3>2
  <2>4. nodelist' = nodelist /\ fired' = fired /\ cancelled' = cancelled
    BY <2>1 DEF sweepVars
  <2>5. Apart'
    BY <1>0, <2>2, <2>3, <2>4 DEF Apart, Everywhere
  <2>6. Everywhere' = Everywhere \cup {node}
    BY <2>3, <2>4 DEF Everywhere
  <2>7. {n.timer_id : n \in Everywhere'} = {n.timer_id : n \in Everywhere} \cup {cur_timer_id}
    BY <2>1, <2>6
  <2>8. 1..(cur_timer_id' - 1) = (1..(cur_timer_id - 1)) \cup {cur_timer_id}
    <3>1. cur_timer_id \in Nat \ {0}
      BY <1>0, Numbers
    <3> QED BY <2>1, <3>1
  <2> QED BY <1>0, <2>5, <2>7, <2>8 DEF IdsExact
<1>3. ASSUME NEW n \in Stored, CancelTimer(n) PROVE Apart' /\ IdsExact'
  <2>1. n \in bucket[CalcBucket(n.expire)] /\ CalcBucket(n.expire) \in Indices
    BY <1>0, StoredParts
  <2>2. \A b \in Indices :
          bucket'[b] = IF b = CalcBucket(n.expire) THEN bucket[b] \ {n} ELSE bucket[b]
    BY <1>0, <1>3 DEF CancelTimer, TypeOK
  <2>3. \A b \in Indices : bucket'[b] = bucket[b] \ {n}
    BY <1>0, <2>2 DEF Filed
  <2>4. Stored' = Stored \ {n}
    BY <2>3 DEF Stored
  <2>5. /\ cancelled' = cancelled \cup {n} /\ nodelist' = nodelist /\ fired' = fired
        /\ dropped' = dropped /\ cur_timer_id' = cur_timer_id
    BY <1>3 DEF CancelTimer, sweepVars
  <2>6. Apart'
    BY <1>0, <1>3, <2>4, <2>5 DEF Apart
  <2>7. Everywhere' = Everywhere
    BY <1>3, <2>4, <2>5 DEF Everywhere
  <2> QED BY <1>0, <2>5, <2>6, <2>7, SameIds
<1>4. CASE VisitBucket
  <2>1. /\ s_idx \in Indices /\ bucket' = [bucket EXCEPT ![s_idx] = @ \ Due(s_idx)]
        /\ nodelist' = Due(s_idx) /\ nodelist = {}
        /\ Due(s_idx) \subseteq bucket[s_idx]
    BY <1>0, <1>4, VisitParts
  <2>2. \A b \in Indices :
          bucket'[b] = IF b = s_idx THEN bucket[b] \ Due(s_idx) ELSE bucket[b]
    BY <1>0, <2>1 DEF TypeOK
  <2>3. \A b \in Indices : bucket'[b] = bucket[b] \ Due(s_idx)
    BY <1>0, <2>1, <2>2 DEF Filed
  <2>4. Stored' = Stored \ Due(s_idx) /\ Due(s_idx) \subseteq Stored
    BY <2>1, <2>3 DEF Stored
  <2>5. /\ cancelled' = cancelled /\ fired' = fired
        /\ dropped' = dropped /\ cur_timer_id' = cur_timer_id
    BY <1>4 DEF VisitBucket
  <2>6. Apart'
    BY <1>0, <2>1, <2>4, <2>5 DEF Apart
  <2>7. Everywhere' = Everywhere
    BY <2>1, <2>4, <2>5 DEF Everywhere
  <2> QED BY <1>0, <2>5, <2>6, <2>7, SameIds
<1>5. ASSUME NEW n \in nodelist, Callback(n) PROVE Apart' /\ IdsExact'
  <2>1. /\ nodelist' = nodelist \ {n} /\ fired' = fired \cup {n} /\ Stored' = Stored
        /\ cancelled' = cancelled /\ dropped' = dropped /\ cur_timer_id' = cur_timer_id
    BY <1>5 DEF Callback, Stored
  <2>2. Apart'
    BY <1>0, <1>5, <2>1 DEF Apart
  <2>3. Everywhere' = Everywhere
    BY <1>5, <2>1 DEF Everywhere
  <2> QED BY <1>0, <2>1, <2>2, <2>3, SameIds
<1>6. CASE Clock \/ UpdateEnd \/ UNCHANGED vars
  BY <1>1, <1>6 DEF Clock, UpdateEnd, vars
<1>7. ASSUME NEW t \in 0..MaxNow, UpdateBegin(t) PROVE Apart' /\ IdsExact'
  BY <1>1, <1>7 DEF UpdateBegin
<1> QED BY <1>2, <1>3, <1>4, <1>5, <1>6, <1>7 DEF Next

(* The invariant holds in every behaviour.                                  *)
LEMMA InvHolds == Spec => []WheelInv
<1>1. WheelInv /\ [Next]_vars => WheelInv'
  BY TypesStep, PlacesStep, TurnStep, AheadStep, AccountedStep DEF WheelInv
<1> QED BY InitInv, <1>1, PTL DEF Spec

-----------------------------------------------------------------------------
(* Whatever the order of additions, cancellations and sweeps, a timer is    *)
(* stored, about to be called back, called back, cancelled or dropped, and  *)
(* only one of these: none is called back twice, or after its cancellation. *)
THEOREM TimersAccounted == Spec => []Accounted
<1>1. WheelInv => Accounted
  BY DEF WheelInv
<1> QED BY <1>1, InvHolds, PTL

(* A timer that is due lies in a bucket the sweep has still to visit, also  *)
(* those that callbacks add during the sweep: Update leaves none behind but *)
(* those that a turn of the wheel left.  For wheels of any size.            *)
THEOREM SweepMissesNone == Spec => []AheadOfSweep
<1>1. WheelInv => AheadOfSweep
  BY DEF WheelInv
<1> QED BY <1>1, InvHolds, PTL

(* A timer is called back when it is due, and before every later one: the   *)
(* order over the buckets and within them is that of the expiries, within   *)
(* a turn of the wheel.                                                     *)
THEOREM CallbacksInOrder == Spec => CallbackOrder
<1> DEFINE Order == \A n \in fired' \ fired :
             /\ n.expire <= at
             /\ \A m \in (Stored \cup nodelist) \ skipped : n.expire <= m.expire
<1>1. ASSUME WheelInv, NEW n \in nodelist, Callback(n) PROVE Order
  <2>0. TypeOK /\ Filed /\ Listed /\ ThisTurn /\ AheadOfSweep /\ InStep
    BY <1>1 DEF WheelInv
  <2>1. fired' \ fired \subseteq {n} /\ \A m \in nodelist : n.expire <= m.expire
    BY <1>1 DEF Callback
  <2>2. /\ n \in Nodes /\ n.expire \in Nat /\ at \in Nat /\ s_idx \in Nat
        /\ n.expire <= at /\ CalcBucket(n.expire) = s_idx - 1
    BY <1>1, <2>0, NodeParts, Numbers DEF TypeOK, Listed
  <2>3. ASSUME NEW m \in Stored, m \notin skipped PROVE n.expire <= m.expire
    <3>1. PICK b \in Indices : m \in bucket[b]
      BY DEF Stored
    <3>2. m \in Nodes /\ m.expire \in Nat /\ b \in Nat /\ CalcBucket(m.expire) = b
      BY <2>0, <3>1, NodeParts, Numbers DEF TypeOK, Filed
    <3>3. m.expire > at \/ s_idx <= b
      BY <2>0, <2>3, <3>1 DEF AheadOfSweep
    <3>4. ASSUME m.expire < n.expire PROVE FALSE
      <4>1. m.expire <= n.expire /\ n.expire <= at /\ m.expire <= at /\ s_idx <= b
        BY <2>2, <3>2, <3>3, <3>4
      <4>2. /\ Turn(m.expire) <= Turn(n.expire) /\ Turn(n.expire) <= Turn(at)
            /\ Turn(at) <= Turn(m.expire)
        BY <2>0, <2>2, <2>3, <3>1, <3>2, <4>1, WheelParts DEF ThisTurn
      <4>3. Turn(m.expire) \in Nat /\ Turn(n.expire) \in Nat /\ Turn(at) \in Nat
        BY <2>2, <3>2, WheelParts
      <4>4. Turn(m.expire) = Turn(n.expire)
        BY <4>2, <4>3
      <4>5. CalcBucket(m.expire) <= CalcBucket(n.expire)
        BY <2>2, <3>2, <4>1, <4>4, SameTurn
      <4> QED BY <2>2, <3>2, <4>1, <4>5
    <3> QED BY <2>2, <3>2, <3>4
  <2> QED BY <2>1, <2>2, <2>3
<1>2. ASSUME [Next]_vars, ~(\E n \in nodelist : Callback(n)) PROVE fired' = fired
  BY <1>2 DEF Next, Clock, AddTimer, CancelTimer, UpdateBegin, VisitBucket, UpdateEnd,
              vars
<1>3. WheelInv /\ [Next]_vars => Order
  <2>1. fired' = fired => Order
    OBVIOUS
  <2> HIDE DEF Order
  <2> QED BY <1>1, <1>2, <2>1
<1>4. WheelInv /\ [Next]_vars => [Order]_vars
  BY <1>3
<1> QED BY <1>4, InvHolds, PTL DEF Spec, CallbackOrder
=============================================================================
