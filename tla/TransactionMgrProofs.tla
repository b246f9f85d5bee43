------------------------ MODULE TransactionMgrProofs ------------------------
(***************************************************************************)
(* Proofs about TransactionMgr, for every set of objects, commands and     *)
(* randoms and every limit.                                                *)
(***************************************************************************)
EXTENDS TransactionMgr, FiniteSetTheorems, TLAPS

(* The ids handed out so far are below the generator, so the next one is   *)
(* unknown to the active map and to everything still on its way.            *)
IdsBelowGenerator ==
  /\ \A i \in DOMAIN active : i < trans_id_generator
  /\ \A e \in Pending : e.tid < trans_id_generator

(* Only an object a bucket made is in use, and the coroutine that has the   *)
(* thread is not suspended.                                                 *)
InUse ==
  /\ \A o \in Trans : Busy(o) => home[o] # NoCmd
  /\ \A o \in Trans : running = o => wait[o] = "no"

(* The inductive invariant behind ActiveMapExact, PoolExact and             *)
(* EventsBelong.                                                            *)
IInv ==
  /\ TypeOK
  /\ ActiveMapExact
  /\ PoolExact
  /\ EventsBelong
  /\ IdsBelowGenerator
  /\ InUse

-----------------------------------------------------------------------------
(* An event the running coroutine causes has the type of an event.          *)
LEMMA EventType ==
  ASSUME TypeOK, NEW o \in Trans, trans_id[o] # 0
  PROVE  Event(o) \in Events
BY DEF TypeOK, Event, Events

(* The transaction found for an id is an object.                            *)
LEMMA GetTransactionType ==
  ASSUME TypeOK, NEW id
  PROVE  GetTransaction(id) \in Trans \cup {NoTrans}
BY DEF TypeOK, GetTransaction

(* The coroutine that has the thread belongs to an active transaction,      *)
(* whose id is the one its events carry.                                    *)
LEMMA RunningIsActive ==
  ASSUME TypeOK, ActiveMapExact, NEW o \in Trans, running = o
  PROVE  /\ trans_id[o] \in DOMAIN active
         /\ active[trans_id[o]] = o
         /\ trans_id[o] \in Ids
         /\ trans_id[o] # 0
BY DEF TypeOK, ActiveMapExact, Busy, Ids

(* Freeing or clearing a response keeps the type of the pointers.           *)
LEMMA FreeRspType ==
  ASSUME NEW rsp \in [Trans -> Rsps], NEW o \in Trans
  PROVE  FreeRsp(rsp, o) \in [Trans -> Rsps]
BY DEF FreeRsp, Rsps

-----------------------------------------------------------------------------
(* The state before the first frame has the types of the framework.         *)
LEMMA InitType == Init => TypeOK
BY TransAssumption, BoundAssumption
   DEF Init, TypeOK, Ids, Rsps, Timer, Request, Query

(* Every step keeps the types.  That the running transaction has an id      *)
(* needs the invariant on the active map.                                   *)
LEMMA StepType == TypeOK /\ ActiveMapExact /\ InUse /\ [Next]_vars => TypeOK'
<1> SUFFICES ASSUME TypeOK, ActiveMapExact, InUse, [Next]_vars
             PROVE  TypeOK'
  OBVIOUS
<1> USE TransAssumption, RandomsAssumption, BoundAssumption
<1>1. ASSUME NEW c \in Cmds, NEW o \in Trans, NewTransaction(c, o)
      PROVE  TypeOK'
  <2>1. active' = [i \in DOMAIN active \cup {trans_id_generator} |->
                     IF i \in DOMAIN active THEN active[i] ELSE o]
    BY <1>1 DEF NewTransaction, InsertActive
  <2>2. DOMAIN active' \subseteq Ids /\ \A i \in DOMAIN active' : active'[i] \in Trans
    BY <1>1, <2>1 DEF TypeOK, NewTransaction, Ids
  <2>3. bucket' \in [Cmds -> Seq(Trans)]
    <3>1. CASE bucket[c] = << >>
      BY <1>1, <3>1 DEF TypeOK, NewTransaction, Creates
    <3>2. CASE bucket[c] # << >>
      <4>1. bucket[c] \in Seq(Trans) /\ Len(bucket[c]) \in Nat
        BY DEF TypeOK
      <4>2. SubSeq(bucket[c], 1, Len(bucket[c]) - 1) \in Seq(Trans)
        BY <3>2, <4>1
      <4>3. bucket' = [bucket EXCEPT ![c] = SubSeq(bucket[c], 1, Len(bucket[c]) - 1)]
        BY <1>1, <3>2 DEF NewTransaction, Creates
      <4>. QED BY <4>2, <4>3 DEF TypeOK
    <3>. QED BY <3>1, <3>2
  <2>4. trans_id_generator' \in 1..(MaxTransId + 1)
    BY <1>1 DEF TypeOK, NewTransaction, GeneratorTransId
  <2>5. trans_id' \in [Trans -> Ids \cup {0}]
    BY <1>1 DEF TypeOK, NewTransaction, Ids
  <2>. QED
    BY <1>1, <2>2, <2>3, <2>4, <2>5 DEF TypeOK, NewTransaction, Rsps
<1>2. ASSUME NEW o \in Trans, NEW r \in Randoms, SendMsg(o, r)
      PROVE  TypeOK'
  <2>1. \A b \in BOOLEAN : [ev |-> Event(o), rand |-> r, nested |-> b] \in Request
    BY <1>2, EventType, RunningIsActive DEF SendMsg, Call, Request
  <2>2. requests' \subseteq Request
    BY <1>2, <2>1 DEF TypeOK, SendMsg, Send
  <2>. QED
    BY <1>2, <2>2 DEF TypeOK, SendMsg, Call, mgrVars, objVars
<1>3. ASSUME NEW o \in Trans, NEW kind \in Waits, running = o, Suspend(o, kind)
      PROVE  /\ timers' \subseteq Timer
             /\ unguarded' \in [Trans -> BOOLEAN]
             /\ wait' \in [Trans -> Waits \cup {"no"}]
             /\ running' \in Trans \cup {NoTrans}
             /\ mysql_rsp' \in [Trans -> Rsps]
             /\ redis_rsp' \in [Trans -> Rsps]
  <2>1. Event(o) \in Timer
    BY <1>3, EventType, RunningIsActive DEF Timer
  <2>2. timers' \subseteq Timer /\ unguarded' \in [Trans -> BOOLEAN]
    BY <1>3, <2>1 DEF Suspend, SetTimer, TypeOK
  <2>. QED
    BY <1>3, <2>2, FreeRspType DEF Suspend, TypeOK
<1>4. ASSUME NEW o \in Trans, NEW r \in Randoms, SendMsgAndWait(o, r)
      PROVE  TypeOK'
  <2>1. \A b \in BOOLEAN : [ev |-> Event(o), rand |-> r, nested |-> b] \in Request
    BY <1>4, EventType, RunningIsActive DEF SendMsgAndWait, Call, Request
  <2>3. requests' \subseteq Request
    BY <1>4, <2>1 DEF TypeOK, SendMsgAndWait, Send
  <2>2. Suspend(o, "rpc") /\ "rpc" \in Waits /\ running = o
    BY <1>4 DEF SendMsgAndWait, Call, Waits
  <2>. QED
    BY <1>4, <2>2, <2>3, <1>3 DEF TypeOK, SendMsgAndWait, Call, mgrVars, objVars
<1>5. ASSUME NEW o \in Trans, NEW kind \in {"mysql", "redis"}, DbQuery(o, kind)
      PROVE  TypeOK'
  <2>1. [ev |-> Event(o), kind |-> kind] \in Query
    BY <1>5, EventType, RunningIsActive DEF DbQuery, Call, Query
  <2>2. Suspend(o, kind) /\ kind \in Waits /\ running = o
    BY <1>5 DEF DbQuery, Call, Waits
  <2>. QED
    BY <1>5, <2>1, <2>2, <1>3 DEF TypeOK, DbQuery, Call, mgrVars, objVars
<1>6. ASSUME NEW o \in Trans, Sleep(o)
      PROVE  TypeOK'
  <2>2. Suspend(o, "sleep") /\ "sleep" \in Waits /\ running = o
    BY <1>6 DEF Sleep, Call, Waits
  <2>. QED
    BY <1>6, <2>2, <1>3 DEF TypeOK, Sleep, Call, mgrVars, objVars
<1>7. ASSUME NEW o \in Trans, Finish(o)
      PROVE  TypeOK'
  <2>1. home[o] \in Cmds
    BY <1>7 DEF Finish, InUse, Busy, TypeOK
  <2>2. bucket' \in [Cmds -> Seq(Trans)]
    BY <1>7, <2>1 DEF Finish, TypeOK
  <2>3. DOMAIN active' \subseteq Ids /\ \A i \in DOMAIN active' : active'[i] \in Trans
    BY <1>7 DEF Finish, EraseActive, TypeOK
  <2>. QED
    BY <1>7, <2>2, <2>3, FreeRspType DEF TypeOK, Finish, objVars
<1>8. ASSUME NEW o \in Trans, NEW m \in Rsps, NEW r \in Rsps, Resume(o, m, r)
      PROVE  /\ running' \in Trans \cup {NoTrans}
             /\ wait' \in [Trans -> Waits \cup {"no"}]
             /\ mysql_rsp' \in [Trans -> Rsps]
             /\ redis_rsp' \in [Trans -> Rsps]
  BY <1>8 DEF Resume, TypeOK, Rsps
<1>9. ASSUME NEW q \in requests, NEW rand \in AnswerRandoms(q),
             ProcessFrame(q, rand)
      PROVE  TypeOK'
  <2> DEFINE o == GetTransaction(q.ev.tid)
  <2>1. CASE o # NoTrans /\ Accepts(o, rand)
    <3>1. o \in Trans
      BY <2>1, GetTransactionType
    <3>2. Resume(o, mysql_rsp[o], redis_rsp[o])
      BY <1>9, <2>1 DEF ProcessFrame
    <3>3. mysql_rsp[o] \in Rsps /\ redis_rsp[o] \in Rsps
      BY <3>1 DEF TypeOK
    <3> HIDE DEF o
    <3>. QED
      BY <1>9, <1>8, <3>1, <3>2, <3>3 DEF ProcessFrame, TypeOK, mgrVars, objVars
  <2>2. CASE ~(o # NoTrans /\ Accepts(o, rand))
    BY <1>9, <2>2 DEF ProcessFrame, TypeOK, mgrVars, objVars
  <2>. QED BY <2>1, <2>2
<1>10. ASSUME NEW q \in queries, ProcessDbRsp(q)
       PROVE  TypeOK'
  <2> DEFINE o == GetTransaction(q.ev.tid)
             m == IF q.kind = "mysql" THEN "live" ELSE mysql_rsp[o]
             r == IF q.kind = "redis" THEN "live" ELSE redis_rsp[o]
  <2>1. CASE o # NoTrans
    <3>1. o \in Trans
      BY <2>1, GetTransactionType
    <3>2. Resume(o, m, r)
      BY <1>10, <2>1 DEF ProcessDbRsp
    <3>3. m \in Rsps /\ r \in Rsps
      BY <3>1 DEF TypeOK, Rsps
    <3> HIDE DEF o, m, r
    <3>. QED
      BY <1>10, <1>8, <3>1, <3>2, <3>3 DEF ProcessDbRsp, TypeOK, mgrVars, objVars
  <2>2. CASE o = NoTrans
    BY <1>10, <2>2 DEF ProcessDbRsp, TypeOK, mgrVars, objVars
  <2>. QED BY <2>1, <2>2
<1>11. ASSUME NEW t \in timers, TimerCallback(t)
       PROVE  TypeOK'
  <2> DEFINE o == GetTransaction(t.tid)
  <2>1. CASE o # NoTrans
    <3>1. o \in Trans
      BY <2>1, GetTransactionType
    <3>2. Resume(o, mysql_rsp[o], redis_rsp[o])
          /\ req_random' = [req_random EXCEPT ![o] = 0]
      BY <1>11, <2>1 DEF TimerCallback
    <3>3. mysql_rsp[o] \in Rsps /\ redis_rsp[o] \in Rsps
      BY <3>1 DEF TypeOK
    <3> HIDE DEF o
    <3>. QED
      BY <1>11, <1>8, <3>1, <3>2, <3>3 DEF TimerCallback, TypeOK, mgrVars, objVars
  <2>2. CASE o = NoTrans
    BY <1>11, <2>2 DEF TimerCallback, TypeOK, mgrVars, objVars
  <2>. QED BY <2>1, <2>2
<1>12. CASE UNCHANGED vars
  BY <1>12 DEF TypeOK, vars
<1>. QED
  BY <1>1, <1>2, <1>4, <1>5, <1>6, <1>7, <1>9, <1>10, <1>11, <1>12
     DEF Next, MainLoop, Coroutine
-----------------------------------------------------------------------------
(* The part of the invariant that speaks of the manager's bookkeeping.      *)
Bookkeeping == ActiveMapExact /\ PoolExact /\ EventsBelong /\ IdsBelowGenerator

(* A step that leaves the manager's maps and the objects' identities alone, *)
(* neither starts nor ends a transaction and causes at most an event of the *)
(* running transaction keeps the bookkeeping.                               *)
LEMMA QuietStep ==
  ASSUME IInv,
         UNCHANGED << mgrVars, objVars >>,
         \A o \in Trans : Busy(o)' <=> Busy(o),
         \A e \in Pending' :
           e \in Pending \/ (running \in Trans /\ e = Event(running))
  PROVE  Bookkeeping'
<1> USE DEF mgrVars, objVars
<1>1. ActiveMapExact'
  BY DEF IInv, TypeOK, ActiveMapExact
<1>2. PoolExact'
  <2>1. \A o \in Trans : Pooled(o)' <=> Pooled(o)
    BY DEF Pooled
  <2>. QED BY <2>1 DEF IInv, PoolExact
<1>3. ASSUME NEW e \in Pending'
      PROVE  /\ e.tid \in DOMAIN active => active[e.tid] = e.obj /\ gen[e.obj] = e.gen
             /\ e.tid < trans_id_generator
  <2>1. CASE e \in Pending
    BY <2>1 DEF IInv, EventsBelong, IdsBelowGenerator
  <2>2. CASE running \in Trans /\ e = Event(running)
    <3>1. e.tid = trans_id[running] /\ e.obj = running /\ e.gen = gen[running]
      BY <2>2 DEF Event
    <3>2. trans_id[running] \in DOMAIN active /\ active[trans_id[running]] = running
      BY <2>2, RunningIsActive DEF IInv
    <3>. QED BY <3>1, <3>2 DEF IInv, IdsBelowGenerator
  <2>. QED BY <1>3, <2>1, <2>2
<1>4. EventsBelong' /\ IdsBelowGenerator'
  BY <1>3 DEF EventsBelong, IdsBelowGenerator, IInv
<1>. QED BY <1>1, <1>2, <1>4 DEF Bookkeeping

(* Suspending the running coroutine keeps it in use.                        *)
LEMMA SuspendBusy ==
  ASSUME IInv, NEW o \in Trans, running = o, NEW kind \in Waits, Suspend(o, kind)
  PROVE  /\ \A p \in Trans : Busy(p)' <=> Busy(p)
         /\ \A p \in Trans : running' = p => wait'[p] = "no"
BY TransAssumption DEF IInv, InUse, TypeOK, Busy, Suspend, Waits

(* Resuming an active transaction keeps it in use.                          *)
LEMMA ResumeBusy ==
  ASSUME IInv, NEW id, GetTransaction(id) # NoTrans, running = NoTrans,
         NEW m, NEW r, Resume(GetTransaction(id), m, r)
  PROVE  /\ GetTransaction(id) \in Trans
         /\ \A p \in Trans : Busy(p)' <=> Busy(p)
         /\ \A p \in Trans : running' = p => wait'[p] = "no"
<1> DEFINE o == GetTransaction(id)
<1>1. o \in Trans /\ Busy(o)
  BY DEF IInv, TypeOK, ActiveMapExact, GetTransaction
<1> HIDE DEF o
<1>2. running' = o /\ wait' = [wait EXCEPT ![o] = "no"]
  BY DEF Resume, o
<1>3. \A p \in Trans : running # p
  BY TransAssumption
<1>4. \A p \in Trans : Busy(p)' <=> Busy(p)
  BY <1>1, <1>2, <1>3 DEF IInv, TypeOK, Busy
<1>. QED
  BY <1>1, <1>2, <1>4 DEF IInv, TypeOK, o
(* The object a bucket hands out was not in use.                            *)
LEMMA CreatesIdle ==
  ASSUME IInv, NEW c \in Cmds, NEW o \in Trans, Creates(c, o)
  PROVE  ~Busy(o)
<1>1. CASE bucket[c] = << >>
  BY <1>1 DEF Creates, IInv, InUse
<1>2. CASE bucket[c] # << >>
  <2>1. bucket[c] \in Seq(Trans) /\ Len(bucket[c]) \in 1..Len(bucket[c])
    BY <1>2 DEF IInv, TypeOK
  <2>2. o = bucket[c][Len(bucket[c])]
    BY <1>2 DEF Creates
  <2>3. Pooled(o) /\ home[o] = c
    BY <2>1, <2>2 DEF IInv, PoolExact, Pooled
  <2>. QED BY <2>3, TransAssumption DEF IInv, PoolExact
<1>. QED BY <1>1, <1>2

(* Starting a transaction keeps the invariant.                              *)
LEMMA NewTransactionStep ==
  ASSUME IInv, NEW c \in Cmds, NEW o \in Trans, NewTransaction(c, o)
  PROVE  Bookkeeping' /\ InUse'
<1> DEFINE g == trans_id_generator
<1>1. ~Busy(o)
  BY CreatesIdle DEF NewTransaction
<1>2. /\ active' = [i \in DOMAIN active \cup {g} |->
                      IF i \in DOMAIN active THEN active[i] ELSE o]
      /\ g \notin DOMAIN active
      /\ g \in Nat
  BY DEF NewTransaction, InsertActive, IInv, IdsBelowGenerator, TypeOK
<1>3. /\ trans_id' = [trans_id EXCEPT ![o] = g]
      /\ running' = o
      /\ running = NoTrans
      /\ wait' = wait
      /\ gen' = [gen EXCEPT ![o] = @ + 1]
      /\ home' = [home EXCEPT ![o] = c]
      /\ trans_id_generator' = g + 1
  BY DEF NewTransaction, GeneratorTransId
<1>4. \A p \in Trans : Busy(p)' <=> (Busy(p) \/ p = o)
  BY <1>3, TransAssumption DEF Busy
<1>5. \A i \in DOMAIN active : active[i] # o /\ active[i] \in Trans
  BY <1>1 DEF IInv, ActiveMapExact, TypeOK
<1>6. ActiveMapExact'
  <2>1. ASSUME NEW i \in DOMAIN active'
        PROVE  /\ trans_id'[active'[i]] = i
               /\ wait'[active'[i]] # "no" \/ running' = active'[i]
    <3>1. CASE i = g
      <4>1. active'[i] = o
        BY <1>2, <3>1
      <4>. QED BY <4>1, <3>1, <1>3 DEF IInv, TypeOK
    <3>2. CASE i \in DOMAIN active
      <4>1. active'[i] = active[i] /\ active[i] # o /\ active[i] \in Trans
        BY <1>2, <1>5, <3>2
      <4>2. trans_id[active[i]] = i /\ Busy(active[i])
        BY <3>2 DEF IInv, ActiveMapExact
      <4>3. trans_id'[active[i]] = trans_id[active[i]]
        BY <4>1, <1>3 DEF IInv, TypeOK
      <4>4. wait'[active[i]] # "no"
        BY <4>1, <4>2, <1>3, TransAssumption DEF Busy
      <4>. QED BY <4>1, <4>2, <4>3, <4>4
    <3>. QED BY <2>1, <1>2, <3>1, <3>2
  <2>2. ASSUME NEW p \in Trans, Busy(p)'
        PROVE  trans_id'[p] \in DOMAIN active' /\ active'[trans_id'[p]] = p
    <3>1. CASE p = o
      BY <1>2, <1>3, <3>1 DEF IInv, TypeOK
    <3>2. CASE p # o
      <4>1. trans_id'[p] = trans_id[p] /\ Busy(p)
        BY <2>2, <1>3, <1>4, <3>2 DEF IInv, TypeOK
      <4>. QED BY <4>1, <1>2 DEF IInv, ActiveMapExact
    <3>. QED BY <3>1, <3>2
  <2>. QED BY <2>1, <2>2 DEF ActiveMapExact, Busy
<1>7. PoolExact'
  <2>1. CASE bucket[c] = << >>
    <3>1. bucket' = bucket /\ home[o] = NoCmd
      BY <2>1 DEF NewTransaction, Creates
    <3>2. \A p \in Trans : Pooled(p)' <=> Pooled(p)
      BY <3>1 DEF Pooled
    <3>3. ~Pooled(o)
      BY <3>1, TransAssumption DEF Pooled, IInv, PoolExact
    <3>4. \A d \in Cmds : \A k \in 1..Len(bucket[d]) : bucket[d][k] # o /\ bucket[d][k] \in Trans
      BY <3>3 DEF Pooled, IInv, TypeOK
    <3>5. \A p \in Trans : home'[p] # NoCmd => (Busy(p)' <=> ~Pooled(p)')
      BY <3>2, <3>3, <1>3, <1>4 DEF IInv, PoolExact, TypeOK
    <3>6. \A d \in Cmds : \A k \in 1..Len(bucket'[d]) :
            /\ home'[bucket'[d][k]] = d
            /\ \A l \in 1..Len(bucket'[d]) : bucket'[d][l] = bucket'[d][k] => l = k
      BY <3>1, <3>4, <1>3 DEF IInv, PoolExact, TypeOK
    <3>. QED BY <3>5, <3>6 DEF PoolExact
  <2>2. CASE bucket[c] # << >>
    <3> DEFINE n == Len(bucket[c])
    <3>1. /\ o = bucket[c][n]
          /\ bucket' = [bucket EXCEPT ![c] = SubSeq(bucket[c], 1, n - 1)]
          /\ bucket[c] \in Seq(Trans)
          /\ n \in Nat \ {0}
      BY <2>2 DEF NewTransaction, Creates, IInv, TypeOK
    <3>2. /\ Len(bucket'[c]) = n - 1
          /\ \A k \in 1..(n - 1) : bucket'[c][k] = bucket[c][k]
          /\ \A d \in Cmds : d # c => bucket'[d] = bucket[d]
      <4>1. c \in DOMAIN bucket /\ bucket'[c] = SubSeq(bucket[c], 1, n - 1)
        BY <3>1 DEF IInv, TypeOK
      <4>2. /\ Len(SubSeq(bucket[c], 1, n - 1)) = n - 1
            /\ \A k \in 1..(n - 1) : SubSeq(bucket[c], 1, n - 1)[k] = bucket[c][k]
        BY <3>1
      <4>3. \A d \in Cmds : d # c => bucket'[d] = bucket[d]
        BY <3>1 DEF IInv, TypeOK
      <4>. QED BY <4>1, <4>2, <4>3
    <3>3. home[o] = c
      BY <3>1 DEF IInv, PoolExact
    <3>4. home' = home
      BY <3>3, <1>3 DEF IInv, TypeOK
    <3>5. \A d \in Cmds : \A k \in 1..Len(bucket'[d]) :
            k \in 1..Len(bucket[d]) /\ bucket'[d][k] = bucket[d][k]
      BY <3>1, <3>2
    <3>6. \A d \in Cmds : \A k \in 1..Len(bucket'[d]) :
            /\ home'[bucket'[d][k]] = d
            /\ \A l \in 1..Len(bucket'[d]) : bucket'[d][l] = bucket'[d][k] => l = k
      BY <3>4, <3>5 DEF IInv, PoolExact
    <3>7. ASSUME NEW p \in Trans, p # o
          PROVE  Pooled(p)' <=> Pooled(p)
      <4>1. Pooled(p)' => Pooled(p)
        BY <3>5 DEF Pooled
      <4>2. ASSUME NEW d \in Cmds, NEW k \in 1..Len(bucket[d]), bucket[d][k] = p
            PROVE  k \in 1..Len(bucket'[d]) /\ bucket'[d][k] = p
        BY <3>7, <4>2, <3>1, <3>2
      <4>. QED BY <4>1, <4>2 DEF Pooled
    <3>8. ~Pooled(o)'
      <4>1. SUFFICES ASSUME NEW d \in Cmds, NEW k \in 1..Len(bucket'[d]),
                            bucket'[d][k] = o
                     PROVE  FALSE
        BY DEF Pooled
      <4>2. bucket[d][k] = o /\ k \in 1..Len(bucket[d])
        BY <4>1, <3>5
      <4>3. d = c
        BY <4>2, <3>3 DEF IInv, PoolExact
      <4>4. k = n
        BY <4>2, <4>3, <3>1 DEF IInv, PoolExact
      <4>. QED BY <4>3, <4>4, <3>1, <3>2
    <3>9. \A p \in Trans : home'[p] # NoCmd => (Busy(p)' <=> ~Pooled(p)')
      BY <3>4, <3>7, <3>8, <1>4 DEF IInv, PoolExact
    <3>. QED BY <3>6, <3>9 DEF PoolExact
  <2>. QED BY <2>1, <2>2
<1>8. Pending' = Pending
  BY DEF NewTransaction, Pending
<1>9. EventsBelong'
  <2>1. SUFFICES ASSUME NEW e \in Pending, e.tid \in DOMAIN active'
                 PROVE  active'[e.tid] = e.obj /\ gen'[e.obj] = e.gen
    BY <1>8 DEF EventsBelong
  <2>2. e.tid # g
    BY <1>2 DEF IInv, IdsBelowGenerator
  <2>3. e.tid \in DOMAIN active
    BY <2>1, <2>2, <1>2
  <2>4. active[e.tid] = e.obj /\ gen[e.obj] = e.gen
    BY <2>3 DEF IInv, EventsBelong
  <2>. QED BY <2>3, <2>4, <1>2, <1>3, <1>5 DEF IInv, TypeOK
<1>10. IdsBelowGenerator'
  <2>1. \A e \in Pending : e.tid \in Nat
    BY DEF Pending, IInv, TypeOK, Timer, Request, Query, Events, Ids
  <2>2. \A i \in DOMAIN active : i \in Nat
    BY DEF IInv, TypeOK, Ids
  <2>3. \A e \in Pending : e.tid < g + 1
    BY <1>2, <2>1 DEF IInv, IdsBelowGenerator
  <2>4. \A i \in DOMAIN active' : i < g + 1
    BY <1>2, <2>2 DEF IInv, IdsBelowGenerator
  <2>. QED BY <1>3, <1>8, <2>3, <2>4 DEF IdsBelowGenerator
<1>11. InUse'
  BY <1>1, <1>3, <1>4, TransAssumption DEF IInv, InUse, TypeOK, Busy
<1>. QED BY <1>6, <1>7, <1>9, <1>10, <1>11 DEF Bookkeeping
(* Ending a transaction keeps the invariant.                                *)
LEMMA FinishStep ==
  ASSUME IInv, NEW o \in Trans, Finish(o)
  PROVE  Bookkeeping' /\ InUse'
<1> DEFINE c == home[o]
<1>1. /\ running = o /\ running' = NoTrans
      /\ wait' = wait /\ wait[o] = "no"
      /\ c \in Cmds
      /\ UNCHANGED << trans_id_generator, home, trans_id, gen >>
      /\ active' = [i \in DOMAIN active \ {trans_id[o]} |-> active[i]]
      /\ bucket' = [bucket EXCEPT ![c] = Append(@, o)]
  BY DEF Finish, EraseActive, objVars, IInv, InUse, Busy, TypeOK
<1>2. \A p \in Trans : Busy(p)' <=> (Busy(p) /\ p # o)
  BY <1>1, TransAssumption DEF Busy, IInv, InUse
<1>3. ActiveMapExact'
  <2>1. ASSUME NEW i \in DOMAIN active'
        PROVE  /\ trans_id'[active'[i]] = i
               /\ wait'[active'[i]] # "no" \/ running' = active'[i]
    <3>1. i \in DOMAIN active /\ i # trans_id[o] /\ active'[i] = active[i]
      BY <1>1
    <3>2. trans_id[active[i]] = i /\ Busy(active[i])
      BY <3>1 DEF IInv, ActiveMapExact
    <3>3. active[i] # o
      BY <3>1, <3>2
    <3>. QED BY <3>1, <3>2, <3>3, <1>1 DEF Busy
  <2>2. ASSUME NEW p \in Trans, Busy(p)'
        PROVE  trans_id'[p] \in DOMAIN active' /\ active'[trans_id'[p]] = p
    <3>1. Busy(p) /\ p # o
      BY <1>2, <2>2
    <3>2. trans_id[p] \in DOMAIN active /\ active[trans_id[p]] = p
      BY <3>1 DEF IInv, ActiveMapExact
    <3>3. trans_id[p] # trans_id[o]
      BY <3>1, <3>2, <1>1, RunningIsActive DEF IInv
    <3>. QED BY <3>2, <3>3, <1>1
  <2>. QED BY <2>1, <2>2 DEF ActiveMapExact, Busy
<1>4. PoolExact'
  <2> DEFINE n == Len(bucket[c])
  <2>1. /\ bucket[c] \in Seq(Trans) /\ n \in Nat
        /\ bucket'[c] = Append(bucket[c], o)
        /\ \A d \in Cmds : d # c => bucket'[d] = bucket[d]
    BY <1>1 DEF IInv, TypeOK
  <2>2. /\ Len(bucket'[c]) = n + 1
        /\ \A k \in 1..n : bucket'[c][k] = bucket[c][k]
        /\ bucket'[c][n + 1] = o
    BY <2>1
  <2>3. ~Pooled(o)
    BY <1>1, TransAssumption DEF IInv, PoolExact, Busy
  <2>4. ASSUME NEW d \in Cmds, NEW k \in 1..Len(bucket'[d])
        PROVE  \/ k \in 1..Len(bucket[d]) /\ bucket'[d][k] = bucket[d][k] /\ bucket[d][k] # o
               \/ d = c /\ k = n + 1 /\ bucket'[d][k] = o
    <3>1. CASE d = c /\ k = n + 1
      BY <3>1, <2>2
    <3>2. CASE ~(d = c /\ k = n + 1)
      <4>1. k \in 1..Len(bucket[d]) /\ bucket'[d][k] = bucket[d][k]
        <5>1. CASE d = c
          BY <5>1, <3>2, <2>1, <2>2
        <5>2. CASE d # c
          BY <5>2, <2>1
        <5>. QED BY <5>1, <5>2
      <4>. QED BY <4>1, <2>3 DEF Pooled
    <3>. QED BY <3>1, <3>2
  <2>5. \A d \in Cmds : \A k \in 1..Len(bucket'[d]) :
          /\ home'[bucket'[d][k]] = d
          /\ \A l \in 1..Len(bucket'[d]) : bucket'[d][l] = bucket'[d][k] => l = k
    BY <2>4, <1>1 DEF IInv, PoolExact
  <2>6. Pooled(o)'
    <3>1. n + 1 \in 1..Len(bucket'[c]) /\ bucket'[c][n + 1] = o
      BY <2>1, <2>2
    <3>. QED BY <3>1, <1>1 DEF Pooled
  <2>7. ASSUME NEW p \in Trans, p # o
        PROVE  Pooled(p)' <=> Pooled(p)
    <3>1. Pooled(p)' => Pooled(p)
      BY <2>7, <2>4 DEF Pooled
    <3>2. ASSUME NEW d \in Cmds, NEW k \in 1..Len(bucket[d]), bucket[d][k] = p
          PROVE  k \in 1..Len(bucket'[d]) /\ bucket'[d][k] = p
      BY <3>2, <2>1, <2>2
    <3>. QED BY <3>1, <3>2 DEF Pooled
  <2>8. \A p \in Trans : home'[p] # NoCmd => (Busy(p)' <=> ~Pooled(p)')
    BY <2>6, <2>7, <1>1, <1>2 DEF IInv, PoolExact
  <2>. QED BY <2>5, <2>8 DEF PoolExact
<1>5. Pending' = Pending
  BY DEF Finish, Pending
<1>6. EventsBelong' /\ IdsBelowGenerator'
  BY <1>1, <1>5 DEF EventsBelong, IdsBelowGenerator, IInv
<1>7. InUse'
  BY <1>1, <1>2, TransAssumption DEF IInv, InUse
<1>. QED BY <1>3, <1>4, <1>6, <1>7 DEF Bookkeeping

(* IInv holds before the first frame.                                       *)
LEMMA InitIInv == Init => IInv
<1> SUFFICES ASSUME Init PROVE IInv
  OBVIOUS
<1>1. \A o \in Trans : ~Busy(o)
  BY TransAssumption DEF Init, Busy
<1>2. DOMAIN active = {} /\ Pending = {}
  BY DEF Init, Pending
<1>3. \A o \in Trans : home[o] = NoCmd
  BY DEF Init
<1>4. \A c \in Cmds : Len(bucket[c]) = 0
  BY DEF Init
<1>5. PoolExact
  BY <1>3, <1>4 DEF PoolExact
<1>. QED
  BY <1>1, <1>2, <1>5, InitType
     DEF IInv, ActiveMapExact, EventsBelong, IdsBelowGenerator, InUse, Init

(* What a step has to keep besides the types.                               *)
Kept == Bookkeeping /\ InUse

(* Every step keeps IInv.                                                   *)
LEMMA StepIInv == IInv /\ [Next]_vars => IInv'
<1> SUFFICES ASSUME IInv, [Next]_vars
             PROVE  IInv'
  OBVIOUS
<1>1. TypeOK'
  BY StepType DEF IInv
<1>2. ASSUME NEW c \in Cmds, NEW o \in Trans, NewTransaction(c, o)
      PROVE  Kept'
  BY <1>2, NewTransactionStep DEF Kept
<1>3. ASSUME NEW o \in Trans, NEW r \in Randoms, SendMsg(o, r)
      PROVE  Kept'
  <2>1. UNCHANGED << mgrVars, objVars, wait, running >> /\ running = o
    BY <1>3 DEF SendMsg, Call
  <2>2. \A p \in Trans : Busy(p)' <=> Busy(p)
    BY <2>1 DEF Busy
  <2>3. ASSUME NEW e \in Pending' PROVE e \in Pending \/ e = Event(o)
    BY <1>3, <2>3 DEF SendMsg, Send, Pending
  <2>4. Bookkeeping'
    BY <2>1, <2>2, <2>3, QuietStep
  <2>5. InUse'
    BY <2>1, <2>2 DEF IInv, InUse, objVars
  <2>. QED BY <2>4, <2>5 DEF Kept
<1>4. ASSUME NEW o \in Trans, NEW r \in Randoms, SendMsgAndWait(o, r)
      PROVE  Kept'
  <2>1. UNCHANGED << mgrVars, objVars >> /\ running = o /\ Suspend(o, "rpc") /\ "rpc" \in Waits
    BY <1>4 DEF SendMsgAndWait, Call, Waits
  <2>2. /\ \A p \in Trans : Busy(p)' <=> Busy(p)
        /\ \A p \in Trans : running' = p => wait'[p] = "no"
    BY <2>1, SuspendBusy
  <2>3. ASSUME NEW e \in Pending' PROVE e \in Pending \/ e = Event(o)
    BY <1>4, <2>3 DEF SendMsgAndWait, Send, Suspend, SetTimer, Pending
  <2>4. Bookkeeping'
    BY <2>1, <2>2, <2>3, QuietStep
  <2>5. InUse'
    BY <2>1, <2>2 DEF IInv, InUse, objVars
  <2>. QED BY <2>4, <2>5 DEF Kept
<1>5. ASSUME NEW o \in Trans, NEW kind \in {"mysql", "redis"}, DbQuery(o, kind)
      PROVE  Kept'
  <2>1. UNCHANGED << mgrVars, objVars >> /\ running = o /\ Suspend(o, kind) /\ kind \in Waits
    BY <1>5 DEF DbQuery, Call, Waits
  <2>2. /\ \A p \in Trans : Busy(p)' <=> Busy(p)
        /\ \A p \in Trans : running' = p => wait'[p] = "no"
    BY <2>1, SuspendBusy
  <2>3. ASSUME NEW e \in Pending' PROVE e \in Pending \/ e = Event(o)
    BY <1>5, <2>3 DEF DbQuery, Suspend, SetTimer, Pending
  <2>4. Bookkeeping'
    BY <2>1, <2>2, <2>3, QuietStep
  <2>5. InUse'
    BY <2>1, <2>2 DEF IInv, InUse, objVars
  <2>. QED BY <2>4, <2>5 DEF Kept
<1>6. ASSUME NEW o \in Trans, Sleep(o)
      PROVE  Kept'
  <2>1. UNCHANGED << mgrVars, objVars >> /\ running = o /\ Suspend(o, "sleep") /\ "sleep" \in Waits
    BY <1>6 DEF Sleep, Call, Waits
  <2>2. /\ \A p \in Trans : Busy(p)' <=> Busy(p)
        /\ \A p \in Trans : running' = p => wait'[p] = "no"
    BY <2>1, SuspendBusy
  <2>3. ASSUME NEW e \in Pending' PROVE e \in Pending \/ e = Event(o)
    BY <1>6, <2>3 DEF Sleep, Suspend, SetTimer, Pending
  <2>4. Bookkeeping'
    BY <2>1, <2>2, <2>3, QuietStep
  <2>5. InUse'
    BY <2>1, <2>2 DEF IInv, InUse, objVars
  <2>. QED BY <2>4, <2>5 DEF Kept
<1>7. ASSUME NEW o \in Trans, Finish(o)
      PROVE  Kept'
  BY <1>7, FinishStep DEF Kept
<1>8. ASSUME NEW id, running = NoTrans,
             UNCHANGED << mgrVars, objVars >>,
             Pending' \subseteq Pending,
             \/ GetTransaction(id) # NoTrans
                /\ \E m, r : Resume(GetTransaction(id), m, r)
             \/ UNCHANGED << running, wait >>
      PROVE  Kept'
  <2>1. /\ \A p \in Trans : Busy(p)' <=> Busy(p)
        /\ \A p \in Trans : running' = p => wait'[p] = "no"
    <3>1. CASE UNCHANGED << running, wait >>
      BY <3>1 DEF Busy, IInv, InUse
    <3>2. CASE GetTransaction(id) # NoTrans /\ \E m, r : Resume(GetTransaction(id), m, r)
      BY <1>8, <3>2, ResumeBusy
    <3>. QED BY <1>8, <3>1, <3>2
  <2>2. Bookkeeping'
    BY <1>8, <2>1, QuietStep
  <2>3. InUse'
    BY <1>8, <2>1 DEF IInv, InUse, objVars
  <2>. QED BY <2>2, <2>3 DEF Kept
<1>9. ASSUME NEW q \in requests, NEW rand \in AnswerRandoms(q),
             ProcessFrame(q, rand)
      PROVE  Kept'
  <2>1. Pending' \subseteq Pending
    BY <1>9 DEF ProcessFrame, Pending
  <2>. QED BY <1>8, <1>9, <2>1 DEF ProcessFrame
<1>10. ASSUME NEW q \in queries, ProcessDbRsp(q)
       PROVE  Kept'
  <2>1. Pending' \subseteq Pending
    BY <1>10 DEF ProcessDbRsp, Pending
  <2>. QED BY <1>8, <1>10, <2>1 DEF ProcessDbRsp
<1>11. ASSUME NEW t \in timers, TimerCallback(t)
       PROVE  Kept'
  <2>1. Pending' \subseteq Pending
    BY <1>11 DEF TimerCallback, Pending
  <2>. QED BY <1>8, <1>11, <2>1 DEF TimerCallback
<1>12. ASSUME UNCHANGED vars PROVE Kept'
  <2>1. Bookkeeping'
    BY <1>12, QuietStep DEF vars, mgrVars, objVars, Busy, Pending
  <2>2. InUse'
    BY <1>12 DEF vars, IInv, InUse, Busy
  <2>. QED BY <2>1, <2>2 DEF Kept
<1>13. Kept'
  BY <1>2, <1>3, <1>4, <1>5, <1>6, <1>7, <1>9, <1>10, <1>11, <1>12
     DEF Next, MainLoop, Coroutine
<1>. QED BY <1>1, <1>13 DEF IInv, Bookkeeping, Kept

-----------------------------------------------------------------------------
(* The inductive invariant holds in every reachable state.                  *)
LEMMA Invariance == Spec => []IInv
<1>. QED BY InitIInv, StepIInv, PTL DEF Spec

(* The types hold for every number of objects, commands and calls.          *)
THEOREM TypeCorrect == Spec => []TypeOK
<1>1. IInv => TypeOK
  BY DEF IInv
<1>. QED BY <1>1, Invariance, PTL

(* _active_trans_map is exact: a lookup by id finds the waiting transaction *)
(* with that id and nothing else.                                           *)
THEOREM ActiveMapIsExact == Spec => []ActiveMapExact
<1>1. IInv => ActiveMapExact
  BY DEF IInv
<1>. QED BY <1>1, Invariance, PTL

(* The per-command pools hold every idle object once and no object in use.  *)
THEOREM PoolsAreExact == Spec => []PoolExact
<1>1. IInv => PoolExact
  BY DEF IInv
<1>. QED BY <1>1, Invariance, PTL

(* No late timer, answer or database response is delivered to a transaction *)
(* other than the one that caused it, although objects are reused.          *)
THEOREM NoCrossDelivery == Spec => []EventsBelong
<1>1. IInv => EventsBelong
  BY DEF IInv
<1>. QED BY <1>1, Invariance, PTL
-----------------------------------------------------------------------------
(* The active map is finite, and grows only by a transaction that the limit *)
(* let in.                                                                  *)
LEMMA StepConcurrency ==
  IInv /\ ConcurrencyBound /\ [Next]_vars => ConcurrencyBound'
<1> SUFFICES ASSUME IInv, ConcurrencyBound, [Next]_vars
             PROVE  ConcurrencyBound'
  OBVIOUS
<1>1. IsFiniteSet(DOMAIN active) /\ Cardinality(DOMAIN active) \in Nat
  <2>1. DOMAIN active \subseteq 1..MaxTransId
    BY DEF IInv, TypeOK, Ids
  <2>2. IsFiniteSet(1..MaxTransId)
    BY FS_Interval, BoundAssumption
  <2>. QED BY <2>1, <2>2, FS_Subset, FS_CardinalityType
<1>2. ASSUME NEW c \in Cmds, NEW o \in Trans, NewTransaction(c, o)
      PROVE  ConcurrencyBound'
  <2>1. /\ DOMAIN active' = DOMAIN active \cup {trans_id_generator}
        /\ trans_id_generator \notin DOMAIN active
    BY <1>2 DEF NewTransaction, InsertActive, IInv, IdsBelowGenerator, TypeOK
  <2>2. Cardinality(DOMAIN active') = Cardinality(DOMAIN active) + 1
    BY <1>1, <2>1, FS_AddElement
  <2>3. Cardinality(DOMAIN active) <= MaxConcurrent
    BY <1>1, <1>2, BoundAssumption DEF NewTransaction, CanCreate, GetActiveTransCnt
  <2>. QED
    BY <1>1, <2>2, <2>3, BoundAssumption DEF ConcurrencyBound, GetActiveTransCnt
<1>3. ASSUME DOMAIN active' \subseteq DOMAIN active
      PROVE  ConcurrencyBound'
  <2>1. Cardinality(DOMAIN active') <= Cardinality(DOMAIN active)
        /\ Cardinality(DOMAIN active') \in Nat
    BY <1>1, <1>3, FS_Subset, FS_CardinalityType
  <2>. QED
    BY <1>1, <2>1, BoundAssumption DEF ConcurrencyBound, GetActiveTransCnt
<1>4. ASSUME NEW o \in Trans, Coroutine(o)
      PROVE  DOMAIN active' \subseteq DOMAIN active
  <2>1. CASE Finish(o)
    BY <2>1 DEF Finish, EraseActive
  <2>2. CASE \E r \in Randoms : SendMsg(o, r) \/ SendMsgAndWait(o, r)
    BY <2>2 DEF SendMsg, SendMsgAndWait, mgrVars
  <2>3. CASE \E kind \in {"mysql", "redis"} : DbQuery(o, kind)
    BY <2>3 DEF DbQuery, mgrVars
  <2>4. CASE Sleep(o)
    BY <2>4 DEF Sleep, mgrVars
  <2>. QED BY <1>4, <2>1, <2>2, <2>3, <2>4 DEF Coroutine
<1>5. ASSUME \/ \E q \in requests : \E rand \in AnswerRandoms(q) : ProcessFrame(q, rand)
             \/ \E q \in queries : ProcessDbRsp(q)
             \/ \E t \in timers : TimerCallback(t)
             \/ UNCHANGED vars
      PROVE  DOMAIN active' \subseteq DOMAIN active
  BY <1>5 DEF ProcessFrame, ProcessDbRsp, TimerCallback, mgrVars, vars
<1>. QED BY <1>2, <1>3, <1>4, <1>5 DEF Next, MainLoop

(* However many frames arrive, at most _max_concurrent_trans + 1            *)
(* transactions are active at a time.                                       *)
THEOREM Concurrency == Spec => []ConcurrencyBound
<1>1. Init => ConcurrencyBound
  <2>1. ASSUME Init PROVE DOMAIN active = {}
    BY <2>1 DEF Init
  <2>. QED
    BY <2>1, FS_EmptySet, BoundAssumption DEF ConcurrencyBound, GetActiveTransCnt
<1>. QED BY <1>1, StepConcurrency, Invariance, PTL DEF Spec
-----------------------------------------------------------------------------
(* What a step of the main loop or of another coroutine leaves alone of a   *)
(* transaction p that stays suspended.                                      *)
Untouched(p) ==
  /\ trans_id'[p] = trans_id[p]
  /\ calls'[p] = calls[p]
  /\ gen'[p] = gen[p]
  /\ req_random'[p] = req_random[p]
  /\ unguarded'[p] = unguarded[p]
  /\ wait'[p] = wait[p]

(* The timer the current Wait of p set.                                     *)
Guarded(p) ==
  unguarded[p] \/ \E t \in timers : t.tid = trans_id[p] /\ t.n = calls[p] - 1

(* Delivering an event either wakes p, or leaves p and its timer alone: the *)
(* event of another transaction has another id.                             *)
LEMMA DeliveryUntouched ==
  ASSUME IInv, NEW p \in Trans, wait[p] # "no", wait'[p] # "no",
         \/ \E q \in requests : \E rand \in AnswerRandoms(q) : ProcessFrame(q, rand)
         \/ \E q \in queries : ProcessDbRsp(q)
         \/ \E t \in timers : TimerCallback(t)
  PROVE  /\ Untouched(p)
         /\ \A t \in timers : t.tid = trans_id[p] => t \in timers'
<1>1. trans_id[p] \in DOMAIN active /\ active[trans_id[p]] = p
  BY DEF IInv, ActiveMapExact, Busy
<1>2. GetTransaction(trans_id[p]) = p /\ p # NoTrans
  BY <1>1, TransAssumption DEF GetTransaction
<1>3. ASSUME NEW id, NEW m, NEW r, GetTransaction(id) # NoTrans,
             Resume(GetTransaction(id), m, r)
      PROVE  p # GetTransaction(id) /\ wait'[p] = wait[p]
  <2>1. p # GetTransaction(id)
    BY <1>3 DEF Resume, IInv, TypeOK
  <2>. QED BY <1>3, <2>1 DEF Resume, IInv, TypeOK
<1>4. CASE \E q \in requests : \E rand \in AnswerRandoms(q) : ProcessFrame(q, rand)
  <2>1. PICK q \in requests : \E rand \in AnswerRandoms(q) : ProcessFrame(q, rand)
    BY <1>4
  <2>2. wait'[p] = wait[p]
    BY <2>1, <1>3 DEF ProcessFrame
  <2>3. Untouched(p)
    BY <2>1, <2>2 DEF ProcessFrame, Untouched, objVars
  <2>. QED BY <2>1, <2>3 DEF ProcessFrame
<1>5. CASE \E q \in queries : ProcessDbRsp(q)
  <2>1. PICK q \in queries : ProcessDbRsp(q)
    BY <1>5
  <2>2. wait'[p] = wait[p]
    BY <2>1, <1>3 DEF ProcessDbRsp
  <2>3. Untouched(p)
    BY <2>1, <2>2 DEF ProcessDbRsp, Untouched, objVars
  <2>. QED BY <2>1, <2>3 DEF ProcessDbRsp
<1>6. CASE \E t \in timers : TimerCallback(t)
  <2>1. PICK t \in timers : TimerCallback(t)
    BY <1>6
  <2>2. wait'[p] = wait[p] /\ (GetTransaction(t.tid) # NoTrans => p # GetTransaction(t.tid))
    BY <2>1, <1>3 DEF TimerCallback
  <2>3. req_random'[p] = req_random[p]
    BY <2>1, <2>2 DEF TimerCallback, IInv, TypeOK
  <2>4. Untouched(p)
    BY <2>1, <2>2, <2>3 DEF TimerCallback, Untouched, objVars
  <2>5. t.tid # trans_id[p]
    BY <2>2, <1>2
  <2>. QED BY <2>1, <2>4, <2>5 DEF TimerCallback
<1>. QED BY <1>4, <1>5, <1>6

(* A call of the running transaction leaves the suspended ones alone.       *)
LEMMA CoroutineUntouched ==
  ASSUME IInv, NEW p \in Trans, wait[p] # "no", NEW o \in Trans, Coroutine(o)
  PROVE  Untouched(p) /\ timers \subseteq timers'
<1>1. running = o /\ o # p
  <2>1. running = o
    BY DEF Coroutine, SendMsg, SendMsgAndWait, DbQuery, Sleep, Finish, Call
  <2>. QED BY <2>1 DEF IInv, InUse
<1>2. CASE \E r \in Randoms : SendMsg(o, r)
  BY <1>1, <1>2 DEF SendMsg, Call, Untouched, objVars, IInv, TypeOK
<1>3. CASE \E r \in Randoms : SendMsgAndWait(o, r)
  BY <1>1, <1>3 DEF SendMsgAndWait, Suspend, SetTimer, Call, Untouched, objVars, IInv, TypeOK
<1>4. CASE \E kind \in {"mysql", "redis"} : DbQuery(o, kind)
  BY <1>1, <1>4 DEF DbQuery, Suspend, SetTimer, Call, Untouched, objVars, IInv, TypeOK
<1>5. CASE Sleep(o)
  BY <1>1, <1>5 DEF Sleep, Suspend, SetTimer, Call, Untouched, objVars, IInv, TypeOK
<1>6. CASE Finish(o)
  BY <1>1, <1>6 DEF Finish, Untouched, objVars
<1>. QED BY <1>2, <1>3, <1>4, <1>5, <1>6 DEF Coroutine

(* Starting a transaction leaves the suspended ones alone.                  *)
LEMMA NewUntouched ==
  ASSUME IInv, NEW p \in Trans, wait[p] # "no",
         NEW c \in Cmds, NEW o \in Trans, NewTransaction(c, o)
  PROVE  Untouched(p) /\ timers' = timers
<1>1. o # p
  BY CreatesIdle DEF NewTransaction, Busy
<1>. QED BY <1>1 DEF NewTransaction, Untouched, IInv, TypeOK

(* A transaction that is suspended before and after a step was not touched, *)
(* and one that is suspended by the step has just set its timer and, in a   *)
(* two-way SendMsg, drawn a random.                                         *)
LEMMA StepGuarded ==
  ASSUME IInv, [Next]_vars, NEW p \in Trans, wait'[p] # "no",
         wait[p] # "no" => Guarded(p),
         wait[p] = "rpc" => req_random[p] # 0
  PROVE  Guarded(p)' /\ (wait'[p] = "rpc" => req_random'[p] # 0)
<1>1. CASE wait[p] # "no"
  <2>1. /\ Untouched(p)
        /\ \A t \in timers : t.tid = trans_id[p] => t \in timers'
    <3>1. CASE UNCHANGED vars
      BY <3>1 DEF vars, Untouched
    <3>2. CASE \E c \in Cmds, o \in Trans : NewTransaction(c, o)
      BY <1>1, <3>2, NewUntouched
    <3>3. CASE \E o \in Trans : Coroutine(o)
      BY <1>1, <3>3, CoroutineUntouched
    <3>4. CASE \/ \E q \in requests : \E rand \in AnswerRandoms(q) : ProcessFrame(q, rand)
               \/ \E q \in queries : ProcessDbRsp(q)
               \/ \E t \in timers : TimerCallback(t)
      BY <1>1, <3>4, DeliveryUntouched
    <3>. QED BY <3>1, <3>2, <3>3, <3>4 DEF Next, MainLoop
  <2>2. Guarded(p)'
    BY <1>1, <2>1 DEF Guarded, Untouched
  <2>3. wait'[p] = "rpc" => req_random'[p] # 0
    BY <2>1 DEF Untouched
  <2>. QED BY <2>2, <2>3
<1>2. CASE wait[p] = "no"
  <2>1. running = p
        /\ \/ \E r \in Randoms : SendMsgAndWait(p, r)
           \/ \E kind \in {"mysql", "redis"} : DbQuery(p, kind)
           \/ Sleep(p)
    <3>1. ~UNCHANGED vars
      BY <1>2 DEF vars
    <3>2. ASSUME NEW c \in Cmds, NEW o \in Trans PROVE ~NewTransaction(c, o)
      BY <1>2 DEF NewTransaction
    <3>3. ASSUME NEW id, NEW m, NEW r PROVE ~Resume(GetTransaction(id), m, r)
      BY <1>2 DEF Resume, IInv, TypeOK
    <3>4. ASSUME NEW q \in requests, NEW rand PROVE ~ProcessFrame(q, rand)
      BY <1>2, <3>3 DEF ProcessFrame
    <3>5. ASSUME NEW q \in queries PROVE ~ProcessDbRsp(q)
      BY <1>2, <3>3 DEF ProcessDbRsp
    <3>6. ASSUME NEW t \in timers PROVE ~TimerCallback(t)
      BY <1>2, <3>3 DEF TimerCallback
    <3>7. PICK o \in Trans : Coroutine(o)
      BY <3>1, <3>2, <3>4, <3>5, <3>6 DEF Next, MainLoop
    <3>8. ~(\E r \in Randoms : SendMsg(o, r)) /\ ~Finish(o)
      BY <1>2 DEF SendMsg, Finish
    <3>9. ASSUME NEW kind, Suspend(o, kind) PROVE o = p
      BY <1>2, <3>9 DEF Suspend, IInv, TypeOK
    <3>. QED
      BY <3>7, <3>8, <3>9 DEF Coroutine, SendMsgAndWait, DbQuery, Sleep, Call
  <2>2. /\ calls' = [calls EXCEPT ![p] = @ + 1]
        /\ trans_id' = trans_id /\ gen' = gen
        /\ \E kind \in Waits : Suspend(p, kind)
    BY <2>1 DEF SendMsgAndWait, DbQuery, Sleep, Call, objVars, Waits
  <2>3. calls'[p] - 1 = calls[p]
    BY <2>2 DEF IInv, TypeOK
  <2>4. Guarded(p)'
    <3>1. CASE Event(p) \in timers'
      <4>1. Event(p).tid = trans_id'[p] /\ Event(p).n = calls'[p] - 1
        BY <2>2, <2>3 DEF Event
      <4>. QED BY <3>1, <4>1 DEF Guarded
    <3>2. CASE unguarded'[p]
      BY <3>2 DEF Guarded
    <3>. QED BY <2>2, <3>1, <3>2 DEF Suspend, SetTimer, IInv, TypeOK
  <2>5. ASSUME wait'[p] = "rpc" PROVE req_random'[p] # 0
    <3>1. ~Sleep(p)
      BY <2>5 DEF Sleep, Suspend, IInv, TypeOK
    <3>2. ASSUME NEW kind \in {"mysql", "redis"} PROVE ~DbQuery(p, kind)
      BY <2>5, <3>2 DEF DbQuery, Suspend, IInv, TypeOK
    <3>3. PICK r \in Randoms : SendMsgAndWait(p, r)
      BY <2>1, <3>1, <3>2
    <3>. QED BY <3>3, RandomsAssumption DEF SendMsgAndWait, IInv, TypeOK
  <2>. QED BY <2>4, <2>5
<1>. QED BY <1>1, <1>2

(* A two-way SendMsg awaits a random.                                       *)
RandomAwaited == \A p \in Trans : wait[p] = "rpc" => req_random[p] # 0

(* What is on its way to an active transaction was caused by an earlier     *)
(* call of that transaction.                                                *)
CausedEarlier ==
  \A q \in requests : q.ev.tid \in DOMAIN active =>
    q.ev.n < calls[active[q.ev.tid]]

(* A request is sent by the running transaction, which counts the call; the *)
(* counter starts again only under an id that no request carries.           *)
LEMMA StepCaused ==
  ASSUME IInv, CausedEarlier, [Next]_vars
  PROVE  CausedEarlier'
<1>1. ASSUME NEW c \in Cmds, NEW o \in Trans, NewTransaction(c, o)
      PROVE  CausedEarlier'
  <2>1. SUFFICES ASSUME NEW q \in requests, q.ev.tid \in DOMAIN active'
                 PROVE  q.ev.n < calls'[active'[q.ev.tid]]
    BY <1>1 DEF NewTransaction, CausedEarlier
  <2>2. q.ev \in Pending
    BY DEF Pending
  <2>3. q.ev.tid \in DOMAIN active /\ active'[q.ev.tid] = active[q.ev.tid]
    BY <1>1, <2>1, <2>2 DEF NewTransaction, InsertActive, IInv, IdsBelowGenerator, TypeOK
  <2>4. active[q.ev.tid] # o /\ active[q.ev.tid] \in Trans
    BY <1>1, <2>3, CreatesIdle DEF NewTransaction, IInv, ActiveMapExact, TypeOK
  <2>. QED BY <1>1, <2>3, <2>4 DEF NewTransaction, CausedEarlier, IInv, TypeOK
<1>2. ASSUME NEW o \in Trans, running = o, UNCHANGED active,
             calls' = [calls EXCEPT ![o] = @ + 1],
             \A q \in requests' : q \in requests \/ q.ev = Event(o)
      PROVE  CausedEarlier'
  <2>1. SUFFICES ASSUME NEW q \in requests', q.ev.tid \in DOMAIN active
                 PROVE  q.ev.n < calls'[active[q.ev.tid]]
    BY <1>2 DEF CausedEarlier
  <2>2. active[q.ev.tid] \in Trans
    BY <2>1 DEF IInv, TypeOK
  <2>3. CASE q \in requests
    <3>1. q.ev.n < calls[active[q.ev.tid]] /\ q.ev.n \in Nat
      BY <2>1, <2>3 DEF CausedEarlier, IInv, TypeOK, Request, Events
    <3>2. calls'[active[q.ev.tid]] >= calls[active[q.ev.tid]]
      BY <1>2, <2>2 DEF IInv, TypeOK
    <3>3. calls'[active[q.ev.tid]] \in Nat /\ calls[active[q.ev.tid]] \in Nat
      BY <1>2, <2>2 DEF IInv, TypeOK
    <3>. QED BY <3>1, <3>2, <3>3
  <2>4. CASE q.ev = Event(o)
    <3>1. q.ev.tid = trans_id[o] /\ q.ev.n = calls[o]
      BY <2>4 DEF Event
    <3>2. active[trans_id[o]] = o
      BY <1>2, RunningIsActive DEF IInv
    <3>. QED BY <1>2, <3>1, <3>2 DEF IInv, TypeOK
  <2>. QED BY <1>2, <2>1, <2>3, <2>4
<1>3. ASSUME UNCHANGED calls, requests' \subseteq requests,
             DOMAIN active' \subseteq DOMAIN active,
             \A i \in DOMAIN active' : active'[i] = active[i]
      PROVE  CausedEarlier'
  BY <1>3 DEF CausedEarlier
<1>4. ASSUME NEW o \in Trans, NEW r \in Randoms, SendMsg(o, r)
      PROVE  CausedEarlier'
  <2>1. \A q \in requests' : q \in requests \/ q.ev = Event(o)
    BY <1>4 DEF SendMsg, Send
  <2>. QED BY <1>4, <2>1, <1>2 DEF SendMsg, Call, mgrVars
<1>5. ASSUME NEW o \in Trans, NEW r \in Randoms, SendMsgAndWait(o, r)
      PROVE  CausedEarlier'
  <2>1. \A q \in requests' : q \in requests \/ q.ev = Event(o)
    BY <1>5 DEF SendMsgAndWait, Send
  <2>. QED BY <1>5, <2>1, <1>2 DEF SendMsgAndWait, Call, mgrVars
<1>6. ASSUME NEW o \in Trans, NEW kind \in {"mysql", "redis"}, DbQuery(o, kind)
      PROVE  CausedEarlier'
  BY <1>6, <1>2 DEF DbQuery, Call, mgrVars
<1>7. ASSUME NEW o \in Trans, Sleep(o)
      PROVE  CausedEarlier'
  BY <1>7, <1>2 DEF Sleep, Call, mgrVars
<1>8. ASSUME NEW o \in Trans, Finish(o)
      PROVE  CausedEarlier'
  BY <1>8, <1>3 DEF Finish, EraseActive
<1>9. ASSUME \/ \E q \in requests : \E rand \in AnswerRandoms(q) : ProcessFrame(q, rand)
             \/ \E q \in queries : ProcessDbRsp(q)
             \/ \E t \in timers : TimerCallback(t)
             \/ UNCHANGED vars
      PROVE  CausedEarlier'
  BY <1>9, <1>3 DEF ProcessFrame, ProcessDbRsp, TimerCallback, mgrVars, vars
<1>. QED
  BY <1>1, <1>4, <1>5, <1>6, <1>7, <1>8, <1>9 DEF Next, MainLoop, Coroutine

(* The invariant of the suspended transactions.                             *)
WInv == IInv /\ WaitGuarded /\ RandomAwaited /\ CausedEarlier

(* WInv holds in every reachable state.                                     *)
LEMMA WaitInvariance == Spec => []WInv
<1>1. Init => WInv
  BY InitIInv DEF WInv, Init, WaitGuarded, RandomAwaited, CausedEarlier
<1>2. WInv /\ [Next]_vars => WInv'
  <2> SUFFICES ASSUME WInv, [Next]_vars PROVE WInv'
    OBVIOUS
  <2>1. IInv'
    BY StepIInv DEF WInv
  <2>2. ASSUME NEW p \in Trans, wait'[p] # "no"
        PROVE  Guarded(p)' /\ (wait'[p] = "rpc" => req_random'[p] # 0)
    BY <2>2, StepGuarded DEF WInv, WaitGuarded, RandomAwaited, Guarded
  <2>3. WaitGuarded'
    BY <2>2 DEF WaitGuarded, Guarded
  <2>4. RandomAwaited'
    BY <2>2 DEF RandomAwaited
  <2>5. CausedEarlier'
    BY StepCaused DEF WInv
  <2>. QED BY <2>1, <2>3, <2>4, <2>5 DEF WInv
<1>. QED BY <1>1, <1>2, PTL DEF Spec

(* A suspended transaction always has the timer of its own Wait pending,    *)
(* unless the pool dropped it.                                              *)
THEOREM WaitsAreGuarded == Spec => []WaitGuarded
<1>1. WInv => WaitGuarded
  BY DEF WInv
<1>. QED BY <1>1, WaitInvariance, PTL

(* A frame that ends the wait of a two-way SendMsg answers the request of    *)
(* that call, or an earlier request of the same transaction that drew the   *)
(* awaited random or whose responder waited before it answered.             *)
THEOREM AnswersAreOwn == Spec => OwnAnswer
<1> DEFINE Own == \A o \in Trans, q \in requests :
                    (wait[o] = "rpc" /\ running' = o /\ q \notin requests') =>
                      \/ q.ev = Awaited(o)
                      \/ /\ q.ev \in Earlier(o)
                         /\ q.nested \/ q.rand = req_random[o]
<1>1. WInv /\ [Next]_vars => [Own]_vars
  <2> SUFFICES ASSUME WInv, [Next]_vars, NEW o \in Trans, NEW q \in requests,
                      wait[o] = "rpc", running' = o, q \notin requests'
               PROVE  \/ q.ev = Awaited(o)
                      \/ /\ q.ev \in Earlier(o)
                         /\ q.nested \/ q.rand = req_random[o]
    OBVIOUS
  <2>1. req_random[o] # 0
    BY DEF WInv, RandomAwaited
  <2>2. PICK rand \in AnswerRandoms(q) : ProcessFrame(q, rand)
    <3>1. ASSUME NEW x \in Trans, Coroutine(x) PROVE q \in requests'
      BY <3>1 DEF Coroutine, SendMsg, SendMsgAndWait, Send, DbQuery, Sleep, Finish
    <3>2. ASSUME NEW c \in Cmds, NEW x \in Trans, NewTransaction(c, x)
          PROVE  q \in requests'
      BY <3>2 DEF NewTransaction
    <3>3. ASSUME \/ \E d \in queries : ProcessDbRsp(d)
                 \/ \E t \in timers : TimerCallback(t)
                 \/ UNCHANGED vars
          PROVE  q \in requests'
      BY <3>3 DEF ProcessDbRsp, TimerCallback, vars
    <3>4. PICK d \in requests : \E rand \in AnswerRandoms(d) : ProcessFrame(d, rand)
      BY <3>1, <3>2, <3>3 DEF Next, MainLoop
    <3>. QED BY <3>4 DEF ProcessFrame
  <2>3. GetTransaction(q.ev.tid) = o /\ Accepts(o, rand)
    <3>1. running = NoTrans /\ o # NoTrans
      BY <2>2, TransAssumption DEF ProcessFrame
    <3>. QED BY <2>2, <3>1 DEF ProcessFrame, Resume
  <2>4. q.nested \/ q.rand = req_random[o]
    BY <2>1, <2>2, <2>3 DEF AnswerRandoms, Accepts
  <2>5. q.ev.tid \in DOMAIN active /\ active[q.ev.tid] = o
    BY <2>3, TransAssumption DEF GetTransaction
  <2>6. q.ev \in Pending /\ q.ev \in Events
    BY DEF Pending, WInv, IInv, TypeOK, Request
  <2>7. q.ev.obj = o /\ q.ev.gen = gen[o] /\ q.ev.tid = trans_id[o]
    BY <2>5, <2>6 DEF WInv, IInv, EventsBelong, ActiveMapExact
  <2>8. q.ev.n < calls[o] /\ q.ev.n \in Nat /\ calls[o] \in Nat
    BY <2>5, <2>6 DEF WInv, CausedEarlier, IInv, TypeOK, Events
  <2>9. q.ev = [tid |-> trans_id[o], obj |-> o, gen |-> gen[o], n |-> q.ev.n]
    BY <2>6, <2>7 DEF Events
  <2>10. CASE q.ev.n = calls[o] - 1
    BY <2>9, <2>10 DEF Awaited
  <2>11. CASE q.ev.n # calls[o] - 1
    <3>1. q.ev.n \in 0..(calls[o] - 2)
      BY <2>8, <2>11
    <3>2. q.ev = [Awaited(o) EXCEPT !.n = q.ev.n]
      BY <2>9 DEF Awaited
    <3>. QED BY <3>1, <3>2, <2>4 DEF Earlier
  <2>. QED BY <2>10, <2>11
<1>. QED BY <1>1, WaitInvariance, PTL DEF Spec, OwnAnswer
=============================================================================
