--------------------------- MODULE TransactionMgr ---------------------------
(***************************************************************************)
(* The transaction framework of commonlib/transaction: TransactionMgrImpl  *)
(* (the map of active transactions, the per-command object pools and the   *)
(* id generator) and Transaction (one object per request, whose OnRequest  *)
(* runs in a coroutine that suspends in Wait).                             *)
(*                                                                         *)
(* Everything here runs on the main thread of a server.  A coroutine runs  *)
(* until it suspends or ends, so `running' names the transaction whose     *)
(* coroutine has the thread and the main loop steps only while there is    *)
(* none.  What OnRequest does is arbitrary: any sequence of the calls the  *)
(* framework offers it.                                                    *)
(***************************************************************************)
EXTENDS Naturals, Sequences, FiniteSets

CONSTANTS
  Trans,          \* Transaction objects: the addresses `new' may return
  NoTrans,        \* no transaction (a null pointer)
  Cmds,           \* commands with a registered TransactionBucket
  NoCmd,          \* the command of an object that was never allocated
  Randoms,        \* the values random().rand(10000, 100000) may return
  MaxConcurrent,  \* _max_concurrent_trans
  MaxTransId,     \* bound: ids handed out before the 32-bit generator wraps
  MaxCalls        \* bound: the transaction with id i makes at most
                  \* MaxCalls - i calls of the framework

ASSUME TransAssumption == NoTrans \notin Trans /\ NoCmd \notin Cmds
ASSUME RandomsAssumption == Randoms \subseteq Nat \ {0}
ASSUME BoundAssumption ==
  MaxConcurrent \in Nat /\ MaxTransId \in Nat /\ MaxCalls \in Nat

VARIABLES
  active,              \* _active_trans_map: id -> object
  bucket,              \* _trans_bucket_map[cmd]->_trans_vec
  trans_id_generator,  \* _trans_id_generator
  home,                \* the bucket an object was made for, NoCmd if never made
  trans_id,            \* per object: _trans_id
  req_random,          \*   _req_random
  mysql_rsp,           \*   _mysql_rsp: "null", "live", or "freed" by Run
  redis_rsp,           \*   _redis_rsp
  wait,                \* what a suspended coroutine waits for, "no" otherwise
  running,             \* the object whose coroutine has the thread
  timers,              \* timers pending in _timer_pool
  requests,            \* requests sent to other servers and not answered yet
  queries,             \* requests handed to AsyncMysqlMgr / AsyncRedisMgr
  gen,                 \* history: how often an object was (re)constructed
  calls,               \* history: framework calls of the current transaction
  unguarded            \* history: the timer of the current Wait was lost

vars == << active, bucket, trans_id_generator, home, trans_id, req_random,
           mysql_rsp, redis_rsp, wait, running, timers, requests, queries,
           gen, calls, unguarded >>

objVars == << home, trans_id, gen >>
mgrVars == << active, bucket, trans_id_generator >>

-----------------------------------------------------------------------------
(* The kinds of wait: Wait after SendMsg..., in MysqlQuery, in RedisExecute *)
(* and a plain Wait(interval).                                              *)
Waits == {"rpc", "mysql", "redis", "sleep"}

Rsps == {"null", "live", "freed"}

Ids == 1..MaxTransId

(* Whatever is addressed to a transaction carries its id; `obj' and `gen'   *)
(* are history: the incarnation that caused it.  `n' keeps apart what one   *)
(* transaction caused by different calls.  A request is `nested' when the   *)
(* transaction that serves it calls Wait before it answers.                 *)
Event(o) == [tid |-> trans_id[o], obj |-> o, gen |-> gen[o], n |-> calls[o]]

Events == [tid : Ids, obj : Trans, gen : Nat, n : Nat]
Timer == Events
Request == [ev : Events, rand : Randoms, nested : BOOLEAN]
Query == [ev : Events, kind : {"mysql", "redis"}]

Init ==
  /\ active = << >>
  /\ bucket = [c \in Cmds |-> << >>]
  /\ trans_id_generator = 1
  /\ home = [o \in Trans |-> NoCmd]
  /\ trans_id = [o \in Trans |-> 0]
  /\ req_random = [o \in Trans |-> 0]
  /\ mysql_rsp = [o \in Trans |-> "null"]
  /\ redis_rsp = [o \in Trans |-> "null"]
  /\ wait = [o \in Trans |-> "no"]
  /\ running = NoTrans
  /\ timers = {}
  /\ requests = {}
  /\ queries = {}
  /\ gen = [o \in Trans |-> 0]
  /\ calls = [o \in Trans |-> 0]
  /\ unguarded = [o \in Trans |-> FALSE]

-----------------------------------------------------------------------------
(* GetActiveTransCnt and the limit CreateTransaction tests.                *)
GetActiveTransCnt == Cardinality(DOMAIN active)

CanCreate_OffByOne == ~(GetActiveTransCnt > MaxConcurrent + 1)

CanCreate == ~(GetActiveTransCnt > MaxConcurrent)

GetTransaction(id) == IF id \in DOMAIN active THEN active[id] ELSE NoTrans

(* std::unordered_map::insert leaves an existing entry alone.              *)
InsertActive(id, o) ==
  active' = [i \in DOMAIN active \cup {id} |->
               IF i \in DOMAIN active THEN active[i] ELSE o]

EraseActive_Forgotten(id) == UNCHANGED active

EraseActive(id) ==
  active' = [i \in DOMAIN active \ {id} |-> active[i]]

(* GeneratorTransId: the id handed out is the generator's value before the  *)
(* increment.                                                               *)
GeneratorTransId_Stuck == trans_id_generator

GeneratorTransId_Skips == trans_id_generator + 2

GeneratorTransId == trans_id_generator + 1

(* The address `new' returns: which free one it is makes no difference.     *)
FreeObject == CHOOSE o \in Trans : home[o] = NoCmd

Creates_NoPop(cmd, o) ==
  /\ IF bucket[cmd] = << >>
       THEN home[o] = NoCmd /\ o = FreeObject
       ELSE o = bucket[cmd][Len(bucket[cmd])]
  /\ UNCHANGED bucket

(* The object CreateTransaction of the bucket returns: the last pooled one, *)
(* or a new one when the pool is empty.                                     *)
Creates(cmd, o) ==
  IF bucket[cmd] = << >>
    THEN home[o] = NoCmd /\ o = FreeObject /\ UNCHANGED bucket
    ELSE /\ o = bucket[cmd][Len(bucket[cmd])]
         /\ bucket' = [bucket EXCEPT ![cmd] = SubSeq(@, 1, Len(@) - 1)]

(* ProcessFrame of a frame with dst_trans_id = 0: CreateTransaction (which  *)
(* constructs the object), Process of the first frame, OnIdle, and the      *)
(* coroutine up to OnRequest.  A frame that finds the limit reached or an   *)
(* unregistered command changes nothing.                                    *)
NewTransaction(cmd, o) ==
  /\ running = NoTrans
  /\ CanCreate
  /\ trans_id_generator <= MaxTransId
  /\ Creates(cmd, o)
  /\ home' = [home EXCEPT ![o] = cmd]
  /\ trans_id' = [trans_id EXCEPT ![o] = trans_id_generator]
  /\ trans_id_generator' = GeneratorTransId
  /\ req_random' = [req_random EXCEPT ![o] = 0]
  /\ mysql_rsp' = [mysql_rsp EXCEPT ![o] = "null"]
  /\ redis_rsp' = [redis_rsp EXCEPT ![o] = "null"]
  /\ InsertActive(trans_id_generator, o)
  /\ running' = o
  /\ gen' = [gen EXCEPT ![o] = @ + 1]
  /\ calls' = [calls EXCEPT ![o] = 0]
  /\ unguarded' = [unguarded EXCEPT ![o] = FALSE]
  /\ UNCHANGED << wait, timers, requests, queries >>

-----------------------------------------------------------------------------
(* What the coroutine of o does while it has the thread.                   *)

(* Run deletes a database response once ProcessMysqlRsp / ProcessRedisRsp  *)
(* returns, which is when the coroutine it resumed gives the thread back.  *)
FreeRsp(rsp, o) == [rsp EXCEPT ![o] = IF @ = "live" THEN "freed" ELSE @]

SetTimer_Forgotten(o) ==
  /\ UNCHANGED timers
  /\ unguarded' = [unguarded EXCEPT ![o] = FALSE]

(* SetTimer: the id AddTimer returns is not kept in _timer_id, so nothing   *)
(* ever cancels the timer.  The pool drops a timer whose expiry equals that *)
(* of a pending one.                                                        *)
SetTimer(o) ==
  \/ /\ timers' = timers \cup {Event(o)}
     /\ unguarded' = [unguarded EXCEPT ![o] = FALSE]
  \/ /\ timers # {}
     /\ UNCHANGED timers
     /\ unguarded' = [unguarded EXCEPT ![o] = TRUE]

(* Wait(interval) up to the yield.                                         *)
Suspend(o, kind) ==
  /\ SetTimer(o)
  /\ wait' = [wait EXCEPT ![o] = kind]
  /\ running' = NoTrans
  /\ mysql_rsp' = FreeRsp(mysql_rsp, o)
  /\ redis_rsp' = FreeRsp(redis_rsp, o)

(* OnRequest has the thread and makes one more call of the framework.       *)
Call(o) ==
  /\ running = o
  /\ calls[o] + trans_id[o] < MaxCalls
  /\ calls' = [calls EXCEPT ![o] = @ + 1]

(* A request leaves with the transaction's id and a new random.             *)
Send(o, r) ==
  \E nested \in BOOLEAN :
    requests' = requests \cup {[ev |-> Event(o), rand |-> r, nested |-> nested]}

(* The one-way SendMsgByServerType / SendMsgByServerId, whose send may fail. *)
SendMsg(o, r) ==
  /\ Call(o)
  /\ req_random' = [req_random EXCEPT ![o] = r]
  /\ Send(o, r) \/ UNCHANGED requests
  /\ UNCHANGED << mgrVars, objVars, mysql_rsp, redis_rsp, wait,
                  running, timers, queries, unguarded >>

(* The two-way SendMsg...: send, then Wait(E_WAIT_FIVE_SECOND); after a     *)
(* failed send it returns at once, which is SendMsg above.                  *)
SendMsgAndWait(o, r) ==
  /\ Call(o)
  /\ req_random' = [req_random EXCEPT ![o] = r]
  /\ Send(o, r)
  /\ Suspend(o, "rpc")
  /\ UNCHANGED << mgrVars, objVars, queries >>

(* MysqlQuery / RedisExecute up to their Wait.  (AddRequest fails only when *)
(* there are no worker threads, and then the call returns an error.)        *)
DbQuery(o, kind) ==
  /\ Call(o)
  /\ queries' = queries \cup {[ev |-> Event(o), kind |-> kind]}
  /\ Suspend(o, kind)
  /\ UNCHANGED << mgrVars, objVars, req_random, requests >>

(* A plain Wait(interval), as SendRegistCmd uses it.                        *)
Sleep(o) ==
  /\ Call(o)
  /\ Suspend(o, "sleep")
  /\ UNCHANGED << mgrVars, objVars, req_random, requests, queries >>

(* OnRequest returns: CoroutineEnter erases the id from the active map and  *)
(* RecyleTransaction puts the object back into the bucket of its command.   *)
Finish(o) ==
  /\ running = o
  /\ EraseActive(trans_id[o])
  /\ bucket' = [bucket EXCEPT ![home[o]] = Append(@, o)]
  /\ running' = NoTrans
  /\ mysql_rsp' = FreeRsp(mysql_rsp, o)
  /\ redis_rsp' = FreeRsp(redis_rsp, o)
  /\ UNCHANGED << trans_id_generator, objVars, req_random, wait,
                  timers, requests, queries, calls, unguarded >>

-----------------------------------------------------------------------------
(* What wakes a coroutine: the main loop, with no coroutine running.       *)

(* OnState resumes the coroutine of o at once: _state is set, the coroutine *)
(* reads it after its yield and resets it to E_STATE_IDLE, so between two   *)
(* steps it is always E_STATE_IDLE and the model leaves it out.  MysqlQuery *)
(* then clears the response it found, RedisExecute only one without an      *)
(* error.                                                                   *)
Resume(o, mrsp, rrsp) ==
  /\ running' = o
  /\ wait' = [wait EXCEPT ![o] = "no"]
  /\ mysql_rsp' = [mysql_rsp EXCEPT
                     ![o] = IF wait[o] = "mysql" THEN "null" ELSE mrsp]
  /\ \E kept \in BOOLEAN :
       redis_rsp' = [redis_rsp EXCEPT
                       ![o] = IF wait[o] = "redis" /\ ~kept
                                THEN "null" ELSE rrsp]

Accepts_Any(o, rand) == TRUE

(* Process ignores a frame while another random is awaited.                 *)
Accepts(o, rand) == req_random[o] = 0 \/ req_random[o] = rand

(* The random the answer to q carries.  TwoWayTransaction takes it from     *)
(* cur_frame(): that is the request itself until its transaction waits,     *)
(* then the frame that resumed it last, whose buffer may be in use again.   *)
AnswerRandoms(q) == IF q.nested THEN Randoms \cup {0} ELSE {q.rand}

(* ProcessFrame of the answer to request q, whenever it arrives.            *)
ProcessFrame(q, rand) ==
  LET o == GetTransaction(q.ev.tid) IN
  /\ running = NoTrans
  /\ requests' = requests \ {q}
  /\ IF o # NoTrans /\ Accepts(o, rand)
       THEN Resume(o, mysql_rsp[o], redis_rsp[o])
       ELSE UNCHANGED << running, wait, mysql_rsp, redis_rsp >>
  /\ UNCHANGED << mgrVars, objVars, req_random, timers, queries, calls,
                  unguarded >>

(* ProcessMysqlRsp / ProcessRedisRsp of the answer to query q.              *)
ProcessDbRsp(q) ==
  LET o == GetTransaction(q.ev.tid) IN
  /\ running = NoTrans
  /\ queries' = queries \ {q}
  /\ IF o # NoTrans
       THEN Resume(o, IF q.kind = "mysql" THEN "live" ELSE mysql_rsp[o],
                      IF q.kind = "redis" THEN "live" ELSE redis_rsp[o])
       ELSE UNCHANGED << running, wait, mysql_rsp, redis_rsp >>
  /\ UNCHANGED << mgrVars, objVars, req_random, timers, requests, calls,
                  unguarded >>

TimerCallback_OnlyRpc(t) ==
  LET o == GetTransaction(t.tid) IN
  /\ running = NoTrans
  /\ timers' = timers \ {t}
  /\ IF o # NoTrans /\ wait[o] = "rpc"
       THEN /\ req_random' = [req_random EXCEPT ![o] = 0]
            /\ Resume(o, mysql_rsp[o], redis_rsp[o])
       ELSE UNCHANGED << req_random, running, wait, mysql_rsp, redis_rsp >>
  /\ UNCHANGED << mgrVars, objVars, requests, queries, calls, unguarded >>

(* Update of the timer pool calls TimerCallback: OnTimeOut forgets the      *)
(* awaited random and resumes the coroutine.                                *)
TimerCallback(t) ==
  LET o == GetTransaction(t.tid) IN
  /\ running = NoTrans
  /\ timers' = timers \ {t}
  /\ IF o # NoTrans
       THEN /\ req_random' = [req_random EXCEPT ![o] = 0]
            /\ Resume(o, mysql_rsp[o], redis_rsp[o])
       ELSE UNCHANGED << req_random, running, wait, mysql_rsp,
                         redis_rsp >>
  /\ UNCHANGED << mgrVars, objVars, requests, queries, calls, unguarded >>

-----------------------------------------------------------------------------
Coroutine(o) ==
  \/ \E r \in Randoms : SendMsg(o, r) \/ SendMsgAndWait(o, r)
  \/ \E kind \in {"mysql", "redis"} : DbQuery(o, kind)
  \/ Sleep(o)
  \/ Finish(o)

MainLoop ==
  \/ \E c \in Cmds, o \in Trans : NewTransaction(c, o)
  \/ \E q \in requests : \E rand \in AnswerRandoms(q) : ProcessFrame(q, rand)
  \/ \E q \in queries : ProcessDbRsp(q)
  \/ \E t \in timers : TimerCallback(t)

Next == MainLoop \/ \E o \in Trans : Coroutine(o)

Spec == Init /\ [][Next]_vars

(* The main loop calls Update of the timer pool in every round with no     *)
(* coroutine running, so a pending timer is called back in the end, and a   *)
(* coroutine that has the thread goes on until it suspends or ends.         *)
Fairness ==
  /\ WF_vars(\E o \in Trans : Coroutine(o))
  /\ \A i \in Ids : SF_vars(\E t \in timers : t.tid = i /\ TimerCallback(t))

FairSpec == Spec /\ Fairness

-----------------------------------------------------------------------------
Busy(o) == wait[o] # "no" \/ running = o

Pooled(o) == \E c \in Cmds : \E k \in 1..Len(bucket[c]) : bucket[c][k] = o

(* Everything on its way to a transaction.                                  *)
Pending == timers \cup {q.ev : q \in requests} \cup {q.ev : q \in queries}

(* What the call that o waits in sent, and what its earlier calls sent.     *)
Awaited(o) ==
  [tid |-> trans_id[o], obj |-> o, gen |-> gen[o], n |-> calls[o] - 1]

Earlier(o) == {[Awaited(o) EXCEPT !.n = k] : k \in 0..(calls[o] - 2)}

(* The types of the framework's state.                                      *)
TypeOK ==
  /\ DOMAIN active \subseteq Ids
  /\ \A i \in DOMAIN active : active[i] \in Trans
  /\ bucket \in [Cmds -> Seq(Trans)]
  /\ trans_id_generator \in 1..(MaxTransId + 1)
  /\ home \in [Trans -> Cmds \cup {NoCmd}]
  /\ trans_id \in [Trans -> Ids \cup {0}]
  /\ req_random \in [Trans -> Randoms \cup {0}]
  /\ mysql_rsp \in [Trans -> Rsps]
  /\ redis_rsp \in [Trans -> Rsps]
  /\ wait \in [Trans -> Waits \cup {"no"}]
  /\ running \in Trans \cup {NoTrans}
  /\ timers \subseteq Timer
  /\ requests \subseteq Request
  /\ queries \subseteq Query
  /\ gen \in [Trans -> Nat]
  /\ calls \in [Trans -> Nat]
  /\ unguarded \in [Trans -> BOOLEAN]

(* _active_trans_map holds exactly the transactions whose coroutine runs or *)
(* is suspended, each once and under its own id: a lookup by id can neither *)
(* find an object that went back to its pool nor miss one that waits.       *)
ActiveMapExact ==
  /\ \A i \in DOMAIN active : trans_id[active[i]] = i /\ Busy(active[i])
  /\ \A o \in Trans :
       Busy(o) => trans_id[o] \in DOMAIN active /\ active[trans_id[o]] = o

(* An object made by a bucket is either in use or in that bucket, and there *)
(* only once: CreateTransaction never hands out an object twice, and none   *)
(* is lost or filed under another command.                                  *)
PoolExact ==
  /\ \A o \in Trans : home[o] # NoCmd => (Busy(o) <=> ~Pooled(o))
  /\ \A c \in Cmds : \A k \in 1..Len(bucket[c]) :
       /\ home[bucket[c][k]] = c
       /\ \A l \in 1..Len(bucket[c]) : bucket[c][l] = bucket[c][k] => l = k

(* A timer, a server's answer or a database response still on its way       *)
(* reaches the transaction that caused it or none: although the objects are *)
(* reused, no late event of an ended transaction is delivered to the        *)
(* transaction that got its object.                                         *)
EventsBelong ==
  \A e \in Pending : e.tid \in DOMAIN active =>
    active[e.tid] = e.obj /\ gen[e.obj] = e.gen

(* At most one transaction more than _max_concurrent_trans is active: the   *)
(* test in CreateTransaction lets one more in than the limit names.         *)
ConcurrencyBound == GetActiveTransCnt <= MaxConcurrent + 1

(* A suspended transaction has a timer pending that its Wait set, unless    *)
(* the pool dropped that timer.                                             *)
WaitGuarded ==
  \A o \in Trans : wait[o] # "no" =>
    \/ unguarded[o]
    \/ \E t \in timers : t.tid = trans_id[o] /\ t.n = calls[o] - 1

(* A frame that resumes a two-way SendMsg answers the request that call     *)
(* sent, or an earlier request of the same transaction that drew the same   *)
(* random or whose responder waits before it answers, and then answers with *)
(* a random that is not the request's: late answers are told apart by       *)
(* req_random alone.                                                        *)
OwnAnswer ==
  [][\A o \in Trans, q \in requests :
       (wait[o] = "rpc" /\ running' = o /\ q \notin requests') =>
         \/ q.ev = Awaited(o)
         \/ /\ q.ev \in Earlier(o)
            /\ q.nested \/ q.rand = req_random[o]]_vars

(* A transaction never waits for ever: whatever its answer does, a Wait     *)
(* whose timer was not dropped ends.                                        *)
WaitEnds ==
  \A o \in Trans :
    (wait[o] # "no" /\ ~unguarded[o]) ~> (wait[o] = "no")
=============================================================================
