--------------------------- MODULE AsyncMysqlMgr ----------------------------
(***************************************************************************)
(* commonlib/async: the worker threads that run database requests for the  *)
(* main thread.  (AsyncRedisMgr has the same text with other types.)       *)
(*                                                                         *)
(* Every worker has a queue of its own, guarded by a mutex, and ONE        *)
(* condition variable: the worker waits on it for a request, the main      *)
(* thread for room.  Both notify it after they have unlocked.  A critical  *)
(* section does not block except in wait(), so it is one step here; wait() *)
(* splits it in two, and notify() is a step of its own.                    *)
(***************************************************************************)
EXTENDS Naturals, Sequences

CONSTANTS
  W,            \* worker threads (work_cnt)
  QueueMax,     \* _queue_max_size
  MaxReqs,      \* bound: requests the main thread adds
  MaxSpurious   \* bound: wakeups of a wait() that no notify() caused

ASSUME SizesAssumption ==
  W \in Nat \ {0} /\ QueueMax \in Nat \ {0} /\ MaxReqs \in Nat
    /\ MaxSpurious \in Nat

VARIABLES
  queue,      \* per worker: _queue
  rsp_queue,  \* _rsp_queue
  worker,     \* per worker: where its thread is in run()
  hand,       \* per worker: req, as << req >>, or << >> for a null pointer
  main,       \* where the main thread is
  req,        \* the request of the AddRequest in progress
  added,      \* history: requests added so far
  picked,     \* history: the responses Pick returned
  spurious    \* history: spurious wakeups so far

vars == << queue, rsp_queue, worker, hand, main, req, added, picked, spurious >>

-----------------------------------------------------------------------------
Workers == 0..(W - 1)

OrderIds == 0..W

(* A request, and its response: the number tells requests apart.           *)
Reqs == [n : 1..MaxReqs, orderid : OrderIds]

NoReq == [n |-> 0, orderid |-> 0]

(* The worker of an order id.                                              *)
Work(r) == r.orderid % W

Init ==
  /\ queue = [w \in Workers |-> << >>]
  /\ rsp_queue = << >>
  /\ worker = [w \in Workers |-> "lock"]
  /\ hand = [w \in Workers |-> << >>]
  /\ main = "free"
  /\ req = NoReq
  /\ added = 0
  /\ picked = << >>
  /\ spurious = 0

-----------------------------------------------------------------------------
(* AddRequest from its push on.                                            *)
Push(r) ==
  /\ queue' = [queue EXCEPT ![Work(r)] = Append(@, r)]
  /\ main' = "notify"

MustWait_Never(r) == FALSE

MustWait(r) == Len(queue[Work(r)]) >= QueueMax

(* AddRequest: lock, and wait if the queue is full, else push and unlock.   *)
AddRequest(orderid) ==
  LET r == [n |-> added + 1, orderid |-> orderid] IN
  /\ main = "free"
  /\ added < MaxReqs
  /\ added' = added + 1
  /\ req' = r
  /\ IF MustWait(r)
       THEN main' = "wait" /\ UNCHANGED queue
       ELSE Push(r)
  /\ UNCHANGED << rsp_queue, worker, hand, picked, spurious >>

(* wait() has returned with the mutex.  The test is not repeated.           *)
AddRequestWoken ==
  /\ main = "woken"
  /\ Push(req)
  /\ UNCHANGED << rsp_queue, worker, hand, req, added, picked, spurious >>

AddRequestNotify_Lost ==
  /\ main = "notify"
  /\ main' = "free"
  /\ UNCHANGED << queue, rsp_queue, worker, hand, req, added, picked,
                  spurious >>

(* notify() after the unlock: it wakes the worker if that waits.            *)
AddRequestNotify ==
  /\ main = "notify"
  /\ main' = "free"
  /\ worker' = [worker EXCEPT ![Work(req)] = IF @ = "wait" THEN "woken" ELSE @]
  /\ UNCHANGED << queue, rsp_queue, hand, req, added, picked, spurious >>

(* Pick: the main loop takes one response per round.                        *)
Pick ==
  /\ main = "free" /\ rsp_queue # << >>
  /\ picked' = Append(picked, Head(rsp_queue))
  /\ rsp_queue' = Tail(rsp_queue)
  /\ UNCHANGED << queue, worker, hand, main, req, added, spurious >>

-----------------------------------------------------------------------------
Pop_Newest(w) ==
  /\ hand' = [hand EXCEPT ![w] = SubSeq(queue[w], Len(queue[w]), Len(queue[w]))]
  /\ queue' = [queue EXCEPT ![w] = SubSeq(@, 1, Len(@) - 1)]

(* The front of the queue, if there is one, leaves it.                     *)
Pop(w) ==
  /\ hand' = [hand EXCEPT ![w] = SubSeq(queue[w], 1, 1)]
  /\ queue' = [queue EXCEPT ![w] = SubSeq(@, 2, Len(@))]

(* run: lock, and wait if the queue is empty, else pop and unlock.          *)
RunLock(w) ==
  /\ worker[w] = "lock"
  /\ IF queue[w] = << >>
       THEN /\ worker' = [worker EXCEPT ![w] = "wait"]
            /\ UNCHANGED << queue, hand >>
       ELSE /\ worker' = [worker EXCEPT ![w] = "notify"]
            /\ Pop(w)
  /\ UNCHANGED << rsp_queue, main, req, added, picked, spurious >>

(* wait() has returned with the mutex; the queue may still be empty.        *)
RunWoken(w) ==
  /\ worker[w] = "woken"
  /\ worker' = [worker EXCEPT ![w] = "notify"]
  /\ IF queue[w] = << >>
       THEN hand' = [hand EXCEPT ![w] = << >>] /\ UNCHANGED queue
       ELSE Pop(w)
  /\ UNCHANGED << rsp_queue, main, req, added, picked, spurious >>

(* notify() after the unlock: it wakes the main thread if that waits on     *)
(* this worker's condition.                                                 *)
RunNotify(w) ==
  /\ worker[w] = "notify"
  /\ worker' = [worker EXCEPT ![w] = IF hand[w] = << >> THEN "lock"
                                                        ELSE "process"]
  /\ main' = IF main = "wait" /\ Work(req) = w THEN "woken" ELSE main
  /\ UNCHANGED << queue, rsp_queue, hand, req, added, picked, spurious >>

(* proccss runs the request; its response goes to the main thread.          *)
RunProcess(w) ==
  /\ worker[w] = "process"
  /\ rsp_queue' = rsp_queue \o hand[w]
  /\ hand' = [hand EXCEPT ![w] = << >>]
  /\ worker' = [worker EXCEPT ![w] = "lock"]
  /\ UNCHANGED << queue, main, req, added, picked, spurious >>

(* pthread_cond_wait may return without a signal.                           *)
SpuriousWakeup ==
  /\ spurious < MaxSpurious
  /\ spurious' = spurious + 1
  /\ \/ /\ main = "wait" /\ main' = "woken"
        /\ UNCHANGED worker
     \/ \E w \in Workers :
          /\ worker[w] = "wait"
          /\ worker' = [worker EXCEPT ![w] = "woken"]
          /\ UNCHANGED main
  /\ UNCHANGED << queue, rsp_queue, hand, req, added, picked >>

-----------------------------------------------------------------------------
Main ==
  \/ \E o \in OrderIds : AddRequest(o)
  \/ AddRequestWoken
  \/ AddRequestNotify
  \/ Pick

Run(w) == RunLock(w) \/ RunWoken(w) \/ RunNotify(w) \/ RunProcess(w)

Next == Main \/ (\E w \in Workers : Run(w)) \/ SpuriousWakeup

Spec == Init /\ [][Next]_vars

(* Every thread is scheduled; the main loop picks in every round, while     *)
(* nothing makes it add requests.                                           *)
Fairness ==
  /\ WF_vars(AddRequestWoken) /\ WF_vars(AddRequestNotify)
  /\ WF_vars(Pick)
  /\ \A w \in Workers : WF_vars(Run(w))

FairSpec == Spec /\ Fairness

-----------------------------------------------------------------------------
(* The types of the queues and the threads' positions.                      *)
TypeOK ==
  /\ queue \in [Workers -> Seq(Reqs)]
  /\ rsp_queue \in Seq(Reqs)
  /\ worker \in [Workers -> {"lock", "wait", "woken", "notify", "process"}]
  /\ hand \in [Workers -> {<< >>} \cup {<< r >> : r \in Reqs}]
  /\ main \in {"free", "wait", "woken", "notify"}
  /\ req \in Reqs \cup {NoReq}
  /\ added \in 0..MaxReqs
  /\ picked \in Seq(Reqs)
  /\ spurious \in 0..MaxSpurious
  /\ main # "free" => req \in Reqs
  /\ \A w \in Workers : worker[w] = "process" => hand[w] # << >>

(* The threads, their queues and wakeups implement a service that answers  *)
(* in order per worker: between AddRequest and Pick no request is lost,     *)
(* doubled or overtaken by another of its worker.  Asked of a worker is     *)
(* what it has in hand and in its queue, and the answers are the responses  *)
(* that were picked and those still to pick.                                *)
Service == INSTANCE OrderedService WITH
  Lanes <- Workers,
  Requests <- Reqs,
  asked <- [w \in Workers |-> hand[w] \o queue[w]],
  answers <- picked \o rsp_queue

ImplementsService == Service!Spec

(* A queue exceeds its limit by at most one, and by one more for each       *)
(* spurious wakeup: wait() may return for a notify() sent before the queue  *)
(* filled up, and AddRequest does not look again.                           *)
QueueBound ==
  \A w \in Workers : Len(queue[w]) <= QueueMax + 1 + spurious

(* Every request is answered and its response picked: no wakeup is lost,    *)
(* so AddRequest does not wait for room for ever, nor a worker for work.    *)
AllAnswered ==
  \A i \in 1..MaxReqs :
    (added >= i) ~> (\E k \in 1..Len(picked) : picked[k].n = i)
=============================================================================
