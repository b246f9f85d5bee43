----------------------------- MODULE TimerPool ------------------------------
(***************************************************************************)
(* slience/base/time_pool: the timing wheel behind Transaction::Wait.      *)
(*                                                                         *)
(* A timer is filed under its expiry in the bucket of that expiry; Update  *)
(* sweeps the buckets from the cursor to the bucket of `now' and calls the *)
(* timed-out ones back.  A callback resumes a coroutine, which may add     *)
(* timers while the sweep is in progress, so Update is several steps here. *)
(*                                                                         *)
(* Times are milliseconds since _beg_time.  The wheel's pair of indices    *)
(* (second, tenth of a second) is one index, big * 10 + small, as Update   *)
(* itself computes it.                                                     *)
(***************************************************************************)
EXTENDS Naturals, FiniteSets

CONSTANTS
  Gran,       \* milliseconds per small bucket (100)
  N,          \* buckets of the wheel (big_bucket_cnt * small_bucket_cnt)
  MaxNow,     \* bound: the clock stops here (before 2^31 ms, see Clock)
  MaxLag,     \* bound: milliseconds the clock is ahead of the last Update
  MaxTimers   \* bound: timers added before _cur_timer_id restarts

ASSUME WheelAssumption == Gran \in Nat \ {0} /\ N \in Nat \ {0}
ASSUME HorizonAssumption ==
  MaxNow \in Nat /\ MaxLag \in Nat /\ MaxTimers \in Nat

VARIABLES
  now,           \* the system clock, which AddTimer reads
  bucket,        \* _bucket: per index the TimeNodeMap, a set of nodes
  cursor,        \* _big_bucket * 10 + _small_bucket
  cur_timer_id,  \* _cur_timer_id
  pc,            \* "idle", or where the running Update is
  at,            \* the `now' of the running, or else of the last, Update
  s_idx,         \* local to Update: the next bucket to visit
  e_idx,         \*   the last one
  nodelist,      \*   the timed-out nodes of the bucket it visits
  fired,         \* history: nodes called back
  cancelled,     \* history: nodes cancelled
  dropped,       \* history: nodes std::map::insert did not take
  skipped        \* history: nodes due when the wheel started over

vars == << now, bucket, cursor, cur_timer_id, pc, at, s_idx, e_idx, nodelist,
           fired, cancelled, dropped, skipped >>

sweepVars == << cursor, pc, at, s_idx, e_idx, nodelist, skipped >>

-----------------------------------------------------------------------------
Indices == 0..(N - 1)

Nodes == [timer_id : 1..MaxTimers, expire : 1..(MaxNow + N * Gran)]

Stored == UNION {bucket[b] : b \in Indices}

CalcBucket(t) == (t \div Gran) % N

Init ==
  /\ now = 0
  /\ bucket = [b \in Indices |-> {}]
  /\ cursor = 0
  /\ cur_timer_id = 1
  /\ pc = "idle"
  /\ at = 0
  /\ s_idx = 0
  /\ e_idx = 0
  /\ nodelist = {}
  /\ fired = {}
  /\ cancelled = {}
  /\ dropped = {}
  /\ skipped = {}

(* The clock moves on between two readings.  (_CalcBucket holds times in an *)
(* int, which ends after 24 days; the model's horizon lies before that.)    *)
Clock ==
  /\ now' \in (now + 1)..MaxNow
  /\ now' <= at + MaxLag
  /\ UNCHANGED << bucket, cursor, cur_timer_id, pc, at, s_idx, e_idx,
                  nodelist, fired, cancelled, dropped, skipped >>

(* std::map::insert keeps the node that already has the key.               *)
Insert(node) ==
  LET b == CalcBucket(node.expire) IN
  IF \E n \in bucket[b] : n.expire = node.expire
    THEN /\ dropped' = dropped \cup {node}
         /\ UNCHANGED bucket
    ELSE /\ bucket' = [bucket EXCEPT ![b] = @ \cup {node}]
         /\ UNCHANGED dropped

(* AddTimer, from the main loop or from a callback of Update.  An interval  *)
(* out of range is answered 0 and changes nothing.                          *)
AddTimer(interval) ==
  /\ pc \in {"idle", "callback"}
  /\ interval > 0 /\ interval <= N * Gran
  /\ cur_timer_id <= MaxTimers
  /\ cur_timer_id' = cur_timer_id + 1
  /\ Insert([timer_id |-> cur_timer_id, expire |-> now + interval])
  /\ UNCHANGED << now, sweepVars, fired, cancelled >>

(* CancelTimer finds a stored node by its id.  (An id that is not stored    *)
(* is answered -1.)  No callback of this program cancels a timer:           *)
(* Transaction never learns the id of its timer.                            *)
CancelTimer(node) ==
  /\ pc = "idle"
  /\ bucket' = [bucket EXCEPT ![CalcBucket(node.expire)] = @ \ {node}]
  /\ cancelled' = cancelled \cup {node}
  /\ UNCHANGED << now, sweepVars, cur_timer_id, fired, dropped >>

(* The turn of the wheel a time lies in.                                    *)
Turn(t) == t \div (Gran * N)

(* Update is called with the time the main loop last looked at the clock.   *)
(* In the first call of a turn s_idx is beyond e_idx, and it sweeps nothing.*)
UpdateBegin(t) ==
  /\ pc = "idle"
  /\ t \in at..now
  /\ pc' = "sweep"
  /\ at' = t
  /\ s_idx' = cursor
  /\ e_idx' = CalcBucket(t)
  /\ skipped' = IF Turn(t) # Turn(at)
                  THEN skipped \cup {n \in Stored : n.expire <= t} ELSE skipped
  /\ UNCHANGED << now, bucket, cursor, cur_timer_id, nodelist, fired,
                  cancelled, dropped >>

Due_All(b) == bucket[b]

Due(b) == {n \in bucket[b] : n.expire <= at}

SweepOn_Exclusive == s_idx < e_idx

SweepOn == s_idx <= e_idx

(* One round of the loop: the timed-out nodes of a bucket leave its map.    *)
VisitBucket ==
  /\ pc # "idle" /\ nodelist = {} /\ SweepOn
  /\ nodelist' = Due(s_idx)
  /\ bucket' = [bucket EXCEPT ![s_idx] = @ \ Due(s_idx)]
  /\ s_idx' = s_idx + 1
  /\ pc' = "sweep"
  /\ UNCHANGED << now, cursor, cur_timer_id, at, e_idx, fired, cancelled,
                  dropped, skipped >>

Callback_Kept(n) ==
  /\ pc # "idle"
  /\ \A m \in nodelist : n.expire <= m.expire
  /\ nodelist' = nodelist \ {n}
  /\ bucket' = [bucket EXCEPT ![s_idx - 1] = @ \cup {n}]
  /\ fired' = fired \cup {n}
  /\ pc' = "callback"
  /\ UNCHANGED << now, cursor, cur_timer_id, at, s_idx, e_idx,
                  cancelled, dropped, skipped >>

(* Their callbacks are called in the order of the map, that of the expiry.  *)
Callback(n) ==
  /\ pc # "idle"
  /\ \A m \in nodelist : n.expire <= m.expire
  /\ nodelist' = nodelist \ {n}
  /\ fired' = fired \cup {n}
  /\ pc' = "callback"
  /\ UNCHANGED << now, bucket, cursor, cur_timer_id, at, s_idx, e_idx,
                  cancelled, dropped, skipped >>

UpdateEnd ==
  /\ pc # "idle" /\ nodelist = {} /\ ~SweepOn
  /\ cursor' = e_idx
  /\ pc' = "idle"
  /\ UNCHANGED << now, bucket, cur_timer_id, at, s_idx, e_idx, nodelist,
                  fired, cancelled, dropped, skipped >>

Next ==
  \/ Clock
  \/ \E interval \in 1..(N * Gran) : AddTimer(interval)
  \/ \E n \in Stored : CancelTimer(n)
  \/ \E t \in 0..MaxNow : UpdateBegin(t)
  \/ VisitBucket
  \/ \E n \in nodelist : Callback(n)
  \/ UpdateEnd

Spec == Init /\ [][Next]_vars

-----------------------------------------------------------------------------
(* The types of the pool's state.                                           *)
TypeOK ==
  /\ now \in 0..MaxNow
  /\ bucket \in [Indices -> SUBSET Nodes]
  /\ cursor \in Indices
  /\ cur_timer_id \in 1..(MaxTimers + 1)
  /\ pc \in {"idle", "sweep", "callback"}
  /\ at \in 0..MaxNow
  /\ s_idx \in 0..N
  /\ e_idx \in Indices
  /\ nodelist \subseteq Nodes
  /\ fired \subseteq Nodes
  /\ cancelled \subseteq Nodes
  /\ dropped \subseteq Nodes
  /\ skipped \subseteq Nodes

(* What AddTimer accepted is in exactly one place: stored, about to be      *)
(* called back, called back, cancelled or dropped.  No timer is called back *)
(* twice, or after CancelTimer returned 0 for it.                           *)
Accounted ==
  LET places == << Stored, nodelist, fired, cancelled, dropped >> IN
  /\ \A i, j \in 1..5 : i # j => places[i] \cap places[j] = {}
  /\ {n.timer_id : n \in UNION {places[i] : i \in 1..5}}
       = 1..(cur_timer_id - 1)

(* A stored timer that is due lies in a bucket the running sweep has still  *)
(* to visit, although callbacks add timers while it is under way, and when  *)
(* Update has returned none is due; the exception are those that were due   *)
(* when the wheel started over.                                             *)
AheadOfSweep ==
  \A b \in Indices : \A n \in bucket[b] :
    \/ n.expire > at
    \/ n \in skipped
    \/ pc # "idle" /\ s_idx <= b /\ b <= e_idx

(* A callback is called for a timed-out timer, and never before that of a   *)
(* timer with an earlier expiry (but for those a turn of the wheel left).   *)
CallbackOrder ==
  [][\A n \in fired' \ fired :
       /\ n.expire <= at
       /\ \A m \in (Stored \cup nodelist) \ skipped : n.expire <= m.expire]_vars

(* "Timed-out nodes are called back" (the comment on Update in              *)
(* time_pool.h): a timer AddTimer accepted, not cancelled and expired when  *)
(* Update was last called has been called back.                             *)
AcceptedAreCalled ==
  pc = "idle" => \A n \in Stored \cup dropped : n.expire > at
=============================================================================
