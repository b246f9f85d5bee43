--------------------------- MODULE CoroutineTask ----------------------------
(***************************************************************************)
(* slience/coroutine: coroutines with reusable ids, and CoroutineTask,     *)
(* which runs tasks in coroutines that it keeps for the next task.  All    *)
(* state belongs to one thread, except the list that addResume of any      *)
(* thread fills.                                                           *)
(*                                                                         *)
(* A coroutine runs _co_task_func_ with its wrapper: it runs the wrapper's *)
(* task, puts the wrapper into gfreecovec, yields, and looks again at the  *)
(* wrapper's task when it is resumed.  Who is to resume a task knows only  *)
(* the id of its coroutine: `owed' holds the ids that tasks left when they *)
(* yielded, `for' telling whom they were left for.  Tasks are numbered as  *)
(* they are given; the pool of co_task structures does not show.           *)
(***************************************************************************)
EXTENDS Naturals, FiniteSets, SequencesExt

CONSTANTS
  MaxReserve,   \* M_MAX_RESERVE_COROUTINE
  MaxTasks,     \* bound: tasks given
  MaxYields,    \* bound: times a task yields
  MaxTwice,     \* bound: resumes asked for twice
  MaxClears     \* bound: calls of clrTask

ASSUME ReserveAssumption == MaxReserve \in Nat \ {0} /\ MaxTasks \in Nat
ASSUME UseAssumption ==
  MaxYields \in Nat /\ MaxTwice \in Nat /\ MaxClears \in Nat

VARIABLES
  co,          \* per id: _status of the coroutine, "none" if there is none
  data,        \* per id: its wrapper
  frame,       \* per id: the task whose func is on its stack, 0 if none
  freeid,      \* _freeid
  nco,         \* _nco
  curco,       \* the id of _curco, 0 for the main coroutine
  wrapper,     \* per wrapper: its memory, co_id and task
  gfreecovec,  \* wrappers for the next tasks
  allset,      \* galltaskwrapperset
  gworktasklist, \* tasks of addTask
  reslist,     \* what addResume put into _thrid_idlist_map
  idlist,      \* the list resumeTask goes through
  owed,        \* ids left with those who are to resume a task
  given,       \* history: tasks given so far
  done,        \* history: tasks that have ended
  dropped,     \* history: tasks given inside a coroutine
  yields,      \* history: yields so far
  twice,       \* history: resumes asked for twice
  clears,      \* history: calls of clrTask
  undefined    \* memory that was freed has been used

schedule == << co, data, frame, freeid, nco, curco >>
pools == << wrapper, gfreecovec, allset >>
lists == << gworktasklist, reslist, idlist, owed >>
history == << given, done, dropped, yields, twice, clears >>
vars == << schedule, pools, lists, history, undefined >>

-----------------------------------------------------------------------------
Tasks1 == 1..MaxTasks

(* No more coroutines or wrappers than tasks are ever made.                *)
Ids == 1..MaxTasks
Wrappers == 1..MaxTasks

NoWrapper == [mem |-> "none", co_id |-> 0, task |-> 0]

Init ==
  /\ co = [i \in Ids |-> "none"]
  /\ data = [i \in Ids |-> 0]
  /\ frame = [i \in Ids |-> 0]
  /\ freeid = << >> /\ nco = 0 /\ curco = 0
  /\ wrapper = [w \in Wrappers |-> NoWrapper]
  /\ gfreecovec = << >> /\ allset = {}
  /\ gworktasklist = << >> /\ reslist = << >> /\ idlist = << >>
  /\ owed = {}
  /\ given = 0 /\ done = {} /\ dropped = {}
  /\ yields = 0 /\ twice = 0 /\ clears = 0
  /\ undefined = FALSE

(* The thread is in its own code, not inside a coroutine or resumeTask.    *)
InMain == ~undefined /\ curco = 0 /\ idlist = << >>

Running == ~undefined /\ curco # 0

-----------------------------------------------------------------------------
(* Coroutine::resume of id i, with the wrappers wr: its task goes on, or   *)
(* it begins the task of its wrapper; without one it ends, frees the       *)
(* wrapper, and its id is free again.                                      *)
Resume(i, wr) ==
  LET w == data[i] IN
  IF co[i] # "SUSPEND"
    THEN wrapper' = wr /\ UNCHANGED << co, frame, curco, freeid, allset >>
  ELSE IF frame[i] # 0 \/ wr[w].task # 0
    THEN /\ co' = [co EXCEPT ![i] = "RUNNING"]
         /\ curco' = i
         /\ frame' = [frame EXCEPT ![i] = IF @ # 0 THEN @ ELSE wr[w].task]
         /\ wrapper' = wr
         /\ UNCHANGED << freeid, allset >>
  ELSE /\ co' = [co EXCEPT ![i] = "none"]
       /\ wrapper' = [wr EXCEPT ![w].mem = "freed"]
       /\ allset' = allset \ {w}
       /\ freeid' = Append(freeid, i)
       /\ UNCHANGED << frame, curco >>

NewId_Count == Cardinality({i \in Ids : co[i] # "none"}) + 1

(* _alloc_co_: the id that was freed last, or a new one.                   *)
NewId == IF freeid # << >> THEN Last(freeid) ELSE nco + 1

NewWrapper == CHOOSE w \in Wrappers : wrapper[w].mem = "none"

(* doTask in a wrapper and a coroutine made for the task.                  *)
StartNew(t) ==
  LET i == NewId
      w == NewWrapper
  IN /\ gfreecovec = << >>
     /\ wrapper' = [wrapper EXCEPT ![w] = [mem |-> "live", co_id |-> i,
                                           task |-> t]]
     /\ co' = [co EXCEPT ![i] = "RUNNING"]
     /\ curco' = i
     /\ frame' = [frame EXCEPT ![i] = t]
     /\ data' = [data EXCEPT ![i] = w]
     /\ allset' = allset \cup {w}
     /\ freeid' = IF freeid = << >> THEN freeid ELSE Front(freeid)
     /\ nco' = IF freeid = << >> THEN nco + 1 ELSE nco
     /\ UNCHANGED << gfreecovec, undefined >>

StartKept_NotTaken(t) ==
  LET w == Last(gfreecovec)
      i == wrapper[w].co_id
  IN /\ gfreecovec # << >>
     /\ Resume(i, [wrapper EXCEPT ![w].task = t])
     /\ UNCHANGED << gfreecovec, undefined, data, nco >>

(* doTask in the wrapper that was put back last.                           *)
StartKept(t) ==
  LET w == Last(gfreecovec)
      i == wrapper[w].co_id
  IN /\ gfreecovec # << >>
     /\ gfreecovec' = Front(gfreecovec)
     /\ IF wrapper[w].mem = "freed"
          THEN /\ undefined' = TRUE
               /\ UNCHANGED << co, frame, freeid, curco, wrapper, allset >>
          ELSE /\ Resume(i, [wrapper EXCEPT ![w].task = t])
               /\ UNCHANGED undefined
     /\ UNCHANGED << data, nco >>

Start(t) == StartNew(t) \/ StartKept(t)

(* doTask(func, p); inside a coroutine it does nothing.                    *)
DoTaskNow ==
  /\ given < MaxTasks
  /\ given' = given + 1
  /\ \/ InMain /\ Start(given + 1) /\ UNCHANGED dropped
     \/ /\ Running
        /\ dropped' = dropped \cup {given + 1}
        /\ UNCHANGED << schedule, pools, undefined >>
  /\ UNCHANGED << lists, done, yields, twice, clears >>

AddTask ==
  /\ InMain \/ Running
  /\ given < MaxTasks
  /\ given' = given + 1
  /\ gworktasklist' = Append(gworktasklist, given + 1)
  /\ UNCHANGED << schedule, pools, reslist, idlist, owed, done, dropped,
                  yields, twice, clears, undefined >>

(* doTask() with a task of addTask.                                        *)
DoTask ==
  /\ InMain
  /\ gworktasklist # << >>
  /\ gworktasklist' = Tail(gworktasklist)
  /\ Start(Head(gworktasklist))
  /\ UNCHANGED << reslist, idlist, owed, history >>

-----------------------------------------------------------------------------
(* The running task yields and leaves its id with who is to resume it.     *)
Yield ==
  /\ Running
  /\ yields < MaxYields
  /\ yields' = yields + 1
  /\ co' = [co EXCEPT ![curco] = "SUSPEND"]
  /\ owed' = owed \cup {[id |-> curco, for |-> frame[curco]]}
  /\ curco' = 0
  /\ UNCHANGED << data, frame, freeid, nco, pools, gworktasklist, reslist,
                  idlist, given, done, dropped, twice, clears, undefined >>

EndCoroutine_NoId(w) ==
  /\ co' = [co EXCEPT ![curco] = "none"]
  /\ allset' = allset \ {w}
  /\ wrapper' = [wrapper EXCEPT ![w].mem = "freed"]
  /\ UNCHANGED << freeid, gfreecovec >>

(* The loop of _co_task_func_ ends: so does the coroutine, and resume      *)
(* frees it and its id.                                                    *)
EndCoroutine(w) ==
  /\ co' = [co EXCEPT ![curco] = "none"]
  /\ freeid' = Append(freeid, curco)
  /\ allset' = allset \ {w}
  /\ wrapper' = [wrapper EXCEPT ![w].mem = "freed"]
  /\ UNCHANGED gfreecovec

KeepCoroutine_Task(w) ==
  /\ co' = [co EXCEPT ![curco] = "SUSPEND"]
  /\ gfreecovec' = Append(gfreecovec, w)
  /\ UNCHANGED << freeid, allset, wrapper >>

(* Or it waits for the next task.                                          *)
KeepCoroutine(w) ==
  /\ co' = [co EXCEPT ![curco] = "SUSPEND"]
  /\ wrapper' = [wrapper EXCEPT ![w].task = 0]
  /\ gfreecovec' = Append(gfreecovec, w)
  /\ UNCHANGED << freeid, allset >>

Enough == Cardinality(allset) >= MaxReserve

(* The running task's func returns.                                        *)
TaskEnds ==
  LET w == data[curco] IN
  /\ Running
  /\ done' = done \cup {frame[curco]}
  /\ frame' = [frame EXCEPT ![curco] = 0]
  /\ curco' = 0
  /\ IF Enough THEN EndCoroutine(w) ELSE KeepCoroutine(w)
  /\ UNCHANGED << data, nco, lists, given, dropped, yields, twice, clears,
                  undefined >>

-----------------------------------------------------------------------------
(* resumeTask(co_id) by the thread itself.                                 *)
ResumeTaskNow(r) ==
  /\ InMain
  /\ r \in owed
  /\ owed' = owed \ {r}
  /\ Resume(r.id, wrapper)
  /\ UNCHANGED << data, nco, gfreecovec, gworktasklist, reslist, idlist,
                  history, undefined >>

(* addResume by any thread.                                                *)
AddResume(r) ==
  /\ ~undefined
  /\ r \in owed
  /\ owed' = owed \ {r}
  /\ reslist' = Append(reslist, r)
  /\ UNCHANGED << schedule, pools, gworktasklist, idlist, history,
                  undefined >>

(* Two threads have read the id before either marked it as used (as the    *)
(* handlers OnReceiveData and OnDisconnected of synccall may).             *)
AddResumeTwice(r) ==
  /\ ~undefined
  /\ r \in owed
  /\ twice < MaxTwice
  /\ twice' = twice + 1
  /\ owed' = owed \ {r}
  /\ reslist' = reslist \o << r, r >>
  /\ UNCHANGED << schedule, pools, gworktasklist, idlist, given, done,
                  dropped, yields, clears, undefined >>

(* resumeTask(): take the list, and resume its ids one after the other.    *)
ResumeTask ==
  /\ InMain
  /\ reslist # << >>
  /\ idlist' = reslist
  /\ reslist' = << >>
  /\ UNCHANGED << schedule, pools, gworktasklist, owed, history, undefined >>

ResumeNext_Last ==
  LET r == Last(idlist) IN
  /\ ~undefined /\ curco = 0
  /\ idlist # << >>
  /\ idlist' = << >>
  /\ Resume(r.id, wrapper)
  /\ UNCHANGED << data, nco, gfreecovec, gworktasklist, reslist, owed,
                  history, undefined >>

ResumeNext ==
  LET r == Head(idlist) IN
  /\ ~undefined /\ curco = 0
  /\ idlist # << >>
  /\ idlist' = Tail(idlist)
  /\ Resume(r.id, wrapper)
  /\ UNCHANGED << data, nco, gfreecovec, gworktasklist, reslist, owed,
                  history, undefined >>

(* The end of CoRun: clrTask destroys the coroutines and forgets tasks and *)
(* resumes, but not gfreecovec; Coroutine::close forgets the ids.          *)
ClrTask ==
  /\ InMain
  /\ clears < MaxClears
  /\ clears' = clears + 1
  /\ co' = [i \in Ids |-> "none"]
  /\ frame' = [i \in Ids |-> 0]
  /\ freeid' = << >> /\ nco' = 0
  /\ allset' = {}
  /\ gworktasklist' = << >> /\ reslist' = << >>
  /\ UNCHANGED << data, curco, wrapper, gfreecovec, idlist, owed, given,
                  done, dropped, yields, twice, undefined >>

-----------------------------------------------------------------------------
Next ==
  \/ DoTaskNow \/ AddTask \/ DoTask
  \/ Yield \/ TaskEnds
  \/ \E r \in owed : ResumeTaskNow(r) \/ AddResume(r) \/ AddResumeTwice(r)
  \/ ResumeTask \/ ResumeNext
  \/ ClrTask

Spec == Init /\ [][Next]_vars

(* The io thread calls resumeTask in every round of its loop, and the      *)
(* running task yields or ends.                                            *)
Fairness ==
  /\ WF_vars(Yield \/ TaskEnds)
  /\ SF_vars(ResumeTask) /\ WF_vars(ResumeNext)

FairSpec == Spec /\ Fairness

-----------------------------------------------------------------------------
Broken == twice > 0 \/ clears > 0

Live == {i \in Ids : co[i] # "none"}

Resumes == [id : Ids, for : Tasks1]

(* The types of the schedule, the pools and the lists.                     *)
TypeOK ==
  /\ co \in [Ids -> {"none", "SUSPEND", "RUNNING"}]
  /\ data \in [Ids -> Wrappers \cup {0}]
  /\ frame \in [Ids -> Tasks1 \cup {0}]
  /\ freeid \in Seq(Ids) /\ nco \in 0..MaxTasks /\ curco \in Ids \cup {0}
  /\ wrapper \in [Wrappers -> [mem : {"none", "live", "freed"},
                               co_id : Ids \cup {0}, task : Tasks1 \cup {0}]]
  /\ gfreecovec \in Seq(Wrappers) /\ allset \subseteq Wrappers
  /\ gworktasklist \in Seq(Tasks1)
  /\ reslist \in Seq(Resumes) /\ idlist \in Seq(Resumes)
  /\ owed \subseteq Resumes
  /\ given \in 0..MaxTasks /\ done \subseteq Tasks1 /\ dropped \subseteq Tasks1
  /\ yields \in 0..MaxYields /\ twice \in 0..MaxTwice
  /\ clears \in 0..MaxClears /\ undefined \in BOOLEAN

(* Ids are recycled exactly: every id handed out so far is that of a       *)
(* coroutine or is free once, whatever is resumed, so that ids do not run  *)
(* up and no two coroutines share one.                                     *)
IdsExact ==
  /\ Range(freeid) \cap Live = {}
  /\ Range(freeid) \cup Live = 1..nco
  /\ \A j, k \in 1..Len(freeid) : j # k => freeid[j] # freeid[k]

(* A wrapper that waits for the next task is there once, has no task, and  *)
(* its own coroutine waits at the top of its loop: doTask will run the     *)
(* task in it, and no memory is used after it was freed.                   *)
KeptUsable ==
  ~Broken =>
    /\ ~undefined
    /\ \A k \in 1..Len(gfreecovec) :
         LET w == gfreecovec[k]  i == wrapper[w].co_id IN
         /\ wrapper[w].mem = "live" /\ wrapper[w].task = 0
         /\ co[i] = "SUSPEND" /\ frame[i] = 0 /\ data[i] = w
         /\ \A j \in 1..Len(gfreecovec) : gfreecovec[j] = w => j = k

(* The id a task left is good until it is used: a resume reaches the task  *)
(* it was left for, not the task that runs in that coroutine by now.       *)
ResumeReachesTask ==
  ~Broken =>
    \A r \in owed \cup Range(reslist) \cup Range(idlist) :
      co[r.id] = "SUSPEND" /\ frame[r.id] = r.for

(* The coroutines implement tasks, as long as no resume is doubled and     *)
(* clrTask is not called.                                                  *)
Promise == INSTANCE Tasks WITH
  Task <- Tasks1,
  queued <- gworktasklist,
  running <- IF curco = 0 THEN {} ELSE {frame[curco]},
  waiting <- {frame[i] : i \in {j \in Live : j # curco /\ frame[j] # 0}},
  broken <- Broken

ImplementsTasks == Promise!Spec

(* A task that someone asked to resume goes on, also while other tasks     *)
(* keep yielding.                                                          *)
ResumedGoesOn ==
  \A t \in Tasks1 :
    (\E r \in Range(reslist) : r.for = t)
      ~> (Broken \/ (curco # 0 /\ frame[curco] = t))
=============================================================================
