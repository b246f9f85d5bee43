------------------------------- MODULE Tasks --------------------------------
(***************************************************************************)
(* What coroutine tasks promise to the code that uses them: a task begins  *)
(* when it is given to an idle thread, or later from a queue; one task     *)
(* runs at a time; a task that waits goes on as itself; none ends twice.   *)
(* The promise ends when the rules of use are broken.                      *)
(***************************************************************************)
EXTENDS Naturals, Sequences

CONSTANT Task    \* the tasks that may be given

VARIABLES
  queued,   \* tasks that are to begin, in this order
  running,  \* the task that runs, as a set
  waiting,  \* tasks that have given the thread back
  done,     \* tasks that have ended
  dropped,  \* tasks given while another ran, which are not done at all
  broken    \* the rules were broken

taskVars == << queued, running, waiting, done, dropped, broken >>

Init ==
  /\ queued = << >>
  /\ running = {} /\ waiting = {} /\ done = {} /\ dropped = {}
  /\ broken = FALSE

Known(t) ==
  \/ t \in running \cup waiting \cup done \cup dropped
  \/ \E i \in 1..Len(queued) : queued[i] = t

Queue(t) ==
  /\ ~Known(t)
  /\ queued' = Append(queued, t)
  /\ UNCHANGED << running, waiting, done, dropped, broken >>

BeginQueued ==
  /\ running = {} /\ queued # << >>
  /\ running' = {Head(queued)}
  /\ queued' = Tail(queued)
  /\ UNCHANGED << waiting, done, dropped, broken >>

Begin(t) ==
  /\ ~Known(t)
  /\ IF running = {} THEN running' = {t} /\ UNCHANGED dropped
                     ELSE dropped' = dropped \cup {t} /\ UNCHANGED running
  /\ UNCHANGED << queued, waiting, done, broken >>

Wait(t) ==
  /\ running = {t}
  /\ running' = {} /\ waiting' = waiting \cup {t}
  /\ UNCHANGED << queued, done, dropped, broken >>

GoOn(t) ==
  /\ running = {} /\ t \in waiting
  /\ running' = {t} /\ waiting' = waiting \ {t}
  /\ UNCHANGED << queued, done, dropped, broken >>

End(t) ==
  /\ running = {t} /\ t \notin done
  /\ running' = {} /\ done' = done \cup {t}
  /\ UNCHANGED << queued, waiting, dropped, broken >>

Next ==
  \/ ~broken /\ BeginQueued
  \/ ~broken /\ \E t \in Task : \/ Queue(t) \/ Begin(t) \/ Wait(t)
                                \/ GoOn(t) \/ End(t)
  \/ broken'

Spec == Init /\ [][Next]_taskVars
=============================================================================
