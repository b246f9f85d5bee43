--------------------------- MODULE OrderedService ---------------------------
(***************************************************************************)
(* What the database threads promise to the main thread: every request is  *)
(* answered once, and the requests of one lane in the order they came;     *)
(* lanes do not wait for each other.                                       *)
(***************************************************************************)
EXTENDS Naturals, Sequences

CONSTANTS
  Lanes,     \* what orders requests among each other
  Requests   \* the requests

VARIABLES
  asked,    \* per lane: requests that have no answer yet, oldest first
  answers   \* the answers so far

serviceVars == << asked, answers >>

Init == asked = [l \in Lanes |-> << >>] /\ answers = << >>

Asked(r) ==
  \/ \E i \in 1..Len(answers) : answers[i] = r
  \/ \E l \in Lanes : \E i \in 1..Len(asked[l]) : asked[l][i] = r

Ask(l, r) ==
  /\ ~Asked(r)
  /\ asked' = [asked EXCEPT ![l] = Append(@, r)]
  /\ UNCHANGED answers

Answer(l) ==
  /\ asked[l] # << >>
  /\ answers' = Append(answers, Head(asked[l]))
  /\ asked' = [asked EXCEPT ![l] = Tail(@)]

Next == \E l \in Lanes : Answer(l) \/ \E r \in Requests : Ask(l, r)

Spec == Init /\ [][Next]_serviceVars
=============================================================================
