-------------------------- MODULE MCRouterForward --------------------------
EXTENDS RouterForward, TLC

(* Two instances of type 2 and one of type 1.                               *)
MCServers == {[type |-> 2, inst |-> 1], [type |-> 2, inst |-> 2],
              [type |-> 1, inst |-> 1]}

MCConfigs == {<<"BROADCAST", "MOD">>, <<"none", "RANDOM">>}

Descriptors == Permutations(Fds)

(* The servers of the zone and the transfers share nothing but the frames:  *)
(* one side is explored while the other has not begun.  Little is said of   *)
(* the servers once every descriptor has been announced twice, which has    *)
(* nothing to do with reloads.                                              *)
Explored ==
  /\ reused # Fds /\ (reused = {} \/ reloads = 0)
  /\ \/ \A f \in TFds : tconn[f] = 0 /\ \A x \in 1..Transfers : transfer_fd[x] = 0
     \/ seen = {} /\ reloads = 0 /\ \A f \in Fds : conn[f] = Nobody

(* No step depends on the last frame, and none but a frame leaves one: what *)
(* can follow a frame can follow where there was none.                      *)
Fresh == sent = Quiet
=============================================================================
