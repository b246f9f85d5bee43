---------------------------- MODULE Registration ----------------------------
(***************************************************************************)
(* How a server (connsvr) registers with its router (routersvr): RouterMgr *)
(* and the transactions TransClientIn / TransClientOut on the server,      *)
(* TransRegisterServer / TransClientOut and SeverInstanceMgr on the router.*)
(* routersvr registers with transfersvr in the same way (TransferMgr,      *)
(* RouterInstanceMgr), but for one thing: TransferMgr never clears the     *)
(* buffer it sends from, see KeepsBuffer.                                  *)
(*                                                                         *)
(* The server has one transaction per connection that keeps sending        *)
(* CMD_REGISTER_SERVER_REQ until the router accepts it.  All handlers of a *)
(* process run on its main thread, one after the other.  Connections are   *)
(* numbered in the order they are made; each carries messages in order,    *)
(* may be cut, and each end learns of that after the data it received.     *)
(***************************************************************************)
EXTENDS Naturals, Sequences, FiniteSets

CONSTANTS
  Fds,           \* descriptors of the server's process
  Randoms,       \* the values random().rand(10000, 100000) may return
  Configs,       \* may a reload find the router in the file: BOOLEANs
  KeepsBuffer,   \* FALSE: RouterMgr::SendMsgByFd, with a buffer for each call
                 \* TRUE: TransferMgr::SendMsgToTransferByFd, with one for all
  MaxConns,      \* bound: connections the server makes
  MaxBreaks,     \* bound: connections cut and attempts refused
  MaxRestarts,   \* bound: restarts of the router
  MaxCrashes,    \* bound: restarts of the server
  MaxReloads,    \* bound: reloads of the server's configuration
  MaxEarly       \* bound: timeouts while an answer is under way

ASSUME FdAssumption == 0 \notin Fds /\ 0 \notin Randoms
ASSUME ConfigAssumption == Configs \subseteq BOOLEAN /\ KeepsBuffer \in BOOLEAN
ASSUME BoundAssumption ==
  /\ MaxConns \in Nat \ {0} /\ MaxBreaks \in Nat /\ MaxRestarts \in Nat
  /\ MaxCrashes \in Nat /\ MaxReloads \in Nat /\ MaxEarly \in Nat

VARIABLES
  wire,      \* per connection: "none", "up" or "cut"
  toR,       \* per connection: requests under way to the router
  toS,       \* per connection: answers under way to the server
  (* the server *)
  sview,     \* per connection: "none", "connecting", "in" the table, "out"
  sfd,       \* per connection: its descriptor
  silent,    \* history: the last AsyncConnect failed at once
  trans,     \* per connection: where its TransClientIn is
  rand,      \*   and the _req_random of that
  buffer,    \* the frame at the start of _buffer, if that is never cleared
  configured,\* the router has an entry in _router_info_vec
  info_fd,   \* the fd of that entry, 0 before LoginRouter
  logged,    \* history: connections over which a registration succeeded
  (* the router *)
  rview,     \* per connection: "none", "in" the table, "out"
  inst,      \* the fd of the server's SvrInstInfo (as a connection), or 0
  allowed,   \* GetPolicy finds the server's type, and the zones agree
  used,      \* history: how much of each bound was used
  removed,   \* history: a reload took the router out of the configuration
  late       \* history: requests reached the router after their sender
             \*   had lost the connection

sVars == << sview, sfd, silent, trans, rand, buffer, configured, info_fd, logged >>
rVars == << rview, inst, allowed >>
history == << used, removed, late >>
vars == << wire, toR, toS, sVars, rVars, history >>

-----------------------------------------------------------------------------
Conns == 1..MaxConns

Request == [tid : Conns, rand : Randoms]
Answer == [tid : Conns, rand : Randoms, code : {0, 1}]

(* One more of a bounded kind of event.                                    *)
Use(what, max) ==
  used[what] < max /\ used' = [used EXCEPT ![what] = @ + 1]

(* The main thread of the server is in the loop of SendRegistCmd for good.  *)
Hung == \E k \in Conns : trans[k] = "spin"

(* The connection under descriptor f in the connector table, 0 if none.     *)
Find(view, f) ==
  IF \E n \in Conns : view[n] = "in" /\ sfd[n] = f
    THEN CHOOSE n \in Conns : view[n] = "in" /\ sfd[n] = f
    ELSE 0

Made == {n \in Conns : sview[n] # "none"}
InUse(view) == {sfd[n] : n \in {m \in Conns : view[m] \in {"connecting", "in"}}}

(* AsyncConnect begins an attempt, on a descriptor that is free, of which   *)
(* OnConnection or an error will tell.                                      *)
Attempt(view) ==
  LET n == Cardinality(Made) + 1 IN
  /\ n \in Conns
  /\ sview' = [view EXCEPT ![n] = "connecting"]
  /\ \E f \in Fds \ InUse(view) : sfd' = [sfd EXCEPT ![n] = f]
  /\ silent' = FALSE

(* AsyncConnect fails at once and calls nobody.                             *)
NoAttempt(view) ==
  /\ sview' = view
  /\ silent' = TRUE
  /\ UNCHANGED sfd

(* ConnectOne does not look at what AsyncConnect returns.                   *)
ConnectOne(view) == Attempt(view) \/ NoAttempt(view)

(* The server starts with the router in its configuration: Reload has       *)
(* called ConnectOne, for an attempt or for nothing.                        *)
Init ==
  /\ wire = [n \in Conns |-> "none"]
  /\ toR = [n \in Conns |-> << >>]
  /\ toS = [n \in Conns |-> << >>]
  /\ silent \in BOOLEAN
  /\ sview = [n \in Conns |-> IF n = 1 /\ ~silent THEN "connecting" ELSE "none"]
  /\ \E f \in Fds :
       sfd = [n \in Conns |-> IF n = 1 /\ ~silent THEN f ELSE 0]
  /\ trans = [n \in Conns |-> "none"]
  /\ rand = [n \in Conns |-> 0]
  /\ buffer = << >>
  /\ configured = TRUE
  /\ info_fd = 0
  /\ logged = {}
  /\ rview = [n \in Conns |-> "none"]
  /\ inst = 0
  /\ allowed \in BOOLEAN
  /\ used = [break |-> 0, restart |-> 0, crash |-> 0, reload |-> 0,
             early |-> 0]
  /\ removed = FALSE
  /\ late = FALSE

-----------------------------------------------------------------------------
(* The network.                                                            *)

Accept(n) ==
  /\ sview[n] = "connecting" /\ wire[n] = "none"
  /\ wire' = [wire EXCEPT ![n] = "up"]
  /\ UNCHANGED << toR, toS, sVars, rVars, history >>

Prefixes(s) == {SubSeq(s, 1, k) : k \in 0..Len(s)}

(* The connection is cut; what was under way may be lost or still arrive.   *)
Cut(n) ==
  /\ wire[n] = "up"
  /\ Use("break", MaxBreaks)
  /\ wire' = [wire EXCEPT ![n] = "cut"]
  /\ \E p \in Prefixes(toR[n]) :
       /\ toR' = [toR EXCEPT ![n] = p]
       /\ late' = (late \/ p # << >>)
  /\ \E p \in Prefixes(toS[n]) : toS' = [toS EXCEPT ![n] = p]
  /\ UNCHANGED << sVars, rVars, removed >>

(* SendDataByFd over connection n.                                          *)
Deliver(channel, n, m) ==
  IF wire[n] = "up" THEN [channel EXCEPT ![n] = Append(@, m)] ELSE channel

-----------------------------------------------------------------------------
(* The server.                                                             *)

(* What writing frame m leaves at the start of _buffer.  Of what is sent    *)
(* the receiver reads that frame only.                                      *)
Written(m) == IF KeepsBuffer /\ buffer # << >> THEN buffer ELSE << m >>

Keep(frames) == buffer' = IF KeepsBuffer THEN frames ELSE << >>

(* The loop of SendRegistCmd from its top: a request with a new random, and *)
(* Wait.  A descriptor that is not in the table makes the send fail, and    *)
(* the loop tries again at once, without a Wait in between, for ever.       *)
SendRegist(k, view) ==
  LET n == Find(view, sfd[k]) IN
  \E r \in Randoms :
    LET frames == Written([tid |-> k, rand |-> r]) IN
    /\ rand' = [rand EXCEPT ![k] = r]
    /\ Keep(frames)
    /\ IF n = 0
         THEN trans' = [trans EXCEPT ![k] = "spin"] /\ UNCHANGED toR
         ELSE /\ trans' = [trans EXCEPT ![k] = "wait"]
              /\ toR' = Deliver(toR, n, Head(frames))

(* OnConnection and TransClientIn: the connection enters the table and its  *)
(* transaction starts to register.                                          *)
TransClientIn(n) ==
  /\ ~Hung
  /\ sview[n] = "connecting" /\ wire[n] # "none"
  /\ sview' = [sview EXCEPT ![n] = "in"]
  /\ SendRegist(n, sview')
  /\ UNCHANGED << wire, toS, sfd, silent, configured, info_fd, logged, rVars,
                  history >>

(* OnConnection of an attempt that failed: try again, whether or not the    *)
(* router is still configured.                                              *)
ConnectFailed(n) ==
  /\ ~Hung
  /\ sview[n] = "connecting" /\ wire[n] = "none"
  /\ Use("break", MaxBreaks)
  /\ ConnectOne([sview EXCEPT ![n] = "out"])
  /\ UNCHANGED << wire, toR, toS, trans, rand, buffer, configured, info_fd,
                  logged, rVars, removed, late >>

LoginRouter(f) == info_fd' = IF configured THEN f ELSE info_fd

ExistRouter_Never == FALSE

ExistRouter == configured

(* OnDisConnection and TransClientOut: reconnect to a configured router.    *)
TransClientOut(n) ==
  LET view == [sview EXCEPT ![n] = "out"] IN
  /\ ~Hung
  /\ sview[n] = "in" /\ wire[n] = "cut" /\ toS[n] = << >>
  /\ IF ExistRouter THEN ConnectOne(view)
                    ELSE sview' = view /\ UNCHANGED << sfd, silent >>
  /\ UNCHANGED << wire, toR, toS, trans, rand, buffer, configured, info_fd,
                  logged, rVars, history >>

Waiting(k) == trans[k] \in {"wait", "sleep"}

(* The answer resumes the transaction it is for.  After a success the       *)
(* transaction ends with LoginRouter; after a refusal it sleeps for a       *)
(* second; one that slept sends again.                                      *)
RegisterRsp(n) ==
  LET m == Head(toS[n])  k == m.tid IN
  /\ ~Hung
  /\ sview[n] = "in" /\ toS[n] # << >>
  /\ toS' = [toS EXCEPT ![n] = Tail(@)]
  /\ \/ /\ ~(Waiting(k) /\ rand[k] = m.rand)
        /\ UNCHANGED << toR, trans, rand, buffer, info_fd, logged >>
     \/ /\ trans[k] = "wait" /\ rand[k] = m.rand /\ m.code = 0
        /\ trans' = [trans EXCEPT ![k] = "ended"]
        /\ LoginRouter(sfd[k])
        /\ logged' = logged \cup {n}
        /\ UNCHANGED << toR, rand, buffer >>
     \/ /\ trans[k] = "wait" /\ rand[k] = m.rand /\ m.code # 0
        /\ trans' = [trans EXCEPT ![k] = "sleep"]
        /\ UNCHANGED << toR, rand, buffer, info_fd, logged >>
     \/ /\ trans[k] = "sleep" /\ rand[k] = m.rand
        /\ SendRegist(k, sview)
        /\ UNCHANGED << info_fd, logged >>
  /\ UNCHANGED << wire, sview, sfd, silent, configured, rVars, history >>

InSeq(s) == {s[i] : i \in 1..Len(s)}

(* An answer to a request of k is still to be expected.                     *)
Expected(k) ==
  \E n \in Conns :
    /\ sview[n] = "in"
    /\ \E m \in InSeq(toR[n]) \cup InSeq(toS[n]) : m.tid = k

(* The timer of a Wait, or one that an earlier Wait left behind.            *)
Timeout(k) ==
  /\ ~Hung
  /\ Waiting(k)
  /\ IF trans[k] = "wait" /\ Expected(k) THEN Use("early", MaxEarly)
                                         ELSE UNCHANGED used
  /\ SendRegist(k, sview)
  /\ UNCHANGED << wire, toS, sview, sfd, silent, configured, info_fd, logged,
                  rVars, removed, late >>

(* ConnectRouters with the router in the file or not: an entry that is new  *)
(* is connected to; the connection of one that is gone is closed by its fd, *)
(* which is 0 until LoginRouter.                                            *)
Reload(found) ==
  LET n == Find(sview, info_fd) IN
  /\ ~Hung
  /\ Use("reload", MaxReloads)
  /\ configured' = found
  /\ IF found /\ ~ExistRouter THEN ConnectOne(sview)
                              ELSE UNCHANGED << sview, sfd, silent >>
  /\ info_fd' = IF found THEN info_fd ELSE 0
  /\ wire' = IF ~found /\ n # 0 THEN [wire EXCEPT ![n] = "cut"] ELSE wire
  /\ removed' = (removed \/ ~found)
  /\ late' = (late \/ (~found /\ n # 0 /\ toR[n] # << >>))
  /\ UNCHANGED << toR, toS, trans, rand, buffer, logged, rVars >>

(* The server's process ends and starts again.                              *)
Crash ==
  LET view == [n \in Conns |-> IF sview[n] = "none" THEN "none" ELSE "out"] IN
  /\ Use("crash", MaxCrashes)
  /\ wire' = [n \in Conns |-> IF wire[n] = "up" THEN "cut" ELSE wire[n]]
  /\ toS' = [n \in Conns |-> << >>]
  /\ IF configured THEN ConnectOne(view)
                   ELSE sview' = view /\ UNCHANGED << sfd, silent >>
  /\ trans' = [n \in Conns |-> "none"]
  /\ rand' = [n \in Conns |-> 0]
  /\ buffer' = << >>
  /\ info_fd' = 0
  /\ logged' = {}
  /\ late' = (late \/ \E n \in Conns : toR[n] # << >>)
  /\ UNCHANGED << toR, configured, rVars, removed >>

-----------------------------------------------------------------------------
(* The router.                                                             *)

(* OnConnection of an accepted socket; its TransClientIn does nothing.      *)
RouterIn(n) ==
  /\ rview[n] = "none" /\ wire[n] # "none"
  /\ rview' = [rview EXCEPT ![n] = "in"]
  /\ UNCHANGED << wire, toR, toS, sVars, inst, allowed, history >>

LogoutInstance_Forgotten(n) == UNCHANGED inst

LogoutInstance(n) == inst' = IF inst = n THEN 0 ELSE inst

(* OnDisConnection and TransClientOut.                                      *)
RouterOut(n) ==
  /\ rview[n] = "in" /\ wire[n] = "cut" /\ toR[n] = << >>
  /\ rview' = [rview EXCEPT ![n] = "out"]
  /\ LogoutInstance(n)
  /\ UNCHANGED << wire, toR, toS, sVars, allowed, history >>

LoginInstance_Keeps(n) == inst' = IF inst = 0 THEN n ELSE inst

LoginInstance(n) == inst' = n

(* TransRegisterServer: a legal server logs in; either way it is answered.  *)
TransRegisterServer(n) ==
  LET m == Head(toR[n]) IN
  /\ rview[n] = "in" /\ toR[n] # << >>
  /\ toR' = [toR EXCEPT ![n] = Tail(@)]
  /\ IF allowed THEN LoginInstance(n) ELSE UNCHANGED inst
  /\ toS' = Deliver(toS, n, [tid |-> m.tid, rand |-> m.rand,
                             code |-> IF allowed THEN 0 ELSE 1])
  /\ UNCHANGED << wire, sVars, rview, allowed, history >>

(* OnReload of a router whose policy list lacked the server.                *)
RouterReload ==
  /\ ~allowed
  /\ allowed' = TRUE
  /\ UNCHANGED << wire, toR, toS, sVars, rview, inst, history >>

(* The router's process ends and starts again with an empty table.          *)
RouterRestart ==
  /\ Use("restart", MaxRestarts)
  /\ wire' = [n \in Conns |-> IF wire[n] = "up" THEN "cut" ELSE wire[n]]
  /\ toR' = [n \in Conns |-> << >>]
  /\ rview' = [n \in Conns |-> IF wire[n] = "none" THEN rview[n] ELSE "out"]
  /\ inst' = 0
  /\ UNCHANGED << toS, sVars, allowed, removed, late >>

-----------------------------------------------------------------------------
Network == \E n \in Conns : Accept(n) \/ Cut(n)

Server(n) ==
  \/ TransClientIn(n)
  \/ TransClientOut(n)
  \/ RegisterRsp(n)
  \/ Timeout(n)

Router(n) == RouterIn(n) \/ TransRegisterServer(n) \/ RouterOut(n)

Next ==
  \/ Network
  \/ \E n \in Conns : Server(n) \/ ConnectFailed(n) \/ Router(n)
  \/ \E found \in Configs : Reload(found)
  \/ Crash
  \/ RouterReload
  \/ RouterRestart

Spec == Init /\ [][Next]_vars

(* Both processes go on, the network connects who asks for it, and the      *)
(* router's configuration is put right in the end.                          *)
Fairness ==
  /\ \A n \in Conns :
       /\ WF_vars(Accept(n))
       /\ WF_vars(TransClientIn(n)) /\ WF_vars(TransClientOut(n))
       /\ WF_vars(RegisterRsp(n)) /\ WF_vars(Timeout(n))
       /\ WF_vars(Router(n))
  /\ WF_vars(RouterReload)

FairSpec == Spec /\ Fairness

-----------------------------------------------------------------------------
Live(n) == sview[n] \in {"connecting", "in"}

(* The types of both processes' state.                                      *)
TypeOK ==
  /\ wire \in [Conns -> {"none", "up", "cut"}]
  /\ toR \in [Conns -> Seq(Request)]
  /\ toS \in [Conns -> Seq(Answer)]
  /\ sview \in [Conns -> {"none", "connecting", "in", "out"}]
  /\ sfd \in [Conns -> Fds \cup {0}] /\ silent \in BOOLEAN
  /\ trans \in [Conns -> {"none", "wait", "sleep", "spin", "ended"}]
  /\ rand \in [Conns -> Randoms \cup {0}]
  /\ buffer \in Seq(Request)
  /\ configured \in BOOLEAN
  /\ info_fd \in Fds \cup {0}
  /\ logged \subseteq Conns
  /\ rview \in [Conns -> {"none", "in", "out"}]
  /\ inst \in Conns \cup {0}
  /\ allowed \in BOOLEAN
  /\ removed \in BOOLEAN /\ late \in BOOLEAN
  /\ info_fd # 0 => configured

(* The router never routes to a connection it has taken out of its table,   *)
(* in whatever order it hears of the old and the new connection.            *)
NoDeadRoute == inst # 0 => rview[inst] = "in"

(* A registration that succeeded on a connection both ends still have is in *)
(* effect: the router routes to that connection, although it may hear of    *)
(* the end of an older one only later.  (Two things undo it: a request that *)
(* reaches the router after its sender has given the connection up; and the *)
(* second link of a router that left the configuration before LoginRouter   *)
(* had its fd, and came back.)                                              *)
RegisteredIsRouted ==
  (~late /\ ~removed) =>
    \A n \in logged : (sview[n] = "in" /\ rview[n] = "in") => inst = n

(* The server keeps one connection, or one attempt, to the router, through  *)
(* failed attempts, reconnects, restarts and reloads that leave the router  *)
(* in the configuration - unless the last AsyncConnect failed at once: then *)
(* it has none, and nothing but a restart makes it try again.               *)
OneLink ==
  (~Hung /\ ~removed) =>
    Cardinality({n \in Conns : Live(n)}) = IF silent THEN 0 ELSE 1

(* "Goes on until the registration has succeeded" (the comment in           *)
(* SendRegistCmd): a registration that was begun succeeds in the end, on    *)
(* its own or on a later connection.                                        *)
Registers ==
  \A n \in Conns : (trans[n] = "wait") ~> (\E m \in logged : sview[m] = "in")
=============================================================================
