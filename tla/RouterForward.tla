--------------------------- MODULE RouterForward ---------------------------
(***************************************************************************)
(* routersvr: the table of the servers that have registered                *)
(* (SeverInstanceMgr), the transfer servers it is connected to             *)
(* (TransferMgr), and the frames it passes on (RouterApplication::OnProc). *)
(*                                                                         *)
(* Everything runs on the main thread.  Descriptors of accepted sockets    *)
(* and of connectors carry different flags and never meet.  How a          *)
(* registration comes about is the subject of Registration; here it is one *)
(* step.  With several io threads an accepted descriptor is used again     *)
(* before the end of its last connection is announced, see NetIoHandler:   *)
(* the table then refuses the new connection.                              *)
(***************************************************************************)
EXTENDS Naturals, FiniteSets

CONSTANTS
  Servers,     \* the servers that may connect: records of type and inst
  IdWidth,     \* instance ids below this one fit into CalcTypeId (2^10)
  Fds,         \* descriptors of accepted sockets
  Transfers,   \* the number of transfer servers in the configuration
  TFds,        \* descriptors of the connectors to them
  Uids,        \* user ids in frames
  Configs,     \* what the file may hold: a policy for each type, or "none"
  MaxReloads,  \* bound: reloads that find another file
  MaxStrays    \* bound: connections without a context at a time

Policies == {"none", "ROUTER", "RANDOM", "MOD", "BROADCAST"}

ASSUME ServerAssumption ==
  Servers \subseteq [type : Nat \ {0}, inst : Nat]
ASSUME FdAssumption ==
  0 \notin Fds \cup TFds /\ Uids \subseteq Nat
ASSUME ConfigAssumption ==
  /\ IdWidth \in Nat \ {0} /\ Transfers \in Nat /\ MaxReloads \in Nat
  /\ Configs \subseteq [{s.type : s \in Servers} -> Policies]
  /\ MaxStrays \in Nat

VARIABLES
  policy_list,  \* _config: per server type its policy, "none" if it has none
  conn,         \* _tcp_socket_container: who is connected under a descriptor
  stray,        \* connections the table has refused, or whose context was
                \*   erased for another, while their end is still to come
  entry,        \* _info_container by type_inst: fd, inst_id and info
  info,         \* the InstContainers, by the type they were made for
  tconn,        \* _tcp_connector_container: the transfer under a descriptor
  transfer_fd,  \* _transfer_info_vec: the fd of each transfer, 0 before login
  sent,         \* the last frame, by instance the descriptor it was sent
                \*   over, and the instances whose connection took no more
  home,         \* history: the descriptor a server last registered over,
                \*   until the table loses it
  reused,       \* history: descriptors that were announced again while the
                \*   table still had their last connection
  seen,         \* history: servers that have ever registered
  broken,       \* history: transfers whose connection broke since their login
  reloads,      \* history: reloads so far
  repoliced     \* history: types whose policy was changed after it was taken

tableVars ==
  << policy_list, conn, stray, entry, info, home, reused, seen, reloads,
     repoliced >>
transferVars == << tconn, transfer_fd, broken >>
vars == << tableVars, transferVars, sent >>

-----------------------------------------------------------------------------
Types == {s.type : s \in Servers}
Ids == {s.inst : s \in Servers}
Nobody == [type |-> 0, inst |-> 0]

(* The key of the multi_index: (type << 10) + id.                           *)
CalcTypeId(type, id) == type * IdWidth + id

Keys == {CalcTypeId(t, i) : t \in Types, i \in Ids \cup {0}}

NoEntry == [fd |-> 0, inst_id |-> 0, info |-> 0]
NoStray == [fd |-> 0, server |-> Nobody]

(* Frames for an instance, for a type, and for another zone; of the fields  *)
(* that OnProc does not look at, one value.                                 *)
Frames ==
  [own_zone : {TRUE}, type : Types, inst : Ids, uid : {0}, broadcast : {FALSE}]
  \cup
  [own_zone : {TRUE}, type : Types, inst : {0}, uid : Uids, broadcast : BOOLEAN]
  \cup
  [own_zone : {FALSE}, type : {0}, inst : {0}, uid : Uids, broadcast : {FALSE}]

NoFrame == [type |-> 0]

Quiet == [frame |-> NoFrame, over |-> << >>, full |-> {}]

Init ==
  /\ policy_list \in Configs
  /\ conn = [f \in Fds |-> Nobody]
  /\ stray = [n \in 1..MaxStrays |-> NoStray]
  /\ entry = [k \in Keys |-> NoEntry]
  /\ info = [t \in Types |-> [policy |-> "none", inst_set |-> {}]]
  /\ tconn = [f \in TFds |-> 0]
  /\ transfer_fd = [x \in 1..Transfers |-> 0]
  /\ sent = Quiet
  /\ home = [s \in Servers |-> 0]
  /\ reused = {}
  /\ seen = {}
  /\ broken = {}
  /\ reloads = 0
  /\ repoliced = {}

-----------------------------------------------------------------------------
(* The servers of the zone.                                                *)

(* A server connects, perhaps while the router still has an older           *)
(* connection of it.  If the table has the descriptor the insertion fails:  *)
(* the connection is closed, its packets and its end may still arrive.      *)
Connect(s, f) ==
  /\ \/ /\ conn[f] = Nobody
        /\ conn' = [conn EXCEPT ![f] = s]
        /\ UNCHANGED << stray, reused >>
     \/ /\ conn[f] # Nobody
        /\ \E n \in 1..MaxStrays :
             /\ stray[n] = NoStray
             /\ stray' = [stray EXCEPT ![n] = [fd |-> f, server |-> s]]
        /\ reused' = reused \cup {f}
        /\ UNCHANGED conn
  /\ sent' = Quiet
  /\ UNCHANGED << policy_list, entry, info, home, seen, reloads, repoliced,
                  transferVars >>

(* The entry of the type itself, which owns the set of its instances.  It   *)
(* is made at the first login of the type, with the policy of that time.    *)
Basic(t) ==
  IF entry[CalcTypeId(t, 0)] # NoEntry
    THEN entry[CalcTypeId(t, 0)]
    ELSE [fd |-> 0, inst_id |-> 0, info |-> t]

Relogin_Kept(e, f) == e

(* A login of an instance the table has: modify.                            *)
Relogin(e, f) == [e EXCEPT !.fd = f]

LoginInstance(s, f) ==
  LET key == CalcTypeId(s.type, s.inst)
      basic == Basic(s.type)
      known == [entry EXCEPT ![CalcTypeId(s.type, 0)] = basic]
      made == known # entry
      new == known[key] = NoEntry
  IN /\ entry' = [known EXCEPT ![key] =
          IF new THEN [fd |-> f, inst_id |-> s.inst, info |-> basic.info]
                 ELSE Relogin(@, f)]
     /\ info' = [info EXCEPT ![basic.info] =
          [policy |-> IF made THEN policy_list[s.type] ELSE @.policy,
           inst_set |-> @.inst_set \cup (IF new THEN {s.inst} ELSE {})]]

(* TransRegisterServer, for a type that GetPolicy finds.  A packet counts   *)
(* for the context of its descriptor, whichever connection sent it; without *)
(* a context it is dropped.                                                 *)
Register(s, f) ==
  /\ conn[f] # Nobody
  /\ s = conn[f] \/ \E n \in 1..MaxStrays : stray[n] = [fd |-> f, server |-> s]
  /\ policy_list[s.type] # "none" /\ s.inst # 0
  /\ LoginInstance(s, f)
  /\ home' = [home EXCEPT ![s] = f]
  /\ seen' = seen \cup {s}
  /\ sent' = Quiet
  /\ UNCHANGED << policy_list, conn, stray, reused, reloads, repoliced,
                  transferVars >>

LogoutInstance_Forgotten(f) == UNCHANGED << entry, info >>

LogoutInstance_Forgets(f) ==
  /\ entry' = [k \in Keys |->
       IF entry[k].fd = f THEN [entry[k] EXCEPT !.fd = 0] ELSE entry[k]]
  /\ info' = [info EXCEPT ![conn[f].type].inst_set = @ \ {conn[f].inst}]

(* An entry with that fd goes offline; its instance stays in the set.       *)
LogoutInstance(f) ==
  /\ IF \E k \in Keys : entry[k].fd = f
       THEN \E k \in Keys : entry[k].fd = f /\ entry' = [entry EXCEPT ![k].fd = 0]
       ELSE UNCHANGED entry
  /\ UNCHANGED info

(* TransClientOut, and the context leaves the table.                        *)
Leave(f) ==
  /\ LogoutInstance(f)
  /\ conn' = [conn EXCEPT ![f] = Nobody]
  /\ home' = [s \in Servers |-> IF home[s] = f THEN 0 ELSE home[s]]

(* The end of the connection in the table.                                  *)
Disconnect(f) ==
  /\ conn[f] # Nobody
  /\ Leave(f)
  /\ sent' = Quiet
  /\ UNCHANGED << policy_list, stray, reused, seen, reloads, repoliced,
                  transferVars >>

(* The end of a connection that has no context: OnDisConnection looks for   *)
(* the descriptor, and erases the context of whoever has it now.            *)
StrayOut(n) ==
  LET f == stray[n].fd IN
  /\ f # 0
  /\ \/ /\ conn[f] = Nobody
        /\ stray' = [stray EXCEPT ![n] = NoStray]
        /\ UNCHANGED << conn, entry, info, home >>
     \/ /\ conn[f] # Nobody
        /\ Leave(f)
        /\ stray' = [stray EXCEPT ![n].server = conn[f]]
  /\ sent' = Quiet
  /\ UNCHANGED << policy_list, reused, seen, reloads, repoliced, transferVars >>

(* OnReload reads the file again.  GetPolicy sees the new list; the policy  *)
(* an InstContainer has taken stays.                                        *)
Reload(config) ==
  /\ config # policy_list
  /\ reloads < MaxReloads /\ reloads' = reloads + 1
  /\ policy_list' = config
  /\ repoliced' = repoliced \cup
       {t \in Types : info[t].policy # "none" /\ config[t] # policy_list[t]}
  /\ sent' = Quiet
  /\ UNCHANGED << conn, stray, entry, info, home, reused, seen, transferVars >>

-----------------------------------------------------------------------------
(* The transfer servers of the zone.  Each has one connection or one        *)
(* attempt, see OneLink of Registration.                                    *)

TransferIn(x, f) ==
  /\ tconn[f] = 0
  /\ \A g \in TFds : tconn[g] # x
  /\ tconn' = [tconn EXCEPT ![f] = x]
  /\ sent' = Quiet
  /\ UNCHANGED << tableVars, transfer_fd, broken >>

LoginTransfer_First(x, f) == transfer_fd' = [transfer_fd EXCEPT ![1] = f]

LoginTransfer(x, f) == transfer_fd' = [transfer_fd EXCEPT ![x] = f]

(* The registration over connector f has succeeded.                         *)
TransferRegistered(f) ==
  LET x == tconn[f] IN
  /\ x # 0
  /\ LoginTransfer(x, f)
  /\ broken' = broken \ {x}
  /\ sent' = Quiet
  /\ UNCHANGED << tableVars, tconn >>

(* onTransfer: another attempt is made; info.fd keeps its old value.        *)
TransferOut(f) ==
  /\ tconn[f] # 0
  /\ tconn' = [tconn EXCEPT ![f] = 0]
  /\ broken' = broken \cup {tconn[f]}
  /\ sent' = Quiet
  /\ UNCHANGED << tableVars, transfer_fd >>

-----------------------------------------------------------------------------
(* Passing frames on.                                                      *)

GetFdByTypeId(t, id) ==
  IF CalcTypeId(t, id) \in Keys THEN entry[CalcTypeId(t, id)].fd ELSE 0

(* all_inst[k] of the instances of a set, which are in the order of the ids.*)
Nth(insts, k) ==
  CHOOSE i \in insts : Cardinality({j \in insts : j < i}) = k

Mod_PastEnd(insts, uid) ==
  LET k == uid % (Cardinality(insts) + 1)
  IN IF k < Cardinality(insts) THEN {Nth(insts, k)} ELSE {}

(* POLICY_MOD: all_inst[uid % size].                                        *)
Mod(insts, uid) == {Nth(insts, uid % Cardinality(insts))}

(* The instances a frame without a destination instance goes to.  The set   *)
(* holds offline instances too.                                             *)
RouterPolicy(frame) ==
  LET basic == entry[CalcTypeId(frame.type, 0)]
      all == info[basic.info].inst_set
      policy == info[basic.info].policy
  IN IF basic = NoEntry \/ all = {} THEN {}
     ELSE IF frame.broadcast \/ policy = "BROADCAST" THEN all
     ELSE CASE policy = "RANDOM" -> {Nth(all, 0)}
            [] policy = "MOD" -> Mod(all, frame.uid)
            [] OTHER -> {}

(* ForwardPkg to each, and SendDataByFd over the context of its descriptor: *)
(* an instance that is offline has fd 0, and the frame is dropped.          *)
ForwardPkg(t, insts) ==
  [i \in {j \in insts : LET f == GetFdByTypeId(t, j)
                        IN f # 0 /\ conn[f] # Nobody} |-> GetFdByTypeId(t, i)]

(* GetTransferInstId: the transfer a user's frames go through.              *)
Slot(uid) == 1 + (uid % Transfers)

(* SendDataByFd finds a connector under the fd, or fails.                   *)
ForwarPkgToTransfer(frame) ==
  LET x == Slot(frame.uid)  f == transfer_fd[x] IN
  IF Transfers # 0 /\ f # 0 /\ tconn[f] # 0 THEN [y \in {x} |-> f] ELSE << >>

(* Whom the tables send a frame to.                                         *)
Route(frame) ==
  IF frame.own_zone
    THEN ForwardPkg(frame.type, IF frame.inst # 0 THEN {frame.inst}
                                                  ELSE RouterPolicy(frame))
    ELSE ForwarPkgToTransfer(frame)

(* A frame that is not for the router itself.  SendPacket refuses it on a   *)
(* connection that is closed or whose buffer is full, and nobody looks at   *)
(* what it returned.                                                        *)
OnProc(frame) ==
  /\ \E full \in SUBSET DOMAIN Route(frame) :
       sent' = [frame |-> frame, over |-> Route(frame), full |-> full]
  /\ UNCHANGED << tableVars, transferVars >>

-----------------------------------------------------------------------------
Next ==
  \/ \E s \in Servers, f \in Fds : Connect(s, f) \/ Register(s, f)
  \/ \E f \in Fds : Disconnect(f)
  \/ \E n \in 1..MaxStrays : StrayOut(n)
  \/ \E config \in Configs : Reload(config)
  \/ \E x \in 1..Transfers, f \in TFds : TransferIn(x, f)
  \/ \E f \in TFds : TransferRegistered(f) \/ TransferOut(f)
  \/ \E frame \in Frames : OnProc(frame)

Spec == Init /\ [][Next]_vars
-----------------------------------------------------------------------------
(* An instance id of IdWidth or more has registered: its key may be that of *)
(* another instance, or of another type itself.                             *)
Aliased == \E s \in seen : s.inst >= IdWidth

Forwarded == sent.frame # NoFrame
Frame == sent.frame

(* A frame for a server of the router's zone, while no id is too large.     *)
ForZone ==
  Forwarded /\ Frame.own_zone /\ Frame.inst < IdWidth /\ ~Aliased

(* The servers of a type that have registered over a connection the table   *)
(* has.  A descriptor that was announced twice may be in two entries, or in *)
(* the entry of an instance that is gone: nothing is said of those.         *)
Online(t) == {s \in Servers : s.type = t /\ home[s] \notin reused \cup {0}}

(* The connection of s has been handed the frame, and has taken it.         *)
Addressed(s) == s.inst \in DOMAIN sent.over /\ sent.over[s.inst] = home[s]
Received(s) ==
  \E k \in DOMAIN sent.over \ sent.full : conn[sent.over[k]] = s

(* The types of the tables.                                                 *)
TypeOK ==
  /\ policy_list \in Configs
  /\ conn \in [Fds -> Servers \cup {Nobody}]
  /\ stray \in [1..MaxStrays -> [fd : Fds \cup {0}, server : Servers \cup {Nobody}]]
  /\ entry \in [Keys -> [fd : Fds \cup {0}, inst_id : Ids \cup {0},
                         info : Types \cup {0}]]
  /\ info \in [Types -> [policy : Policies, inst_set : SUBSET Ids]]
  /\ tconn \in [TFds -> 0..Transfers]
  /\ transfer_fd \in [1..Transfers -> TFds \cup {0}]
  /\ home \in [Servers -> Fds \cup {0}]
  /\ reused \subseteq Fds
  /\ \A k \in Keys : entry[k].info = 0 => entry[k] = NoEntry

(* A frame for a type, or for one of its instances, is sent over a          *)
(* connection of that type and instance and of nobody else, however         *)
(* descriptors were used again after their end was announced (unless an     *)
(* instance id was too large).                                              *)
RightServer ==
  ForZone =>
    \A k \in DOMAIN sent.over :
      sent.over[k] \notin reused =>
        /\ conn[sent.over[k]] = [type |-> Frame.type, inst |-> k]
        /\ Frame.inst \in {0, k}

(* A frame for one instance, if it is registered, and a broadcast for each  *)
(* such instance of the type, is handed to its own connection, and reaches  *)
(* it unless that connection takes no more.                                 *)
Reaches ==
  (ForZone /\ (Frame.inst # 0 \/ Frame.broadcast)) =>
    \A s \in Online(Frame.type) :
      Frame.inst \in {0, s.inst} =>
        Addressed(s) /\ (s.inst \in sent.full \/ Received(s))

(* Any other frame goes where the policy says that the type had when its    *)
(* first instance registered, if no reload has changed it since: under MOD  *)
(* to one instance at most, and to one if all that ever registered are      *)
(* online; under BROADCAST to all that are online.  Under RANDOM it always  *)
(* goes to the instance with the smallest id, and nowhere while that one is *)
(* offline, whichever others are online.                                    *)
ByPolicy ==
  (ForZone /\ Frame.inst = 0 /\ ~Frame.broadcast
     /\ Frame.type \notin repoliced) =>
    LET known == {s \in seen : s.type = Frame.type}
        first == {s \in known : \A r \in known : s.inst <= r.inst}
    IN CASE policy_list[Frame.type] = "RANDOM" ->
              /\ DOMAIN sent.over \subseteq {s.inst : s \in first}
              /\ \A s \in first \cap Online(Frame.type) : Addressed(s)
         [] policy_list[Frame.type] = "MOD" ->
              /\ \A i, j \in DOMAIN sent.over : i = j
              /\ known # {} /\ known \subseteq Online(Frame.type)
                   => \E s \in known : Addressed(s)
         [] policy_list[Frame.type] = "BROADCAST" ->
              \A s \in Online(Frame.type) : Addressed(s)
         [] OTHER -> DOMAIN sent.over = {}

(* Where the frames of a user go.                                           *)
Placement(uid, t) ==
  RouterPolicy([own_zone |-> TRUE, type |-> t, inst |-> 0, uid |-> uid,
                broadcast |-> FALSE])

(* The instance that serves a user of a type with POLICY_MOD changes only   *)
(* when an instance registers for the first time: no disconnection, new     *)
(* registration, reload or frame moves users from one to another.           *)
PlacementStable ==
  [][\A t \in Types, uid \in Uids :
       (info[t].policy = "MOD" /\ seen' = seen /\ ~Aliased)
         => Placement(uid, t)' = Placement(uid, t)]_vars

(* A frame for another zone reaches the transfer of its user once that one  *)
(* has registered, unless its connection takes no more, and nobody before.  *)
(* (After its connection broke the stored descriptor is stale, and may      *)
(* belong to another transfer.)                                             *)
TransferReached ==
  (Forwarded /\ ~Frame.own_zone /\ Slot(Frame.uid) \notin broken
     /\ sent.full = {}) =>
    {tconn[sent.over[x]] : x \in DOMAIN sent.over} =
      IF Transfers = 0 \/ transfer_fd[Slot(Frame.uid)] = 0
        THEN {} ELSE {Slot(Frame.uid)}
=============================================================================
