------------------------ MODULE RouterForwardProofs ------------------------
(***************************************************************************)
(* What routersvr's table promises, for any number of servers, types,      *)
(* descriptors, transfers and configurations.                              *)
(***************************************************************************)
EXTENDS RouterForward, FiniteSetTheorems, TLAPS

(* Keys of instances whose ids fit are all different, and those of types.   *)
LEMMA KeyInjective ==
  ASSUME NEW t \in Nat, NEW u \in Nat, NEW i \in Nat, NEW j \in Nat,
         i < IdWidth, j < IdWidth, CalcTypeId(t, i) = CalcTypeId(u, j)
  PROVE  t = u /\ i = j
<1>1. IdWidth \in Nat /\ t * IdWidth + i = u * IdWidth + j
  BY ConfigAssumption DEF CalcTypeId
<1>2. ASSUME NEW a \in Nat, NEW b \in Nat, NEW w \in Nat, a < b
      PROVE  a * w + w <= b * w
  <2>1. PICK d \in Nat : b = a + 1 + d
    <3>1. b - a - 1 \in Nat /\ b = a + 1 + (b - a - 1)
      BY <1>2
    <3> QED BY <3>1
  <2>2. b * w = a * w + w + d * w /\ d * w \in Nat /\ a * w \in Nat
    BY <2>1
  <2> QED BY <2>2
<1>3. ~(t < u)
  <2>1. ASSUME t < u PROVE FALSE
    <3>1. t * IdWidth + IdWidth <= u * IdWidth
      BY <1>1, <1>2, <2>1
    <3>2. t * IdWidth \in Nat /\ u * IdWidth \in Nat
      BY <1>1
    <3> QED BY <1>1, <3>1, <3>2
  <2> QED BY <2>1
<1>4. ~(u < t)
  <2>1. ASSUME u < t PROVE FALSE
    <3>1. u * IdWidth + IdWidth <= t * IdWidth
      BY <1>1, <1>2, <2>1
    <3>2. t * IdWidth \in Nat /\ u * IdWidth \in Nat
      BY <1>1
    <3> QED BY <1>1, <3>1, <3>2
  <2> QED BY <2>1
<1>5. t = u
  BY <1>3, <1>4
<1>6. t * IdWidth \in Nat
  BY <1>1
<1> QED BY <1>1, <1>5, <1>6

(* all_inst[k] is an element of the set for every k below its size: the     *)
(* ranks of its elements are different, so they are all the numbers below.  *)
LEMMA NthExists ==
  ASSUME NEW S \in SUBSET Nat, IsFiniteSet(S),
         NEW k \in Nat, k < Cardinality(S)
  PROVE  /\ Nth(S, k) \in S
         /\ Cardinality({j \in S : j < Nth(S, k)}) = k
<1> DEFINE Below(i) == {j \in S : j < i}
           n == Cardinality(S)
           rank == [i \in S |-> Cardinality(Below(i))]
<1>1. n \in Nat
  BY FS_CardinalityType
<1>2. ASSUME NEW i \in S
      PROVE  /\ IsFiniteSet(Below(i)) /\ Cardinality(Below(i)) \in Nat
             /\ Cardinality(Below(i)) < n
  <2>1. Below(i) \in SUBSET S /\ i \notin Below(i)
    OBVIOUS
  <2>2. IsFiniteSet(Below(i)) /\ Cardinality(Below(i)) <= n /\ Cardinality(Below(i)) # n
    BY <2>1, FS_Subset
  <2>3. Cardinality(Below(i)) \in Nat
    BY <2>2, FS_CardinalityType
  <2> HIDE DEF Below, n
  <2> QED BY <1>1, <2>2, <2>3
<1>3. ASSUME NEW i \in S, NEW j \in S, i < j
      PROVE  Cardinality(Below(i)) < Cardinality(Below(j))
  <2>0. (\A m \in S : m < i => m < j) /\ ~(i < i)
    BY <1>3
  <2>1. Below(i) \in SUBSET Below(j) /\ i \in Below(j) /\ i \notin Below(i)
    BY <1>3, <2>0, Zenon
  <2>2. /\ Cardinality(Below(i)) <= Cardinality(Below(j))
        /\ Cardinality(Below(i)) # Cardinality(Below(j))
    BY <2>1, <1>2, FS_Subset
  <2> HIDE DEF Below
  <2> QED BY <1>2, <2>2
<1>4. rank \in [S -> 0..(n - 1)]
  <2>1. ASSUME NEW i \in S PROVE Cardinality(Below(i)) \in 0..(n - 1)
    <3> HIDE DEF Below, n
    <3> QED BY <1>1, <1>2
  <2> HIDE DEF Below, n
  <2> QED BY <2>1
<1>5. rank \in Injection(S, 0..(n - 1))
  <2>1. ASSUME NEW i \in S, NEW j \in S, rank[i] = rank[j] PROVE i = j
    <3>1. Cardinality(Below(i)) = Cardinality(Below(j))
      BY <2>1
    <3>2. i \in Nat /\ j \in Nat
      OBVIOUS
    <3> HIDE DEF Below, rank
    <3>3. ~(i < j) /\ ~(j < i)
      BY <1>2, <1>3, <3>1
    <3> QED BY <3>2, <3>3
  <2>2. \A a, b \in S : rank[a] = rank[b] => a = b
    BY <2>1
  <2>3. PICK T : T = 0..(n - 1)
    OBVIOUS
  <2> HIDE DEF rank, n
  <2>4. rank \in Injection(S, T)
    BY <1>4, <2>2, <2>3 DEF Injection, IsInjective
  <2> QED BY <2>3, <2>4
<1>6. IsFiniteSet(0..(n - 1)) /\ Cardinality(0..(n - 1)) = n
  <2> HIDE DEF n
  <2>1. 0 \in Int /\ n - 1 \in Int /\ (0 > n - 1 => n = 0)
    BY <1>1
  <2> QED BY <1>1, <2>1, FS_Interval
<1>7. rank \in Surjection(S, 0..(n - 1))
  <2> HIDE DEF rank
  <2> QED BY <1>5, <1>6, FS_Injection
<1>8. k \in 0..(n - 1)
  <2> HIDE DEF rank
  <2> QED BY <1>1
<1>9. \E i \in S : rank[i] = k
  <2> HIDE DEF rank
  <2> QED BY <1>7, <1>8 DEF Surjection
<1>10. \E i \in S : Cardinality(Below(i)) = k
  BY <1>9
<1> QED BY <1>10 DEF Nth

(* all_inst[0] is the smallest.                                             *)
LEMMA FirstIsSmallest ==
  ASSUME NEW S \in SUBSET Nat, IsFiniteSet(S), S # {}
  PROVE  Nth(S, 0) \in S /\ \A j \in S : Nth(S, 0) <= j
<1>1. Cardinality(S) \in Nat /\ Cardinality(S) # 0
  BY FS_CardinalityType, FS_EmptySet
<1>2. PICK i : i = Nth(S, 0)
  OBVIOUS
<1>3. PICK B : B = {j \in S : j < i}
  OBVIOUS
<1>4. i \in S /\ Cardinality(B) = 0
  BY <1>1, <1>2, <1>3, NthExists
<1>5. B = {}
  <2>1. IsFiniteSet(B)
    BY <1>3, FS_Subset
  <2> QED BY <1>4, <2>1, FS_EmptySet
<1>6. \A j \in S : ~(j < i)
  BY <1>3, <1>5
<1> QED BY <1>2, <1>4, <1>6

(* The parts of a server, and the keys of the table.                        *)
LEMMA ServerParts ==
  /\ \A s \in Servers : /\ s.type \in Types /\ s.inst \in Ids
                        /\ s = [type |-> s.type, inst |-> s.inst]
  /\ \A t \in Types : t \in Nat /\ t # 0
  /\ \A i \in Ids : i \in Nat
  /\ \A t \in Types : CalcTypeId(t, 0) \in Keys
  /\ \A t \in Types, i \in Ids : CalcTypeId(t, i) \in Keys
  /\ Nobody \notin Servers
  /\ 0 \notin Fds /\ 0 \notin TFds
<1>1. \A s \in Servers : /\ s.type \in Types /\ s.inst \in Ids
                        /\ s = [type |-> s.type, inst |-> s.inst]
  BY ServerAssumption DEF Types, Ids
<1>2. \A t \in Types : t \in Nat /\ t # 0
  BY ServerAssumption DEF Types
<1>3. \A i \in Ids : i \in Nat
  BY ServerAssumption DEF Ids
<1>4. \A t \in Types : CalcTypeId(t, 0) \in Keys
  BY DEF Keys
<1>5. \A t \in Types, i \in Ids : CalcTypeId(t, i) \in Keys
  BY DEF Keys
<1>6. Nobody \notin Servers
  BY ServerAssumption DEF Nobody
<1>7. 0 \notin Fds /\ 0 \notin TFds
  BY FdAssumption
<1> QED BY <1>1, <1>2, <1>3, <1>4, <1>5, <1>6, <1>7

(* The types of the tables hold at the start.                               *)
LEMMA InitTypes == Init => TypeOK
BY ServerParts, ConfigAssumption
   DEF Init, TypeOK, NoEntry, NoStray, Policies

(* What a login does to the tables, by cases and without LET.               *)
LEMMA LoginSteps ==
  ASSUME TypeOK, NEW f \in Fds, NEW s \in Servers, LoginInstance(s, f)
  PROVE  LET base == CalcTypeId(s.type, 0)
             key == CalcTypeId(s.type, s.inst)
             basic == Basic(s.type)
             known == [entry EXCEPT ![base] = basic]
         IN /\ base \in Keys /\ key \in Keys
            /\ basic.info \in Types /\ basic # NoEntry
            /\ basic \in [fd : Fds \cup {0}, inst_id : Ids \cup {0},
                          info : Types \cup {0}]
            /\ known \in [Keys -> [fd : Fds \cup {0}, inst_id : Ids \cup {0},
                                   info : Types \cup {0}]]
            /\ \A k \in Keys : known[k].info = 0 => known[k] = NoEntry
            /\ known # entry <=> entry[base] = NoEntry
<1> DEFINE base == CalcTypeId(s.type, 0)
           key == CalcTypeId(s.type, s.inst)
           basic == Basic(s.type)
           known == [entry EXCEPT ![base] = basic]
           Entry == [fd : Fds \cup {0}, inst_id : Ids \cup {0},
                     info : Types \cup {0}]
<1>1. base \in Keys /\ key \in Keys
  BY ServerParts
<1>2. entry \in [Keys -> Entry] /\ \A k \in Keys : entry[k].info = 0 => entry[k] = NoEntry
  BY DEF TypeOK
<1>3. s.type \in Types /\ s.type # 0
  BY ServerParts
<1>4. basic.info \in Types /\ basic # NoEntry /\ basic \in Entry
  <2>1. CASE entry[base] # NoEntry
    <3>1. basic = entry[base]
      BY <2>1 DEF Basic
    <3>2. entry[base] \in Entry /\ entry[base].info # 0
      BY <1>1, <1>2, <2>1
    <3> QED BY <2>1, <3>1, <3>2
  <2>2. CASE entry[base] = NoEntry
    <3>1. basic = [fd |-> 0, inst_id |-> 0, info |-> s.type]
      BY <2>2 DEF Basic
    <3> QED BY <1>3, <3>1 DEF NoEntry
  <2> QED BY <2>1, <2>2
<1>5. basic.info # 0
  BY <1>4, ServerParts
<1>6. known \in [Keys -> Entry]
  <2> HIDE DEF basic, Entry, base
  <2> QED BY <1>1, <1>2, <1>4
<1>7. \A k \in Keys : known[k] = IF k = base THEN basic ELSE entry[k]
  <2> HIDE DEF basic, Entry, base
  <2> QED BY <1>2
<1>8. \A k \in Keys : known[k].info = 0 => known[k] = NoEntry
  <2> HIDE DEF basic, Entry, base, known
  <2> QED BY <1>2, <1>5, <1>7
<1>9. known # entry <=> entry[base] = NoEntry
  <2>1. CASE entry[base] # NoEntry
    <3>1. basic = entry[base]
      BY <2>1 DEF Basic
    <3> HIDE DEF basic, Entry, base
    <3>2. known = entry
      BY <1>2, <3>1
    <3> QED BY <2>1, <3>2
  <2>2. CASE entry[base] = NoEntry
    <3> HIDE DEF basic, Entry, base, known
    <3>1. known[base] # entry[base]
      BY <1>1, <1>4, <1>7, <2>2
    <3> QED BY <2>2, <3>1
  <2> QED BY <2>1, <2>2
<1> HIDE DEF base, key, basic, known, Entry
<1>10. /\ base \in Keys /\ key \in Keys
       /\ basic.info \in Types /\ basic # NoEntry
       /\ basic \in Entry
       /\ known \in [Keys -> Entry]
       /\ \A k \in Keys : known[k].info = 0 => known[k] = NoEntry
       /\ known # entry <=> entry[base] = NoEntry
  BY <1>1, <1>4, <1>6, <1>8, <1>9
<1> QED BY <1>10 DEF base, key, basic, known, Entry

(* The entry a login writes.                                                *)
LoggedIn(s, f, old, basic) ==
  IF old = NoEntry THEN [fd |-> f, inst_id |-> s.inst, info |-> basic.info]
                   ELSE Relogin(old, f)

(* A login keeps the types of the tables.                                   *)
LEMMA LoginTypes ==
  ASSUME TypeOK, NEW f \in Fds, NEW s \in Servers, LoginInstance(s, f)
  PROVE  /\ entry' \in [Keys -> [fd : Fds \cup {0}, inst_id : Ids \cup {0},
                                 info : Types \cup {0}]]
         /\ info' \in [Types -> [policy : Policies, inst_set : SUBSET Ids]]
         /\ \A k \in Keys : entry'[k].info = 0 => entry'[k] = NoEntry
<1> DEFINE base == CalcTypeId(s.type, 0)
           key == CalcTypeId(s.type, s.inst)
           basic == Basic(s.type)
           known == [entry EXCEPT ![base] = basic]
           Entry == [fd : Fds \cup {0}, inst_id : Ids \cup {0},
                     info : Types \cup {0}]
           new == LoggedIn(s, f, known[key], basic)
<1>1. /\ base \in Keys /\ key \in Keys
      /\ basic.info \in Types /\ basic # NoEntry
      /\ basic \in Entry
      /\ known \in [Keys -> Entry]
      /\ \A k \in Keys : known[k].info = 0 => known[k] = NoEntry
  BY LoginSteps
<1>2. entry' = [known EXCEPT ![key] = new]
  BY DEF LoginInstance, LoggedIn
<1>3. new \in Entry /\ new.info # 0
  <2>1. s.inst \in Ids /\ basic.info \in Types /\ basic.info # 0
    BY <1>1, ServerParts
  <2>2. known[key] \in Entry /\ (known[key] # NoEntry => known[key].info # 0)
    BY <1>1
  <2> HIDE DEF basic, known, key
  <2>3. CASE known[key] = NoEntry
    BY <2>1, <2>3 DEF LoggedIn
  <2>4. CASE known[key] # NoEntry
    BY <2>2, <2>4 DEF LoggedIn, Relogin
  <2> QED BY <2>3, <2>4
<1>4. entry' \in [Keys -> Entry]
  <2> HIDE DEF known, key, new, Entry
  <2> QED BY <1>1, <1>2, <1>3
<1>5. \A k \in Keys : entry'[k].info = 0 => entry'[k] = NoEntry
  <2> HIDE DEF known, key, new, Entry
  <2> QED BY <1>1, <1>2, <1>3
<1>6. info' \in [Types -> [policy : Policies, inst_set : SUBSET Ids]]
  <2>1. PICK b, p, i :
          /\ b = basic.info
          /\ p = IF known # entry THEN policy_list[s.type] ELSE info[b].policy
          /\ i = info[b].inst_set \cup (IF known[key] = NoEntry THEN {s.inst} ELSE {})
    OBVIOUS
  <2>2. info' = [info EXCEPT ![b] = [policy |-> p, inst_set |-> i]]
    BY <2>1 DEF LoginInstance
  <2>3. info \in [Types -> [policy : Policies, inst_set : SUBSET Ids]]
        /\ policy_list[s.type] \in Policies
    BY ServerParts, ConfigAssumption DEF TypeOK, Types
  <2>4. b \in Types
    BY <1>1, <2>1
  <2>5. p \in Policies /\ i \in SUBSET Ids
    <3>1. s.inst \in Ids
      BY ServerParts
    <3> HIDE DEF known, basic
    <3> QED BY <2>1, <2>3, <2>4, <3>1
  <2> HIDE DEF basic, known, key
  <2> QED BY <2>2, <2>3, <2>4, <2>5
<1> QED BY <1>4, <1>5, <1>6

(* Every step keeps the types of the tables.                                *)
LEMMA StepTypes == TypeOK /\ [Next]_vars => TypeOK'
<1> SUFFICES ASSUME TypeOK, [Next]_vars PROVE TypeOK'
  OBVIOUS
<1> USE DEF TypeOK
<1>1. ASSUME NEW s \in Servers, NEW f \in Fds, Connect(s, f) PROVE TypeOK'
  <2>1. CASE conn[f] = Nobody
    BY <1>1, <2>1 DEF Connect, transferVars
  <2>2. CASE conn[f] # Nobody
    BY <1>1, <2>2 DEF Connect, transferVars
  <2> QED BY <2>1, <2>2
<1>2. ASSUME NEW s \in Servers, NEW f \in Fds, Register(s, f) PROVE TypeOK'
  <2>1. /\ LoginInstance(s, f) /\ home' = [home EXCEPT ![s] = f]
        /\ UNCHANGED << policy_list, conn, stray, reused, tconn, transfer_fd >>
    BY <1>2 DEF Register, transferVars
  <2>2. home' \in [Servers -> Fds \cup {0}]
    BY <2>1
  <2>3. /\ entry' \in [Keys -> [fd : Fds \cup {0}, inst_id : Ids \cup {0},
                                info : Types \cup {0}]]
        /\ info' \in [Types -> [policy : Policies, inst_set : SUBSET Ids]]
        /\ \A k \in Keys : entry'[k].info = 0 => entry'[k] = NoEntry
    BY <2>1, LoginTypes
  <2> QED BY <2>1, <2>2, <2>3
<1>30. ASSUME NEW f \in Fds, Leave(f)
       PROVE  /\ entry' \in [Keys -> [fd : Fds \cup {0}, inst_id : Ids \cup {0},
                                     info : Types \cup {0}]]
              /\ \A k \in Keys : entry'[k].info = 0 => entry'[k] = NoEntry
              /\ home' \in [Servers -> Fds \cup {0}]
              /\ conn' \in [Fds -> Servers \cup {Nobody}]
              /\ info' = info
  <2>1. /\ entry' \in [Keys -> [fd : Fds \cup {0}, inst_id : Ids \cup {0},
                                info : Types \cup {0}]]
        /\ \A k \in Keys : entry'[k].info = 0 => entry'[k] = NoEntry
    <3>1. CASE UNCHANGED entry
      BY <3>1
    <3>2. ASSUME NEW k \in Keys, entry[k].fd = f, entry' = [entry EXCEPT ![k].fd = 0]
          PROVE  <2>1
      <4>1. entry[k].info # 0
        BY <3>2, ServerParts DEF NoEntry
      <4>2. entry \in [Keys -> [fd : Fds \cup {0}, inst_id : Ids \cup {0},
                               info : Types \cup {0}]]
            /\ \A j \in Keys : entry[j].info = 0 => entry[j] = NoEntry
        OBVIOUS
      <4> HIDE DEF TypeOK
      <4> QED BY <3>2, <4>1, <4>2
    <3> QED BY <1>30, <3>1, <3>2 DEF Leave, LogoutInstance
  <2>2. home' \in [Servers -> Fds \cup {0}] /\ conn' \in [Fds -> Servers \cup {Nobody}]
    BY <1>30 DEF Leave
  <2> QED BY <1>30, <2>1, <2>2 DEF Leave, LogoutInstance
<1>3. ASSUME NEW f \in Fds, Disconnect(f) PROVE TypeOK'
  BY <1>3, <1>30 DEF Disconnect, transferVars
<1>31. ASSUME NEW n \in 1..MaxStrays, StrayOut(n) PROVE TypeOK'
  <2>1. PICK f \in Fds : f = stray[n].fd
    BY <1>31 DEF StrayOut
  <2>2. CASE conn[f] = Nobody
    BY <1>31, <2>1, <2>2 DEF StrayOut, NoStray, transferVars
  <2>3. CASE conn[f] # Nobody
    <3>1. Leave(f) /\ stray' = [stray EXCEPT ![n].server = conn[f]]
      BY <1>31, <2>1, <2>3 DEF StrayOut
    <3>2. stray' \in [1..MaxStrays -> [fd : Fds \cup {0}, server : Servers \cup {Nobody}]]
      BY <3>1
    <3> QED BY <1>30, <1>31, <3>1, <3>2 DEF StrayOut, transferVars
  <2> QED BY <2>2, <2>3
<1>4. ASSUME NEW config \in Configs, Reload(config) PROVE TypeOK'
  BY <1>4 DEF Reload, transferVars
<1>5. ASSUME NEW x \in 1..Transfers, NEW f \in TFds, TransferIn(x, f) PROVE TypeOK'
  BY <1>5, ConfigAssumption DEF TransferIn, tableVars
<1>6. ASSUME NEW f \in TFds, TransferRegistered(f) PROVE TypeOK'
  BY <1>6, ConfigAssumption DEF TransferRegistered, LoginTransfer, tableVars
<1>7. ASSUME NEW f \in TFds, TransferOut(f) PROVE TypeOK'
  BY <1>7, ConfigAssumption DEF TransferOut, tableVars
<1>8. ASSUME NEW frame \in Frames, OnProc(frame) PROVE TypeOK'
  BY <1>8 DEF OnProc, tableVars, transferVars
<1>9. CASE UNCHANGED vars
  BY <1>9 DEF vars, tableVars, transferVars
<1> QED BY <1>1, <1>2, <1>3, <1>31, <1>4, <1>5, <1>6, <1>7, <1>8, <1>9 DEF Next

-----------------------------------------------------------------------------
(* The inductive invariant.  First the history: a server that is at home    *)
(* has registered, and its connection is still its own unless the           *)
(* descriptor was announced twice.  That was so before the table refused a  *)
(* connection.                                                              *)
History ==
  /\ seen \subseteq Servers /\ IsFiniteSet(seen)
  /\ \A s \in seen : s.inst # 0
  /\ \A s \in Servers : home[s] # 0 =>
       s \in seen /\ (home[s] \in reused \/ conn[home[s]] = s)
  /\ \A n \in 1..MaxStrays : stray[n].fd # 0 => stray[n].fd \in reused

(* What the table may hold of a server: the descriptor it is at home on, or *)
(* if it is at home nowhere perhaps one that was announced twice.           *)
EntryOf(s, e) ==
  /\ e = [fd |-> e.fd, inst_id |-> s.inst, info |-> s.type]
  /\ e.fd = home[s] \/ (home[s] = 0 /\ e.fd \in reused)

(* The table has an entry for each server that has registered, one for each *)
(* of their types, and no other.                                            *)
Entries ==
  /\ \A s \in seen :
       /\ EntryOf(s, entry[CalcTypeId(s.type, s.inst)])
       /\ entry[CalcTypeId(s.type, 0)] =
            [fd |-> 0, inst_id |-> 0, info |-> s.type]
  /\ \A k \in Keys : entry[k] # NoEntry =>
       \E s \in seen : k \in {CalcTypeId(s.type, s.inst), CalcTypeId(s.type, 0)}

(* The set of a type holds its servers that have registered, and its policy *)
(* is the one in the list unless a reload has changed that.                 *)
Containers ==
  /\ \A t \in Types :
       info[t].inst_set = {s.inst : s \in {x \in seen : x.type = t}}
  /\ \A s \in seen :
       /\ info[s.type].policy # "none"
       /\ s.type \notin repoliced => info[s.type].policy = policy_list[s.type]

(* The descriptor of a transfer is its own until its connection breaks.     *)
Links ==
  \A x \in 1..Transfers :
    x \notin broken /\ transfer_fd[x] # 0 => tconn[transfer_fd[x]] = x

(* The last frame was sent by the tables as they are.                       *)
SentNow ==
  \/ sent = Quiet
  \/ \E frame \in Frames : sent.frame = frame /\ sent.over = Route(frame)

RouterInv ==
  TypeOK /\ History /\ (~Aliased => Entries /\ Containers) /\ Links /\ SentNow

-----------------------------------------------------------------------------
(* Servers whose ids fit have keys of their own.                            *)
LEMMA KeysApart ==
  /\ \A s, r \in Servers :
       s.inst < IdWidth /\ r.inst < IdWidth
         /\ CalcTypeId(s.type, s.inst) = CalcTypeId(r.type, r.inst) => s = r
  /\ \A s \in Servers, t \in Types :
       s.inst < IdWidth /\ s.inst # 0 => CalcTypeId(s.type, s.inst) # CalcTypeId(t, 0)
  /\ \A t, u \in Types : CalcTypeId(t, 0) = CalcTypeId(u, 0) => t = u
<1>1. IdWidth \in Nat /\ 0 < IdWidth /\ 0 \in Nat
  BY ConfigAssumption
<1>2. \A s \in Servers : s.type \in Nat /\ s.inst \in Nat
  BY ServerAssumption
<1>3. \A t \in Types : t \in Nat
  BY ServerParts
<1>4. ASSUME NEW s \in Servers, NEW r \in Servers,
             s.inst < IdWidth, r.inst < IdWidth,
             CalcTypeId(s.type, s.inst) = CalcTypeId(r.type, r.inst)
      PROVE  s = r
  <2>1. s.type = r.type /\ s.inst = r.inst
    BY <1>2, <1>4, KeyInjective
  <2> QED BY <2>1, ServerParts
<1>5. ASSUME NEW s \in Servers, NEW t \in Types, s.inst < IdWidth, s.inst # 0
      PROVE  CalcTypeId(s.type, s.inst) # CalcTypeId(t, 0)
  BY <1>1, <1>2, <1>3, <1>5, KeyInjective
<1>6. ASSUME NEW t \in Types, NEW u \in Types, CalcTypeId(t, 0) = CalcTypeId(u, 0)
      PROVE  t = u
  BY <1>1, <1>3, <1>6, KeyInjective
<1> QED BY <1>4, <1>5, <1>6

(* While no id is too large, a login writes the entry of the instance and   *)
(* that of its type, and adds the instance to the set of its type.          *)
LEMMA LoginExact ==
  ASSUME TypeOK, History, Entries, ~Aliased,
         NEW f \in Fds, NEW s \in Servers, s.inst # 0, s.inst < IdWidth,
         LoginInstance(s, f)
  PROVE  /\ \A k \in Keys : entry'[k] =
              IF k = CalcTypeId(s.type, s.inst)
                THEN [fd |-> f, inst_id |-> s.inst, info |-> s.type]
              ELSE IF k = CalcTypeId(s.type, 0)
                THEN [fd |-> 0, inst_id |-> 0, info |-> s.type]
              ELSE entry[k]
         /\ info' = [info EXCEPT ![s.type] =
              [policy |-> IF \E r \in seen : r.type = s.type
                            THEN info[s.type].policy ELSE policy_list[s.type],
               inst_set |-> info[s.type].inst_set \cup
                              (IF s \in seen THEN {} ELSE {s.inst})]]
<1> DEFINE base == CalcTypeId(s.type, 0)
           key == CalcTypeId(s.type, s.inst)
           basic == Basic(s.type)
           known == [entry EXCEPT ![base] = basic]
           Entry == [fd : Fds \cup {0}, inst_id : Ids \cup {0},
                     info : Types \cup {0}]
           new == LoggedIn(s, f, known[key], basic)
           first == [fd |-> 0, inst_id |-> 0, info |-> s.type]
<1>1. /\ base \in Keys /\ key \in Keys
      /\ known \in [Keys -> Entry]
      /\ known # entry <=> entry[base] = NoEntry
  BY LoginSteps
<1>2. entry' = [known EXCEPT ![key] = new]
  BY DEF LoginInstance, LoggedIn
<1>3. /\ \A r \in seen : r \in Servers /\ r.inst # 0 /\ r.inst < IdWidth
      /\ s.type \in Types /\ s.type # 0 /\ entry \in [Keys -> Entry]
  <2>1. \A r \in seen : r \in Servers /\ r.inst \in Nat /\ r.inst # 0
    BY ServerAssumption DEF History
  <2>2. \A r \in seen : r.inst < IdWidth
    BY <2>1, ConfigAssumption DEF Aliased
  <2> QED BY <2>1, <2>2, ServerParts DEF TypeOK
<1>4. key # base
  BY <1>3, KeysApart
<1>5. entry[base] = NoEntry <=> ~\E r \in seen : r.type = s.type
  <2>1. ASSUME NEW r \in seen, r.type = s.type PROVE entry[base] # NoEntry
    <3>1. entry[base] = first
      BY <2>1 DEF Entries
    <3> QED BY <1>3, <3>1 DEF NoEntry
  <2>2. ASSUME entry[base] # NoEntry PROVE \E r \in seen : r.type = s.type
    <3>1. PICK r \in seen : base \in {CalcTypeId(r.type, r.inst), CalcTypeId(r.type, 0)}
      BY <1>1, <2>2 DEF Entries
    <3>2. r.type \in Types /\ s.type \in Types
      BY <1>3, ServerParts
    <3> QED BY <1>3, <3>1, <3>2, KeysApart
  <2> QED BY <2>1, <2>2
<1>6. basic = first
  <2>1. CASE entry[base] = NoEntry
    BY <2>1 DEF Basic
  <2>2. CASE entry[base] # NoEntry
    BY <1>5, <2>2 DEF Basic, Entries
  <2> QED BY <2>1, <2>2
<1>7. known[key] = entry[key] /\ \A k \in Keys : known[k] = IF k = base THEN first ELSE entry[k]
  <2> HIDE DEF first, basic, key, base
  <2> QED BY <1>1, <1>3, <1>4, <1>6
<1>8. entry[key] = NoEntry <=> s \notin seen
  <2>1. ASSUME s \in seen PROVE entry[key] # NoEntry
    <3>1. EntryOf(s, entry[key])
      BY <2>1 DEF Entries
    <3>2. entry[key].inst_id = s.inst
      BY <3>1 DEF EntryOf
    <3> QED BY <3>2 DEF NoEntry
  <2>2. ASSUME entry[key] # NoEntry PROVE s \in seen
    <3>1. PICK r \in seen : key \in {CalcTypeId(r.type, r.inst), CalcTypeId(r.type, 0)}
      BY <1>1, <2>2 DEF Entries
    <3>2. r.type \in Types
      BY <1>3, ServerParts
    <3>3. key = CalcTypeId(r.type, r.inst)
      BY <3>1, <3>2, KeysApart
    <3>4. s = r
      BY <1>3, <3>3, KeysApart
    <3> QED BY <3>4
  <2> QED BY <2>1, <2>2
<1>9. new = [fd |-> f, inst_id |-> s.inst, info |-> s.type]
  <2>1. CASE s \notin seen
    BY <1>6, <1>7, <1>8, <2>1 DEF LoggedIn
  <2>2. CASE s \in seen
    <3>1. EntryOf(s, entry[key])
      BY <2>2 DEF Entries
    <3>2. new = Relogin(entry[key], f)
      BY <1>7, <1>8, <2>2 DEF LoggedIn
    <3>3. entry[key] \in Entry
      BY <1>1, <1>3
    <3> QED BY <3>1, <3>2, <3>3 DEF Relogin, EntryOf
  <2> QED BY <2>1, <2>2
<1>10. \A k \in Keys : entry'[k] =
         IF k = key THEN [fd |-> f, inst_id |-> s.inst, info |-> s.type]
         ELSE IF k = base THEN first ELSE entry[k]
  <2> HIDE DEF first, basic, key, base, known, new, Entry
  <2> QED BY <1>1, <1>2, <1>7, <1>9
<1>11. info' = [info EXCEPT ![s.type] =
              [policy |-> IF \E r \in seen : r.type = s.type
                            THEN info[s.type].policy ELSE policy_list[s.type],
               inst_set |-> info[s.type].inst_set \cup
                              (IF s \in seen THEN {} ELSE {s.inst})]]
  <2>1. info' = [info EXCEPT ![basic.info] =
          [policy |-> IF known # entry THEN policy_list[s.type]
                                       ELSE info[basic.info].policy,
           inst_set |-> info[basic.info].inst_set \cup
                          (IF known[key] = NoEntry THEN {s.inst} ELSE {})]]
    BY DEF LoginInstance
  <2>2. basic.info = s.type
    BY <1>6
  <2>3. /\ known # entry <=> ~\E r \in seen : r.type = s.type
        /\ known[key] = NoEntry <=> s \notin seen
    BY <1>1, <1>5, <1>7, <1>8
  <2> HIDE DEF basic, known, key
  <2> QED BY <2>1, <2>2, <2>3
<1> QED BY <1>10, <1>11

(* A registration keeps the history.                                        *)
LEMMA RegisterHistory ==
  ASSUME TypeOK, History, NEW s \in Servers, NEW f \in Fds, Register(s, f)
  PROVE  History'
<1>1. s.inst # 0 /\ (s = conn[f] \/ f \in reused)
  <2>1. CASE s = conn[f]
    BY <2>1 DEF Register
  <2>2. ASSUME NEW n \in 1..MaxStrays, stray[n] = [fd |-> f, server |-> s]
        PROVE  f \in reused
    BY <2>2, ServerParts DEF History
  <2> QED BY <2>1, <2>2 DEF Register
<1>2. /\ home' = [home EXCEPT ![s] = f] /\ seen' = seen \cup {s} /\ conn' = conn
      /\ stray' = stray /\ reused' = reused
  BY DEF Register
<1>3. IsFiniteSet(seen')
  BY <1>2, FS_AddElement DEF History
<1>4. ASSUME NEW r \in Servers, home'[r] # 0
      PROVE  r \in seen' /\ (home'[r] \in reused' \/ conn'[home'[r]] = r)
  <2>1. CASE r = s
    BY <1>1, <1>2, <2>1 DEF TypeOK
  <2>2. CASE r # s
    BY <1>2, <1>4, <2>2 DEF TypeOK, History
  <2> QED BY <2>1, <2>2
<1> QED BY <1>1, <1>2, <1>3, <1>4 DEF History

(* A registration keeps the table exact.                                    *)
LEMMA RegisterTables ==
  ASSUME TypeOK, History, ~Aliased => Entries /\ Containers,
         NEW s \in Servers, NEW f \in Fds, Register(s, f), ~Aliased'
  PROVE  Entries' /\ Containers'
<1>1. s.inst # 0
  BY DEF Register
<1>2. /\ LoginInstance(s, f) /\ policy_list[s.type] # "none"
      /\ home' = [home EXCEPT ![s] = f] /\ seen' = seen \cup {s}
      /\ policy_list' = policy_list /\ repoliced' = repoliced /\ reused' = reused
  BY <1>1 DEF Register
<1>3. ~Aliased /\ s.inst < IdWidth
  <2>1. s.inst \in Nat /\ IdWidth \in Nat
    BY ServerAssumption, ConfigAssumption
  <2> QED BY <1>2, <2>1 DEF Aliased
<1>4. Entries /\ Containers
  BY <1>3
<1>5. \A r \in seen' : r \in Servers /\ r.inst # 0 /\ r.inst < IdWidth /\ r.type \in Types
  <2>1. \A r \in seen' : r \in Servers /\ r.inst \in Nat /\ r.inst # 0
    BY <1>1, <1>2, ServerAssumption DEF History
  <2>2. \A r \in seen' : r.inst < IdWidth
    BY <2>1, ConfigAssumption DEF Aliased
  <2> QED BY <2>1, <2>2, ServerParts
<1>6. /\ \A k \in Keys : entry'[k] =
            IF k = CalcTypeId(s.type, s.inst)
              THEN [fd |-> f, inst_id |-> s.inst, info |-> s.type]
            ELSE IF k = CalcTypeId(s.type, 0)
              THEN [fd |-> 0, inst_id |-> 0, info |-> s.type]
            ELSE entry[k]
      /\ info' = [info EXCEPT ![s.type] =
           [policy |-> IF \E r \in seen : r.type = s.type
                         THEN info[s.type].policy ELSE policy_list[s.type],
            inst_set |-> info[s.type].inst_set \cup
                           (IF s \in seen THEN {} ELSE {s.inst})]]
  BY <1>1, <1>2, <1>3, <1>4, LoginExact
<1>7. ASSUME NEW r \in seen'
      PROVE  EntryOf(r, entry[CalcTypeId(r.type, r.inst)])'
  <2>1. CASE r = s
    <3>1. home'[s] = f /\ CalcTypeId(s.type, s.inst) \in Keys
      BY <1>2, ServerParts DEF TypeOK
    <3>2. entry'[CalcTypeId(s.type, s.inst)] = [fd |-> f, inst_id |-> s.inst, info |-> s.type]
      BY <1>6, <3>1
    <3> QED BY <2>1, <3>1, <3>2 DEF EntryOf, CalcTypeId
  <2>2. CASE r # s
    <3>1. r \in seen /\ home'[r] = home[r]
      BY <1>2, <1>5, <2>2 DEF TypeOK
    <3>2. CalcTypeId(r.type, r.inst) \in Keys
      BY <1>5, ServerParts
    <3>3. CalcTypeId(r.type, r.inst) # CalcTypeId(s.type, s.inst)
      BY <1>3, <1>5, <2>2, KeysApart
    <3>4. CalcTypeId(r.type, r.inst) # CalcTypeId(s.type, 0)
      BY <1>5, ServerParts, KeysApart
    <3>5. entry'[CalcTypeId(r.type, r.inst)] = entry[CalcTypeId(r.type, r.inst)]
      BY <1>6, <3>2, <3>3, <3>4
    <3>6. EntryOf(r, entry[CalcTypeId(r.type, r.inst)])
      BY <1>4, <3>1 DEF Entries
    <3> QED BY <1>2, <3>1, <3>5, <3>6 DEF EntryOf, CalcTypeId
  <2> QED BY <2>1, <2>2
<1>8. ASSUME NEW r \in seen'
      PROVE  entry'[CalcTypeId(r.type, 0)] =
               [fd |-> 0, inst_id |-> 0, info |-> r.type]
  <2>1. CalcTypeId(r.type, 0) \in Keys
    BY <1>5, ServerParts
  <2>2. CalcTypeId(r.type, 0) # CalcTypeId(s.type, s.inst)
    BY <1>1, <1>3, <1>5, KeysApart
  <2>3. CASE r.type = s.type
    BY <1>6, <2>1, <2>2, <2>3
  <2>4. CASE r.type # s.type
    <3>1. r \in seen
      BY <1>2, <2>4
    <3>2. CalcTypeId(r.type, 0) # CalcTypeId(s.type, 0)
      BY <1>5, <2>4, ServerParts, KeysApart
    <3>3. entry'[CalcTypeId(r.type, 0)] = entry[CalcTypeId(r.type, 0)]
      BY <1>6, <2>1, <2>2, <3>2
    <3> QED BY <1>4, <3>1, <3>3 DEF Entries
  <2> QED BY <2>3, <2>4
<1>9. ASSUME NEW k \in Keys, entry'[k] # NoEntry
      PROVE  \E r \in seen' : k \in {CalcTypeId(r.type, r.inst), CalcTypeId(r.type, 0)}
  <2>1. CASE k \in {CalcTypeId(s.type, s.inst), CalcTypeId(s.type, 0)}
    BY <1>2, <2>1
  <2>2. CASE k \notin {CalcTypeId(s.type, s.inst), CalcTypeId(s.type, 0)}
    <3>1. entry[k] # NoEntry
      BY <1>6, <1>9, <2>2
    <3>2. PICK r \in seen : k \in {CalcTypeId(r.type, r.inst), CalcTypeId(r.type, 0)}
      BY <1>4, <3>1 DEF Entries
    <3> QED BY <1>2, <3>2
  <2> QED BY <2>1, <2>2
<1>10. Entries'
  BY <1>7, <1>8, <1>9 DEF Entries
<1>11. info \in [Types -> [policy : Policies, inst_set : SUBSET Ids]] /\ s.type \in Types
  BY ServerParts DEF TypeOK
<1>12. ASSUME NEW t \in Types
       PROVE  info'[t].inst_set = {r.inst : r \in {x \in seen' : x.type = t}}
  <2>1. info[t].inst_set = {r.inst : r \in {x \in seen : x.type = t}}
    BY <1>4 DEF Containers
  <2>2. CASE t # s.type
    <3>1. info'[t] = info[t]
      BY <1>6, <1>11, <2>2
    <3>2. {x \in seen' : x.type = t} = {x \in seen : x.type = t}
      BY <1>2, <2>2
    <3> QED BY <2>1, <3>1, <3>2
  <2>3. CASE t = s.type
    <3>1. info'[t].inst_set = info[t].inst_set \cup (IF s \in seen THEN {} ELSE {s.inst})
      BY <1>6, <1>11, <2>3
    <3>2. info'[t].inst_set = info[t].inst_set \cup {s.inst}
      BY <2>1, <2>3, <3>1
    <3>3. {x \in seen' : x.type = t} = {x \in seen : x.type = t} \cup {s}
      BY <1>2, <2>3
    <3> QED BY <2>1, <3>2, <3>3
  <2> QED BY <2>2, <2>3
<1>13. ASSUME NEW r \in seen'
       PROVE  /\ info'[r.type].policy # "none"
              /\ r.type \notin repoliced' => info'[r.type].policy = policy_list'[r.type]
  <2>1. CASE \E q \in seen : q.type = r.type
    <3>1. info'[r.type].policy = info[r.type].policy
      BY <1>5, <1>6, <1>11, <2>1
    <3> QED BY <1>2, <1>4, <2>1, <3>1 DEF Containers
  <2>2. CASE ~\E q \in seen : q.type = r.type
    <3>1. r = s
      BY <1>2, <2>2
    <3>2. info'[r.type].policy = policy_list[r.type]
      BY <1>6, <1>11, <2>2, <3>1
    <3> QED BY <1>2, <3>1, <3>2
  <2> QED BY <2>1, <2>2
<1>14. Containers'
  BY <1>12, <1>13 DEF Containers
<1> QED BY <1>10, <1>14

(* A context that leaves the table keeps the history.                       *)
LEMMA LeaveHistory ==
  ASSUME TypeOK, History, NEW f \in Fds, Leave(f),
         seen' = seen, reused' = reused,
         \A n \in 1..MaxStrays : stray'[n].fd = stray[n].fd
  PROVE  History'
<1>1. /\ conn' = [conn EXCEPT ![f] = Nobody]
      /\ home' = [s \in Servers |-> IF home[s] = f THEN 0 ELSE home[s]]
  BY DEF Leave
<1>2. ASSUME NEW r \in Servers, home'[r] # 0
      PROVE  r \in seen' /\ (home'[r] \in reused' \/ conn'[home'[r]] = r)
  <2>1. home'[r] = home[r] /\ home[r] # f /\ home[r] # 0
    BY <1>1, <1>2
  <2>2. r \in seen /\ (home[r] \in reused \/ conn[home[r]] = r) /\ home[r] \in Fds
    BY <2>1 DEF History, TypeOK
  <2> QED BY <1>1, <2>1, <2>2 DEF TypeOK
<1> QED BY <1>1, <1>2 DEF History

(* A context that leaves the table takes the entry of the server that was   *)
(* at home there offline, and no other: unless the descriptor was announced *)
(* twice, nobody else can have it.                                          *)
LEMMA LeaveTables ==
  ASSUME TypeOK, History, Entries, ~Aliased, NEW f \in Fds, Leave(f),
         seen' = seen, reused' = reused
  PROVE  Entries'
<1>1. /\ home' = [s \in Servers |-> IF home[s] = f THEN 0 ELSE home[s]]
      /\ f # 0
  BY ServerParts DEF Leave
<1>2. \A r \in seen : /\ r \in Servers /\ r.inst # 0 /\ r.inst < IdWidth
                      /\ r.type \in Types /\ CalcTypeId(r.type, r.inst) \in Keys
                      /\ CalcTypeId(r.type, 0) \in Keys
  <2>1. \A r \in seen : r \in Servers /\ r.inst \in Nat /\ r.inst # 0
    BY ServerAssumption DEF History
  <2>2. \A r \in seen : r.inst < IdWidth
    BY <2>1, ConfigAssumption DEF Aliased
  <2> QED BY <2>1, <2>2, ServerParts
<1>3. ASSUME NEW r \in seen, NEW s \in seen, r # s, f \notin reused,
             entry[CalcTypeId(s.type, s.inst)].fd = f
      PROVE  entry[CalcTypeId(r.type, r.inst)].fd # f
  <2>1. ASSUME NEW q \in seen, entry[CalcTypeId(q.type, q.inst)].fd = f
        PROVE  conn[f] = q
    <3>1. home[q] = f
      BY <1>3, <2>1 DEF Entries, EntryOf
    <3> QED BY <1>1, <1>2, <1>3, <3>1 DEF History
  <2> QED BY <1>3, <2>1
<1>4. ASSUME NEW r \in seen, entry'[CalcTypeId(r.type, r.inst)] = entry[CalcTypeId(r.type, r.inst)],
             entry[CalcTypeId(r.type, r.inst)].fd = f => f \in reused
      PROVE  EntryOf(r, entry[CalcTypeId(r.type, r.inst)])'
  <2>1. EntryOf(r, entry[CalcTypeId(r.type, r.inst)])
    BY DEF Entries
  <2>2. home'[r] = IF home[r] = f THEN 0 ELSE home[r]
    BY <1>1, <1>2
  <2> QED BY <1>4, <2>1, <2>2 DEF EntryOf, CalcTypeId
<1>5. CASE \E k \in Keys : entry[k].fd = f
  <2>1. PICK k \in Keys : entry[k].fd = f /\ entry' = [entry EXCEPT ![k].fd = 0]
    BY <1>5 DEF Leave, LogoutInstance
  <2>2. PICK s \in seen : k \in {CalcTypeId(s.type, s.inst), CalcTypeId(s.type, 0)}
    <3>1. entry[k] # NoEntry
      BY <1>1, <2>1 DEF NoEntry
    <3> QED BY <3>1 DEF Entries
  <2>3. k = CalcTypeId(s.type, s.inst) /\ EntryOf(s, entry[k])
    <3>0. entry[CalcTypeId(s.type, 0)] = [fd |-> 0, inst_id |-> 0, info |-> s.type]
      BY DEF Entries
    <3>1. EntryOf(s, entry[CalcTypeId(s.type, s.inst)])
      BY Zenon DEF Entries
    <3>3. entry[CalcTypeId(s.type, 0)].fd = 0
      BY <3>0
    <3>2. k # CalcTypeId(s.type, 0)
      BY <1>1, <2>1, <3>3
    <3> QED BY <2>2, <3>1, <3>2
  <2>4. home'[s] = 0
    BY <1>1, <1>2, <2>1, <2>3 DEF EntryOf
  <2>5. /\ entry'[k] = [fd |-> 0, inst_id |-> s.inst, info |-> s.type]
        /\ \A j \in Keys : j # k => entry'[j] = entry[j]
    BY <2>1, <2>3 DEF TypeOK, EntryOf
  <2>6. ASSUME NEW r \in seen'
        PROVE  EntryOf(r, entry[CalcTypeId(r.type, r.inst)])'
    <3>1. CASE r = s
      BY <2>3, <2>4, <2>5, <3>1 DEF EntryOf, CalcTypeId
    <3>2. CASE r # s
      <4>1. CalcTypeId(r.type, r.inst) # k /\ r \in seen
        BY <1>2, <2>3, <3>2, KeysApart
      <4>2. entry'[CalcTypeId(r.type, r.inst)] = entry[CalcTypeId(r.type, r.inst)]
        BY <1>2, <2>5, <4>1
      <4>3. entry[CalcTypeId(r.type, r.inst)].fd = f => f \in reused
        BY <1>3, <2>1, <2>3, <3>2, <4>1
      <4> QED BY <1>4, <4>1, <4>2, <4>3
    <3> QED BY <3>1, <3>2
  <2>7. ASSUME NEW r \in seen'
        PROVE  entry'[CalcTypeId(r.type, 0)] =
                 [fd |-> 0, inst_id |-> 0, info |-> r.type]
    <3>1. CalcTypeId(r.type, 0) # k /\ r \in seen
      BY <1>2, <2>3, KeysApart
    <3>2. entry'[CalcTypeId(r.type, 0)] = entry[CalcTypeId(r.type, 0)]
      BY <1>2, <2>5, <3>1
    <3> QED BY <3>1, <3>2 DEF Entries
  <2>8. ASSUME NEW j \in Keys, entry'[j] # NoEntry
        PROVE  \E r \in seen' : j \in {CalcTypeId(r.type, r.inst), CalcTypeId(r.type, 0)}
    <3>1. CASE j = k
      BY <2>2, <3>1
    <3>2. CASE j # k
      BY <2>5, <2>8, <3>2 DEF Entries
    <3> QED BY <3>1, <3>2
  <2> QED BY <2>6, <2>7, <2>8 DEF Entries, CalcTypeId, NoEntry
<1>6. CASE ~\E k \in Keys : entry[k].fd = f
  <2>1. entry' = entry
    BY <1>6 DEF Leave, LogoutInstance
  <2>2. ASSUME NEW r \in seen
        PROVE  EntryOf(r, entry[CalcTypeId(r.type, r.inst)])'
    BY <1>2, <1>4, <1>6, <2>1
  <2> QED BY <2>1, <2>2 DEF Entries, CalcTypeId, NoEntry
<1> QED BY <1>5, <1>6

(* Whom a frame is sent to depends only on the tables.                      *)
LEMMA RouteKept ==
  ASSUME UNCHANGED << entry, info, conn, transfer_fd, tconn >>
  PROVE  \A frame : Route(frame)' = Route(frame)
BY DEF Route, ForwardPkg, GetFdByTypeId, RouterPolicy, ForwarPkgToTransfer

(* The invariant holds at the start.                                        *)
LEMMA InitRouterInv == Init => RouterInv
<1> SUFFICES ASSUME Init PROVE RouterInv
  OBVIOUS
<1>1. TypeOK
  BY InitTypes
<1>2. History
  BY FS_EmptySet DEF Init, History, NoStray
<1>3. Entries
  BY DEF Init, Entries
<1>4. Containers
  BY DEF Init, Containers
<1>5. Links
  BY DEF Init, Links
<1>6. SentNow
  BY DEF Init, SentNow
<1> QED BY <1>1, <1>2, <1>3, <1>4, <1>5, <1>6 DEF RouterInv

(* Every step keeps the invariant.                                          *)
LEMMA StepRouterInv == RouterInv /\ [Next]_vars => RouterInv'
<1> SUFFICES ASSUME RouterInv, [Next]_vars PROVE RouterInv'
  OBVIOUS
<1>0. /\ TypeOK /\ History /\ Links /\ SentNow
      /\ ~Aliased => Entries /\ Containers
  BY DEF RouterInv
<1>00. TypeOK'
  BY <1>0, StepTypes
<1>1. ASSUME NEW s \in Servers, NEW f \in Fds, Connect(s, f) PROVE RouterInv'
  <2>1. History' /\ (~Aliased' => Entries')
    <3>1. CASE conn[f] = Nobody
      <4>1. ASSUME NEW r \in Servers, home[r] # 0
            PROVE  r \in seen /\ (home[r] \in reused \/ conn'[home[r]] = r)
        <5>1. r \in seen /\ (home[r] \in reused \/ conn[home[r]] = r) /\ r # Nobody
          BY <1>0, <4>1, ServerParts DEF History
        <5>2. home[r] \in reused \/ home[r] # f
          BY <3>1, <5>1
        <5> QED BY <1>0, <1>1, <3>1, <4>1, <5>1, <5>2 DEF Connect, TypeOK
      <4> QED BY <1>0, <1>1, <3>1, <4>1 DEF Connect, History, Aliased, Entries, EntryOf
    <3>2. CASE conn[f] # Nobody
      <4>1. PICK n \in 1..MaxStrays :
              /\ stray' = [stray EXCEPT ![n] = [fd |-> f, server |-> s]]
              /\ reused' = reused \cup {f}
        BY <1>1, <3>2 DEF Connect
      <4>2. \A m \in 1..MaxStrays : stray'[m].fd # 0 => stray'[m].fd \in reused'
        BY <1>0, <4>1 DEF History, TypeOK
      <4>3. UNCHANGED << conn, home, seen, entry >>
        BY <1>1, <3>2 DEF Connect
      <4>4. History'
        BY <1>0, <4>1, <4>2, <4>3 DEF History
      <4>5. ~Aliased' => Entries'
        BY <1>0, <4>1, <4>3 DEF Aliased, Entries, EntryOf
      <4> QED BY <4>4, <4>5
    <3> QED BY <3>1, <3>2
  <2>2. ~Aliased' => Containers'
    BY <1>0, <1>1 DEF Connect, Aliased, Containers
  <2>3. Links' /\ SentNow'
    BY <1>0, <1>1 DEF Connect, Links, SentNow, Quiet, NoFrame, transferVars
  <2> QED BY <1>00, <2>1, <2>2, <2>3 DEF RouterInv
<1>2. ASSUME NEW s \in Servers, NEW f \in Fds, Register(s, f) PROVE RouterInv'
  <2>1. History'
    BY <1>0, <1>2, RegisterHistory
  <2>2. ~Aliased' => Entries' /\ Containers'
    BY <1>0, <1>2, RegisterTables
  <2>3. Links' /\ SentNow'
    BY <1>0, <1>2 DEF Register, Links, SentNow, Quiet, NoFrame, transferVars
  <2> QED BY <1>00, <2>1, <2>2, <2>3 DEF RouterInv
<1>3. ASSUME NEW f \in Fds, Disconnect(f) PROVE RouterInv'
  <2>1. Leave(f) /\ UNCHANGED << stray, reused, seen, policy_list, repoliced, info >>
    BY <1>3 DEF Disconnect, Leave, LogoutInstance
  <2>2. History'
    BY <1>0, <2>1, LeaveHistory
  <2>3. ASSUME ~Aliased' PROVE Entries' /\ Containers'
    <3>1. ~Aliased
      BY <2>1, <2>3 DEF Aliased
    <3> QED BY <1>0, <2>1, <3>1, LeaveTables DEF Containers
  <2>4. Links' /\ SentNow'
    BY <1>0, <1>3 DEF Disconnect, Links, SentNow, Quiet, NoFrame, transferVars
  <2> QED BY <1>00, <2>2, <2>3, <2>4 DEF RouterInv
<1>31. ASSUME NEW n \in 1..MaxStrays, StrayOut(n) PROVE RouterInv'
  <2>0. PICK f \in Fds : f = stray[n].fd
    BY <1>0, <1>31 DEF StrayOut, TypeOK
  <2>1. UNCHANGED << reused, seen, policy_list, repoliced, info >>
    BY <1>31 DEF StrayOut, Leave, LogoutInstance
  <2>2. History' /\ (~Aliased' => Entries')
    <3>1. CASE conn[f] = Nobody
      <4>1. UNCHANGED << conn, home, entry >> /\ stray' = [stray EXCEPT ![n] = NoStray]
        BY <1>31, <2>0, <3>1 DEF StrayOut
      <4>2. \A m \in 1..MaxStrays : stray'[m].fd # 0 => stray'[m].fd \in reused'
        BY <1>0, <2>1, <4>1 DEF History, TypeOK, NoStray
      <4>3. History'
        BY <1>0, <2>1, <4>1, <4>2 DEF History
      <4>4. ~Aliased' => Entries'
        BY <1>0, <2>1, <4>1 DEF Aliased, Entries, EntryOf
      <4> QED BY <4>3, <4>4
    <3>2. CASE conn[f] # Nobody
      <4>1. Leave(f) /\ stray' = [stray EXCEPT ![n].server = conn[f]]
        BY <1>31, <2>0, <3>2 DEF StrayOut
      <4>2. \A m \in 1..MaxStrays : stray'[m].fd = stray[m].fd
        BY <1>0, <4>1 DEF TypeOK
      <4>3. History'
        BY <1>0, <2>1, <4>1, <4>2, LeaveHistory
      <4>4. ASSUME ~Aliased' PROVE Entries'
        <5>1. ~Aliased
          BY <2>1, <4>4 DEF Aliased
        <5> QED BY <1>0, <2>1, <4>1, <5>1, LeaveTables
      <4> QED BY <4>3, <4>4
    <3> QED BY <3>1, <3>2
  <2>3. ~Aliased' => Containers'
    BY <1>0, <2>1 DEF Aliased, Containers
  <2>4. Links' /\ SentNow'
    BY <1>0, <1>31 DEF StrayOut, Links, SentNow, Quiet, NoFrame, transferVars
  <2> QED BY <1>00, <2>2, <2>3, <2>4 DEF RouterInv
<1>4. ASSUME NEW config \in Configs, Reload(config) PROVE RouterInv'
  <2>1. History'
    BY <1>0, <1>4 DEF Reload, History
  <2>2. ASSUME ~Aliased' PROVE Entries' /\ Containers'
    <3>1. Entries /\ Containers
      BY <1>0, <1>4, <2>2 DEF Reload, Aliased
    <3>2. Entries'
      BY <1>4, <3>1 DEF Reload, Entries, EntryOf
    <3>3. ASSUME NEW s \in seen, s.type \notin repoliced'
          PROVE  info[s.type].policy = config[s.type]
      <4>1. s.type \in Types
        BY <1>0, ServerParts DEF History
      <4>2. s.type \notin repoliced /\ (info[s.type].policy # "none" => config[s.type] = policy_list[s.type])
        BY <1>4, <3>3, <4>1 DEF Reload
      <4> QED BY <3>1, <4>2 DEF Containers
    <3>4. Containers'
      BY <1>4, <3>1, <3>3 DEF Reload, Containers
    <3> QED BY <3>2, <3>4
  <2>3. Links' /\ SentNow'
    BY <1>0, <1>4 DEF Reload, Links, SentNow, Quiet, NoFrame, transferVars
  <2> QED BY <1>00, <2>1, <2>2, <2>3 DEF RouterInv
<1>5. ASSUME UNCHANGED tableVars PROVE History' /\ (~Aliased' => Entries' /\ Containers')
  BY <1>0, <1>5 DEF tableVars, History, Aliased, Entries, EntryOf, Containers
<1>6. ASSUME NEW x \in 1..Transfers, NEW f \in TFds, TransferIn(x, f) PROVE RouterInv'
  <2>1. Links'
    <3>1. ASSUME NEW y \in 1..Transfers, y \notin broken, transfer_fd[y] # 0
          PROVE  tconn'[transfer_fd[y]] = y
      <4>1. tconn[transfer_fd[y]] = y /\ y # 0
        BY <1>0, <3>1, ConfigAssumption DEF Links
      <4>2. transfer_fd[y] # f
        BY <1>6, <4>1 DEF TransferIn
      <4> QED BY <1>0, <1>6, <3>1, <4>1, <4>2 DEF TransferIn, TypeOK
    <3> QED BY <1>6, <3>1 DEF TransferIn, Links
  <2>2. SentNow' /\ UNCHANGED tableVars
    BY <1>6 DEF TransferIn, SentNow, Quiet, NoFrame
  <2> QED BY <1>00, <1>5, <2>1, <2>2 DEF RouterInv
<1>7. ASSUME NEW f \in TFds, TransferRegistered(f) PROVE RouterInv'
  <2>1. Links'
    <3>1. PICK x \in 1..Transfers : x = tconn[f]
      BY <1>0, <1>7, ConfigAssumption DEF TransferRegistered, TypeOK
    <3>2. /\ transfer_fd' = [transfer_fd EXCEPT ![x] = f] /\ broken' = broken \ {x}
          /\ tconn' = tconn
      BY <1>7, <3>1 DEF TransferRegistered, LoginTransfer
    <3> QED BY <1>0, <3>1, <3>2 DEF Links, TypeOK
  <2>2. SentNow' /\ UNCHANGED tableVars
    BY <1>7 DEF TransferRegistered, SentNow, Quiet, NoFrame
  <2> QED BY <1>00, <1>5, <2>1, <2>2 DEF RouterInv
<1>8. ASSUME NEW f \in TFds, TransferOut(f) PROVE RouterInv'
  <2>1. Links'
    BY <1>0, <1>8 DEF TransferOut, Links, TypeOK
  <2>2. SentNow' /\ UNCHANGED tableVars
    BY <1>8 DEF TransferOut, SentNow, Quiet, NoFrame
  <2> QED BY <1>00, <1>5, <2>1, <2>2 DEF RouterInv
<1>9. ASSUME NEW frame \in Frames, OnProc(frame) PROVE RouterInv'
  <2>1. UNCHANGED tableVars /\ UNCHANGED transferVars
    BY <1>9 DEF OnProc
  <2>2. Links'
    BY <1>0, <2>1 DEF Links, transferVars
  <2>3. SentNow'
    <3>1. sent'.frame = frame /\ sent'.over = Route(frame)
      BY <1>9 DEF OnProc
    <3>2. Route(frame)' = Route(frame)
      BY <2>1, RouteKept DEF tableVars, transferVars
    <3> QED BY <3>1, <3>2 DEF SentNow
  <2> QED BY <1>00, <1>5, <2>1, <2>2, <2>3 DEF RouterInv
<1>10. CASE UNCHANGED vars
  <2>1. UNCHANGED tableVars /\ UNCHANGED transferVars /\ sent' = sent
    BY <1>10 DEF vars
  <2>2. Links'
    BY <1>0, <2>1 DEF Links, transferVars
  <2>3. SentNow'
    <3>1. \A frame : Route(frame)' = Route(frame)
      BY <2>1, RouteKept DEF tableVars, transferVars
    <3> QED BY <1>0, <2>1, <3>1 DEF SentNow, Quiet, NoFrame
  <2> QED BY <1>00, <1>5, <2>1, <2>2, <2>3 DEF RouterInv
<1> QED BY <1>1, <1>2, <1>3, <1>31, <1>4, <1>6, <1>7, <1>8, <1>9, <1>10 DEF Next

-----------------------------------------------------------------------------
(* The instances of a type that have registered.                            *)
Registered(t) == {s.inst : s \in {x \in seen : x.type = t}}

(* Their ids fit, and there are finitely many.                              *)
LEMMA RegisteredIds ==
  ASSUME RouterInv, ~Aliased, NEW t \in Types
  PROVE  /\ Registered(t) \in SUBSET Nat /\ IsFiniteSet(Registered(t))
         /\ \A i \in Registered(t) :
              i < IdWidth /\ [type |-> t, inst |-> i] \in seen
<1> DEFINE S == {x \in seen : x.type = t}
           f == [s \in S |-> s.inst]
<1>1. seen \subseteq Servers /\ IsFiniteSet(seen)
  BY DEF RouterInv, History
<1>2. IsFiniteSet(S)
  BY <1>1, FS_Subset
<1>3. f \in Surjection(S, Registered(t))
  BY DEF Surjection, Registered
<1>4. IsFiniteSet(Registered(t))
  <2> HIDE DEF f, S
  <2> QED BY <1>2, <1>3, FS_Surjection
<1>5. ASSUME NEW i \in Registered(t)
      PROVE  i \in Nat /\ i < IdWidth /\ [type |-> t, inst |-> i] \in seen
  <2>1. PICK s \in seen : s.type = t /\ i = s.inst
    BY DEF Registered
  <2>2. s = [type |-> t, inst |-> i] /\ i \in Nat
    BY <1>1, <2>1, ServerParts
  <2>3. i < IdWidth
    BY <2>1, <2>2, ConfigAssumption DEF Aliased
  <2> QED BY <2>2, <2>3
<1> QED BY <1>4, <1>5

(* GetFdByTypeId finds the connection an instance is at home on, or one     *)
(* that was announced twice.                                                *)
LEMMA Lookup ==
  ASSUME RouterInv, ~Aliased, NEW t \in Types, NEW i \in Nat, i < IdWidth
  PROVE  LET s == [type |-> t, inst |-> i]
         IN /\ GetFdByTypeId(t, i) \notin reused \cup {0} =>
                 conn[GetFdByTypeId(t, i)] = s
            /\ s \in Online(t) => /\ GetFdByTypeId(t, i) = home[s]
                                  /\ home[s] # 0 /\ conn[home[s]] = s
<1> DEFINE s == [type |-> t, inst |-> i]
           fd == GetFdByTypeId(t, i)
<1>1. TypeOK /\ History /\ Entries
  BY DEF RouterInv
<1>2. t \in Nat
  BY ServerParts
<1>3. ASSUME fd \notin reused \cup {0} PROVE conn[fd] = s
  <2>1. CalcTypeId(t, i) \in Keys /\ fd = entry[CalcTypeId(t, i)].fd
    BY <1>3 DEF GetFdByTypeId
  <2>2. entry[CalcTypeId(t, i)] # NoEntry
    BY <1>3, <2>1 DEF NoEntry
  <2>3. PICK r \in seen : CalcTypeId(t, i) \in {CalcTypeId(r.type, r.inst), CalcTypeId(r.type, 0)}
    BY <1>1, <2>1, <2>2 DEF Entries
  <2>4. /\ EntryOf(r, entry[CalcTypeId(r.type, r.inst)])
        /\ entry[CalcTypeId(r.type, 0)] =
             [fd |-> 0, inst_id |-> 0, info |-> r.type]
    BY <1>1 DEF Entries
  <2>5. CalcTypeId(t, i) = CalcTypeId(r.type, r.inst) /\ fd = home[r]
    BY <1>3, <2>1, <2>3, <2>4 DEF EntryOf
  <2>6. r \in Servers /\ r.type \in Nat /\ r.inst \in Nat
    BY <1>1, ServerAssumption DEF History
  <2>7. r.inst < IdWidth
    BY <2>6, ConfigAssumption DEF Aliased
  <2>8. r = s
    BY <1>2, <2>5, <2>6, <2>7, KeyInjective, ServerParts
  <2>9. conn[home[r]] = r
    BY <1>1, <1>3, <2>5, <2>6 DEF History
  <2> HIDE DEF s, fd
  <2> QED BY <2>5, <2>8, <2>9
<1>4. ASSUME s \in Online(t) PROVE fd = home[s] /\ home[s] # 0 /\ conn[home[s]] = s
  <2>1. s \in Servers /\ home[s] # 0 /\ home[s] \notin reused
    BY <1>4 DEF Online
  <2>2. s \in seen /\ conn[home[s]] = s
    BY <1>1, <2>1 DEF History
  <2>3. EntryOf(s, entry[CalcTypeId(s.type, s.inst)])
    BY <1>1, <2>2 DEF Entries
  <2>4. CalcTypeId(t, i) \in Keys
    BY <2>1, ServerParts
  <2> QED BY <2>1, <2>2, <2>3, <2>4 DEF GetFdByTypeId, EntryOf
<1> HIDE DEF fd
<1>5. /\ fd \notin reused \cup {0} => conn[fd] = s
      /\ s \in Online(t) => fd = home[s] /\ home[s] # 0 /\ conn[home[s]] = s
  BY <1>3, <1>4
<1> QED BY <1>5 DEF fd

(* ForwardPkg finds the connection of each instance of the type that is at  *)
(* home, and for the others none that was announced once only.              *)
LEMMA ForwardExact ==
  ASSUME RouterInv, ~Aliased, NEW t \in Types, NEW I \in SUBSET Nat,
         \A i \in I : i < IdWidth
  PROVE  LET over == ForwardPkg(t, I)
         IN /\ DOMAIN over \subseteq I
            /\ \A i \in DOMAIN over : over[i] \notin reused =>
                 conn[over[i]] = [type |-> t, inst |-> i]
            /\ \A s \in Online(t) : s.inst \in I =>
                 s.inst \in DOMAIN over /\ over[s.inst] = home[s] /\ conn[home[s]] = s
<1>1. PICK D : D = {j \in I : LET f == GetFdByTypeId(t, j) IN f # 0 /\ conn[f] # Nobody}
  OBVIOUS
<1>2. PICK over : over = [i \in D |-> GetFdByTypeId(t, i)]
  OBVIOUS
<1>3. over = ForwardPkg(t, I)
  BY <1>1, <1>2 DEF ForwardPkg
<1>4. DOMAIN over = D /\ D \subseteq I
  BY <1>1, <1>2
<1>5. ASSUME NEW i \in D, over[i] \notin reused PROVE conn[over[i]] = [type |-> t, inst |-> i]
  <2>1. over[i] = GetFdByTypeId(t, i) /\ over[i] # 0 /\ i \in Nat /\ i < IdWidth
    BY <1>1, <1>2, <1>4
  <2> QED BY <1>5, <2>1, Lookup
<1>6. ASSUME NEW s \in Online(t), s.inst \in I
      PROVE  s.inst \in D /\ over[s.inst] = home[s] /\ conn[home[s]] = s
  <2>1. s = [type |-> t, inst |-> s.inst] /\ s # Nobody
    BY ServerParts DEF Online
  <2>2. GetFdByTypeId(t, s.inst) = home[s] /\ home[s] # 0 /\ conn[home[s]] = s
    BY <1>6, <2>1, Lookup
  <2> QED BY <1>1, <1>2, <1>6, <2>1, <2>2
<1> QED BY <1>3, <1>4, <1>5, <1>6

(* What RouterPolicy chooses from the instances that have registered.       *)
LEMMA PolicyChoice ==
  ASSUME RouterInv, ~Aliased, NEW frame, frame.type \in Types, frame.uid \in Nat
  PROVE  LET all == Registered(frame.type)
             policy == info[frame.type].policy
         IN IF all = {} \/ frame.broadcast \/ policy = "BROADCAST"
              THEN RouterPolicy(frame) = all
              ELSE IF policy \in {"RANDOM", "MOD"}
                THEN \E i \in all :
                       /\ RouterPolicy(frame) = {i}
                       /\ policy = "RANDOM" => \A j \in all : i <= j
                ELSE RouterPolicy(frame) = {}
<1>1. PICK t \in Types : t = frame.type
  OBVIOUS
<1>2. PICK all : all = Registered(t)
  OBVIOUS
<1>3. PICK u \in Nat : u = frame.uid
  OBVIOUS
<1>4. TypeOK /\ History /\ Entries /\ Containers
  BY DEF RouterInv
<1>5. info[t].inst_set = all
  BY <1>2, <1>4 DEF Containers, Registered
<1>6. all \in SUBSET Nat /\ IsFiniteSet(all)
  BY <1>2, RegisteredIds
<1>7. CASE all = {}
  <2>1. entry[CalcTypeId(t, 0)] = NoEntry \/ info[entry[CalcTypeId(t, 0)].info].inst_set = {}
    <3>1. ASSUME entry[CalcTypeId(t, 0)] # NoEntry PROVE FALSE
      <4>1. PICK r \in seen : CalcTypeId(t, 0) \in {CalcTypeId(r.type, r.inst), CalcTypeId(r.type, 0)}
        BY <1>4, <3>1, ServerParts DEF Entries
      <4>2. r \in Servers /\ r.type \in Types /\ r.inst \in Nat /\ r.inst # 0
        BY <1>4, ServerParts DEF History
      <4>3. r.inst < IdWidth
        BY <4>2, ConfigAssumption DEF Aliased
      <4>4. r.type = t
        BY <4>1, <4>2, <4>3, KeysApart
      <4> QED BY <1>2, <1>7, <4>4 DEF Registered
    <3> QED BY <3>1
  <2>2. RouterPolicy(frame) = {}
    BY <1>1, <2>1 DEF RouterPolicy
  <2> QED BY <1>1, <1>2, <1>7, <2>2
<1>8. CASE all # {}
  <2>1. PICK r \in seen : r.type = t
    BY <1>2, <1>8 DEF Registered
  <2>2. entry[CalcTypeId(t, 0)] = [fd |-> 0, inst_id |-> 0, info |-> t] /\ t # 0
    BY <1>4, <2>1, ServerParts DEF Entries
  <2>3. entry[CalcTypeId(t, 0)] # NoEntry /\ entry[CalcTypeId(t, 0)].info = t
    BY <2>2 DEF NoEntry
  <2>4. PICK p : p = info[t].policy
    OBVIOUS
  <2>5. RouterPolicy(frame) =
          IF frame.broadcast \/ p = "BROADCAST" THEN all
          ELSE CASE p = "RANDOM" -> {Nth(all, 0)}
                 [] p = "MOD" -> Mod(all, u)
                 [] OTHER -> {}
    BY <1>1, <1>3, <1>5, <1>8, <2>3, <2>4 DEF RouterPolicy
  <2>6. Cardinality(all) \in Nat /\ Cardinality(all) > 0
    <3>1. Cardinality(all) \in Nat
      BY <1>6, FS_CardinalityType
    <3>2. Cardinality(all) # 0
      BY <1>6, <1>8, FS_EmptySet
    <3> QED BY <3>1, <3>2
  <2>7. Nth(all, 0) \in all /\ \A j \in all : Nth(all, 0) <= j
    BY <1>6, <1>8, FirstIsSmallest
  <2>8. \E i \in all : Mod(all, u) = {i}
    <3>1. u % Cardinality(all) \in Nat /\ u % Cardinality(all) < Cardinality(all)
      BY <2>6
    <3>2. Nth(all, u % Cardinality(all)) \in all
      BY <1>6, <3>1, NthExists
    <3> QED BY <3>2 DEF Mod
  <2>9. IF frame.broadcast \/ p = "BROADCAST"
          THEN RouterPolicy(frame) = all
          ELSE IF p \in {"RANDOM", "MOD"}
            THEN \E i \in all : /\ RouterPolicy(frame) = {i}
                                /\ p = "RANDOM" => \A j \in all : i <= j
            ELSE RouterPolicy(frame) = {}
    BY <2>5, <2>7, <2>8
  <2> QED BY <1>1, <1>2, <1>8, <2>4, <2>9
<1> QED BY <1>7, <1>8

(* The fields of the frames that are passed on.                             *)
LEMMA FrameParts ==
  /\ \A frame \in Frames : frame.own_zone =>
       /\ frame.type \in Types /\ frame.inst \in Nat
       /\ frame.uid \in Nat
  /\ \A frame \in Frames : ~frame.own_zone => frame.uid \in Nat
<1>1. Uids \subseteq Nat /\ Ids \subseteq Nat /\ {0} \subseteq Nat
  BY FdAssumption, ServerParts
<1>2. ASSUME NEW frame \in
        [own_zone : {TRUE}, type : Types, inst : Ids, uid : {0}, broadcast : {FALSE}]
      PROVE  frame.type \in Types /\ frame.inst \in Nat /\ frame.uid \in Nat
  <2>1. frame.type \in Types /\ frame.inst \in Ids /\ frame.uid \in {0}
    OBVIOUS
  <2> QED BY <1>1, <2>1, Zenon
<1>3. ASSUME NEW frame \in
        [own_zone : {TRUE}, type : Types, inst : {0}, uid : Uids, broadcast : BOOLEAN]
      PROVE  frame.type \in Types /\ frame.inst \in Nat /\ frame.uid \in Nat
  <2>1. frame.type \in Types /\ frame.inst \in {0} /\ frame.uid \in Uids
    OBVIOUS
  <2> QED BY <1>1, <2>1, Zenon
<1>4. ASSUME NEW frame \in
        [own_zone : {FALSE}, type : {0}, inst : {0}, uid : Uids, broadcast : {FALSE}]
      PROVE  frame.own_zone = FALSE /\ frame.uid \in Nat
  BY <1>1
<1> QED BY <1>2, <1>3, <1>4, Zenon DEF Frames

(* Where the router thinks the last frame goes: the ids it looks up.        *)
Targets == IF Frame.inst # 0 THEN {Frame.inst} ELSE RouterPolicy(Frame)

(* A frame of the zone is sent over the connections of the targets that are *)
(* at home.                                                                 *)
LEMMA SentExact ==
  ASSUME RouterInv, ForZone
  PROVE  /\ Frame.type \in Types /\ Frame.inst \in Nat
         /\ Frame.uid \in Nat
         /\ DOMAIN sent.over \subseteq Targets
         /\ \A i \in DOMAIN sent.over : sent.over[i] \notin reused =>
              conn[sent.over[i]] = [type |-> Frame.type, inst |-> i]
         /\ \A s \in Online(Frame.type) : s.inst \in Targets =>
              Addressed(s) /\ conn[home[s]] = s
<1>1. PICK frame \in Frames : sent.frame = frame /\ sent.over = Route(frame)
  BY DEF RouterInv, SentNow, ForZone, Forwarded, Quiet
<1>2. /\ Frame = frame /\ sent.over = Route(frame) /\ frame.own_zone
      /\ frame.inst < IdWidth /\ ~Aliased
  BY <1>1 DEF ForZone, Frame
<1>3. /\ frame.type \in Types /\ frame.inst \in Nat
      /\ frame.uid \in Nat
  BY <1>2, FrameParts
<1>4. PICK t \in Types : t = frame.type
  BY <1>3
<1>5. PICK I : I = Targets
  OBVIOUS
<1>6. I \in SUBSET Nat /\ \A i \in I : i < IdWidth
  <2>1. CASE frame.inst = 0
    <3>1. I = RouterPolicy(frame)
      BY <1>2, <1>5, <2>1 DEF Targets
    <3>2. RouterPolicy(frame) \subseteq Registered(t)
      BY <1>2, <1>3, <1>4, PolicyChoice
    <3>3. /\ Registered(t) \in SUBSET Nat
          /\ \A i \in Registered(t) : i < IdWidth
      BY <1>2, RegisteredIds
    <3> QED BY <3>1, <3>2, <3>3
  <2>2. CASE frame.inst # 0
    <3>1. I = {frame.inst}
      BY <1>2, <1>5, <2>2 DEF Targets
    <3> QED BY <1>2, <1>3, <3>1
  <2> QED BY <2>1, <2>2
<1>7. sent.over = ForwardPkg(t, I)
  BY <1>2, <1>4, <1>5 DEF Route, Targets
<1>8. PICK over : over = sent.over
  OBVIOUS
<1>9. /\ DOMAIN over \subseteq I
      /\ \A i \in DOMAIN over : over[i] \notin reused =>
           conn[over[i]] = [type |-> t, inst |-> i]
      /\ \A s \in Online(t) : s.inst \in I =>
           s.inst \in DOMAIN over /\ over[s.inst] = home[s] /\ conn[home[s]] = s
  BY <1>2, <1>6, <1>7, <1>8, ForwardExact
<1> QED BY <1>2, <1>3, <1>4, <1>5, <1>8, <1>9 DEF Addressed

(* Frames go to the right server.                                           *)
LEMMA RightServerHolds == RouterInv => RightServer
<1> SUFFICES ASSUME RouterInv, ForZone, NEW k \in DOMAIN sent.over,
                    sent.over[k] \notin reused
             PROVE  /\ conn[sent.over[k]] = [type |-> Frame.type, inst |-> k]
                    /\ Frame.inst \in {0, k}
  BY DEF RightServer
<1>1. /\ k \in Targets
      /\ conn[sent.over[k]] = [type |-> Frame.type, inst |-> k]
  BY SentExact
<1> QED BY <1>1 DEF Targets

(* Frames for an instance, and broadcasts, reach whom they are for.         *)
LEMMA ReachesHolds == RouterInv => Reaches
<1> SUFFICES ASSUME RouterInv, ForZone, Frame.inst # 0 \/ Frame.broadcast,
                    NEW s \in Online(Frame.type), Frame.inst \in {0, s.inst}
             PROVE  Addressed(s) /\ (s.inst \in sent.full \/ Received(s))
  BY DEF Reaches
<1>1. /\ Frame.type \in Types /\ Frame.uid \in Nat
      /\ s.inst \in Targets => Addressed(s) /\ conn[home[s]] = s
  BY SentExact
<1>2. s.inst \in Targets
  <2>1. CASE Frame.inst # 0
    BY <2>1 DEF Targets
  <2>2. CASE Frame.inst = 0
    <3>1. Targets = Registered(Frame.type)
      <4>1. RouterPolicy(Frame) = Registered(Frame.type)
        BY <1>1, <2>2, PolicyChoice DEF ForZone
      <4> QED BY <2>2, <4>1 DEF Targets
    <3>2. s \in seen /\ s.type = Frame.type
      BY DEF Online, RouterInv, History
    <3> QED BY <3>1, <3>2 DEF Registered
  <2> QED BY <2>1, <2>2
<1> QED BY <1>1, <1>2 DEF Addressed, Received

(* Other frames go where the policy says.                                   *)
LEMMA ByPolicyHolds == RouterInv => ByPolicy
<1> SUFFICES ASSUME RouterInv, ForZone, Frame.inst = 0, ~Frame.broadcast,
                    Frame.type \notin repoliced
             PROVE  ByPolicy
  BY DEF ByPolicy
<1> DEFINE known == {s \in seen : s.type = Frame.type}
           first == {s \in known : \A r \in known : s.inst <= r.inst}
           policy == policy_list[Frame.type]
           all == Registered(Frame.type)
<1>1. /\ Frame.type \in Types /\ Frame.uid \in Nat
      /\ DOMAIN sent.over \subseteq Targets
      /\ \A s \in Online(Frame.type) : s.inst \in Targets => Addressed(s)
  BY SentExact
<1>2. Targets = RouterPolicy(Frame) /\ ~Aliased
  BY DEF Targets, ForZone
<1>3. \A s \in Online(Frame.type) : s \in known
  BY DEF Online, RouterInv, History
<1>4. all # {} => info[Frame.type].policy = policy
  BY <1>2 DEF RouterInv, Containers, Registered
<1>5. all = {s.inst : s \in known}
  BY DEF Registered
<1>6. ASSUME policy = "RANDOM"
      PROVE  /\ DOMAIN sent.over \subseteq {s.inst : s \in first}
             /\ \A s \in first \cap Online(Frame.type) : Addressed(s)
  <2>1. CASE all = {}
    <3>1. Targets = {} /\ known = {}
      BY <1>1, <1>2, <1>5, <2>1, PolicyChoice
    <3> QED BY <1>1, <3>1
  <2>2. CASE all # {}
    <3>1. PICK i \in all : Targets = {i} /\ \A j \in all : i <= j
      BY <1>1, <1>2, <1>4, <1>6, <2>2, PolicyChoice
    <3>2. PICK q \in known : q.inst = i
      BY <1>5
    <3>3. q \in first
      BY <1>5, <3>1, <3>2
    <3>4. \A s \in first : s.inst = i
      <4>1. \A s \in known : s.inst \in Nat
        BY ServerParts DEF RouterInv, History
      <4>2. \A s \in known : i <= s.inst
        BY <1>5, <3>1
      <4>3. \A s \in first : s \in known /\ s.inst <= q.inst
        BY <3>2
      <4> HIDE DEF first, known
      <4> QED BY <3>2, <4>1, <4>2, <4>3
    <3> HIDE DEF first, known
    <3> QED BY <1>1, <3>1, <3>2, <3>3, <3>4
  <2> QED BY <2>1, <2>2
<1>7. ASSUME policy = "MOD"
      PROVE  /\ \A i, j \in DOMAIN sent.over : i = j
             /\ known # {} /\ known \subseteq Online(Frame.type)
                  => \E s \in known : Addressed(s)
  <2>1. CASE all = {}
    <3>1. Targets = {} /\ known = {}
      BY <1>1, <1>2, <1>5, <2>1, PolicyChoice
    <3> QED BY <1>1, <3>1
  <2>2. CASE all # {}
    <3>1. PICK i \in all : Targets = {i}
      BY <1>1, <1>2, <1>4, <1>7, <2>2, PolicyChoice
    <3>2. PICK q \in known : q.inst = i
      BY <1>5
    <3> HIDE DEF known
    <3> QED BY <1>1, <3>1, <3>2
  <2> QED BY <2>1, <2>2
<1>8. ASSUME policy = "BROADCAST" PROVE \A s \in Online(Frame.type) : Addressed(s)
  <2>1. Targets = all
    BY <1>1, <1>2, <1>4, <1>8, PolicyChoice
  <2> QED BY <1>1, <1>3, <1>5, <2>1
<1>9. ASSUME policy \notin {"RANDOM", "MOD", "BROADCAST"} PROVE DOMAIN sent.over = {}
  <2>1. Targets = {}
    BY <1>1, <1>2, <1>4, <1>9, PolicyChoice
  <2> QED BY <1>1, <2>1
<1> QED BY <1>6, <1>7, <1>8, <1>9 DEF ByPolicy

(* Frames for other zones go to the transfer of their user.                 *)
LEMMA TransferReachedHolds == RouterInv => TransferReached
<1> SUFFICES ASSUME RouterInv, Forwarded, ~Frame.own_zone,
                    Slot(Frame.uid) \notin broken
             PROVE  {tconn[sent.over[x]] : x \in DOMAIN sent.over} =
                      IF Transfers = 0 \/ transfer_fd[Slot(Frame.uid)] = 0
                        THEN {} ELSE {Slot(Frame.uid)}
  BY DEF TransferReached
<1>1. PICK frame \in Frames : sent.frame = frame /\ sent.over = Route(frame)
  BY DEF RouterInv, SentNow, Forwarded, Quiet
<1>2. Frame = frame /\ sent.over = ForwarPkgToTransfer(frame) /\ frame.uid \in Nat
  BY <1>1, FrameParts DEF Frame, Route
<1>3. PICK x : x = Slot(frame.uid)
  OBVIOUS
<1>4. ASSUME Transfers # 0 PROVE x \in 1..Transfers
  BY <1>2, <1>3, <1>4, ConfigAssumption DEF Slot
<1>5. CASE Transfers = 0 \/ transfer_fd[x] = 0
  <2>1. sent.over = << >>
    BY <1>2, <1>3, <1>5 DEF ForwarPkgToTransfer
  <2>2. DOMAIN sent.over = {}
    BY <2>1
  <2> QED BY <1>2, <1>3, <1>5, <2>2
<1>6. CASE Transfers # 0 /\ transfer_fd[x] # 0
  <2>1. tconn[transfer_fd[x]] = x /\ x # 0
    BY <1>2, <1>3, <1>4, <1>6, ConfigAssumption DEF RouterInv, Links
  <2>2. sent.over = [y \in {x} |-> transfer_fd[x]]
    BY <1>2, <1>3, <1>6, <2>1 DEF ForwarPkgToTransfer
  <2>3. {tconn[sent.over[y]] : y \in DOMAIN sent.over} = {x}
    BY <2>1, <2>2
  <2> QED BY <1>2, <1>3, <1>6, <2>3
<1> QED BY <1>5, <1>6

(* The entry of a type is there once an instance of it has registered.      *)
TypeEntries ==
  \A t \in Types :
    entry[CalcTypeId(t, 0)] =
      IF Registered(t) = {} THEN NoEntry
                            ELSE [fd |-> 0, inst_id |-> 0, info |-> t]

(* The invariant fixes the entries of the types.                            *)
LEMMA BaseEntry == RouterInv /\ ~Aliased => TypeEntries
<1> SUFFICES ASSUME RouterInv, ~Aliased, NEW t \in Types
             PROVE  entry[CalcTypeId(t, 0)] =
                      IF Registered(t) = {} THEN NoEntry
                        ELSE [fd |-> 0, inst_id |-> 0, info |-> t]
  BY DEF TypeEntries
<1>1. History /\ Entries
  BY DEF RouterInv
<1>2. ASSUME Registered(t) = {}, entry[CalcTypeId(t, 0)] # NoEntry PROVE FALSE
  <2>1. PICK r \in seen : CalcTypeId(t, 0) \in {CalcTypeId(r.type, r.inst), CalcTypeId(r.type, 0)}
    BY <1>1, <1>2, ServerParts DEF Entries
  <2>2. r \in Servers /\ r.type \in Types /\ r.inst \in Nat /\ r.inst # 0
    BY <1>1, ServerParts DEF History
  <2>3. r.inst < IdWidth
    BY <2>2, ConfigAssumption DEF Aliased
  <2>4. r.type = t
    BY <2>1, <2>2, <2>3, KeysApart
  <2> QED BY <1>2, <2>4 DEF Registered
<1>3. ASSUME Registered(t) # {}
      PROVE  entry[CalcTypeId(t, 0)] = [fd |-> 0, inst_id |-> 0, info |-> t]
  <2>1. PICK r \in seen : r.type = t
    BY <1>3 DEF Registered
  <2> QED BY <1>1, <2>1 DEF Entries
<1> QED BY <1>2, <1>3

(* No step changes the policy of a type, unless an instance registers for   *)
(* the first time.                                                          *)
LEMMA PolicyKept ==
  ASSUME RouterInv, [Next]_vars, ~Aliased, seen' = seen, NEW t \in Types
  PROVE  info'[t].policy = info[t].policy
<1>1. CASE info' = info
  BY <1>1
<1>2. ASSUME NEW s \in Servers, NEW f \in Fds, Register(s, f)
      PROVE  info'[t].policy = info[t].policy
  <2>1. TypeOK /\ History /\ Entries
    BY DEF RouterInv
  <2>2. s.inst # 0
    BY <1>2 DEF Register
  <2>3. LoginInstance(s, f) /\ s \in seen
    BY <1>2, <2>2 DEF Register
  <2>4. s.inst < IdWidth
    BY <2>3, ConfigAssumption, ServerAssumption DEF Aliased
  <2>5. info' = [info EXCEPT ![s.type] =
          [policy |-> IF \E r \in seen : r.type = s.type
                        THEN info[s.type].policy ELSE policy_list[s.type],
           inst_set |-> info[s.type].inst_set \cup
                          (IF s \in seen THEN {} ELSE {s.inst})]]
    BY <2>1, <2>2, <2>3, <2>4, LoginExact
  <2>6. info' = [info EXCEPT ![s.type] =
          [policy |-> info[s.type].policy, inst_set |-> info[s.type].inst_set \cup {}]]
    BY <2>3, <2>5
  <2> QED BY <2>1, <2>6 DEF TypeOK
<1>3. info' = info \/ \E s \in Servers, f \in Fds : Register(s, f)
  BY DEF Next, Connect, Disconnect, StrayOut, Leave, LogoutInstance, Reload,
         TransferIn, TransferRegistered, TransferOut, OnProc, vars, tableVars
<1> QED BY <1>1, <1>2, <1>3

(* A step with no first registration moves no user.                         *)
LEMMA PlacementKept ==
  ASSUME RouterInv, RouterInv', [Next]_vars, ~Aliased, seen' = seen,
         NEW t \in Types, NEW uid \in Uids
  PROVE  Placement(uid, t)' = Placement(uid, t)
<1>1. ~Aliased' /\ Registered(t)' = Registered(t)
  BY DEF Aliased, Registered
<1>2. entry'[CalcTypeId(t, 0)] = entry[CalcTypeId(t, 0)]
  <2>1. entry'[CalcTypeId(t, 0)] =
          IF Registered(t) = {} THEN NoEntry
                                ELSE [fd |-> 0, inst_id |-> 0, info |-> t]
    <3>1. RouterInv' /\ ~Aliased' => TypeEntries'
      BY BaseEntry, PTL
    <3> QED BY <1>1, <3>1 DEF TypeEntries, CalcTypeId, NoEntry
  <2> QED BY <2>1, BaseEntry DEF TypeEntries
<1>3. info'[t].inst_set = info[t].inst_set /\ info'[t].policy = info[t].policy
  <2>1. info[t].inst_set = Registered(t) /\ info'[t].inst_set = Registered(t)'
    BY <1>1 DEF RouterInv, Containers, Registered
  <2> QED BY <1>1, <2>1, PolicyKept
<1>4. PICK frame : frame = [own_zone |-> TRUE, type |-> t, inst |-> 0,
                            uid |-> uid, broadcast |-> FALSE]
  OBVIOUS
<1>5. frame.type = t
  BY <1>4
<1>6. RouterPolicy(frame)' = RouterPolicy(frame)
  <2>1. CASE entry[CalcTypeId(t, 0)] = NoEntry
    BY <1>2, <1>5, <2>1 DEF RouterPolicy, NoEntry, CalcTypeId
  <2>2. CASE entry[CalcTypeId(t, 0)] # NoEntry
    <3>0. entry[CalcTypeId(t, 0)] = [fd |-> 0, inst_id |-> 0, info |-> t]
      BY <2>2, BaseEntry DEF TypeEntries
    <3>1. entry[CalcTypeId(t, 0)].info = t
      BY <3>0
    <3> QED BY <1>2, <1>3, <1>5, <2>2, <3>1 DEF RouterPolicy, NoEntry, CalcTypeId
  <2> QED BY <2>1, <2>2
<1> QED BY <1>4, <1>6 DEF Placement

-----------------------------------------------------------------------------
(* The invariant holds of every reachable state.                            *)
LEMMA RouterInvHolds == Spec => []RouterInv
<1>1. Init => RouterInv
  BY InitRouterInv
<1>2. RouterInv /\ [Next]_vars => RouterInv'
  BY StepRouterInv
<1> QED BY <1>1, <1>2, PTL DEF Spec

(* The tables of routersvr keep their types, ids that are too large or not. *)
THEOREM RouterTypes == Spec => []TypeOK
<1>1. RouterInv => TypeOK
  BY DEF RouterInv
<1> QED BY <1>1, RouterInvHolds, PTL

(* OnProc sends a frame for a server of the zone over a connection of that  *)
(* type and instance and of nobody else, for any number of servers and      *)
(* descriptors, unless it is one that was announced before its last end.    *)
THEOREM OnlyTheRightServer == Spec => []RightServer
BY RightServerHolds, RouterInvHolds, PTL

(* A frame for one instance, and a broadcast, are handed to the connection  *)
(* of every such instance that is registered over one the table has; a full *)
(* buffer is all that keeps them from it.                                   *)
THEOREM EveryRightServer == Spec => []Reaches
BY ReachesHolds, RouterInvHolds, PTL

(* A frame for a type goes where RouterPolicy's policy says, which under    *)
(* RANDOM is always the instance with the smallest id; all_inst[...] is     *)
(* never read past its end.                                                 *)
THEOREM PolicyDecides == Spec => []ByPolicy
BY ByPolicyHolds, RouterInvHolds, PTL

(* A frame for another zone goes to the transfer of its user, from its      *)
(* login to the break of its connection.                                    *)
THEOREM TransferOfUser == Spec => []TransferReached
BY TransferReachedHolds, RouterInvHolds, PTL

(* Disconnections, new registrations, reloads and frames move no user of a  *)
(* type with POLICY_MOD from one instance to another.                       *)
THEOREM UsersStay == Spec => PlacementStable
<1>1. RouterInv /\ RouterInv' /\ [Next]_vars =>
        [\A t \in Types, uid \in Uids :
           (info[t].policy = "MOD" /\ seen' = seen /\ ~Aliased)
             => Placement(uid, t)' = Placement(uid, t)]_vars
  BY PlacementKept
<1> QED BY <1>1, RouterInvHolds, PTL DEF Spec, PlacementStable
=============================================================================
