------------------------- MODULE RegistrationProofs --------------------------
(***************************************************************************)
(* Proofs about the registration of a server with its router, for any      *)
(* number of connections, cuts, restarts of both and reloads.              *)
(***************************************************************************)
EXTENDS Registration, FiniteSetTheorems, SequenceTheorems, TLAPS

-----------------------------------------------------------------------------
(* The invariant.                                                          *)

(* Connections are made one after the other.                                *)
Prefix == Made = 1..Cardinality(Made)

(* A router that was never taken out of the configuration has one link, or  *)
(* none if the last attempt to make one failed at once.                     *)
OneLive ==
  ~removed => /\ configured
              /\ silent => \A n \in Conns : ~Live(n)
              /\ ~silent => \E n \in Conns : \A m \in Conns : Live(m) <=> m = n

(* What the two ends of a connection know of each other.                    *)
Ends ==
  \A n \in Conns :
    /\ wire[n] = "up" => Live(n)
    /\ sview[n] = "none" => wire[n] = "none"
    /\ wire[n] = "none" => rview[n] = "none"

(* Nothing was said on a connection before both ends have it.               *)
Unheard ==
  \A n \in Conns :
    /\ sview[n] \in {"none", "connecting"} => toR[n] = << >>
    /\ sview[n] \in {"none", "connecting"} \/ rview[n] = "none"
         => toS[n] = << >> /\ n \notin logged

(* No request is under way on a connection that was cut.                    *)
Quiet == ~late => \A n \in Conns : wire[n] # "up" => toR[n] = << >>

(* A registration was accepted on connection n, as far as its server is to  *)
(* know.                                                                    *)
Accepted(n) == n \in logged \/ \E m \in InSeq(toS[n]) : m.code = 0

Routed ==
  ~late /\ ~removed =>
    \A n \in Conns : (Accepted(n) /\ sview[n] = "in" /\ rview[n] = "in") => inst = n

RegInv ==
  TypeOK /\ NoDeadRoute /\ Prefix /\ OneLive /\ Ends /\ Unheard /\ Quiet /\ Routed

-----------------------------------------------------------------------------
(* Messages on a channel.                                                   *)
LEMMA Empty == \A S : << >> \in Seq(S) /\ InSeq(<< >>) = {}
BY EmptySeq DEF InSeq

LEMMA Received ==
  ASSUME NEW S, NEW s \in Seq(S), s # << >>
  PROVE  /\ Tail(s) \in Seq(S) /\ Head(s) \in S /\ Head(s) \in InSeq(s)
         /\ InSeq(Tail(s)) \subseteq InSeq(s)
<1>1. PICK t \in Seq(S) : /\ t = Tail(s) /\ Len(t) = Len(s) - 1
                          /\ \A i \in 1..Len(t) : t[i] = s[i + 1]
  BY HeadTailProperties
<1>2. Len(s) \in Nat \ {0} /\ Head(s) = s[1]
  BY EmptySeq
<1>3. \A i \in 1..Len(t) : i + 1 \in 1..Len(s)
  BY <1>1, <1>2
<1>4. \A i \in 1..Len(t) : t[i] \in InSeq(s)
  BY <1>1, <1>3 DEF InSeq
<1>5. Head(s) \in S /\ Head(s) \in InSeq(s)
  BY <1>2, ElementOfSeq DEF InSeq
<1> QED BY <1>1, <1>4, <1>5 DEF InSeq

LEMMA Sent ==
  ASSUME NEW S, NEW s \in Seq(S), NEW m \in S
  PROVE  Append(s, m) \in Seq(S) /\ InSeq(Append(s, m)) = InSeq(s) \cup {m}
<1>1. PICK t \in Seq(S) : /\ t = Append(s, m) /\ Len(t) = Len(s) + 1
                          /\ \A i \in 1..Len(s) : t[i] = s[i]
                          /\ t[Len(s) + 1] = m
  BY AppendProperties
<1>2. Len(s) \in Nat
  BY LenProperties
<1>3. 1..Len(t) = (1..Len(s)) \cup {Len(s) + 1}
  BY <1>1, <1>2
<1>4. \A i \in 1..Len(t) : t[i] \in InSeq(s) \cup {m}
  BY <1>1, <1>3 DEF InSeq
<1>5. \A i \in 1..Len(s) : s[i] \in InSeq(t)
  BY <1>1, <1>3 DEF InSeq
<1>6. m \in InSeq(t)
  BY <1>1, <1>3 DEF InSeq
<1> QED BY <1>1, <1>4, <1>5, <1>6 DEF InSeq

LEMMA PrefixOf ==
  ASSUME NEW S, NEW s \in Seq(S), NEW q \in Prefixes(s)
  PROVE  q \in Seq(S) /\ InSeq(q) \subseteq InSeq(s) /\ (s = << >> => q = << >>)
<1>1. PICK k \in 0..Len(s) : q = SubSeq(s, 1, k)
  BY DEF Prefixes
<1>2. Len(s) \in Nat /\ \A i \in 1..Len(s) : s[i] \in S
  BY LenProperties, ElementOfSeq
<1>3. k \in Nat /\ \A i \in 1..k : i \in 1..Len(s)
  BY <1>2
<1>4. /\ q \in Seq(S) /\ Len(q) = k /\ \A i \in 1..k : q[i] = s[i]
  <2>1. \A i \in 1..k : s[i] \in S
    BY <1>2, <1>3
  <2> QED BY <1>1, <1>3, <2>1, SubSeqProperties
<1>5. InSeq(q) \subseteq InSeq(s)
  BY <1>3, <1>4 DEF InSeq
<1>6. ASSUME s = << >> PROVE q = << >>
  <2>1. Len(q) = 0
    BY <1>4, <1>6
  <2> QED BY <1>4, <2>1, EmptySeq
<1> QED BY <1>4, <1>5, <1>6

(* SendDataByFd: only a connection that is up carries more.                 *)
LEMMA Delivered ==
  ASSUME NEW S, NEW c \in [Conns -> Seq(S)], NEW n \in Conns, NEW m \in S
  PROVE  /\ Deliver(c, n, m) \in [Conns -> Seq(S)]
         /\ \A j \in Conns : Deliver(c, n, m)[j] = c[j] \/ (j = n /\ wire[n] = "up")
<1>1. c[n] \in Seq(S)
  OBVIOUS
<1>2. PICK a \in Seq(S) : a = Append(c[n], m)
  BY <1>1, Sent
<1> QED BY <1>2 DEF Deliver

(* Of the connector table: a connection that is in it, or none.             *)
LEMMA Found ==
  ASSUME NEW view, NEW f
  PROVE  Find(view, f) = 0 \/ (Find(view, f) \in Conns /\ view[Find(view, f)] = "in")
BY DEF Find

(* The connections are numbered from 1, so 0 is none of them.               *)
LEMMA ConnNumbers == 1 \in Conns /\ 0 \notin Conns /\ MaxConns \in Nat
BY BoundAssumption DEF Conns

(* An attempt takes a number that was not used.                             *)
LEMMA AttemptParts ==
  ASSUME TypeOK, Prefix, NEW view \in [Conns -> {"none", "connecting", "in", "out"}],
         \A n \in Conns : view[n] = "none" <=> sview[n] = "none", Attempt(view)
  PROVE  /\ \E n \in Conns : sview[n] = "none" /\ sview' = [view EXCEPT ![n] = "connecting"]
         /\ sfd' \in [Conns -> Fds \cup {0}] /\ Prefix' /\ ~silent'
<1>1. PICK c : c = Cardinality(Made)
  OBVIOUS
<1>2. /\ c + 1 \in Conns /\ sview' = [view EXCEPT ![c + 1] = "connecting"]
      /\ \E f \in Fds : sfd' = [sfd EXCEPT ![c + 1] = f]
  BY <1>1 DEF Attempt
<1>3. IsFiniteSet(Made) /\ c \in Nat
  <2>1. IsFiniteSet(Conns)
    BY FS_Interval, ConnNumbers DEF Conns
  <2>2. IsFiniteSet(Made)
    BY <2>1, FS_Subset DEF Made
  <2> QED BY <1>1, <2>2, FS_CardinalityType
<1>4. Made = 1..c
  BY <1>1 DEF Prefix
<1>5. sview[c + 1] = "none"
  BY <1>2, <1>3, <1>4 DEF Made
<1>6. Made' = Made \cup {c + 1} /\ c + 1 \notin Made
  BY <1>2, <1>5 DEF Made
<1>7. Cardinality(Made') = c + 1
  BY <1>1, <1>3, <1>6, FS_AddElement
<1>8. Made' = 1..(c + 1)
  BY <1>3, <1>4, <1>6
<1>9. Prefix'
  BY <1>7, <1>8 DEF Prefix
<1>10. sfd' \in [Conns -> Fds \cup {0}]
  BY <1>2 DEF TypeOK
<1>11. ~silent'
  BY DEF Attempt
<1> QED BY <1>2, <1>5, <1>9, <1>10, <1>11

(* SendRegistCmd: only a connection of the table that is up carries more.   *)
LEMMA SendParts ==
  ASSUME TypeOK, NEW k \in Conns, NEW view, SendRegist(k, view)
  PROVE  /\ rand' \in [Conns -> Randoms \cup {0}] /\ buffer' \in Seq(Request)
         /\ trans' \in [Conns -> {"none", "wait", "sleep", "spin", "ended"}]
         /\ toR' \in [Conns -> Seq(Request)]
         /\ \A j \in Conns : toR'[j] = toR[j] \/ (wire[j] = "up" /\ view[j] = "in")
<1>1. PICK n : n = Find(view, sfd[k])
  OBVIOUS
<1>2. PICK r \in Randoms :
        LET frames == Written([tid |-> k, rand |-> r]) IN
        /\ rand' = [rand EXCEPT ![k] = r]
        /\ Keep(frames)
        /\ IF n = 0
             THEN trans' = [trans EXCEPT ![k] = "spin"] /\ UNCHANGED toR
             ELSE /\ trans' = [trans EXCEPT ![k] = "wait"]
                  /\ toR' = Deliver(toR, n, Head(frames))
  BY <1>1 DEF SendRegist
<1>3. PICK q \in Request : q = [tid |-> k, rand |-> r]
  BY DEF Request
<1>4. PICK frames : frames = Written(q)
  OBVIOUS
<1>5. /\ rand' = [rand EXCEPT ![k] = r]
      /\ Keep(frames)
      /\ \/ trans' = [trans EXCEPT ![k] = "spin"] /\ toR' = toR
         \/ /\ n # 0 /\ trans' = [trans EXCEPT ![k] = "wait"]
            /\ toR' = Deliver(toR, n, Head(frames))
  BY <1>2, <1>3, <1>4
<1>6. frames \in Seq(Request) /\ frames # << >>
  <2>1. << q >> \in Seq(Request) /\ << q >> # << >>
    OBVIOUS
  <2> QED BY <1>4, <2>1 DEF Written, TypeOK
<1>7. Head(frames) \in Request
  BY <1>6, Received
<1>8. buffer' \in Seq(Request)
  BY <1>5, <1>6, Empty DEF Keep
<1>9. /\ rand' \in [Conns -> Randoms \cup {0}]
      /\ trans' \in [Conns -> {"none", "wait", "sleep", "spin", "ended"}]
  BY <1>5 DEF TypeOK
<1>10. CASE toR' = toR
  BY <1>8, <1>9, <1>10 DEF TypeOK
<1>11. CASE n # 0 /\ toR' = Deliver(toR, n, Head(frames))
  <2>1. n \in Conns /\ view[n] = "in"
    BY <1>1, <1>11, Found
  <2>2. toR \in [Conns -> Seq(Request)]
    BY DEF TypeOK
  <2>3. PICK h \in Request : h = Head(frames)
    BY <1>7
  <2>4. Deliver(toR, n, h) \in [Conns -> Seq(Request)]
    BY <2>1, <2>2, <2>3, Delivered
  <2>5. \A j \in Conns : Deliver(toR, n, h)[j] = toR[j] \/ (j = n /\ wire[n] = "up")
    BY <2>1, <2>2, <2>3 DEF Deliver
  <2> QED BY <1>8, <1>9, <1>11, <2>1, <2>3, <2>4, <2>5
<1> QED BY <1>5, <1>10, <1>11

(* At the start.                                                            *)
LEMMA InitInv == Init => RegInv
<1> SUFFICES ASSUME Init PROVE RegInv
  OBVIOUS
<1> USE ConnNumbers, Empty
<1>1. /\ wire = [n \in Conns |-> "none"] /\ toR = [n \in Conns |-> << >>]
      /\ toS = [n \in Conns |-> << >>]
      /\ silent \in BOOLEAN
      /\ sview = [n \in Conns |-> IF n = 1 /\ ~silent THEN "connecting" ELSE "none"]
      /\ rview = [n \in Conns |-> "none"] /\ logged = {} /\ inst = 0
      /\ configured = TRUE /\ removed = FALSE
  BY DEF Init
<1>2. TypeOK
  BY DEF Init, TypeOK
<1>3. Prefix
  <2>1. Made = IF silent THEN {} ELSE {1}
    BY <1>1 DEF Made
  <2>2. Cardinality({}) = 0 /\ Cardinality({1}) = 1
    BY FS_Singleton, FS_EmptySet
  <2>3. {} = 1..0 /\ {1} = 1..1
    OBVIOUS
  <2> QED BY <1>1, <2>1, <2>2, <2>3 DEF Prefix
<1>4. OneLive
  BY <1>1 DEF OneLive, Live
<1>5. NoDeadRoute /\ Ends /\ Unheard /\ Quiet
  BY <1>1 DEF NoDeadRoute, Ends, Unheard, Quiet
<1>6. Routed
  BY <1>1 DEF Routed
<1> QED BY <1>2, <1>3, <1>4, <1>5, <1>6 DEF RegInv

-----------------------------------------------------------------------------
(* Every step keeps the invariant.                                         *)

(* A step that makes no connection and ends none on the server.             *)
LEMMA SameLinks ==
  ASSUME RegInv, sview' = sview \/ \E n \in Conns : /\ sview[n] = "connecting"
                                                    /\ sview' = [sview EXCEPT ![n] = "in"],
         UNCHANGED << configured, removed, silent >>
  PROVE  Prefix' /\ OneLive'
<1>1. \A n \in Conns : /\ sview'[n] = "none" <=> sview[n] = "none"
                       /\ Live(n)' <=> Live(n)
  BY DEF RegInv, TypeOK, Live
<1>2. Made' = Made
  BY <1>1 DEF Made
<1> QED BY <1>1, <1>2 DEF RegInv, Prefix, OneLive

(* The network: a connection is made.                                       *)
LEMMA AcceptKeeps == ASSUME RegInv, NEW n \in Conns, Accept(n) PROVE RegInv'
<1>1. /\ sview[n] = "connecting" /\ wire[n] = "none" /\ wire' = [wire EXCEPT ![n] = "up"]
      /\ UNCHANGED << toR, toS, sview, sfd, silent, trans, rand, buffer, configured,
                      info_fd, logged, rview, inst, allowed, removed, late >>
  BY DEF Accept, sVars, rVars, history
<1>2. TypeOK'
  BY <1>1 DEF RegInv, TypeOK
<1>3. \A j \in Conns : wire'[j] = IF j = n THEN "up" ELSE wire[j]
  BY <1>1 DEF RegInv, TypeOK
<1>4. Prefix' /\ OneLive'
  BY <1>1, SameLinks
<1>5. NoDeadRoute' /\ Ends' /\ Unheard'
  BY <1>1, <1>3 DEF RegInv, NoDeadRoute, Ends, Unheard, Live
<1>6. Quiet'
  BY <1>1, <1>3 DEF RegInv, Quiet
<1>7. Routed'
  BY <1>1 DEF RegInv, Routed, Accepted
<1> QED BY <1>2, <1>4, <1>5, <1>6, <1>7 DEF RegInv

(* And cut, with what was under way.                                        *)
LEMMA CutKeeps == ASSUME RegInv, NEW n \in Conns, Cut(n) PROVE RegInv'
<1>1. /\ wire[n] = "up" /\ wire' = [wire EXCEPT ![n] = "cut"]
      /\ UNCHANGED << sview, sfd, silent, trans, rand, buffer, configured, info_fd, logged,
                      rview, inst, allowed, removed >>
  BY DEF Cut, sVars, rVars
<1>2. PICK p \in Prefixes(toR[n]) : /\ toR' = [toR EXCEPT ![n] = p]
                                    /\ late' = (late \/ p # << >>)
  BY DEF Cut
<1>3. PICK q \in Prefixes(toS[n]) : toS' = [toS EXCEPT ![n] = q]
  BY DEF Cut
<1>4. toR[n] \in Seq(Request) /\ toS[n] \in Seq(Answer)
  BY DEF RegInv, TypeOK
<1>5. /\ p \in Seq(Request) /\ (toR[n] = << >> => p = << >>)
      /\ q \in Seq(Answer) /\ (toS[n] = << >> => q = << >>) /\ InSeq(q) \subseteq InSeq(toS[n])
  BY <1>4, PrefixOf
<1>6. TypeOK'
  <2>1. late' \in BOOLEAN
    BY <1>2 DEF RegInv, TypeOK
  <2> QED BY <1>1, <1>2, <1>3, <1>5, <2>1 DEF RegInv, TypeOK
<1>7. \A j \in Conns : /\ wire'[j] = IF j = n THEN "cut" ELSE wire[j]
                       /\ toR'[j] = IF j = n THEN p ELSE toR[j]
                       /\ toS'[j] = IF j = n THEN q ELSE toS[j]
  BY <1>1, <1>2, <1>3 DEF RegInv, TypeOK
<1>8. Prefix' /\ OneLive'
  BY <1>1, SameLinks
<1>9. NoDeadRoute' /\ Ends'
  BY <1>1, <1>7 DEF RegInv, NoDeadRoute, Ends, Live
<1>10. Unheard'
  BY <1>1, <1>5, <1>7 DEF RegInv, Unheard
<1>11. Quiet'
  BY <1>1, <1>2, <1>7 DEF RegInv, Quiet
<1>12. Routed'
  <2>1. \A j \in Conns : Accepted(j)' => Accepted(j)
    BY <1>1, <1>5, <1>7 DEF Accepted
  <2> QED BY <1>1, <1>2, <2>1 DEF RegInv, Routed
<1> QED BY <1>6, <1>8, <1>9, <1>10, <1>11, <1>12 DEF RegInv

(* A step of the server that sends a request and changes nothing else that  *)
(* counts.                                                                  *)
LEMMA SendKeeps ==
  ASSUME RegInv, NEW k \in Conns, SendRegist(k, sview'),
         sview' = sview \/ (sview[k] = "connecting" /\ sview' = [sview EXCEPT ![k] = "in"]
                            /\ wire[k] # "none"),
         toS' \in [Conns -> Seq(Answer)],
         \A j \in Conns : toS[j] = << >> => toS'[j] = << >>,
         \A j \in Conns : InSeq(toS'[j]) \subseteq InSeq(toS[j]),
         UNCHANGED << wire, sfd, silent, configured, info_fd, logged, rview, inst, allowed,
                      removed, late >>
  PROVE  RegInv'
<1>1. /\ rand' \in [Conns -> Randoms \cup {0}] /\ buffer' \in Seq(Request)
      /\ trans' \in [Conns -> {"none", "wait", "sleep", "spin", "ended"}]
      /\ toR' \in [Conns -> Seq(Request)]
      /\ \A j \in Conns : toR'[j] = toR[j] \/ (wire[j] = "up" /\ sview'[j] = "in")
  BY SendParts DEF RegInv
<1>2. /\ sview' \in [Conns -> {"none", "connecting", "in", "out"}]
      /\ \A j \in Conns : sview'[j] = sview[j] \/ (j = k /\ sview'[j] = "in"
                                                    /\ sview[j] = "connecting")
  BY DEF RegInv, TypeOK
<1>3. TypeOK'
  BY <1>1, <1>2 DEF RegInv, TypeOK
<1>4. Prefix' /\ OneLive'
  BY SameLinks
<1>5. NoDeadRoute' /\ Ends'
  BY <1>2 DEF RegInv, NoDeadRoute, Ends, Live
<1>6. Unheard'
  BY <1>1, <1>2 DEF RegInv, Unheard
<1>7. Quiet'
  BY <1>1 DEF RegInv, Quiet
<1>8. Routed'
  <2>1. \A j \in Conns : Accepted(j)' => Accepted(j)
    BY DEF Accepted
  <2>2. \A j \in Conns : sview[j] = "connecting" => ~Accepted(j)
    BY Empty DEF RegInv, Unheard, Accepted
  <2> QED BY <1>2, <2>1, <2>2 DEF RegInv, Routed
<1> QED BY <1>3, <1>4, <1>5, <1>6, <1>7, <1>8 DEF RegInv

(* The connection enters the server's table.                                *)
LEMMA TransClientInKeeps == ASSUME RegInv, NEW n \in Conns, TransClientIn(n) PROVE RegInv'
<1>1. /\ sview[n] = "connecting" /\ wire[n] # "none" /\ sview' = [sview EXCEPT ![n] = "in"]
      /\ SendRegist(n, sview')
      /\ UNCHANGED << wire, toS, sfd, silent, configured, info_fd, logged, rview, inst, allowed,
                      removed, late >>
  BY DEF TransClientIn, rVars, history
<1>2. toS' \in [Conns -> Seq(Answer)] /\ toS' = toS
  BY <1>1 DEF RegInv, TypeOK
<1> QED BY <1>1, <1>2, SendKeeps

(* A Wait that ends without an answer.                                      *)
LEMMA TimeoutKeeps == ASSUME RegInv, NEW k \in Conns, Timeout(k) PROVE RegInv'
<1>1. /\ sview' = sview /\ SendRegist(k, sview)
      /\ UNCHANGED << wire, toS, sfd, silent, configured, info_fd, logged, rview, inst, allowed,
                      removed, late >>
  BY DEF Timeout, rVars
<1>2. toS' \in [Conns -> Seq(Answer)] /\ toS' = toS
  BY <1>1 DEF RegInv, TypeOK
<1>3. SendRegist(k, sview')
  BY <1>1
<1> QED BY <1>1, <1>2, <1>3, SendKeeps

(* An answer arrives.                                                       *)
LEMMA RegisterRspKeeps == ASSUME RegInv, NEW n \in Conns, RegisterRsp(n) PROVE RegInv'
<1>1. PICK m : m = Head(toS[n])
  OBVIOUS
<1>2. /\ sview[n] = "in" /\ toS[n] # << >> /\ toS' = [toS EXCEPT ![n] = Tail(@)]
      /\ \/ UNCHANGED << toR, trans, rand, buffer, info_fd, logged >>
         \/ /\ m.code = 0 /\ trans' = [trans EXCEPT ![m.tid] = "ended"]
            /\ LoginRouter(sfd[m.tid]) /\ logged' = logged \cup {n}
            /\ UNCHANGED << toR, rand, buffer >>
         \/ /\ trans' = [trans EXCEPT ![m.tid] = "sleep"]
            /\ UNCHANGED << toR, rand, buffer, info_fd, logged >>
         \/ SendRegist(m.tid, sview) /\ UNCHANGED << info_fd, logged >>
      /\ UNCHANGED << wire, sview, sfd, silent, configured, rview, inst, allowed, removed, late >>
  BY <1>1 DEF RegisterRsp, rVars, history
<1>3. toS[n] \in Seq(Answer)
  BY DEF RegInv, TypeOK
<1>4. /\ Tail(toS[n]) \in Seq(Answer) /\ m \in Answer /\ m \in InSeq(toS[n])
      /\ InSeq(Tail(toS[n])) \subseteq InSeq(toS[n])
  BY <1>1, <1>2, <1>3, Received
<1>5. PICK q \in Seq(Answer) : /\ q = Tail(toS[n]) /\ InSeq(q) \subseteq InSeq(toS[n])
                               /\ toS' = [toS EXCEPT ![n] = q]
  BY <1>2, <1>4
<1>6. /\ toS' \in [Conns -> Seq(Answer)]
      /\ \A j \in Conns : toS'[j] = IF j = n THEN q ELSE toS[j]
  BY <1>5 DEF RegInv, TypeOK
<1>7. /\ \A j \in Conns : toS[j] = << >> => toS'[j] = << >>
      /\ \A j \in Conns : InSeq(toS'[j]) \subseteq InSeq(toS[j])
  BY <1>2, <1>5, <1>6
<1>8. PICK k \in Conns : k = m.tid
  BY <1>4 DEF Answer
<1>9. CASE SendRegist(m.tid, sview) /\ UNCHANGED << info_fd, logged >>
  <2>1. SendRegist(k, sview')
    BY <1>2, <1>8, <1>9
  <2> QED BY <1>2, <1>6, <1>7, <1>9, <2>1, SendKeeps
<1>10. ASSUME trans' \in [Conns -> {"none", "wait", "sleep", "spin", "ended"}],
              UNCHANGED << toR, rand, buffer >>, info_fd' = info_fd \/ LoginRouter(sfd[m.tid]),
              logged' = logged \/ (m.code = 0 /\ logged' = logged \cup {n})
       PROVE  RegInv'
  <2>1. info_fd' \in Fds \cup {0} /\ (info_fd' # 0 => configured)
    BY <1>8, <1>10 DEF RegInv, TypeOK, LoginRouter
  <2>2. TypeOK'
    BY <1>2, <1>6, <1>10, <2>1 DEF RegInv, TypeOK
  <2>3. Prefix' /\ OneLive'
    BY <1>2, SameLinks
  <2>4. NoDeadRoute' /\ Ends' /\ Quiet'
    BY <1>2, <1>10 DEF RegInv, NoDeadRoute, Ends, Quiet, Live
  <2>5. rview[n] # "none"
    BY <1>2 DEF RegInv, Unheard
  <2>6. Unheard'
    BY <1>2, <1>7, <1>10, <2>5 DEF RegInv, Unheard
  <2>7. Routed'
    <3>1. \A j \in Conns : Accepted(j)' => Accepted(j)
      BY <1>4, <1>7, <1>10 DEF Accepted
    <3> QED BY <1>2, <3>1 DEF RegInv, Routed
  <2> QED BY <2>2, <2>3, <2>4, <2>6, <2>7 DEF RegInv
<1>11. trans \in [Conns -> {"none", "wait", "sleep", "spin", "ended"}]
  BY DEF RegInv, TypeOK
<1> QED BY <1>2, <1>9, <1>10, <1>11

(* A connection, or an attempt, ends on the server, which connects again if *)
(* the router is configured.                                                *)
LEMMA LinkEnds ==
  ASSUME RegInv, NEW n \in Conns, Live(n), wire[n] # "up",
         \/ Attempt([sview EXCEPT ![n] = "out"])
         \/ /\ sview' = [sview EXCEPT ![n] = "out"] /\ sfd' = sfd
            /\ silent' \in BOOLEAN /\ (~configured \/ silent'),
         UNCHANGED << wire, toR, toS, trans, rand, buffer, configured, info_fd, logged,
                      rview, inst, allowed, removed, late >>
  PROVE  RegInv'
<1>1. PICK view \in [Conns -> {"none", "connecting", "in", "out"}] :
        view = [sview EXCEPT ![n] = "out"]
  BY DEF RegInv, TypeOK
<1>2. \A j \in Conns : /\ view[j] = IF j = n THEN "out" ELSE sview[j]
                       /\ view[j] = "none" <=> sview[j] = "none"
  BY <1>1 DEF RegInv, TypeOK, Live
<1>3. CASE Attempt(view)
  <2>1. PICK k \in Conns : sview[k] = "none" /\ sview' = [view EXCEPT ![k] = "connecting"]
    BY <1>2, <1>3, AttemptParts DEF RegInv
  <2>2. sfd' \in [Conns -> Fds \cup {0}] /\ Prefix' /\ ~silent'
    BY <1>2, <1>3, AttemptParts DEF RegInv
  <2>3. k # n
    BY <2>1 DEF Live
  <2>4. \A j \in Conns : sview'[j] = IF j = k THEN "connecting" ELSE IF j = n THEN "out"
                                     ELSE sview[j]
    BY <1>2, <2>1, <2>3
  <2>5. TypeOK'
    <3>1. sview' \in [Conns -> {"none", "connecting", "in", "out"}]
      BY <2>1
    <3>2. silent' \in BOOLEAN
      BY <1>3 DEF Attempt
    <3> QED BY <2>2, <3>1, <3>2 DEF RegInv, TypeOK
  <2>6. OneLive'
    <3> SUFFICES ASSUME ~removed
                 PROVE  configured /\ \E j \in Conns : \A m \in Conns : Live(m)' <=> m = j
      BY <2>2 DEF OneLive
    <3>1. configured /\ \A m \in Conns : Live(m) <=> m = n
      BY DEF RegInv, OneLive
    <3>2. \A m \in Conns : Live(m)' <=> m = k
      BY <2>3, <2>4, <3>1 DEF Live
    <3> QED BY <3>1, <3>2
  <2>7. NoDeadRoute' /\ Quiet'
    BY DEF RegInv, NoDeadRoute, Quiet
  <2>8. Ends'
    BY <2>4 DEF RegInv, Ends, Live
  <2>9. Unheard'
    BY <2>1, <2>4 DEF RegInv, Unheard
  <2>10. Routed'
    BY <2>4 DEF RegInv, Routed, Accepted
  <2> QED BY <2>2, <2>5, <2>6, <2>7, <2>8, <2>9, <2>10 DEF RegInv
<1>4. CASE sview' = view /\ sfd' = sfd /\ silent' \in BOOLEAN /\ (~configured \/ silent')
  <2>1. TypeOK'
    BY <1>4 DEF RegInv, TypeOK
  <2>2. Prefix'
    BY <1>2, <1>4 DEF RegInv, Prefix, Made
  <2>3. OneLive'
    <3> SUFFICES ASSUME ~removed
                 PROVE  configured /\ silent' /\ \A m \in Conns : ~Live(m)'
      BY DEF OneLive
    <3>1. configured /\ \A m \in Conns : Live(m) <=> m = n
      BY DEF RegInv, OneLive
    <3> QED BY <1>2, <1>4, <3>1 DEF Live
  <2>4. NoDeadRoute' /\ Quiet'
    BY <1>4 DEF RegInv, NoDeadRoute, Quiet
  <2>5. Ends' /\ Unheard' /\ Routed'
    BY <1>2, <1>4 DEF RegInv, Ends, Live, Unheard, Routed, Accepted
  <2> QED BY <2>1, <2>2, <2>3, <2>4, <2>5 DEF RegInv
<1> QED BY <1>1, <1>3, <1>4

LEMMA ConnectFailedKeeps == ASSUME RegInv, NEW n \in Conns, ConnectFailed(n) PROVE RegInv'
<1>1. /\ Live(n) /\ wire[n] # "up"
      /\ \/ Attempt([sview EXCEPT ![n] = "out"])
         \/ sview' = [sview EXCEPT ![n] = "out"] /\ sfd' = sfd /\ silent' = TRUE
      /\ UNCHANGED << wire, toR, toS, trans, rand, buffer, configured, info_fd, logged,
                      rview, inst, allowed, removed, late >>
  BY DEF ConnectFailed, ConnectOne, NoAttempt, Live, rVars
<1> QED BY <1>1, LinkEnds

LEMMA TransClientOutKeeps == ASSUME RegInv, NEW n \in Conns, TransClientOut(n) PROVE RegInv'
<1>1. /\ Live(n) /\ wire[n] # "up"
      /\ \/ Attempt([sview EXCEPT ![n] = "out"])
         \/ /\ sview' = [sview EXCEPT ![n] = "out"] /\ sfd' = sfd
            /\ silent' = TRUE \/ (~configured /\ silent' = silent)
      /\ UNCHANGED << wire, toR, toS, trans, rand, buffer, configured, info_fd, logged,
                      rview, inst, allowed, removed, late >>
  BY DEF TransClientOut, ExistRouter, ConnectOne, NoAttempt, Live, rVars, history
<1>2. silent \in BOOLEAN
  BY DEF RegInv, TypeOK
<1> QED BY <1>1, <1>2, LinkEnds

(* The configuration changes.                                               *)
LEMMA ReloadKeeps == ASSUME RegInv, NEW found \in Configs, Reload(found) PROVE RegInv'
<1>1. PICK n : n = Find(sview, info_fd)
  OBVIOUS
<1>2. /\ configured' = found
      /\ \/ found /\ ~configured /\ Attempt(sview)
         \/ found /\ ~configured /\ silent' = TRUE /\ UNCHANGED << sview, sfd >>
         \/ (~found \/ configured) /\ UNCHANGED << sview, sfd, silent >>
      /\ info_fd' = IF found THEN info_fd ELSE 0
      /\ wire' = IF ~found /\ n # 0 THEN [wire EXCEPT ![n] = "cut"] ELSE wire
      /\ removed' = (removed \/ ~found)
      /\ late' = (late \/ (~found /\ n # 0 /\ toR[n] # << >>))
      /\ UNCHANGED << toR, toS, trans, rand, buffer, logged, rview, inst, allowed >>
  BY <1>1 DEF Reload, ExistRouter, ConnectOne, NoAttempt, rVars
<1>3. found \in BOOLEAN
  BY ConfigAssumption
<1>4. n = 0 \/ (n \in Conns /\ sview[n] = "in")
  BY <1>1, Found
<1>5. /\ wire' \in [Conns -> {"none", "up", "cut"}]
      /\ \A j \in Conns : wire'[j] = IF ~found /\ j = n THEN "cut" ELSE wire[j]
  BY <1>2, <1>4, ConnNumbers DEF RegInv, TypeOK
<1>6. /\ configured' \in BOOLEAN /\ removed' \in BOOLEAN /\ late' \in BOOLEAN
      /\ info_fd' \in Fds \cup {0} /\ (info_fd' # 0 => configured')
  BY <1>2, <1>3 DEF RegInv, TypeOK
<1>7. CASE /\ UNCHANGED << sview, sfd >>
           /\ \/ silent' = TRUE /\ found /\ ~configured
              \/ silent' = silent /\ (~found \/ configured)
  <2>1. TypeOK'
    BY <1>2, <1>5, <1>6, <1>7 DEF RegInv, TypeOK
  <2>2. Prefix'
    BY <1>7 DEF RegInv, Prefix, Made
  <2>3. OneLive'
    BY <1>2, <1>3, <1>7 DEF RegInv, TypeOK, OneLive, Live
  <2>4. NoDeadRoute' /\ Unheard'
    BY <1>2, <1>7 DEF RegInv, NoDeadRoute, Unheard
  <2>5. Ends'
    BY <1>2, <1>4, <1>5, <1>7 DEF RegInv, Ends, Live
  <2>6. Quiet'
    BY <1>2, <1>4, <1>5, ConnNumbers DEF RegInv, Quiet
  <2>7. Routed'
    BY <1>2, <1>7 DEF RegInv, Routed, Accepted
  <2> QED BY <2>1, <2>2, <2>3, <2>4, <2>5, <2>6, <2>7 DEF RegInv
<1>8. CASE found /\ ~configured /\ Attempt(sview)
  <2>1. sview \in [Conns -> {"none", "connecting", "in", "out"}]
    BY DEF RegInv, TypeOK
  <2>2. PICK k \in Conns : sview[k] = "none" /\ sview' = [sview EXCEPT ![k] = "connecting"]
    BY <1>8, <2>1, AttemptParts DEF RegInv
  <2>3. sfd' \in [Conns -> Fds \cup {0}] /\ Prefix'
    BY <1>8, <2>1, AttemptParts DEF RegInv
  <2>4. /\ sview' \in [Conns -> {"none", "connecting", "in", "out"}]
        /\ \A j \in Conns : sview'[j] = IF j = k THEN "connecting" ELSE sview[j]
    BY <2>1, <2>2
  <2>5. TypeOK'
    BY <1>2, <1>5, <1>6, <1>8, <2>3, <2>4 DEF RegInv, TypeOK, Attempt
  <2>6. removed /\ removed'
    BY <1>2, <1>8 DEF RegInv, OneLive
  <2>7. OneLive' /\ Routed'
    BY <2>6 DEF OneLive, Routed
  <2>8. wire' = wire /\ late' = late
    BY <1>2, <1>8 DEF RegInv, TypeOK
  <2>9. NoDeadRoute' /\ Quiet'
    BY <1>2, <2>8 DEF RegInv, NoDeadRoute, Quiet
  <2>10. Ends' /\ Unheard'
    BY <1>2, <2>2, <2>4, <2>8 DEF RegInv, Ends, Unheard, Live
  <2> QED BY <2>3, <2>5, <2>7, <2>9, <2>10 DEF RegInv
<1> QED BY <1>2, <1>7, <1>8

(* The server's process starts again.                                       *)
LEMMA CrashKeeps == ASSUME RegInv, Crash PROVE RegInv'
<1> USE ConnNumbers, Empty
<1>1. PICK view \in [Conns -> {"none", "connecting", "in", "out"}] :
        view = [n \in Conns |-> IF sview[n] = "none" THEN "none" ELSE "out"]
  OBVIOUS
<1>2. /\ wire' = [n \in Conns |-> IF wire[n] = "up" THEN "cut" ELSE wire[n]]
      /\ toS' = [n \in Conns |-> << >>]
      /\ \/ configured /\ Attempt(view)
         \/ /\ sview' = view /\ sfd' = sfd
            /\ silent' = TRUE \/ (~configured /\ silent' = silent)
      /\ trans' = [n \in Conns |-> "none"] /\ rand' = [n \in Conns |-> 0]
      /\ buffer' = << >> /\ info_fd' = 0 /\ logged' = {}
      /\ late' = (late \/ \E n \in Conns : toR[n] # << >>)
      /\ UNCHANGED << toR, configured, rview, inst, allowed, removed >>
  BY <1>1 DEF Crash, ConnectOne, NoAttempt, rVars
<1>3. \A j \in Conns : /\ view[j] = "none" <=> sview[j] = "none"
                       /\ view[j] \in {"none", "out"}
  BY <1>1
<1>4. /\ late' \in BOOLEAN
      /\ \A j \in Conns : toS'[j] = << >> /\ wire'[j] # "up" /\ ~Accepted(j)'
      /\ \A j \in Conns : wire'[j] = "none" <=> wire[j] = "none"
  BY <1>2 DEF RegInv, TypeOK, Accepted
<1>5. ASSUME sview' \in [Conns -> {"none", "connecting", "in", "out"}],
             sfd' \in [Conns -> Fds \cup {0}], silent' \in BOOLEAN,
             \A j \in Conns : sview'[j] = "none" => sview[j] = "none",
             \A j \in Conns : sview'[j] = "connecting" => sview[j] = "none"
      PROVE  TypeOK' /\ NoDeadRoute' /\ Ends' /\ Unheard' /\ Quiet' /\ Routed'
  <2>1. TypeOK'
    BY <1>2, <1>4, <1>5 DEF RegInv, TypeOK
  <2>2. NoDeadRoute' /\ Ends'
    BY <1>2, <1>4, <1>5 DEF RegInv, NoDeadRoute, Ends
  <2>3. Unheard'
    BY <1>2, <1>4, <1>5 DEF RegInv, Unheard
  <2>4. Quiet' /\ Routed'
    BY <1>2, <1>4 DEF Quiet, Routed
  <2> QED BY <2>1, <2>2, <2>3, <2>4
<1>6. CASE configured /\ Attempt(view)
  <2>1. PICK k \in Conns : sview[k] = "none" /\ sview' = [view EXCEPT ![k] = "connecting"]
    BY <1>3, <1>6, AttemptParts DEF RegInv
  <2>2. sfd' \in [Conns -> Fds \cup {0}] /\ Prefix' /\ silent' = FALSE
    BY <1>3, <1>6, AttemptParts DEF RegInv, Attempt
  <2>3. /\ sview' \in [Conns -> {"none", "connecting", "in", "out"}]
        /\ \A j \in Conns : sview'[j] = IF j = k THEN "connecting" ELSE view[j]
    BY <2>1
  <2>4. OneLive'
    BY <1>2, <1>3, <1>6, <2>2, <2>3 DEF OneLive, Live
  <2>5. TypeOK' /\ NoDeadRoute' /\ Ends' /\ Unheard' /\ Quiet' /\ Routed'
    BY <1>3, <1>5, <2>1, <2>2, <2>3
  <2> QED BY <2>2, <2>4, <2>5 DEF RegInv
<1>7. CASE /\ sview' = view /\ sfd' = sfd
           /\ silent' = TRUE \/ (~configured /\ silent' = silent)
  <2>1. OneLive'
    BY <1>2, <1>3, <1>7 DEF RegInv, OneLive, Live
  <2>2. Prefix'
    BY <1>3, <1>7 DEF RegInv, Prefix, Made
  <2>3. TypeOK' /\ NoDeadRoute' /\ Ends' /\ Unheard' /\ Quiet' /\ Routed'
    <3>1. sfd' \in [Conns -> Fds \cup {0}] /\ silent' \in BOOLEAN
      BY <1>7 DEF RegInv, TypeOK
    <3> QED BY <1>3, <1>5, <1>7, <3>1
  <2> QED BY <2>1, <2>2, <2>3 DEF RegInv
<1> QED BY <1>2, <1>6, <1>7

(* The router takes a connection into its table, and out of it.             *)
LEMMA RouterInKeeps == ASSUME RegInv, NEW n \in Conns, RouterIn(n) PROVE RegInv'
<1>1. /\ rview[n] = "none" /\ wire[n] # "none" /\ rview' = [rview EXCEPT ![n] = "in"]
      /\ UNCHANGED << wire, toR, toS, sview, sfd, silent, trans, rand, buffer, configured, info_fd,
                      logged, inst, allowed, removed, late >>
  BY DEF RouterIn, sVars, history
<1>2. \A j \in Conns : rview'[j] = IF j = n THEN "in" ELSE rview[j]
  BY <1>1 DEF RegInv, TypeOK
<1>3. TypeOK'
  BY <1>1 DEF RegInv, TypeOK
<1>4. Prefix' /\ OneLive'
  BY <1>1, SameLinks
<1>5. NoDeadRoute' /\ Ends' /\ Unheard' /\ Quiet'
  BY <1>1, <1>2 DEF RegInv, TypeOK, NoDeadRoute, Ends, Unheard, Quiet, Live
<1>6. Routed'
  <2>1. ~Accepted(n)
    BY <1>1, Empty DEF RegInv, Unheard, Accepted
  <2> QED BY <1>1, <1>2, <2>1 DEF RegInv, Routed, Accepted
<1> QED BY <1>3, <1>4, <1>5, <1>6 DEF RegInv

LEMMA RouterOutKeeps == ASSUME RegInv, NEW n \in Conns, RouterOut(n) PROVE RegInv'
<1>1. /\ rview[n] = "in" /\ wire[n] = "cut" /\ rview' = [rview EXCEPT ![n] = "out"]
      /\ inst' = IF inst = n THEN 0 ELSE inst
      /\ UNCHANGED << wire, toR, toS, sview, sfd, silent, trans, rand, buffer, configured, info_fd,
                      logged, allowed, removed, late >>
  BY DEF RouterOut, LogoutInstance, sVars, history
<1>2. \A j \in Conns : rview'[j] = IF j = n THEN "out" ELSE rview[j]
  BY <1>1 DEF RegInv, TypeOK
<1>3. TypeOK'
  BY <1>1 DEF RegInv, TypeOK
<1>4. Prefix' /\ OneLive'
  BY <1>1, SameLinks
<1>5. NoDeadRoute'
  BY <1>1, <1>2, ConnNumbers DEF RegInv, TypeOK, NoDeadRoute
<1>6. Ends' /\ Unheard' /\ Quiet'
  BY <1>1, <1>2 DEF RegInv, Ends, Unheard, Quiet, Live
<1>7. Routed'
  BY <1>1, <1>2 DEF RegInv, Routed, Accepted
<1> QED BY <1>3, <1>4, <1>5, <1>6, <1>7 DEF RegInv

(* The router answers a request, and routes to its connection if the server *)
(* is allowed.                                                              *)
LEMMA TransRegisterServerKeeps ==
  ASSUME RegInv, NEW n \in Conns, TransRegisterServer(n) PROVE RegInv'
<1>1. PICK m : m = Head(toR[n])
  OBVIOUS
<1>2. /\ rview[n] = "in" /\ toR[n] # << >> /\ toR' = [toR EXCEPT ![n] = Tail(@)]
      /\ inst' = IF allowed THEN n ELSE inst
      /\ toS' = Deliver(toS, n, [tid |-> m.tid, rand |-> m.rand,
                                 code |-> IF allowed THEN 0 ELSE 1])
      /\ UNCHANGED << wire, sview, sfd, silent, trans, rand, buffer, configured, info_fd, logged,
                      rview, allowed, removed, late >>
  BY <1>1 DEF TransRegisterServer, LoginInstance, sVars, history
<1>3. toR[n] \in Seq(Request) /\ toS \in [Conns -> Seq(Answer)]
  BY DEF RegInv, TypeOK
<1>4. m \in Request
  BY <1>1, <1>2, <1>3, Received
<1>5. PICK t \in Seq(Request) : t = Tail(toR[n]) /\ toR' = [toR EXCEPT ![n] = t]
  BY <1>2, <1>3, Received
<1>6. PICK a \in Answer : /\ a = [tid |-> m.tid, rand |-> m.rand,
                                  code |-> IF allowed THEN 0 ELSE 1]
                          /\ a.code = 0 => allowed
  <2>1. m.tid \in Conns /\ m.rand \in Randoms
    BY <1>4 DEF Request
  <2>2. PICK c \in {0, 1} : c = IF allowed THEN 0 ELSE 1
    OBVIOUS
  <2>3. PICK a : a = [tid |-> m.tid, rand |-> m.rand, code |-> c]
    OBVIOUS
  <2>4. a \in Answer /\ a.code = c
    BY <2>1, <2>3 DEF Answer
  <2> QED BY <2>2, <2>3, <2>4
<1>7. toS' = Deliver(toS, n, a)
  BY <1>2, <1>6
<1>8. /\ toS' \in [Conns -> Seq(Answer)]
      /\ \A j \in Conns : toS'[j] = toS[j] \/ (j = n /\ InSeq(toS'[j]) = InSeq(toS[j]) \cup {a})
  <2>1. toS' \in [Conns -> Seq(Answer)]
    BY <1>3, <1>7, Delivered
  <2>2. CASE wire[n] = "up"
    <3>1. toS[n] \in Seq(Answer)
      BY <1>3
    <3>2. PICK q \in Seq(Answer) : q = Append(toS[n], a) /\ InSeq(q) = InSeq(toS[n]) \cup {a}
      BY <3>1, Sent
    <3>3. toS' = [toS EXCEPT ![n] = q]
      BY <1>7, <2>2, <3>2 DEF Deliver
    <3>4. \A j \in Conns : toS'[j] = IF j = n THEN q ELSE toS[j]
      BY <1>3, <3>3
    <3> QED BY <2>1, <3>2, <3>4
  <2>3. CASE wire[n] # "up"
    BY <1>7, <2>1, <2>3 DEF Deliver
  <2> QED BY <2>2, <2>3
<1>9. \A j \in Conns : toR'[j] = IF j = n THEN t ELSE toR[j]
  BY <1>5 DEF RegInv, TypeOK
<1>10. ~late => wire[n] = "up" /\ Live(n)
  BY <1>2 DEF RegInv, Quiet, Ends
<1>11. sview[n] \notin {"none", "connecting"}
  BY <1>2 DEF RegInv, Unheard
<1>12. TypeOK'
  <2>1. toR' \in [Conns -> Seq(Request)] /\ inst' \in Conns \cup {0}
    BY <1>2, <1>5 DEF RegInv, TypeOK
  <2> QED BY <1>2, <1>8, <2>1 DEF RegInv, TypeOK
<1>13. Prefix' /\ OneLive'
  BY <1>2, SameLinks
<1>14. NoDeadRoute' /\ Ends'
  BY <1>2 DEF RegInv, NoDeadRoute, Ends, Live
<1>15. Unheard'
  BY <1>2, <1>8, <1>9, <1>11 DEF RegInv, Unheard
<1>16. Quiet'
  BY <1>2, <1>9, <1>10 DEF RegInv, Quiet
<1>17. Routed'
  <2> SUFFICES ASSUME ~late, ~removed, NEW j \in Conns, Accepted(j)',
                      sview[j] = "in", rview[j] = "in"
               PROVE  inst' = j
    BY <1>2 DEF Routed
  <2>1. CASE j = n
    <3>1. CASE allowed
      BY <1>2, <2>1, <3>1
    <3>2. CASE ~allowed
      <4>1. Accepted(j)
        BY <1>2, <1>6, <1>8, <3>2 DEF Accepted
      <4> QED BY <1>2, <3>2, <4>1 DEF RegInv, Routed
    <3> QED BY <3>1, <3>2
  <2>2. CASE j # n
    <3>1. Live(j) /\ Live(n)
      BY <1>10 DEF Live
    <3> QED BY <2>2, <3>1 DEF RegInv, OneLive
  <2> QED BY <2>1, <2>2
<1> QED BY <1>12, <1>13, <1>14, <1>15, <1>16, <1>17 DEF RegInv

(* The router's process starts again.                                       *)
LEMMA RouterRestartKeeps == ASSUME RegInv, RouterRestart PROVE RegInv'
<1>1. /\ wire' = [n \in Conns |-> IF wire[n] = "up" THEN "cut" ELSE wire[n]]
      /\ toR' = [n \in Conns |-> << >>]
      /\ rview' = [n \in Conns |-> IF wire[n] = "none" THEN rview[n] ELSE "out"]
      /\ inst' = 0
      /\ UNCHANGED << toS, sview, sfd, silent, trans, rand, buffer, configured, info_fd, logged,
                      allowed, removed, late >>
  BY DEF RouterRestart, sVars
<1>2. TypeOK'
  BY <1>1, Empty DEF RegInv, TypeOK
<1>3. Prefix' /\ OneLive'
  BY <1>1, SameLinks
<1>4. \A j \in Conns : /\ wire'[j] = "none" <=> wire[j] = "none"
                       /\ wire'[j] # "up" /\ toR'[j] = << >>
                       /\ rview'[j] # "in" /\ (rview'[j] = "none" => rview[j] = "none")
  BY <1>1 DEF RegInv, TypeOK, Ends
<1>5. NoDeadRoute' /\ Ends' /\ Unheard' /\ Quiet'
  <2>1. NoDeadRoute'
    BY <1>1 DEF NoDeadRoute
  <2>2. Ends'
    BY <1>1, <1>4 DEF RegInv, Ends
  <2>3. Unheard' /\ Quiet'
    BY <1>1, <1>4 DEF RegInv, Unheard, Quiet
  <2> QED BY <2>1, <2>2, <2>3
<1>6. Routed'
  BY <1>4 DEF Routed
<1> QED BY <1>2, <1>3, <1>5, <1>6 DEF RegInv

(* Every step.                                                              *)
LEMMA InvStep == RegInv /\ [Next]_vars => RegInv'
<1> SUFFICES ASSUME RegInv, [Next]_vars PROVE RegInv'
  OBVIOUS
<1>1. CASE RouterReload \/ UNCHANGED vars
  <2>1. /\ allowed' \in BOOLEAN
        /\ UNCHANGED << wire, toR, toS, sview, sfd, silent, trans, rand, buffer, configured,
                        info_fd, logged, rview, inst, removed, late >>
    BY <1>1 DEF RouterReload, vars, sVars, rVars, history, RegInv, TypeOK
  <2>2. TypeOK'
    BY <2>1 DEF RegInv, TypeOK
  <2>3. Prefix' /\ OneLive'
    BY <2>1, SameLinks
  <2>4. NoDeadRoute' /\ Ends' /\ Unheard' /\ Quiet'
    BY <2>1 DEF RegInv, NoDeadRoute, Ends, Unheard, Quiet, Live
  <2>5. Routed'
    BY <2>1 DEF RegInv, Routed, Accepted
  <2> QED BY <2>2, <2>3, <2>4, <2>5 DEF RegInv
<1>2. CASE Network
  BY <1>2, AcceptKeeps, CutKeeps DEF Network
<1>3. CASE \E n \in Conns : Server(n) \/ ConnectFailed(n)
  BY <1>3, TransClientInKeeps, TransClientOutKeeps, RegisterRspKeeps, TimeoutKeeps,
     ConnectFailedKeeps DEF Server
<1>4. CASE \E n \in Conns : Router(n)
  BY <1>4, RouterInKeeps, TransRegisterServerKeeps, RouterOutKeeps DEF Router
<1>5. CASE Crash \/ RouterRestart \/ \E found \in Configs : Reload(found)
  BY <1>5, CrashKeeps, RouterRestartKeeps, ReloadKeeps
<1> QED BY <1>1, <1>2, <1>3, <1>4, <1>5 DEF Next

LEMMA InvHolds == Spec => []RegInv
BY InitInv, InvStep, PTL DEF Spec

-----------------------------------------------------------------------------
(* The router never routes to a connection it has taken out of its table,   *)
(* in whatever order SeverInstanceMgr hears of connections and requests.    *)
THEOREM NoRouteIsDead == Spec => []NoDeadRoute
<1>1. RegInv => NoDeadRoute
  BY DEF RegInv
<1> QED BY <1>1, InvHolds, PTL

(* A registration that succeeded is in effect while both ends have its      *)
(* connection, through cuts, restarts and reconnects, unless a request came *)
(* late or the router left the configuration.                               *)
THEOREM RegistrationsStay == Spec => []RegisteredIsRouted
<1>1. RegInv => RegisteredIsRouted
  BY DEF RegInv, TypeOK, Routed, Accepted, RegisteredIsRouted
<1> QED BY <1>1, InvHolds, PTL

(* The server keeps exactly one connection or attempt: every one that ends  *)
(* is followed by one, and Reload makes none while one is there.  The only  *)
(* exception is an AsyncConnect that failed at once, after which it has     *)
(* none.                                                                    *)
THEOREM LinkIsOne == Spec => []OneLink
<1>1. RegInv => OneLink
  <2> DEFINE Links == {n \in Conns : Live(n)}
  <2> SUFFICES ASSUME RegInv, ~removed
               PROVE  Cardinality(Links) = IF silent THEN 0 ELSE 1
    BY DEF OneLink
  <2>1. CASE silent
    <3>1. Links = {}
      BY <2>1 DEF RegInv, OneLive
    <3> QED BY <2>1, <3>1, FS_EmptySet
  <2>2. CASE ~silent
    <3>1. PICK n \in Conns : \A m \in Conns : Live(m) <=> m = n
      BY <2>2 DEF RegInv, OneLive
    <3>2. Links = {n}
      BY <3>1
    <3>3. Cardinality({n}) = 1
      BY FS_Singleton
    <3> QED BY <2>2, <3>2, <3>3
  <2> QED BY <2>1, <2>2
<1> QED BY <1>1, InvHolds, PTL
=============================================================================
