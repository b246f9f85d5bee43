------------------------ MODULE CoroutineTaskProofs -------------------------
(***************************************************************************)
(* Proofs about the coroutines and their tasks, for any number of tasks,   *)
(* yields and resumes and any number of coroutines kept in reserve.        *)
(***************************************************************************)
EXTENDS CoroutineTask, FiniteSetTheorems, SequenceTheorems, TLAPS

-----------------------------------------------------------------------------
(* Sequences as collections.                                               *)

(* No element occurs twice.                                                 *)
Distinct(s) == \A j, k \in 1..Len(s) : j # k => s[j] # s[k]

(* The elements of a sequence.                                              *)
LEMMA RangeOf ==
  ASSUME NEW S, NEW s \in Seq(S)
  PROVE  /\ Range(s) = {s[i] : i \in 1..Len(s)} /\ Range(s) \subseteq S
         /\ Len(s) \in Nat
BY LenProperties DEF Range

(* One more at the end.                                                     *)
LEMMA Appended ==
  ASSUME NEW S, NEW s \in Seq(S), NEW e \in S
  PROVE  /\ Append(s, e) \in Seq(S) /\ Len(Append(s, e)) = Len(s) + 1
         /\ Range(Append(s, e)) = Range(s) \cup {e}
         /\ Distinct(s) /\ e \notin Range(s) => Distinct(Append(s, e))
<1>1. PICK t \in Seq(S) : /\ t = Append(s, e) /\ Len(t) = Len(s) + 1
                          /\ \A i \in 1..Len(s) : t[i] = s[i]
                          /\ t[Len(s) + 1] = e
  BY AppendProperties
<1>2. Len(s) \in Nat
  BY LenProperties
<1>3. 1..Len(t) = (1..Len(s)) \cup {Len(s) + 1}
  BY <1>1, <1>2
<1>4. Range(t) = Range(s) \cup {e}
  <2>1. Range(t) = {t[i] : i \in 1..Len(t)} /\ Range(s) = {s[i] : i \in 1..Len(s)}
    BY RangeOf
  <2>2. \A i \in 1..Len(t) : t[i] \in Range(s) \cup {e}
    BY <1>1, <1>3, <2>1
  <2>3. \A i \in 1..Len(s) : s[i] \in Range(t)
    BY <1>1, <1>3, <2>1
  <2>4. e \in Range(t)
    BY <1>1, <1>3, <2>1
  <2> QED BY <2>1, <2>2, <2>3, <2>4
<1>5. ASSUME Distinct(s), e \notin Range(s), NEW j \in 1..Len(t), NEW k \in 1..Len(t),
             j # k
      PROVE  t[j] # t[k]
  <2>1. \A i \in 1..Len(s) : s[i] # e
    BY <1>5, RangeOf
  <2>2. CASE j \in 1..Len(s) /\ k \in 1..Len(s)
    BY <1>1, <1>5, <2>2 DEF Distinct
  <2>3. CASE ~(j \in 1..Len(s) /\ k \in 1..Len(s))
    BY <1>1, <1>3, <1>5, <2>1, <2>3
  <2> QED BY <2>2, <2>3
<1> QED BY <1>1, <1>4, <1>5 DEF Distinct

(* Without the last.                                                        *)
LEMMA Fronted ==
  ASSUME NEW S, NEW s \in Seq(S), s # << >>
  PROVE  /\ Front(s) \in Seq(S) /\ Len(Front(s)) = Len(s) - 1 /\ Last(s) \in S
         /\ Last(s) = s[Len(s)] /\ Len(s) \in 1..Len(s)
         /\ \A i \in 1..Len(Front(s)) : i \in 1..Len(s) /\ Front(s)[i] = s[i]
         /\ Range(s) = Range(Front(s)) \cup {Last(s)}
         /\ Distinct(s) => Distinct(Front(s)) /\ Last(s) \notin Range(Front(s))
<1>1. Len(s) \in Nat \ {0} /\ \A i \in 1..Len(s) : s[i] \in S
  BY EmptySeq, ElementOfSeq
<1>2. PICK n \in Nat : n = Len(s) - 1
  BY <1>1
<1>3. PICK t \in Seq(S) : t = Front(s) /\ Len(t) = n /\ \A i \in 1..n : t[i] = s[i]
  <2>1. \A i \in 1..n : s[i] \in S
    BY <1>1, <1>2
  <2>2. /\ SubSeq(s, 1, n) \in Seq(S) /\ Len(SubSeq(s, 1, n)) = n
        /\ \A i \in 1..n : SubSeq(s, 1, n)[i] = s[i]
    BY <1>2, <2>1, SubSeqProperties
  <2> QED BY <1>2, <2>2 DEF Front
<1>4. 1..Len(s) = (1..n) \cup {Len(s)} /\ Len(s) \notin 1..n
  BY <1>1, <1>2
<1>5. Last(s) = s[Len(s)]
  BY DEF Last
<1>6. Range(s) = Range(t) \cup {Last(s)}
  BY <1>3, <1>4, <1>5, RangeOf
<1>7. ASSUME Distinct(s) PROVE Distinct(t) /\ Last(s) \notin Range(t)
  BY <1>3, <1>4, <1>5, <1>7, RangeOf DEF Distinct
<1> QED BY <1>1, <1>2, <1>3, <1>4, <1>5, <1>6, <1>7

(* Without the first.                                                       *)
LEMMA Tailed ==
  ASSUME NEW S, NEW s \in Seq(S), s # << >>
  PROVE  /\ Tail(s) \in Seq(S) /\ Len(Tail(s)) = Len(s) - 1 /\ Head(s) \in S
         /\ Range(s) = Range(Tail(s)) \cup {Head(s)}
         /\ Distinct(s) => Distinct(Tail(s)) /\ Head(s) \notin Range(Tail(s))
<1>1. Len(s) \in Nat \ {0}
  BY EmptySeq
<1>2. Head(s) = s[1]
  OBVIOUS
<1>3. PICK t \in Seq(S) : /\ t = Tail(s) /\ Len(t) = Len(s) - 1
                          /\ \A i \in 1..Len(t) : t[i] = s[i + 1]
  BY HeadTailProperties
<1>4. /\ \A i \in 1..Len(t) : i + 1 \in 1..Len(s) /\ i + 1 # 1
      /\ \A k \in 1..Len(s) : k = 1 \/ (k - 1 \in 1..Len(t) /\ (k - 1) + 1 = k)
      /\ 1 \in 1..Len(s)
  BY <1>1, <1>3
<1>5. Range(s) = Range(t) \cup {Head(s)}
  <2>0. Range(t) = {t[i] : i \in 1..Len(t)} /\ Range(s) = {s[i] : i \in 1..Len(s)}
    BY RangeOf
  <2>1. ASSUME NEW k \in 1..Len(s) PROVE s[k] \in Range(t) \cup {Head(s)}
    <3>1. CASE k = 1
      BY <1>2, <3>1
    <3>2. CASE k # 1
      <4>1. k - 1 \in 1..Len(t) /\ (k - 1) + 1 = k
        BY <1>4, <3>2
      <4>2. t[k - 1] = s[k]
        BY <1>3, <4>1
      <4> QED BY <2>0, <4>1, <4>2
    <3> QED BY <3>1, <3>2
  <2>2. Range(t) \subseteq Range(s)
    <3>1. \A i \in 1..Len(t) : t[i] \in Range(s)
      BY <1>3, <1>4, <2>0
    <3> QED BY <2>0, <3>1
  <2>3. Head(s) \in Range(s)
    BY <1>2, <1>4, RangeOf
  <2> QED BY <2>1, <2>2, <2>3, RangeOf
<1>6. ASSUME Distinct(s) PROVE Distinct(t) /\ Head(s) \notin Range(t)
  <2>1. ASSUME NEW j \in 1..Len(t), NEW k \in 1..Len(t), j # k PROVE t[j] # t[k]
    <3>1. j + 1 # k + 1
      BY <2>1
    <3> QED BY <1>3, <1>4, <1>6, <3>1 DEF Distinct
  <2>2. \A i \in 1..Len(t) : t[i] # Head(s)
    BY <1>2, <1>3, <1>4, <1>6 DEF Distinct
  <2> QED BY <2>1, <2>2, RangeOf DEF Distinct
<1> QED BY <1>3, <1>5, <1>6, HeadTailProperties

-----------------------------------------------------------------------------
(* The invariant: what holds whether or not the rules of use are kept.     *)

(* Who runs, and where coroutines and kept wrappers point.                  *)
Placed ==
  /\ \A i \in Ids : co[i] = "RUNNING" <=> i = curco
  /\ curco # 0 => frame[curco] # 0
  /\ \A i \in Ids : co[i] # "none" => data[i] # 0 /\ wrapper[data[i]].mem # "none"
  /\ \A w \in Wrappers : wrapper[w].mem # "none" => wrapper[w].co_id # 0
  /\ \A k \in 1..Len(gfreecovec) : wrapper[gfreecovec[k]].mem # "none"

Used == {w \in Wrappers : wrapper[w].mem # "none"}

(* There is memory for every task that is given: a wrapper is made for a    *)
(* task that has begun, and an id for a wrapper.                            *)
Supply ==
  nco <= Cardinality(Used) /\ Cardinality(Used) + Len(gworktasklist) <= given

CoInv == TypeOK /\ IdsExact /\ Placed /\ Supply

(* And what holds as long as they are: wrappers and coroutines belong       *)
(* together, and an id that is left to be resumed is in one place.          *)
Paired ==
  \A i \in Ids : co[i] # "none" =>
    wrapper[data[i]].mem = "live" /\ wrapper[data[i]].co_id = i

Kept ==
  /\ \A w \in Range(gfreecovec) :
       /\ wrapper[w].mem = "live" /\ wrapper[w].task = 0
       /\ co[wrapper[w].co_id] = "SUSPEND" /\ frame[wrapper[w].co_id] = 0
       /\ data[wrapper[w].co_id] = w
  /\ Distinct(gfreecovec)

Left == owed \cup Range(reslist) \cup Range(idlist)

Reaches == \A r \in Left : co[r.id] = "SUSPEND" /\ frame[r.id] = r.for

Once ==
  /\ Distinct(reslist) /\ Distinct(idlist)
  /\ owed \cap Range(reslist) = {} /\ owed \cap Range(idlist) = {}
  /\ Range(reslist) \cap Range(idlist) = {}

Sound == ~undefined /\ Paired /\ Kept /\ Reaches /\ Once

(* No task is in two places.                                                *)
Frames == {i \in Live : frame[i] # 0}

Single ==
  /\ \A i, j \in Frames : frame[i] = frame[j] => i = j
  /\ \A i \in Frames : /\ frame[i] <= given
                        /\ frame[i] \notin done \cup dropped \cup Range(gworktasklist)
  /\ Distinct(gworktasklist)
  /\ Range(gworktasklist) \cap (done \cup dropped) = {}
  /\ \A t \in done \cup dropped \cup Range(gworktasklist) : t <= given

RuleInv == ~Broken => Sound /\ Single

-----------------------------------------------------------------------------
(* The parts of the types.                                                  *)
WrapperType ==
  [mem : {"none", "live", "freed"}, co_id : Ids \cup {0}, task : Tasks1 \cup {0}]

CoTypes ==
  /\ co \in [Ids -> {"none", "SUSPEND", "RUNNING"}]
  /\ data \in [Ids -> Wrappers \cup {0}]
  /\ frame \in [Ids -> Tasks1 \cup {0}]
  /\ freeid \in Seq(Ids) /\ nco \in 0..MaxTasks /\ curco \in Ids \cup {0}
  /\ wrapper \in [Wrappers -> WrapperType]
  /\ gfreecovec \in Seq(Wrappers) /\ allset \subseteq Wrappers

TaskTypes ==
  /\ gworktasklist \in Seq(Tasks1)
  /\ reslist \in Seq(Resumes) /\ idlist \in Seq(Resumes)
  /\ owed \subseteq Resumes
  /\ given \in 0..MaxTasks /\ done \subseteq Tasks1 /\ dropped \subseteq Tasks1

CountTypes ==
  /\ yields \in 0..MaxYields /\ twice \in 0..MaxTwice
  /\ clears \in 0..MaxClears /\ undefined \in BOOLEAN

LEMMA TypeParts == TypeOK <=> CoTypes /\ TaskTypes /\ CountTypes
BY DEF TypeOK, CoTypes, TaskTypes, CountTypes, WrapperType

(* Numbers of tasks, ids and wrappers.                                      *)
LEMMA NumberParts ==
  /\ MaxTasks \in Nat /\ Ids \subseteq Nat \ {0} /\ Wrappers \subseteq Nat \ {0}
  /\ Tasks1 \subseteq Nat \ {0} /\ 0 \notin Ids /\ 0 \notin Wrappers /\ 0 \notin Tasks1
BY ReserveAssumption DEF Ids, Wrappers, Tasks1

LEMMA TaskNumbers ==
  ASSUME TypeOK
  PROVE  /\ given \in Nat /\ given <= MaxTasks
         /\ nco \in Nat /\ nco <= MaxTasks /\ Len(gworktasklist) \in Nat
BY ReserveAssumption DEF TypeOK

(* The used wrappers are finitely many.                                     *)
LEMMA UsedFinite ==
  /\ IsFiniteSet(Used) /\ Cardinality(Used) \in Nat /\ Cardinality(Used) <= MaxTasks
  /\ Used # Wrappers => Cardinality(Used) < MaxTasks
  /\ Used = Wrappers => Cardinality(Used) = MaxTasks
<1>1. IsFiniteSet(Wrappers) /\ Cardinality(Wrappers) = MaxTasks
  <2>1. 1 \in Int /\ MaxTasks \in Int /\ (1 > MaxTasks => MaxTasks = 0)
    BY ReserveAssumption
  <2> QED BY <2>1, FS_Interval DEF Wrappers
<1>2. Used \in SUBSET Wrappers
  BY DEF Used
<1>3. IsFiniteSet(Used) /\ Cardinality(Used) <= MaxTasks
      /\ (Cardinality(Used) = MaxTasks => Used = Wrappers)
  BY <1>1, <1>2, FS_Subset
<1>4. Cardinality(Used) \in Nat /\ MaxTasks \in Nat
  BY <1>3, FS_CardinalityType, ReserveAssumption
<1> QED BY <1>1, <1>3, <1>4

(* The invariant holds at the start.                                        *)
LEMMA InitInv == Init => CoInv /\ RuleInv
<1> SUFFICES ASSUME Init PROVE CoInv /\ RuleInv
  OBVIOUS
<1>1. TypeOK
  <2>1. NoWrapper \in WrapperType
    BY DEF NoWrapper, WrapperType
  <2>2. 0 \in 0..MaxTasks /\ 0 \in 0..MaxYields /\ 0 \in 0..MaxTwice /\ 0 \in 0..MaxClears
    BY ReserveAssumption, UseAssumption
  <2>3. \A S : << >> \in Seq(S)
    BY EmptySeq
  <2>4. CoTypes
    BY <2>1, <2>2, <2>3 DEF Init, CoTypes
  <2>5. TaskTypes
    BY <2>2, <2>3 DEF Init, TaskTypes
  <2>6. CountTypes
    BY <2>2 DEF Init, CountTypes
  <2> QED BY <2>4, <2>5, <2>6, TypeParts
<1>2. Live = {} /\ Range(<< >>) = {} /\ Len(<< >>) = 0
  BY DEF Init, Live, Range
<1>3. IdsExact
  BY <1>2, ReserveAssumption DEF Init, IdsExact
<1>4. Placed
  BY <1>2, NumberParts DEF Init, Placed, NoWrapper
<1>5. Used = {} /\ Cardinality(Used) = 0
  <2>1. Used = {}
    BY DEF Init, Used, NoWrapper
  <2> QED BY <2>1, FS_EmptySet
<1>6. Supply
  BY <1>2, <1>5 DEF Init, Supply
<1>7. Sound
  BY <1>2 DEF Init, Sound, Paired, Kept, Left, Reaches, Once, Distinct
<1>8. Single
  BY <1>2 DEF Init, Single, Frames, Distinct
<1> QED BY <1>1, <1>3, <1>4, <1>6, <1>7, <1>8 DEF CoInv, RuleInv

-----------------------------------------------------------------------------
(* How coroutines start and go on.                                         *)

(* The three outcomes of Coroutine::resume.                                 *)
LEMMA ResumeCases ==
  ASSUME TypeOK, Placed, NEW i \in Ids, NEW wr \in [Wrappers -> WrapperType], Resume(i, wr)
  PROVE  \/ /\ co[i] # "SUSPEND" /\ wrapper' = wr
           /\ UNCHANGED << co, frame, curco, freeid, allset >>
         \/ /\ co[i] = "SUSPEND" /\ wrapper' = wr /\ UNCHANGED << freeid, allset >>
           /\ co' = [co EXCEPT ![i] = "RUNNING"] /\ curco' = i
           /\ \E t \in Tasks1 : /\ frame' = [frame EXCEPT ![i] = t]
                                /\ frame[i] # 0 => t = frame[i]
                                /\ frame[i] = 0 => t = wr[data[i]].task
         \/ /\ co[i] = "SUSPEND" /\ frame[i] = 0 /\ wr[data[i]].task = 0
           /\ co' = [co EXCEPT ![i] = "none"] /\ UNCHANGED << frame, curco >>
           /\ data[i] \in Wrappers
           /\ wrapper' = [wr EXCEPT ![data[i]].mem = "freed"]
           /\ allset' = allset \ {data[i]} /\ freeid' = Append(freeid, i)
<1>1. CASE co[i] # "SUSPEND"
  BY <1>1 DEF Resume
<1>2. ASSUME co[i] = "SUSPEND" PROVE data[i] \in Wrappers
  BY <1>2 DEF Placed, TypeOK
<1>3. wr[data[i]] \in WrapperType => wr[data[i]].task \in Tasks1 \cup {0}
  BY DEF WrapperType
<1>4. ASSUME co[i] = "SUSPEND", frame[i] # 0 \/ wr[data[i]].task # 0
      PROVE  /\ wrapper' = wr /\ UNCHANGED << freeid, allset >>
             /\ co' = [co EXCEPT ![i] = "RUNNING"] /\ curco' = i
             /\ \E t \in Tasks1 : /\ frame' = [frame EXCEPT ![i] = t]
                                  /\ frame[i] # 0 => t = frame[i]
                                  /\ frame[i] = 0 => t = wr[data[i]].task
  <2>1. frame[i] \in Tasks1 \cup {0} /\ wr[data[i]].task \in Tasks1 \cup {0}
    BY <1>2, <1>3, <1>4 DEF TypeOK
  <2>2. PICK t \in Tasks1 : t = IF frame[i] # 0 THEN frame[i] ELSE wr[data[i]].task
    BY <1>4, <2>1
  <2>3. frame' = [frame EXCEPT ![i] = t]
    BY <1>4, <2>2 DEF Resume
  <2> QED BY <1>4, <2>2, <2>3 DEF Resume
<1>5. ASSUME co[i] = "SUSPEND", frame[i] = 0, wr[data[i]].task = 0
      PROVE  /\ co' = [co EXCEPT ![i] = "none"] /\ UNCHANGED << frame, curco >>
             /\ data[i] \in Wrappers
             /\ wrapper' = [wr EXCEPT ![data[i]].mem = "freed"]
             /\ allset' = allset \ {data[i]} /\ freeid' = Append(freeid, i)
  BY <1>2, <1>5 DEF Resume
<1> QED BY <1>1, <1>4, <1>5

(* The coroutines that are there when the status of one has changed.        *)
LEMMA LiveAfter ==
  ASSUME TypeOK, NEW i \in Ids, NEW x, co' = [co EXCEPT ![i] = x]
  PROVE  Live' = IF x = "none" THEN Live \ {i} ELSE Live \cup {i}
BY DEF TypeOK, Live

(* Coroutine::resume keeps the order of coroutines, ids and wrappers,       *)
(* whatever it is called with.                                              *)
LEMMA ResumeKeeps ==
  ASSUME TypeOK, IdsExact, Placed, curco = 0,
         NEW i \in Ids, NEW wr \in [Wrappers -> WrapperType],
         \A w \in Wrappers : wr[w].mem = wrapper[w].mem /\ wr[w].co_id = wrapper[w].co_id,
         Resume(i, wr), UNCHANGED << data, nco >>,
         gfreecovec' \in Seq(Wrappers), Range(gfreecovec') \subseteq Range(gfreecovec)
  PROVE  CoTypes' /\ IdsExact' /\ Placed' /\ Used' = Used
<1> USE NumberParts
<1>1. /\ \A k \in 1..Len(gfreecovec) : gfreecovec[k] \in Wrappers
      /\ \A k \in 1..Len(gfreecovec') : gfreecovec'[k] \in Range(gfreecovec)
      /\ \A w \in Range(gfreecovec) : w \in Wrappers /\ wrapper[w].mem # "none"
  <2>1. gfreecovec \in Seq(Wrappers)
    BY DEF TypeOK
  <2>2. Range(gfreecovec) = {gfreecovec[k] : k \in 1..Len(gfreecovec)}
        /\ Range(gfreecovec) \subseteq Wrappers
    BY <2>1, RangeOf
  <2>3. Range(gfreecovec') = {gfreecovec'[k] : k \in 1..Len(gfreecovec')}
    BY RangeOf
  <2>4. \A k \in 1..Len(gfreecovec) :
          gfreecovec[k] \in Wrappers /\ wrapper[gfreecovec[k]].mem # "none"
    BY <2>2 DEF Placed
  <2>5. \A k \in 1..Len(gfreecovec') : gfreecovec'[k] \in Range(gfreecovec)
    BY <2>3
  <2>6. \A w \in Range(gfreecovec) : w \in Wrappers /\ wrapper[w].mem # "none"
    BY <2>2, <2>4
  <2> QED BY <2>4, <2>5, <2>6
<1>2. ASSUME wrapper' \in [Wrappers -> WrapperType],
             \A w \in Wrappers : /\ wrapper'[w].co_id = wrapper[w].co_id
                                 /\ wrapper'[w].mem = "none" <=> wrapper[w].mem = "none"
      PROVE  /\ \A w \in Wrappers : wrapper'[w].mem # "none" => wrapper'[w].co_id # 0
             /\ \A k \in 1..Len(gfreecovec') : wrapper'[gfreecovec'[k]].mem # "none"
             /\ \A j \in Ids : co[j] # "none" => wrapper'[data[j]].mem # "none"
             /\ Used' = Used
  <2>1. \A w \in Wrappers : wrapper'[w].mem # "none" => wrapper'[w].co_id # 0
    BY <1>2 DEF Placed
  <2>2. \A k \in 1..Len(gfreecovec') : wrapper'[gfreecovec'[k]].mem # "none"
    <3>1. \A k \in 1..Len(gfreecovec') :
            gfreecovec'[k] \in Wrappers /\ wrapper[gfreecovec'[k]].mem # "none"
      BY <1>1
    <3> QED BY <1>2, <3>1
  <2>3. \A j \in Ids : co[j] # "none" => wrapper'[data[j]].mem # "none"
    <3>1. \A j \in Ids : co[j] # "none" => data[j] \in Wrappers /\ wrapper[data[j]].mem # "none"
      BY DEF Placed, TypeOK
    <3> QED BY <1>2, <3>1
  <2>4. Used' = Used
    BY <1>2 DEF Used
  <2> QED BY <2>1, <2>2, <2>3, <2>4
<1>3. CASE co[i] # "SUSPEND" /\ wrapper' = wr
           /\ UNCHANGED << co, frame, curco, freeid, allset >>
  <2>1. CoTypes'
    BY <1>3 DEF TypeOK, CoTypes
  <2>2. IdsExact'
    BY <1>3 DEF IdsExact, Live
  <2> QED BY <1>2, <1>3, <2>1, <2>2 DEF Placed
<1>4. ASSUME co[i] = "SUSPEND", wrapper' = wr, UNCHANGED << freeid, allset >>,
             co' = [co EXCEPT ![i] = "RUNNING"], curco' = i,
             NEW t \in Tasks1, frame' = [frame EXCEPT ![i] = t]
      PROVE  CoTypes' /\ IdsExact' /\ Placed' /\ Used' = Used
  <2>1. CoTypes'
    BY <1>4 DEF TypeOK, CoTypes
  <2>2. i \in Live /\ Live' = Live
    BY <1>4, LiveAfter DEF Live
  <2>3. IdsExact'
    BY <1>4, <2>2 DEF IdsExact
  <2>4. /\ \A j \in Ids : co'[j] = "RUNNING" <=> j = curco'
        /\ frame'[curco'] # 0
        /\ \A j \in Ids : co'[j] # "none" => data'[j] # 0
    BY <1>4 DEF TypeOK, Placed
  <2> QED BY <1>2, <1>4, <2>1, <2>3, <2>4 DEF Placed
<1>5. ASSUME co[i] = "SUSPEND", UNCHANGED << frame, curco >>,
             co' = [co EXCEPT ![i] = "none"], data[i] \in Wrappers,
             wrapper' = [wr EXCEPT ![data[i]].mem = "freed"],
             allset' = allset \ {data[i]}, freeid' = Append(freeid, i)
      PROVE  CoTypes' /\ IdsExact' /\ Placed' /\ Used' = Used
  <2>1. /\ freeid \in Seq(Ids) /\ freeid' \in Seq(Ids)
        /\ Range(freeid') = Range(freeid) \cup {i}
        /\ Distinct(freeid) /\ i \notin Range(freeid) => Distinct(freeid')
    BY <1>5, Appended DEF TypeOK
  <2>2. wrapper' \in [Wrappers -> WrapperType]
    BY <1>5 DEF WrapperType
  <2>3. CoTypes'
    BY <1>5, <2>1, <2>2 DEF TypeOK, CoTypes
  <2>4. i \in Live /\ Live' = Live \ {i}
    BY <1>5, LiveAfter DEF Live
  <2>5. IdsExact'
    BY <2>1, <2>4 DEF IdsExact, Distinct
  <2>6. \A w \in Wrappers : /\ wrapper'[w].co_id = wrapper[w].co_id
                            /\ wrapper'[w].mem = "none" <=> wrapper[w].mem = "none"
    <3>1. wrapper[data[i]].mem # "none"
      BY <1>5 DEF Placed
    <3> QED BY <1>5, <3>1 DEF WrapperType
  <2>7. /\ \A j \in Ids : co'[j] = "RUNNING" <=> j = curco'
        /\ \A j \in Ids : co'[j] # "none" => data'[j] # 0
    BY <1>5 DEF TypeOK, Placed
  <2> QED BY <1>2, <1>5, <2>2, <2>3, <2>5, <2>6, <2>7 DEF Placed
<1> QED BY <1>3, <1>4, <1>5, ResumeCases

(* The wrapper and the id for a new coroutine exist, and nobody has them.   *)
LEMMA NewParts ==
  ASSUME TypeOK, IdsExact, nco <= Cardinality(Used), Cardinality(Used) < MaxTasks
  PROVE  /\ NewWrapper \in Wrappers /\ wrapper[NewWrapper].mem = "none"
         /\ NewId \in Ids /\ co[NewId] = "none"
         /\ freeid = << >> => NewId = nco + 1 /\ nco + 1 \in 0..MaxTasks
         /\ freeid # << >> => /\ NewId = Last(freeid) /\ Front(freeid) \in Seq(Ids)
                             /\ Range(freeid) = Range(Front(freeid)) \cup {NewId}
                             /\ NewId \notin Range(Front(freeid))
                             /\ Distinct(Front(freeid))
<1>1. \E w \in Wrappers : wrapper[w].mem = "none"
  <2>1. Used # Wrappers
    BY UsedFinite
  <2> QED BY <2>1 DEF Used
<1>2. NewWrapper \in Wrappers /\ wrapper[NewWrapper].mem = "none"
  BY <1>1 DEF NewWrapper
<1>3. CASE freeid = << >>
  <2>1. NewId = nco + 1 /\ nco + 1 \in Ids /\ nco + 1 \in 0..MaxTasks /\ nco + 1 \notin 1..nco
    BY <1>3, TaskNumbers, NumberParts, UsedFinite DEF NewId, Ids
  <2>2. Live \subseteq 1..nco
    BY DEF IdsExact
  <2>3. co[NewId] = "none"
    BY <2>1, <2>2 DEF Live
  <2> QED BY <1>2, <1>3, <2>1, <2>3
<1>4. CASE freeid # << >>
  <2>1. freeid \in Seq(Ids) /\ Distinct(freeid)
    BY DEF TypeOK, IdsExact, Distinct
  <2>2. /\ NewId = Last(freeid) /\ Front(freeid) \in Seq(Ids) /\ NewId \in Ids
        /\ Range(freeid) = Range(Front(freeid)) \cup {NewId}
        /\ NewId \notin Range(Front(freeid))
        /\ Distinct(Front(freeid))
    BY <1>4, <2>1, Fronted DEF NewId
  <2>3. NewId \notin Live
    BY <2>2 DEF IdsExact
  <2> QED BY <1>2, <1>4, <2>2, <2>3 DEF Live
<1> QED BY <1>3, <1>4

(* What StartNew does, in terms of its id and its wrapper.                  *)
LEMMA StartNewParts ==
  ASSUME TypeOK, IdsExact, nco <= Cardinality(Used), Cardinality(Used) < MaxTasks,
         NEW t \in Tasks1, StartNew(t)
  PROVE  \E i \in Ids, w \in Wrappers :
           /\ wrapper[w].mem = "none" /\ co[i] = "none"
           /\ wrapper' = [wrapper EXCEPT ![w] = [mem |-> "live", co_id |-> i, task |-> t]]
           /\ co' = [co EXCEPT ![i] = "RUNNING"] /\ curco' = i
           /\ frame' = [frame EXCEPT ![i] = t] /\ data' = [data EXCEPT ![i] = w]
           /\ allset' = allset \cup {w} /\ UNCHANGED << gfreecovec, undefined >>
           /\ freeid' \in Seq(Ids) /\ Distinct(freeid') /\ nco' \in 0..MaxTasks
           /\ i \notin Range(freeid') /\ i \notin Live
           /\ Range(freeid') \cup {i} \cup Live = 1..nco' /\ Range(freeid') \subseteq Range(freeid)
           /\ nco' <= nco + 1
<1>1. PICK i \in Ids : i = NewId
  BY NewParts
<1>2. PICK w \in Wrappers : w = NewWrapper
  BY NewParts
<1>3. wrapper[w].mem = "none" /\ co[i] = "none" /\ i \notin Live
  BY <1>1, <1>2, NewParts DEF Live
<1>4. /\ wrapper' = [wrapper EXCEPT ![w] = [mem |-> "live", co_id |-> i, task |-> t]]
      /\ co' = [co EXCEPT ![i] = "RUNNING"] /\ curco' = i
      /\ frame' = [frame EXCEPT ![i] = t] /\ data' = [data EXCEPT ![i] = w]
      /\ allset' = allset \cup {w} /\ UNCHANGED << gfreecovec, undefined >>
      /\ freeid' = IF freeid = << >> THEN freeid ELSE Front(freeid)
      /\ nco' = IF freeid = << >> THEN nco + 1 ELSE nco
  BY <1>1, <1>2 DEF StartNew
<1>5. nco \in Nat /\ nco \in 0..MaxTasks /\ nco <= nco + 1 /\ nco <= nco
  BY TaskNumbers, NumberParts
<1>6. Range(freeid) \cup Live = 1..nco
  BY DEF IdsExact
<1>7. CASE freeid = << >>
  <2>1. freeid' = << >> /\ nco' = nco + 1 /\ i = nco + 1 /\ nco + 1 \in 0..MaxTasks
    BY <1>1, <1>4, <1>7, NewParts
  <2>2. << >> \in Seq(Ids) /\ Range(<< >>) = {} /\ Distinct(<< >>)
    BY DEF Range, Distinct
  <2>3. 1..(nco + 1) = (1..nco) \cup {nco + 1}
    BY <1>5
  <2>4. Range(freeid') = {} /\ freeid' \in Seq(Ids) /\ Distinct(freeid')
    BY <2>1, <2>2
  <2>5. Range(freeid) = {}
    BY <1>7, <2>2
  <2>6. Live = 1..nco
    BY <1>6, <2>5
  <2>7. Range(freeid') \cup {i} \cup Live = 1..nco'
    BY <2>1, <2>3, <2>4, <2>6
  <2>8. Range(freeid') \subseteq Range(freeid) /\ i \notin Range(freeid')
    BY <2>4
  <2>9. nco' \in 0..MaxTasks /\ nco' <= nco + 1
    BY <1>5, <2>1
  <2> QED BY <1>3, <1>4, <2>4, <2>7, <2>8, <2>9
<1>8. CASE freeid # << >>
  <2>1. /\ freeid' = Front(freeid) /\ nco' = nco /\ freeid' \in Seq(Ids)
        /\ Range(freeid) = Range(freeid') \cup {i} /\ i \notin Range(freeid')
        /\ Distinct(freeid')
    BY <1>1, <1>4, <1>8, NewParts
  <2>2. Range(freeid') \cup {i} \cup Live = 1..nco'
    BY <1>6, <2>1
  <2> QED BY <1>3, <1>4, <1>5, <2>1, <2>2
<1> QED BY <1>7, <1>8

(* doTask keeps the order of coroutines, ids and wrappers.                  *)
LEMMA StartKeeps ==
  ASSUME TypeOK, IdsExact, Placed, curco = 0, nco <= Cardinality(Used),
         Cardinality(Used) < MaxTasks, NEW t \in Tasks1, Start(t)
  PROVE  /\ CoTypes' /\ IdsExact' /\ Placed' /\ undefined' \in BOOLEAN
         /\ nco' <= Cardinality(Used') /\ Cardinality(Used') <= Cardinality(Used) + 1
         /\ Cardinality(Used') \in Nat
<1> USE NumberParts
<1>1. ASSUME StartNew(t)
      PROVE  /\ CoTypes' /\ IdsExact' /\ Placed' /\ undefined' \in BOOLEAN
             /\ nco' <= Cardinality(Used') /\ Cardinality(Used') <= Cardinality(Used) + 1
             /\ Cardinality(Used') \in Nat
  <2>1. PICK i \in Ids, w \in Wrappers :
           /\ wrapper[w].mem = "none" /\ co[i] = "none"
           /\ wrapper' = [wrapper EXCEPT ![w] = [mem |-> "live", co_id |-> i, task |-> t]]
           /\ co' = [co EXCEPT ![i] = "RUNNING"] /\ curco' = i
           /\ frame' = [frame EXCEPT ![i] = t] /\ data' = [data EXCEPT ![i] = w]
           /\ allset' = allset \cup {w} /\ UNCHANGED << gfreecovec, undefined >>
           /\ freeid' \in Seq(Ids) /\ Distinct(freeid') /\ nco' \in 0..MaxTasks
           /\ i \notin Range(freeid') /\ i \notin Live
           /\ Range(freeid') \cup {i} \cup Live = 1..nco' /\ Range(freeid') \subseteq Range(freeid)
           /\ nco' <= nco + 1
    BY <1>1, StartNewParts
  <2>2. PICK r \in WrapperType : r = [mem |-> "live", co_id |-> i, task |-> t]
    BY DEF WrapperType
  <2>3. r.mem = "live" /\ r.co_id = i
    BY <2>2
  <2>4. wrapper' = [wrapper EXCEPT ![w] = r] /\ wrapper' \in [Wrappers -> WrapperType]
    BY <2>1, <2>2 DEF TypeOK, WrapperType
  <2>5. CoTypes'
    <3>1. /\ co' \in [Ids -> {"none", "SUSPEND", "RUNNING"}]
          /\ data' \in [Ids -> Wrappers \cup {0}] /\ frame' \in [Ids -> Tasks1 \cup {0}]
      BY <2>1 DEF TypeOK
    <3>2. gfreecovec' \in Seq(Wrappers) /\ allset' \subseteq Wrappers
      BY <2>1 DEF TypeOK
    <3>3. curco' \in Ids \cup {0}
      BY <2>1
    <3> QED BY <2>1, <2>4, <3>1, <3>2, <3>3 DEF CoTypes
  <2>6. Live' = Live \cup {i}
    <3>1. co' = [co EXCEPT ![i] = "RUNNING"] /\ "RUNNING" # "none"
      BY <2>1
    <3> QED BY <3>1 DEF TypeOK, Live
  <2>7. IdsExact'
    BY <2>1, <2>6 DEF IdsExact, Distinct
  <2>8. \A v \in Wrappers : wrapper'[v] = IF v = w THEN r ELSE wrapper[v]
    BY <2>4 DEF TypeOK
  <2>9. \A v \in Wrappers : wrapper[v].mem # "none" => wrapper'[v].mem # "none"
    BY <2>3, <2>8
  <2>10. Placed'
    <3>1. \A j \in Ids : co'[j] = "RUNNING" <=> j = curco'
      BY <2>1 DEF TypeOK, Placed
    <3>2. frame'[curco'] # 0
      BY <2>1 DEF TypeOK
    <3>3. \A j \in Ids : co'[j] # "none" => data'[j] # 0 /\ wrapper'[data'[j]].mem # "none"
      <4>1. data'[i] = w /\ wrapper'[w].mem # "none"
        BY <2>1, <2>3, <2>8 DEF TypeOK
      <4>2. ASSUME NEW j \in Ids, j # i, co'[j] # "none"
            PROVE  data'[j] # 0 /\ wrapper'[data'[j]].mem # "none"
        <5>1. data'[j] = data[j] /\ co[j] # "none"
          BY <2>1, <4>2 DEF TypeOK
        <5>2. data[j] \in Wrappers /\ wrapper[data[j]].mem # "none"
          BY <5>1 DEF TypeOK, Placed
        <5> QED BY <2>9, <5>1, <5>2
      <4> QED BY <4>1, <4>2
    <3>4. \A v \in Wrappers : wrapper'[v].mem # "none" => wrapper'[v].co_id # 0
      BY <2>3, <2>8 DEF Placed
    <3>5. \A k \in 1..Len(gfreecovec) : gfreecovec[k] \in Wrappers
      BY ElementOfSeq DEF TypeOK
    <3>6. \A k \in 1..Len(gfreecovec) : wrapper'[gfreecovec[k]].mem # "none"
      BY <2>9, <3>5 DEF Placed
    <3>7. gfreecovec' = gfreecovec
      BY <2>1
    <3> QED BY <3>1, <3>2, <3>3, <3>4, <3>6, <3>7 DEF Placed
  <2>11. Used' = Used \cup {w} /\ w \notin Used
    BY <2>1, <2>3, <2>8 DEF Used
  <2>12. Cardinality(Used') = Cardinality(Used) + 1
    BY <2>11, UsedFinite, FS_AddElement
  <2>13. nco' <= Cardinality(Used')
    BY <2>1, <2>12, UsedFinite, TaskNumbers
  <2> QED BY <2>1, <2>5, <2>7, <2>10, <2>12, <2>13, UsedFinite DEF TypeOK
<1>2. ASSUME StartKept(t)
      PROVE  /\ CoTypes' /\ IdsExact' /\ Placed' /\ undefined' \in BOOLEAN
             /\ Used' = Used /\ nco' = nco
  <2> DEFINE w == Last(gfreecovec)
             i == wrapper[w].co_id
  <2>1. /\ gfreecovec \in Seq(Wrappers) /\ gfreecovec # << >>
        /\ gfreecovec' = Front(gfreecovec) /\ UNCHANGED << data, nco >>
    BY <1>2 DEF StartKept, TypeOK
  <2>2. /\ gfreecovec' \in Seq(Wrappers) /\ Range(gfreecovec') \subseteq Range(gfreecovec)
        /\ w \in Wrappers /\ w = gfreecovec[Len(gfreecovec)]
        /\ Len(gfreecovec) \in 1..Len(gfreecovec)
        /\ \A k \in 1..Len(gfreecovec') :
             k \in 1..Len(gfreecovec) /\ gfreecovec'[k] = gfreecovec[k]
    BY <2>1, Fronted
  <2>3. i \in Ids
    <3>1. wrapper[w].mem # "none"
      BY <2>2 DEF Placed
    <3>2. wrapper[w].co_id # 0 /\ wrapper[w].co_id \in Ids \cup {0}
      BY <2>2, <3>1 DEF Placed, TypeOK
    <3> QED BY <3>2
  <2>4. CASE wrapper[w].mem = "freed"
    <3>1. undefined' = TRUE /\ UNCHANGED << co, frame, freeid, curco, wrapper, allset >>
      BY <1>2, <2>4 DEF StartKept
    <3>2. CoTypes'
      <4>1. /\ co' = co /\ data' = data /\ frame' = frame /\ freeid' = freeid /\ nco' = nco
            /\ curco' = curco /\ wrapper' = wrapper /\ allset' = allset
            /\ gfreecovec' \in Seq(Wrappers)
        BY <2>1, <2>2, <3>1
      <4> HIDE DEF w, i
      <4> QED BY <4>1 DEF TypeOK, CoTypes, WrapperType
    <3>3. Placed'
      BY <2>1, <2>2, <3>1 DEF Placed
    <3>4. Used' = Used /\ IdsExact'
      BY <2>1, <3>1 DEF Used, IdsExact, Live
    <3> QED BY <2>1, <3>1, <3>2, <3>3, <3>4
  <2>5. CASE wrapper[w].mem # "freed"
    <3>1. undefined' = undefined /\ Resume(i, [wrapper EXCEPT ![w].task = t])
      BY <1>2, <2>5 DEF StartKept
    <3>2. PICK wr \in [Wrappers -> WrapperType] : wr = [wrapper EXCEPT ![w].task = t]
      <4>1. [wrapper EXCEPT ![w].task = t] \in [Wrappers -> WrapperType]
        BY <2>2 DEF TypeOK, WrapperType
      <4> QED BY <4>1
    <3>3. \A v \in Wrappers : wr[v].mem = wrapper[v].mem /\ wr[v].co_id = wrapper[v].co_id
      BY <2>2, <3>2 DEF TypeOK
    <3> HIDE DEF w, i
    <3>4. Resume(i, wr)
      BY <3>1, <3>2
    <3>5. CoTypes' /\ IdsExact' /\ Placed' /\ Used' = Used
      BY <2>1, <2>2, <2>3, <3>3, <3>4, ResumeKeeps
    <3> QED BY <2>1, <3>1, <3>5 DEF TypeOK
  <2> QED BY <2>4, <2>5
<1> QED BY <1>1, <1>2, UsedFinite DEF Start

-----------------------------------------------------------------------------
(* Every step keeps the order of coroutines, ids and wrappers.             *)

(* A step that touches neither the schedule nor the pools.                  *)
LEMMA Still ==
  ASSUME CoInv, UNCHANGED << schedule, pools >>
  PROVE  CoTypes' /\ IdsExact' /\ Placed' /\ Used' = Used /\ nco' = nco
<1>1. /\ co' = co /\ data' = data /\ frame' = frame /\ freeid' = freeid /\ nco' = nco
      /\ curco' = curco /\ wrapper' = wrapper /\ allset' = allset
      /\ gfreecovec' = gfreecovec
  BY DEF schedule, pools
<1>2. CoTypes'
  BY <1>1 DEF CoInv, TypeOK, CoTypes, WrapperType
<1>3. IdsExact'
  BY <1>1 DEF CoInv, IdsExact, Live
<1>4. Placed'
  BY <1>1 DEF CoInv, Placed
<1> QED BY <1>1, <1>2, <1>3, <1>4 DEF Used

(* doTask(func, p).                                                         *)
LEMMA DoTaskNowKeeps == ASSUME CoInv, DoTaskNow PROVE CoInv'
<1> USE NumberParts
<1>1. TypeOK /\ IdsExact /\ Placed /\ Supply
  BY DEF CoInv
<1>2. /\ given < MaxTasks /\ given' = given + 1
      /\ UNCHANGED << lists, done, yields, twice, clears >>
      /\ \/ InMain /\ Start(given + 1) /\ UNCHANGED dropped
         \/ /\ Running /\ dropped' = dropped \cup {given + 1}
            /\ UNCHANGED << schedule, pools, undefined >>
  BY DEF DoTaskNow
<1>3. PICK c \in Nat, l \in Nat : c = Cardinality(Used) /\ l = Len(gworktasklist)
  BY <1>1, UsedFinite, TaskNumbers
<1>4. given \in Nat /\ nco \in Nat /\ nco <= c /\ c + l <= given
  BY <1>1, <1>3, TaskNumbers DEF Supply
<1>5. given + 1 \in Tasks1
  BY <1>2, <1>4 DEF Tasks1
<1>6. dropped' \subseteq Tasks1 /\ gworktasklist' = gworktasklist
  BY <1>1, <1>2, <1>5 DEF TypeOK, lists
<1>7. TaskTypes'
  BY <1>1, <1>2, <1>4, <1>6 DEF TypeOK, TaskTypes, lists
<1>8. CASE InMain /\ Start(given + 1)
  <2>1. c < MaxTasks
    BY <1>2, <1>4
  <2>2. curco = 0
    BY <1>8 DEF InMain
  <2>3. /\ CoTypes' /\ IdsExact' /\ Placed' /\ undefined' \in BOOLEAN
        /\ nco' <= Cardinality(Used') /\ Cardinality(Used') <= c + 1 /\ Cardinality(Used') \in Nat
    BY <1>1, <1>3, <1>4, <1>5, <1>8, <2>1, <2>2, StartKeeps
  <2>4. CountTypes'
    BY <1>1, <1>2, <2>3 DEF TypeOK, CountTypes
  <2>5. TypeOK'
    BY <1>7, <2>3, <2>4, TypeParts, PTL
  <2>7. Supply'
    BY <1>2, <1>3, <1>4, <1>6, <2>3 DEF Supply
  <2> QED BY <2>3, <2>5, <2>7 DEF CoInv
<1>9. CASE UNCHANGED << schedule, pools, undefined >>
  <2>1. CoTypes' /\ IdsExact' /\ Placed' /\ Used' = Used /\ nco' = nco
    BY <1>9, Still
  <2>2. CountTypes'
    BY <1>1, <1>2, <1>9 DEF TypeOK, CountTypes
  <2>3. TypeOK'
    BY <1>7, <2>1, <2>2, TypeParts, PTL
  <2>4. Supply'
    BY <1>2, <1>3, <1>4, <1>6, <2>1 DEF Supply
  <2> QED BY <2>1, <2>3, <2>4 DEF CoInv
<1> QED BY <1>2, <1>8, <1>9

(* addTask.                                                                 *)
LEMMA AddTaskKeeps == ASSUME CoInv, AddTask PROVE CoInv'
<1> USE NumberParts
<1>1. TypeOK /\ IdsExact /\ Placed /\ Supply
  BY DEF CoInv
<1>2. /\ given < MaxTasks /\ given' = given + 1
      /\ gworktasklist' = Append(gworktasklist, given + 1)
      /\ UNCHANGED << schedule, pools >>
      /\ UNCHANGED << reslist, idlist, owed, done, dropped, yields, twice, clears, undefined >>
  BY DEF AddTask
<1>3. PICK c \in Nat, l \in Nat : c = Cardinality(Used) /\ l = Len(gworktasklist)
  BY <1>1, UsedFinite, TaskNumbers
<1>4. given \in Nat /\ nco \in Nat /\ nco <= c /\ c + l <= given
  BY <1>1, <1>3, TaskNumbers DEF Supply
<1>5. given + 1 \in Tasks1
  BY <1>2, <1>4 DEF Tasks1
<1>6. gworktasklist' \in Seq(Tasks1) /\ Len(gworktasklist') = l + 1
  BY <1>1, <1>2, <1>3, <1>5, Appended DEF TypeOK
<1>7. CoTypes' /\ IdsExact' /\ Placed' /\ Used' = Used /\ nco' = nco
  BY <1>2, Still
<1>8. TaskTypes'
  BY <1>1, <1>2, <1>4, <1>6 DEF TypeOK, TaskTypes
<1>9. CountTypes'
  BY <1>1, <1>2 DEF TypeOK, CountTypes
<1>10. TypeOK'
  BY <1>7, <1>8, <1>9, TypeParts, PTL
<1>11. Supply'
  BY <1>2, <1>3, <1>4, <1>6, <1>7 DEF Supply
<1> QED BY <1>7, <1>10, <1>11 DEF CoInv

(* doTask() with a task of addTask.                                         *)
LEMMA DoTaskKeeps == ASSUME CoInv, DoTask PROVE CoInv'
<1> USE NumberParts
<1>1. TypeOK /\ IdsExact /\ Placed /\ Supply
  BY DEF CoInv
<1>2. PICK t : t = Head(gworktasklist)
  OBVIOUS
<1>3. /\ curco = 0 /\ gworktasklist # << >> /\ gworktasklist' = Tail(gworktasklist)
      /\ Start(t) /\ UNCHANGED << reslist, idlist, owed >>
      /\ UNCHANGED << given, done, dropped, yields, twice, clears >>
  BY <1>2 DEF DoTask, InMain, history
<1>4. PICK c \in Nat, l \in Nat : c = Cardinality(Used) /\ l = Len(gworktasklist)
  BY <1>1, UsedFinite, TaskNumbers
<1>5. given \in Nat /\ given <= MaxTasks /\ nco \in Nat /\ nco <= c /\ c + l <= given
  BY <1>1, <1>4, TaskNumbers DEF Supply
<1>6. gworktasklist' \in Seq(Tasks1) /\ Len(gworktasklist') = l - 1 /\ t \in Tasks1
  BY <1>1, <1>2, <1>3, <1>4, Tailed DEF TypeOK
<1>7. l - 1 \in Nat
  <2>1. Len(gworktasklist') \in Nat
    BY <1>6, LenProperties
  <2> QED BY <1>6, <2>1
<1>8. c < MaxTasks
  BY <1>5, <1>7
<1>9. /\ CoTypes' /\ IdsExact' /\ Placed' /\ undefined' \in BOOLEAN
      /\ nco' <= Cardinality(Used') /\ Cardinality(Used') <= c + 1 /\ Cardinality(Used') \in Nat
  BY <1>1, <1>3, <1>4, <1>5, <1>6, <1>8, StartKeeps
<1>10. TaskTypes'
  BY <1>1, <1>3, <1>6 DEF TypeOK, TaskTypes
<1>11. CountTypes'
  BY <1>1, <1>3, <1>9 DEF TypeOK, CountTypes
<1>12. TypeOK'
  BY <1>9, <1>10, <1>11, TypeParts, PTL
<1>13. Supply'
  BY <1>3, <1>4, <1>5, <1>6, <1>9 DEF Supply
<1> QED BY <1>9, <1>12, <1>13 DEF CoInv

(* A step that changes neither given tasks nor ids handed out.              *)
LEMMA SupplyStays ==
  ASSUME CoInv, UNCHANGED << nco, given >>, Used' = Used,
         gworktasklist' = gworktasklist \/ gworktasklist' = << >>
  PROVE  Supply'
<1>1. PICK c \in Nat, l \in Nat : c = Cardinality(Used) /\ l = Len(gworktasklist)
  BY UsedFinite, TaskNumbers DEF CoInv
<1>2. given \in Nat /\ nco \in Nat /\ nco <= c /\ c + l <= given
  BY <1>1, TaskNumbers DEF CoInv, Supply
<1>3. Len(gworktasklist') = l \/ Len(gworktasklist') = 0
  BY <1>1, EmptySeq
<1> QED BY <1>1, <1>2, <1>3 DEF Supply

(* The running task yields.                                                 *)
LEMMA YieldKeeps == ASSUME CoInv, Yield PROVE CoInv'
<1> USE NumberParts
<1>1. TypeOK /\ IdsExact /\ Placed /\ Supply
  BY DEF CoInv
<1>2. PICK i \in Ids : i = curco
  BY <1>1 DEF Yield, Running, TypeOK
<1>3. /\ yields < MaxYields /\ yields' = yields + 1
      /\ co' = [co EXCEPT ![i] = "SUSPEND"] /\ curco' = 0
      /\ owed' = owed \cup {[id |-> i, for |-> frame[i]]}
      /\ UNCHANGED << data, frame, freeid, nco, wrapper, gfreecovec, allset, gworktasklist,
                      reslist, idlist, given, done, dropped, twice, clears, undefined >>
  BY <1>2 DEF Yield, pools
<1>4. frame[i] \in Tasks1 /\ co[i] = "RUNNING"
  BY <1>1, <1>2 DEF TypeOK, Placed
<1>5. CoTypes'
  BY <1>1, <1>3 DEF TypeOK, CoTypes, WrapperType
<1>6. owed' \subseteq Resumes
  BY <1>1, <1>3, <1>4 DEF TypeOK, Resumes
<1>7. TaskTypes'
  BY <1>1, <1>3, <1>6 DEF TypeOK, TaskTypes
<1>8. CountTypes'
  BY <1>1, <1>3, UseAssumption DEF TypeOK, CountTypes
<1>9. TypeOK'
  BY <1>5, <1>7, <1>8, TypeParts, PTL
<1>10. Live' = Live
  BY <1>1, <1>3, <1>4 DEF TypeOK, Live
<1>11. IdsExact'
  BY <1>1, <1>3, <1>10 DEF IdsExact
<1>12. Placed'
  <2>1. \A j \in Ids : co'[j] = "RUNNING" <=> j = curco'
    BY <1>1, <1>2, <1>3 DEF TypeOK, Placed
  <2>2. \A j \in Ids : co'[j] # "none" => co[j] # "none"
    BY <1>1, <1>3, <1>4 DEF TypeOK
  <2> QED BY <1>1, <1>3, <2>1, <2>2 DEF Placed
<1>13. Used' = Used
  BY <1>3 DEF Used
<1>14. Supply'
  BY <1>3, <1>13, SupplyStays
<1> QED BY <1>9, <1>11, <1>12, <1>14 DEF CoInv

(* A change to what a used wrapper is used for.                             *)
LEMMA WrapperChanged ==
  ASSUME CoInv, NEW w \in Wrappers, wrapper[w].mem # "none",
         \/ wrapper' = [wrapper EXCEPT ![w].mem = "freed"]
         \/ wrapper' = [wrapper EXCEPT ![w].task = 0]
  PROVE  /\ wrapper' \in [Wrappers -> WrapperType]
         /\ \A v \in Wrappers : /\ wrapper'[v].co_id = wrapper[v].co_id
                                /\ wrapper'[v].mem = "none" <=> wrapper[v].mem = "none"
<1>1. wrapper \in [Wrappers -> WrapperType]
  BY DEF CoInv, TypeOK, WrapperType
<1>2. wrapper[w] \in WrapperType
  BY <1>1
<1>3. PICK r \in WrapperType : /\ r.co_id = wrapper[w].co_id /\ r.mem # "none"
                               /\ wrapper' = [wrapper EXCEPT ![w] = r]
  <2>1. CASE wrapper' = [wrapper EXCEPT ![w].mem = "freed"]
    <3>1. wrapper' = [wrapper EXCEPT ![w] = [wrapper[w] EXCEPT !.mem = "freed"]]
      BY <2>1
    <3>2. [wrapper[w] EXCEPT !.mem = "freed"] \in WrapperType
      BY <1>2 DEF WrapperType
    <3>3. /\ [wrapper[w] EXCEPT !.mem = "freed"].co_id = wrapper[w].co_id
          /\ [wrapper[w] EXCEPT !.mem = "freed"].mem = "freed"
      BY <1>2 DEF WrapperType
    <3> QED BY <3>1, <3>2, <3>3
  <2>2. CASE wrapper' = [wrapper EXCEPT ![w].task = 0]
    <3>1. wrapper' = [wrapper EXCEPT ![w] = [wrapper[w] EXCEPT !.task = 0]]
      BY <2>2
    <3>2. [wrapper[w] EXCEPT !.task = 0] \in WrapperType
      BY <1>2 DEF WrapperType
    <3>3. /\ [wrapper[w] EXCEPT !.task = 0].co_id = wrapper[w].co_id
          /\ [wrapper[w] EXCEPT !.task = 0].mem = wrapper[w].mem
      BY <1>2 DEF WrapperType
    <3> QED BY <3>1, <3>2, <3>3
  <2> QED BY <2>1, <2>2
<1>4. \A v \in Wrappers : wrapper'[v] = IF v = w THEN r ELSE wrapper[v]
  BY <1>1, <1>3
<1>5. wrapper' \in [Wrappers -> WrapperType]
  BY <1>1, <1>3
<1> QED BY <1>3, <1>4, <1>5

(* The two ways in which the coroutine of a task that has ended goes on.    *)
LEMMA EndCases ==
  ASSUME CoInv, TaskEnds
  PROVE  \E i \in Ids, w \in Wrappers :
           /\ i = curco /\ w = data[i] /\ co[i] = "RUNNING" /\ frame[i] \in Tasks1
           /\ wrapper[w].mem # "none"
           /\ done' = done \cup {frame[i]} /\ frame' = [frame EXCEPT ![i] = 0] /\ curco' = 0
           /\ ~undefined
           /\ UNCHANGED << data, nco, gworktasklist, reslist, idlist, owed, given, dropped,
                           yields, twice, clears, undefined >>
           /\ \/ /\ co' = [co EXCEPT ![i] = "none"] /\ freeid' = Append(freeid, i)
                 /\ allset' = allset \ {w} /\ wrapper' = [wrapper EXCEPT ![w].mem = "freed"]
                 /\ gfreecovec' = gfreecovec
              \/ /\ co' = [co EXCEPT ![i] = "SUSPEND"] /\ UNCHANGED << freeid, allset >>
                 /\ wrapper' = [wrapper EXCEPT ![w].task = 0]
                 /\ gfreecovec' = Append(gfreecovec, w)
<1> USE NumberParts
<1>1. PICK i \in Ids : i = curco
  BY DEF CoInv, TaskEnds, Running, TypeOK
<1>2. co[i] = "RUNNING" /\ frame[i] \in Tasks1 /\ data[i] \in Wrappers
      /\ wrapper[data[i]].mem # "none"
  BY <1>1 DEF CoInv, TypeOK, Placed
<1>3. PICK w \in Wrappers : w = data[i]
  BY <1>2
<1>4. /\ done' = done \cup {frame[i]} /\ frame' = [frame EXCEPT ![i] = 0] /\ curco' = 0
      /\ ~undefined
      /\ UNCHANGED << data, nco, gworktasklist, reslist, idlist, owed, given, dropped,
                      yields, twice, clears, undefined >>
      /\ EndCoroutine(w) \/ KeepCoroutine(w)
  BY <1>1, <1>3 DEF TaskEnds, Running, lists
<1> QED BY <1>1, <1>2, <1>3, <1>4 DEF EndCoroutine, KeepCoroutine

(* The running task ends.                                                   *)
LEMMA TaskEndsKeeps == ASSUME CoInv, TaskEnds PROVE CoInv'
<1> USE NumberParts
<1>1. TypeOK /\ IdsExact /\ Placed /\ Supply
  BY DEF CoInv
<1>2. PICK i \in Ids, w \in Wrappers :
           /\ i = curco /\ w = data[i] /\ co[i] = "RUNNING" /\ frame[i] \in Tasks1
           /\ wrapper[w].mem # "none"
           /\ done' = done \cup {frame[i]} /\ frame' = [frame EXCEPT ![i] = 0] /\ curco' = 0
           /\ ~undefined
           /\ UNCHANGED << data, nco, gworktasklist, reslist, idlist, owed, given, dropped,
                           yields, twice, clears, undefined >>
           /\ \/ /\ co' = [co EXCEPT ![i] = "none"] /\ freeid' = Append(freeid, i)
                 /\ allset' = allset \ {w} /\ wrapper' = [wrapper EXCEPT ![w].mem = "freed"]
                 /\ gfreecovec' = gfreecovec
              \/ /\ co' = [co EXCEPT ![i] = "SUSPEND"] /\ UNCHANGED << freeid, allset >>
                 /\ wrapper' = [wrapper EXCEPT ![w].task = 0]
                 /\ gfreecovec' = Append(gfreecovec, w)
  BY EndCases
<1>3. TaskTypes' /\ CountTypes'
  BY <1>1, <1>2 DEF TypeOK, TaskTypes, CountTypes
<1>4. data' \in [Ids -> Wrappers \cup {0}] /\ frame' \in [Ids -> Tasks1 \cup {0}]
      /\ nco' \in 0..MaxTasks /\ curco' \in Ids \cup {0}
  BY <1>1, <1>2 DEF TypeOK
<1>5. /\ gfreecovec \in Seq(Wrappers) /\ freeid \in Seq(Ids)
      /\ Range(gfreecovec) = {gfreecovec[k] : k \in 1..Len(gfreecovec)}
      /\ \A k \in 1..Len(gfreecovec) : gfreecovec[k] \in Wrappers
  BY <1>1, RangeOf, ElementOfSeq DEF TypeOK
<1>6. \A v \in Range(gfreecovec) : v \in Wrappers /\ wrapper[v].mem # "none"
  BY <1>1, <1>5 DEF Placed
<1>7. ASSUME gfreecovec' \in Seq(Wrappers), Range(gfreecovec') \subseteq Range(gfreecovec) \cup {w},
             wrapper' \in [Wrappers -> WrapperType],
             \A v \in Wrappers : /\ wrapper'[v].co_id = wrapper[v].co_id
                                 /\ wrapper'[v].mem = "none" <=> wrapper[v].mem = "none",
             co' \in [Ids -> {"none", "SUSPEND", "RUNNING"}],
             \A j \in Ids : co'[j] = IF j = i THEN co'[i] ELSE co[j],
             co'[i] # "RUNNING"
      PROVE  Placed' /\ Used' = Used
  <2>1. \A j \in Ids : co'[j] = "RUNNING" <=> j = curco'
    BY <1>1, <1>2, <1>7 DEF Placed
  <2>2. \A j \in Ids : co'[j] # "none" => data'[j] # 0 /\ wrapper'[data'[j]].mem # "none"
    <3>1. \A j \in Ids : co'[j] # "none" => co[j] # "none"
      BY <1>2, <1>7
    <3>2. \A j \in Ids : co[j] # "none" => data[j] \in Wrappers /\ wrapper[data[j]].mem # "none"
      BY <1>1 DEF Placed, TypeOK
    <3> QED BY <1>2, <1>7, <3>1, <3>2
  <2>3. \A v \in Wrappers : wrapper'[v].mem # "none" => wrapper'[v].co_id # 0
    BY <1>1, <1>7 DEF Placed
  <2>4. \A k \in 1..Len(gfreecovec') : wrapper'[gfreecovec'[k]].mem # "none"
    <3>1. \A k \in 1..Len(gfreecovec') : gfreecovec'[k] \in Range(gfreecovec) \cup {w}
      BY <1>7, RangeOf
    <3> QED BY <1>2, <1>6, <1>7, <3>1
  <2>5. curco' = 0 /\ Used' = Used
    BY <1>2, <1>7 DEF Used
  <2> QED BY <2>1, <2>2, <2>3, <2>4, <2>5 DEF Placed
<1>8. CASE /\ co' = [co EXCEPT ![i] = "none"] /\ freeid' = Append(freeid, i)
           /\ allset' = allset \ {w} /\ wrapper' = [wrapper EXCEPT ![w].mem = "freed"]
           /\ gfreecovec' = gfreecovec
  <2>1. /\ freeid' \in Seq(Ids) /\ Range(freeid') = Range(freeid) \cup {i}
        /\ Distinct(freeid) /\ i \notin Range(freeid) => Distinct(freeid')
    BY <1>5, <1>8, Appended
  <2>2. i \in Live /\ Live' = Live \ {i}
    BY <1>1, <1>2, <1>8, LiveAfter DEF Live
  <2>3. IdsExact'
    BY <1>1, <1>2, <2>1, <2>2 DEF IdsExact, Distinct
  <2>4. /\ wrapper' \in [Wrappers -> WrapperType]
        /\ \A v \in Wrappers : /\ wrapper'[v].co_id = wrapper[v].co_id
                               /\ wrapper'[v].mem = "none" <=> wrapper[v].mem = "none"
    BY <1>2, <1>8, WrapperChanged
  <2>5. /\ co' \in [Ids -> {"none", "SUSPEND", "RUNNING"}] /\ co'[i] = "none"
        /\ \A j \in Ids : co'[j] = IF j = i THEN co'[i] ELSE co[j]
    BY <1>1, <1>8 DEF TypeOK
  <2>6. Placed' /\ Used' = Used
    BY <1>5, <1>7, <1>8, <2>4, <2>5
  <2>7. allset' \subseteq Wrappers
    BY <1>1, <1>8 DEF TypeOK
  <2>8. CoTypes'
    BY <1>4, <1>5, <1>8, <2>1, <2>4, <2>5, <2>7 DEF CoTypes
  <2>9. TypeOK'
    BY <1>3, <2>8, TypeParts, PTL
  <2> QED BY <1>2, <2>3, <2>6, <2>9, SupplyStays DEF CoInv
<1>9. CASE /\ co' = [co EXCEPT ![i] = "SUSPEND"] /\ UNCHANGED << freeid, allset >>
           /\ wrapper' = [wrapper EXCEPT ![w].task = 0]
           /\ gfreecovec' = Append(gfreecovec, w)
  <2>1. gfreecovec' \in Seq(Wrappers) /\ Range(gfreecovec') = Range(gfreecovec) \cup {w}
    BY <1>5, <1>9, Appended
  <2>2. Live' = Live
    BY <1>1, <1>2, <1>9 DEF TypeOK, Live
  <2>3. IdsExact'
    BY <1>1, <1>2, <1>9, <2>2 DEF IdsExact
  <2>4. /\ wrapper' \in [Wrappers -> WrapperType]
        /\ \A v \in Wrappers : /\ wrapper'[v].co_id = wrapper[v].co_id
                               /\ wrapper'[v].mem = "none" <=> wrapper[v].mem = "none"
    BY <1>2, <1>9, WrapperChanged
  <2>5. /\ co' \in [Ids -> {"none", "SUSPEND", "RUNNING"}] /\ co'[i] = "SUSPEND"
        /\ \A j \in Ids : co'[j] = IF j = i THEN co'[i] ELSE co[j]
    BY <1>1, <1>9 DEF TypeOK
  <2>6. Placed' /\ Used' = Used
    BY <1>7, <2>1, <2>4, <2>5
  <2>7. CoTypes'
    BY <1>1, <1>4, <1>9, <2>1, <2>4, <2>5 DEF CoTypes, TypeOK
  <2>8. TypeOK'
    BY <1>3, <2>7, TypeParts, PTL
  <2> QED BY <1>2, <2>3, <2>6, <2>8, SupplyStays DEF CoInv
<1> QED BY <1>2, <1>8, <1>9

(* Coroutine::resume of an id that was left, whoever left it.               *)
LEMMA ResumeOfLeft ==
  ASSUME CoInv, curco = 0, NEW r \in Resumes, Resume(r.id, wrapper), TaskTypes', CountTypes',
         UNCHANGED << data, nco, gfreecovec, given >>, gworktasklist' = gworktasklist
  PROVE  CoInv'
<1>1. TypeOK /\ IdsExact /\ Placed /\ Supply
  BY DEF CoInv
<1>2. PICK i \in Ids : i = r.id
  BY DEF Resumes
<1>3. wrapper \in [Wrappers -> WrapperType] /\ gfreecovec' \in Seq(Wrappers)
  BY <1>1 DEF TypeOK, WrapperType
<1>4. Range(gfreecovec') \subseteq Range(gfreecovec)
  OBVIOUS
<1>5. CoTypes' /\ IdsExact' /\ Placed' /\ Used' = Used
  BY <1>1, <1>2, <1>3, <1>4, ResumeKeeps
<1>6. TypeOK'
  BY <1>5, TypeParts, PTL
<1> QED BY <1>5, <1>6, SupplyStays DEF CoInv

(* resumeTask of one id.                                                    *)
LEMMA ResumeTaskNowKeeps == ASSUME CoInv, NEW r \in owed, ResumeTaskNow(r) PROVE CoInv'
<1>1. /\ curco = 0 /\ owed' = owed \ {r} /\ Resume(r.id, wrapper)
      /\ UNCHANGED << data, nco, gfreecovec, gworktasklist, reslist, idlist, undefined >>
      /\ UNCHANGED << given, done, dropped, yields, twice, clears >>
  BY DEF ResumeTaskNow, InMain, history
<1>2. r \in Resumes /\ TaskTypes'
  BY <1>1 DEF CoInv, TypeOK, TaskTypes
<1>3. CountTypes'
  BY <1>1 DEF CoInv, TypeOK, CountTypes
<1> QED BY <1>1, <1>2, <1>3, ResumeOfLeft

(* resumeTask of the ids of the list.                                       *)
LEMMA ResumeNextKeeps == ASSUME CoInv, ResumeNext PROVE CoInv'
<1>1. /\ curco = 0 /\ idlist # << >> /\ idlist' = Tail(idlist)
      /\ Resume(Head(idlist).id, wrapper)
      /\ UNCHANGED << data, nco, gfreecovec, gworktasklist, reslist, owed, undefined >>
      /\ UNCHANGED << given, done, dropped, yields, twice, clears >>
  BY DEF ResumeNext, history
<1>2. idlist' \in Seq(Resumes) /\ Head(idlist) \in Resumes
  BY <1>1, Tailed DEF CoInv, TypeOK
<1>3. TaskTypes'
  BY <1>1, <1>2 DEF CoInv, TypeOK, TaskTypes
<1>4. CountTypes'
  BY <1>1 DEF CoInv, TypeOK, CountTypes
<1>5. PICK r \in Resumes : r = Head(idlist)
  BY <1>2
<1> QED BY <1>1, <1>3, <1>4, <1>5, ResumeOfLeft

(* A step of the lists alone.                                               *)
LEMMA ListsKeep ==
  ASSUME CoInv, UNCHANGED << schedule, pools >>, TaskTypes', CountTypes',
         UNCHANGED << gworktasklist, given >>
  PROVE  CoInv'
<1>1. CoTypes' /\ IdsExact' /\ Placed' /\ Used' = Used /\ nco' = nco
  BY Still
<1>2. TypeOK'
  BY <1>1, TypeParts, PTL
<1> QED BY <1>1, <1>2, SupplyStays DEF CoInv

(* addResume, once or twice.                                                *)
LEMMA AddResumeKeeps ==
  ASSUME CoInv, NEW r \in owed, AddResume(r) \/ AddResumeTwice(r) PROVE CoInv'
<1>1. r \in Resumes /\ reslist \in Seq(Resumes)
  BY DEF CoInv, TypeOK
<1>2. CASE AddResume(r)
  <2>1. /\ owed' = owed \ {r} /\ reslist' = Append(reslist, r)
        /\ UNCHANGED << schedule, pools >> /\ UNCHANGED << gworktasklist, idlist, undefined >>
        /\ UNCHANGED << given, done, dropped, yields, twice, clears >>
    BY <1>2 DEF AddResume, history
  <2>2. reslist' \in Seq(Resumes)
    BY <1>1, <2>1, Appended
  <2>3. TaskTypes' /\ CountTypes'
    BY <2>1, <2>2 DEF CoInv, TypeOK, TaskTypes, CountTypes
  <2> QED BY <2>1, <2>3, ListsKeep
<1>3. CASE AddResumeTwice(r)
  <2>1. /\ owed' = owed \ {r} /\ reslist' = reslist \o << r, r >>
        /\ twice < MaxTwice /\ twice' = twice + 1
        /\ UNCHANGED << schedule, pools >> /\ UNCHANGED << gworktasklist, idlist, undefined >>
        /\ UNCHANGED << given, done, dropped, yields, clears >>
    BY <1>3 DEF AddResumeTwice
  <2>2. << r, r >> \in Seq(Resumes)
    BY <1>1
  <2>3. reslist' \in Seq(Resumes)
    BY <1>1, <2>1, <2>2, ConcatProperties
  <2>4. TaskTypes'
    BY <2>1, <2>3 DEF CoInv, TypeOK, TaskTypes
  <2>5. CountTypes'
    BY <2>1, UseAssumption DEF CoInv, TypeOK, CountTypes
  <2> QED BY <2>1, <2>4, <2>5, ListsKeep
<1> QED BY <1>2, <1>3

(* resumeTask().                                                            *)
LEMMA ResumeTaskKeeps == ASSUME CoInv, ResumeTask PROVE CoInv'
<1>1. /\ idlist' = reslist /\ reslist' = << >>
      /\ UNCHANGED << schedule, pools >> /\ UNCHANGED << gworktasklist, owed, undefined >>
      /\ UNCHANGED << given, done, dropped, yields, twice, clears >>
  BY DEF ResumeTask, history
<1>2. << >> \in Seq(Resumes)
  BY EmptySeq
<1>3. TaskTypes' /\ CountTypes'
  BY <1>1, <1>2 DEF CoInv, TypeOK, TaskTypes, CountTypes
<1> QED BY <1>1, <1>3, ListsKeep

(* The end of CoRun.                                                        *)
LEMMA ClrTaskKeeps == ASSUME CoInv, ClrTask PROVE CoInv'
<1> USE NumberParts
<1>1. TypeOK /\ IdsExact /\ Placed /\ Supply
  BY DEF CoInv
<1>2. /\ curco = 0 /\ clears < MaxClears /\ clears' = clears + 1
      /\ co' = [i \in Ids |-> "none"] /\ frame' = [i \in Ids |-> 0]
      /\ freeid' = << >> /\ nco' = 0 /\ allset' = {}
      /\ gworktasklist' = << >> /\ reslist' = << >>
      /\ UNCHANGED << data, curco, wrapper, gfreecovec, idlist, owed, given, done, dropped,
                      yields, twice, undefined >>
  BY DEF ClrTask, InMain
<1>3. \A S : << >> \in Seq(S)
  BY EmptySeq
<1>4. CoTypes'
  BY <1>1, <1>2, <1>3 DEF TypeOK, CoTypes, WrapperType
<1>5. TaskTypes' /\ CountTypes'
  BY <1>1, <1>2, <1>3, UseAssumption DEF TypeOK, TaskTypes, CountTypes
<1>6. TypeOK'
  BY <1>4, <1>5, TypeParts, PTL
<1>7. IdsExact'
  <2>1. Live' = {} /\ Range(<< >>) = {} /\ Len(<< >>) = 0
    BY <1>2 DEF Live, Range
  <2> QED BY <1>2, <2>1 DEF IdsExact
<1>8. Placed'
  BY <1>1, <1>2 DEF Placed
<1>9. Supply'
  <2>1. PICK c \in Nat, l \in Nat : c = Cardinality(Used) /\ l = Len(gworktasklist)
    BY <1>1, UsedFinite, TaskNumbers
  <2>2. given \in Nat /\ c + l <= given
    BY <1>1, <2>1, TaskNumbers DEF Supply
  <2>3. Used' = Used /\ Len(gworktasklist') = 0
    BY <1>2, EmptySeq DEF Used
  <2> QED BY <1>2, <2>1, <2>2, <2>3 DEF Supply
<1> QED BY <1>6, <1>7, <1>8, <1>9 DEF CoInv

(* Every step does.                                                         *)
LEMMA CoStep == CoInv /\ [Next]_vars => CoInv'
<1> SUFFICES ASSUME CoInv, [Next]_vars PROVE CoInv'
  OBVIOUS
<1>1. CASE Next
  BY <1>1, DoTaskNowKeeps, AddTaskKeeps, DoTaskKeeps, YieldKeeps, TaskEndsKeeps,
     ResumeTaskNowKeeps, AddResumeKeeps, ResumeTaskKeeps, ResumeNextKeeps, ClrTaskKeeps
     DEF Next
<1>2. CASE UNCHANGED vars
  <2>1. /\ UNCHANGED << schedule, pools >>
        /\ UNCHANGED << gworktasklist, reslist, idlist, owed, undefined >>
        /\ UNCHANGED << given, done, dropped, yields, twice, clears >>
    BY <1>2 DEF vars, lists, history
  <2>2. TaskTypes' /\ CountTypes'
    BY <2>1 DEF CoInv, TypeOK, TaskTypes, CountTypes
  <2> QED BY <2>1, <2>2, ListsKeep
<1> QED BY <1>1, <1>2

-----------------------------------------------------------------------------
(* Every step keeps the rest, while the rules of use are kept, and is a    *)
(* step of the promise or is not seen.                                     *)
Runs == IF curco = 0 THEN {} ELSE {frame[curco]}
Waits == {frame[i] : i \in {j \in Live : j # curco /\ frame[j] # 0}}

SameTasks ==
  UNCHANGED << gworktasklist, done, dropped >> /\ Runs' = Runs /\ Waits' = Waits

(* Kept wrappers have ids.                                                  *)
LEMMA KeptIds ==
  ASSUME CoInv, Kept
  PROVE  \A w \in Range(gfreecovec) : w \in Wrappers /\ wrapper[w].co_id \in Ids
<1>1. \A w \in Range(gfreecovec) : w \in Wrappers
  BY RangeOf DEF CoInv, TypeOK
<1>2. \A w \in Wrappers : wrapper[w].mem = "live" => wrapper[w].co_id \in Ids
  BY DEF CoInv, TypeOK, Placed
<1> QED BY <1>1, <1>2 DEF Kept

(* Who leaves an id left that of a task.                                    *)
LEMMA LeftTypes ==
  ASSUME CoInv
  PROVE  /\ Left \subseteq Resumes
         /\ \A r \in Resumes : r.id \in Ids /\ r.for \in Tasks1 /\ r.for # 0
         /\ \A r, q \in Resumes : r.id = q.id /\ r.for = q.for => r = q
<1>1. Range(reslist) \subseteq Resumes /\ Range(idlist) \subseteq Resumes
  BY RangeOf DEF CoInv, TypeOK
<1>2. owed \subseteq Resumes
  BY DEF CoInv, TypeOK
<1> QED BY <1>1, <1>2, NumberParts DEF Left, Resumes

(* Tasks that run or wait, in terms of the coroutines that hold them.       *)
LEMMA RunsAndWaits ==
  ASSUME CoInv
  PROVE  /\ Waits = {frame[i] : i \in Frames \ {curco}}
         /\ curco = 0 => Runs = {} /\ 0 \notin Frames
         /\ curco # 0 => curco \in Frames /\ curco \in Ids /\ Runs = {frame[curco]}
         /\ Frames \subseteq Ids /\ \A i \in Frames : frame[i] \in Tasks1
<1>1. Waits = {frame[i] : i \in Frames \ {curco}}
  BY DEF Waits, Frames
<1>2. Frames \subseteq Ids /\ \A i \in Frames : frame[i] \in Tasks1
  BY DEF Frames, Live, CoInv, TypeOK
<1>3. curco # 0 => curco \in Frames /\ curco \in Ids
  BY DEF Frames, Live, CoInv, TypeOK, Placed
<1> QED BY <1>1, <1>2, <1>3, NumberParts DEF Runs

(* A number that has not been given yet is no task's.                       *)
LEMMA NewTask ==
  ASSUME CoInv, Single, NEW t \in Nat, t > given
  PROVE  /\ ~Promise!Known(t) /\ t \notin done \cup dropped \cup Range(gworktasklist)
         /\ \A i \in Frames : frame[i] # t
<1>1. given \in Nat /\ Range(gworktasklist) \subseteq Tasks1
  BY TaskNumbers, RangeOf DEF CoInv, TypeOK
<1>2. done \subseteq Nat /\ dropped \subseteq Nat /\ Range(gworktasklist) \subseteq Nat
  BY <1>1, NumberParts DEF CoInv, TypeOK
<1>3. t \notin done \cup dropped \cup Range(gworktasklist)
  BY <1>1, <1>2 DEF Single
<1>4. \A i \in Frames : frame[i] # t
  BY <1>1, RunsAndWaits, NumberParts DEF Single
<1>5. t \notin Runs \cup Waits
  BY <1>4, RunsAndWaits
<1>6. ~\E i \in 1..Len(gworktasklist) : gworktasklist[i] = t
  BY <1>3, RangeOf DEF CoInv, TypeOK
<1> QED BY <1>3, <1>4, <1>5, <1>6 DEF Promise!Known, Runs, Waits

(* A coroutine takes up a task.                                             *)
LEMMA Begins ==
  ASSUME CoInv, curco = 0, NEW i \in Ids, i \notin Frames, NEW t \in Tasks1,
         co' = [co EXCEPT ![i] = "RUNNING"], curco' = i, frame' = [frame EXCEPT ![i] = t]
  PROVE  /\ Runs = {} /\ Runs' = {t} /\ Waits' = Waits /\ Frames' = Frames \cup {i}
         /\ frame'[i] = t /\ \A j \in Frames : frame'[j] = frame[j]
<1> USE NumberParts
<1>1. Live' = Live \cup {i}
  <2>1. "RUNNING" # "none"
    OBVIOUS
  <2> QED BY <2>1 DEF CoInv, TypeOK, Live
<1>2. frame'[i] = t /\ \A j \in Ids : j # i => frame'[j] = frame[j]
  BY DEF CoInv, TypeOK
<1>3. Frames' = Frames \cup {i}
  BY <1>1, <1>2 DEF Frames, Live
<1>4. \A j \in Frames : frame'[j] = frame[j] /\ j # 0 /\ j # i
  BY <1>2, RunsAndWaits
<1>5. Waits = {frame[j] : j \in Frames}
  BY <1>4, RunsAndWaits
<1>6. Waits' = {frame'[j] : j \in Frames' \ {i}}
  BY DEF Waits, Frames
<1>7. Frames' \ {i} = Frames
  BY <1>3
<1>8. Waits' = {frame'[j] : j \in Frames}
  BY <1>6, <1>7
<1>9. Waits' = Waits
  BY <1>4, <1>5, <1>8
<1> QED BY <1>2, <1>3, <1>4, <1>9 DEF Runs

(* A coroutine goes on with its task.                                       *)
LEMMA GoesOn ==
  ASSUME CoInv, Single, curco = 0, NEW i \in Ids, co[i] = "SUSPEND", frame[i] \in Tasks1,
         co' = [co EXCEPT ![i] = "RUNNING"], curco' = i, frame' = frame
  PROVE  /\ Runs = {} /\ Runs' = {frame[i]} /\ frame[i] \in Waits
         /\ Waits' = Waits \ {frame[i]} /\ Frames' = Frames
<1> USE NumberParts
<1>1. Live' = Live /\ i \in Live
  BY DEF CoInv, TypeOK, Live
<1>2. Frames' = Frames /\ i \in Frames
  BY <1>1 DEF Frames
<1>3. Waits = {frame[j] : j \in Frames}
  BY RunsAndWaits
<1>4. Waits' = {frame[j] : j \in Frames \ {i}}
  <2>1. Waits' = {frame'[j] : j \in Frames' \ {i}}
    BY DEF Waits, Frames
  <2> QED BY <1>2, <2>1
<1>5. Waits' = Waits \ {frame[i]}
  BY <1>2, <1>3, <1>4 DEF Single
<1> QED BY <1>2, <1>3, <1>5 DEF Runs

(* No task comes to two places when one begins, or when none moves.         *)
LEMMA SingleBegins ==
  ASSUME CoInv, CoInv', Single, NEW i \in Ids, i \notin Frames, NEW t \in Tasks1,
         Frames' = Frames \cup {i}, frame'[i] = t, \A j \in Frames : frame'[j] = frame[j],
         \A j \in Frames : frame[j] # t, t \notin done \cup dropped \cup Range(gworktasklist'),
         Range(gworktasklist') \subseteq Range(gworktasklist), Distinct(gworktasklist'),
         given <= given', t <= given', UNCHANGED << done, dropped >>
  PROVE  Single'
<1>1. given \in Nat /\ given' \in Nat
  BY TaskNumbers DEF CoInv, TypeOK
<1>2. done \subseteq Nat /\ dropped \subseteq Nat /\ Range(gworktasklist) \subseteq Nat
      /\ \A j \in Frames : frame[j] \in Nat
  BY NumberParts, RangeOf, RunsAndWaits DEF CoInv, TypeOK
<1>3. \A j, k \in Frames' : frame'[j] = frame'[k] => j = k
  BY DEF Single
<1>4. \A j \in Frames' : frame'[j] <= given'
                         /\ frame'[j] \notin done' \cup dropped' \cup Range(gworktasklist')
  BY <1>1, <1>2 DEF Single
<1>5. \A u \in done' \cup dropped' \cup Range(gworktasklist') : u <= given'
  BY <1>1, <1>2 DEF Single
<1> QED BY <1>3, <1>4, <1>5 DEF Single

LEMMA SingleStays ==
  ASSUME Single, Frames' = Frames, \A j \in Frames : frame'[j] = frame[j],
         UNCHANGED << gworktasklist, done, dropped, given >>
  PROVE  Single'
BY DEF Single

(* A task begins in a new coroutine.                                        *)
LEMMA StartNewSound ==
  ASSUME CoInv, Sound, Cardinality(Used) < MaxTasks, NEW t \in Tasks1, StartNew(t),
         UNCHANGED << reslist, idlist, owed >>
  PROVE  /\ Sound'
         /\ \E i \in Ids : /\ i \notin Frames /\ co' = [co EXCEPT ![i] = "RUNNING"]
                           /\ curco' = i /\ frame' = [frame EXCEPT ![i] = t]
<1> USE NumberParts
<1>1. TypeOK /\ IdsExact /\ Placed /\ nco <= Cardinality(Used)
  BY DEF CoInv, Supply
<1>2. PICK i \in Ids, w \in Wrappers :
        /\ wrapper[w].mem = "none" /\ co[i] = "none"
        /\ wrapper' = [wrapper EXCEPT ![w] = [mem |-> "live", co_id |-> i, task |-> t]]
        /\ co' = [co EXCEPT ![i] = "RUNNING"] /\ curco' = i
        /\ frame' = [frame EXCEPT ![i] = t] /\ data' = [data EXCEPT ![i] = w]
        /\ gfreecovec' = gfreecovec /\ undefined' = undefined
  BY <1>1, StartNewParts
<1>3. PICK r : r = [mem |-> "live", co_id |-> i, task |-> t]
  OBVIOUS
<1>4. r.mem = "live" /\ r.co_id = i
  BY <1>3
<1>5. \A v \in Wrappers : wrapper'[v] = IF v = w THEN r ELSE wrapper[v]
  BY <1>1, <1>2, <1>3 DEF TypeOK
<1>6. \A j \in Ids : /\ co'[j] = IF j = i THEN "RUNNING" ELSE co[j]
                     /\ data'[j] = IF j = i THEN w ELSE data[j]
                     /\ frame'[j] = IF j = i THEN t ELSE frame[j]
  BY <1>1, <1>2 DEF TypeOK
<1>7. Paired'
  <2>1. ASSUME NEW j \in Ids, co'[j] # "none", j # i
        PROVE  wrapper'[data'[j]].mem = "live" /\ wrapper'[data'[j]].co_id = j
    <3>1. co[j] # "none" /\ data'[j] = data[j]
      BY <1>6, <2>1
    <3>2. wrapper[data[j]].mem = "live" /\ wrapper[data[j]].co_id = j
      BY <3>1 DEF Sound, Paired
    <3>3. data[j] \in Wrappers
      BY <1>1, <3>1 DEF TypeOK, Placed
    <3>4. data[j] # w
      BY <1>2, <3>2
    <3> QED BY <1>5, <3>1, <3>2, <3>3, <3>4
  <2>2. wrapper'[data'[i]].mem = "live" /\ wrapper'[data'[i]].co_id = i
    BY <1>4, <1>5, <1>6
  <2> QED BY <2>1, <2>2 DEF Paired
<1>8. Kept'
  <2>1. gfreecovec = << >>
    BY DEF StartNew
  <2>2. Range(<< >>) = {} /\ Distinct(<< >>)
    BY DEF Range, Distinct
  <2> QED BY <1>2, <2>1, <2>2 DEF Kept
<1>9. Reaches'
  <2>1. Left' = Left
    BY DEF Left
  <2>2. \A q \in Left : q.id \in Ids
    BY LeftTypes
  <2> QED BY <1>2, <1>6, <2>1, <2>2 DEF Sound, Reaches
<1>10. Once' /\ ~undefined'
  BY <1>2 DEF Sound, Once
<1>11. i \notin Frames
  BY <1>2 DEF Frames, Live
<1> QED BY <1>2, <1>7, <1>8, <1>9, <1>10, <1>11 DEF Sound

(* A task begins in the wrapper that was put back last.                     *)
LEMMA StartKeptSound ==
  ASSUME CoInv, Sound, NEW t \in Tasks1, StartKept(t), UNCHANGED << reslist, idlist, owed >>
  PROVE  /\ Sound'
         /\ \E i \in Ids : /\ i \notin Frames /\ co' = [co EXCEPT ![i] = "RUNNING"]
                           /\ curco' = i /\ frame' = [frame EXCEPT ![i] = t]
<1> USE NumberParts
<1>1. TypeOK /\ Placed
  BY DEF CoInv
<1>2. /\ gfreecovec \in Seq(Wrappers) /\ gfreecovec # << >>
      /\ gfreecovec' = Front(gfreecovec) /\ UNCHANGED << data, nco >>
  BY <1>1 DEF StartKept, TypeOK
<1>3. PICK w \in Wrappers : w = Last(gfreecovec)
  BY <1>2, Fronted
<1>4. /\ Range(gfreecovec) = Range(gfreecovec') \cup {w} /\ w \notin Range(gfreecovec')
      /\ Distinct(gfreecovec')
  BY <1>2, <1>3, Fronted DEF Sound, Kept
<1>5. PICK i \in Ids : i = wrapper[w].co_id
  BY <1>4, KeptIds DEF Sound
<1>6. /\ wrapper[w].mem = "live" /\ co[i] = "SUSPEND" /\ frame[i] = 0 /\ data[i] = w
  BY <1>4, <1>5 DEF Sound, Kept
<1>7. PICK wr : wr = [wrapper EXCEPT ![w].task = t]
  OBVIOUS
<1>8. wrapper[w].mem # "freed"
  BY <1>6
<1>9. Resume(i, wr) /\ undefined' = undefined
  BY <1>3, <1>5, <1>7, <1>8 DEF StartKept
<1>10. /\ wr \in [Wrappers -> WrapperType] /\ wr[w].task = t
       /\ \A v \in Wrappers : /\ wr[v].mem = wrapper[v].mem /\ wr[v].co_id = wrapper[v].co_id
                              /\ v # w => wr[v] = wrapper[v]
  <2>1. wrapper \in [Wrappers -> WrapperType]
    BY <1>1 DEF TypeOK, WrapperType
  <2>2. wrapper[w] \in WrapperType
    BY <2>1
  <2>3. PICK r \in WrapperType : /\ r = [wrapper[w] EXCEPT !.task = t]
                                 /\ r.mem = wrapper[w].mem /\ r.co_id = wrapper[w].co_id
                                 /\ r.task = t
    <3>1. [wrapper[w] EXCEPT !.task = t] \in WrapperType
      BY <2>2 DEF WrapperType
    <3>2. /\ [wrapper[w] EXCEPT !.task = t].mem = wrapper[w].mem
          /\ [wrapper[w] EXCEPT !.task = t].co_id = wrapper[w].co_id
          /\ [wrapper[w] EXCEPT !.task = t].task = t
      BY <2>2 DEF WrapperType
    <3> QED BY <3>1, <3>2
  <2>4. wr = [wrapper EXCEPT ![w] = r]
    BY <1>7, <2>3
  <2> QED BY <2>1, <2>3, <2>4
<1>11. t # 0
  OBVIOUS
<1>12. co' = [co EXCEPT ![i] = "RUNNING"] /\ curco' = i /\ wrapper' = wr
       /\ frame' = [frame EXCEPT ![i] = t]
  BY <1>6, <1>9, <1>10, <1>11 DEF Resume
<1>13. \A j \in Ids : /\ co'[j] = IF j = i THEN "RUNNING" ELSE co[j]
                      /\ frame'[j] = IF j = i THEN t ELSE frame[j]
  BY <1>1, <1>12 DEF TypeOK
<1>14. Paired'
  <2>1. \A j \in Ids : co'[j] # "none" => co[j] # "none" /\ data[j] \in Wrappers
    BY <1>1, <1>6, <1>13 DEF TypeOK, Placed
  <2> QED BY <1>2, <1>10, <1>12, <2>1 DEF Sound, Paired
<1>15. Kept'
  <2>1. ASSUME NEW v \in Range(gfreecovec')
        PROVE  /\ wrapper'[v].mem = "live" /\ wrapper'[v].task = 0
               /\ co'[wrapper'[v].co_id] = "SUSPEND" /\ frame'[wrapper'[v].co_id] = 0
               /\ data'[wrapper'[v].co_id] = v
    <3>1. v \in Range(gfreecovec) /\ v # w
      BY <1>4
    <3>2. PICK j \in Ids : j = wrapper[v].co_id
      BY <3>1, KeptIds DEF Sound
    <3>3. /\ wrapper[v].mem = "live" /\ wrapper[v].task = 0
          /\ co[j] = "SUSPEND" /\ frame[j] = 0 /\ data[j] = v /\ v \in Wrappers
      BY <3>1, <3>2, KeptIds DEF Sound, Kept
    <3>4. j # i
      BY <1>6, <3>1, <3>3
    <3>5. wrapper'[v] = wrapper[v]
      BY <1>10, <1>12, <3>1, <3>3
    <3> QED BY <1>2, <1>13, <3>2, <3>3, <3>4, <3>5
  <2> QED BY <1>4, <2>1 DEF Kept
<1>16. Reaches'
  <2>1. Left' = Left
    BY DEF Left
  <2>2. \A q \in Left : q.id \in Ids /\ q.for # 0
    BY LeftTypes
  <2> QED BY <1>6, <1>13, <2>1, <2>2 DEF Sound, Reaches
<1>17. Once' /\ ~undefined'
  BY <1>9 DEF Sound, Once
<1>18. i \notin Frames
  BY <1>6 DEF Frames
<1> QED BY <1>12, <1>14, <1>15, <1>16, <1>17, <1>18 DEF Sound

(* doTask(func, p).                                                         *)
LEMMA DoTaskNowSound ==
  ASSUME CoInv, CoInv', Sound, Single, DoTaskNow, ~Broken, ~Broken'
  PROVE  Sound' /\ Single' /\ Promise!Next
<1>1. /\ given < MaxTasks /\ given' = given + 1
      /\ UNCHANGED << gworktasklist, reslist, idlist, owed, done, twice, clears >>
      /\ \/ InMain /\ Start(given + 1) /\ UNCHANGED dropped
         \/ /\ Running /\ dropped' = dropped \cup {given + 1}
            /\ UNCHANGED << schedule, pools, undefined >>
  BY DEF DoTaskNow, lists
<1>2. Broken' = Broken
  BY <1>1 DEF Broken
<1>3. PICK t \in Tasks1 : t = given + 1
  BY <1>1, TaskNumbers, NumberParts DEF CoInv, Tasks1
<1>4. given \in Nat /\ t \in Nat /\ t > given /\ t <= given' /\ given <= given'
  BY <1>1, <1>3, TaskNumbers DEF CoInv
<1>5. /\ ~Promise!Known(t) /\ t \notin done \cup dropped \cup Range(gworktasklist)
      /\ \A j \in Frames : frame[j] # t
  BY <1>4, NewTask
<1>6. CASE InMain /\ Start(t) /\ UNCHANGED dropped
  <2>1. Cardinality(Used) < MaxTasks
    <3>1. PICK c \in Nat, l \in Nat : c = Cardinality(Used) /\ l = Len(gworktasklist)
      BY UsedFinite, TaskNumbers DEF CoInv
    <3> QED BY <1>1, <1>4, <3>1, NumberParts DEF CoInv, Supply
  <2>2. Sound' /\ \E i \in Ids : /\ i \notin Frames /\ co' = [co EXCEPT ![i] = "RUNNING"]
                                /\ curco' = i /\ frame' = [frame EXCEPT ![i] = t]
    BY <1>1, <1>6, <2>1, StartNewSound, StartKeptSound DEF Start
  <2>3. PICK i \in Ids : /\ i \notin Frames /\ co' = [co EXCEPT ![i] = "RUNNING"]
                         /\ curco' = i /\ frame' = [frame EXCEPT ![i] = t]
    BY <2>2
  <2>4. curco = 0
    BY <1>6 DEF InMain
  <2>5. /\ Runs = {} /\ Runs' = {t} /\ Waits' = Waits /\ Frames' = Frames \cup {i}
        /\ frame'[i] = t /\ \A j \in Frames : frame'[j] = frame[j]
    BY <2>3, <2>4, Begins
  <2>6. gworktasklist' = gworktasklist /\ Distinct(gworktasklist')
    BY <1>1 DEF Single
  <2>7. Single'
    BY <1>1, <1>4, <1>5, <1>6, <2>3, <2>5, <2>6, SingleBegins
  <2>8. Promise!Begin(t)
    BY <1>1, <1>2, <1>5, <1>6, <2>5 DEF Promise!Begin, Runs, Waits
  <2> QED BY <2>2, <2>7, <2>8 DEF Promise!Next
<1>7. CASE /\ Running /\ dropped' = dropped \cup {t} /\ UNCHANGED << schedule, pools, undefined >>
  <2>1. /\ co' = co /\ data' = data /\ frame' = frame /\ curco' = curco
        /\ wrapper' = wrapper /\ gfreecovec' = gfreecovec /\ undefined' = undefined
    BY <1>7 DEF schedule, pools
  <2>2. Sound'
    BY <1>1, <2>1 DEF Sound, Paired, Kept, Left, Reaches, Once
  <2>3. Runs' = Runs /\ Waits' = Waits /\ Frames' = Frames /\ Runs # {}
    BY <1>7, <2>1 DEF Runs, Waits, Frames, Live, Running
  <2>4. Single'
    <3>1. \A j, k \in Frames' : frame'[j] = frame'[k] => j = k
      BY <2>1, <2>3 DEF Single
    <3>2. done \subseteq Nat /\ dropped \subseteq Nat /\ Range(gworktasklist) \subseteq Nat
          /\ \A j \in Frames : frame[j] \in Nat
      BY NumberParts, RangeOf, RunsAndWaits DEF CoInv, TypeOK
    <3>3. \A j \in Frames' : frame'[j] <= given'
                             /\ frame'[j] \notin done' \cup dropped' \cup Range(gworktasklist')
      BY <1>1, <1>4, <1>5, <1>7, <2>1, <2>3, <3>2 DEF Single
    <3>4. \A u \in done' \cup dropped' \cup Range(gworktasklist') : u <= given'
      BY <1>1, <1>4, <1>7, <3>2 DEF Single
    <3>5. Range(gworktasklist') \cap (done' \cup dropped') = {}
      BY <1>1, <1>5, <1>7 DEF Single
    <3> QED BY <1>1, <3>1, <3>3, <3>4, <3>5 DEF Single
  <2>5. Promise!Begin(t)
    BY <1>1, <1>2, <1>5, <1>7, <2>3 DEF Promise!Begin, Runs, Waits
  <2> QED BY <2>2, <2>4, <2>5 DEF Promise!Next
<1> QED BY <1>1, <1>3, <1>6, <1>7

(* addTask.                                                                 *)
LEMMA AddTaskSound ==
  ASSUME CoInv, CoInv', Sound, Single, AddTask, ~Broken, ~Broken'
  PROVE  Sound' /\ Single' /\ Promise!Next
<1>1. /\ given < MaxTasks /\ given' = given + 1
      /\ gworktasklist' = Append(gworktasklist, given + 1)
      /\ UNCHANGED << schedule, pools >>
      /\ UNCHANGED << reslist, idlist, owed, done, dropped, twice, clears, undefined >>
  BY DEF AddTask
<1>2. Broken' = Broken
  BY <1>1 DEF Broken
<1>3. PICK t \in Tasks1 : t = given + 1
  BY <1>1, TaskNumbers, NumberParts DEF CoInv, Tasks1
<1>4. given \in Nat /\ t \in Nat /\ t > given /\ t <= given' /\ given <= given'
  BY <1>1, <1>3, TaskNumbers DEF CoInv
<1>5. /\ ~Promise!Known(t) /\ t \notin done \cup dropped \cup Range(gworktasklist)
      /\ \A j \in Frames : frame[j] # t
  BY <1>4, NewTask
<1>6. /\ co' = co /\ data' = data /\ frame' = frame /\ curco' = curco
      /\ wrapper' = wrapper /\ gfreecovec' = gfreecovec
  BY <1>1 DEF schedule, pools
<1>7. Sound'
  BY <1>1, <1>6 DEF Sound, Paired, Kept, Left, Reaches, Once
<1>8. Runs' = Runs /\ Waits' = Waits /\ Frames' = Frames
  BY <1>6 DEF Runs, Waits, Frames, Live
<1>9. Range(gworktasklist') = Range(gworktasklist) \cup {t} /\ Distinct(gworktasklist')
  BY <1>1, <1>3, <1>5, Appended DEF CoInv, TypeOK, Single
<1>10. Single'
  <2>1. \A j, k \in Frames' : frame'[j] = frame'[k] => j = k
    BY <1>6, <1>8 DEF Single
  <2>2. done \subseteq Nat /\ dropped \subseteq Nat /\ Range(gworktasklist) \subseteq Nat
        /\ \A j \in Frames : frame[j] \in Nat
    BY NumberParts, RangeOf, RunsAndWaits DEF CoInv, TypeOK
  <2>3. \A j \in Frames' : frame'[j] <= given'
                           /\ frame'[j] \notin done' \cup dropped' \cup Range(gworktasklist')
    BY <1>1, <1>4, <1>5, <1>6, <1>8, <1>9, <2>2 DEF Single
  <2>4. \A u \in done' \cup dropped' \cup Range(gworktasklist') : u <= given'
    BY <1>1, <1>4, <1>9, <2>2 DEF Single
  <2>5. Range(gworktasklist') \cap (done' \cup dropped') = {}
    BY <1>1, <1>5, <1>9 DEF Single
  <2> QED BY <1>9, <2>1, <2>3, <2>4, <2>5 DEF Single
<1>11. Promise!Queue(t)
  BY <1>1, <1>2, <1>3, <1>5, <1>8 DEF Promise!Queue, Runs, Waits
<1> QED BY <1>7, <1>10, <1>11 DEF Promise!Next

(* doTask() with a task of addTask.                                         *)
LEMMA DoTaskSound ==
  ASSUME CoInv, CoInv', Sound, Single, DoTask, ~Broken, ~Broken'
  PROVE  Sound' /\ Single' /\ Promise!Next
<1>1. PICK t : t = Head(gworktasklist)
  OBVIOUS
<1>2. /\ curco = 0 /\ gworktasklist # << >> /\ gworktasklist' = Tail(gworktasklist)
      /\ Start(t) /\ UNCHANGED << reslist, idlist, owed >>
      /\ UNCHANGED << given, done, dropped, yields, twice, clears >>
  BY <1>1 DEF DoTask, InMain, history
<1>3. Broken' = Broken
  BY <1>2 DEF Broken
<1>4. /\ t \in Tasks1 /\ Range(gworktasklist) = Range(gworktasklist') \cup {t}
      /\ t \notin Range(gworktasklist') /\ Distinct(gworktasklist')
      /\ gworktasklist' \in Seq(Tasks1)
  BY <1>1, <1>2, Tailed DEF CoInv, TypeOK, Single
<1>5. Cardinality(Used) < MaxTasks
  <2>1. PICK c \in Nat, l \in Nat : c = Cardinality(Used) /\ l = Len(gworktasklist)
    BY UsedFinite, TaskNumbers DEF CoInv
  <2>2. l # 0
    BY <1>2, <2>1, EmptySeq DEF CoInv, TypeOK
  <2>3. given \in Nat /\ given <= MaxTasks /\ c + l <= given
    BY <2>1, TaskNumbers DEF CoInv, Supply
  <2> QED BY <2>1, <2>2, <2>3, NumberParts
<1>6. Sound' /\ \E i \in Ids : /\ i \notin Frames /\ co' = [co EXCEPT ![i] = "RUNNING"]
                              /\ curco' = i /\ frame' = [frame EXCEPT ![i] = t]
  BY <1>2, <1>4, <1>5, StartNewSound, StartKeptSound DEF Start
<1>7. PICK i \in Ids : /\ i \notin Frames /\ co' = [co EXCEPT ![i] = "RUNNING"]
                       /\ curco' = i /\ frame' = [frame EXCEPT ![i] = t]
  BY <1>6
<1>8. /\ Runs = {} /\ Runs' = {t} /\ Waits' = Waits /\ Frames' = Frames \cup {i}
      /\ frame'[i] = t /\ \A j \in Frames : frame'[j] = frame[j]
  BY <1>2, <1>4, <1>7, Begins
<1>9. Single'
  <2>1. t \notin done \cup dropped \cup Range(gworktasklist') /\ \A j \in Frames : frame[j] # t
    BY <1>4 DEF Single
  <2>2. given <= given' /\ t <= given'
    BY <1>2, <1>4, TaskNumbers DEF Single, CoInv
  <2>3. Range(gworktasklist') \subseteq Range(gworktasklist)
    BY <1>4
  <2> QED BY <1>2, <1>4, <1>7, <1>8, <2>1, <2>2, <2>3, SingleBegins
<1>10. Promise!BeginQueued
  BY <1>1, <1>2, <1>3, <1>8 DEF Promise!BeginQueued, Runs, Waits
<1> QED BY <1>6, <1>9, <1>10 DEF Promise!Next

(* The running task yields.                                                 *)
LEMMA YieldSound ==
  ASSUME CoInv, CoInv', Sound, Single, Yield, ~Broken, ~Broken'
  PROVE  Sound' /\ Single' /\ Promise!Next
<1> USE NumberParts
<1>1. PICK i \in Ids : i = curco
  BY DEF CoInv, Yield, Running, TypeOK
<1>2. PICK t \in Tasks1 : t = frame[i]
  BY <1>1 DEF CoInv, TypeOK, Placed
<1>3. PICK r \in Resumes : r.id = i /\ r.for = t /\ r = [id |-> i, for |-> t]
  BY DEF Resumes
<1>4. /\ co' = [co EXCEPT ![i] = "SUSPEND"] /\ curco' = 0 /\ owed' = owed \cup {r}
      /\ UNCHANGED << data, frame, wrapper, gfreecovec, gworktasklist,
                      reslist, idlist, given, done, dropped, twice, clears, undefined >>
  BY <1>1, <1>2, <1>3 DEF Yield, pools
<1>5. Broken' = Broken
  BY <1>4 DEF Broken
<1>6. co[i] = "RUNNING" /\ \A j \in Ids : co'[j] = IF j = i THEN "SUSPEND" ELSE co[j]
  BY <1>1, <1>4 DEF CoInv, TypeOK, Placed
<1>7. Paired'
  BY <1>4, <1>6 DEF Sound, Paired
<1>8. Kept'
  BY <1>4, <1>6, KeptIds DEF Sound, Kept
<1>9. Reaches'
  <2>1. Left' = Left \cup {r}
    BY <1>4 DEF Left
  <2>2. \A q \in Left : q.id \in Ids
    BY LeftTypes
  <2> QED BY <1>2, <1>3, <1>4, <1>6, <2>1, <2>2 DEF Sound, Reaches
<1>10. Once'
  <2>1. r \notin Left
    BY <1>3, <1>6 DEF Sound, Reaches
  <2> QED BY <1>4, <2>1 DEF Sound, Once, Left
<1>11. Live' = Live
  BY <1>6 DEF Live
<1>12. Frames' = Frames
  BY <1>4, <1>11 DEF Frames
<1>13. Single'
  BY <1>4, <1>12, SingleStays
<1>14. Runs = {t} /\ Runs' = {} /\ Waits' = Waits \cup {t}
  <2>1. i \in Frames /\ Waits = {frame[j] : j \in Frames \ {i}}
    BY <1>1, RunsAndWaits
  <2>2. Waits' = {frame[j] : j \in Frames}
    <3>1. Waits' = {frame'[j] : j \in Frames' \ {0}}
      BY <1>4 DEF Waits, Frames
    <3> QED BY <1>4, <1>12, <3>1, RunsAndWaits
  <2> QED BY <1>1, <1>2, <1>4, <2>1, <2>2 DEF Runs
<1>15. Promise!Wait(t)
  BY <1>4, <1>5, <1>14 DEF Promise!Wait, Runs, Waits
<1> QED BY <1>4, <1>7, <1>8, <1>9, <1>10, <1>13, <1>15 DEF Sound, Promise!Next

(* The running task ends.                                                   *)
LEMMA TaskEndsSound ==
  ASSUME CoInv, CoInv', Sound, Single, TaskEnds, ~Broken, ~Broken'
  PROVE  Sound' /\ Single' /\ Promise!Next
<1> USE NumberParts
<1>1. PICK i \in Ids, w \in Wrappers :
           /\ i = curco /\ w = data[i] /\ co[i] = "RUNNING" /\ frame[i] \in Tasks1
           /\ done' = done \cup {frame[i]} /\ frame' = [frame EXCEPT ![i] = 0] /\ curco' = 0
           /\ ~undefined
           /\ UNCHANGED << data, gworktasklist, reslist, idlist, owed, given, dropped,
                           twice, clears, undefined >>
           /\ \/ /\ co' = [co EXCEPT ![i] = "none"]
                 /\ wrapper' = [wrapper EXCEPT ![w].mem = "freed"]
                 /\ gfreecovec' = gfreecovec
              \/ /\ co' = [co EXCEPT ![i] = "SUSPEND"]
                 /\ wrapper' = [wrapper EXCEPT ![w].task = 0]
                 /\ gfreecovec' = Append(gfreecovec, w)
  BY EndCases
<1>2. PICK t \in Tasks1 : t = frame[i]
  BY <1>1
<1>3. Broken' = Broken
  BY <1>1 DEF Broken
<1>4. PICK x \in {"none", "SUSPEND"} : co' = [co EXCEPT ![i] = x]
  BY <1>1
<1>5. \A j \in Ids : /\ co'[j] = IF j = i THEN x ELSE co[j]
                     /\ frame'[j] = IF j = i THEN 0 ELSE frame[j]
  BY <1>1, <1>4 DEF CoInv, TypeOK
<1>6. /\ wrapper[w].mem = "live" /\ wrapper[w].co_id = i
      /\ \A j \in Ids : j # i /\ co[j] # "none" => data[j] # w /\ data[j] \in Wrappers
  <2>1. \A j \in Ids : co[j] # "none" =>
          data[j] \in Wrappers /\ wrapper[data[j]].mem = "live" /\ wrapper[data[j]].co_id = j
    BY DEF Sound, Paired, CoInv, TypeOK, Placed
  <2>2. co[i] # "none"
    BY <1>1
  <2> QED BY <1>1, <2>1, <2>2
<1>7. \A v \in Wrappers : v # w => wrapper'[v] = wrapper[v]
  <2>1. wrapper \in [Wrappers -> WrapperType]
    BY DEF CoInv, TypeOK, WrapperType
  <2>2. CASE wrapper' = [wrapper EXCEPT ![w].mem = "freed"]
    BY <2>1, <2>2
  <2>3. CASE wrapper' = [wrapper EXCEPT ![w].task = 0]
    BY <2>1, <2>3
  <2> QED BY <1>1, <2>2, <2>3
<1>8. \A v \in Range(gfreecovec) : v \in Wrappers /\ wrapper[v].co_id \in Ids
                                   /\ wrapper[v].co_id # i /\ v # w
  BY <1>1, <1>6, KeptIds DEF Sound, Kept
<1>9. \A v \in Range(gfreecovec) :
        /\ wrapper'[v].mem = "live" /\ wrapper'[v].task = 0
        /\ co'[wrapper'[v].co_id] = "SUSPEND" /\ frame'[wrapper'[v].co_id] = 0
        /\ data'[wrapper'[v].co_id] = v
  BY <1>1, <1>5, <1>7, <1>8 DEF Sound, Kept
<1>10. Paired' /\ Kept'
  <2>1. \A j \in Ids : j # i /\ co'[j] # "none" =>
          wrapper'[data'[j]].mem = "live" /\ wrapper'[data'[j]].co_id = j
    BY <1>1, <1>5, <1>6, <1>7 DEF Sound, Paired
  <2>2. CASE /\ co' = [co EXCEPT ![i] = "none"] /\ gfreecovec' = gfreecovec
    <3>1. co'[i] = "none"
      BY <2>2 DEF CoInv, TypeOK
    <3> QED BY <1>9, <2>1, <2>2, <3>1 DEF Sound, Paired, Kept
  <2>3. CASE /\ co' = [co EXCEPT ![i] = "SUSPEND"]
             /\ wrapper' = [wrapper EXCEPT ![w].task = 0]
             /\ gfreecovec' = Append(gfreecovec, w)
    <3>1. co'[i] = "SUSPEND" /\ frame'[i] = 0 /\ data'[i] = w
      BY <1>1, <1>5, <2>3 DEF CoInv, TypeOK
    <3>2. wrapper \in [Wrappers -> WrapperType] /\ wrapper[w] \in WrapperType
      BY DEF CoInv, TypeOK, WrapperType
    <3>3. wrapper'[w] = [wrapper[w] EXCEPT !.task = 0]
      BY <2>3, <3>2
    <3>4. wrapper'[w].mem = "live" /\ wrapper'[w].co_id = i /\ wrapper'[w].task = 0
      BY <1>6, <3>2, <3>3 DEF WrapperType
    <3>5. Range(gfreecovec') = Range(gfreecovec) \cup {w} /\ Distinct(gfreecovec')
      <4>1. w \notin Range(gfreecovec) /\ Distinct(gfreecovec) /\ gfreecovec \in Seq(Wrappers)
        BY <1>8 DEF CoInv, TypeOK, Sound, Kept
      <4> QED BY <2>3, <4>1, Appended
    <3>6. Paired'
      BY <1>1, <2>1, <3>1, <3>4 DEF Paired
    <3>7. Kept'
      BY <1>9, <3>1, <3>4, <3>5 DEF Kept
    <3> QED BY <3>6, <3>7
  <2> QED BY <1>1, <2>2, <2>3
<1>11. Reaches' /\ Once'
  <2>1. Left' = Left
    BY <1>1 DEF Left
  <2>2. \A q \in Left : q.id \in Ids
    BY LeftTypes
  <2> QED BY <1>1, <1>5, <2>1, <2>2 DEF Sound, Reaches, Once
<1>12. Frames' = Frames \ {i} /\ i \in Frames
  BY <1>1, <1>4, <1>5 DEF Frames, Live
<1>13. \A j \in Frames' : frame'[j] = frame[j] /\ frame[j] # t /\ j # i
  BY <1>2, <1>5, <1>12, RunsAndWaits DEF Single
<1>14. t <= given /\ t \notin done \cup dropped \cup Range(gworktasklist)
  BY <1>2, <1>12 DEF Single
<1>15. Single'
  <2>1. \A j, k \in Frames' : frame'[j] = frame'[k] => j = k
    BY <1>12, <1>13 DEF Single
  <2>2. \A j \in Frames' : frame'[j] <= given'
                           /\ frame'[j] \notin done' \cup dropped' \cup Range(gworktasklist')
    BY <1>1, <1>2, <1>12, <1>13 DEF Single
  <2> QED BY <1>1, <1>2, <1>14, <2>1, <2>2 DEF Single
<1>16. Runs = {t} /\ Runs' = {} /\ Waits' = Waits
  <2>1. Waits = {frame[j] : j \in Frames \ {i}}
    BY <1>1, RunsAndWaits
  <2>2. Waits' = {frame'[j] : j \in Frames' \ {0}}
    BY <1>1 DEF Waits, Frames
  <2>3. Waits' = Waits
    BY <1>12, <1>13, <2>1, <2>2, RunsAndWaits
  <2> QED BY <1>1, <1>2, <2>3 DEF Runs
<1>17. Promise!End(t)
  BY <1>1, <1>2, <1>3, <1>14, <1>16 DEF Promise!End, Runs, Waits
<1> QED BY <1>1, <1>10, <1>11, <1>15, <1>17 DEF Sound, Promise!Next

(* The resume of an id that was left: its task goes on.                     *)
LEMMA ResumeSound ==
  ASSUME CoInv, CoInv', Sound, Single, curco = 0, NEW r \in Left, Resume(r.id, wrapper),
         Left' = Left \ {r}, Once', ~Broken, ~Broken',
         UNCHANGED << data, gfreecovec, gworktasklist, undefined, given, done, dropped,
                      twice, clears >>
  PROVE  Sound' /\ Single' /\ Promise!Next
<1> USE NumberParts
<1>1. r.id \in Ids /\ r.for \in Tasks1
  BY LeftTypes
<1>2. PICK i \in Ids, t \in Tasks1 : i = r.id /\ t = r.for
  BY <1>1
<1>3. co[i] = "SUSPEND" /\ frame[i] = t
  BY <1>2 DEF Sound, Reaches
<1>4. frame[i] # 0
  BY <1>3
<1>5. /\ co' = [co EXCEPT ![i] = "RUNNING"] /\ curco' = i /\ wrapper' = wrapper
      /\ frame' = [frame EXCEPT ![i] = frame[i]]
  BY <1>2, <1>3, <1>4 DEF Resume
<1>6. frame' = frame /\ \A j \in Ids : co'[j] = IF j = i THEN "RUNNING" ELSE co[j]
  BY <1>5 DEF CoInv, TypeOK
<1>7. Broken' = Broken
  BY DEF Broken
<1>8. Paired'
  BY <1>3, <1>5, <1>6 DEF Sound, Paired
<1>9. Kept'
  BY <1>4, <1>5, <1>6, KeptIds DEF Sound, Kept
<1>10. Reaches'
  <2>1. \A q \in Left \ {r} : q.id \in Ids /\ q.id # i
    <3>1. \A q \in Left : q.id = i => q.for = t
      BY <1>3 DEF Sound, Reaches
    <3> QED BY <1>2, <3>1, LeftTypes
  <2> QED BY <1>6, <2>1 DEF Sound, Reaches
<1>11. /\ Runs = {} /\ Runs' = {t} /\ t \in Waits
       /\ Waits' = Waits \ {t} /\ Frames' = Frames
  BY <1>3, <1>5, <1>6, GoesOn
<1>12. Single'
  BY <1>6, <1>11, SingleStays
<1>13. Promise!GoOn(t)
  BY <1>7, <1>11 DEF Promise!GoOn, Runs, Waits
<1> QED BY <1>8, <1>9, <1>10, <1>12, <1>13 DEF Sound, Promise!Next

(* resumeTask of one id.                                                    *)
LEMMA ResumeTaskNowSound ==
  ASSUME CoInv, CoInv', Sound, Single, NEW r \in owed, ResumeTaskNow(r), ~Broken, ~Broken'
  PROVE  Sound' /\ Single' /\ Promise!Next
<1>1. /\ curco = 0 /\ owed' = owed \ {r} /\ Resume(r.id, wrapper)
      /\ UNCHANGED << data, gfreecovec, gworktasklist, reslist, idlist, undefined >>
      /\ UNCHANGED << given, done, dropped, twice, clears >>
  BY DEF ResumeTaskNow, InMain, history
<1>2. r \in Left /\ Left' = Left \ {r} /\ Once'
  BY <1>1 DEF Left, Sound, Once
<1> QED BY <1>1, <1>2, ResumeSound

(* resumeTask of the ids of the list.                                       *)
LEMMA ResumeNextSound ==
  ASSUME CoInv, CoInv', Sound, Single, ResumeNext, ~Broken, ~Broken'
  PROVE  Sound' /\ Single' /\ Promise!Next
<1>1. PICK r : r = Head(idlist)
  OBVIOUS
<1>2. /\ curco = 0 /\ idlist # << >> /\ idlist' = Tail(idlist) /\ Resume(r.id, wrapper)
      /\ UNCHANGED << data, gfreecovec, gworktasklist, reslist, owed, undefined >>
      /\ UNCHANGED << given, done, dropped, twice, clears >>
  BY <1>1 DEF ResumeNext, history
<1>3. /\ Range(idlist) = Range(idlist') \cup {r} /\ r \notin Range(idlist')
      /\ Distinct(idlist')
  BY <1>1, <1>2, Tailed DEF CoInv, TypeOK, Sound, Once
<1>4. r \in Left /\ Left' = Left \ {r} /\ Once'
  BY <1>2, <1>3 DEF Left, Sound, Once
<1> QED BY <1>2, <1>4, ResumeSound

(* Steps of the lists alone are not seen.                                   *)
LEMMA ListsSound ==
  ASSUME CoInv, Sound, Single, UNCHANGED << schedule, pools, undefined >>,
         UNCHANGED << gworktasklist, given, done, dropped >>, Left' = Left, Once'
  PROVE  Sound' /\ Single' /\ SameTasks
<1>1. /\ co' = co /\ data' = data /\ frame' = frame /\ curco' = curco
      /\ wrapper' = wrapper /\ gfreecovec' = gfreecovec /\ undefined' = undefined
  BY DEF schedule, pools
<1>2. Sound'
  BY <1>1 DEF Sound, Paired, Kept, Reaches
<1>3. Runs' = Runs /\ Waits' = Waits /\ Frames' = Frames
  BY <1>1 DEF Runs, Waits, Frames, Live
<1>4. Single'
  BY <1>1, <1>3, SingleStays
<1> QED BY <1>2, <1>3, <1>4 DEF SameTasks

(* addResume.                                                               *)
LEMMA AddResumeSound ==
  ASSUME CoInv, Sound, Single, NEW r \in owed, AddResume(r)
  PROVE  Sound' /\ Single' /\ SameTasks
<1>1. /\ owed' = owed \ {r} /\ reslist' = Append(reslist, r)
      /\ UNCHANGED << schedule, pools, undefined >> /\ idlist' = idlist
      /\ UNCHANGED << gworktasklist, given, done, dropped >>
  BY DEF AddResume, history
<1>2. r \in Resumes /\ reslist \in Seq(Resumes)
  BY DEF CoInv, TypeOK
<1>3. r \notin Range(reslist) /\ r \notin Range(idlist) /\ Distinct(reslist)
  BY DEF Sound, Once
<1>4. Range(reslist') = Range(reslist) \cup {r} /\ Distinct(reslist')
  BY <1>1, <1>2, <1>3, Appended
<1>5. Left' = Left /\ Once'
  BY <1>1, <1>3, <1>4 DEF Left, Sound, Once
<1> QED BY <1>1, <1>5, ListsSound

(* resumeTask().                                                            *)
LEMMA ResumeTaskSound ==
  ASSUME CoInv, Sound, Single, ResumeTask
  PROVE  Sound' /\ Single' /\ SameTasks
<1>1. /\ idlist = << >> /\ idlist' = reslist /\ reslist' = << >> /\ owed' = owed
      /\ UNCHANGED << schedule, pools, undefined >>
      /\ UNCHANGED << gworktasklist, given, done, dropped >>
  BY DEF ResumeTask, InMain, history
<1>2. Range(<< >>) = {} /\ Distinct(<< >>)
  BY DEF Range, Distinct
<1>3. Left' = Left /\ Once'
  BY <1>1, <1>2 DEF Left, Sound, Once
<1> QED BY <1>1, <1>3, ListsSound

(* Rules that were broken stay broken.                                      *)
LEMMA RulesBefore ==
  ASSUME CoInv, [Next]_vars, ~Broken'
  PROVE  /\ ~Broken /\ Broken' = Broken
         /\ ~ClrTask /\ \A r \in owed : ~AddResumeTwice(r)
<1>1. twice \in Nat /\ clears \in Nat
  BY UseAssumption DEF CoInv, TypeOK
<1>2. ~ClrTask /\ \A r \in owed : ~AddResumeTwice(r)
  BY <1>1 DEF ClrTask, AddResumeTwice, Broken
<1>3. twice' = twice /\ clears' = clears
  <2>1. CASE DoTaskNow \/ AddTask \/ Yield \/ TaskEnds
    BY <2>1 DEF DoTaskNow, AddTask, Yield, TaskEnds
  <2>2. CASE DoTask \/ ResumeTask \/ ResumeNext \/ UNCHANGED vars
             \/ \E r \in owed : ResumeTaskNow(r) \/ AddResume(r)
    BY <2>2 DEF DoTask, ResumeTask, ResumeNext, ResumeTaskNow, AddResume, vars, history
  <2> QED BY <1>2, <2>1, <2>2 DEF Next
<1> QED BY <1>2, <1>3 DEF Broken

(* Every step while the rules are kept.                                     *)
LEMMA RuleStep ==
  ASSUME CoInv, CoInv', Sound, Single, [Next]_vars, ~Broken, ~Broken'
  PROVE  Sound' /\ Single' /\ (Promise!Next \/ SameTasks)
<1>1. CASE UNCHANGED vars
  <2>1. /\ UNCHANGED << schedule, pools, undefined >>
        /\ UNCHANGED << gworktasklist, given, done, dropped, reslist, idlist, owed >>
    BY <1>1 DEF vars, lists, history
  <2>2. Left' = Left /\ Once'
    BY <2>1 DEF Left, Sound, Once
  <2> QED BY <2>1, <2>2, ListsSound
<1>2. CASE Next
  BY <1>2, RulesBefore, DoTaskNowSound, AddTaskSound, DoTaskSound, YieldSound, TaskEndsSound,
     ResumeTaskNowSound, AddResumeSound, ResumeTaskSound, ResumeNextSound DEF Next
<1> QED BY <1>1, <1>2

LEMMA RuleInvStep == CoInv /\ CoInv' /\ RuleInv /\ [Next]_vars => RuleInv'
BY RulesBefore, RuleStep DEF RuleInv

(* Both invariants hold in every state.                                     *)
LEMMA InvsHold == Spec => [](CoInv /\ RuleInv)
BY InitInv, CoStep, RuleInvStep, PTL DEF Spec

-----------------------------------------------------------------------------
(* Ids are recycled exactly: IdsExact holds in every state, also when ids   *)
(* are resumed twice or after clrTask, so that _alloc_co_ never hands out   *)
(* the id of a coroutine that exists and no id is lost.                     *)
THEOREM IdsAreExact == Spec => []IdsExact
<1>1. CoInv => IdsExact
  BY DEF CoInv
<1> QED BY <1>1, InvsHold, PTL

(* A wrapper of gfreecovec is live, idle, there once, and its coroutine     *)
(* waits at the top of its loop, as long as no resume is doubled and        *)
(* clrTask is not called: doTask uses no freed memory.                      *)
THEOREM KeptAreUsable == Spec => []KeptUsable
<1>1. CoInv /\ RuleInv => KeptUsable
  <2> SUFFICES ASSUME CoInv, Sound PROVE
          /\ ~undefined
          /\ \A k \in 1..Len(gfreecovec) :
               LET w == gfreecovec[k]  i == wrapper[w].co_id IN
               /\ wrapper[w].mem = "live" /\ wrapper[w].task = 0
               /\ co[i] = "SUSPEND" /\ frame[i] = 0 /\ data[i] = w
               /\ \A j \in 1..Len(gfreecovec) : gfreecovec[j] = w => j = k
    BY DEF RuleInv, KeptUsable
  <2>1. \A k \in 1..Len(gfreecovec) : gfreecovec[k] \in Range(gfreecovec)
    BY RangeOf DEF CoInv, TypeOK
  <2> QED BY <2>1 DEF Sound, Kept, Distinct
<1> QED BY <1>1, InvsHold, PTL

(* An id that a task left reaches that task while it is left, under the     *)
(* same rules: no resume finds another task in the coroutine by then.       *)
THEOREM ResumesReachTheirTasks == Spec => []ResumeReachesTask
<1>1. CoInv /\ RuleInv => ResumeReachesTask
  BY DEF RuleInv, ResumeReachesTask, Sound, Reaches, Left
<1> QED BY <1>1, InvsHold, PTL

(* The coroutines, with their kept wrappers, recycled ids and lists of      *)
(* resumes, implement the tasks: each begins once and in the order of its   *)
(* list, one runs at a time, and one that waits goes on as itself, until    *)
(* the rules of use are broken.                                             *)
THEOREM CoroutinesImplementTasks == Spec => ImplementsTasks
<1>1. Init => Promise!Init
  <2> SUFFICES ASSUME Init PROVE Promise!Init
    OBVIOUS
  <2>1. Runs = {} /\ Waits = {}
    BY DEF Init, Runs, Waits, Live
  <2>2. Broken = FALSE
    BY DEF Init, Broken
  <2> QED BY <2>1, <2>2 DEF Init, Promise!Init, Runs, Waits
<1>2. CoInv /\ RuleInv /\ CoInv' /\ [Next]_vars => [Promise!Next]_(Promise!taskVars)
  <2> SUFFICES ASSUME CoInv, RuleInv, CoInv', [Next]_vars
               PROVE  Promise!Next \/ UNCHANGED Promise!taskVars
    OBVIOUS
  <2>1. CASE Broken'
    BY <2>1 DEF Promise!Next
  <2>2. CASE ~Broken'
    <3>1. ~Broken /\ Broken' = Broken
      BY <2>2, RulesBefore
    <3>2. Promise!Next \/ SameTasks
      BY <2>2, <3>1, RuleStep DEF RuleInv
    <3>3. SameTasks => UNCHANGED Promise!taskVars
      BY <3>1 DEF SameTasks, Promise!taskVars, Runs, Waits
    <3> QED BY <3>2, <3>3
  <2> QED BY <2>1, <2>2
<1> QED BY <1>1, <1>2, InvsHold, PTL DEF Spec, ImplementsTasks, Promise!Spec
=============================================================================
