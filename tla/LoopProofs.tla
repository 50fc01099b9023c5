----------------------------- MODULE LoopProofs -----------------------------
(* Theorems about Loop, for any number of beacons, any intervals (positive  *)
(* or not, parsed or not), any duration of polls, and beacons that hang.    *)
EXTENDS Loop, WellFoundedInduction, FiniteSetTheorems, TLAPS

Stages == {"none", "stagger", "fetch", "answered", "handle", "select",
           "stopped"}

(* A goroutine has an interval, a number.                                   *)
LEMMA IntervalType ==
  ASSUME NEW b \in Beacons, Resolves(b)
  PROVE  resolveInterval(b) \in Int
BY LoopAssumption DEF Resolves, resolveInterval

(* The stagger is a number of units, and only a beacon with an interval has *)
(* one.                                                                     *)
LEMMA StaggerType ==
  ASSUME NEW b \in Beacons, Resolves(b)
  PROVE  /\ staggerOffset(b) \in Nat
         /\ staggerOffset(b) > 0 => resolveInterval(b) > 0
<1>1. Count \in Nat /\ Count > 0 /\ b \in Nat /\ b >= 1
  BY LoopAssumption DEF Beacons
<1> DEFINE d == resolveInterval(b)
           x == d * (b - 1)
<1>2. CASE Count <= 1 \/ d <= 0
  <2>1. staggerOffset(b) = 0 BY <1>2 DEF staggerOffset
  <2> QED BY <2>1
<1>3. CASE ~(Count <= 1 \/ d <= 0)
  <2>1. d \in Nat /\ d > 0 BY <1>1, <1>3, IntervalType
  <2>2. x \in Nat BY <1>1, <2>1
  <2>3. \A y \in Nat : y \div Count \in Nat BY <1>1
  <2>4. staggerOffset(b) = x \div Count BY <1>3 DEF staggerOffset
  <2> HIDE DEF x
  <2> QED BY <2>1, <2>2, <2>3, <2>4
<1> QED BY <1>2, <1>3

(* The beacons form a finite set of Count elements, so the running ones can *)
(* be counted.                                                              *)
LEMMA BeaconCount ==
  /\ IsFiniteSet(Beacons)
  /\ \A S \in SUBSET Beacons : /\ IsFiniteSet(S)
                               /\ Cardinality(S) \in 0..Count
<1>1. Count \in Nat /\ 1 \in Int /\ Count \in Int BY LoopAssumption
<1>2. IsFiniteSet(Beacons) /\ Cardinality(Beacons) = Count
  BY <1>1, FS_Interval DEF Beacons
<1>3. ASSUME NEW S \in SUBSET Beacons
      PROVE  IsFiniteSet(S) /\ Cardinality(S) \in 0..Count
  <2>1. IsFiniteSet(S) /\ Cardinality(S) <= Count BY <1>2, FS_Subset
  <2>2. Cardinality(S) \in Nat BY <2>1, FS_CardinalityType
  <2> QED BY <1>1, <2>1, <2>2
<1> QED BY <1>2, <1>3

-----------------------------------------------------------------------------
(* A goroutine that starts or ends counts one more or one less.             *)
LEMMA OneMore ==
  ASSUME TypeOK, wg = Cardinality(Active),
         NEW b \in Beacons, NEW s \in Stages \ {"none", "stopped"},
         stage[b] \in {"none", "stopped"}, stage' = [stage EXCEPT ![b] = s],
         wg' = wg + 1
  PROVE  wg' = Cardinality(Active') /\ wg' \in 0..Count
<1>1. Active' = Active \cup {b} BY DEF Active, TypeOK, Stages
<1>2. b \notin Active /\ Active \subseteq Beacons BY DEF Active
<1>3. Cardinality(Active') = Cardinality(Active) + 1
  BY <1>1, <1>2, BeaconCount, FS_AddElement
<1>4. Active' \subseteq Beacons BY <1>1, <1>2
<1> QED BY <1>3, <1>4, BeaconCount

LEMMA OneLess ==
  ASSUME TypeOK, wg = Cardinality(Active),
         NEW b \in Beacons, stage[b] \notin {"none", "stopped"},
         stage' = [stage EXCEPT ![b] = "stopped"], wg' = wg - 1
  PROVE  wg' = Cardinality(Active') /\ wg' \in 0..Count
<1>1. Active' = Active \ {b} BY DEF Active, TypeOK
<1>2. b \in Active /\ Active \subseteq Beacons BY DEF Active
<1>3. Cardinality(Active') = Cardinality(Active) - 1
  BY <1>1, <1>2, BeaconCount, FS_RemoveElement
<1>4. Active' \subseteq Beacons BY <1>1, <1>2
<1> QED BY <1>3, <1>4, BeaconCount

(* A goroutine that goes on is counted as before.                           *)
LEMMA AsMany ==
  ASSUME TypeOK, wg = Cardinality(Active),
         NEW b \in Beacons, NEW s \in Stages \ {"none", "stopped"},
         stage[b] \notin {"none", "stopped"},
         stage' = [stage EXCEPT ![b] = s], UNCHANGED wg
  PROVE  wg' = Cardinality(Active')
<1>1. Active' = Active BY DEF Active, TypeOK, Stages
<1> QED BY <1>1

LEMMA LoopInit == Init => TypeOK /\ LoopInv
<1> SUFFICES ASSUME Init PROVE TypeOK /\ LoopInv OBVIOUS
<1>0. tick \in [Beacons -> BOOLEAN] BY Zenon DEF Init
<1>1. TypeOK
  <2>1. /\ stage \in [Beacons -> Stages] /\ timer \in [Beacons -> Nat]
        /\ busy \in [Beacons -> Nat] /\ unlisted \in [Beacons -> Nat]
        /\ oldest \in [Beacons -> Nat]
    BY DEF Init, Stages
  <2>2. /\ main = "spawning" /\ spawned = 0 /\ wg = 0
        /\ beat = 0
    BY DEF Init
  <2>3. cancelled \in BOOLEAN /\ ready \in BOOLEAN BY Zenon DEF Init
  <2>4. spawned \in 0..Count /\ wg \in 0..Count BY <2>2, LoopAssumption
  <2> QED BY <1>0, <2>1, <2>2, <2>3, <2>4, Zenon DEF TypeOK, Stages
<1>2. Active = {} BY DEF Init, Active
<1>3. Cardinality({}) = 0 BY FS_EmptySet
<1>4. LoopInv
  <2>1. wg = 0 /\ main = "spawning" BY DEF Init
  <2>2. \A b \in Beacons : stage[b] = "none" /\ timer[b] = 0 BY DEF Init
  <2> QED BY <1>2, <1>3, <2>1, <2>2 DEF LoopInv, StoreOpenDuringPolls
<1> QED BY <1>1, <1>4

-----------------------------------------------------------------------------
LEMMA LoopStep == TypeOK /\ LoopInv /\ [Next]_vars => TypeOK' /\ LoopInv'
<1> SUFFICES ASSUME TypeOK, LoopInv, [Next]_vars
             PROVE  TypeOK' /\ LoopInv'
  OBVIOUS
<1> USE DEF Stages
<1>0. Count \in Nat BY LoopAssumption
(* A beacon in the middle of its loop means that main is waiting or still   *)
(* spawning: not done.                                                      *)
<1>a. \A b \in Beacons : stage[b] \notin {"none", "stopped"} => main # "done"
  BY DEF LoopInv, StoreOpenDuringPolls, Active
<1>1. ASSUME Spawn PROVE TypeOK' /\ LoopInv'
  <2> DEFINE b == spawned + 1
  <2>1. b \in Beacons /\ spawned' = b /\ spawned' \in 0..Count
    BY <1>0, <1>1 DEF Spawn, TypeOK, Beacons
  <2>2. stage[b] = "none" BY <2>1, <1>0 DEF LoopInv, TypeOK
  <2>3. CASE Resolves(b)
    <3>1. /\ stage' = [stage EXCEPT ![b] = "stagger"] /\ wg' = wg + 1
          /\ timer' = [timer EXCEPT ![b] = staggerOffset(b)]
      BY <1>1, <2>3 DEF Spawn
    <3>2. wg' = Cardinality(Active') /\ wg' \in 0..Count
      BY <2>1, <2>2, <3>1, OneMore DEF LoopInv
    <3>3. /\ staggerOffset(b) \in Nat
          /\ staggerOffset(b) > 0 => resolveInterval(b) > 0
      BY <2>1, <2>3, StaggerType
    <3>4. TypeOK'
      <4> HIDE DEF b
      <4> QED BY <1>1, <2>1, <3>1, <3>2, <3>3 DEF Spawn, TypeOK
    <3>5. \A c \in Beacons : c > spawned' => stage'[c] = "none"
      <4> SUFFICES ASSUME NEW c \in Beacons, c > spawned'
                   PROVE  stage'[c] = "none"
        OBVIOUS
      <4>1. c > spawned /\ c # b BY <2>1, <1>0 DEF TypeOK, Beacons
      <4> QED BY <4>1, <3>1 DEF LoopInv, TypeOK
    <3>6. \A c \in Beacons : stage'[c] # "none" => Resolves(c)
      BY <2>3, <3>1 DEF LoopInv, TypeOK
    <3>7. \A c \in Beacons :
               timer'[c] > 0 => Resolves(c) /\ resolveInterval(c) > 0
      BY <2>3, <3>1, <3>3 DEF LoopInv, TypeOK
    <3> QED
      BY <1>1, <3>2, <3>4, <3>5, <3>6, <3>7
      DEF Spawn, LoopInv, StoreOpenDuringPolls
  <2>4. CASE ~Resolves(b)
    <3>1. UNCHANGED <<wg, stage, timer>> BY <1>1, <2>4 DEF Spawn
    <3>2. Active' = Active BY <3>1 DEF Active
    <3>3. TypeOK' BY <1>1, <2>1, <3>1 DEF Spawn, TypeOK
    <3>4. \A c \in Beacons : c > spawned' => c > spawned
      BY <2>1, <1>0 DEF TypeOK, Beacons
    <3> QED
      BY <1>1, <3>1, <3>2, <3>3, <3>4
      DEF Spawn, LoopInv, StoreOpenDuringPolls
  <2> QED BY <2>3, <2>4
<1>2. ASSUME Ready \/ Cancel PROVE TypeOK' /\ LoopInv'
  <2>1. UNCHANGED <<spawned, wg, stage, timer>> BY <1>2 DEF Ready, Cancel
  <2>2. Active' = Active BY <2>1 DEF Active
  <2> QED
    BY <1>2, <2>1, <2>2
    DEF Ready, Cancel, TypeOK, LoopInv, StoreOpenDuringPolls
<1>3. ASSUME Close PROVE TypeOK' /\ LoopInv'
  <2>1. Cardinality(Active) = 0 /\ UNCHANGED <<spawned, wg, stage, timer>>
    BY <1>3 DEF Close, LoopInv
  <2>2. Active' = Active BY <2>1 DEF Active
  <2>3. Active = {}
    <3>1. Active \in SUBSET Beacons BY DEF Active
    <3> QED BY <2>1, <3>1, BeaconCount, FS_EmptySet
  <2> QED
    BY <1>3, <2>1, <2>2, <2>3
    DEF Close, TypeOK, LoopInv, StoreOpenDuringPolls
<1>4. ASSUME NEW b \in Beacons, StartPoll(b) \/ Answer(b) \/ Now(b)
      PROVE  TypeOK' /\ LoopInv'
  <2>1. PICK s \in Stages \ {"none", "stopped"} :
          stage' = [stage EXCEPT ![b] = s]
    BY <1>4 DEF StartPoll, FirstPoll, NextPoll, BeginPoll, Answer, Now
  <2>2. stage[b] \notin {"none", "stopped"} /\ UNCHANGED <<main, spawned, wg, timer>>
    BY <1>4 DEF StartPoll, FirstPoll, NextPoll, Answer, Now
  <2>3. wg' = Cardinality(Active') BY <2>1, <2>2, AsMany DEF LoopInv
  <2>4. TypeOK'
    <3>1. stage' \in [Beacons -> Stages] BY <2>1 DEF TypeOK
    <3>2. tick' = tick \/ tick' = [tick EXCEPT ![b] = FALSE]
      BY <1>4 DEF StartPoll, FirstPoll, NextPoll, Answer, Now
    <3>3. tick' \in [Beacons -> BOOLEAN] BY <3>2 DEF TypeOK
    <3>4. busy' = busy \/ busy' = [busy EXCEPT ![b] = 0]
      BY <1>4 DEF StartPoll, FirstPoll, NextPoll, BeginPoll, Answer, Now
    <3>5. /\ oldest' = oldest \/ oldest' = [oldest EXCEPT ![b] = unlisted[b]]
          /\ unlisted' = unlisted \/ unlisted' = [unlisted EXCEPT ![b] = 0]
          /\ UNCHANGED <<cancelled, ready, beat>>
      BY <1>4 DEF StartPoll, FirstPoll, NextPoll, Answer, Now
    <3>6. /\ busy' \in [Beacons -> Nat] /\ oldest' \in [Beacons -> Nat]
          /\ unlisted' \in [Beacons -> Nat]
      BY <3>4, <3>5 DEF TypeOK
    <3> QED BY <2>2, <3>1, <3>3, <3>5, <3>6 DEF TypeOK
  <2>5. \A c \in Beacons : /\ c > spawned' => stage'[c] = "none"
                           /\ stage'[c] # "none" => Resolves(c)
    BY <2>1, <2>2 DEF LoopInv, TypeOK
  <2> QED
    BY <1>a, <2>2, <2>3, <2>4, <2>5 DEF LoopInv, StoreOpenDuringPolls
<1>5. ASSUME NEW b \in Beacons, Finish(b) PROVE TypeOK' /\ LoopInv'
  <2>1. stage[b] = "handle" /\ UNCHANGED <<main, spawned, tick, unlisted, cancelled, ready>>
    BY <1>5 DEF Finish
  <2>2. resolveInterval(b) \in Int
    BY <2>1, IntervalType DEF LoopInv
  <2>3. /\ beat' \in Nat /\ oldest' \in [Beacons -> Nat]
        /\ busy' \in [Beacons -> Nat]
    BY <1>5 DEF Finish, TypeOK
  <2>4. CASE resolveInterval(b) <= 0
    <3>1. /\ stage' = [stage EXCEPT ![b] = "stopped"] /\ wg' = wg - 1
          /\ UNCHANGED timer
      BY <1>5, <2>4 DEF Finish
    <3>2. wg' = Cardinality(Active') /\ wg' \in 0..Count
      BY <2>1, <3>1, OneLess DEF LoopInv
    <3>3. TypeOK' BY <2>1, <2>3, <3>1, <3>2 DEF TypeOK
    <3>4. \A c \in Beacons : /\ c > spawned' => stage'[c] = "none"
                             /\ stage'[c] # "none" => Resolves(c)
      BY <2>1, <3>1 DEF LoopInv, TypeOK
    <3> QED
      BY <1>a, <2>1, <3>1, <3>2, <3>3, <3>4 DEF LoopInv, StoreOpenDuringPolls
  <2>5. CASE ~(resolveInterval(b) <= 0)
    <3>1. /\ stage' = [stage EXCEPT ![b] = "select"] /\ UNCHANGED wg
          /\ timer' = [timer EXCEPT ![b] = IF @ = 0 THEN resolveInterval(b)
                                                    ELSE @]
      BY <1>5, <2>5 DEF Finish
    <3>2. wg' = Cardinality(Active')
      BY <2>1, <3>1, AsMany DEF LoopInv
    <3>3. resolveInterval(b) \in Nat /\ resolveInterval(b) > 0
      BY <2>2, <2>5
    <3>4. timer' \in [Beacons -> Nat] BY <3>1, <3>3 DEF TypeOK
    <3>5. TypeOK' BY <2>1, <2>3, <3>1, <3>4 DEF TypeOK
    <3>6. \A c \in Beacons : /\ c > spawned' => stage'[c] = "none"
                             /\ stage'[c] # "none" => Resolves(c)
      BY <2>1, <3>1 DEF LoopInv, TypeOK
    <3>7. \A c \in Beacons :
               timer'[c] > 0 => Resolves(c) /\ resolveInterval(c) > 0
      BY <2>1, <3>1, <3>3 DEF LoopInv, TypeOK
    <3> QED
      BY <1>a, <2>1, <3>2, <3>5, <3>6, <3>7 DEF LoopInv, StoreOpenDuringPolls
  <2> QED BY <2>4, <2>5
<1>6. ASSUME NEW b \in Beacons, Stop(b) PROVE TypeOK' /\ LoopInv'
  <2>1. /\ stage[b] \in {"stagger", "select"}
        /\ stage' = [stage EXCEPT ![b] = "stopped"] /\ wg' = wg - 1
        /\ timer' = [timer EXCEPT ![b] = 0]
        /\ tick' = [tick EXCEPT ![b] = FALSE]
        /\ UNCHANGED <<main, spawned, busy, unlisted, oldest, cancelled,
                       ready, beat>>
    BY <1>6 DEF Stop
  <2>2. wg' = Cardinality(Active') /\ wg' \in 0..Count
    BY <2>1, OneLess DEF LoopInv
  <2>3. TypeOK' BY <2>1, <2>2 DEF TypeOK
  <2>4. \A c \in Beacons : /\ c > spawned' => stage'[c] = "none"
                           /\ stage'[c] # "none" => Resolves(c)
                           /\ timer'[c] > 0 => /\ Resolves(c)
                                                /\ resolveInterval(c) > 0
    BY <2>1 DEF LoopInv, TypeOK
  <2> QED
    BY <1>a, <2>1, <2>2, <2>3, <2>4 DEF LoopInv, StoreOpenDuringPolls
<1>7. ASSUME Tick PROVE TypeOK' /\ LoopInv'
  <2>1. UNCHANGED <<main, spawned, wg, stage, cancelled, ready>>
    BY <1>7 DEF Tick
  <2>2. Active' = Active BY <2>1 DEF Active
  <2>3. \A y : \A x \in Nat : Older(x, y) \in Nat BY DEF Older
  <2>4. /\ busy' \in [Beacons -> Nat] /\ unlisted' \in [Beacons -> Nat]
        /\ oldest' \in [Beacons -> Nat] /\ beat' \in Nat
    BY <1>7, <2>3 DEF Tick, TypeOK
  <2>5. ASSUME NEW b \in Beacons
        PROVE  /\ Rearm(b) \in Nat
               /\ Rearm(b) > 0 => Resolves(b) /\ resolveInterval(b) > 0
    <3>1. timer[b] \in Nat
      BY DEF TypeOK
    <3>2. timer[b] > 0 => Resolves(b) /\ resolveInterval(b) > 0
      BY DEF LoopInv
    <3>3. CASE Fires(b)
      <4>1. Rearm(b) = resolveInterval(b) /\ Resolves(b) /\ resolveInterval(b) > 0
        BY <3>1, <3>2, <3>3 DEF Rearm, Fires
      <4>2. resolveInterval(b) \in Int BY <4>1, IntervalType
      <4> QED BY <4>1, <4>2
    <3>4. CASE ~Fires(b)
      BY <3>1, <3>2, <3>4 DEF Rearm
    <3> QED BY <3>3, <3>4
  <2>6. timer' = [b \in Beacons |-> Rearm(b)] BY <1>7 DEF Tick
  <2>7. timer' \in [Beacons -> Nat] BY <2>5, <2>6
  <2>8. \A b \in Beacons :
          timer'[b] > 0 => Resolves(b) /\ resolveInterval(b) > 0
    BY <2>5, <2>6
  <2>9. tick' \in [Beacons -> BOOLEAN]
    <3>1. \A b \in Beacons : (tick[b] \/ Fires(b)) \in BOOLEAN
      BY DEF Fires, TypeOK
    <3> QED BY <1>7, <3>1 DEF Tick
  <2>10. TypeOK' BY <2>1, <2>4, <2>7, <2>9 DEF TypeOK
  <2> QED
    BY <2>1, <2>2, <2>8, <2>10 DEF LoopInv, StoreOpenDuringPolls
<1>8. ASSUME UNCHANGED vars PROVE TypeOK' /\ LoopInv'
  BY <1>8 DEF vars, TypeOK, LoopInv, StoreOpenDuringPolls, Active
<1> QED
  BY <1>1, <1>2, <1>3, <1>4, <1>5, <1>6, <1>7, <1>8
  DEF Next, GoOn, Ended
-----------------------------------------------------------------------------
(* The wait group counts the goroutines, with every type correct.           *)
THEOREM LoopInvariant == Spec => [](TypeOK /\ LoopInv)
BY LoopInit, LoopStep, PTL DEF Spec

(* Every state of the loop and of the monitor has its type.                 *)
THEOREM TypeCorrect == Spec => []TypeOK
BY LoopInvariant, PTL

(* The store is closed only after the last poll, however shutdown, ticks    *)
(* and polls of any length fall, and whatever intervals are configured.     *)
THEOREM ClosedAfterPolls == Spec => []StoreOpenDuringPolls
<1>1. LoopInv => StoreOpenDuringPolls BY DEF LoopInv
<1> QED BY <1>1, LoopInvariant, PTL

-----------------------------------------------------------------------------
(* The staleness window. The intervals have a longest one: by induction on  *)
(* the number of beacons looked at, in the form of a least counterexample.  *)
LEMMA Least ==
  ASSUME NEW T \in SUBSET Nat, T # {}
  PROVE  \E n \in T : \A m \in T : n <= m
<1> DEFINE Less == OpToRel(<, Nat)
<1>1. IsWellFoundedOn(Less, Nat)
  BY NatLessThanWellFounded
<1>2. \A m, n \in Nat : m < n => <<m, n>> \in Less
  BY DEF OpToRel
<1> HIDE DEF Less
<1>3. PICK n \in T : \A m \in T : ~(<<m, n>> \in Less)
  BY <1>1, WFMin
<1>4. ASSUME NEW m \in T PROVE n <= m
  <2>1. m \in Nat /\ n \in Nat
    BY <1>3
  <2>2. ~(m < n)
    BY <1>2, <1>3, <2>1
  <2> QED BY <2>1, <2>2
<1> QED BY <1>3, <1>4

IntervalsUpTo(n) ==
  {GlobalInterval} \cup
    {resolveInterval(b) : b \in {c \in Beacons : Resolves(c) /\ c <= n}}

HasLongest(S) == \E d \in S : \A e \in S : e <= d

LEMMA LongestUpTo ==
  ASSUME NEW n \in 0..Count
  PROVE  HasLongest(IntervalsUpTo(n))
<1> DEFINE T == {m \in Nat : m <= Count /\ ~HasLongest(IntervalsUpTo(m))}
<1> SUFFICES ASSUME T # {} PROVE FALSE
  BY LoopAssumption
<1>1. PICK m \in T : \A k \in T : m <= k
  BY Least
<1>2. m \in Nat /\ m <= Count /\ ~HasLongest(IntervalsUpTo(m)) /\ Count \in Nat
  BY <1>1, LoopAssumption
<1>3. GlobalInterval \in Int /\ \A b \in Beacons : Resolves(b) => resolveInterval(b) \in Int
  BY LoopAssumption, IntervalType
<1>4. CASE m = 0
  <2>1. IntervalsUpTo(m) = {GlobalInterval}
    BY <1>4 DEF IntervalsUpTo, Beacons
  <2> QED BY <1>2, <1>3, <2>1 DEF HasLongest
<1>5. CASE m # 0
  <2>1. m - 1 \in Nat /\ m - 1 <= Count /\ ~(m <= m - 1) /\ m \in Beacons
    BY <1>2, <1>5 DEF Beacons
  <2>2. HasLongest(IntervalsUpTo(m - 1))
    BY <1>1, <2>1
  <2>3. PICK d \in IntervalsUpTo(m - 1) : \A e \in IntervalsUpTo(m - 1) : e <= d
    BY <2>2 DEF HasLongest
  <2>4. \A c \in Beacons : c <= m <=> c <= m - 1 \/ c = m
    BY <1>2 DEF Beacons
  <2>5. \A e \in IntervalsUpTo(m - 1) : e \in Int
    BY <1>3 DEF IntervalsUpTo
  <2>6. CASE Resolves(m)
    <3>1. IntervalsUpTo(m) = IntervalsUpTo(m - 1) \cup {resolveInterval(m)}
      BY <2>1, <2>4, <2>6 DEF IntervalsUpTo
    <3>2. resolveInterval(m) \in Int /\ d \in Int
      BY <1>3, <2>1, <2>3, <2>5, <2>6
    <3>3. CASE resolveInterval(m) <= d
      BY <1>2, <2>3, <3>1, <3>3 DEF HasLongest
    <3>4. CASE ~(resolveInterval(m) <= d)
      <4>1. \A e \in IntervalsUpTo(m) : e <= resolveInterval(m)
        BY <2>3, <2>5, <3>1, <3>2, <3>4
      <4> QED BY <1>2, <3>1, <4>1 DEF HasLongest
    <3> QED BY <3>3, <3>4
  <2>7. CASE ~Resolves(m)
    <3>1. IntervalsUpTo(m) = IntervalsUpTo(m - 1)
      BY <2>1, <2>4, <2>7 DEF IntervalsUpTo
    <3> QED BY <1>2, <2>2, <3>1
  <2> QED BY <2>6, <2>7
<1> QED BY <1>4, <1>5

(* The window is at least twice the interval of any beacon.                 *)
LEMMA StaleWindow ==
  /\ staleAfter \in Nat
  /\ \A b \in Beacons : Resolves(b) => 2 * resolveInterval(b) <= staleAfter
<1> DEFINE all == {GlobalInterval} \cup Intervals
           longest == CHOOSE d \in all : \A e \in all : e <= d
<1>1. all = IntervalsUpTo(Count)
  <2>1. \A c \in Beacons : c <= Count
    BY DEF Beacons
  <2> QED BY <2>1 DEF Intervals, IntervalsUpTo
<1>2. Count \in 0..Count
  BY LoopAssumption
<1>3. \E d \in all : \A e \in all : e <= d
  BY <1>1, <1>2, LongestUpTo DEF HasLongest
<1>4. longest \in all /\ \A e \in all : e <= longest
  BY <1>3
<1>5. longest \in Int
  <2>1. \A e \in all : e \in Int
    BY LoopAssumption, IntervalType DEF Intervals
  <2> QED BY <1>4, <2>1
<1>6. \A b \in Beacons : Resolves(b) => resolveInterval(b) \in all
  BY DEF Intervals
<1>7. maxPollInterval = IF longest > 0 THEN longest ELSE Minute
  BY DEF maxPollInterval
<1> HIDE DEF longest, all
<1>8. maxPollInterval \in Nat /\ longest <= maxPollInterval
  BY <1>5, <1>7 DEF Minute
<1>9. ASSUME NEW b \in Beacons, Resolves(b)
      PROVE  2 * resolveInterval(b) <= 2 * maxPollInterval
  <2>1. resolveInterval(b) \in Int /\ resolveInterval(b) <= longest
    BY <1>4, <1>6, <1>9, IntervalType
  <2> QED BY <1>5, <1>8, <2>1
<1> QED BY <1>8, <1>9 DEF staleAfter

(* A beacon with an interval starts within its first interval.              *)
LEMMA StaggerBound ==
  ASSUME NEW b \in Beacons, Resolves(b), resolveInterval(b) > 0
  PROVE  staggerOffset(b) \in Nat /\ staggerOffset(b) < resolveInterval(b)
<1> DEFINE d == resolveInterval(b)
           x == d * (b - 1)
<1>1. /\ Count \in Nat /\ Count > 0 /\ b \in Nat /\ b >= 1 /\ b <= Count
      /\ d \in Nat /\ d > 0
  BY LoopAssumption, IntervalType DEF Beacons
<1>2. CASE Count <= 1
  BY <1>1, <1>2 DEF staggerOffset
<1>3. CASE ~(Count <= 1)
  <2>1. staggerOffset(b) = x \div Count
    BY <1>1, <1>3 DEF staggerOffset
  <2>2. x \in Nat
    BY <1>1
  <2>3. x < d * Count
    BY <1>1
  <2> HIDE DEF x, d
  <2>4. x \div Count \in Nat /\ x \div Count < d
    <3>1. PICK q \in Nat : q = x \div Count
      BY <1>1, <2>2
    <3>2. Count * q <= x
      BY <1>1, <2>2, <3>1
    <3>3. q < d
      BY <1>1, <2>2, <2>3, <3>2
    <3> QED BY <3>1, <3>3
  <2> QED BY <2>1, <2>4 DEF d
<1> QED BY <1>2, <1>3

-----------------------------------------------------------------------------
(* The inductive invariant, for a beacon whose polls end and fit into its   *)
(* interval. Its ticker runs in step with it: a tick waits for it in select *)
(* at most, or at the very end of a poll as long as the interval. So the    *)
(* timer tells how much time has passed since its last tick, and what its   *)
(* sources have not been asked for and the last heartbeat are as old as     *)
(* that at most, plus the poll that went on when it fired.                  *)
Steady(b) ==
  /\ Resolves(b) /\ resolveInterval(b) > 0
  /\ b \notin Hanging /\ PollTime <= resolveInterval(b)

TickerInStep(b) ==
  LET d == resolveInterval(b)
  IN /\ stage[b] \in {"none", "stagger"} => ~tick[b]
     /\ stage[b] = "stagger" => timer[b] < d
     /\ stage[b] = "select" =>
          /\ timer[b] > 0 /\ timer[b] <= d
          /\ tick[b] => timer[b] = d
     /\ InPoll(b) =>
          /\ busy[b] <= PollTime
          /\ \/ timer[b] = 0 /\ ~tick[b]
             \/ timer[b] > 0 /\ ~tick[b] /\ busy[b] = d - timer[b]
             \/ timer[b] = d /\ tick[b] /\ busy[b] = PollTime /\ PollTime = d

SinceTick(b) == IF tick[b] THEN resolveInterval(b)
                           ELSE resolveInterval(b) - timer[b]

SourcesAsked(b) ==
  LET d == resolveInterval(b)
  IN /\ stage[b] = "stagger" => timer[b] + unlisted[b] < d
     /\ stage[b] = "fetch" => unlisted[b] <= d + PollTime + busy[b]
     /\ stage[b] \in {"answered", "handle"} => unlisted[b] <= busy[b]
     /\ stage[b] = "answered" => oldest[b] <= d + PollTime + busy[b]
     /\ stage[b] = "handle" => oldest[b] <= d + 2 * PollTime
     /\ stage[b] = "select" => unlisted[b] <= PollTime + SinceTick(b)

Beats(b) ==
  LET d == resolveInterval(b)
  IN /\ stage[b] = "stagger" => timer[b] + beat < d
     /\ InPoll(b) => beat <= d + busy[b]
     /\ stage[b] = "select" => beat <= SinceTick(b)

Timely(b) == TickerInStep(b) /\ SourcesAsked(b) /\ Beats(b)

(* While main starts the goroutines the clock stands still, and afterwards  *)
(* every beacon with an interval has one.                                   *)
Started ==
  /\ main = "spawning" => beat = 0 /\ \A b \in Beacons : unlisted[b] = 0
  /\ ready => main # "spawning"
  /\ \A b \in Beacons : Resolves(b) /\ b <= spawned => stage[b] # "none"
  /\ \A b \in Beacons : stage[b] = "stopped" =>
       cancelled \/ resolveInterval(b) <= 0

TimingInv ==
  /\ Started
  /\ \A b \in Beacons : Steady(b) => Timely(b)

LEMMA SteadyType ==
  ASSUME NEW b \in Beacons, Steady(b)
  PROVE  /\ resolveInterval(b) \in Nat /\ resolveInterval(b) > 0
         /\ PollTime \in Nat /\ PollTime <= resolveInterval(b)
BY IntervalType, LoopAssumption DEF Steady

LEMMA StateType ==
  ASSUME TypeOK, NEW b \in Beacons
  PROVE  /\ timer[b] \in Nat /\ busy[b] \in Nat /\ beat \in Nat
         /\ unlisted[b] \in Nat /\ oldest[b] \in Nat /\ tick[b] \in BOOLEAN
BY DEF TypeOK

(* A step of another goroutine, which at most beats.                        *)
LEMMA OtherTimely ==
  ASSUME TypeOK, NEW b \in Beacons, Steady(b), Timely(b),
         stage'[b] = stage[b], timer'[b] = timer[b], tick'[b] = tick[b],
         busy'[b] = busy[b], unlisted'[b] = unlisted[b],
         oldest'[b] = oldest[b], beat' \in {0, beat}
  PROVE  Timely(b)'
<1>1. TickerInStep(b)'
  BY DEF Timely, TickerInStep, InPoll
<1>2. SourcesAsked(b)'
  BY DEF Timely, SourcesAsked, SinceTick
<1>3. Beats(b)'
  <2>1. beat' <= beat /\ beat' \in Nat /\ busy[b] \in Nat /\ timer[b] \in Nat
        /\ beat \in Nat
    BY StateType
  <2>2. resolveInterval(b) \in Nat
    BY SteadyType
  <2>3. SinceTick(b)' = SinceTick(b) /\ SinceTick(b) \in Int
    BY <2>1, <2>2 DEF SinceTick
  <2> QED BY <2>1, <2>2, <2>3 DEF Timely, Beats, InPoll
<1> QED BY <1>1, <1>2, <1>3 DEF Timely

-----------------------------------------------------------------------------
(* The steps of the beacon itself.                                          *)
LEMMA FirstPollTimely ==
  ASSUME TypeOK, NEW b \in Beacons, Steady(b), Timely(b), FirstPoll(b)
  PROVE  Timely(b)'
<1>1. /\ stage[b] = "stagger" /\ stage'[b] = "fetch" /\ busy'[b] = 0
      /\ timer[b] = 0 /\ timer'[b] = 0 /\ tick' = tick
      /\ unlisted' = unlisted /\ beat' = beat
  BY DEF FirstPoll, BeginPoll, TypeOK
<1>2. ~tick[b] /\ unlisted[b] < resolveInterval(b) /\ beat < resolveInterval(b)
  BY <1>1, StateType DEF Timely, TickerInStep, SourcesAsked, Beats
<1> QED
  BY <1>1, <1>2, SteadyType, StateType
  DEF Timely, TickerInStep, SourcesAsked, Beats, InPoll

LEMMA AnswerTimely ==
  ASSUME TypeOK, NEW b \in Beacons, Steady(b), Timely(b), Answer(b)
  PROVE  Timely(b)'
<1>1. /\ stage[b] = "fetch" /\ stage'[b] = "answered"
      /\ oldest'[b] = unlisted[b] /\ unlisted'[b] = 0
      /\ busy' = busy /\ timer' = timer /\ tick' = tick /\ beat' = beat
  BY DEF Answer, TypeOK
<1> QED
  BY <1>1, SteadyType, StateType
  DEF Timely, TickerInStep, SourcesAsked, Beats, InPoll

LEMMA NowTimely ==
  ASSUME TypeOK, NEW b \in Beacons, Steady(b), Timely(b), Now(b)
  PROVE  Timely(b)'
<1>1. /\ stage[b] = "answered" /\ stage'[b] = "handle"
      /\ oldest' = oldest /\ unlisted' = unlisted
      /\ busy' = busy /\ timer' = timer /\ tick' = tick /\ beat' = beat
  BY DEF Now, TypeOK
<1>2. busy[b] <= PollTime /\ oldest[b] <= resolveInterval(b) + PollTime + busy[b]
  BY <1>1 DEF Timely, TickerInStep, SourcesAsked, InPoll
<1> QED
  BY <1>1, <1>2, SteadyType, StateType
  DEF Timely, TickerInStep, SourcesAsked, Beats, InPoll

LEMMA FinishTimely ==
  ASSUME TypeOK, NEW b \in Beacons, Steady(b), Timely(b), Finish(b)
  PROVE  Timely(b)'
<1>1. /\ stage[b] = "handle" /\ stage'[b] = "select" /\ beat' = 0
      /\ timer'[b] = IF timer[b] = 0 THEN resolveInterval(b) ELSE timer[b]
      /\ tick' = tick /\ unlisted' = unlisted
  BY SteadyType DEF Finish, TypeOK
<1>2. /\ busy[b] <= PollTime /\ unlisted[b] <= busy[b]
      /\ \/ timer[b] = 0 /\ ~tick[b]
         \/ /\ timer[b] > 0 /\ ~tick[b]
            /\ busy[b] = resolveInterval(b) - timer[b]
         \/ timer[b] = resolveInterval(b) /\ tick[b]
  BY <1>1 DEF Timely, TickerInStep, SourcesAsked, InPoll
<1>3. TickerInStep(b)'
  BY <1>1, <1>2, SteadyType, StateType DEF TickerInStep, InPoll
<1>4. SourcesAsked(b)' /\ Beats(b)'
  BY <1>1, <1>2, SteadyType, StateType DEF SourcesAsked, Beats, SinceTick, InPoll
<1> QED BY <1>3, <1>4 DEF Timely

LEMMA NextPollTimely ==
  ASSUME TypeOK, NEW b \in Beacons, Steady(b), Timely(b), NextPoll(b)
  PROVE  Timely(b)'
<1>1. /\ stage[b] = "select" /\ tick[b] /\ stage'[b] = "fetch"
      /\ ~tick'[b] /\ busy'[b] = 0
      /\ timer' = timer /\ unlisted' = unlisted /\ beat' = beat
  BY DEF NextPoll, BeginPoll, TypeOK
<1>2. /\ timer[b] = resolveInterval(b)
      /\ unlisted[b] <= PollTime + resolveInterval(b)
      /\ beat <= resolveInterval(b)
  BY <1>1 DEF Timely, TickerInStep, SourcesAsked, Beats, SinceTick
<1> QED
  BY <1>1, <1>2, SteadyType, StateType
  DEF Timely, TickerInStep, SourcesAsked, Beats, InPoll

LEMMA StopTimely ==
  ASSUME TypeOK, NEW b \in Beacons, Steady(b), Timely(b), Stop(b)
  PROVE  Timely(b)'
<1>1. stage'[b] = "stopped"
  BY DEF Stop, TypeOK
<1> QED BY <1>1 DEF Timely, TickerInStep, SourcesAsked, Beats, InPoll

(* A unit of time. The beacon waits for it, so it is in its stagger, in a   *)
(* poll that may still go on, or in select without a tick.                  *)
LEMMA OlderType ==
  ASSUME NEW x \in Nat, NEW bound
  PROVE  Older(x, bound) \in Nat /\ x <= Older(x, bound) /\ Older(x, bound) <= x + 1
BY DEF Older

LEMMA TickTimely ==
  ASSUME TypeOK, LoopInv, Started, NEW b \in Beacons, Steady(b), Timely(b), Tick
  PROVE  Timely(b)'
<1> DEFINE d == resolveInterval(b)
<1>1. /\ d \in Nat /\ d > 0 /\ PollTime \in Nat /\ PollTime <= d
      /\ timer[b] \in Nat /\ busy[b] \in Nat /\ beat \in Nat
      /\ unlisted[b] \in Nat /\ oldest[b] \in Nat
  BY SteadyType, StateType
<1>2. /\ stage' = stage /\ Waits(b)
      /\ timer'[b] = IF timer[b] = 1 /\ stage[b] # "stagger" THEN d
                     ELSE IF timer[b] = 0 THEN 0 ELSE timer[b] - 1
      /\ tick'[b] <=> tick[b] \/ (timer[b] = 1 /\ stage[b] # "stagger")
      /\ unlisted'[b] \in Nat /\ unlisted'[b] <= unlisted[b] + 1
      /\ oldest'[b] \in Nat /\ oldest'[b] <= oldest[b] + 1
      /\ stage[b] # "answered" => oldest'[b] = oldest[b]
      /\ beat' \in Nat /\ beat' <= beat + 1
  <2>1. /\ stage' = stage /\ Waits(b)
        /\ timer'[b] = Rearm(b)
        /\ tick'[b] <=> tick[b] \/ Fires(b)
        /\ unlisted'[b] = Older(unlisted[b], MaxAge[b] + 1)
        /\ oldest'[b] = IF stage[b] = "answered"
                        THEN Older(oldest[b], MaxAge[b] + 1) ELSE oldest[b]
        /\ beat' = Older(beat, staleAfter)
    BY DEF Tick
  <2>2. /\ timer'[b] = IF timer[b] = 1 /\ stage[b] # "stagger" THEN d
                       ELSE IF timer[b] = 0 THEN 0 ELSE timer[b] - 1
        /\ tick'[b] <=> tick[b] \/ (timer[b] = 1 /\ stage[b] # "stagger")
    BY <2>1 DEF Rearm, Fires
  <2>3. /\ unlisted'[b] \in Nat /\ unlisted'[b] <= unlisted[b] + 1
        /\ beat' \in Nat /\ beat' <= beat + 1
    BY <1>1, <2>1, OlderType
  <2>4. /\ oldest'[b] \in Nat /\ oldest'[b] <= oldest[b] + 1
        /\ stage[b] # "answered" => oldest'[b] = oldest[b]
    <3>1. CASE stage[b] = "answered"
      BY <1>1, <2>1, <3>1, OlderType
    <3>2. CASE stage[b] # "answered"
      BY <1>1, <2>1, <3>2
    <3> QED BY <3>1, <3>2
  <2> HIDE DEF d
  <2> QED BY <2>1, <2>2, <2>3, <2>4
<1>3. stage[b] # "none"
  BY DEF Tick, LoopInv, Started, Steady, Beacons
<1>4. InPoll(b) => busy[b] < PollTime /\ busy'[b] = busy[b] + 1
  <2>1. InPoll(b) => busy[b] < PollTime
    BY <1>2 DEF Waits, InPoll, Steady
  <2>2. InPoll(b) => busy'[b] = Older(busy[b], PollTime + staleAfter)
    BY DEF Tick
  <2> QED BY <1>1, <2>1, <2>2, StaleWindow DEF Older
<1> HIDE DEF d
<1>5. CASE stage[b] = "stagger"
  <2>1. timer[b] > 0
    BY <1>2, <1>5 DEF Waits, InPoll
  <2>2. timer'[b] = timer[b] - 1 /\ ~tick'[b] /\ stage'[b] = "stagger"
        /\ timer[b] < d /\ timer[b] + unlisted[b] < d /\ timer[b] + beat < d
    BY <1>1, <1>2, <1>5, <2>1
    DEF Timely, TickerInStep, SourcesAsked, Beats, d
  <2>3. timer'[b] < d /\ timer'[b] + unlisted'[b] < d /\ timer'[b] + beat' < d
    BY <1>1, <1>2, <2>1, <2>2
  <2> QED BY <2>2, <2>3 DEF Timely, TickerInStep, SourcesAsked, Beats, InPoll, d
<1>6. CASE InPoll(b)
  <2>1. InPoll(b)' /\ stage[b] \notin {"none", "stagger", "select"}
    BY <1>2, <1>6 DEF InPoll
  <2>2. \/ timer[b] = 0 /\ ~tick[b]
        \/ timer[b] > 0 /\ ~tick[b] /\ busy[b] = d - timer[b]
    BY <1>1, <1>4, <1>6 DEF Timely, TickerInStep, d
  <2>3. \/ timer'[b] = 0 /\ ~tick'[b]
        \/ timer'[b] > 0 /\ ~tick'[b] /\ busy'[b] = d - timer'[b]
        \/ timer'[b] = d /\ tick'[b] /\ busy'[b] = PollTime /\ PollTime = d
    <3>1. CASE timer[b] = 0 /\ ~tick[b]
      BY <1>2, <3>1
    <3>2. CASE timer[b] = 1 /\ ~tick[b] /\ busy[b] = d - timer[b]
      BY <1>1, <1>2, <1>4, <1>6, <2>1, <3>2
    <3>3. CASE timer[b] > 1 /\ ~tick[b] /\ busy[b] = d - timer[b]
      BY <1>1, <1>2, <1>4, <1>6, <3>3
    <3> QED BY <1>1, <2>2, <3>1, <3>2, <3>3
  <2>4. TickerInStep(b)'
    BY <1>1, <1>2, <1>4, <1>6, <2>1, <2>3 DEF TickerInStep, d
  <2>5. SourcesAsked(b)'
    <3>1. /\ stage[b] = "fetch" => unlisted[b] <= d + PollTime + busy[b]
          /\ stage[b] \in {"answered", "handle"} => unlisted[b] <= busy[b]
          /\ stage[b] = "answered" => oldest[b] <= d + PollTime + busy[b]
          /\ stage[b] = "handle" => oldest[b] <= d + 2 * PollTime
      BY DEF Timely, SourcesAsked, d
    <3> QED BY <1>1, <1>2, <1>4, <1>6, <2>1, <3>1 DEF SourcesAsked, d
  <2>6. Beats(b)'
    BY <1>1, <1>2, <1>4, <1>6, <2>1 DEF Timely, Beats, d
  <2> QED BY <2>4, <2>5, <2>6 DEF Timely
<1>7. CASE stage[b] = "select"
  <2>1. /\ ~tick[b] /\ timer[b] > 0 /\ timer[b] <= d
        /\ unlisted[b] <= PollTime + (d - timer[b]) /\ beat <= d - timer[b]
    BY <1>2, <1>7
    DEF Waits, InPoll, Timely, TickerInStep, SourcesAsked, Beats, SinceTick, d
  <2>2. CASE timer[b] = 1
    <3>1. /\ timer'[b] = d /\ tick'[b] /\ stage'[b] = "select"
          /\ unlisted'[b] <= PollTime + d /\ beat' <= d
      BY <1>1, <1>2, <1>7, <2>1, <2>2
    <3> QED
      BY <1>1, <3>1
      DEF Timely, TickerInStep, SourcesAsked, Beats, SinceTick, InPoll, d
  <2>3. CASE timer[b] # 1
    <3>1. /\ timer'[b] = timer[b] - 1 /\ ~tick'[b] /\ stage'[b] = "select"
          /\ timer'[b] > 0 /\ timer'[b] <= d
          /\ unlisted'[b] <= PollTime + (d - timer'[b]) /\ beat' <= d - timer'[b]
      BY <1>1, <1>2, <1>7, <2>1, <2>3
    <3> QED
      BY <3>1
      DEF Timely, TickerInStep, SourcesAsked, Beats, SinceTick, InPoll, d
  <2> QED BY <2>2, <2>3
<1>8. CASE stage[b] = "stopped"
  BY <1>2, <1>8 DEF Timely, TickerInStep, SourcesAsked, Beats, InPoll
<1> QED BY <1>3, <1>5, <1>6, <1>7, <1>8 DEF TypeOK, InPoll

-----------------------------------------------------------------------------
LEMMA TimingInit == Init => TimingInv
<1> SUFFICES ASSUME Init PROVE TimingInv
  OBVIOUS
<1>1. /\ main = "spawning" /\ spawned = 0 /\ beat = 0
      /\ ~ready
      /\ \A b \in Beacons : stage[b] = "none" /\ ~tick[b] /\ unlisted[b] = 0
  BY DEF Init
<1>2. Started
  BY <1>1 DEF Started, Beacons
<1>3. \A b \in Beacons : Timely(b)
  BY <1>1 DEF Timely, TickerInStep, SourcesAsked, Beats, InPoll
<1> QED BY <1>2, <1>3 DEF TimingInv

LEMMA TimingStep == TypeOK /\ LoopInv /\ TimingInv /\ [Next]_vars => TimingInv'
<1> SUFFICES ASSUME TypeOK, LoopInv, TimingInv, [Next]_vars PROVE TimingInv'
  OBVIOUS
<1> USE DEF TimingInv
<1>1. CASE /\ UNCHANGED <<stage, timer, tick, busy, unlisted, oldest, beat,
                          spawned, main, ready>>
           /\ cancelled => cancelled'
  <2>1. Started'
    BY <1>1 DEF Started
  <2> QED BY <1>1, <2>1, OtherTimely
<1>2. CASE Spawn
  <2>0. PICK b \in Beacons : b = spawned + 1
    BY <1>2, LoopAssumption DEF Spawn, TypeOK, Beacons
  <2>1. b = spawned + 1 /\ spawned' = b /\ main = "spawning" /\ spawned \in Nat
    BY <1>2, <2>0 DEF Spawn, TypeOK
  <2>2. stage[b] = "none"
    BY <2>1 DEF LoopInv
  <2>3. /\ UNCHANGED <<main, tick, busy, unlisted, oldest, cancelled, ready, beat>>
        /\ \A c \in Beacons : c # b => stage'[c] = stage[c] /\ timer'[c] = timer[c]
        /\ Resolves(b) => stage'[b] = "stagger" /\ timer'[b] = staggerOffset(b)
        /\ ~Resolves(b) => stage'[b] = stage[b] /\ timer'[b] = timer[b]
    BY <1>2, <2>1 DEF Spawn, TypeOK
  <2>4. Started'
    <3>1. \A c \in Beacons : c <= spawned' => c <= spawned \/ c = b
      BY <2>1 DEF Beacons
    <3> QED BY <2>1, <2>2, <2>3, <3>1 DEF Started
  <2>5. ASSUME Steady(b) PROVE Timely(b)'
    <3>1. staggerOffset(b) \in Nat /\ staggerOffset(b) < resolveInterval(b)
      BY <2>1, <2>5, StaggerBound DEF Steady
    <3>2. /\ stage'[b] = "stagger" /\ timer'[b] = staggerOffset(b)
          /\ unlisted'[b] = 0 /\ beat' = 0 /\ ~tick'[b]
      <4>1. ~tick[b]
        BY <2>1, <2>2, <2>5 DEF Timely, TickerInStep
      <4>2. tick'[b] = tick[b]
        BY <2>3
      <4>3. /\ stage'[b] = "stagger" /\ timer'[b] = staggerOffset(b)
            /\ unlisted'[b] = 0 /\ beat' = 0
        BY <2>1, <2>3, <2>5 DEF Steady, Started
      <4> QED BY <4>1, <4>2, <4>3
    <3>3. resolveInterval(b) \in Nat
      BY <2>1, <2>5, SteadyType
    <3>4. TickerInStep(b)'
      BY <3>1, <3>2, <3>3 DEF TickerInStep, InPoll
    <3>5. SourcesAsked(b)'
      BY <3>1, <3>2, <3>3 DEF SourcesAsked
    <3>6. Beats(b)'
      BY <3>1, <3>2, <3>3 DEF Beats, InPoll
    <3> QED BY <3>4, <3>5, <3>6 DEF Timely
  <2>6. ASSUME NEW c \in Beacons, c # b, Steady(c) PROVE Timely(c)'
    BY <2>3, <2>6, OtherTimely
  <2>7. \A c \in Beacons : Steady(c) => Timely(c)'
    BY <2>5, <2>6
  <2> QED BY <2>4, <2>7
<1>3. CASE Ready
  <2>1. Started'
    BY <1>3 DEF Ready, Started
  <2> QED BY <1>3, <2>1, OtherTimely DEF Ready
<1>4. CASE Close
  <2>1. Started'
    BY <1>4 DEF Close, Started
  <2> QED BY <1>4, <2>1, OtherTimely DEF Close
<1>5. CASE Cancel
  BY <1>1, <1>5 DEF Cancel
<1>6. ASSUME NEW b \in Beacons, StartPoll(b) \/ GoOn(b) \/ Stop(b)
      PROVE  TimingInv'
  <2>1. /\ UNCHANGED <<main, spawned, cancelled, ready>>
        /\ beat' \in {0, beat}
        /\ stage[b] # "none" /\ stage'[b] # "none"
        /\ stage'[b] = "stopped" => cancelled \/ resolveInterval(b) <= 0
        /\ unlisted'[b] \in {0, unlisted[b]}
        /\ \A c \in Beacons : c # b =>
             /\ stage'[c] = stage[c] /\ timer'[c] = timer[c]
             /\ tick'[c] = tick[c] /\ busy'[c] = busy[c]
             /\ unlisted'[c] = unlisted[c] /\ oldest'[c] = oldest[c]
    <3>1. CASE FirstPoll(b)
      BY <3>1 DEF FirstPoll, BeginPoll, TypeOK
    <3>2. CASE NextPoll(b)
      BY <3>2 DEF NextPoll, BeginPoll, TypeOK
    <3>3. CASE Answer(b)
      BY <3>3 DEF Answer, TypeOK
    <3>4. CASE Now(b)
      BY <3>4 DEF Now, TypeOK
    <3>5. CASE Finish(b)
      BY <3>5 DEF Finish, TypeOK
    <3>6. CASE Stop(b)
      BY <3>6 DEF Stop, TypeOK
    <3> QED BY <1>6, <3>1, <3>2, <3>3, <3>4, <3>5, <3>6 DEF StartPoll, GoOn
  <2>2. Started'
    BY <2>1 DEF Started
  <2>3. ASSUME Steady(b) PROVE Timely(b)'
    BY <1>6, <2>3, FirstPollTimely, NextPollTimely, AnswerTimely, NowTimely,
       FinishTimely, StopTimely DEF StartPoll, GoOn
  <2>4. ASSUME NEW c \in Beacons, c # b, Steady(c) PROVE Timely(c)'
    BY <2>1, <2>4, OtherTimely
  <2> QED BY <2>2, <2>3, <2>4
<1>7. CASE Tick
  <2>1. Started'
    BY <1>7 DEF Tick, Started
  <2> QED BY <1>7, <2>1, TickTimely
<1> QED
  BY <1>1, <1>2, <1>3, <1>4, <1>5, <1>6, <1>7 DEF Next, Ended, vars

LEMMA TimingInvariant == Spec => [](TypeOK /\ LoopInv /\ TimingInv)
<1>1. Init => TypeOK /\ LoopInv /\ TimingInv
  BY LoopInit, TimingInit
<1>2. TypeOK /\ LoopInv /\ TimingInv /\ [Next]_vars
        => TypeOK' /\ LoopInv' /\ TimingInv'
  BY LoopStep, TimingStep
<1> QED BY <1>1, <1>2, PTL DEF Spec

(* While the polls of one beacon take less than its interval, the heartbeat *)
(* is younger than the staleness window and /healthz answers 200, whatever  *)
(* the other beacons do.                                                    *)
THEOREM PunctualIsHealthy == Spec => []HealthyWhenPunctual
<1>1. TypeOK /\ LoopInv /\ TimingInv => HealthyWhenPunctual
  <2> SUFFICES ASSUME TypeOK, LoopInv, TimingInv, ready, ~cancelled,
                      NEW b \in Beacons, Punctual(b)
               PROVE  beat < staleAfter
    BY DEF HealthyWhenPunctual, Healthy
  <2> DEFINE d == resolveInterval(b)
  <2>1. d \in Int /\ d > 0 /\ PollTime \in Nat /\ PollTime < d /\ Steady(b)
    BY IntervalType, LoopAssumption DEF Punctual, Steady
  <2>2. staleAfter \in Nat /\ 2 * d <= staleAfter
    BY StaleWindow DEF Punctual
  <2>3. beat \in Nat /\ timer[b] \in Nat /\ busy[b] \in Nat
    BY StateType
  <2>4. stage[b] \notin {"none", "stopped"}
    <3>1. spawned = Count
      BY DEF TimingInv, Started, LoopInv
    <3> QED BY <2>1, <3>1 DEF TimingInv, Started, Punctual, Beacons
  <2>5. Timely(b)
    BY <2>1 DEF TimingInv
  <2> HIDE DEF d
  <2>6. CASE stage[b] = "stagger"
    BY <2>1, <2>2, <2>3, <2>5, <2>6 DEF Timely, Beats, d
  <2>7. CASE InPoll(b)
    <3>1. beat <= d + busy[b] /\ busy[b] <= PollTime
      BY <2>5, <2>7 DEF Timely, TickerInStep, Beats, d
    <3> QED BY <2>1, <2>2, <2>3, <3>1
  <2>8. CASE stage[b] = "select"
    <3>1. beat <= d
      BY <2>1, <2>3, <2>5, <2>8 DEF Timely, Beats, SinceTick, d
    <3> QED BY <2>1, <2>2, <2>3, <3>1
  <2> QED BY <2>4, <2>6, <2>7, <2>8 DEF TypeOK, InPoll
<1> QED BY <1>1, TimingInvariant, PTL

(* No signal of an answering source ages out unjudged when the interval and *)
(* two polls fit into max_age.                                              *)
THEOREM JudgedBeforeMaxAge == Spec => []NothingAgesOut
<1>1. TypeOK /\ TimingInv => NothingAgesOut
  <2> SUFFICES ASSUME TypeOK, TimingInv, NEW b \in Beacons, Resolves(b),
                      Fits(b), stage[b] = "handle"
               PROVE  oldest[b] <= MaxAge[b]
    BY DEF NothingAgesOut, JudgedInTime
  <2>1. Steady(b)
    BY DEF Fits, Steady
  <2>2. oldest[b] <= resolveInterval(b) + 2 * PollTime
    BY <2>1 DEF TimingInv, Timely, SourcesAsked
  <2>3. /\ resolveInterval(b) \in Nat /\ PollTime \in Nat /\ MaxAge[b] \in Nat
        /\ oldest[b] \in Nat
    BY <2>1, SteadyType, StateType, LoopAssumption
  <2> QED BY <2>2, <2>3 DEF Fits
<1> QED BY <1>1, TimingInvariant, PTL
=============================================================================
