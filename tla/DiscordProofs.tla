---------------------------- MODULE DiscordProofs ----------------------------
(* A beacon's posts come in bursts of three at the most, whatever the       *)
(* spacing and the interval are and however long polls, posts and waits     *)
(* take.                                                                    *)
EXTENDS Discord, TLAPS

(* The bounds of the ages, and the lull among them.                         *)
LEMMA Times ==
  /\ Forever \in Nat /\ Forever >= Spacing /\ Forever >= Interval
  /\ Lull \in Nat /\ Lull <= Spacing /\ (Interval > 0 => Lull <= Interval)
BY DiscordAssumption DEF Forever, Lull

(* The variables' types, index by index.                                    *)
LEMMA Types ==
  ASSUME TypeOK
  PROVE  /\ \A i \in 1..3 : ago[i] \in 0 .. Forever /\ polls[i] \in 0 .. Many
         /\ \A i \in 1..2 : begun[i] \in 0 .. Forever
         /\ timer \in 0 .. Interval /\ wait \in 0 .. Spacing
         /\ elapsed \in 0 .. Forever
BY DEF TypeOK

(* The types and the pacing invariant hold at the start.                    *)
LEMMA InitInv == Init => TypeOK /\ PaceInv
<1> SUFFICES ASSUME Init PROVE TypeOK /\ PaceInv
  OBVIOUS
<1> USE Times, DiscordAssumption
<1>1. TypeOK
  <2>1. Forever \in 0 .. Forever /\ 0 \in 0 .. Spacing /\ 0 \in 0 .. Interval
    OBVIOUS
  <2>2. Many \in 0 .. Many
    BY DEF Many
  <2> QED
    BY <2>1, <2>2 DEF Init, TypeOK
<1>2. PaceInv
  BY DEF Init, PaceInv, SinkInv, RhythmInv, PostsInv, Many
<1> QED
  BY <1>1, <1>2

(* What a new poll does to the history: every post becomes one poll older,  *)
(* and a third poll after a post needs a tick that the post is older than.  *)
LEMMA PollInv ==
  ASSUME TypeOK, PaceInv, FirstPoll \/ NextPoll
  PROVE  TypeOK' /\ PaceInv'
<1> USE Times, Types, DiscordAssumption
<1>0. /\ stage' = "poll" /\ elapsed' = Forever /\ timer' = timer /\ wait' = wait
      /\ loop' = loop /\ cancelled' = cancelled /\ ago' = ago
      /\ polls' = [i \in 1..3 |-> Counted(polls[i])]
      /\ begun' = [i \in 1..2 |-> IF i = 1 THEN 0 ELSE begun[1]]
      /\ due' \in BOOLEAN
  BY DEF FirstPoll, NextPoll, runBeacon, TypeOK
<1>1. TypeOK'
  <2>1. \A i \in 1..3 : Counted(polls[i]) \in 0 .. Many
    BY DEF Counted, Many
  <2>2. begun' \in [1..2 -> 0 .. Forever]
    BY <1>0
  <2>3. polls' \in [1..3 -> 0 .. Many]
    BY <1>0, <2>1
  <2> QED
    BY <1>0, <2>2, <2>3 DEF TypeOK
<1>2. begun'[1] = 0 /\ begun'[2] = begun[1]
  BY <1>0
<1>3. \A i \in 1..3 : polls'[i] = Counted(polls[i])
  BY <1>0
<1>4. SinkInv'
  BY <1>0, <1>3 DEF PaceInv, SinkInv, Counted, Many
<1>5. RhythmInv'
  <2>1. CASE NextPoll
    <3>1. due /\ due' = FALSE
      BY <2>1 DEF NextPoll
    <3> QED
      BY <1>0, <1>2, <3>1 DEF PaceInv, RhythmInv
  <2>2. CASE FirstPoll
    <3>1. timer = 0 /\ ~due
      BY <2>2 DEF FirstPoll, PaceInv, RhythmInv
    <3>2. ~due'
      BY <2>2, <3>1 DEF FirstPoll
    <3> QED
      BY <1>0, <1>2, <3>1, <3>2 DEF PaceInv, RhythmInv
  <2> QED
    BY <2>1, <2>2
<1>6. ASSUME NEW i \in 1..3
      PROVE  /\ polls'[i] >= 1 => ago[i] >= begun'[1]
             /\ polls'[i] >= 2 => ago[i] >= begun'[2]
             /\ polls'[i] >= 3 => ago[i] >= Lull
  <2>1. polls[i] \in 0 .. Many /\ ago[i] \in 0 .. Forever
    OBVIOUS
  <2>2. CASE NextPoll
    <3>1. timer > 0 /\ begun[2] >= Interval /\ Interval > 0
      BY <2>2 DEF NextPoll, PaceInv, RhythmInv
    <3> QED
      BY <1>2, <1>3, <2>1, <3>1 DEF PaceInv, PostsInv, Counted, Many
  <2>3. CASE FirstPoll
    <3>1. ago[i] = Forever
      BY <2>3 DEF FirstPoll, PaceInv, SinkInv
    <3> QED
      BY <1>2, <3>1
  <2> QED
    BY <2>2, <2>3
<1>7. ASSUME NEW i \in 2..3
      PROVE  polls'[i - 1] < polls'[i] \/ ago[i] >= Lull
  <2>1. i \in 1..3 /\ i - 1 \in 1..3
    OBVIOUS
  <2>2. polls[i] \in 0 .. Many /\ polls[i - 1] \in 0 .. Many
    BY <2>1
  <2>3. /\ polls[i - 1] < polls[i] \/ ago[i] >= Lull
        /\ polls[i] >= 3 => ago[i] >= Lull
    BY <2>1 DEF PaceInv, PostsInv
  <2> QED
    BY <1>3, <2>1, <2>2, <2>3 DEF Counted, Many
<1>8. PostsInv'
  BY <1>0, <1>6, <1>7 DEF PaceInv, PostsInv
<1> QED
  BY <1>1, <1>4, <1>5, <1>8 DEF PaceInv

(* A post that goes out is apart from the last three as BurstBounded says:  *)
(* the last one is of this sink, and its spacing has passed, or three polls *)
(* began after the third last unless some of the three are apart already.   *)
LEMMA PostApart ==
  ASSUME TypeOK, PaceInv, DeliverAtOnce \/ Waited
  PROVE  ago[3] >= Lull /\ (polls[1] = 0 => ago[1] >= Spacing)
<1> USE Times, Types, DiscordAssumption
<1>1. elapsed >= Spacing
  BY DEF DeliverAtOnce, Waited, Remainder, PaceInv, SinkInv
<1>2. polls[1] = 0 => ago[1] >= Spacing
  BY <1>1 DEF PaceInv, SinkInv
<1>3. /\ polls[1] < polls[2] \/ ago[2] >= Lull
      /\ polls[2] < polls[3] \/ ago[3] >= Lull
      /\ polls[3] >= 3 => ago[3] >= Lull
      /\ ago[1] <= ago[2] /\ ago[2] <= ago[3]
  <2>1. 2 - 1 = 1 /\ 3 - 1 = 2 /\ 2 \in 2..3 /\ 3 \in 2..3 /\ 3 \in 1..3
    OBVIOUS
  <2> QED
    BY <2>1 DEF PaceInv, PostsInv
<1> QED
  BY <1>2, <1>3

(* The end of pace keeps the types and the invariant.                       *)
LEMMA PostInv ==
  ASSUME TypeOK, PaceInv, DeliverAtOnce \/ Waited
  PROVE  TypeOK' /\ PaceInv'
<1> USE Times, Types, DiscordAssumption
<1>0. /\ elapsed' = 0 /\ wait' = 0 /\ timer' = timer /\ due' = due
      /\ loop' = loop /\ cancelled' = cancelled /\ begun' = begun
      /\ stage' \in {"poll", "send"}
  BY DEF DeliverAtOnce, Waited, Post
<1>1. RhythmInv'
  BY <1>0 DEF PaceInv, RhythmInv
<1>2. CASE UNCHANGED <<ago, polls>>
  <2>1. TypeOK'
    BY <1>0, <1>2 DEF TypeOK
  <2>2. SinkInv' /\ PostsInv'
    BY <1>0, <1>2 DEF PaceInv, SinkInv, PostsInv
  <2> QED
    BY <1>1, <2>1, <2>2 DEF PaceInv
<1>3. CASE ago' = WithNew(ago) /\ polls' = WithNew(polls)
  <2>1. /\ ago'[1] = 0 /\ ago'[2] = ago[1] /\ ago'[3] = ago[2]
        /\ polls'[1] = 0 /\ polls'[2] = polls[1] /\ polls'[3] = polls[2]
    BY <1>3 DEF WithNew
  <2>2. TypeOK'
    <3>1. ago' \in [1..3 -> 0 .. Forever] /\ polls' \in [1..3 -> 0 .. Many]
      BY <1>3 DEF WithNew, Many
    <3> QED
      BY <1>0, <3>1 DEF TypeOK
  <2>3. SinkInv'
    BY <1>0, <2>1 DEF SinkInv
  <2>4. /\ polls[1] < polls[2] \/ ago[2] >= Lull
        /\ \A i \in 1..3 :
             /\ polls[i] >= 1 => ago[i] >= begun[1]
             /\ polls[i] >= 2 => ago[i] >= begun[2]
             /\ polls[i] >= 3 => ago[i] >= Lull
        /\ ago[1] <= ago[2]
    <3>1. 2 - 1 = 1 /\ 2 \in 2..3
      OBVIOUS
    <3> QED
      BY <3>1 DEF PaceInv, PostsInv
  <2>5. polls[1] = 0 => ago[1] >= Spacing
    BY PostApart
  <2>6. \A i \in 2..3 : polls'[i - 1] < polls'[i] \/ ago'[i] >= Lull
    <3>1. polls'[1] < polls'[2] \/ ago'[2] >= Lull
      BY <2>1, <2>5
    <3>2. polls'[2] < polls'[3] \/ ago'[3] >= Lull
      BY <2>1, <2>4
    <3>3. \A i \in 2..3 : (i = 2 /\ i - 1 = 1) \/ (i = 3 /\ i - 1 = 2)
      OBVIOUS
    <3> QED
      BY <3>1, <3>2, <3>3
  <2>7. \A i \in 1..3 :
          /\ polls'[i] >= 1 => ago'[i] >= begun[1]
          /\ polls'[i] >= 2 => ago'[i] >= begun[2]
          /\ polls'[i] >= 3 => ago'[i] >= Lull
    <3>1. \A i \in 1..3 : i = 1 \/ i = 2 \/ i = 3
      OBVIOUS
    <3> QED
      BY <2>1, <2>4, <3>1
  <2>8. PostsInv'
    BY <1>0, <2>1, <2>4, <2>6, <2>7 DEF PostsInv
  <2> QED
    BY <1>1, <2>2, <2>3, <2>8 DEF PaceInv
<1> QED
  BY <1>2, <1>3 DEF DeliverAtOnce, Waited, Post

(* Ages go on and waits go down, within their types.                        *)
LEMMA TickInv ==
  ASSUME TypeOK, PaceInv, Tick
  PROVE  TypeOK' /\ PaceInv'
<1> USE Times, Types, DiscordAssumption
<1>0. /\ stage' = stage /\ polls' = polls /\ loop' = loop
      /\ cancelled' = cancelled
      /\ elapsed' = Older(elapsed) /\ wait' = Sooner(wait)
      /\ timer' = (IF timer = 1 THEN Interval ELSE Sooner(timer))
      /\ due' = (due \/ timer = 1)
      /\ \A i \in 1..3 : ago'[i] = Older(ago[i])
      /\ \A i \in 1..2 : begun'[i] = Older(begun[i])
  BY DEF Tick
<1>1. TypeOK'
  <2>1. \A a \in 0 .. Forever : Older(a) \in 0 .. Forever
    BY DEF Older
  <2>2. ago' \in [1..3 -> 0 .. Forever] /\ begun' \in [1..2 -> 0 .. Forever]
    BY <2>1 DEF Tick
  <2>3. timer' \in 0 .. Interval /\ wait' \in 0 .. Spacing
    BY <1>0 DEF Sooner
  <2> QED
    BY <1>0, <2>1, <2>2, <2>3 DEF TypeOK
<1>2. SinkInv'
  <2>1. stage = "pace" => elapsed' + wait' >= Spacing
    BY <1>0 DEF PaceInv, SinkInv, Older, Sooner
  <2>2. polls[1] = 0 => elapsed' <= ago'[1]
    BY <1>0 DEF PaceInv, SinkInv, Older
  <2>3. stage = "new" => \A i \in 1..3 : ago'[i] = Forever
    BY <1>0 DEF PaceInv, SinkInv, Older
  <2> QED
    BY <1>0, <2>1, <2>2, <2>3 DEF SinkInv
<1>3. RhythmInv'
  <2>1. /\ begun'[1] = Older(begun[1]) /\ begun'[2] = Older(begun[2])
        /\ begun[1] \in 0 .. Forever /\ begun[2] \in 0 .. Forever
    BY <1>0
  <2>2. begun'[1] <= begun'[2]
    BY <2>1 DEF PaceInv, RhythmInv, Older
  <2>3. due' => timer' > 0 /\ timer' + begun'[1] >= Interval /\ begun'[2] >= Interval
    <3>1. CASE timer = 1
      <4>1. timer' = Interval /\ Interval > 0
        BY <1>0, <3>1
      <4>2. 1 + begun[2] >= Interval
        BY <3>1 DEF PaceInv, RhythmInv
      <4> QED
        BY <2>1, <4>1, <4>2 DEF Older
    <3>2. CASE timer # 1
      <4>1. due' => due
        BY <3>2 DEF Tick
      <4>2. due => timer > 0 /\ timer + begun[1] >= Interval /\ begun[2] >= Interval
        BY DEF PaceInv, RhythmInv
      <4>3. timer > 0 => timer' > 0
        BY <1>0, <3>2 DEF Sooner
      <4>4. timer + begun[1] >= Interval => timer' + begun'[1] >= Interval
        BY <1>0, <2>1, <3>2 DEF Sooner, Older
      <4>5. begun[2] >= Interval => begun'[2] >= Interval
        BY <2>1 DEF Older
      <4> QED
        BY <4>1, <4>2, <4>3, <4>4, <4>5
    <3> QED
      BY <3>1, <3>2
  <2>4. timer' > 0 => timer' + begun'[2] >= Interval
    BY <1>0, <2>1 DEF PaceInv, RhythmInv, Older, Sooner
  <2>5. stage' = "new" => timer' = 0 /\ ~due'
    <3>1. stage = "new" => timer = 0 /\ ~due
      BY DEF PaceInv, RhythmInv
    <3>2. timer = 0 => timer' = 0
      BY <1>0 DEF Sooner
    <3>3. due' => due \/ timer = 1
      BY DEF Tick
    <3> QED
      BY <1>0, <3>1, <3>2, <3>3
  <2> QED
    BY <2>2, <2>3, <2>4, <2>5 DEF RhythmInv
<1>4. PostsInv'
  <2>1. ago'[1] <= ago'[2] /\ ago'[2] <= ago'[3]
    BY <1>0 DEF PaceInv, PostsInv, Older
  <2>2. \A i \in 1..3 : ago'[i] >= ago[i]
    BY <1>0 DEF Older
  <2>3. \A i \in 1..3, n \in 1..2 : ago[i] >= begun[n] => ago'[i] >= begun'[n]
    BY <1>0 DEF Older
  <2>4. \A i \in 1..3 :
          /\ polls'[i] >= 1 => ago'[i] >= begun'[1]
          /\ polls'[i] >= 2 => ago'[i] >= begun'[2]
    BY <1>0, <2>3 DEF PaceInv, PostsInv
  <2>5. \A i \in 1..3 : ago[i] >= Lull => ago'[i] >= Lull
    BY <1>1, <2>2 DEF TypeOK
  <2>6. \A i \in 1..3 : polls'[i] >= 3 => ago'[i] >= Lull
    BY <1>0, <2>5 DEF PaceInv, PostsInv
  <2>7. \A i \in 2..3 : polls'[i - 1] < polls'[i] \/ ago'[i] >= Lull
    BY <1>0, <2>5 DEF PaceInv, PostsInv
  <2> QED
    BY <2>1, <2>4, <2>6, <2>7 DEF PostsInv
<1> QED
  BY <1>1, <1>2, <1>3, <1>4 DEF PaceInv

(* The steps that leave the history alone keep the types and the invariant. *)
LEMMA QuietInv ==
  ASSUME TypeOK, PaceInv,
         EndPoll \/ Stop \/ DeliverLater \/ WaitCancelled \/ Answered \/ Cancel
  PROVE  TypeOK' /\ PaceInv'
<1> USE Times, Types, DiscordAssumption
<1>1. ago' = ago /\ polls' = polls /\ begun' = begun /\ elapsed' = elapsed
  BY DEF EndPoll, Stop, DeliverLater, WaitCancelled, Answered, Cancel, history
<1>2. PostsInv'
  BY <1>1 DEF PaceInv, PostsInv
<1>3. TypeOK'
  <2>1. timer' \in 0 .. Interval /\ wait' \in 0 .. Spacing
    BY DEF EndPoll, Stop, DeliverLater, WaitCancelled, Answered, Cancel, Remainder
  <2>2. loop' \in BOOLEAN /\ due' \in BOOLEAN /\ cancelled' \in BOOLEAN
    BY Zenon DEF EndPoll, Stop, DeliverLater, WaitCancelled, Answered, Cancel,
                 TypeOK
  <2>3. stage' \in {"new", "poll", "pace", "send", "idle", "over"}
    BY DEF EndPoll, Stop, DeliverLater, WaitCancelled, Answered, Cancel, TypeOK
  <2> QED
    BY <1>1, <2>1, <2>2, <2>3 DEF TypeOK
<1>4. SinkInv'
  <2>1. stage' = "pace" => elapsed + wait' >= Spacing
    BY DEF EndPoll, Stop, DeliverLater, WaitCancelled, Answered, Cancel,
           Remainder, PaceInv, SinkInv
  <2>2. stage' = "new" => stage = "new"
    BY DEF EndPoll, Stop, DeliverLater, WaitCancelled, Answered, Cancel
  <2> QED
    BY <1>1, <2>1, <2>2 DEF PaceInv, SinkInv
<1>5. RhythmInv'
  <2>1. CASE EndPoll
    BY <1>1, <2>1 DEF EndPoll, PaceInv, RhythmInv
  <2>2. CASE Stop
    BY <1>1, <2>2 DEF Stop, PaceInv, RhythmInv
  <2>3. CASE DeliverLater \/ WaitCancelled \/ Answered \/ Cancel
    <3>1. timer' = timer /\ due' = due /\ (stage' = "new" => stage = "new")
      BY <2>3 DEF DeliverLater, WaitCancelled, Answered, Cancel
    <3>2. stage = "new" => timer = 0 /\ ~due
      BY DEF PaceInv, RhythmInv
    <3> QED
      BY <1>1, <3>1, <3>2 DEF PaceInv, RhythmInv
  <2> QED
    BY <2>1, <2>2, <2>3
<1> QED
  BY <1>2, <1>3, <1>4, <1>5 DEF PaceInv

(* Every step keeps the types and the invariant.                            *)
LEMMA StepInv == TypeOK /\ PaceInv /\ [Next]_vars => TypeOK' /\ PaceInv'
<1> SUFFICES ASSUME TypeOK, PaceInv, [Next]_vars PROVE TypeOK' /\ PaceInv'
  OBVIOUS
<1>1. CASE UNCHANGED vars
  BY <1>1 DEF vars, history, TypeOK, PaceInv, SinkInv, RhythmInv, PostsInv
<1>2. CASE Next
  BY <1>2, PollInv, PostInv, TickInv, QuietInv DEF Next
<1> QED
  BY <1>1, <1>2

(* The sink's, the ticker's and the history's variables keep their types.   *)
THEOREM TypeCorrect == Spec => []TypeOK
<1>1. Spec => [](TypeOK /\ PaceInv)
  BY InitInv, StepInv, PTL DEF Spec
<1> QED
  BY <1>1, PTL

(* The pacing invariant is inductive.                                       *)
THEOREM PaceInvariant == Spec => []PaceInv
<1>1. Spec => [](TypeOK /\ PaceInv)
  BY InitInv, StepInv, PTL DEF Spec
<1> QED
  BY <1>1, PTL

(* Posts of one poll are Spacing apart, and of four posts in a row the last *)
(* is a Lull after the first.                                               *)
THEOREM BurstsAreBounded == Spec => BurstBounded
<1>1. ASSUME TypeOK, PaceInv, [Next]_vars, Sends
      PROVE  DeliverAtOnce \/ Waited
  BY <1>1 DEF Sends, Next, vars, FirstPoll, NextPoll, runBeacon, EndPoll, Stop,
              DeliverLater, WaitCancelled, Answered, Cancel, Tick
<1>2. TypeOK /\ PaceInv /\ [Next]_vars
        => [Sends => ago[3] >= Lull /\ (polls[1] = 0 => ago[1] >= Spacing)]_vars
  BY <1>1, PostApart
<1>3. Spec => [](TypeOK /\ PaceInv)
  BY TypeCorrect, PaceInvariant, PTL
<1> QED
  BY <1>2, <1>3, PTL DEF Spec, BurstBounded
=============================================================================
