---------------------------- MODULE EngineProofs ----------------------------
(* Theorems about Engine, for every number of beacons, signals, sources and *)
(* failures.                                                                *)
EXTENDS Engine, FiniteSetTheorems, TLAPS

(* The store operations lead from contents to contents.                     *)
LEMMA ContentsClosed ==
  ASSUME NEW c \in Contents
  PROVE  /\ \A k \in Key : MarkedSeen(c, k) \in Contents
         /\ \A f \in Finding : Recorded(c, f) \subseteq Contents
         /\ \A src \in Sources : Purged(c, src) \in Contents
<1>1. ASSUME NEW k \in Key PROVE MarkedSeen(c, k) \in Contents
  BY DEF MarkedSeen, Contents
<1>2. ASSUME NEW f \in Finding PROVE Recorded(c, f) \subseteq Contents
  <2>1. f.key \in Key
    BY DEF Finding
  <2>2. ASSUME NEW kept \in {c.findings, {g \in c.findings : g.key # f.key}}
        PROVE  [seen |-> c.seen \cup {f.key}, findings |-> kept \cup {f},
                claims |-> c.claims] \in Contents
    <3>1. kept \subseteq Finding
      BY DEF Contents
    <3> QED BY <2>1, <3>1 DEF Contents
  <2> QED BY <2>2 DEF Recorded
<1>3. ASSUME NEW src \in Sources PROVE Purged(c, src) \in Contents
  BY DEF Purged, Contents
<1> QED BY <1>1, <1>2, <1>3

(* A run that has a current signal has a key and a source for it.           *)
LEMMA CurrentType ==
  ASSUME TypeOK, NEW r \in Runs, todo[r] # <<>>
  PROVE  /\ Current(r) \in Item
         /\ CurrentKey(r) \in Key
         /\ CurrentKey(r)[1] = r[2]
         /\ CurrentSource(r) \in Sources
         /\ Tail(todo[r]) \in Seq(Item)
<1>1. todo[r] \in Seq(Item)
  BY DEF TypeOK
<1>2. Current(r) \in Item /\ Tail(todo[r]) \in Seq(Item)
  BY <1>1 DEF Current
<1>3. r[2] \in Beacons
  BY DEF Runs
<1> QED BY <1>2, <1>3, EngineAssumption DEF Item, CurrentKey, CurrentSource, KeyOf, Key

LEMMA TallyType ==
  ASSUME TypeOK, NEW r \in Runs, NEW src \in Sources,
         NEW gain \in [Outcomes -> Nat], Tally(r, src, gain)
  PROVE  counts' \in [Runs -> [Sources -> [Outcomes -> Nat]]]
<1>1. counts[r][src] \in [Outcomes -> Nat]
  BY DEF TypeOK
<1>2. [o \in Outcomes |-> counts[r][src][o] + gain[o]] \in [Outcomes -> Nat]
  BY <1>1
<1> QED BY <1>2 DEF TypeOK, Tally

LEMMA CountType ==
  ASSUME TypeOK, NEW r \in Runs, todo[r] # <<>>, NEW O, Count(r, O)
  PROVE  counts' \in [Runs -> [Sources -> [Outcomes -> Nat]]]
<1>1. CurrentSource(r) \in Sources
  BY CurrentType
<1>2. Ones(O) \in [Outcomes -> Nat]
  BY DEF Ones
<1> QED BY <1>1, <1>2, TallyType DEF Count

LEMMA DoneType ==
  ASSUME TypeOK, NEW r \in Runs, todo[r] # <<>>, Done(r)
  PROVE  /\ pc' \in [Runs -> Labels]
         /\ todo' \in [Runs -> Seq(Item)]
         /\ verdict' \in [Runs -> Verdicts \cup {NoVerdict}]
<1>1. Tail(todo[r]) \in Seq(Item)
  BY CurrentType
<1> QED BY <1>1 DEF TypeOK, Done, Labels

(* Signals with their marks are items.                                      *)
LEMMA ItemsOf ==
  ASSUME NEW S \in SUBSET Ids, NEW T
  PROVE  {[sig |-> s, pre |-> s \in T] : s \in S} \in SUBSET Item
<1>1. ASSUME NEW s \in S PROVE [sig |-> s, pre |-> s \in T] \in Item
  <2>1. s \in Ids /\ (s \in T) \in BOOLEAN
    OBVIOUS
  <2> QED BY <2>1, Zenon DEF Item
<1> QED BY <1>1

(* What a fetcher returns is a sequence of items.                           *)
LEMMA SeqsOfItems ==
  ASSUME NEW S \in SUBSET Item, NEW got \in SetToSeqs(S)
  PROVE  got \in Seq(Item) /\ Len(got) \in Nat
<1>1. Cardinality(S) \in Nat
  BY EngineAssumption, FS_Subset, FS_CardinalityType
<1>2. got \in [1..Cardinality(S) -> S]
  BY DEF SetToSeqs
<1>3. got \in [1..Cardinality(S) -> Item]
  BY <1>2
<1> QED BY <1>1, <1>3

LEMMA FetchedType ==
  ASSUME TypeOK, NEW r \in Runs, NEW got \in Seq(Item), NEW e \in Nat,
         Fetched(r, got, e)
  PROVE  /\ counts' \in [Runs -> [Sources -> [Outcomes -> Nat]]]
         /\ todo' \in [Runs -> Seq(Item)]
         /\ pc' \in [Runs -> Labels]
         /\ next' \in [Runs -> Nat \ {0}]
         /\ \A q \in Runs : next'[q] <= Len(Fetchers[q[2]])
         /\ aged' \in [Runs -> SUBSET Ids]
<1>1. \A q \in Runs : q[2] \in Beacons
  BY DEF Runs
<1>2. \A q \in Runs : /\ Fetchers[q[2]] \in Seq(Sources)
                      /\ Len(Fetchers[q[2]]) \in Nat \ {0}
                      /\ next[q] \in 1..Len(Fetchers[q[2]])
  BY <1>1, EngineAssumption DEF TypeOK
<1>3. PICK src : src = Fetchers[r[2]][next[r]]
  OBVIOUS
<1>4. src \in Sources
  BY <1>2, <1>3
<1>5. counts' \in [Runs -> [Sources -> [Outcomes -> Nat]]]
  <2>1. Len(got) \in Nat
    OBVIOUS
  <2>2. [Ones({}) EXCEPT !["fetched"] = Len(got), !["errors"] = e]
          \in [Outcomes -> Nat]
    BY <2>1 DEF Ones, Outcomes
  <2>3. Tally(r, src, [Ones({}) EXCEPT !["fetched"] = Len(got), !["errors"] = e])
    BY <1>3 DEF Fetched
  <2> QED BY <1>4, <2>2, <2>3, TallyType
<1>6. todo' \in [Runs -> Seq(Item)]
  <2>1. todo[r] \o got \in Seq(Item)
    BY DEF TypeOK
  <2>2. todo' = [todo EXCEPT ![r] = @ \o got]
    BY DEF Fetched
  <2> QED BY <2>1, <2>2 DEF TypeOK
<1>7. pc' \in [Runs -> Labels]
  BY DEF TypeOK, Fetched, Call, Labels
<1>8. aged' \in [Runs -> SUBSET Ids]
  BY DEF TypeOK, Fetched
<1>9. /\ next' \in [Runs -> Nat \ {0}]
      /\ \A q \in Runs : next'[q] <= Len(Fetchers[q[2]])
  <2>1. PICK n : n = IF next[r] = Len(Fetchers[r[2]]) THEN 1 ELSE next[r] + 1
    OBVIOUS
  <2>2. /\ next' = [next EXCEPT ![r] = n]
        /\ n \in Nat \ {0} /\ n <= Len(Fetchers[r[2]])
    <3>1. next' = [next EXCEPT ![r] = n]
      BY <2>1 DEF Fetched
    <3> QED BY <1>2, <2>1, <3>1
  <2>3. next \in [Runs -> Nat \ {0}]
    BY DEF TypeOK
  <2> QED BY <1>2, <2>2, <2>3
<1> QED BY <1>5, <1>6, <1>7, <1>8, <1>9

-----------------------------------------------------------------------------
(* Type correctness. A call about a signal is made with a signal at hand,   *)
(* and a call about a verdict with an answer of the classifier: without     *)
(* these conjuncts TypeOK is not inductive.                                 *)
Busy == \A r \in Runs : pc[r] \in Calls => todo[r] # <<>>
Judged == \A r \in Runs : pc[r] \in {"deliver", "record"} => verdict[r] \in Verdicts
TypeInv == TypeOK /\ Busy /\ Judged

LEMMA TypeInit == Init => TypeInv
<1> SUFFICES ASSUME Init PROVE TypeInv
  OBVIOUS
<1> USE EngineAssumption DEF Init
<1>1. live \in Contents /\ durable \in Contents
  BY DEF StoreInit, EmptyStore, Contents
<1>2. pc \in [Runs -> Labels] /\ next \in [Runs -> Nat \ {0}]
  BY DEF Labels
<1>3. \A r \in Runs : next[r] <= Len(Fetchers[r[2]])
  <2>1. \A r \in Runs : Len(Fetchers[r[2]]) \in Nat \ {0}
    BY DEF Runs
  <2> QED BY <2>1
<1>4. todo \in [Runs -> Seq(Item)] /\ aged \in [Runs -> SUBSET Ids]
  OBVIOUS
<1>5. /\ verdict \in [Runs -> Verdicts \cup {NoVerdict}]
      /\ counts \in [Runs -> [Sources -> [Outcomes -> Nat]]]
      /\ posts \in [Key -> Nat] /\ faults \in 0..MaxFaults
      /\ listing \subseteq Ids /\ page \subseteq listing /\ old \subseteq Ids
  BY DEF NoCounts
<1>6. Busy /\ Judged
  BY DEF Busy, Judged, Calls
<1> QED BY <1>1, <1>2, <1>3, <1>4, <1>5, <1>6 DEF TypeInv, TypeOK

(* Finishing a signal leaves no call of the run under way.                  *)
LEMMA DoneBusy ==
  ASSUME TypeInv, NEW r \in Runs, Done(r)
  PROVE  Busy' /\ Judged'
BY DEF TypeInv, TypeOK, Busy, Judged, Calls, Done

LEMMA FaultType ==
  ASSUME TypeOK, Fault
  PROVE  faults' \in 0..MaxFaults
BY EngineAssumption DEF TypeOK, Fault

LEMMA ForgiveType ==
  ASSUME TypeOK, NEW keys, Forgive(keys)
  PROVE  posts' \in [Key -> Nat]
BY DEF TypeOK, Forgive

(* A failed store call leaves contents of the store.                        *)
LEMMA FailsType ==
  ASSUME TypeOK, NEW after \in Contents, Fails(after)
  PROVE  live' \in Contents /\ durable' \in Contents
BY DEF TypeOK, Fails, Lose, Commit, storeVars

LEMMA FindingType ==
  ASSUME TypeInv, NEW r \in Runs, pc[r] = "record"
  PROVE  CurrentFinding(r) \in Finding
<1>1. CurrentKey(r) \in Key /\ verdict[r] \in Verdicts
  BY CurrentType DEF TypeInv, Busy, Judged, Calls
<1> QED BY <1>1 DEF CurrentFinding, Finding

(* A step that only moves the run to another call about the same signal.    *)
LEMMA CallBusy ==
  ASSUME TypeInv, NEW r \in Runs, NEW what \in Labels, Call(r, what),
         UNCHANGED todo, todo[r] # <<>>,
         \A q \in Runs : q # r => verdict'[q] = verdict[q],
         what \in {"deliver", "record"} => verdict'[r] \in Verdicts
  PROVE  pc' \in [Runs -> Labels] /\ Busy' /\ Judged'
BY DEF TypeInv, TypeOK, Busy, Judged, Calls, Call

LEMMA TypeStep == TypeInv /\ [Next]_vars => TypeInv'
<1> SUFFICES ASSUME TypeInv, [Next]_vars PROVE TypeInv'
  OBVIOUS
<1> USE DEF TypeInv
<1>1. CASE UNCHANGED vars
  BY <1>1 DEF vars, TypeOK, Busy, Judged
<1>2. ASSUME NEW s \in Ids, Publish(s) \/ LeavePage(s) \/ Age(s) PROVE TypeInv'
  BY <1>2 DEF Publish, LeavePage, Age, runVars, TypeOK, Busy, Judged
<1>3. ASSUME NEW r \in Runs, Step(r) PROVE TypeInv'
  <2>1. CASE StartPoll(r)
    <3>1. pc' \in [Runs -> Labels]
      BY <2>1 DEF StartPoll, Call, TypeOK, Labels
    <3> QED BY <2>1, <3>1 DEF StartPoll, Call, envVars, TypeOK, Busy, Judged, Calls
  <2>2. CASE Fetch(r) \/ FetchFails(r)
    <3>2. Listed(r) \subseteq Ids
      BY DEF Listed, TypeOK
    <3>3. PICK got \in Seq(Item), e \in Nat : Fetched(r, got, e)
      <4>1. CASE Fetch(r)
        <5> DEFINE items == {[sig |-> s, pre |-> s \in Tagged[r[2]]] : s \in Listed(r)}
        <5>1. items \in SUBSET Item
          BY <3>2, ItemsOf
        <5>2. \E got \in SetToSeqs(items) : Fetched(r, got, 0)
          BY <4>1 DEF Fetch
        <5> HIDE DEF items
        <5>5. PICK got \in SetToSeqs(items) : Fetched(r, got, 0)
          BY <5>2
        <5>6. got \in Seq(Item)
          BY <5>1, SeqsOfItems
        <5> QED BY <5>5, <5>6
      <4>2. CASE FetchFails(r)
        <5>1. PICK part \in SUBSET Listed(r) : \E narrowed \in SUBSET (part \cap Tagged[r[2]]) :
                \E got \in SetToSeqs({[sig |-> s, pre |-> s \in narrowed] : s \in part}) :
                  Fetched(r, got, 1)
          BY <4>2 DEF FetchFails
        <5>2. PICK narrowed :
                \E got \in SetToSeqs({[sig |-> s, pre |-> s \in narrowed] : s \in part}) :
                  Fetched(r, got, 1)
          BY <5>1
        <5> DEFINE items == {[sig |-> s, pre |-> s \in narrowed] : s \in part}
        <5>3. items \in SUBSET Item
          BY <3>2, <5>1, ItemsOf
        <5>4. \E got \in SetToSeqs(items) : Fetched(r, got, 1)
          BY <5>2
        <5> HIDE DEF items
        <5>5. PICK got \in SetToSeqs(items) : Fetched(r, got, 1)
          BY <5>4
        <5>6. got \in Seq(Item)
          BY <5>3, SeqsOfItems
        <5> QED BY <5>5, <5>6
      <4> QED BY <2>2, <4>1, <4>2
    <3>4. faults' \in 0..MaxFaults
      BY <2>2, FaultType DEF Fetch, FetchFails, TypeOK
    <3>5. pc[r] = "fetch" /\ pc' = [pc EXCEPT ![r] = pc'[r]] /\ pc'[r] \notin Calls
      BY <2>2, <3>3 DEF Fetch, FetchFails, Fetched, Call, Calls, TypeOK
    <3>6. /\ UNCHANGED <<live, durable, listing, page, old, verdict, posts>>
          /\ \A q \in Runs : q # r => todo'[q] = todo[q]
      BY <3>3 DEF Fetched, envVars, TypeOK
    <3>7. Busy' /\ Judged'
      BY <3>5, <3>6 DEF Busy, Judged, TypeOK, Calls
    <3> QED BY <3>3, <3>4, <3>6, <3>7, FetchedType DEF TypeOK
  <2>3. CASE Stale(r) \/ SeenFails(r) \/ AlreadySeen(r) \/ ClassifyFails(r) \/ DeliverFails(r)
    <3>1. /\ todo[r] # <<>> /\ Done(r)
          /\ \E O : Count(r, O)
          /\ UNCHANGED <<live, durable, listing, page, old, next, aged, posts>>
      BY <2>3 DEF Stale, SeenFails, AlreadySeen, ClassifyFails, DeliverFails,
                  envVars, Busy, Calls
    <3>2. faults' \in 0..MaxFaults
      BY <2>3, FaultType DEF Stale, SeenFails, AlreadySeen, ClassifyFails,
                             DeliverFails, TypeOK
    <3> QED BY <3>1, <3>2, CountType, DoneType, DoneBusy DEF TypeOK
  <2>4. CASE Novel(r)
    <3>1. /\ todo[r] # <<>> /\ UNCHANGED todo
          /\ \E O : Count(r, O)
          /\ \E what \in {"classify", "mark"} : Call(r, what)
          /\ UNCHANGED <<live, durable, listing, page, old, next, todo, aged,
                         verdict, posts, faults>>
      BY <2>4 DEF Novel, envVars
    <3>2. pc' \in [Runs -> Labels] /\ Busy' /\ Judged'
      BY <3>1, CallBusy DEF Labels
    <3> QED BY <3>1, <3>2, CountType DEF TypeOK
  <2>5. CASE FinishPoll(r)
    <3>1. pc' \in [Runs -> Labels] /\ Busy' /\ Judged'
      BY <2>5 DEF FinishPoll, Call, TypeOK, Busy, Judged, Calls, Labels
    <3>2. counts' \in [Runs -> [Sources -> [Outcomes -> Nat]]]
      BY <2>5 DEF FinishPoll, TypeOK, NoCounts
    <3> QED BY <2>5, <3>1, <3>2 DEF FinishPoll, envVars, TypeOK
  <2>6. CASE MarkSeen(r) \/ MarkSeenFails(r)
    <3>1. /\ todo[r] # <<>> /\ Done(r)
          /\ UNCHANGED <<listing, page, old, next, aged, counts, posts>>
      BY <2>6 DEF MarkSeen, MarkSeenFails, envVars, Busy, Calls
    <3>2. MarkedSeen(live, CurrentKey(r)) \in Contents
      BY <3>1, CurrentType, ContentsClosed DEF TypeOK
    <3>3. live' \in Contents /\ durable' \in Contents
      BY <2>6, <3>2, FailsType DEF MarkSeen, MarkSeenFails, Commit
    <3>4. faults' \in 0..MaxFaults
      BY <2>6, FaultType DEF MarkSeen, MarkSeenFails, TypeOK
    <3> QED BY <3>1, <3>3, <3>4, DoneType, DoneBusy DEF TypeOK
  <2>7. CASE Classify(r)
    <3>1. todo[r] # <<>> /\ Current(r).sig \in Ids /\ r[2] \in Beacons
      BY <2>7, CurrentType DEF Classify, Busy, Calls, Item, Runs
    <3>2. PICK v \in Verdicts : Decide(r, v) /\ verdict' = [verdict EXCEPT ![r] = v]
      <4>1. VerdictsOf[r[2]][Current(r).sig] \subseteq Verdicts
        BY <3>1, EngineAssumption
      <4>2. \E v \in VerdictsOf[r[2]][Current(r).sig] :
              Decide(r, v) /\ verdict' = [verdict EXCEPT ![r] = v]
        BY <2>7 DEF Classify
      <4> QED BY <4>1, <4>2
    <3>3. \E what \in Calls : Call(r, what)
      BY <3>2 DEF Decide, Calls
    <3>4. UNCHANGED <<live, durable, listing, page, old, next, todo, aged, posts, faults>>
      BY <2>7 DEF Classify, envVars
    <3>5. pc' \in [Runs -> Labels] /\ Busy' /\ Judged'
      BY <3>1, <3>2, <3>3, <3>4, CallBusy DEF TypeOK, Labels, Calls
    <3>6. counts' \in [Runs -> [Sources -> [Outcomes -> Nat]]]
      BY <3>1, <3>2, CountType DEF Decide, TypeOK
    <3> QED BY <3>2, <3>4, <3>5, <3>6 DEF TypeOK
  <2>8. CASE Deliver(r)
    <3>1. /\ todo[r] # <<>> /\ verdict[r] \in Verdicts
          /\ Call(r, "record") /\ Count(r, {"delivered"})
          /\ UNCHANGED <<live, durable, listing, page, old, next, todo, aged,
                         verdict, faults>>
      BY <2>8 DEF Deliver, envVars, Busy, Judged, Calls
    <3>2. pc' \in [Runs -> Labels] /\ Busy' /\ Judged'
      BY <3>1, CallBusy DEF Labels
    <3>3. posts' \in [Key -> Nat]
      BY <2>8, <3>1, CurrentType DEF Deliver, TypeOK
    <3> QED BY <3>1, <3>2, <3>3, CountType DEF TypeOK
  <2>9. CASE Record(r) \/ RecordFails(r)
    <3>1. /\ todo[r] # <<>> /\ Done(r) /\ pc[r] = "record"
          /\ UNCHANGED <<listing, page, old, next, aged>>
      BY <2>9 DEF Record, RecordFails, envVars, Busy, Calls
    <3>2. Recorded(live, CurrentFinding(r)) \subseteq Contents
      BY <3>1, FindingType, ContentsClosed DEF TypeOK
    <3>3. live' \in Contents /\ durable' \in Contents
      BY <2>9, <3>2, FailsType DEF Record, RecordFails, Commit
    <3>4. faults' \in 0..MaxFaults
      BY <2>9, FaultType DEF Record, RecordFails, TypeOK
    <3>5. posts' \in [Key -> Nat]
      <4>1. CASE Record(r)
        BY <4>1 DEF Record, TypeOK
      <4>2. CASE RecordFails(r)
        BY <4>2, ForgiveType DEF RecordFails
      <4> QED BY <2>9, <4>1, <4>2
    <3>6. counts' \in [Runs -> [Sources -> [Outcomes -> Nat]]]
      BY <2>9, <3>1, CountType DEF Record, RecordFails, TypeOK
    <3> QED BY <3>1, <3>3, <3>4, <3>5, <3>6, DoneType, DoneBusy DEF TypeOK
  <2> QED BY <1>3, <2>1, <2>2, <2>3, <2>4, <2>5, <2>6, <2>7, <2>8, <2>9 DEF Step
<1>4. ASSUME NEW i \in Instances, Crash(i) \/ Restart(i) PROVE TypeInv'
  <2>1. Gone(i) /\ faults' \in 0..MaxFaults
    BY <1>4, FaultType DEF Crash, Restart, TypeOK
  <2>2. /\ live' \in Contents /\ durable' \in Contents
        /\ posts' \in [Key -> Nat]
        /\ UNCHANGED <<listing, page, old>>
    BY <2>1 DEF Gone, StoreRestart, Forgive, envVars, TypeOK
  <2>3. pc' \in [Runs -> Labels] /\ next' \in [Runs -> Nat \ {0}]
    BY <2>1 DEF Gone, TypeOK, Labels
  <2>4. todo' \in [Runs -> Seq(Item)] /\ aged' \in [Runs -> SUBSET Ids]
    BY <2>1 DEF Gone, TypeOK
  <2>5. /\ verdict' \in [Runs -> Verdicts \cup {NoVerdict}]
        /\ counts' \in [Runs -> [Sources -> [Outcomes -> Nat]]]
    BY <2>1 DEF Gone, TypeOK, NoCounts
  <2>6. \A r \in Runs : next'[r] <= Len(Fetchers[r[2]])
    <3>1. \A r \in Runs : Len(Fetchers[r[2]]) \in Nat \ {0}
      BY EngineAssumption DEF Runs
    <3> QED BY <2>1, <3>1 DEF Gone, TypeOK
  <2>7. Busy' /\ Judged'
    BY <2>1 DEF Gone, Busy, Judged, Calls
  <2> QED BY <2>1, <2>2, <2>3, <2>4, <2>5, <2>6, <2>7 DEF TypeOK
<1>5. ASSUME NEW src \in Sources, PurgeSource(src) PROVE TypeInv'
  <2>1. live' \in Contents /\ durable' \in Contents
    BY <1>5, ContentsClosed DEF PurgeSource, Commit, TypeOK
  <2>2. faults' \in 0..MaxFaults /\ posts' \in [Key -> Nat]
    BY <1>5, FaultType DEF PurgeSource, Forgive, TypeOK
  <2> QED BY <1>5, <2>1, <2>2 DEF PurgeSource, envVars, runVars, TypeOK, Busy, Judged
<1> QED BY <1>1, <1>2, <1>3, <1>4, <1>5 DEF Next

(* The variables always have their types: no call is made about a signal    *)
(* the run does not hold, and the funnel never counts below zero.           *)
THEOREM TypeCorrect == Spec => []TypeOK
<1>1. Spec => []TypeInv
  BY TypeInit, TypeStep, PTL DEF Spec
<1>2. TypeInv => TypeOK
  BY DEF TypeInv
<1> QED BY <1>1, <1>2, PTL

-----------------------------------------------------------------------------
(* Dedupe, for one process: the inductive invariant is DedupeInv, over the  *)
(* types. With two processes StillNovel fails: the other one may handle the *)
(* signal between the dedupe check and the post.                            *)
OneInstance == \A i, j \in Instances : i = j

(* Two runs of one process belong to two beacons, so their keys differ.     *)
LEMMA RunsDiffer ==
  ASSUME OneInstance, TypeInv, NEW r \in Runs, NEW q \in Runs, r # q,
         pc[r] \in Calls, pc[q] \in Calls
  PROVE  CurrentKey(r) # CurrentKey(q)
<1>1. r[2] # q[2]
  BY DEF OneInstance, Runs
<1> QED BY <1>1, CurrentType DEF TypeInv, Busy

(* A run that goes on to its next signal leaves the other runs alone.       *)
LEMMA DoneOthers ==
  ASSUME TypeInv, NEW r \in Runs, Done(r)
  PROVE  /\ pc'[r] = "novelty"
         /\ \A q \in Runs : q # r => pc'[q] = pc[q] /\ todo'[q] = todo[q]
BY DEF TypeInv, TypeOK, Done

LEMMA CallOthers ==
  ASSUME TypeInv, NEW r \in Runs, NEW what, Call(r, what)
  PROVE  /\ pc'[r] = what
         /\ \A q \in Runs : q # r => pc'[q] = pc[q]
BY DEF TypeInv, TypeOK, Call

LEMMA DedupeInit == Init => DedupeInv
<1> SUFFICES ASSUME Init PROVE DedupeInv
  OBVIOUS
<1>1. live.seen = {} /\ durable.seen = {} /\ \A k \in Key : posts[k] = 0
  BY DEF Init, StoreInit, EmptyStore
<1>2. \A r \in Runs : pc[r] = "idle"
  BY DEF Init
<1> QED BY <1>1, <1>2 DEF DedupeInv, StillNovel, DurableBehind, PostsRemembered,
                          PostBeforeRecord, SeenAfterPost, Calls

(* A step that changes neither the store nor the posts, and gives up no     *)
(* finding: the runs that go on to a call are the other ones, or r with a   *)
(* signal that is novel and not to be marked.                               *)
LEMMA QuietStep ==
  ASSUME TypeInv, DedupeInv, NEW r \in Runs,
         UNCHANGED <<live, durable, posts>>,
         \A q \in Runs : q # r => pc'[q] = pc[q] /\ todo'[q] = todo[q],
         pc[r] # "record",
         pc'[r] \in Calls =>
           /\ todo'[r] = todo[r]
           /\ CurrentKey(r) \notin live.seen
           /\ MustPost(r[2], Current(r).sig) => pc'[r] \notin {"mark", "record"}
  PROVE  DedupeInv'
<1> USE DEF DedupeInv
<1>1. \A q \in Runs : pc'[q] \in Calls =>
        /\ Current(q)' = Current(q) /\ CurrentKey(q)' = CurrentKey(q)
        /\ q # r => pc'[q] = pc[q]
  BY DEF Current, CurrentKey
<1>2. StillNovel'
  BY <1>1 DEF StillNovel
<1>3. DurableBehind' /\ SeenAfterPost'
  BY DEF DurableBehind, SeenAfterPost
<1>4. PostsRemembered'
  <2>1. \A q \in Runs : pc[q] = "record" =>
          pc'[q] = "record" /\ CurrentKey(q)' = CurrentKey(q)
    BY <1>1 DEF Calls
  <2> QED BY <2>1 DEF PostsRemembered
<1>5. PostBeforeRecord'
  BY <1>1 DEF PostBeforeRecord, Calls
<1> QED BY <1>2, <1>3, <1>4, <1>5

(* A step that ends the current signal with a store call: the signal may    *)
(* have been marked; if it was to be recorded and is not, its post is       *)
(* forgotten.                                                               *)
LEMMA StoreStep ==
  ASSUME TypeInv, DedupeInv, OneInstance, NEW r \in Runs,
         pc[r] \in {"mark", "record"}, Done(r),
         live'.seen \in {live.seen, live.seen \cup {CurrentKey(r)}},
         durable'.seen \in {durable.seen, live'.seen},
         \A k \in Key : posts'[k] =
           IF k = CurrentKey(r) /\ pc[r] = "record" /\ k \notin live'.seen
           THEN 0 ELSE posts[k]
  PROVE  DedupeInv'
<1> USE DEF DedupeInv
<1>1. todo[r] # <<>> /\ CurrentKey(r) \in Key
  BY CurrentType DEF TypeInv, Busy, Calls
<1>2. \A q \in Runs : pc'[q] \in Calls =>
        /\ q # r /\ pc'[q] = pc[q]
        /\ Current(q)' = Current(q) /\ CurrentKey(q)' = CurrentKey(q)
        /\ CurrentKey(q) \in Key
        /\ CurrentKey(q) # CurrentKey(r)
  <2> SUFFICES ASSUME NEW q \in Runs, pc'[q] \in Calls
               PROVE  /\ q # r /\ pc'[q] = pc[q]
                      /\ Current(q)' = Current(q) /\ CurrentKey(q)' = CurrentKey(q)
                      /\ CurrentKey(q) \in Key
                      /\ CurrentKey(q) # CurrentKey(r)
    OBVIOUS
  <2>1. q # r /\ pc'[q] = pc[q] /\ todo'[q] = todo[q]
    BY DoneOthers DEF Calls
  <2>2. Current(q)' = Current(q) /\ CurrentKey(q)' = CurrentKey(q)
    BY <2>1 DEF Current, CurrentKey
  <2>3. CurrentKey(q) \in Key
    BY <2>1, CurrentType DEF TypeInv, Busy
  <2>4. CurrentKey(q) # CurrentKey(r)
    BY <2>1, RunsDiffer DEF Calls
  <2> QED BY <2>1, <2>2, <2>3, <2>4
<1>3. StillNovel'
  BY <1>2 DEF StillNovel
<1>4. DurableBehind'
  BY DEF DurableBehind
<1>5. PostsRemembered'
  <2> SUFFICES ASSUME NEW k \in Key, posts'[k] # 0
               PROVE  /\ posts'[k] = 1
                      /\ \/ k \in live'.seen
                         \/ \E q \in Runs : pc'[q] = "record" /\ CurrentKey(q)' = k
    BY DEF PostsRemembered
  <2>1. posts'[k] = posts[k] /\ posts[k] # 0
    OBVIOUS
  <2>2. CASE k \in live.seen
    BY <2>1, <2>2 DEF PostsRemembered
  <2>3. ASSUME NEW q \in Runs, pc[q] = "record", CurrentKey(q) = k
        PROVE  \/ k \in live'.seen
               \/ \E p \in Runs : pc'[p] = "record" /\ CurrentKey(p)' = k
    <3>1. CASE q = r
      BY <2>3, <3>1
    <3>2. CASE q # r
      <4>1. pc'[q] = "record"
        BY <2>3, <3>2, DoneOthers
      <4> QED BY <2>3, <4>1, <1>2 DEF Calls
    <3> QED BY <3>1, <3>2
  <2> QED BY <2>1, <2>2, <2>3 DEF PostsRemembered
<1>6. PostBeforeRecord'
  <2> SUFFICES ASSUME NEW q \in Runs, pc'[q] \in Calls,
                      MustPost(q[2], Current(q)'.sig)
               PROVE  /\ pc'[q] # "mark"
                      /\ pc'[q] = "record" => posts'[CurrentKey(q)'] >= 1
    BY DEF PostBeforeRecord
  <2>1. posts'[CurrentKey(q)] = posts[CurrentKey(q)]
    BY <1>2
  <2> QED BY <2>1, <1>2 DEF PostBeforeRecord
<1>7. SeenAfterPost'
  <2> SUFFICES ASSUME NEW b \in Beacons, NEW s \in Ids, MustPost(b, s),
                      KeyOf(b, s) \in live'.seen
               PROVE  posts'[KeyOf(b, s)] >= 1
    BY DEF SeenAfterPost
  <2>1. KeyOf(b, s) \in Key
    BY EngineAssumption DEF KeyOf, Key
  <2>2. posts'[KeyOf(b, s)] = posts[KeyOf(b, s)]
    BY <2>1
  <2>3. CASE KeyOf(b, s) \in live.seen
    BY <2>2, <2>3 DEF SeenAfterPost
  <2>4. CASE KeyOf(b, s) = CurrentKey(r)
    <3>1. b = r[2] /\ s = Current(r).sig
      BY <2>4 DEF KeyOf, CurrentKey
    <3> QED BY <2>2, <2>4, <3>1 DEF PostBeforeRecord, Calls
  <2> QED BY <2>3, <2>4
<1> QED BY <1>3, <1>4, <1>5, <1>6, <1>7

(* A post: r goes on to record it.                                          *)
LEMMA DeliverStep ==
  ASSUME TypeInv, DedupeInv, OneInstance, NEW r \in Runs, Deliver(r)
  PROVE  DedupeInv'
<1> USE DEF DedupeInv
<1>1. /\ pc[r] = "deliver" /\ todo[r] # <<>> /\ CurrentKey(r) \in Key
      /\ CurrentKey(r) \notin live.seen
  BY CurrentType DEF Deliver, TypeInv, Busy, Calls, StillNovel
<1>2. /\ UNCHANGED <<live, durable, todo>>
      /\ pc'[r] = "record"
      /\ \A q \in Runs : q # r => pc'[q] = pc[q]
  BY CallOthers DEF Deliver
<1>3. /\ posts'[CurrentKey(r)] = posts[CurrentKey(r)] + 1
      /\ \A k \in Key : k # CurrentKey(r) => posts'[k] = posts[k]
  BY <1>1 DEF Deliver, TypeInv, TypeOK
<1>4. posts[CurrentKey(r)] = 0
  <2>1. \A q \in Runs : pc[q] = "record" => CurrentKey(q) # CurrentKey(r)
    BY <1>1, RunsDiffer DEF Calls
  <2> QED BY <1>1, <2>1 DEF PostsRemembered
<1>5. \A q \in Runs : Current(q)' = Current(q) /\ CurrentKey(q)' = CurrentKey(q)
  BY <1>2 DEF Current, CurrentKey
<1>6. StillNovel'
  BY <1>1, <1>2, <1>5 DEF StillNovel
<1>7. DurableBehind'
  BY <1>2 DEF DurableBehind
<1>8. PostsRemembered'
  <2> SUFFICES ASSUME NEW k \in Key, posts'[k] # 0
               PROVE  /\ posts'[k] = 1
                      /\ \/ k \in live'.seen
                         \/ \E q \in Runs : pc'[q] = "record" /\ CurrentKey(q)' = k
    BY DEF PostsRemembered
  <2>1. CASE k = CurrentKey(r)
    BY <2>1, <1>2, <1>3, <1>4, <1>5
  <2>2. CASE k # CurrentKey(r)
    BY <2>2, <1>1, <1>2, <1>3, <1>5 DEF PostsRemembered
  <2> QED BY <2>1, <2>2
<1>9. PostBeforeRecord'
  <2> SUFFICES ASSUME NEW q \in Runs, pc'[q] \in Calls,
                      MustPost(q[2], Current(q).sig)
               PROVE  /\ pc'[q] # "mark"
                      /\ pc'[q] = "record" => posts'[CurrentKey(q)] >= 1
    BY <1>5 DEF PostBeforeRecord
  <2>1. CASE q = r
    BY <2>1, <1>2, <1>3, <1>4
  <2>2. CASE q # r
    <3>1. pc'[q] = pc[q] /\ CurrentKey(q) \in Key
      BY <2>2, <1>2, CurrentType DEF TypeInv, Busy
    <3>2. CurrentKey(q) # CurrentKey(r)
      BY <2>2, <3>1, <1>1, RunsDiffer DEF Calls
    <3> QED BY <3>1, <3>2, <1>3 DEF PostBeforeRecord
  <2> QED BY <2>1, <2>2
<1>10. SeenAfterPost'
  <2> SUFFICES ASSUME NEW b \in Beacons, NEW s \in Ids, MustPost(b, s),
                      KeyOf(b, s) \in live.seen
               PROVE  posts'[KeyOf(b, s)] >= 1
    BY <1>2 DEF SeenAfterPost
  <2>1. KeyOf(b, s) \in Key /\ KeyOf(b, s) # CurrentKey(r)
    BY <1>1, EngineAssumption DEF KeyOf, Key
  <2> QED BY <2>1, <1>3 DEF SeenAfterPost
<1> QED BY <1>6, <1>7, <1>8, <1>9, <1>10

(* The process is gone, and with it every run: what the store still has was *)
(* seen before, and the posts that nothing remembers are forgotten.         *)
LEMMA GoneStep ==
  ASSUME TypeInv, DedupeInv, OneInstance, NEW i \in Instances, Gone(i)
  PROVE  DedupeInv'
<1> USE DEF DedupeInv
<1>1. \A r \in Runs : r[1] = i /\ pc'[r] = "idle"
  BY DEF Gone, OneInstance, Runs
<1>2. live'.seen = durable.seen /\ durable'.seen = durable.seen
  BY DEF Gone, StoreRestart
<1>3. \A k \in Key : posts'[k] =
        IF k \in (live.seen \ durable.seen)
                  \cup {CurrentKey(r) : r \in {q \in Runs : pc[q] = "record"}}
        THEN 0 ELSE posts[k]
  <2>1. {r \in Runs : r[1] = i} = Runs
    BY <1>1
  <2> QED BY <2>1 DEF Gone, Forgive
<1>4. StillNovel' /\ DurableBehind' /\ PostBeforeRecord'
  BY <1>1, <1>2 DEF StillNovel, DurableBehind, PostBeforeRecord, Calls
<1>5. PostsRemembered'
  <2> SUFFICES ASSUME NEW k \in Key, posts'[k] # 0
               PROVE  posts'[k] = 1 /\ k \in live'.seen
    BY DEF PostsRemembered
  <2>1. /\ posts'[k] = posts[k] /\ k \notin live.seen \ durable.seen
        /\ \A r \in Runs : pc[r] = "record" => CurrentKey(r) # k
    BY <1>3
  <2> QED BY <2>1, <1>2 DEF PostsRemembered
<1>6. SeenAfterPost'
  <2> SUFFICES ASSUME NEW b \in Beacons, NEW s \in Ids, MustPost(b, s),
                      KeyOf(b, s) \in durable.seen
               PROVE  posts'[KeyOf(b, s)] >= 1
    BY <1>2 DEF SeenAfterPost
  <2>1. KeyOf(b, s) \in Key
    BY EngineAssumption DEF KeyOf, Key
  <2>2. KeyOf(b, s) \in live.seen
    BY DEF DurableBehind
  <2>3. \A r \in Runs : pc[r] = "record" => CurrentKey(r) # KeyOf(b, s)
    BY <2>2 DEF StillNovel, Calls
  <2>4. posts'[KeyOf(b, s)] = posts[KeyOf(b, s)]
    BY <2>1, <2>2, <2>3, <1>3
  <2> QED BY <2>2, <2>4 DEF SeenAfterPost
<1> QED BY <1>4, <1>5, <1>6

(* A purge forgets the posts of the rows it deletes, and no others.         *)
LEMMA PurgeStep ==
  ASSUME TypeInv, DedupeInv, NEW src \in Sources, PurgeSource(src)
  PROVE  DedupeInv'
<1> USE DEF DedupeInv
<1>1. /\ live'.seen = durable'.seen /\ live'.seen \subseteq live.seen
      /\ UNCHANGED <<pc, todo>>
  BY DEF PurgeSource, Commit, Purged, runVars, DurableBehind, TypeInv, TypeOK, Contents
<1>2. \A k \in Key : posts'[k] = IF k \in live.seen \ live'.seen THEN 0 ELSE posts[k]
  BY DEF PurgeSource, Forgive
<1>3. \A q \in Runs : Current(q)' = Current(q) /\ CurrentKey(q)' = CurrentKey(q)
  BY <1>1 DEF Current, CurrentKey
<1>4. StillNovel' /\ DurableBehind'
  BY <1>1, <1>3 DEF StillNovel, DurableBehind
<1>5. PostsRemembered'
  BY <1>1, <1>2, <1>3 DEF PostsRemembered
<1>6. PostBeforeRecord'
  <2> SUFFICES ASSUME NEW q \in Runs, pc[q] \in Calls,
                      MustPost(q[2], Current(q).sig)
               PROVE  /\ pc[q] # "mark"
                      /\ pc[q] = "record" => posts'[CurrentKey(q)] >= 1
    BY <1>1, <1>3 DEF PostBeforeRecord
  <2>1. CurrentKey(q) \in Key /\ CurrentKey(q) \notin live.seen
    BY CurrentType DEF TypeInv, Busy, StillNovel
  <2>2. posts'[CurrentKey(q)] = posts[CurrentKey(q)]
    BY <2>1, <1>2
  <2> QED BY <2>2 DEF PostBeforeRecord
<1>7. SeenAfterPost'
  <2> SUFFICES ASSUME NEW b \in Beacons, NEW s \in Ids, MustPost(b, s),
                      KeyOf(b, s) \in live'.seen
               PROVE  posts'[KeyOf(b, s)] >= 1
    BY DEF SeenAfterPost
  <2>1. KeyOf(b, s) \in Key
    BY EngineAssumption DEF KeyOf, Key
  <2> QED BY <2>1, <1>1, <1>2 DEF SeenAfterPost
<1> QED BY <1>4, <1>5, <1>6, <1>7

LEMMA DedupeStep ==
  ASSUME OneInstance, TypeInv, DedupeInv, [Next]_vars
  PROVE  DedupeInv'
<1>1. CASE UNCHANGED <<live, durable, pc, todo, posts>>
  BY <1>1 DEF DedupeInv, StillNovel, DurableBehind, PostsRemembered,
              PostBeforeRecord, SeenAfterPost, Current, CurrentKey
<1>2. ASSUME NEW s \in Ids, Publish(s) \/ LeavePage(s) \/ Age(s) PROVE DedupeInv'
  BY <1>1, <1>2 DEF Publish, LeavePage, Age, runVars
<1>3. ASSUME NEW r \in Runs, Step(r) PROVE DedupeInv'
  <2>1. CASE StartPoll(r) \/ FinishPoll(r)
    <3>1. /\ UNCHANGED <<live, durable, posts, todo>>
          /\ pc[r] # "record" /\ pc'[r] \notin Calls
          /\ \A q \in Runs : q # r => pc'[q] = pc[q]
      BY <2>1, CallOthers DEF StartPoll, FinishPoll, Calls
    <3> QED BY <3>1, QuietStep
  <2>2. CASE Fetch(r) \/ FetchFails(r)
    <3>1. PICK got, e : pc[r] = "fetch" /\ Fetched(r, got, e)
      BY <2>2 DEF Fetch, FetchFails
    <3>2. /\ UNCHANGED <<live, durable, posts>>
          /\ pc'[r] \notin Calls
          /\ \A q \in Runs : q # r => pc'[q] = pc[q] /\ todo'[q] = todo[q]
      BY <3>1, CallOthers DEF Fetched, Calls, TypeInv, TypeOK
    <3> QED BY <3>1, <3>2, QuietStep
  <2>3. CASE Stale(r) \/ SeenFails(r) \/ AlreadySeen(r) \/ ClassifyFails(r) \/ DeliverFails(r)
    <3>1. /\ UNCHANGED <<live, durable, posts>> /\ Done(r) /\ pc[r] # "record"
      BY <2>3 DEF Stale, SeenFails, AlreadySeen, ClassifyFails, DeliverFails
    <3>2. pc'[r] \notin Calls
      BY <3>1, DoneOthers DEF Calls
    <3> QED BY <3>1, <3>2, DoneOthers, QuietStep
  <2>4. CASE Novel(r)
    <3>1. /\ UNCHANGED <<live, durable, posts, todo>> /\ pc[r] # "record"
          /\ CurrentKey(r) \notin live.seen
          /\ IF Passes(r[2], Current(r)) THEN Call(r, "classify") ELSE Call(r, "mark")
      BY <2>4 DEF Novel
    <3>2. MustPost(r[2], Current(r).sig) => Passes(r[2], Current(r))
      BY DEF MustPost, Passes
    <3>3. \A q \in Runs : q # r => pc'[q] = pc[q]
      BY <3>1, CallOthers
    <3>4. MustPost(r[2], Current(r).sig) => pc'[r] = "classify"
      BY <3>1, <3>2, CallOthers
    <3> QED BY <3>1, <3>3, <3>4, QuietStep
  <2>5. CASE MarkSeen(r) \/ MarkSeenFails(r)
    <3>1. pc[r] = "mark" /\ Done(r) /\ UNCHANGED posts
      BY <2>5 DEF MarkSeen, MarkSeenFails
    <3>2. MarkedSeen(live, CurrentKey(r)).seen = live.seen \cup {CurrentKey(r)}
      BY DEF MarkedSeen, TypeInv, TypeOK, Contents
    <3>3. /\ live'.seen \in {live.seen, live.seen \cup {CurrentKey(r)}}
          /\ durable'.seen \in {durable.seen, live'.seen}
      BY <2>5, <3>2 DEF MarkSeen, MarkSeenFails, Fails, Lose, Commit, storeVars
    <3> QED BY <3>1, <3>3, StoreStep
  <2>6. CASE Classify(r)
    <3>1. PICK v \in VerdictsOf[r[2]][Current(r).sig] : Decide(r, v)
      BY <2>6 DEF Classify
    <3>2. UNCHANGED <<live, durable, posts, todo>> /\ pc[r] = "classify"
      BY <2>6 DEF Classify
    <3>3. CurrentKey(r) \notin live.seen
      BY <3>2 DEF DedupeInv, StillNovel, Calls
    <3>4. MustPost(r[2], Current(r).sig) => PostsNow(r[2], v)
      BY DEF MustPost, AlwaysHot
    <3>5. /\ \A q \in Runs : q # r => pc'[q] = pc[q]
          /\ PostsNow(r[2], v) => pc'[r] = "deliver"
      <4>1. PostsNow(r[2], v) => ~Rejects(r[2], v)
        BY DEF PostsNow
      <4> QED BY <3>1, <4>1, CallOthers DEF Decide
    <3> QED BY <3>2, <3>3, <3>4, <3>5, QuietStep
  <2>7. CASE Deliver(r)
    BY <2>7, DeliverStep
  <2>8. CASE Record(r) \/ RecordFails(r)
    <3>1. pc[r] = "record" /\ Done(r)
      BY <2>8 DEF Record, RecordFails
    <3>2. \A after \in Recorded(live, CurrentFinding(r)) :
            after.seen = live.seen \cup {CurrentKey(r)}
      BY DEF Recorded, CurrentFinding, TypeInv, TypeOK, Contents
    <3>3. /\ live'.seen \in {live.seen, live.seen \cup {CurrentKey(r)}}
          /\ durable'.seen \in {durable.seen, live'.seen}
      BY <2>8, <3>2 DEF Record, RecordFails, Fails, Lose, Commit, storeVars
    <3>4. \A k \in Key : posts'[k] =
            IF k = CurrentKey(r) /\ k \notin live'.seen THEN 0 ELSE posts[k]
      <4>1. CASE Record(r)
        <5>1. CurrentKey(r) \in live'.seen /\ UNCHANGED posts
          BY <4>1, <3>2 DEF Record, Commit
        <5> QED BY <5>1
      <4>2. CASE RecordFails(r)
        BY <4>2 DEF RecordFails, Forgive
      <4> QED BY <2>8, <4>1, <4>2
    <3> QED BY <3>1, <3>3, <3>4, StoreStep
  <2> QED BY <1>3, <2>1, <2>2, <2>3, <2>4, <2>5, <2>6, <2>7, <2>8 DEF Step
<1>4. ASSUME NEW i \in Instances, Crash(i) \/ Restart(i) PROVE DedupeInv'
  BY <1>4, GoneStep DEF Crash, Restart
<1>5. ASSUME NEW src \in Sources, PurgeSource(src) PROVE DedupeInv'
  BY <1>5, PurgeStep
<1> QED BY <1>1, <1>2, <1>3, <1>4, <1>5 DEF Next, vars

THEOREM DedupeInvariant == ASSUME OneInstance PROVE Spec => []DedupeInv
<1>1. Init => TypeInv /\ DedupeInv
  BY TypeInit, DedupeInit
<1>2. TypeInv /\ DedupeInv /\ [Next]_vars => TypeInv' /\ DedupeInv'
  BY TypeStep, DedupeStep
<1> QED BY <1>1, <1>2, PTL DEF Spec

(* One process never posts a signal twice for a beacon, unless a fault made *)
(* it forget the first post.                                                *)
THEOREM NoRepeats == ASSUME OneInstance PROVE Spec => []NoDuplicatePost
<1>1. DedupeInv /\ TypeOK => NoDuplicatePost
  BY DEF DedupeInv, PostsRemembered, NoDuplicatePost, TypeOK
<1> QED BY <1>1, DedupeInvariant, TypeCorrect, PTL

(* A signal that had to be posted is marked seen only after its post, in    *)
(* memory and on the disk, whatever failed, crashed or was purged.          *)
THEOREM NothingHotIsLost == ASSUME OneInstance PROVE Spec => []HotSeenImpliesPosted
<1>1. DedupeInv => HotSeenImpliesPosted
  BY DEF DedupeInv, SeenAfterPost, DurableBehind, HotSeenImpliesPosted
<1> QED BY <1>1, DedupeInvariant, PTL
=============================================================================
