-------------------------- MODULE EngineAlertProofs --------------------------
(* Engine implements Alerting, for every number of beacons, signals and     *)
(* failures, when one process uses the store. Besides the dedupe invariant  *)
(* this needs WorkJustified, which is proved first.                         *)
EXTENDS EngineProofs

(* The answer of a fetcher has nothing but the signals it was made from.    *)
LEMMA AnswersFrom ==
  ASSUME NEW S \in SUBSET Item, NEW got \in SetToSeqs(S)
  PROVE  /\ got \in Seq(Item)
         /\ \A n \in 1 .. Len(got) : got[n] \in S
<1>1. Cardinality(S) \in Nat
  BY EngineAssumption, FS_Subset, FS_CardinalityType
<1>2. got \in [1..Cardinality(S) -> S]
  BY DEF SetToSeqs
<1>3. got \in Seq(Item) /\ Len(got) = Cardinality(S)
  BY <1>1, <1>2
<1> QED BY <1>2, <1>3

(* The current signal's key names its beacon and its signal.                *)
LEMMA CurrentAlert ==
  ASSUME TypeInv, NEW r \in Runs, pc[r] \in Calls
  PROVE  /\ todo[r] # <<>>
         /\ CurrentKey(r) \in Key
         /\ CurrentKey(r)[1] = r[2] /\ CurrentKey(r)[3] = Current(r).sig
         /\ Current(r) = todo[r][1] /\ 1 \in 1 .. Len(todo[r])
<1>1. todo[r] # <<>> /\ todo[r] \in Seq(Item)
  BY DEF TypeInv, TypeOK, Busy
<1>2. CurrentKey(r) \in Key
  BY <1>1, CurrentType DEF TypeInv
<1> QED BY <1>1, <1>2 DEF CurrentKey, KeyOf, Current

-----------------------------------------------------------------------------
LEMMA WorkInit == Init => WorkJustified
BY DEF Init, WorkJustified, FromPlatform, Justified

(* A run the step leaves alone keeps its work justified.                    *)
LEMMA WorkOthers ==
  ASSUME WorkJustified, NEW q \in Runs, listing \subseteq listing',
         todo'[q] = todo[q], pc'[q] = pc[q], verdict'[q] = verdict[q]
  PROVE  FromPlatform(q)' /\ Justified(q)'
<1>1. FromPlatform(q) /\ Justified(q)
  BY DEF WorkJustified
<1> QED BY <1>1 DEF FromPlatform, Justified, Current

(* The run goes on with its next signal.                                    *)
LEMMA WorkDone ==
  ASSUME TypeInv, WorkJustified, NEW r \in Runs, todo[r] # <<>>, Done(r),
         UNCHANGED listing
  PROVE  WorkJustified'
<1>1. /\ pc'[r] = "novelty" /\ todo'[r] = Tail(todo[r])
      /\ \A q \in Runs : q # r => /\ todo'[q] = todo[q] /\ pc'[q] = pc[q]
                                  /\ verdict'[q] = verdict[q]
  BY DEF TypeInv, TypeOK, Done
<1>2. FromPlatform(r)'
  <2>1. todo[r] \in Seq(Item)
    BY DEF TypeInv, TypeOK
  <2>2. \A n \in 1 .. Len(Tail(todo[r])) :
          n + 1 \in 1 .. Len(todo[r]) /\ Tail(todo[r])[n] = todo[r][n + 1]
    BY <2>1
  <2>3. FromPlatform(r)
    BY DEF WorkJustified
  <2> QED BY <1>1, <2>2, <2>3 DEF FromPlatform
<1>3. Justified(r)'
  BY <1>1 DEF Justified
<1> QED BY <1>1, <1>2, <1>3, WorkOthers DEF WorkJustified

(* The run goes on to another call about the same signals.                  *)
LEMMA WorkCall ==
  ASSUME TypeInv, WorkJustified, NEW r \in Runs, NEW what, Call(r, what),
         UNCHANGED <<todo, listing>>,
         \A q \in Runs : q # r => verdict'[q] = verdict[q],
         Justified(r)'
  PROVE  WorkJustified'
<1>1. \A q \in Runs : q # r => pc'[q] = pc[q]
  BY CallOthers
<1>2. FromPlatform(r)'
  BY DEF WorkJustified, FromPlatform
<1> QED BY <1>1, <1>2, WorkOthers DEF WorkJustified

(* A fetcher answers with listed signals and marks of the beacon's own tags.*)
LEMMA WorkFetched ==
  ASSUME TypeInv, WorkJustified, NEW r \in Runs, NEW got \in Seq(Item), NEW e,
         Fetched(r, got, e),
         \A n \in 1 .. Len(got) : /\ got[n].sig \in listing
                                  /\ got[n].pre => got[n].sig \in Tagged[r[2]]
  PROVE  WorkJustified'
<1>1. /\ pc'[r] \notin Calls /\ todo'[r] = todo[r] \o got
      /\ UNCHANGED <<listing, verdict>>
      /\ \A q \in Runs : q # r => todo'[q] = todo[q] /\ pc'[q] = pc[q]
  BY DEF Fetched, Call, Calls, envVars, TypeInv, TypeOK
<1>2. todo[r] \in Seq(Item)
  BY DEF TypeInv, TypeOK
<1>3. FromPlatform(r)'
  <2> SUFFICES ASSUME NEW n \in 1 .. Len(todo[r] \o got)
               PROVE  LET x == (todo[r] \o got)[n]
                      IN x.sig \in listing /\ (x.pre => x.sig \in Tagged[r[2]])
    BY <1>1 DEF FromPlatform
  <2>1. CASE n \in 1 .. Len(todo[r])
    <3>1. (todo[r] \o got)[n] = todo[r][n]
      BY <1>2, <2>1
    <3> QED BY <2>1, <3>1 DEF WorkJustified, FromPlatform
  <2>2. CASE n \notin 1 .. Len(todo[r])
    <3>1. /\ n - Len(todo[r]) \in 1 .. Len(got)
          /\ (todo[r] \o got)[n] = got[n - Len(todo[r])]
      BY <1>2, <2>2
    <3> QED BY <3>1
  <2> QED BY <2>1, <2>2
<1>4. Justified(r)'
  BY <1>1 DEF Justified, Calls
<1> QED BY <1>1, <1>3, <1>4, WorkOthers DEF WorkJustified

LEMMA WorkFetch ==
  ASSUME TypeInv, WorkJustified, NEW r \in Runs, Fetch(r) \/ FetchFails(r)
  PROVE  WorkJustified'
<1>1. Listed(r) \subseteq Ids /\ Listed(r) \subseteq listing
  BY DEF Listed, TypeInv, TypeOK
<1>2. ASSUME NEW part \in SUBSET Listed(r), NEW narrowed, NEW e,
             narrowed \cap part \subseteq Tagged[r[2]],
             \E got \in SetToSeqs({[sig |-> s, pre |-> s \in narrowed] : s \in part}) :
               Fetched(r, got, e)
      PROVE  WorkJustified'
  <2> DEFINE items == {[sig |-> s, pre |-> s \in narrowed] : s \in part}
  <2>1. items \in SUBSET Item
    BY <1>1, ItemsOf
  <2>2. \A x \in items : x.sig \in listing /\ (x.pre => x.sig \in Tagged[r[2]])
    <3> SUFFICES ASSUME NEW s \in part,
                        NEW x, x = [sig |-> s, pre |-> s \in narrowed]
                 PROVE  x.sig \in listing /\ (x.pre => x.sig \in Tagged[r[2]])
      OBVIOUS
    <3>1. x.sig = s /\ (x.pre => s \in narrowed)
      BY Zenon
    <3> QED BY <1>1, <1>2, <3>1
  <2>3. \E got \in SetToSeqs(items) : Fetched(r, got, e)
    BY <1>2
  <2> HIDE DEF items
  <2>4. PICK got \in SetToSeqs(items) : Fetched(r, got, e)
    BY <2>3
  <2>5. got \in Seq(Item) /\ \A n \in 1 .. Len(got) : got[n] \in items
    BY <2>1, AnswersFrom
  <2> QED BY <2>2, <2>4, <2>5, WorkFetched
<1>3. CASE Fetch(r)
  <2>1. \E got \in SetToSeqs({[sig |-> s, pre |-> s \in Tagged[r[2]]] : s \in Listed(r)}) :
          Fetched(r, got, 0)
    BY <1>3 DEF Fetch
  <2> QED BY <2>1, <1>2
<1>4. CASE FetchFails(r)
  <2>1. PICK part \in SUBSET Listed(r) : \E narrowed \in SUBSET (part \cap Tagged[r[2]]) :
          \E got \in SetToSeqs({[sig |-> s, pre |-> s \in narrowed] : s \in part}) :
            Fetched(r, got, 1)
    BY <1>4 DEF FetchFails
  <2>2. PICK narrowed \in SUBSET (part \cap Tagged[r[2]]) :
          \E got \in SetToSeqs({[sig |-> s, pre |-> s \in narrowed] : s \in part}) :
            Fetched(r, got, 1)
    BY <2>1
  <2> QED BY <2>2, <1>2
<1> QED BY <1>3, <1>4
LEMMA WorkStep ==
  ASSUME TypeInv, WorkJustified, [Next]_vars
  PROVE  WorkJustified'
<1>1. CASE UNCHANGED <<listing, pc, todo, verdict>>
  BY <1>1, WorkOthers DEF WorkJustified
<1>2. ASSUME NEW s \in Ids, Publish(s) \/ LeavePage(s) \/ Age(s) PROVE WorkJustified'
  <2>1. listing \subseteq listing' /\ UNCHANGED <<pc, todo, verdict>>
    BY <1>2 DEF Publish, LeavePage, Age, runVars
  <2> QED BY <2>1, WorkOthers DEF WorkJustified
<1>3. ASSUME NEW r \in Runs, Step(r) PROVE WorkJustified'
  <2>1. CASE StartPoll(r) \/ FinishPoll(r)
    <3>1. PICK what \in {"idle", "fetch"} : Call(r, what)
      BY <2>1 DEF StartPoll, FinishPoll
    <3>2. UNCHANGED <<todo, listing, verdict>>
      BY <2>1 DEF StartPoll, FinishPoll, envVars
    <3>3. Justified(r)'
      BY <3>1, CallOthers DEF Justified
    <3> QED BY <3>1, <3>2, <3>3, WorkCall
  <2>2. CASE Fetch(r) \/ FetchFails(r)
    BY <2>2, WorkFetch
  <2>3. CASE \/ Stale(r) \/ SeenFails(r) \/ AlreadySeen(r) \/ ClassifyFails(r)
             \/ DeliverFails(r) \/ MarkSeen(r) \/ MarkSeenFails(r)
             \/ Record(r) \/ RecordFails(r)
    <3>1. todo[r] # <<>> /\ Done(r) /\ UNCHANGED listing
      BY <2>3 DEF Stale, SeenFails, AlreadySeen, ClassifyFails, DeliverFails,
                  MarkSeen, MarkSeenFails, Record, RecordFails, envVars,
                  TypeInv, Busy, Calls
    <3> QED BY <3>1, WorkDone
  <2>4. CASE Novel(r)
    <3>1. PICK what \in {"classify", "mark"} : Call(r, what)
      BY <2>4 DEF Novel
    <3>2. UNCHANGED <<todo, listing, verdict>>
      BY <2>4 DEF Novel, envVars
    <3>3. what = "classify" => Passes(r[2], Current(r))
      <4>1. ~Passes(r[2], Current(r)) => Call(r, "mark")
        BY <2>4 DEF Novel
      <4> QED BY <3>1, <4>1, CallOthers
    <3>4. Justified(r)'
      BY <3>1, <3>2, <3>3, CallOthers DEF Justified, Passes, Current
    <3> QED BY <3>1, <3>2, <3>4, WorkCall
  <2>5. CASE Classify(r)
    <3>1. PICK v \in VerdictsOf[r[2]][Current(r).sig] :
            Decide(r, v) /\ verdict' = [verdict EXCEPT ![r] = v]
      BY <2>5 DEF Classify
    <3>2. UNCHANGED <<todo, listing>> /\ pc[r] = "classify"
      BY <2>5 DEF Classify, envVars
    <3>3. Passes(r[2], Current(r))
      BY <3>2 DEF WorkJustified, Justified
    <3>4. PICK what \in {"mark", "deliver", "record"} :
            Call(r, what) /\ (what = "deliver" => PostsNow(r[2], v))
      BY <3>1 DEF Decide
    <3>5. /\ verdict'[r] = v
          /\ \A q \in Runs : q # r => verdict'[q] = verdict[q]
      BY <3>1 DEF TypeInv, TypeOK
    <3>6. Justified(r)'
      BY <3>1, <3>2, <3>3, <3>4, <3>5, CallOthers DEF Justified, Passes, Current
    <3> QED BY <3>2, <3>4, <3>5, <3>6, WorkCall
  <2>6. CASE Deliver(r)
    <3>1. Call(r, "record") /\ UNCHANGED <<todo, listing, verdict>>
      BY <2>6 DEF Deliver, envVars
    <3>2. Justified(r)'
      BY <3>1, CallOthers DEF Justified
    <3> QED BY <3>1, <3>2, WorkCall
  <2> QED BY <1>3, <2>1, <2>2, <2>3, <2>4, <2>5, <2>6 DEF Step
<1>4. ASSUME NEW i \in Instances, Crash(i) \/ Restart(i) PROVE WorkJustified'
  <2>1. Gone(i)
    BY <1>4 DEF Crash, Restart
  <2>2. ASSUME NEW q \in Runs PROVE FromPlatform(q)' /\ Justified(q)'
    <3>1. UNCHANGED listing
      BY <2>1 DEF Gone, envVars
    <3>2. CASE q[1] = i
      <4>1. todo'[q] = <<>> /\ pc'[q] = "idle"
        BY <2>1, <3>2 DEF Gone
      <4> QED BY <4>1 DEF FromPlatform, Justified
    <3>3. CASE q[1] # i
      <4>1. todo'[q] = todo[q] /\ pc'[q] = pc[q] /\ verdict'[q] = verdict[q]
        BY <2>1, <3>3 DEF Gone
      <4> QED BY <3>1, <4>1, WorkOthers
    <3> QED BY <3>2, <3>3
  <2> QED BY <2>2 DEF WorkJustified
<1>5. ASSUME NEW src \in Sources, PurgeSource(src) PROVE WorkJustified'
  BY <1>1, <1>5 DEF PurgeSource, envVars, runVars
<1> QED BY <1>1, <1>2, <1>3, <1>4, <1>5 DEF Next, vars

(* No call is made about a signal that did not come from a platform, and    *)
(* nothing is delivered that the keyword gate or the thresholds stop: for   *)
(* any number of processes, and whatever fails.                             *)
THEOREM PostsAreJustified == Spec => []WorkJustified
<1>1. Init => TypeInv /\ WorkJustified
  BY TypeInit, WorkInit
<1>2. TypeInv /\ WorkJustified /\ [Next]_vars => TypeInv' /\ WorkJustified'
  BY TypeStep, WorkStep
<1> QED BY <1>1, <1>2, PTL DEF Spec

-----------------------------------------------------------------------------
(* The refinement, for one process. First what a run that is about to make  *)
(* a call has in hand, in the terms of Alerting.                            *)
AlertInv == TypeInv /\ DedupeInv /\ WorkJustified

LEMMA OpenAlert ==
  ASSUME AlertInv, NEW r \in Runs, pc[r] \in Calls
  PROVE  Alert!Open(CurrentKey(r))
<1>1. Current(r).sig \in listing
  BY CurrentAlert DEF AlertInv, WorkJustified, FromPlatform
<1>2. CurrentKey(r) \notin live.seen
  BY DEF AlertInv, DedupeInv, StillNovel
<1> QED BY <1>1, <1>2, CurrentAlert DEF AlertInv, Alert!Open

(* A signal at the call that settles it was posted if it had to be.         *)
LEMMA HandledAlert ==
  ASSUME AlertInv, NEW r \in Runs, pc[r] \in {"mark", "record"}
  PROVE  Alert!Handled(CurrentKey(r))
<1>1. /\ CurrentKey(r) \in Key
      /\ CurrentKey(r)[1] = r[2] /\ CurrentKey(r)[3] = Current(r).sig
  BY CurrentAlert DEF AlertInv, Calls
<1>2. MustPost(r[2], Current(r).sig) => posts[CurrentKey(r)] >= 1
  BY DEF AlertInv, DedupeInv, PostBeforeRecord, Calls
<1>3. posts[CurrentKey(r)] \in {0, 1}
  BY <1>1 DEF AlertInv, DedupeInv, PostsRemembered
<1>4. Alert!Open(CurrentKey(r))
  BY OpenAlert DEF Calls
<1> QED BY <1>1, <1>2, <1>3, <1>4 DEF Alert!Handled

(* A signal about to be delivered deserves it and was not posted.           *)
LEMMA PostAlert ==
  ASSUME OneInstance, AlertInv, NEW r \in Runs, Deliver(r)
  PROVE  Alert!Post(CurrentKey(r))
<1>1. /\ pc[r] = "deliver" /\ CurrentKey(r) \in Key
      /\ CurrentKey(r)[1] = r[2] /\ CurrentKey(r)[3] = Current(r).sig
  BY CurrentAlert DEF AlertInv, Calls, Deliver
<1>2. Alert!Open(CurrentKey(r)) /\ CurrentKey(r) \notin live.seen
  BY <1>1, OpenAlert DEF Calls, Alert!Open
<1>3. posts[CurrentKey(r)] = 0
  <2>1. \A q \in Runs : pc[q] = "record" => CurrentKey(q) # CurrentKey(r)
    BY <1>1, RunsDiffer DEF AlertInv, Calls
  <2> QED BY <1>1, <1>2, <2>1 DEF AlertInv, DedupeInv, PostsRemembered
<1>4. MayPost(r[2], Current(r).sig)
  <2>1. /\ Passes(r[2], Current(r))
        /\ \E v \in VerdictsOf[r[2]][Current(r).sig] : PostsNow(r[2], v)
    BY <1>1 DEF AlertInv, WorkJustified, Justified
  <2>2. Current(r).pre => Current(r).sig \in Tagged[r[2]]
    BY <1>1, CurrentAlert DEF AlertInv, WorkJustified, FromPlatform, Calls
  <2> QED BY <2>1, <2>2 DEF MayPost, Passes
<1>5. posts' = [posts EXCEPT ![CurrentKey(r)] = 1]
  BY <1>3 DEF Deliver
<1>6. UNCHANGED <<listing, live, durable, faults>>
  BY DEF Deliver, envVars
<1> QED BY <1>1, <1>2, <1>3, <1>4, <1>5, <1>6 DEF Alert!Post

(* A failed call that left the store as it was, or changed it by the        *)
(* current signal's row.                                                    *)
LEMMA UnsureAlert ==
  ASSUME AlertInv, NEW r \in Runs, pc[r] \in {"mark", "record"}, Fault,
         live'.seen = live.seen \cup {CurrentKey(r)},
         durable'.seen \in {durable.seen, live'.seen},
         UNCHANGED <<listing, posts>>
  PROVE  Alert!SettleUnsure(CurrentKey(r))
BY HandledAlert DEF Alert!SettleUnsure, Alert!Fault, Fault

-----------------------------------------------------------------------------
(* The engine's own part of a step, one lemma for each kind.                *)
LEMMA MarkAlert ==
  ASSUME AlertInv, NEW r \in Runs, MarkSeen(r) \/ MarkSeenFails(r)
  PROVE  Alert!Next
<1>1. /\ pc[r] = "mark" /\ UNCHANGED <<listing, posts>>
      /\ CurrentKey(r) \in Key
  BY CurrentAlert DEF AlertInv, MarkSeen, MarkSeenFails, envVars, Calls
<1>2. MarkedSeen(live, CurrentKey(r)).seen = live.seen \cup {CurrentKey(r)}
  BY DEF MarkedSeen, AlertInv, TypeInv, TypeOK, Contents
<1>3. CASE MarkSeen(r)
  <2>1. /\ live'.seen = live.seen \cup {CurrentKey(r)}
        /\ durable'.seen = live'.seen /\ UNCHANGED faults
    BY <1>2, <1>3 DEF MarkSeen, Commit
  <2>2. Alert!Settle(CurrentKey(r))
    BY <1>1, <2>1, HandledAlert DEF Alert!Settle
  <2> QED BY <1>1, <2>2 DEF Alert!Next
<1>4. CASE MarkSeenFails(r)
  <2>1. Fault /\ Fails(MarkedSeen(live, CurrentKey(r)))
    BY <1>4 DEF MarkSeenFails
  <2>2. CASE UNCHANGED storeVars
    <3>1. Alert!Fail
      BY <1>1, <2>1, <2>2 DEF storeVars, Fault, Alert!Fail, Alert!Fault
    <3> QED BY <3>1 DEF Alert!Next
  <2>3. CASE ~UNCHANGED storeVars
    <3>1. /\ live'.seen = live.seen \cup {CurrentKey(r)}
          /\ durable'.seen \in {durable.seen, live'.seen}
      BY <1>2, <2>1, <2>3 DEF Fails, Lose, Commit
    <3>2. Alert!SettleUnsure(CurrentKey(r))
      BY <1>1, <2>1, <3>1, UnsureAlert
    <3> QED BY <1>1, <3>2 DEF Alert!Next
  <2> QED BY <2>2, <2>3
<1> QED BY <1>3, <1>4

LEMMA RecordAlert ==
  ASSUME AlertInv, NEW r \in Runs, Record(r) \/ RecordFails(r)
  PROVE  Alert!Next
<1>1. /\ pc[r] = "record" /\ UNCHANGED listing
      /\ CurrentKey(r) \in Key /\ CurrentKey(r) \notin live.seen
  BY CurrentAlert DEF AlertInv, DedupeInv, StillNovel, Record, RecordFails,
                      envVars, Calls
<1>2. \A after \in Recorded(live, CurrentFinding(r)) :
        after.seen = live.seen \cup {CurrentKey(r)}
  BY DEF Recorded, CurrentFinding, AlertInv, TypeInv, TypeOK, Contents
<1>3. CASE Record(r)
  <2>1. /\ live'.seen = live.seen \cup {CurrentKey(r)}
        /\ durable'.seen = live'.seen /\ UNCHANGED <<posts, faults>>
    BY <1>2, <1>3 DEF Record, Commit
  <2>2. Alert!Settle(CurrentKey(r))
    BY <1>1, <2>1, HandledAlert DEF Alert!Settle
  <2> QED BY <1>1, <2>2 DEF Alert!Next
<1>4. CASE RecordFails(r)
  <2>1. PICK after \in Recorded(live, CurrentFinding(r)) : Fails(after)
    BY <1>4 DEF RecordFails
  <2>2. Fault /\ Forgive({CurrentKey(r)} \ live'.seen)
    BY <1>4 DEF RecordFails
  <2>3. CASE UNCHANGED storeVars
    <3>1. {CurrentKey(r)} \ live'.seen = {CurrentKey(r)}
      BY <1>1, <2>3 DEF storeVars
    <3>2. Alert!Forget({CurrentKey(r)})
      BY <2>2, <3>1 DEF Forgive, Alert!Forget
    <3>3. Alert!LoseRecord(CurrentKey(r))
      BY <1>1, <2>2, <2>3, <3>2 DEF storeVars, Fault, Alert!LoseRecord, Alert!Fault
    <3> QED BY <1>1, <3>3 DEF Alert!Next
  <2>4. CASE ~UNCHANGED storeVars
    <3>1. /\ live'.seen = live.seen \cup {CurrentKey(r)}
          /\ durable'.seen \in {durable.seen, live'.seen}
      BY <1>2, <2>1, <2>4 DEF Fails, Lose, Commit
    <3>2. UNCHANGED posts
      <4>1. posts' = [k \in Key |-> posts[k]]
        BY <2>2, <3>1 DEF Forgive
      <4> QED BY <4>1 DEF AlertInv, TypeInv, TypeOK
    <3>3. Alert!SettleUnsure(CurrentKey(r))
      BY <1>1, <2>2, <3>1, <3>2, UnsureAlert
    <3> QED BY <1>1, <3>3 DEF Alert!Next
  <2> QED BY <2>3, <2>4
<1> QED BY <1>3, <1>4

(* The process is gone, with all its runs.                                  *)
LEMMA GoneAlert ==
  ASSUME OneInstance, AlertInv, NEW i \in Instances, Crash(i) \/ Restart(i)
  PROVE  Alert!Next
<1> DEFINE unrecorded == {CurrentKey(r) : r \in {q \in Runs : pc[q] = "record"}}
<1>1. /\ live'.seen = durable.seen /\ durable'.seen = durable.seen
      /\ UNCHANGED listing
      /\ Forgive((live.seen \ durable.seen) \cup unrecorded)
  <2>1. Gone(i)
    BY DEF Crash, Restart
  <2>2. {q \in {r \in Runs : r[1] = i} : pc[q] = "record"} = {q \in Runs : pc[q] = "record"}
    BY DEF OneInstance, Runs
  <2> QED BY <2>1, <2>2 DEF Gone, StoreRestart, envVars
<1>2. Alert!Forget((live.seen \ durable.seen) \cup unrecorded)
  BY <1>1 DEF Forgive, Alert!Forget
<1>3. unrecorded \in SUBSET (Key \ live.seen)
  <2>1. \A q \in Runs : pc[q] = "record" => CurrentKey(q) \in Key \ live.seen
    BY CurrentAlert DEF AlertInv, DedupeInv, StillNovel, Calls
  <2> QED BY <2>1
<1>4. CASE Crash(i)
  <2>1. Alert!LoseRows(durable.seen, unrecorded)
    BY <1>1, <1>2, <1>4 DEF Crash, Fault, Alert!LoseRows, Alert!Fault
  <2> QED BY <1>3, <2>1 DEF Alert!Next
<1>5. CASE Restart(i)
  <2>1. unrecorded = {}
    BY <1>5 DEF Restart, OneInstance, Runs
  <2>2. Alert!Restart
    BY <1>1, <1>2, <1>5, <2>1 DEF Restart, Alert!Restart
  <2> QED BY <2>2 DEF Alert!Next
<1> QED BY <1>4, <1>5

LEMMA PurgeAlert ==
  ASSUME AlertInv, NEW src \in Sources, PurgeSource(src)
  PROVE  Alert!Next
<1>1. PICK rest : rest = {k \in durable.seen : k[2] # src}
  OBVIOUS
<1>2. /\ live'.seen = rest /\ durable'.seen = rest
      /\ Forgive(live.seen \ rest) /\ Fault /\ UNCHANGED listing
  BY <1>1 DEF PurgeSource, Commit, Purged, envVars
<1>3. Alert!LoseRows(rest, {})
  <2>1. (live.seen \ rest) \cup {} = live.seen \ rest
    OBVIOUS
  <2> QED BY <1>2, <2>1 DEF Forgive, Fault, Alert!LoseRows, Alert!Forget, Alert!Fault
<1> QED BY <1>1, <1>3 DEF Alert!Next

LEMMA AlertStep ==
  ASSUME OneInstance, AlertInv, [Next]_vars
  PROVE  [Alert!Next]_(Alert!vars)
<1>1. CASE UNCHANGED <<listing, live, durable, posts, faults>>
  BY <1>1 DEF Alert!vars
<1>2. ASSUME NEW s \in Ids, Publish(s) \/ LeavePage(s) \/ Age(s) PROVE [Alert!Next]_(Alert!vars)
  <2>1. CASE Publish(s)
    <3>1. Alert!Appear(s)
      BY <2>1 DEF Publish, Alert!Appear
    <3> QED BY <3>1 DEF Alert!Next
  <2>2. CASE LeavePage(s) \/ Age(s)
    BY <1>1, <2>2 DEF LeavePage, Age
  <2> QED BY <1>2, <2>1, <2>2
<1>3. ASSUME NEW r \in Runs, Step(r) PROVE [Alert!Next]_(Alert!vars)
  <2>1. CASE StartPoll(r) \/ Fetch(r) \/ Stale(r) \/ AlreadySeen(r) \/ Novel(r)
             \/ FinishPoll(r) \/ Classify(r)
    BY <1>1, <2>1 DEF StartPoll, Fetch, Fetched, Stale, AlreadySeen, Novel,
                      FinishPoll, Classify, envVars
  <2>2. CASE FetchFails(r) \/ SeenFails(r) \/ ClassifyFails(r) \/ DeliverFails(r)
    <3>1. Fault /\ UNCHANGED <<listing, live, durable, posts>>
      BY <2>2 DEF FetchFails, Fetched, SeenFails, ClassifyFails, DeliverFails,
                  envVars
    <3>2. Alert!Fail
      BY <3>1 DEF Fault, Alert!Fail, Alert!Fault
    <3> QED BY <3>2 DEF Alert!Next
  <2>3. CASE MarkSeen(r) \/ MarkSeenFails(r)
    BY <2>3, MarkAlert
  <2>4. CASE Deliver(r)
    <3>1. CurrentKey(r) \in Key
      BY <2>4, CurrentAlert DEF AlertInv, Deliver, Calls
    <3> QED BY <2>4, <3>1, PostAlert DEF Alert!Next
  <2>5. CASE Record(r) \/ RecordFails(r)
    BY <2>5, RecordAlert
  <2> QED BY <1>3, <2>1, <2>2, <2>3, <2>4, <2>5 DEF Step
<1>4. ASSUME NEW i \in Instances, Crash(i) \/ Restart(i) PROVE [Alert!Next]_(Alert!vars)
  BY <1>4, GoneAlert
<1>5. ASSUME NEW src \in Sources, PurgeSource(src) PROVE [Alert!Next]_(Alert!vars)
  BY <1>5, PurgeAlert
<1> QED BY <1>1, <1>2, <1>3, <1>4, <1>5 DEF Next, vars

LEMMA AlertInit == Init => Alert!Init
BY DEF Init, StoreInit, EmptyStore, Alert!Init

(* Engine, with one process on the store, implements Alerting: every step   *)
(* of a poll, a failure, a crash, a restart or a purge is one of the steps  *)
(* Alerting allows, or changes nothing a channel could tell.                *)
THEOREM ImplementsAlerting == ASSUME OneInstance PROVE Spec => IsAnAlerter
<1>1. Init => AlertInv /\ Alert!Init
  BY TypeInit, DedupeInit, WorkInit, AlertInit DEF AlertInv
<1>2. AlertInv /\ [Next]_vars => AlertInv' /\ [Alert!Next]_(Alert!vars)
  BY TypeStep, DedupeStep, WorkStep, AlertStep DEF AlertInv
<1> QED BY <1>1, <1>2, PTL DEF Spec, IsAnAlerter, Alert!Spec

(* What the promise is worth: whoever keeps it repeats no post and settles  *)
(* nothing unposted that had to be posted.                                  *)
PromiseInv ==
  /\ durable.seen \subseteq live.seen
  /\ posts \in [Key -> {0, 1}]
  /\ \A k \in Key : MustPost(k[1], k[3]) /\ k \in live.seen => posts[k] = 1

LEMMA PromiseStep ==
  ASSUME PromiseInv, [Alert!Next]_(Alert!vars)
  PROVE  PromiseInv'
<1>1. CASE UNCHANGED Alert!vars
  BY <1>1 DEF PromiseInv, Alert!vars
<1>2. ASSUME NEW s \in Ids, Alert!Appear(s) PROVE PromiseInv'
  BY <1>2 DEF PromiseInv, Alert!Appear
<1>3. ASSUME NEW k \in Key, Alert!Post(k) PROVE PromiseInv'
  BY <1>3 DEF PromiseInv, Alert!Post
<1>4. ASSUME NEW k \in Key, Alert!Settle(k) \/ Alert!SettleUnsure(k) PROVE PromiseInv'
  <2>1. /\ Alert!Handled(k) /\ UNCHANGED posts
        /\ live'.seen = live.seen \cup {k}
        /\ durable'.seen \in {durable.seen, live'.seen}
    BY <1>4 DEF Alert!Settle, Alert!SettleUnsure
  <2>2. MustPost(k[1], k[3]) => posts[k] = 1
    BY <2>1 DEF Alert!Handled
  <2> QED BY <2>1, <2>2 DEF PromiseInv
<1>5. CASE Alert!Restart
  BY <1>5 DEF PromiseInv, Alert!Restart, Alert!Forget
<1>6. CASE Alert!Fail
  BY <1>6 DEF PromiseInv, Alert!Fail
<1>7. ASSUME NEW k \in Key, Alert!LoseRecord(k) PROVE PromiseInv'
  BY <1>7 DEF PromiseInv, Alert!LoseRecord, Alert!Forget
<1>8. ASSUME NEW rest \in SUBSET durable.seen,
             NEW unrecorded \in SUBSET (Key \ live.seen),
             Alert!LoseRows(rest, unrecorded)
      PROVE  PromiseInv'
  BY <1>8 DEF PromiseInv, Alert!LoseRows, Alert!Forget
<1> QED BY <1>1, <1>2, <1>3, <1>4, <1>5, <1>6, <1>7, <1>8 DEF Alert!Next

THEOREM PromiseKept ==
  IsAnAlerter => [](NoDuplicatePost /\ HotSeenImpliesPosted)
<1>1. Alert!Init => PromiseInv
  BY DEF Alert!Init, PromiseInv
<1>2. PromiseInv /\ [Alert!Next]_(Alert!vars) => PromiseInv'
  BY PromiseStep
<1>3. PromiseInv => NoDuplicatePost /\ HotSeenImpliesPosted
  <2> SUFFICES ASSUME PromiseInv PROVE NoDuplicatePost /\ HotSeenImpliesPosted
    OBVIOUS
  <2>1. NoDuplicatePost
    BY DEF PromiseInv, NoDuplicatePost
  <2>2. ASSUME NEW b \in Beacons, NEW s \in Ids, MustPost(b, s),
               KeyOf(b, s) \in live.seen \cup durable.seen
        PROVE  posts[KeyOf(b, s)] >= 1
    <3>1. /\ KeyOf(b, s) \in Key
          /\ KeyOf(b, s)[1] = b /\ KeyOf(b, s)[3] = s
      BY EngineAssumption DEF KeyOf, Key
    <3> QED BY <2>2, <3>1 DEF PromiseInv
  <2> QED BY <2>1, <2>2 DEF HotSeenImpliesPosted
<1> QED BY <1>1, <1>2, <1>3, PTL DEF IsAnAlerter, Alert!Spec
=============================================================================
