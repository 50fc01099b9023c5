------------------------------- MODULE Engine -------------------------------
(* One poll of a beacon (internal/engine/engine.go, RunBeacon), for every   *)
(* beacon of every running process, over the store port: fetch each source, *)
(* then take every signal through freshness, dedupe, the keyword gate, the  *)
(* classifier, the thresholds, delivery and recording.                      *)
(*                                                                          *)
(* A run <<i, b>> is the goroutine of beacon b in process i. pc names the   *)
(* call to another component it makes next; between two such calls the      *)
(* engine only touches its own variables, so each action is one call with   *)
(* what the engine does on its answer. The runs of one process share the    *)
(* store's memory, the processes share the store.                           *)
EXTENDS StorePort, Integers, SequencesExt

CONSTANTS
  Instances,    \* processes that run the configuration on this store
  SourceOf,     \* the platform of each signal
  Fetchers,     \* the sources of each beacon, in the configured order
  Prefiltered,  \* sources that search by keyword themselves (HN, Reddit)
  Keywords,     \* each beacon's keywords
  Haystack,     \* the keywords found in each signal's text and tags
  Tagged,       \* signals in a tag feed the beacon configured (Lobsters)
  VerdictsOf,   \* what the classifier may answer for a beacon and a signal
  Realtime,     \* each beacon's threshold for posting now
  Digest,       \* each beacon's threshold for the digest
  Gated,        \* beacons with a max_age
  Fleeting,     \* bound: signals that may leave their page
  MaxFaults     \* bound: failed calls, crashes and purges in a behaviour

Runs == Instances \X Beacons
Verdict == [noise : BOOLEAN, fit : Nat]
Item == [sig : Ids, pre : BOOLEAN]

Outcomes == {"fetched", "stale", "seen", "filtered", "classified",
             "delivered", "digest", "dropped", "errors"}

ASSUME EngineAssumption ==
  /\ IsFiniteSet(Item)
  /\ SourceOf \in [Ids -> Sources]
  /\ Fetchers \in [Beacons -> Seq(Sources) \ {<<>>}]
  /\ Verdicts \subseteq Verdict
  /\ VerdictsOf \in [Beacons -> [Ids -> SUBSET Verdicts]]
  /\ Realtime \in [Beacons -> Nat] /\ Digest \in [Beacons -> Nat]
  /\ MaxFaults \in Nat

(* The state file has one writer, so a store with a memory in front of it   *)
(* is used by one process.                                                  *)
ASSUME MemoryAssumption == Volatile => \A i, j \in Instances : i = j

VARIABLES
  listing,  \* signals the platforms have listed (environment)
  page,     \* those that are on a platform's page now (environment)
  old,      \* signals that have outlived max_age (environment)
  pc,       \* the call each run makes next
  next,     \* the fetcher it calls next
  todo,     \* the fetched signals it has not finished, the current one first
  aged,     \* the signals that were too old when it took the time
  verdict,  \* the classifier's answer for the current signal
  counts,   \* its funnel: per source, how many signals went where
  posts,    \* posts of a signal that stand: see Forgive
  faults    \* failed calls, crashes and purges so far

envVars == <<listing, page, old>>
runVars == <<pc, next, todo, aged, verdict, counts>>
vars == <<live, durable, listing, page, old, pc, next, todo, aged, verdict,
          counts, posts, faults>>

-----------------------------------------------------------------------------
(* Mutant: the dedupe key is the same for every beacon.                     *)
KeyOfAnyBeacon(b, s) == <<CHOOSE a \in Beacons : TRUE, SourceOf[s], s>>

KeyOf(b, s) == <<b, SourceOf[s], s>>

Current(r) == Head(todo[r])
CurrentKey(r) == KeyOf(r[2], Current(r).sig)
CurrentSource(r) == SourceOf[Current(r).sig]

(* filter.Match: no keywords, or one of them is in the text or the tags.    *)
Match(b, s) == Keywords[b] = {} \/ Keywords[b] \cap Haystack[s] # {}

(* The gate is skipped for a source that searched by keyword, and for a     *)
(* signal the source marked as already narrowed to the topic.               *)
Passes(b, item) == \/ SourceOf[item.sig] \in Prefiltered
                   \/ item.pre
                   \/ Match(b, item.sig)

Rejects(b, v) == v.noise \/ v.fit < Digest[b]
PostsNow(b, v) == ~Rejects(b, v) /\ v.fit >= Realtime[b]

NoVerdict == [noise |-> TRUE, fit |-> 0]
NoCounts == [src \in Sources |-> [o \in Outcomes |-> 0]]

(* Add to the tally of one source.                                          *)
Tally(r, src, gain) ==
  counts' = [counts EXCEPT ![r][src] = [o \in Outcomes |-> @[o] + gain[o]]]

(* Add one to the current signal's source under each of these outcomes.     *)
Ones(outcomes) == [o \in Outcomes |-> IF o \in outcomes THEN 1 ELSE 0]
Count(r, outcomes) == Tally(r, CurrentSource(r), Ones(outcomes))

(* Go on with the next signal.                                              *)
Done(r) == /\ pc' = [pc EXCEPT ![r] = "novelty"]
           /\ todo' = [todo EXCEPT ![r] = Tail(@)]
           /\ verdict' = [verdict EXCEPT ![r] = NoVerdict]

Call(r, what) == pc' = [pc EXCEPT ![r] = what]

(* A call fails, a process dies or an operator purges: bounded.             *)
Fault == faults < MaxFaults /\ faults' = faults + 1

(* The beacon lost, or was made to lose, what it knew of these posts: a     *)
(* fault explains that it posts them once more.                             *)
Forgive(keys) == posts' = [k \in Key |-> IF k \in keys THEN 0 ELSE posts[k]]

(* How a failed store call may leave the store: as it was, changed in       *)
(* memory only (the save failed), or changed (the answer was lost).         *)
Fails(after) == UNCHANGED storeVars \/ Lose(after) \/ Commit(after)

-----------------------------------------------------------------------------
Init ==
  /\ StoreInit
  /\ listing = {} /\ page = {} /\ old = {}
  /\ pc = [r \in Runs |-> "idle"]
  /\ next = [r \in Runs |-> 1]
  /\ todo = [r \in Runs |-> <<>>]
  /\ aged = [r \in Runs |-> {}]
  /\ verdict = [r \in Runs |-> NoVerdict]
  /\ counts = [r \in Runs |-> NoCounts]
  /\ posts = [k \in Key |-> 0]
  /\ faults = 0

(* The environment: somebody posts on a platform, or what came after a post *)
(* is deleted; a post leaves the page of the newest, which is bounded, for  *)
(* newer ones; a signal that carries a date gets old. (One without a date   *)
(* never does: Publish it, never age.) Only a beacon with a max_age can     *)
(* tell.                                                                    *)
Publish(s) ==
  /\ s \notin page
  /\ page' = page \cup {s} /\ listing' = listing \cup {s}
  /\ UNCHANGED <<live, durable, old, runVars, posts, faults>>

LeavePage(s) ==
  /\ s \in page \cap Fleeting
  /\ page' = page \ {s}
  /\ UNCHANGED <<live, durable, listing, old, runVars, posts, faults>>

Age(s) ==
  /\ Beacons \cap Gated # {}
  /\ s \in listing \ old
  /\ old' = old \cup {s}
  /\ UNCHANGED <<live, durable, listing, page, runVars, posts, faults>>

-----------------------------------------------------------------------------
(* The loop's ticker or the one-shot run starts a poll.                     *)
StartPoll(r) ==
  /\ pc[r] = "idle"
  /\ Call(r, "fetch")
  /\ UNCHANGED <<live, durable, envVars, next, todo, aged, verdict, counts,
                 posts, faults>>

(* Mutant: the index of the next fetcher is not reset after the last one.   *)
FetchedPastTheEnd(r, got, errors) ==
  LET src == Fetchers[r[2]][next[r]]
      last == next[r] = Len(Fetchers[r[2]])
  IN /\ Tally(r, src, [Ones({}) EXCEPT !["fetched"] = Len(got),
                                        !["errors"] = errors])
     /\ todo' = [todo EXCEPT ![r] = @ \o got]
     /\ next' = [next EXCEPT ![r] = @ + 1]
     /\ Call(r, IF last THEN "novelty" ELSE "fetch")
     /\ aged' = [aged EXCEPT ![r] = IF last THEN old ELSE @]
     /\ UNCHANGED <<live, durable, envVars, verdict, posts>>

(* A fetcher answers with these signals: they are counted and appended. The *)
(* time is taken once, after the last fetcher. The early return in the      *)
(* pause between two fetchers cannot be reached: the loop, which pauses,    *)
(* polls under a context nobody cancels, and the one-shot run never pauses. *)
Fetched(r, got, errors) ==
  LET src == Fetchers[r[2]][next[r]]
      last == next[r] = Len(Fetchers[r[2]])
  IN /\ Tally(r, src, [Ones({}) EXCEPT !["fetched"] = Len(got),
                                        !["errors"] = errors])
     /\ todo' = [todo EXCEPT ![r] = @ \o got]
     /\ next' = [next EXCEPT ![r] = IF last THEN 1 ELSE @ + 1]
     /\ Call(r, IF last THEN "novelty" ELSE "fetch")
     /\ aged' = [aged EXCEPT ![r] = IF last THEN old ELSE @]
     /\ UNCHANGED <<live, durable, envVars, verdict, posts>>

(* What a page shows when the fetcher asks for it.                          *)
Listed(r) == {s \in page : SourceOf[s] = Fetchers[r[2]][next[r]]}

Fetch(r) ==
  /\ pc[r] = "fetch"
  /\ \E got \in SetToSeqs({[sig |-> s, pre |-> s \in Tagged[r[2]]] :
                             s \in Listed(r)}) : Fetched(r, got, 0)
  /\ UNCHANGED faults

(* A fetch that fails may still bring part of the signals; one of a tag     *)
(* feed that failed comes, if at all, through the global feed, untagged.    *)
FetchFails(r) ==
  /\ pc[r] = "fetch"
  /\ Fault
  /\ \E part \in SUBSET Listed(r) : \E narrowed \in SUBSET (part \cap Tagged[r[2]]) :
       \E got \in SetToSeqs({[sig |-> s, pre |-> s \in narrowed] : s \in part}) :
         Fetched(r, got, 1)

-----------------------------------------------------------------------------
(* The head of the loop over the fetched signals.                           *)
Fresh(r) == r[2] \in Gated => Current(r).sig \notin aged[r]

Stale(r) ==
  /\ pc[r] = "novelty" /\ todo[r] # <<>>
  /\ ~Fresh(r)
  /\ Count(r, {"stale"})
  /\ Done(r)
  /\ UNCHANGED <<live, durable, envVars, next, aged, posts, faults>>

(* Mutant: a failed dedupe check is logged and not counted.                 *)
SeenFailsUncounted(r) ==
  /\ pc[r] = "novelty" /\ todo[r] # <<>>
  /\ Fresh(r)
  /\ Fault
  /\ Done(r)
  /\ UNCHANGED <<live, durable, envVars, next, aged, counts, posts>>

SeenFails(r) ==
  /\ pc[r] = "novelty" /\ todo[r] # <<>>
  /\ Fresh(r)
  /\ Fault
  /\ Count(r, {"errors"})
  /\ Done(r)
  /\ UNCHANGED <<live, durable, envVars, next, aged, posts>>

AlreadySeen(r) ==
  /\ pc[r] = "novelty" /\ todo[r] # <<>>
  /\ Fresh(r)
  /\ CurrentKey(r) \in live.seen
  /\ Count(r, {"seen"})
  /\ Done(r)
  /\ UNCHANGED <<live, durable, envVars, next, aged, posts, faults>>

(* Mutant: the dedupe answer is not looked at.                              *)
NovelUnchecked(r) ==
  /\ pc[r] = "novelty" /\ todo[r] # <<>>
  /\ Fresh(r)
  /\ IF Passes(r[2], Current(r))
     THEN Count(r, {"classified"}) /\ Call(r, "classify")
     ELSE Count(r, {"filtered"}) /\ Call(r, "mark")
  /\ UNCHANGED <<live, durable, envVars, next, todo, aged, verdict, posts,
                 faults>>

(* Mutant: a source that hands over marks is trusted with all it brings.    *)
NovelUngated(r) ==
  /\ pc[r] = "novelty" /\ todo[r] # <<>>
  /\ Fresh(r)
  /\ CurrentKey(r) \notin live.seen
  /\ IF Passes(r[2], Current(r)) \/ Tagged[r[2]] # {}
     THEN Count(r, {"classified"}) /\ Call(r, "classify")
     ELSE Count(r, {"filtered"}) /\ Call(r, "mark")
  /\ UNCHANGED <<live, durable, envVars, next, todo, aged, verdict, posts,
                 faults>>

(* A novel signal goes to the classifier, or is marked seen right away when *)
(* the gate stops it.                                                       *)
Novel(r) ==
  /\ pc[r] = "novelty" /\ todo[r] # <<>>
  /\ Fresh(r)
  /\ CurrentKey(r) \notin live.seen
  /\ IF Passes(r[2], Current(r))
     THEN Count(r, {"classified"}) /\ Call(r, "classify")
     ELSE Count(r, {"filtered"}) /\ Call(r, "mark")
  /\ UNCHANGED <<live, durable, envVars, next, todo, aged, verdict, posts,
                 faults>>

(* The poll is over; its statistics are logged and gone.                    *)
FinishPoll(r) ==
  /\ pc[r] = "novelty" /\ todo[r] = <<>>
  /\ Call(r, "idle")
  /\ counts' = [counts EXCEPT ![r] = NoCounts]
  /\ aged' = [aged EXCEPT ![r] = {}]
  /\ UNCHANGED <<live, durable, envVars, next, todo, verdict, posts, faults>>

(* Mutant: a handled signal is not marked.                                  *)
MarkNothing(r) ==
  /\ pc[r] = "mark"
  /\ Done(r)
  /\ UNCHANGED <<live, durable, envVars, next, aged, counts, posts, faults>>

(* Mutant: the row is added to what is on the disk, not to the memory.      *)
MarkSeenReloads(r) ==
  /\ pc[r] = "mark"
  /\ Commit(MarkedSeen(durable, CurrentKey(r)))
  /\ Done(r)
  /\ UNCHANGED <<envVars, next, aged, counts, posts, faults>>

MarkSeen(r) ==
  /\ pc[r] = "mark"
  /\ Commit(MarkedSeen(live, CurrentKey(r)))
  /\ Done(r)
  /\ UNCHANGED <<envVars, next, aged, counts, posts, faults>>

(* The engine logs the error and counts nothing.                            *)
MarkSeenFails(r) ==
  /\ pc[r] = "mark"
  /\ Fault
  /\ Fails(MarkedSeen(live, CurrentKey(r)))
  /\ Done(r)
  /\ UNCHANGED <<envVars, next, aged, counts, posts>>

-----------------------------------------------------------------------------
(* Mutant: the thresholds are swapped: the warm are posted, the hot kept.   *)
DecideSwapped(r, v) ==
  \/ /\ Rejects(r[2], v)
     /\ Count(r, {"dropped"}) /\ Call(r, "mark")
  \/ /\ ~Rejects(r[2], v) /\ ~PostsNow(r[2], v)
     /\ Call(r, "deliver") /\ UNCHANGED counts
  \/ /\ PostsNow(r[2], v)
     /\ Count(r, {"digest"}) /\ Call(r, "record")

(* The classifier answers and the thresholds decide: drop, post now, or     *)
(* keep for the digest.                                                     *)
Decide(r, v) ==
  \/ /\ Rejects(r[2], v)
     /\ Count(r, {"dropped"}) /\ Call(r, "mark")
  \/ /\ PostsNow(r[2], v)
     /\ Call(r, "deliver") /\ UNCHANGED counts
  \/ /\ ~Rejects(r[2], v) /\ ~PostsNow(r[2], v)
     /\ Count(r, {"digest"}) /\ Call(r, "record")

Classify(r) ==
  /\ pc[r] = "classify"
  /\ \E v \in VerdictsOf[r[2]][Current(r).sig] :
       Decide(r, v) /\ verdict' = [verdict EXCEPT ![r] = v]
  /\ UNCHANGED <<live, durable, envVars, next, todo, aged, posts, faults>>

(* Not marked seen: the signal is left for the next poll.                   *)
ClassifyFails(r) ==
  /\ pc[r] = "classify"
  /\ Fault
  /\ Count(r, {"errors"})
  /\ Done(r)
  /\ UNCHANGED <<live, durable, envVars, next, aged, posts>>

Deliver(r) ==
  /\ pc[r] = "deliver"
  /\ posts' = [posts EXCEPT ![CurrentKey(r)] = @ + 1]
  /\ Count(r, {"delivered"})
  /\ Call(r, "record")
  /\ UNCHANGED <<live, durable, envVars, next, todo, aged, verdict, faults>>

(* Mutant: a failed delivery goes on to Record like a good one.             *)
DeliverFailsAndRecords(r) ==
  /\ pc[r] = "deliver"
  /\ Fault
  /\ Count(r, {"errors"})
  /\ Call(r, "record")
  /\ UNCHANGED <<live, durable, envVars, next, todo, aged, verdict, posts>>

(* Neither recorded nor marked seen. When the post did go out and only the  *)
(* answer was lost, this fault explains the repeat: no post stands.         *)
DeliverFails(r) ==
  /\ pc[r] = "deliver"
  /\ Fault
  /\ Count(r, {"errors"})
  /\ Done(r)
  /\ UNCHANGED <<live, durable, envVars, next, aged, posts>>

CurrentFinding(r) == [key |-> CurrentKey(r), verdict |-> verdict[r]]

(* Mutant: the finding is kept, its signal is not marked seen.              *)
RecordUnseen(r) ==
  /\ pc[r] = "record"
  /\ Commit([live EXCEPT !.findings = @ \cup {CurrentFinding(r)}])
  /\ Done(r)
  /\ UNCHANGED <<envVars, next, aged, counts, posts, faults>>

Record(r) ==
  /\ pc[r] = "record"
  /\ \E after \in Recorded(live, CurrentFinding(r)) : Commit(after)
  /\ Done(r)
  /\ UNCHANGED <<envVars, next, aged, counts, posts, faults>>

(* If the store did not take it, the post is forgotten.                     *)
RecordFails(r) ==
  /\ pc[r] = "record"
  /\ Fault
  /\ \E after \in Recorded(live, CurrentFinding(r)) : Fails(after)
  /\ Forgive({CurrentKey(r)} \ live'.seen)
  /\ Count(r, {"errors"})
  /\ Done(r)
  /\ UNCHANGED <<envVars, next, aged>>

-----------------------------------------------------------------------------
(* The process is gone: what its runs held in memory and what the store had *)
(* not saved is lost. The posts it had not recorded are forgotten.          *)
Gone(i) ==
  LET dies == {r \in Runs : r[1] = i}
  IN /\ StoreRestart
     /\ Forgive((live.seen \ durable.seen)
                  \cup {CurrentKey(r) : r \in {q \in dies : pc[q] = "record"}})
     /\ pc' = [r \in Runs |-> IF r \in dies THEN "idle" ELSE pc[r]]
     /\ next' = [r \in Runs |-> IF r \in dies THEN 1 ELSE next[r]]
     /\ todo' = [r \in Runs |-> IF r \in dies THEN <<>> ELSE todo[r]]
     /\ aged' = [r \in Runs |-> IF r \in dies THEN {} ELSE aged[r]]
     /\ verdict' = [r \in Runs |-> IF r \in dies THEN NoVerdict ELSE verdict[r]]
     /\ counts' = [r \in Runs |-> IF r \in dies THEN NoCounts ELSE counts[r]]
     /\ UNCHANGED envVars

Crash(i) == Fault /\ Gone(i)

(* The one-shot run ends, or the loop has drained its polls: the process    *)
(* stops with no poll under way and is started again.                       *)
Restart(i) ==
  /\ \A b \in Beacons : pc[<<i, b>>] = "idle"
  /\ Gone(i)
  /\ UNCHANGED faults

(* sos-beacon -purge-source, a process of its own. With the file store it   *)
(* runs while the poller is stopped.                                        *)
PurgeSource(src) ==
  /\ Fault
  /\ Volatile => \A r \in Runs : pc[r] = "idle"
  /\ Commit(Purged(durable, src))
  /\ Forgive(live.seen \ live'.seen)
  /\ UNCHANGED <<envVars, runVars>>

-----------------------------------------------------------------------------
Step(r) ==
  \/ StartPoll(r) \/ Fetch(r) \/ FetchFails(r)
  \/ Stale(r) \/ SeenFails(r) \/ AlreadySeen(r) \/ Novel(r) \/ FinishPoll(r)
  \/ MarkSeen(r) \/ MarkSeenFails(r)
  \/ Classify(r) \/ ClassifyFails(r)
  \/ Deliver(r) \/ DeliverFails(r)
  \/ Record(r) \/ RecordFails(r)

Next ==
  \/ \E s \in Ids : Publish(s) \/ LeavePage(s) \/ Age(s)
  \/ \E r \in Runs : Step(r)
  \/ \E i \in Instances : Crash(i) \/ Restart(i)
  \/ \E src \in Sources : PurgeSource(src)

Spec == Init /\ [][Next]_vars

(* Every run goes on: the loop's ticker starts the next poll, and every     *)
(* call is bounded by a timeout and so returns. Failures stop at MaxFaults. *)
FairSpec == Spec /\ \A r \in Runs : WF_vars(Step(r))

-----------------------------------------------------------------------------
Labels == {"idle", "fetch", "novelty", "mark", "classify", "deliver", "record"}

TypeOK ==
  /\ live \in Contents /\ durable \in Contents
  /\ listing \subseteq Ids /\ page \subseteq listing /\ old \subseteq Ids
  /\ pc \in [Runs -> Labels]
  /\ next \in [Runs -> Nat \ {0}]
  /\ \A r \in Runs : next[r] <= Len(Fetchers[r[2]])
  /\ todo \in [Runs -> Seq(Item)]
  /\ aged \in [Runs -> SUBSET Ids]
  /\ verdict \in [Runs -> Verdicts \cup {NoVerdict}]
  /\ counts \in [Runs -> [Sources -> [Outcomes -> Nat]]]
  /\ posts \in [Key -> Nat]
  /\ faults \in 0..MaxFaults

(* No fault, no repeat: a beacon posts a signal again only after a failure, *)
(* a crash or a purge made it lose the record of the first post. Dedupe is  *)
(* what stands between the poll loop and a flooded channel.                 *)
NoDuplicatePost == \A k \in Key : posts[k] <= 1

(* Every answer of the classifier puts the signal over the beacon's bar.    *)
AlwaysHot(b, s) == \A v \in VerdictsOf[b][s] : PostsNow(b, v)

MustPost(b, s) == /\ AlwaysHot(b, s)
                  /\ SourceOf[s] \in Prefiltered \/ Match(b, s)

(* Marked seen is never "lost": a signal the classifier would post, and     *)
(* that the keyword gate cannot stop, is in the dedupe set of a beacon only *)
(* if that beacon posted it. Another beacon's handling, a failed delivery,  *)
(* a failed classification or a crash before the post leave it novel.       *)
HotSeenImpliesPosted ==
  \A b \in Beacons, s \in Ids :
    MustPost(b, s) /\ KeyOf(b, s) \in live.seen \cup durable.seen
      => posts[KeyOf(b, s)] >= 1

(* Why these two hold when one process uses the store. A run calls only     *)
(* about signals that are still novel; a post that stands is remembered by  *)
(* the dedupe set, or by the run that is about to record it; the disk is    *)
(* never ahead of what the runs see; and a signal that must be posted never *)
(* gets to the call that marks it without a post.                           *)
Calls == {"mark", "classify", "deliver", "record"}

StillNovel == \A r \in Runs : pc[r] \in Calls => CurrentKey(r) \notin live.seen

DurableBehind == durable.seen \subseteq live.seen

PostsRemembered == \A k \in Key : posts[k] # 0 =>
  /\ posts[k] = 1
  /\ \/ k \in live.seen
     \/ \E r \in Runs : pc[r] = "record" /\ CurrentKey(r) = k

PostBeforeRecord == \A r \in Runs :
  pc[r] \in Calls /\ MustPost(r[2], Current(r).sig) =>
    /\ pc[r] # "mark"
    /\ pc[r] = "record" => posts[CurrentKey(r)] >= 1

SeenAfterPost == \A b \in Beacons, s \in Ids :
  MustPost(b, s) /\ KeyOf(b, s) \in live.seen => posts[KeyOf(b, s)] >= 1

DedupeInv == StillNovel /\ DurableBehind /\ PostsRemembered
               /\ PostBeforeRecord /\ SeenAfterPost

(* A beacon may post a signal: it gets past the keyword gate, by its source *)
(* or the mark if need be, and some answer puts it over the bar.            *)
MayPost(b, s) == /\ \E v \in VerdictsOf[b][s] : PostsNow(b, v)
                 /\ \/ SourceOf[s] \in Prefiltered
                    \/ s \in Tagged[b]
                    \/ Match(b, s)

(* What a run works on it got from a platform, a mark comes from a tag feed *)
(* of its beacon, and no call skips a stage: a delivery is about a signal   *)
(* that got past the gate with the verdict that puts it over the bar. So    *)
(* nothing a beacon has no business posting reaches its channel.            *)
FromPlatform(r) == \A n \in 1 .. Len(todo[r]) :
  /\ todo[r][n].sig \in listing
  /\ todo[r][n].pre => todo[r][n].sig \in Tagged[r[2]]

Justified(r) ==
  /\ pc[r] \in {"classify", "deliver"} => Passes(r[2], Current(r))
  /\ pc[r] = "deliver" => /\ verdict[r] \in VerdictsOf[r[2]][Current(r).sig]
                          /\ PostsNow(r[2], verdict[r])

WorkJustified == \A r \in Runs : FromPlatform(r) /\ Justified(r)

(* One process, whatever its polls, its store and the purge do, gives every *)
(* channel what Alerting promises, failure by failure.                      *)
Alert == INSTANCE Alerting WITH
  Stories <- Ids,
  Alerts <- Key,
  Story <- [k \in Key |-> k[3]],
  Deserving <- {k \in Key : MayPost(k[1], k[3])},
  Hot <- {k \in Key : MustPost(k[1], k[3])},
  listed <- listing,
  settled <- live.seen,
  kept <- durable.seen

IsAnAlerter == Alert!Spec

(* The funnel of a poll accounts for every fetched signal: it is pending,   *)
(* or counted where it died, and what the stages do not count, errors do.   *)
(* What was classified is in its turn dropped, posted, kept or an error.    *)
Pending(r, src) ==
  Cardinality({n \in 1..Len(todo[r]) : SourceOf[todo[r][n].sig] = src})

AtCall(r, src, labels) ==
  IF pc[r] \in labels /\ CurrentSource(r) = src THEN 1 ELSE 0

FunnelBalanced == \A r \in Runs, src \in Sources :
  LET c == counts[r][src]
      settled == c.stale + c.seen + c.filtered + c.classified
      reached == c.fetched - Pending(r, src)
                   + AtCall(r, src, {"mark", "classify", "deliver", "record"})
      judged == c.dropped + c.delivered + c.digest
                  + AtCall(r, src, {"classify", "deliver"})
  IN /\ settled <= reached /\ reached <= settled + c.errors
     /\ judged <= c.classified /\ c.classified <= judged + c.errors

(* A signal is not left behind. While it is on a page some poll of the      *)
(* beacon asks for, it gets settled, posted if it deserves it               *)
(* (HotSeenImpliesPosted), or outlives the beacon's max_age, however the    *)
(* failures fall; and once they have stopped, a signal that a poll brought  *)
(* is settled whether or not it is still on its page. A signal whose calls  *)
(* failed and that left its page since is lost to the beacon.               *)
Polled(b, s) == \E n \in 1..Len(Fetchers[b]) : Fetchers[b][n] = SourceOf[s]

InHand(b, s) == \E i \in Instances : \E n \in 1..Len(todo[<<i, b>>]) :
                  todo[<<i, b>>][n].sig = s

Settled(b, s) == KeyOf(b, s) \in live.seen \/ (b \in Gated /\ s \in old)

SignalsSettle == \A b \in Beacons, s \in Ids :
  /\ (s \in page /\ Polled(b, s)) ~> (Settled(b, s) \/ s \notin page)
  /\ (InHand(b, s) /\ faults = MaxFaults) ~> Settled(b, s)

-----------------------------------------------------------------------------
(* What a comment of the repository says, and the code does not do.         *)

(* "Pre-narrowing is sticky: being in ANY configured tag feed means the     *)
(* operator declared this story on topic": the keyword gate never stops it. *)
TagStoryNeverGated ==
  \A b \in Beacons, s \in Ids :
    /\ AlwaysHot(b, s)
    /\ s \in Tagged[b]
    /\ KeyOf(b, s) \in live.seen
    => posts[KeyOf(b, s)] >= 1
=============================================================================
