-------------------------------- MODULE Loop --------------------------------
(* Container loop mode (cmd/sos-beacon/main.go: run, runLoop, loopBeacon)   *)
(* and the health monitor (internal/health/health.go) against a clock: one  *)
(* goroutine per beacon, staggered, with a ticker each; one heartbeat for   *)
(* all; a shutdown that cancels the context, waits for the goroutines and   *)
(* closes the store.                                                        *)
(*                                                                          *)
(* Time is in whole units. Only Tick and polls take time: a goroutine that  *)
(* can go on does so before the clock does.                                 *)
EXTENDS Integers, FiniteSets

CONSTANTS
  Count,           \* how many beacons are configured; a beacon is its index
  GlobalInterval,  \* the -interval flag, 0 when it is not given
  PollInterval,    \* each beacon's poll_interval, Blank, or Bad
  Blank,           \* no poll_interval
  Bad,             \* a poll_interval that does not parse
  MaxAge,          \* each beacon's max_age, 0 when it has none
  PollTime,        \* the longest a poll takes
  Hanging          \* beacons one of whose polls may never end

Beacons == 1..Count

ASSUME LoopAssumption ==
  /\ Count \in Nat \ {0}
  /\ GlobalInterval \in Int
  /\ Blank \notin Int /\ Bad \notin Int /\ Blank # Bad
  /\ PollInterval \in [Beacons -> Int \cup {Blank, Bad}]
  /\ MaxAge \in [Beacons -> Nat]
  /\ PollTime \in Nat
  /\ Hanging \subseteq Beacons

(* loopMode: some interval is configured; otherwise the run is one-shot.    *)
loopMode == GlobalInterval > 0 \/ \E b \in Beacons : PollInterval[b] # Blank

ASSUME LoopModeAssumption == loopMode

Resolves(b) == PollInterval[b] # Bad

resolveInterval(b) ==
  IF PollInterval[b] = Blank THEN GlobalInterval ELSE PollInterval[b]

Intervals == {resolveInterval(b) : b \in {c \in Beacons : Resolves(c)}}

(* The longest interval, or a minute when none is positive.                 *)
Minute == 1
maxPollInterval ==
  LET all == {GlobalInterval} \cup Intervals
      longest == CHOOSE d \in all : \A e \in all : e <= d
  IN IF longest > 0 THEN longest ELSE Minute

(* Mutant: one interval.                                                    *)
staleAfterOne == maxPollInterval

staleAfter == 2 * maxPollInterval

(* Mutant: not divided by the number of beacons.                            *)
staggerOfIntervals(b) ==
  IF Count <= 1 \/ resolveInterval(b) <= 0 THEN 0
  ELSE resolveInterval(b) * (b - 1)

(* A beacon starts at its share of its interval.                            *)
staggerOffset(b) ==
  IF Count <= 1 \/ resolveInterval(b) <= 0 THEN 0
  ELSE (resolveInterval(b) * (b - 1)) \div Count

VARIABLES
  main,       \* "spawning", "waiting" for the goroutines, "done": store closed
  spawned,    \* beacons the spawning loop has passed
  wg,         \* the wait group's counter
  stage,      \* where each beacon's goroutine is
  timer,      \* units until its stagger ends or its ticker fires, 0: no timer
  tick,       \* whether its ticker's channel, which has one slot, is full
  busy,       \* how long its poll has been running
  unlisted,   \* age of the oldest signal its source has not been asked for
  oldest,     \* age of the oldest signal its poll brought, frozen when the
              \* poll takes the time
  cancelled,  \* SIGTERM or SIGINT has cancelled the context
  ready,      \* Monitor.ready
  beat        \* time since Monitor.lastBeat

vars == <<main, spawned, wg, stage, timer, tick, busy, unlisted, oldest,
          cancelled, ready, beat>>

-----------------------------------------------------------------------------
Init ==
  /\ main = "spawning" /\ spawned = 0 /\ wg = 0
  /\ stage = [b \in Beacons |-> "none"]
  /\ timer = [b \in Beacons |-> 0]
  /\ tick = [b \in Beacons |-> FALSE]
  /\ busy = [b \in Beacons |-> 0]
  /\ unlisted = [b \in Beacons |-> 0]
  /\ oldest = [b \in Beacons |-> 0]
  /\ cancelled = FALSE /\ ready = FALSE /\ beat = 0

(* Mutant: the beacon is added to the wait group before its interval is     *)
(* looked at.                                                               *)
SpawnCountsAll ==
  /\ main = "spawning" /\ spawned < Count
  /\ LET b == spawned + 1
     IN IF Resolves(b)
        THEN /\ wg' = wg + 1
             /\ stage' = [stage EXCEPT ![b] = "stagger"]
             /\ timer' = [timer EXCEPT ![b] = staggerOffset(b)]
        ELSE wg' = wg + 1 /\ UNCHANGED <<stage, timer>>
  /\ spawned' = spawned + 1
  /\ UNCHANGED <<main, tick, busy, unlisted, oldest, cancelled, ready, beat>>

(* Mutant: nothing is added to the wait group.                              *)
SpawnUncounted ==
  /\ main = "spawning" /\ spawned < Count
  /\ LET b == spawned + 1
     IN IF Resolves(b)
        THEN /\ stage' = [stage EXCEPT ![b] = "stagger"]
             /\ timer' = [timer EXCEPT ![b] = staggerOffset(b)]
        ELSE UNCHANGED <<stage, timer>>
  /\ spawned' = spawned + 1
  /\ UNCHANGED <<main, wg, tick, busy, unlisted, oldest, cancelled, ready, beat>>

(* One turn of runLoop's loop: a beacon whose interval does not parse is    *)
(* skipped, any other gets a goroutine.                                     *)
Spawn ==
  /\ main = "spawning" /\ spawned < Count
  /\ LET b == spawned + 1
     IN IF Resolves(b)
        THEN /\ wg' = wg + 1
             /\ stage' = [stage EXCEPT ![b] = "stagger"]
             /\ timer' = [timer EXCEPT ![b] = staggerOffset(b)]
        ELSE UNCHANGED <<wg, stage, timer>>
  /\ spawned' = spawned + 1
  /\ UNCHANGED <<main, tick, busy, unlisted, oldest, cancelled, ready, beat>>

Ready ==
  /\ main = "spawning" /\ spawned = Count
  /\ ready' = TRUE
  /\ main' = "waiting"
  /\ UNCHANGED <<spawned, wg, stage, timer, tick, busy, unlisted, oldest,
                 cancelled, beat>>

(* Mutant: the loop returns on the signal, its polls still under way.       *)
CloseOnCancel ==
  /\ main = "waiting" /\ cancelled
  /\ main' = "done"
  /\ UNCHANGED <<spawned, wg, stage, timer, tick, busy, unlisted, oldest,
                 cancelled, ready, beat>>

(* wg.Wait returns, and run's deferred Close closes the store.              *)
Close ==
  /\ main = "waiting" /\ wg = 0
  /\ main' = "done"
  /\ UNCHANGED <<spawned, wg, stage, timer, tick, busy, unlisted, oldest,
                 cancelled, ready, beat>>

Cancel ==
  /\ ~cancelled
  /\ cancelled' = TRUE
  /\ UNCHANGED <<main, spawned, wg, stage, timer, tick, busy, unlisted, oldest,
                 ready, beat>>

-----------------------------------------------------------------------------
InPoll(b) == stage[b] \in {"fetch", "answered", "handle"}

BeginPoll(b) ==
  /\ stage' = [stage EXCEPT ![b] = "fetch"]
  /\ busy' = [busy EXCEPT ![b] = 0]

(* loopBeacon. The stagger is over: look at the context once more, poll.    *)
FirstPoll(b) ==
  /\ stage[b] = "stagger" /\ timer[b] = 0
  /\ ~cancelled
  /\ BeginPoll(b)
  /\ UNCHANGED <<main, spawned, wg, timer, tick, unlisted, oldest, cancelled,
                 ready, beat>>

(* The source answers with everything that has appeared so far ...          *)
Answer(b) ==
  /\ stage[b] = "fetch"
  /\ stage' = [stage EXCEPT ![b] = "answered"]
  /\ oldest' = [oldest EXCEPT ![b] = unlisted[b]]
  /\ unlisted' = [unlisted EXCEPT ![b] = 0]
  /\ UNCHANGED <<main, spawned, wg, timer, tick, busy, cancelled, ready, beat>>

(* ... and once all sources have, the engine takes the time that decides    *)
(* which signals are too old.                                               *)
Now(b) ==
  /\ stage[b] = "answered"
  /\ stage' = [stage EXCEPT ![b] = "handle"]
  /\ UNCHANGED <<main, spawned, wg, timer, tick, busy, unlisted, oldest,
                 cancelled, ready, beat>>

(* The poll is over: beat. After the first one start the ticker, or stop if *)
(* the beacon has no interval.                                              *)
Finish(b) ==
  /\ stage[b] = "handle"
  /\ beat' = 0
  /\ oldest' = [oldest EXCEPT ![b] = 0]
  /\ busy' = [busy EXCEPT ![b] = 0]
  /\ IF resolveInterval(b) <= 0
     THEN /\ stage' = [stage EXCEPT ![b] = "stopped"]
          /\ wg' = wg - 1
          /\ UNCHANGED timer
     ELSE /\ stage' = [stage EXCEPT ![b] = "select"]
          /\ timer' = [timer EXCEPT ![b] = IF @ = 0 THEN resolveInterval(b)
                                                    ELSE @]
          /\ UNCHANGED wg
  /\ UNCHANGED <<main, spawned, tick, unlisted, cancelled, ready>>

(* Mutant: one poll at a time.                                              *)
NextPollAlone(b) ==
  /\ stage[b] = "select" /\ tick[b]
  /\ \A c \in Beacons : ~InPoll(c)
  /\ tick' = [tick EXCEPT ![b] = FALSE]
  /\ BeginPoll(b)
  /\ UNCHANGED <<main, spawned, wg, timer, unlisted, oldest, cancelled, ready,
                 beat>>

(* select takes the tick, also when the context is cancelled by now: with   *)
(* both ready it chooses at random.                                         *)
NextPoll(b) ==
  /\ stage[b] = "select" /\ tick[b]
  /\ tick' = [tick EXCEPT ![b] = FALSE]
  /\ BeginPoll(b)
  /\ UNCHANGED <<main, spawned, wg, timer, unlisted, oldest, cancelled, ready,
                 beat>>

(* The goroutine sees the cancelled context, in the stagger, before the     *)
(* first poll or between two polls; its ticker stops.                       *)
Stop(b) ==
  /\ stage[b] \in {"stagger", "select"}
  /\ cancelled
  /\ stage' = [stage EXCEPT ![b] = "stopped"]
  /\ timer' = [timer EXCEPT ![b] = 0]
  /\ tick' = [tick EXCEPT ![b] = FALSE]
  /\ wg' = wg - 1
  /\ UNCHANGED <<main, spawned, busy, unlisted, oldest, cancelled, ready, beat>>

-----------------------------------------------------------------------------
(* The goroutine waits for time to pass.                                    *)
Waits(b) ==
  \/ stage[b] \in {"none", "stopped"}
  \/ stage[b] = "stagger" /\ timer[b] > 0 /\ ~cancelled
  \/ stage[b] = "select" /\ ~tick[b] /\ ~cancelled
  \/ InPoll(b) /\ (busy[b] < PollTime \/ b \in Hanging)

Fires(b) == timer[b] = 1 /\ stage[b] # "stagger"

(* A ticker that fires starts over; a stagger ends.                         *)
Rearm(b) == IF Fires(b) THEN resolveInterval(b)
            ELSE IF timer[b] = 0 THEN 0 ELSE timer[b] - 1

(* One unit later, up to a bound at which nothing distinguishes two values. *)
Older(x, bound) == IF x < bound THEN x + 1 ELSE x

Tick ==
  /\ main = "waiting" /\ wg > 0
  /\ \A b \in Beacons : Waits(b)
  /\ timer' = [b \in Beacons |-> Rearm(b)]
  /\ tick' = [b \in Beacons |-> tick[b] \/ Fires(b)]
  /\ busy' = [b \in Beacons |->
               IF InPoll(b) THEN Older(busy[b], PollTime + staleAfter)
                            ELSE busy[b]]
  /\ unlisted' = [b \in Beacons |-> Older(unlisted[b], MaxAge[b] + 1)]
  /\ oldest' = [b \in Beacons |->
                 IF stage[b] = "answered" THEN Older(oldest[b], MaxAge[b] + 1)
                                          ELSE oldest[b]]
  /\ beat' = Older(beat, staleAfter)
  /\ UNCHANGED <<main, spawned, wg, stage, cancelled, ready>>

(* The process has ended.                                                   *)
Ended == main = "done" /\ UNCHANGED vars

StartPoll(b) == FirstPoll(b) \/ NextPoll(b)
GoOn(b) == Answer(b) \/ Now(b) \/ Finish(b)

Next == \/ Spawn \/ Ready \/ Cancel \/ Close \/ Tick \/ Ended
        \/ \E b \in Beacons : StartPoll(b) \/ GoOn(b) \/ Stop(b)

Spec == Init /\ [][Next]_vars

(* The scheduler runs every goroutine and the clock goes on; a poll of a    *)
(* beacon that does not hang ends; and a select with the context cancelled  *)
(* does not choose its tick for ever.                                       *)
FairSpec ==
  /\ Spec
  /\ WF_vars(Spawn \/ Ready \/ Close)
  /\ WF_vars(Tick)
  /\ \A b \in Beacons : WF_vars(StartPoll(b)) /\ SF_vars(Stop(b))
  /\ \A b \in Beacons \ Hanging : WF_vars(GoOn(b))

-----------------------------------------------------------------------------
TypeOK ==
  /\ main \in {"spawning", "waiting", "done"}
  /\ spawned \in 0..Count
  /\ wg \in 0..Count
  /\ stage \in [Beacons -> {"none", "stagger", "fetch", "answered", "handle",
                            "select", "stopped"}]
  /\ timer \in [Beacons -> Nat]
  /\ tick \in [Beacons -> BOOLEAN]
  /\ busy \in [Beacons -> Nat]
  /\ unlisted \in [Beacons -> Nat] /\ oldest \in [Beacons -> Nat]
  /\ cancelled \in BOOLEAN /\ ready \in BOOLEAN
  /\ beat \in Nat

(* Nothing uses the store after Close: run returns, and its deferred Close  *)
(* runs, only when no goroutine can start or continue a poll.               *)
Active == {b \in Beacons : stage[b] \notin {"none", "stopped"}}

StoreOpenDuringPolls == main = "done" => Active = {}

(* Why: the wait group counts the goroutines, none is started after the     *)
(* wait began, and only a beacon with an interval has a ticker.             *)
LoopInv ==
  /\ wg = Cardinality(Active)
  /\ main # "spawning" => spawned = Count
  /\ \A b \in Beacons : b > spawned => stage[b] = "none"
  /\ \A b \in Beacons : stage[b] # "none" => Resolves(b)
  /\ \A b \in Beacons : timer[b] > 0 => Resolves(b) /\ resolveInterval(b) > 0
  /\ StoreOpenDuringPolls

(* healthz: 200 once ready, while the last beat is younger than staleAfter. *)
Healthy == ready /\ beat < staleAfter

(* Kubernetes does not restart a working process: while the polls of some   *)
(* beacon take less than its interval, /healthz stays green, from the end   *)
(* of the startup on.                                                       *)
Punctual(b) ==
  /\ Resolves(b) /\ resolveInterval(b) > 0 /\ b \notin Hanging
  /\ PollTime < resolveInterval(b)

HealthyWhenPunctual ==
  (ready /\ ~cancelled /\ \E b \in Beacons : Punctual(b)) => Healthy

(* No signal ages out unjudged: with an interval that fits into max_age     *)
(* together with two polls, the oldest signal a poll brings is fresh when   *)
(* the engine takes the time. Two, because the ticker starts when the first *)
(* poll has ended. (Sources answer here; the failing ones are in Engine.)   *)
Fits(b) == /\ resolveInterval(b) > 0 /\ b \notin Hanging
           /\ PollTime <= resolveInterval(b)
           /\ resolveInterval(b) + 2 * PollTime <= MaxAge[b]

JudgedInTime(b) == stage[b] = "handle" => oldest[b] <= MaxAge[b]

NothingAgesOut ==
  \A b \in Beacons : Resolves(b) /\ Fits(b) => JudgedInTime(b)

(* A cancelled context ends the process, polls drained: only a poll that    *)
(* never ends can hold it.                                                  *)
ShutdownEnds == cancelled ~>
  \/ main = "done"
  \/ /\ main = "waiting"
     /\ \A b \in Beacons \ Hanging : stage[b] \in {"none", "stopped"}
     /\ \E b \in Hanging : InPoll(b)

(* Until then every beacon with an interval polls again and again, also     *)
(* when another one hangs.                                                  *)
Recurring == {b \in Beacons \ Hanging : Resolves(b) /\ resolveInterval(b) > 0}

KeepsPolling == \A b \in Recurring : ready ~> (stage[b] = "fetch" \/ cancelled)

-----------------------------------------------------------------------------
(* What a comment of the repository says, and the code does not do.         *)

(* "a hung poll must be restarted": /healthz tells the orchestrator of a    *)
(* poll that has been running for longer than the staleness window.         *)
HungPollReported ==
  \A b \in Beacons : busy[b] >= staleAfter + PollTime => ~Healthy
=============================================================================
