------------------------------- MODULE Discord -------------------------------
(* The Discord sink (internal/delivery/discord.go) under the polls of one   *)
(* beacon (main.go: loopBeacon, runBeacon), against a clock.                *)
(*                                                                          *)
(* Deliver waits until Spacing has passed since the last post of this sink, *)
(* takes down the time and sends the request. A sink knows its own posts    *)
(* only, and every poll builds a new one; the ticker's channel holds one    *)
(* tick, so that a poll can follow the one before it at once. Another       *)
(* beacon on the same webhook shares neither a sink nor a ticker with it.   *)
(* Times are ages, which stop at Forever.                                   *)
EXTENDS Integers

CONSTANTS
  Spacing,    \* minSpacing
  Interval    \* the beacon's interval, 0 when it has none

ASSUME DiscordAssumption == Spacing \in Nat /\ Interval \in Nat

VARIABLES
  loop,       \* container loop mode, or one-shot
  stage,      \* "new", "poll" (fetching, judging, recording), "pace" (the sink
              \* waits), "send" (a request is under way), "idle" (between two
              \* polls), "over"
  timer,      \* until the ticker's next tick, 0: no ticker
  due,        \* whether the ticker's channel holds a tick
  elapsed,    \* time.Since(lastPost) of the poll's sink, Forever: no post yet
  wait,       \* what is left of the sink's wait
  cancelled,  \* SIGTERM or SIGINT has cancelled the context
  ago,        \* how long ago the last three posts began (history)
  polls,      \* how many polls began after each of them (history)
  begun       \* how long ago the last two polls began (history)

history == <<ago, polls, begun>>
vars == <<loop, stage, timer, due, elapsed, wait, cancelled, history>>

-----------------------------------------------------------------------------
Forever == IF Interval < Spacing THEN Spacing ELSE Interval

Older(age) == IF age < Forever THEN age + 1 ELSE Forever
Sooner(rest) == IF rest > 0 THEN rest - 1 ELSE 0

(* History keeps three posts, and counts polls up to Many.                  *)
Many == 3
Counted(n) == IF n < Many THEN n + 1 ELSE Many
WithNew(h) == [i \in 1..3 |-> IF i = 1 THEN 0 ELSE h[i - 1]]

(* Polls of the loop run under a context of their own; only the polls of a  *)
(* one-shot run are cancelled.                                              *)
PollCancelled == cancelled /\ ~loop

(* Mutant: the remainder is taken whether or not it is one.                 *)
RemainderUnchecked == Spacing - elapsed

(* pace: what is missing to the spacing.                                    *)
Remainder == IF elapsed < Spacing THEN Spacing - elapsed ELSE 0

Init ==
  /\ loop \in BOOLEAN
  /\ stage = "new"
  /\ timer = 0 /\ due = FALSE
  /\ elapsed = Forever /\ wait = 0
  /\ cancelled = FALSE
  /\ ago = [i \in 1..3 |-> Forever]
  /\ polls = [i \in 1..3 |-> Many]
  /\ begun = [i \in 1..2 |-> Forever]

(* runBeacon: a poll with a sink of its own.                                *)
runBeacon ==
  /\ stage' = "poll"
  /\ elapsed' = Forever
  /\ polls' = [i \in 1..3 |-> Counted(polls[i])]
  /\ begun' = [i \in 1..2 |-> IF i = 1 THEN 0 ELSE begun[1]]
  /\ UNCHANGED <<loop, timer, wait, cancelled, ago>>

(* The first poll: the loop looks at its context before it, one-shot does   *)
(* not.                                                                     *)
FirstPoll ==
  /\ stage = "new" /\ ~(loop /\ cancelled)
  /\ runBeacon
  /\ UNCHANGED due

(* Mutant: the tick is looked at and left in the channel.                   *)
NextPollTickKept ==
  /\ stage = "idle" /\ due
  /\ runBeacon
  /\ UNCHANGED due

(* A tick is received: the next poll, even under a cancelled context, as    *)
(* select takes either when both are ready.                                 *)
NextPoll ==
  /\ stage = "idle" /\ due
  /\ runBeacon
  /\ due' = FALSE

(* The end of a poll. The first one in loop mode creates the ticker; a poll *)
(* without an interval, and a one-shot one, is the only one.                *)
EndPoll ==
  /\ stage = "poll"
  /\ IF loop /\ Interval > 0
     THEN /\ stage' = "idle"
          /\ timer' = IF timer = 0 THEN Interval ELSE timer
     ELSE stage' = "over" /\ UNCHANGED timer
  /\ UNCHANGED <<loop, due, elapsed, wait, cancelled, history>>

(* loopBeacon returns and stops its ticker.                                 *)
Stop ==
  /\ stage \in {"new", "idle"} /\ loop /\ cancelled
  /\ stage' = "over"
  /\ timer' = 0 /\ due' = FALSE
  /\ UNCHANGED <<loop, elapsed, wait, cancelled, history>>

(* Mutant: the time is not taken down.                                      *)
PostUnrecorded ==
  /\ wait' = 0
  /\ IF PollCancelled
     THEN stage' = "poll" /\ UNCHANGED <<ago, polls>>
     ELSE stage' = "send" /\ ago' = WithNew(ago) /\ polls' = WithNew(polls)
  /\ UNCHANGED <<loop, timer, due, elapsed, cancelled, begun>>

(* The end of pace takes down the time, whatever becomes of the request;    *)
(* under a cancelled context none goes out.                                 *)
Post ==
  /\ elapsed' = 0 /\ wait' = 0
  /\ IF PollCancelled
     THEN stage' = "poll" /\ UNCHANGED <<ago, polls>>
     ELSE stage' = "send" /\ ago' = WithNew(ago) /\ polls' = WithNew(polls)
  /\ UNCHANGED <<loop, timer, due, cancelled, begun>>

(* Deliver with nothing to wait for ...                                     *)
DeliverAtOnce == stage = "poll" /\ Remainder = 0 /\ Post

(* ... or with a wait, ...                                                  *)
DeliverLater ==
  /\ stage = "poll" /\ Remainder # 0
  /\ wait' = Remainder
  /\ stage' = "pace"
  /\ UNCHANGED <<loop, timer, due, elapsed, cancelled, history>>

(* ... which its timer ends, or the poll's context: then without a post.    *)
Waited == stage = "pace" /\ wait = 0 /\ Post

WaitCancelled ==
  /\ stage = "pace" /\ PollCancelled
  /\ stage' = "poll" /\ wait' = 0
  /\ UNCHANGED <<loop, timer, due, elapsed, cancelled, history>>

(* The webhook answers, with success or not, or the request times out.      *)
Answered ==
  /\ stage = "send"
  /\ stage' = "poll"
  /\ UNCHANGED <<loop, timer, due, elapsed, wait, cancelled, history>>

Cancel ==
  /\ ~cancelled
  /\ cancelled' = TRUE
  /\ UNCHANGED <<loop, stage, timer, due, elapsed, wait, history>>

(* Time passes; a tick that finds the channel full is dropped.              *)
Tick ==
  /\ timer' = IF timer = 1 THEN Interval ELSE Sooner(timer)
  /\ due' = (due \/ timer = 1)
  /\ elapsed' = Older(elapsed)
  /\ wait' = Sooner(wait)
  /\ ago' = [i \in 1..3 |-> Older(ago[i])]
  /\ begun' = [i \in 1..2 |-> Older(begun[i])]
  /\ UNCHANGED <<loop, stage, cancelled, polls>>

Next ==
  \/ FirstPoll \/ NextPoll \/ EndPoll \/ Stop
  \/ DeliverAtOnce \/ DeliverLater \/ Waited \/ WaitCancelled \/ Answered
  \/ Cancel \/ Tick

Spec == Init /\ [][Next]_vars

-----------------------------------------------------------------------------
TypeOK ==
  /\ loop \in BOOLEAN /\ due \in BOOLEAN /\ cancelled \in BOOLEAN
  /\ stage \in {"new", "poll", "pace", "send", "idle", "over"}
  /\ timer \in 0 .. Interval
  /\ elapsed \in 0 .. Forever
  /\ wait \in 0 .. Spacing
  /\ ago \in [1..3 -> 0 .. Forever]
  /\ polls \in [1..3 -> 0 .. Many]
  /\ begun \in [1..2 -> 0 .. Forever]

(* The shorter of the spacing and the interval.                             *)
Lull == IF 0 < Interval /\ Interval < Spacing THEN Interval ELSE Spacing

Sends == stage # "send" /\ stage' = "send"

(* What a new sink for every poll leaves of the spacing: two posts of one   *)
(* poll are Spacing apart, and of four posts in a row, whatever polls they  *)
(* come from, the last is a Lull after the first. A burst has three posts:  *)
(* the end of a long poll, the poll whose tick was waiting, and the poll of *)
(* the next tick, each with a new sink.                                     *)
BurstBounded ==
  [][Sends => ago[3] >= Lull /\ (polls[1] = 0 => ago[1] >= Spacing)]_vars

(* The sink's wait is never too short, and its last post is the beacon's    *)
(* last one unless the sink is new.                                         *)
SinkInv ==
  /\ stage = "pace" => elapsed + wait >= Spacing
  /\ polls[1] = 0 => elapsed <= ago[1]
  /\ stage = "new" => \A i \in 1..3 : ago[i] = Forever

(* Two ticks that start polls, other than one that waited, are an Interval  *)
(* apart, so the poll before the last began that long before a waiting or a *)
(* coming tick.                                                             *)
RhythmInv ==
  /\ stage = "new" => timer = 0 /\ ~due
  /\ begun[1] <= begun[2]
  /\ due => timer > 0 /\ timer + begun[1] >= Interval /\ begun[2] >= Interval
  /\ timer > 0 => timer + begun[2] >= Interval

(* Posts of one poll are apart; a post that two polls began after is older  *)
(* than the first of them, and one that three began after is a Lull old.    *)
PostsInv ==
  /\ ago[1] <= ago[2] /\ ago[2] <= ago[3]
  /\ \A i \in 2..3 : polls[i - 1] < polls[i] \/ ago[i] >= Lull
  /\ \A i \in 1..3 :
       /\ polls[i] >= 1 => ago[i] >= begun[1]
       /\ polls[i] >= 2 => ago[i] >= begun[2]
       /\ polls[i] >= 3 => ago[i] >= Lull

PaceInv == SinkInv /\ RhythmInv /\ PostsInv
=============================================================================
