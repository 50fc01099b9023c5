# sos-beacon: specification and proofs

This directory holds TLA+ models of sos-beacon, the configurations that check
them with TLC, and theorems about them checked by TLAPS. The models are written
from the Go code under `src/`; `PROJECT.json` maps every definition to the lines
it stands for.

sos-beacon watches platforms (Hacker News, Lobsters, Reddit) for posts that
match a topic, asks a language model how well each one fits, and posts a pointer
to the good ones on Discord. It runs once, or as a container that polls for
ever. What can go wrong is nearly always one of three things: a signal is posted
twice, a signal is lost silently, or data that had to be deleted comes back.

## 1. Inventory

| Component | Code | State | Operations |
|---|---|---|---|
| Engine | `internal/engine/engine.go` | per poll: fetched signals, tallies | `RunBeacon` |
| Persistence port | `internal/core/core.go` | dedupe rows, findings, claims | `Seen` `MarkSeen` `Record` `PendingDigest` `Claim` `PurgeSource` `Close` |
| File store | `internal/store/file.go` | a memory per process, a JSON file, a temporary file | the port's, `OpenFile`, `saveLocked` |
| Azure SQL store | `internal/store/azuresql.go`, `schema.sql` | three tables | the port's, as statements and transactions |
| Main loop | `cmd/sos-beacon/main.go` | a goroutine and a ticker per beacon, a cancel context, a wait group | `run` `runLoop` `loopBeacon` `runBeacon` `purge` |
| Health | `internal/health/health.go` | `ready`, `lastBeat` | `Ready` `Beat` `healthz` `readyz` |
| Sources | `internal/sources/*.go` | Reddit: a token and its expiry | `Fetch` |
| Filter | `internal/filter/filter.go` | none | `Match` |
| Classifier | `internal/ai/openaicompat.go` | none | `Classify` |
| Delivery | `internal/delivery/discord.go` | time of the last post | `Deliver`, `pace` |
| Config | `internal/config/config.go` | none after start | `Load` |
| Telemetry | `internal/telemetry/telemetry.go` | the exporter | spans |

How they interact. Every beacon has a goroutine (`loopBeacon`) that calls
`runBeacon` at once after its stagger and then on each tick. `runBeacon` builds
fresh sources and a fresh sink and calls `engine.RunBeacon`, which calls the
sources one after another, then takes each signal alone through freshness,
`Seen`, the keyword gate, `Classify`, the thresholds, `Deliver`, and `Record` or
`MarkSeen`. All beacons of a process share one store and one classifier. With
the file store the processes share nothing but the file; with Azure SQL they
share the tables. `sos-beacon -purge-source` is a process of its own that opens
the same store.

What is hard, and what makes each component correct:

* **Engine.** Goroutines interleave at every call; each call can fail, and a
  failed call may have taken effect; the process can die between a post and its
  record; the pages it reads are short, so a signal that failed may be gone at
  the next poll. Correct when a beacon does not repeat a post unless a fault
  explains it, when nothing that deserves a post is marked seen without one, when
  every signal that stays on its page is settled in the end, and when the
  per-source funnel accounts for every signal.
* **File store.** Each mutation changes the memory first and saves after, so a
  failed save leaves them apart; a crash can fall between the temporary file and
  the rename; the purge is another process. Correct when what was acknowledged
  stays on the disk, when what was purged stays gone, and when users see one
  store (the port).
* **Azure SQL store.** Every instance and the purge have sessions of their own
  on the same tables. `MarkSeen`, `Record` and `Claim` are statements that look
  and then write; the purge is two DELETEs at READ COMMITTED beside records in
  transactions of two; a commit can succeed and its answer be lost. Correct when
  what was acknowledged stays, what was purged stays gone, and no two
  transactions wait for each other.
* **Main loop and health.** Cancellation races the ticker; the store is closed
  by a defer after `wg.Wait`; all beacons beat one heartbeat whose window is
  twice the longest interval.
* **Sources.** A `Fetch` is several requests while the platform goes on
  publishing: pages overlap, stories move, some requests fail, Reddit's token
  expires or is rejected on the way. Correct when the answer is the union of the
  pages that came, each story once and with its mark, when no error means that
  nothing is missing, and when a page that works is not hidden by one that does
  not.
* **Delivery.** The last post's time is kept per sink, and every poll builds a
  new sink; the ticker decides how soon one poll follows another; the context of
  a one-shot run may be cancelled before, in or after the wait. Correct when the
  posts of a poll are spaced and polls that follow at once add up to no more than
  a short burst.

## 2. Modules

```
StoreContents        what the store holds and what each operation makes of it
  |-- StorePort      the abstract store: live contents, durable contents
  |     |-- Engine           RunBeacon of every run, over the port
  |           |-- (INSTANCE Alerting: one process keeps the promise to its channels)
  |           |-- MCEngine   instances for TLC
  |           |-- EngineProofs
  |                 |-- EngineFunnelProofs
  |                 |-- EngineAlertProofs
  |-- FileStore      file.go under pollers and purgers
        |-- (INSTANCE StorePort: the file store implements the port)
        |-- MCFileStore      instances for TLC
        |-- FileStoreProofs
  |-- AzureStore     azuresql.go, statement by statement, under many sessions
        |-- (INSTANCE StorePort: the tables implement the port, apart from ...)
        |-- MCAzureStore     instances for TLC
        |-- AzureStoreProofs
Alerting             what a beacon promises its channel, failure by failure
Fetcher              hn.go, lobsters.go, reddit.go, request by request
  |-- MCFetcher      instances for TLC
  |-- FetcherProofs
Discord              discord.go: the pacing of posts, poll by poll, on a clock
  |-- MCDiscord      instances for TLC
  |-- DiscordProofs
Loop                 container loop, shutdown and health monitor, on a clock
  |-- MCLoop         instances for TLC
  |-- LoopProofs
```

**StoreContents.** A dedupe row is a key `<<beacon, source, id>>`; a finding is
a key and a verdict, the rest of its text left out; a claim maps a finding id to
a claimant. One operator per operation of the port. The two adapters differ in
`Record` (the file appends, SQL replaces), and `Recorded` allows both.

**StorePort.** The abstract specification of a store. `live` is what users read,
`durable` what a restart finds. An operation commits (both change), or, where
there is a memory in front of the disk (`Volatile`), changes `live` only and
reports an error; a later save writes all of `live`; when every process is gone
`live` falls back to `durable`.

**FileStore.** `mem[p]` is `File.data` of process `p`, `disk` the file, `temp[p]`
the temporary file, `stage[p]` where `p` is in its operation: `idle` (mutex
free), `changed` (memory changed, nothing written), `written` (temporary file
complete), `saved` (renamed, about to return). `MarkSeen`, `Record`, `Claim` and
`PurgeSource` are the operations' first halves, `WriteTemp` and `Rename` the two
halves of `saveLocked`, `SaveFails` any error return of it, `Return` the success
return, `Exit` the end of a process at any of these points, crash included. Keys
are built as the code builds them, by joining three names with colons: a key is
a sequence of segments and a beacon's name may be several of them, which is what
the purge sees when it splits the key again. `promised`, `gone` and `owed` are
history: what successful returns have said, and what the running operation will
have said.

A purge that runs next to a poller is not held answerable for rows the poller
writes anew after the purge read the file; it is for rows written before. That
is what `Collect` does to `gone` and to the other processes' `owed`.

**AzureStore.** `seen`, `findings` and `claims` are the committed tables; `at[s]`
is the SQL statement a session comes to, `held[s]` the rows its transaction has
changed. A step is one statement. Rows changed by a transaction stay locked
until it ends: other sessions neither see them nor can change them; rows it only
read are free at once, which is READ COMMITTED. A row is a table and a key. What
a session reads may be stale when its next statement runs, so the INSERT after
an `IF NOT EXISTS`, or after an UPDATE that found nothing, may meet the row: then
it fails on the primary key (`Rollback`). `Rollback` is also every other error,
the 15 seconds of `opTimeout` and the death of the process. A DELETE is one
step: it takes the rows committed at that moment and waits for locked ones among
those; real scans may wait for more, which `Needs` counts for the deadlock
property. `promised`, `gone`, `old` and `beside` are history: what calls
reported, what a running purge has to take, and whether an operation of the
other kind on the same source committed while this one ran. `CommitRecord` says
both rows are kept only if no purge of its source committed beside it: the
record may have found a dedupe row that the purge then took. That gap is finding
3, and the reason `IsAStoreApart` has an exception.

**Fetcher.** One adapter at a time makes the requests of `Requests` in order; an
empty keyword is passed over (`PassOver`). `listing` is what the platform has
published, newest last, and grows at any moment; a page is the newest `PageSize`
stories of those it lists (`PageAt`), so stories leave a page when others arrive.
`out` is the slice `Fetch` will return, as a set of records: the id, the mark and
the request that brought it first (`at`); the order of the signals of one page is
left out. `failed` is its error. `StartFetch(TRUE)` is the program's poll, which builds new
fetchers; `StartFetch(FALSE)` reuses one, as the adapters are written for (a
cached token makes no sense otherwise). `cached` and `using` are Reddit's token
in the adapter and in the running `Fetch`. `Reply`, `RequestFails`,
`Unauthorized` and `CutShort` are the outcomes of a request, `Return` the end,
where the engine takes what there is.

**Discord.** One beacon; another one shares neither a sink nor a ticker with it,
whatever its webhook. `stage` is its poll, the wait of `pace`, the request, or
`select` between two polls. Times are ages and timers, which count up or down and
saturate: `elapsed` is `time.Since(lastPost)` of the sink, `wait` the rest of its
wait, `timer` the ticker's next tick, `due` the one slot of its channel. A poll
starts with a sink that has no past (`runBeacon`), at once if a tick is waiting
(`NextPoll`), and may do so under a cancelled context. `loop` says which of the
program's two ways of running this is: polls of the loop run under
`context.Background()`, so that a signal does not reach their waits and requests;
the single poll of a one-shot run is cancelled by it (`PollCancelled`). `ago`,
`polls` and `begun` are history: the ages of the last three posts, how many polls
began after each, and the ages of the last two beginnings. Any stage may last as
long as it likes, which covers late goroutines as well.

**Engine.** A run `<<process, beacon>>` is one goroutine. `pc` is the call it
makes next, and an action is one call, its answer, and everything the engine
does up to the next call. `todo` is `signals` of `RunBeacon` from the current
one on, `counts` the tally per source, `aged` the signals that were too old at
the single `now` the engine takes after the last fetch. The source answers with
the signals on its page in any order; a failing source may bring any part of them,
and a tag-feed story may then come without its mark. A failing store call may
leave the store as it was, changed in memory only, or changed (the answer was
lost). The environment publishes signals and lets them age; `page` is what the
platforms' pages show now (the 20, 25 or one page of the newest that
`hn.go:23`, `reddit.go:28` and Lobsters give), `listing` what they ever showed.
`LeavePage` takes a signal off its page, for those in `Fleeting`, which is a bound
for TLC and any set in the proofs. A process may crash
at any point or be restarted between polls. `posts` counts the posts of a key
that still stand: a fault that makes the beacon lose what it knew of a post
(`Forgive`) takes that post off the count, because repeating it is then the
documented behaviour. `faults` counts failed calls, crashes and purges.

`Match` works on sets of keywords; lower-casing and substring search are not
modelled. Nil checks and the parse of `max_age` come before any state exists and
are left out. The early return in the pause between two sources is unreachable:
the loop polls under a context that nobody cancels, and the one-shot run has no
pause.

**Alerting.** The engine seen from the channel. An alert, a pair of a beacon and a
signal, is posted only if it was listed, deserves it (the gate and some answer of
the classifier let it through), and is neither settled nor posted; a hot one is
settled only after its post; what is settled and on the disk stays so. `Fail`,
`SettleUnsure`, `LoseRecord` and `LoseRows` are the failures, each counted in
`faults`, with what each may cost. Engine maps its `live.seen` and `durable.seen`
to `settled` and `kept`; polls, fetches, verdicts and the funnel are hidden.

**Loop.** `main` is the main goroutine (spawning, waiting in `wg.Wait`, done:
store closed), `stage[b]` the goroutine of a beacon: in its stagger, in a poll
(its source not yet asked, its answer in, the time taken), in `select`, or
stopped. `timer` and `tick` are a stagger or a ticker and the ticker's channel
with its one slot. `Tick` lets one unit of time pass when every goroutine waits
for time: computation takes none, polls take up to `PollTime`, a poll of a
`Hanging` beacon may take for ever. Durations are relative, so the state space
is finite without a horizon. `unlisted` and `oldest` follow the age of the
oldest signal a poll may have missed; sources answer in this module, and the
ones that fail are in Engine. `Engine` and `Loop` meet at `StartPoll`: Engine
lets a poll start at any time, which covers every schedule Loop allows.

## 3. Runs

| Run | Configuration | Shows |
|---|---|---|
| `file_store` | one poller, one purger, never both at once; two beacons, two sources, one claimable finding; beacons and sources are symmetric | `AckedDurable`, `PurgedGone`, the inductive `WriterInv` behind them, and `IsAStore`: FileStore implements StorePort |
| `engine_file` | two beacons in one process, volatile store, a story both fetch | `DedupeInv`, `NoDuplicatePost`, `HotSeenImpliesPosted`, `FunnelBalanced`, and `IsAnAlerter`: Engine implements Alerting |
| `engine_sql` | one beacon with a `max_age`, two stories of one source that come and go on its page, one of them in the beacon's tag feed; no memory; purge beside polls; three faults; fairness | `DedupeInv` (which implies `NoDuplicatePost`), `HotSeenImpliesPosted`, `FunnelBalanced` and `IsAnAlerter` on the other kind of store; `WorkJustified` with a mark that a failed feed withholds; `SignalsSettle` |
| `loop` | four beacons: on the global interval and may hang, unparsable, interval 3 with a `max_age`, interval zero; polls up to 2 units; fairness | `LoopInv`, `StoreOpenDuringPolls`, `HealthyWhenPunctual`, `NothingAgesOut`, `KeepsPolling`, `ShutdownEnds` |
| `azure_store` | two writing sessions, one purge, two sources, one beacon and id, one claim; sessions and sources symmetric | `AckedDurable`, `PurgedGone`, the inductive `SessionInv` behind them, `NoCircularWait`, and `IsAStoreApart` |
| `sources` | three adapters in turn, three stories, pages of two, some requests failing for ever; two faults of the token | `AnswerIsUnion`, `FetchInv`, `CompleteWithoutError`, `RejectedTokenDropped`, `StoriesArrive` |
| `discord` | one beacon, in loop mode and one-shot; posts three units apart, polls four | `BurstBounded` and the inductive `PaceInv` behind it |
| `loop_hidden` | two beacons, one may hang | violates `HungPollReported` |
| `file_live_purge` | purge beside a running poller | violates `PurgedGone` |
| `azure_live_purge` | one writer, one purge | violates `FindingsAreSeen` |
| `engine_two_instances` | two processes, no fault | violates `NoDuplicatePost` |
| `engine_tag` | one beacon, one tag-feed story, one fault | violates `TagStoryNeverGated` |

The properties:

* `AckedDurable`: a row or finding whose `MarkSeen` or `Record` returned nil is
  on the disk until a purge takes it, through failed saves, crashes, restarts.
* `PurgedGone`: after a purge that returned nil, no row of that source is on the
  disk unless it is collected again.
* `IsAStore`: refinement of the port, with `live` the memory of the process that
  has the file open.
* `NoDuplicatePost`: at most one standing post per key.
* `HotSeenImpliesPosted`: a signal that every answer of the classifier would
  post, and that the keyword gate cannot stop, is in a beacon's dedupe set only
  if that beacon posted it. This is the property that nothing is lost: whatever
  is not in the set is looked at again at the next poll that finds it on its page.
* `WorkJustified`: a run works on listed signals only, and what it is about to
  deliver got past the gate, by its source, by a mark from one of the beacon's own
  tag feeds or by a keyword, with a verdict over the beacon's bar.
* `IsAnAlerter`: refinement of Alerting, for one process.
* `FunnelBalanced`: at every point of a poll fetched = pending + stale + seen +
  filtered + classified, and classified = dropped + delivered + digest + still
  at a call, each up to the errors counted.
* `SignalsSettle`: a signal ends in the dedupe set or outlives `max_age`, if it
  stays on the page of a polled source, and, once the failures have stopped, also
  if it leaves its page after a poll has brought it. What is left open is a signal
  that leaves its page before a poll takes it through: see the end of section 4.
* `StoreOpenDuringPolls`: `Close` runs when no goroutine can poll any more.
* `HealthyWhenPunctual`: while one beacon's polls are shorter than its interval,
  `/healthz` is green from the end of the startup to the shutdown.
* `NothingAgesOut`: with an interval and two polls that fit into `max_age`, the
  oldest signal a poll brings is fresh when the engine takes the time. Two polls
  and not one: the ticker is created after the first poll, so the second one
  starts an interval after the first one ended.
* `AckedDurable`, `PurgedGone` of AzureStore: the same promises, of tables that
  several sessions change at once. A row is promised by the call that wrote or
  found it, until a purge of its source commits; a purge answers for the rows
  that were there when it began, until somebody writes them anew.
* `NoCircularWait`: no set of sessions in which everybody waits for another one.
* `IsAStoreApart`: each committing step is one operation of the port on the
  tables, or ends an operation beside which one of the other kind committed.
* `AnswerIsUnion`, `CompleteWithoutError`: what a `Fetch` returns against the
  pages it got, and against the pages as they were when it began. `FetchInv` is why
  the second holds: until an error is met, each page asked for brought what was on
  it throughout.
* `RejectedTokenDropped`: after a 401 the cache is empty until a new exchange.
* `StoriesArrive`: a story on a page whose requests succeed is handed to the
  engine, or leaves the page, although other requests fail in every poll; for HN
  the keywords before it must work too, because a failure ends its `Fetch`.
* `BurstBounded`: two posts of one poll are `Spacing` apart, and of any four posts
  of a beacon in a row the last begins at least a `Lull`, the shorter of spacing
  and interval, after the first. Three in a burst do occur: the last post of a
  long poll, the first of the poll whose tick was waiting, and the first of the
  one the next tick starts. The run fails with any smaller number.
* `KeepsPolling`, `ShutdownEnds`: a hung beacon does not stop another; a
  cancelled context ends the process, and only a hung poll can hold it.

**Bounds, and why they are enough.** Two beacons are needed for one beacon's
handling to disturb another's; two sources for a purge that must leave rows, and
for a fetch that follows a failed one; one story on both beacons' common source
for two keys with one id. Two faults allow a fault and a second one while
recovering from it (a post whose record fails, then a crash; a failed save, then
a purge). Polls are unbounded: `counts` starts again with each poll, so the
state space is finite without a bound on them. Verdicts are noise or one of
three fits, which is every side of the two thresholds. `file_store` has one
id: operations never compare two ids, and two beacons and two sources give four
rows. Crashes, restarts and failed saves are unbounded in FileStore; in Engine
`MaxFaults` bounds them together with failed calls and purges. In Loop two
running beacons are the fewest that can share a heartbeat or hold each other up;
a poll as long as the interval, and one that hangs, fill the ticker's slot.
In AzureStore two writers race each other on one key and both race the purge;
one beacon and one id are enough because a purge goes by source and the other
operations by key, and two sources keep a purge from taking everything. In
Fetcher three stories and pages of two are the fewest with which a story can
leave a page between two requests and be on two pages; each adapter has a
request that always works after one that may always fail, and an empty keyword.
In Discord ages stop at the longer of spacing and interval; what is older is all
the same to `pace` and to the property. The interval is a unit longer than the
spacing, so that ticks and waits fall out of step; the other order, which no
sensible configuration has, is left to the proof. Three posts and three polls of
history are what `BurstBounded` is about. In `engine_sql` both signals come from
one source, so that one answer brings two, in either order, and both may leave
their page; the source that searches by keyword and the second beacon are in
`engine_file`. There no signal leaves its page (`Fleeting` is empty): its
properties are about safety, and `FetchFails`, which may bring any part of a page,
covers what a shorter page would bring, at the price of a fault.

**Fairness.** `FairSpec` asks for weak fairness of each run's `Step`. `Step` is
continuously enabled and what enables it is the code's own scheduling: the
ticker starts the next poll of a beacon that has an interval, and every call a
poll makes returns (HTTP clients and SQL contexts have timeouts, file writes
return). Nothing is assumed of crashes or of which answer a call gives; failures
are finite because `MaxFaults` is. The environment is free to publish, to age
and to push signals off their pages; what `SignalsSettle` needs of it, that a
signal stays on its page until it is settled, stands in the property: the signal
may also leave. A beacon without an interval polls once in loop mode and is
outside `SignalsSettle`.

Fetcher asks for weak fairness of `Poll`, the steps of the loop and of a `Fetch`:
every request returns after 20 seconds at the latest (`http.Client.Timeout`).
`MaxFaults` bounds failed exchanges and revoked tokens, but not failed pages.

In Loop, `FairSpec` asks for weak fairness of main, of the clock and of the
polls of beacons that do not hang, and for strong fairness of `Stop`: with polls
longer than the interval a tick waits at every `select`, and Go's `select`
chooses at random between ready cases, so it does not choose the tick for ever.

**Deadlock** is checked in every run: in Engine, FileStore, Fetcher and Discord polls never end
and processes can always be started again; a session of AzureStore can always
begin or roll back; in Loop the ended process is a state
with a stuttering step of its own (`Ended`).

**Mutants.** Each property of a passing run has a mutant, a definition written
before the one it changes with a comment that begins "Mutant": a missing nil
guard, a save left for later, a store written in place, a purge that forgets the
findings or clears the claims, a fetcher index that is not reset, a dedupe
answer not looked at, a finding recorded without its dedupe row, a key without
the beacon, a failed delivery that is recorded, an error that is not counted, a
signal that is never marked, a row added to an old copy of the store, a gate that
is skipped, thresholds that are swapped; in Loop a wait group that is not counted or counts
skipped beacons, a close that does not wait, a staleness window of one interval,
an undivided stagger, polls that wait for each other; in AzureStore a purge that
begins with the other table, a commit of one row, a record that marks nothing,
arguments of the claim swapped; in Fetcher a merge that keeps the first mark, an
error that is forgotten or swallowed, a token that is kept, an adapter that gives up; in
Discord a wait that may be negative, a post that is not noted, a tick that stays in
its channel. TLC finds the property violated under each.

## 4. Disagreements found

1. **Purge beside a running loop** (`file_live_purge`). `OpenFile` reads the file
   once. A poller that is running while `-purge-source` deletes a source writes
   the rows back with its next save, after the purge printed its receipt
   (`main.go:66-71`).
2. **Two instances** (`engine_two_instances`). `Seen`, `Deliver` and `Record` are
   separate calls with nothing to reserve a signal, so two instances post it
   twice. `DOCKERHUB.md:27` offers Azure SQL for a multi-instance deployment.
3. **A record beside a purge** (`azure_live_purge`). A `Record` that runs between
   the purge's two DELETEs, or that found the dedupe row before them, leaves a
   finding without its dedupe row, the state the comment at `azuresql.go:204`
   wants the transaction to exclude. The signal is posted once more.
4. **A sticky mark that is not sticky** (`engine_tag`). The tag feed fails once,
   the story comes through the global feed without its mark, is filtered and
   marked seen for good (`lobsters.go:162`).
5. **A hung beacon is hidden** (`loop_hidden`). Every beacon beats the one
   monitor (`main.go:139`: "a hung poll must be restarted").

Seen while modelling, with no run of their own: a `Record` whose save fails
counts an error, but with the file store the memory keeps the row and the signal
is not "retried next run" (`engine.go:49`); with a tick waiting, `select` may
start a poll after the context is cancelled (`main.go:255`, "until ctx is
canceled"); an interval just below `max_age` is not "safe" (`main_test.go:70`),
because polls take time, which is why `NothingAgesOut` asks for room for two;
the file store's `PurgeSource` takes the second segment of a key for the source,
so with a beacon called `growth:reddit` the rows stay (`file.go:113` says
"across all beacons"; `PlainNames` of FileStore excludes such names); a failed
`MarkSeen` counts no error, so the summary of a poll in which every one fails is
logged at INFO (`main.go:369`, "failures are never invisible"); `pace` gives up
its lock while it waits, so it is not safe for concurrent callers, although
`discord.go:123` says so; two seconds between posts are 30 a minute, Discord's
limit and not "well under" it, and they are not "the minimum gap between posts
to one webhook" (`discord.go:22`) but between those of one poll: the next poll
has a new sink and may post at once, so that three posts can come together
(`BurstBounded`), and beacons that name one webhook add theirs; a signal whose
classification or delivery failed is left "to retry on the next run"
(`engine.go:239`), but the pages hold the newest 20 or 25, so that it may have
left its page by then and is lost, as is one that comes and goes between two
polls; polls build new fetchers, so Reddit's cached token never outlives a poll,
and the 60 seconds of `redditTokenSkew` are fewer than a poll of many slow
keywords may take (`reddit.go:36`); an answer of the classifier that is JSON but
no verdict reads as the zero verdict, is dropped, and its signal is marked seen.

## 5. Proofs

`FileStoreProofs`, for any sets of beacons, sources, ids, verdicts, claims,
pollers and purgers:

* `TypeCorrect`: `Spec => []TypeOK`.
* `WriterInvariant`, `AcknowledgedIsDurable`, `PurgeIsFinal`: with `SingleWriter`
  and `PlainNames`, `Spec => []WriterInv`, `[]AckedDurable`, `[]PurgedGone`.
* `ImplementsPort`: under the same two assumptions `Spec => IsAStore`. Initial
  states map to initial states; an operation maps to `Lose`, the rename to
  `Persist`, `OpenFile` and `Exit` to a stutter or `StoreRestart`.

Neither property is inductive. `WriterInv` adds what holds between an
operation's halves: at most one process is up (`OneWriter`); its memory holds
all that is promised and nothing that is gone, and its temporary file is its
memory (`MemoryCurrent`); and what the running operation will have promised is
in memory before the save and on the disk after it (`PromiseKept`). Two lemmas
carry the key format: with plain names `key` is one-to-one, and the purge's
reading of a key finds its source. `SingleWriter` is what finding 1 shows to be
necessary, and the deployment the repository's README names for the file store
("small and single-writer", `src/README.md:140`).

`AzureStoreProofs`, for any sets of writers, purgers, beacons, sources, ids,
verdicts and claims, with no other assumption than that no session is both:

* `TypeCorrect`: `Spec => []TypeOK`.
* `NoDeadlock`: `Spec => []NoCircularWait`. Whoever has locked a dedupe row needs
  nothing more (a record about to commit, a purge past both tables), and whoever
  needs a finding's row has locked nothing; so in a circle everybody would hold
  nothing.
* `SessionInvariant`, `AcknowledgedIsDurable`, `PurgeIsFinal`:
  `Spec => []SessionInv`, `[]AckedDurable`, `[]PurgedGone`. `SessionInv` adds which
  rows a session holds at each statement (`Locked`), that a record about to
  commit leaves a dedupe row unless a purge came beside it (`MarksBoth`), and that
  of what a purge has to take, the tables it is through with keep only rows it has
  locked (`TakesAll`; `DeletesAll` for the whole source while nobody writes).
* `ImplementsPortApart`: `Spec => IsAStoreApart`. Commits map to `MarkedSeen`,
  `Recorded`, `Claimed` and `Purged` of the port, everything else to a stutter.

`DiscordProofs`, for any spacing and interval, with no other assumption:
`TypeCorrect`, `PaceInvariant` (`PaceInv`) and `BurstsAreBounded` (`BurstBounded`).
`PaceInv` has three parts. The sink's wait is never too short, and its last post
is the beacon's last one unless the sink is new (`SinkInv`). Of two ticks that
start polls only one can have waited, so a waiting tick, and the next one when it
comes, find the poll before the last an interval old (`RhythmInv`). And two posts
in a row have a poll between them or are a lull apart, while a post that three
polls began after is a lull old (`PostsInv`). So the last three posts have three
polls between them and the next post, or two of them are a lull apart.

`EngineProofs`, for any sets, thresholds, sources, keywords and any `MaxFaults`:

* `TypeCorrect`: `Spec => []TypeOK`.
* `DedupeInvariant`, `NoRepeats`, `NothingHotIsLost`: with at most one process
  (`OneInstance`), `Spec => []DedupeInv`, `[]NoDuplicatePost`,
  `[]HotSeenImpliesPosted`.

`DedupeInv` says why: a run at a call works on a signal that is still not in the
dedupe set (`StillNovel`: another run of the process has another beacon, so
another key); a post that stands is in the dedupe set or in the hands of the run
about to record it (`PostsRemembered`); the disk is never ahead of what runs see
(`DurableBehind`); a signal that must be posted never reaches the call that
marks it unposted (`PostBeforeRecord`, `SeenAfterPost`). Finding 2 shows that
`OneInstance` is needed.

`EngineFunnelProofs`, with no assumption on the processes: `FunnelAddsUp`,
`Spec => []FunnelBalanced`. Given the types (`TypeInv` of `EngineProofs`) the funnel
is inductive by itself. The work is in counting: dropping the head of a sequence
takes one from its source's pending signals (`CountTail`), appending a fetcher's
answer adds its length (`CountAppend`), both by bijections of finite sets. A step
of the engine then either finishes a signal (`DoneFunnel`) or takes it on to a
call (`CallFunnel`), and which counters go with which step is plain arithmetic
(`BalancedDone`, `BalancedCall`, `BalancedFetch`).

`LoopProofs`, for any number of beacons, any intervals, any `PollTime` and any
hanging beacons: `TypeCorrect`, `LoopInvariant` (`LoopInv`) and
`ClosedAfterPolls` (`StoreOpenDuringPolls`). That the store is closed late
enough is not inductive; it is once `wg` is known to be the cardinality of the
set of running goroutines and no goroutine is started after the wait began.

Its second half, under the same assumptions, is about time: `PunctualIsHealthy`
(`HealthyWhenPunctual`) and `JudgedBeforeMaxAge` (`NothingAgesOut`). Both rest on
`TimingInv`, about a beacon whose polls end within its interval. Its ticker stays
in step with it (`TickerInStep`): a tick finds it in select, or at the very end of
a poll as long as the interval. So its timer tells how long ago its last tick was
(`SinceTick`), and that, with the poll that went on at the time, bounds the age of
what its sources have not been asked for (`SourcesAsked`) and of the last heartbeat
(`Beats`); other beacons can only beat more often. To compare the heartbeat with the
staleness window the proof needs that the intervals have a longest one
(`LongestUpTo`). Induction is out of the prover's reach, so it looks at the least
number of beacons for which there would be none (`Least`).

`FetcherProofs`, for any adapters, keywords, feeds, page size and faults:
`TypeCorrect`, `AnswerIsMarkedUnion` (`AnswerIsUnion`), `PagesMissNothing`
(`FetchInv`), `SilenceIsComplete` (`CompleteWithoutError`) and `NoRejectedToken`
(`RejectedTokenDropped`). What a merge does is stated once: which ids it has
(`MergedIds`), that each is there once (`MergedOnce`), and which are marked
(`MergedMarks`, where the mark of a story is that of any tag page that listed it).
With these `AnswerIsUnion` is inductive, given that a `Fetch` starts with nothing
(`FreshStart`). That silence means completeness rests on stories only moving on: one
that is on a page now and was on it when the `Fetch` began was on it at every request
in between (`OnPageStays`), so the request for that page brought it.

`EngineAlertProofs`, for any sets, thresholds, sources, keywords and faults:

* `PostsAreJustified`: `Spec => []WorkJustified`, with any number of processes.
* `ImplementsAlerting`: with `OneInstance`, `Spec => IsAnAlerter`. The step lemmas go
  call by call: a poll's own steps map to stutters, `Deliver` to `Post`, a mark or a
  record to `Settle`, a failed one to `Fail`, `SettleUnsure` or `LoseRecord` by what
  it left of the store, a crash and a purge to `LoseRows`. A post needs
  `DedupeInv` (not settled, not posted) and `WorkJustified` (listed, deserving);
  a settlement needs `PostBeforeRecord`.
* `PromiseKept`: `IsAnAlerter => [](NoDuplicatePost /\ HotSeenImpliesPosted)`. Alerting
  is not hollow: these two follow from it alone, whatever implements it.

Only model-checked: `SignalsSettle`, `StoriesArrive`, `KeepsPolling` and
`ShutdownEnds`. They are liveness properties under fairness, beyond the prover.

## 6. Not modelled

* The text of keys, embeds, prompts, log lines and spans; JSON encoding. Errors
  of encoding and of the file system are `SaveFails`.
* Power loss: the disk is the file system's view. The code renames without an
  fsync and says so (`file.go:20`).
* Config parsing: its values are the constants. Telemetry: nothing reads it back.
* The one-time drop of a `seen` table of an older build (`schema.sql:9`), DSNs and
  the connection pool. The schema is in `Init`.
* SQL Server's own choice of locks beyond those of changed rows: reads are
  modelled as free, and whatever a scan may wait for is in `Needs` only.
* In Engine a purge of the SQL store is one call. AzureStore shows that this is
  what it is unless a write of the same source overlaps it; the overlap is
  finding 3.
* The HTTP exchange with the classifier; its verdict is any of those possible.
* A post that went out while its answer was lost is the failed delivery of the
  model; the repeat is explained by that fault and nothing in the code could
  avoid it.

## 7. Plan

1. Engine over AzureStore: a poll's calls as the statements of its session, to
   follow the repeated post of finding 3 to the channel. Alerting is the
   specification it would be held against, with finding 2 and 3 as its exceptions.
2. Proofs: that Engine with several processes implements Alerting while no two of
   them work on one key; that Fetcher implements the answers Engine's `Fetch` and
   `FetchFails` take from a source.
