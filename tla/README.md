# A verification of the real-time risk and anomaly platform

TLA+ models of the platform's streaming path, the TLC runs that check them on
small instances, and proofs of the properties that matter most. Everything is
written from the code under `src/`; `PROJECT.json` names, for every definition,
the lines it stands for.

```
data-generator --ws--> ingestion --raw-events--> feature-service --features--> ml-inference
                                                      |                            |  alerts,
                                                      v                            v  model-metrics
                                                  ClickHouse <-----------------  ClickHouse
                                                                                   |
                                     dashboard <--ws-- api-gateway <--alerts, model-metrics--+
```

## The system: components, state, operations

| component | state | operations | what is hard |
|---|---|---|---|
| **feature-service** (Rust, one tokio task) | map of `EntityWindow` per entity (window start, accumulators, EWMA), two batches for ClickHouse, consumer position | `select!` over: receive a raw event; every 25 ms sweep all windows and publish those that are due; every flush interval insert both batches | time passes during every await; the sweep's `now` is captured once; a late sweep closes one window per tick; auto-commit by another thread; nothing in memory survives a crash; failed inserts drop the batch |
| **ml-inference** (Python, asyncio and one worker thread) | rolling models and drift baseline per domain, score counters, the alert queue | consume loop (score on the worker, send, queue), flush loop (queue to ClickHouse), model-metrics loop (drift check on the same worker) | three tasks and a thread over shared detector state; exceptions in a detector or in the iterator; auto-commit while a window is being scored; a queue that nothing drains at shutdown |
| **ClickHouse `risk.alerts`** | rows of a `ReplacingMergeTree(ts)` partitioned by day of `ts` | insert, background merge | merges at times of its own choosing, never across partitions; failed inserts may have been applied |
| **api-gateway, live feed** | the set of WebSocket clients, two relay tasks | relay a message to all clients; greet a client with a backlog; connect, disconnect | the set changes while a broadcast awaits a send, in size or only in order; clients die silently; the backlog is read after the client joined |
| **dashboard, `useLiveFeed`** | list of alerts, newest first | backlog replaces, an alert is put in front, reconnect | backlog and live alerts overlap and overtake each other; topic and table hold an alert twice |
| **data-generator** (Python, one event loop) | entities with sequence numbers and baselines, the table of active scenarios, the fractional carry, the stream's clients | every 20 ms a tick: draw events, spawn and expire scenarios, one frame to each client; `/inject`, `/scenarios` | one send task per client and tick; injections replace each other, are spawned by events and expire at different reads |
| **ingestion** (Rust, one task) | connection, lines of a frame, attempt counter | connect, read a frame, send its lines one by one, back off | a send blocks the reading, a failed one is dropped and may still be carried out; both sides restart |
| **ml-inference, scoring of one window** | velocity, run-rule history and CUSUM per entity, buffers per domain, booster and calibration | detectors, ensemble, thresholds, probable cause; load and training of the artefacts | an exception before or after the detectors took the window; warm-up; two files written and read in two steps |
| **api-gateway, control plane** | a signing secret of the process | issue and check tokens, proxy `/inject` and `/scenarios` | tokens expire on the way, up to a second early; a restart with a random secret invalidates all; a proxied request outlives its timeout |
| **dashboard, controls and polls** | stored token, lock, selection, status; last list | unlock, lock, click, reload; a fetch per interval | answers of old requests, answers out of order, a clock between check and use |
| api-gateway, read routes; evaluation library; training; telemetry; scripts | none of their own | queries, offline algorithms | not modelled, see below |

The services interact through Kafka topics (`raw-events`, `features`, `alerts`,
`model-metrics`: one partition per key in the models, in order), HTTP inserts and
queries to ClickHouse, and WebSockets. Inside a service the interaction is shared
state between awaits. `PROJECT.json` lists every component, also those without a
module and why, and every hazard at its line.

### What makes each part correct

* *feature-service*: each message is counted in exactly one window; windows lie on
  a grid, are never published early and never overlap (so that entity and window end are
  the identity of a window, and of its alert); the baseline a window is scored against
  is the past, whole and without it; features and rows are neither lost nor doubled
  between window, topic and table, except where the code says so by dropping a batch.
* *ml-inference*: each message taken has exactly one outcome; each alert of the
  running process is in exactly one place on its way to the table; each score is
  reported once; consumption outlives exceptions and every alert settles; the models
  are fitted on the windows the parameters say, a fit that raised is tried again, the
  drift baseline never moves.
* *alerts table*: the newest version of an alert survives; one alert per window.
* *live feed*: a connection gets an unbroken run of the topic, but for messages during
  whose broadcast somebody joined; a bad client hurts nobody else; what a screen does
  not show, or shows more than once, has a reason; a relay outlives its clients.
* *generator and ingestion*: the events are never ahead of the rate and at most one
  behind; a connection skips nothing; the topic
  is in order except for what was given up; the feed comes back by itself.
* *scenarios*: the label of every event is the ground truth of its moment; a regime
  change is applied once; a fraud keeps its cluster.
* *scoring*: what a detector remembers of an entity is that entity's own past; an
  alert and its cause have evidence; a booster is used with its own calibration.
* *control plane*: what the operator is told is true; the lock and the token agree; a
  token is not refused because it expired on a short way (the margin less what was cut
  off its first second); a list settles.

## The modules

| module | models |
|---|---|
| `FeatureService` | `feature-service/src/consumer.rs`, `window.rs`, `ewma.rs`, with Kafka, the clock, ClickHouse's answers and the death of the process |
| `TumblingWindows` | abstract: what the windowing promises; implemented by `FeatureService` |
| `AlertStore` | the table `risk.alerts` |
| `MLInference` (EXTENDS `AlertStore`) | `ml-inference/app/main.py`, `kafka_io.py`, the control of `pipeline.py`, `isolation_forest.py`, `autoencoder.py`, `drift.py`; composes the service with its table |
| `Scoring` | what `pipeline.process` computes: `velocity.py`, `statistical.py`, `ensemble.py`, `rules.py`, `explain.py`; and the artefacts between `train_xgboost.py` and `xgboost_detector.py` |
| `LiveFeed` | `api-gateway/app/ws_manager.py`, `kafka_bridge.py`, `ws_endpoint`; `useLiveFeed.ts`; composes the gateway with its clients |
| `EventStream` | the producer loop and stream of `data-generator/app/main.py`, composed with `ingestion/src/ingest.rs`, `backoff.rs`, `sink.rs` |
| `OrderedFeed` | abstract: what the topic raw-events promises; implemented by `EventStream` |
| `Scenarios` | `data-generator/app/scenarios.py`, `next_event`, and what of `generators.py` lasts from event to event |
| `OperatorConsole` (EXTENDS `Scenarios`) | `ScenarioControls.tsx`, `auth.ts`, `api.ts`, `usePolling.ts`, the gateway's `auth.py` and `routes/system.py`; composes page, gateway and generator |
| `MC...` | instances for TLC: values of the constants, symmetry |
| `InductionLemmas` | induction over data, without an operator parameter: what a fold over a function adds up to, what `FlattenSeq` gives |
| `FeatureService_proofs` | theorems about `FeatureService`; that it implements `TumblingWindows` |
| `MLInference_proofs` | theorems about `MLInference` and `AlertStore` |
| `EventStream_proofs` | theorems about `EventStream`; that it implements `OrderedFeed` |
| `LiveFeed_proofs` | theorems about `LiveFeed` |
| `Scenarios_proofs`, `OperatorConsole_proofs` | lemmas about the generator alone; theorems about the console that drives it |
| `Scoring_proofs` | theorems about `Scoring` |

Operators named `X_Suffix` (`ShouldFlush_Early`, `Flushed_NoReset`, ...) stand
before the operator `X` they are variants of. They are the plausible mistakes that
the properties were tested against, one for each property of a run, and no
specification uses them.

### FeatureService

`pc` is where the task is: `select` (in `select!`), `sweep` (in the loop of
`sweep_and_emit`), `send` (awaiting Kafka), `flush` (awaiting ClickHouse), `down`.
One action is the code between two awaits: `HandleRawEvent`, `SweepTick`,
`SweepVisit` (one turn of the loop, with `flush()` inside), `SendFeature`,
`SweepDone`, `FlushTick`, `FlushFeatures`, `FlushRawEvents`, `Start`. The
environment (`Publish`, `Tick`, `AutoCommit`, `Crash`) may come between any two.

A raw event is its identity: entity, offset, the run of the process that took it,
and the time. The accumulators of a window (vwap, rates, percentiles) are functions
of the set of events added since the reset, so that set is the window; the last
price, which `flush()` keeps for the next window's first return, is left out. The
EWMA is the set of windows it has observed. `committed[e] = 0` is "the group never committed", where
`auto.offset.reset = latest` starts at the end of the partition. `emitted`, `failed`
and `lost` are history.

A window is due by its length, a float of seconds, and its boundary moves by that length
in whole milliseconds (`as i64`). `WindowSize` and `WindowStep` are the two in ticks: the
length rounded up, as elapsed time is whole, and the step rounded down. A length of whole
ticks has both equal.

`consumer.rs:13` expects of a restart "a few partially-overlapping windows". The *spans*
of the windows do not overlap (`WindowsApart`): a window starts at `Utc::now()`, so one
opened after a restart begins behind every window published before. What overlaps is
their *content*: a message taken before the restart and not committed is taken again and
counted in a second window, of the time of its second arrival. `ResumeNeverSkips` is about
that, and `WindowedExactlyOnce` is per run. The topic `features` is a set: a retry of the
producer, which is not idempotent, may append a feature twice, which to the models of its
reader is one more message of the topic.

### AlertStore and MLInference

An alert's key is its window, because `alert_id` is a function of the rest of the
sorting key. `Merge` replaces one row by one as recent, of the same key and the same
day; when a merge happens and which rows of equal `ts` it keeps is left open.

The three asyncio tasks have a state each (`consumer`, `flush`, `reporter`), and the
worker thread has `jobs` (the executor's queue) and `busy`. A job is several steps
(`ObserveWindow`, `RecordScore`; `CheckDrift`, `ReadCounters`, `ResetCounters`),
because Python threads interleave: with `Workers = 1`, as in the code, only one job
is in progress. What a window's score leads to (nothing, an alert, an exception) is
open, and so is the drift flag once there is a baseline and enough live vectors.

A domain has two rolling detectors, the forest and the autoencoder. Each appends the
window and counts it *before* its fit, so a fit that raises (`ScoreRaises` with a detector
of `MayRaise`) leaves the window in one buffer or both, the counter advanced, and no new
model; it is tried again with the next window. `observed` and `raised` are history: the
windows each detector took, and at which of them a fit raised. The baseline is set behind
both fits, so a first fit of the autoencoder that raises puts it off: `drift.py:5` calls it
"frozen at first fit", which `ModelsTrackTraffic` states with that exception.
`ConsumerDies` is the error inside the iterator that no `try` covers. `Stop` is both
ways to go: a shutdown commits once more, a crash does not, neither drains the queue.

### LiveFeed

The two relays share `clients`, as they do in the code. `RelayTake` and `RelaySent`
are what a relay does from one await to the next. A Python `set` iterator compares
the set's size with the one it started with before each element: when it differs it
raises `RuntimeError`, which nothing catches. When as many left as joined, the iterator
goes on, and then what it still visits is not what it has not visited: it is an index into
the hash table, a new member may lie before or behind it, and an `add` may make the table
anew. `Rearranged` lets a join put any of the members ahead of a running iteration, those
visited already too; that is more than a table of a given size can do, and all that the
code relies on. A removal moves nobody. `disturbed` and `shaken` are history: the relays
during whose broadcast somebody else changed the set, and the messages during whose
broadcast somebody joined. `RelayEnds` is a relay that ends for a reason of its own: its
consumer does not start, or the iterator or deserializer raises.

Each connection has a handler (`none`, `querying`, `greeting`, `reading`, `done`) and
an ordered `inbox`. A closed tab and a dropped network look the same: the gateway
notices when it sends or receives. The reconnect delay is left out, so that a tab
reconnects at any time.

`MakeAlert`, `StoreAlert` and `MergeRows` are ml-inference and ClickHouse seen from here:
scorings are numbered, and `alertOf` says which alert each of them raised, since a window
scored again raises the same `alert_id`. The topic may miss a scoring, have it, or have it
twice (a retry of a producer that is not idempotent); the table has a row per scoring, in
order of `ts`, until a merge that may never come, and the backlog query (no `FINAL`)
returns them all. `MLInference` has the details. A `Copy` is what a tab holds: the alert,
and which message of the connection brought it.

### Scoring

One action, `Process`, is one call of `MLPipeline.process`: it runs on the one worker
thread, so calls do not interleave (`MLInference` checks that). z-scores are whole
numbers of half sigmas and scores thousandths, so the run rules, CUSUM, the weights
and the thresholds are exact integer arithmetic; `squash` is a table. `Far`
stands for the z-scores of 150 sigma and more, where `squash` rounds to 1.0. A fitted model
scores any value of `Learned`, the top feature and the amounts are any (`Causes` is
the set of causes an alert may name). An exception may come on either side of the
statistical detectors' turn. `RaisesBeforeDetectors` is a fit, or `set_baseline`: by then
the window is in the velocity and in one or both buffers and not in the detectors.
`RaisesAfterDetectors` is a learned model's `score` (XGBoost with other feature names), the
SHAP attribution or the timestamp: the detectors have taken the window and no result comes
of it. `Start` and `LoadCalibration`, `SaveModel` and `SaveCalibration` are the two files,
read and written in the same order. `seen` (the windows of each entity since the start)
and `taken` (the z-scores of those its detectors took) are the history the properties
compare with.

### EventStream

The state on the wire is `link` and `out` (frames sent and not read, in order: the
send tasks of one WebSocket run in the order they were created). `Tick` is a round of
the producer loop with all its events. `lines` is the frame being handled, whose
first line is being sent; `Sent` may append twice (the producer retries and is not
idempotent), `SendFails` leaves the record in `late`, from where a broker may still
append it. The jitter of the backoff picks the floor or the largest delay. A broken
connection keeps a prefix of what was on its way.

The carry of `events_for_tick` is a float, and sums of it that should be whole may come
out a little less: at 5 events/s ten ticks of 0.1 make no event (0.99...), the eleventh
does. `EventsForTick` counts in `1/RateDown` of an event and lets every whole sum
fall short, its last event staying in the carry. That is what the code does as long as the
error of the sum is below `1/RateDown`: it grows by some 1e-16 a tick, so for rates with
a denominator in the thousands this takes far longer than any process runs.

### Scenarios and OperatorConsole

All of the generator is synchronous code of one event loop, so `NextEvent` is one
step: the check for spawns, which visits (and expires) every entity, then the event.
An injection is its place in `log`. A label ends by the clock, whichever read removes
the entry. `Ghost` is a key that `/inject` accepts although no entity has it. In the
console, `clicks[c]` is one click with its request on the way (`sent`, `proxied`, then
an answer) and `pending`, the proxied request at the generator, which outlives the
gateway's timeout and its restart. `polls` are fetches in flight. Browser and gateway
share a clock: a skew between them adds to the margin or takes from it.

A token's lifetime is counted from `int(time.time())`, so it ends up to a second before
what the page computes from the moment of the answer: `Iat` takes the fraction off, with
`Second` ticks to a second. Several logins may be under way, as nothing in `unlock`
prevents it. A restart of the gateway draws a new secret or, with
`API_GATEWAY_JWT_SECRET` configured, keeps the one it had. The page has one status for
all clicks, the last one set, and hides it while it is locked; the model keeps for each
click what it was told, which is what the properties are about.

## The runs

All configurations say `CHECK_DEADLOCK FALSE`: the bounds (messages, clock, starts,
connections) stop the system when they are used up, and a system without messages
may wait.

| run | bounds | checks |
|---|---|---|
| `FeatureService_restart` | 1 entity, window of 2 ticks, batch 1, 2 messages, clock 4, 2 starts | `TypeOK`, `WindowedExactlyOnce`, `WindowTimes` (`NeverEarly` and `WindowsApart`), `BaselineIsThePast`, `RowConservation`, `ResumeNeverSkips`, and that it implements `TumblingWindows` (`WindowsTumble`) |
| `FeatureService_pair` | 2 entities, windows of 1 and 2 ticks, the second with a boundary that moves by 1 (its length is between the two), batch 2, clock 3, fairness | `EventuallyStored` over shared sweeps and batches |
| `FeatureService_atleastonce` | 2 starts | **violated**: `AtLeastOnce` |
| `MLInference_store` | 1 domain, 3 windows, buffer 2, refit every 2, 2 starts, clock 1 in one day | `TypeOK`, `EveryMessageAccounted`, `AlertConservation`, `LatestSurvives`, `ModelsTrackTraffic` |
| `MLInference_live` | 2 domains, 1 window each, 1 round of the metrics loop, fairness | `ScoresReportedOnce`, `ConsumptionContinues`, `AlertsSettle` |
| `MLInference_onealert` | day of 2 ticks, clock 2, 2 starts | **violated**: `OneAlertPerWindow` |
| `LiveFeed_feed` | 2 tabs (symmetric), within `Bounds`: 1 tab on screen, 2 scorings of 1 or 2 alerts, 2 messages, 2 rows, screen and backlog of 2, 2 connections, 1 restart; or broadcasts of 3 messages to 3 connections of 2 tabs; or broadcasts by both relays to 2 connections | `TypeOK`, `MissedOnlyBeforeBacklog`, `ShownAsOftenAsSent`, `NoGapPerConnection`, `OneBadClient` |
| `LiveFeed_reach` | 2 tabs, 1 alert, 3 connections, fairness | `AlertsReachClients` |
| `LiveFeed_relay` | 2 tabs, 1 alert | **violated**: `RelaySurvives` |
| `Scoring` | 5 windows of a market entity and 1 of a payments entity per start, buffer fits at 4, 1 exception before the detectors per entity and any number after them, 1 training | `DetectorsSeeOwnHistory`, `WarmUpOnlyWatches`, `RegimeChangeHasDrift`, `CalibrationOfOwnModel` |
| `EventStream` | 2 entities, 3 events per 2 ticks, 3 ticks, 2 faults, backoff 200 to 500 ms, fairness | `TypeOK`, `TopicInOrder`, `NothingSkipped`, `RateHeld`, `BackoffFollowsOutage`, `FeedResumes`, and that it implements `OrderedFeed` (`FeedIsOrdered`) |
| `OperatorConsole` | 1 market entity, 1 merchant, 1 unknown key, clock 4, 2 ticks to a second, 2 clicks, 2 polls, one of four budgets, fairness | `GroundTruth`, `FraudKeepsItsCluster`, `VerdictsAreTrue`, `SessionInStep`, `RefusedOnlyWhenSlow`, `EveryClickIsAnswered`, `ListSettles` |

Why these bounds are enough. One window of two ticks and a clock of four let a window
be closed in time, late, empty, and twice in one stall; two starts are one restart
with and without a commit in front; two messages give a window with one, two and no
events, a malformed message before or after a good one, and a baseline that an
earlier window has seeded. Batches of 1 are always full, those of 2 also wait for the
timer. Three windows, a buffer of 2 and a refit
every 2 give the first fit, a full ring, a refit that is not due and one that is.
Midnight is a clock that reaches the next day; it is kept to `MLInference_onealert`
to keep the other run small. Two tabs are what it takes for one to be awaited while
the other joins, leaves or fails; three messages are what a gap needs, and three
connections one that stays while another leaves and the next joins. All of that at once
is too much for one run, so `LiveFeed_feed` explores a union of three parts of the state
space, named in `MCLiveFeed`: `OneScreen`, in which one tab at a time has a connection or
anything on screen; and, without rows, restarts and what tabs do with a message, on which
the broadcasts do not depend, `OnlyBroadcasts` by `OneRelay` to three connections, and by
`BothRelays` to two. `LiveFeed_reach` has no constraint: one would cut behaviours short
and with them liveness. Two scorings, messages and rows are the least that has one
alert sent twice, scored twice, or in the backlog and in a message.

Five windows fill the run rules' history and reach all four of its answers; four of
them fill the buffers, so the last is scored by fitted models. Three events every two
ticks make a tick of one and ticks of two events, which share a frame; two faults are
a second one while the first is being recovered from (three faults were checked as
well and hold; that takes longer than a run should). A cap of 500 ms is reached by the
third attempt, as 15 s is by the eighth in the code. `Budgets` is a set of bounds of
which each behaviour has one, chosen by `Init`: a stream of events with spawns and an
injection; a session of one click, two logins and a restart; two clicks at once; polls
over injections. The parts share the clock, the table and the secret, and one run
explores all four without their product.

The safety runs leave the environment free: every action may come at any time,
crashes and commits too. A message may be malformed at any offset, every send and
every insert may fail, and a failed one may have been applied.

### The three runs that end in a violation

* **`AtLeastOnce`**. `consumer.rs:10-15` calls auto-commit at-least-once and says a
  restart only produces overlapping windows. An event taken, committed by
  librdkafka's thread and still in its open window is gone after a crash.
* **`OneAlertPerWindow`**. `01_schema.sql:104-106` says one alert per window
  survives. `PARTITION BY toDate(ts)` (lines 138, 141) puts the two attempts in
  different partitions when midnight is between them, and merges, also
  `OPTIMIZE ... FINAL`, work within a partition. (`SELECT ... FINAL` is a matter of
  the query's settings and is not modelled.)
* **`RelaySurvives`**. `ws_manager.py:32` says one bad client must not break the
  broadcast. `broadcast` iterates over the live set and awaits in the loop body; a
  client that joins or leaves meanwhile makes the iterator raise, outside the `try`.
  The relay task is over, `/health` goes on to say ok, and no alert reaches any
  screen until the gateway is restarted. `OneBadClient` is the part of the promise
  that does hold: a failing client alone, with nobody else joining or leaving, is
  evicted cleanly.

### Fairness

* `FeatureService`: `tokio::select!` polls its ready branches in random order, hence
  strong fairness of `SweepTick` and `FlushTick`; the steps of a sweep and of a flush
  are weakly fair. That an insert ends is an assumption about ClickHouse: the HTTP
  client of `clickhouse.rs` has no timeout. `EventuallyStored` is about windows that
  end within the modelled clock, and excuses a dead process. No fairness is assumed
  of receiving: an event is stored even if messages stop or never stop.
* `MLInference`: asyncio runs every ready task and the executor every job (weak
  fairness); aiokafka serves each partition (strong fairness of `TakeMessage`).
  Kafka and ClickHouse calls time out (10 s in `clickhouse_io.py`). Neither deaths
  nor publications are fair.
* `EventStream`: both processes are run by a supervisor (`ingest.rs:12-15`), the loops
  and the steps of a connection are weakly fair. A send is acknowledged or times out
  after ten seconds (`message.timeout.ms`). That the end of a connection reaches the
  reader is an assumption about the network: `read.next()` has no timeout and nobody
  sends pings, so a half-open connection holds the feed until TCP notices. Faults are
  never fair.
* `OperatorConsole`: the gateway checks and answers every click (httpx gives up after ten
  seconds, `main.py:32`), the browser gets the answer or sees the connection break,
  `setInterval` fires for ever (weak fairness). That the generator answers a poll now
  and then is strong fairness of `ListTaken`: a generator that is down for good never
  answers. Nothing is assumed of the operator, nor of `GeneratorInjects`.
* `LiveFeed`: the relays are weakly fair: a send to a client that is gone fails at
  the latest when the WebSocket ping times out. Nothing is assumed of clients.

### Refinement

`FeatureService!WindowsTumble` maps the map of windows, the published features and the
lost events to `TumblingWindows`, where a window is closed in one step, on a grid, only
after its end. Sweeps, sends, batches, commits and the catch-up after a stall are
stutters or single closings. It says nothing of when a window closes: an event received
after a stall joins a window that ended before it arrived. `window.rs:3` calls the
windows "bucketed by wall-clock arrival", which holds while sweeps keep up.

`EventStream!FeedIsOrdered` maps the topic, the last event done with per entity, and
the given-up requests to `OrderedFeed`: frames, reconnects, restarts and faults are
stutters of a feed that only ever accepts a later event of an entity, gives one up,
or has a given-up one turn up. `FeatureService!Publish` takes the topic as given and
needs no more than this: it identifies a message by its place in the log.

## The proofs

TLAPS checks every theorem below for all values of the constants that the modules'
assumptions admit: any entities, tabs, clicks, sizes, rates, windows and bounds. Each
invariant was checked by TLC on the run of its property first (of `AiredInv`, which asserts
that a sequence exists, its checkable form `NothingSkipped`), then proved: it holds
initially, every action keeps it, and it gives the property. The names in the third
column are the inductive invariants, defined at the head of the proof module or where
the proof needs them.

| theorem | property | by |
|---|---|---|
| `FeatureService_proofs!TypeCorrect` | `TypeOK` | inductive as it stands |
| `...!ExactlyOnceWindowing` | `WindowedExactlyOnce` | `WindowInv` |
| `...!WindowsKeepTime` | `WindowTimes` | the next two |
| `...!NoEarlyWindow` | its part `NeverEarly` | `TimingInv` |
| `...!NoWindowsOverlap` | its part `WindowsApart` | `ApartInv` |
| `...!ResumesWithoutGap` | `ResumeNeverSkips` | `CommitBehind` |
| `...!BaselinesArePast` | `BaselineIsThePast` | `BaselineInv` |
| `...!RowsConserved` | `RowConservation` | `RowInv` |
| `...!ImplementsTumblingWindows` | `WindowsTumble` | `WindowInv`, `TimingInv`, `BoundInv` |
| `MLInference_proofs!TypeCorrect` | `TypeOK` | `TypeInv` |
| `...!LatestVersionSurvives` | `LatestSurvives` | inductive on what an insert and a merge do |
| `...!ScoresCounted` | `ScoresReportedOnce` | `CountInv` |
| `...!MessagesAccounted` | `EveryMessageAccounted` | `OutcomeInv` |
| `...!AlertsConserved` | `AlertConservation` | `AlertInv` |
| `...!ModelsFollow` | `ModelsTrackTraffic` | `ModelInv` |
| `EventStream_proofs!TypeCorrect` | `TypeOK` | `TypeInv` |
| `...!TopicOrdered` | `TopicInOrder` | `OrderInv` |
| `...!BackoffBounded` | `BackoffFollowsOutage` | `BackoffInv` |
| `...!RateIsHeld` | `RateHeld` | `RateInv` |
| `...!NothingIsSkipped` | `NothingSkipped` | `AiredInv` |
| `...!ImplementsOrderedFeed` | `FeedIsOrdered` | `OrderInv` |
| `LiveFeed_proofs!TypeCorrect` | `TypeOK` | `TypeInv` |
| `...!BadClientSpared` | `OneBadClient` | `LinkInv`, `DisturbInv` |
| `...!SentWithoutGap` | `NoGapPerConnection` | `LinkInv`, `RunInv` |
| `...!MissesOnlyBeforeBacklog` | `MissedOnlyBeforeBacklog` | `InboxInv`, `ScreenInv` |
| `...!ShowsAsOftenAsSent` | `ShownAsOftenAsSent` | `InboxInv`, `ScreenInv`, `GenuineInv` |
| `OperatorConsole_proofs!LabelsAreGroundTruth` | `GroundTruth` | `ConsoleInv` |
| `...!FraudOnOneCluster` | `FraudKeepsItsCluster` | `ConsoleInv` |
| `...!OperatorIsToldTheTruth` | `VerdictsAreTrue` | `ConsoleInv` |
| `...!SessionAgrees` | `SessionInStep` | `ConsoleInv` |
| `...!RefusedForLateness` | `RefusedOnlyWhenSlow` | `ConsoleInv` |
| `Scoring_proofs!DetectorsRememberOwnHistory` | `DetectorsSeeOwnHistory` | `ScoringInv` |
| `...!WarmUpRaisesOnlyWatches` | `WarmUpOnlyWatches` | `ScoringInv` |
| `...!RegimeChangesDrift` | `RegimeChangeHasDrift` | `ScoringInv` |
| `...!CalibrationBelongs` | `CalibrationOfOwnModel` | `ScoringInv` |

`ConsoleInvariant` and `ScoringInvariant` state the last two invariants themselves.

Why the properties alone are not inductive, and what the invariants add:

* **FeatureService**. `WindowInv`: every event anywhere was taken by this run or an
  earlier one, those of this run below its position, positions and commits within the
  log (`OffsetsBehind`); a sweep visits keys of the map only, and a process that is down
  has none (`MemoryShape`). So the event of `HandleRawEvent` is nowhere yet, and
  `SweepVisit` moves a whole window into one feature. `TimingInv`: `sweepNow` is never
  ahead of the clock. `ApartInv`: what was emitted ended in the past, so a window that a
  restart opens now begins after it. `CommitBehind`: no commit is ahead of the
  position. `BaselineInv`: the EWMA of a key is the windows this run emitted of its
  entity, all of them earlier than the open one. `RowInv`: a feature whose send is awaited
  is in no insert yet, and batches and failed inserts hold only what was emitted or taken.
* **The refinement of `TumblingWindows`** takes each action: `HandleRawEvent` is an
  arrival, `SweepVisit` of a due window a closing, `Tick` the clock, `Crash` a death,
  everything else a stutter. `BoundInv` is needed because the abstract module's bounds
  are the model's own.
* **MLInference**. `Shape`: with one worker at most one job is busy, every job is one
  that a task waits for, and a dead process has nothing queued. That is the key fact of
  `CountInv`, where `CountRead` says that between `ReadCounters` and `ResetCounters` the
  counter is still what was read: no score can come in between. `AlertInv` says in which
  place an alert is and that it is in no second one (`OneCopy`, `NoRepeats`). `ModelInv` relates
  counter, ring and fit of each detector to the windows it has taken: the fit is the buffer
  of as many windows ago as the counter says, and from the moment it was due again every
  window is one at which a fit raised.
* **EventStream**. `OrderInv`: the lines in hand, the frames on the wire and the events
  still to be made are, per entity, each later than the one before (`AheadInOrder`), all
  made and later than anything done with (`AheadIsNew`), and what was done with is not
  later than `newest`. `BackoffInv`: the shift counts failed connects only. `TypeInv`
  needs that an entity's number stays within the rate (`WithinRate`). `RateInv`: all
  events made, times the rate's denominator, and what is carried are what the rate gave,
  whether a whole sum was seen as whole or fell short; the carry is at most one event. `AiredInv`: what was broadcast on the open
  connection is something wholly handled, then the lines in hand, then the frames on the
  wire flattened.
* **LiveFeed**. `RunInv`: where the running broadcast has got to determines the last
  message each connection was sent, up to messages that a join shook: of one nobody shook,
  a client is visited or still to be (`Waits`), and never both. `DisturbInv`:
  the iteration of a relay whose set nobody else changed sees the size it began with, so
  nothing is raised. `InboxInv` and `ScreenInv`: what is on the wire is the end of what
  was sent, in order, and the backlog at most once; a greeted screen is a stretch of live
  alerts on top of what is left of the backlog, and what is missing from it is older
  than all that a full screen shows. `GenuineInv`: a copy of a message holds the alert the
  topic has at its offset, so that the copies of one alert can be counted by messages.
* **Scenarios and OperatorConsole**. `TableInv`: an entry of the table is the latest
  injection of its key, a key without one has none in force, whichever read deleted it.
  `SpawnInv`, `EventInv`, `ClusterInv`: what each spawn and each entity's last event
  found. `ClickOk`: a click is on its way to the generator or has been there, never
  both. `TokensInv`: a click carries the one token that was usable when it was sent, until
  the margin before what the page takes for its expiry. `FraudKeepsItsCluster` and `RefusedOnlyWhenSlow` are
  action properties, proved of each step from the invariant.
* **Scoring**. `MemoryInv`: velocity and run-rule history are the last of all windows and
  of those the detectors took, and each CUSUM side is `Largest`: attained by a stretch that ends
  now, and by none exceeded. `ResultInv`: the last result is what the detectors' present
  state gives. `ArtefactInv`: the files of a domain match unless a training is
  writing, and a start that no training overlaps has the model that is on disk.
  `PartialSums` is a recursive function; every history has one, and only one, by
  induction on its length (`HistoriesDetermined`).

Three of these need facts about data of any size: the sum of the entities' numbers, the
flattened frames, the partial sums of a history. The prover cannot instantiate the
library's induction theorems, which take an operator. `InductionLemmas` states induction
with a set instead (`Inductive`: a set of naturals with 0 and the successor of each of
its elements holds all of them) and proves it by pigeonhole: of the numbers missing up to
some n, each moved down by one is missing too, so they would fit into themselves without
n. From it follow the sum of a function over a finite set (`FoldUnfolds`, `SumAdds`: sums
add up) and the flattening of a sequence (`FlatUnfolds`, `FlatAppend`, `FlatHead`), which
are recursive functions chosen inside the community modules' operators.

Assumptions. Sizes and periods are positive and bounds natural numbers; the keys of the
generator and the entities of the stream are finitely many (`entities.py` lists them), its
click identities differ from the two other sources of an injection (`"auto"`, `"direct"`),
durations are natural numbers; the margin is at most the token's lifetime; the backoff's
shift is at most 10 (`attempt.min(10)`, which is what keeps it from overflowing); domains
are distinct; `VelocityWindows` is a natural number and windows carry z-scores and counts.
A window's boundary step is positive and at most its length, and a second has at least one
tick. Each has a name in the module that declares the constants, and TLC evaluates it on the
runs.

The modules that are proved about use no `RECURSIVE` operator, and where it makes a proof
possible they say *what* instead of *how*: `LiveFeed!Newest` is the backlog in rank
order.

### Only model-checked

* Liveness under fairness (`EventuallyStored`, `ConsumptionContinues`, `AlertsSettle`,
  `AlertsReachClients`, `FeedResumes`, `EveryClickIsAnswered`, `ListSettles`): the prover
  has no rules for fairness and `ENABLED`.
* The three violated properties, which are false.

## Seen on the way

Behaviour the models show and no document denies, or that lies outside them:

* `explain.py:59`: one window of 3.5 sigma or more already makes CUSUM exceed 0.5 and
  the z-score's own score, so a single spike can be called `regime_change`;
  `RegimeChangeHasDrift` says what does hold.
* `ensemble.py:38-41`: detectors that are not fitted count as 0 at full weight, so
  without XGBoost the statistical detectors reach 0.55 together. That is past a
  merchant's bar for a watch (0.50) and just at a market entity's, when all three are
  saturated: `squash` rounds to 1.0 from 150 sigma on. `ewma.rs:41` makes such z-scores
  ordinary: the second window of an entity after a start of feature-service is scored
  against a variance clamped to 1e-9. `docs/runbook.md:84` calls the warm-up
  "intentionally quiet".
* `statistical.py:79-83`: the CUSUM sums have no upper bound. One such z-score keeps the
  detector saturated for as many windows as it takes to come down by half a sigma each.
* `train_xgboost.py:216-218`: a training that dies between its two files leaves the new
  booster with the old calibration until the next training. `XGBoostDetector.reload` is
  called by tests only.
* `train_xgboost.py:204`: the calibration is fitted on scores of the trees up to the best
  iteration, `score()` uses all of them.
* `ScenarioControls.tsx:84`: switching the domain keeps the scenario; the page can send a
  `volatility_spike` for a merchant, and `/inject` takes any key.
* `ws_manager.py:29`: a join and a leave during one broadcast do not raise, and a client
  that stayed may miss that message or get it twice (`NoGapPerConnection` says when).
* `drift.py:5`: the baseline is frozen at the first window both fits got past, which is
  the first fit unless that of the autoencoder raises.
* `auth.py:59`: `int(time.time())` takes up to a second off the margin of five.
* A 401 locks the page and leaves the token in storage, so a reload unlocks it again; the
  late 401 of an old click locks a page that was unlocked meanwhile.
* `generators.py:159-169`: a fraud that follows another with no other event in between
  hits the cluster of the first.

## What is not modelled, and why

* The arithmetic of features, model scores, PSI and KS, SHAP, the hyperparameter search
  and the isotonic fit: data to these properties; where it decides something, all
  outcomes are open.
* The generator's random walks and sampled parameters, and the shapes of corrupted
  payloads. None of them fails to parse, so `ingest.rs:77-81` has no action.
* The read routes (`alerts.py`, `models.py`, `/throughput`, `/entities`): stateless
  queries. Charts, formatting, telemetry, metrics and health: nothing depends on them.
* `eval_lib.py` and the training script but for its two files: offline computations.
* Load, chaos and schema scripts, compose file, Prometheus, Grafana, CI: tooling around
  the system. What the chaos scripts do (stop and start services) is in the models as
  crashes and restarts.
* Kafka rebalances (one consumer per group) and the loss of acknowledged data by Kafka
  or ClickHouse. HTTP inserts without a timeout are discussed under fairness.
* A wall clock that is set back: `Utc::now()` only moves forward in the models, and
  `WindowsApart` over a restart rests on that.

## Plan

Every safety invariant and action property of the runs is proved. What is left:

1. The refinements as facts about what the next service reads: that `OrderedFeed` is all
   `FeatureService!Publish` takes as given, stated as a composition of the two modules.
2. The hazards without a property, where a model would say more than the code: a shutdown
   of ml-inference with a full queue, and the episodes of `eval_lib.py`.
