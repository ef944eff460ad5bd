---------------------------- MODULE MLInference ----------------------------
(***************************************************************************)
(* services/ml-inference: three asyncio tasks and one worker thread.        *)
(*   _consume_loop          takes a feature window, has it scored on the    *)
(*                          worker, produces the alert, queues it;          *)
(*   _clickhouse_flush_loop drains the queue in batches into risk.alerts;   *)
(*   _model_metrics_loop    has each domain's drift checked on the same     *)
(*                          worker and publishes the model metrics.         *)
(* Every await is a point where the other tasks, the worker, aiokafka's     *)
(* auto-commit or the death of the process come in between.                 *)
(*                                                                          *)
(* A window is its domain and its offset in the features topic; one         *)
(* partition per domain.  Scores are abstracted to what happens with a      *)
(* window: no alert, an alert, or an exception.                             *)
(***************************************************************************)
EXTENDS Naturals, Sequences, FiniteSets, SequencesExt, AlertStore

CONSTANTS
  Domains,       \* DOMAINS, the order in which the metrics loop visits them
  FlushBatch,    \* clickhouse_batch_size
  BufferSize,    \* buffer_size of the rolling models
  MinBuffer,     \* min_buffer_for_training
  RetrainEvery,  \* retrain_every_n_windows
  MinLive,       \* vectors a drift check needs (10)
  MaxWindows,    \* bound: messages ever published per domain
  MaxTime,       \* bound: the clock
  MaxStarts,     \* bound: times the process is started
  MaxChecks      \* bound: rounds of the model-metrics loop

ASSUME DomainsAssumption == Domains \in Seq(STRING) /\ Domains # <<>> /\ IsInjective(Domains)
ASSUME SizesAssumption ==
  /\ {FlushBatch, BufferSize, MinBuffer, RetrainEvery, MinLive} \subseteq Nat \ {0}
  /\ MinBuffer <= BufferSize
ASSUME LimitsAssumption == {MaxWindows, MaxTime, MaxStarts, MaxChecks} \subseteq Nat

VARIABLES
  (* Kafka and the clock *)
  features,   \* features topic: per domain, the messages in offset order
  committed,  \* offset the group resumes from, 0 when it never committed
  now, run,
  (* _consume_loop *)
  bootPos, position,
  consumer,   \* down, next (async for), scoring, sending, dead
  item,       \* the message it is handling: a set of at most one
  sending,    \* the alert it is producing: a set of at most one
  (* the other loops *)
  alertQueue, \* asyncio.Queue of alerts
  flush,      \* down, waiting, inserting
  batch,      \* alerts the flush loop has taken
  reporter,   \* down, sleeping, checking, sending, inserting
  domainAt,   \* index in Domains of the domain it reports on
  rounds,     \* rounds it has begun, for the bound
  (* the worker thread and the pipeline it runs *)
  jobs,       \* _pipeline_executor's queue
  busy,       \* the jobs being run
  models,     \* per domain: the two rolling detectors and the drift baseline
  scored,     \* per domain: _DomainMetricsAccumulator.events_scored
  driftFlag,  \* per domain: _last_drift_flag
  (* history *)
  handled,    \* what became of each message a run took
  dropped,    \* alerts of a batch whose insert failed
  observed,   \* per domain and rolling detector: the windows it took in this run
  raised,     \* the places in these at which a fit raised
  recorded, reported  \* per domain: scores recorded, and reported

kafkaVars    == <<features, committed, now, run>>
consumerVars == <<bootPos, position, consumer, item, sending, handled>>
flushVars    == <<flush, batch, dropped>>
reporterVars == <<reporter, domainAt, rounds>>
modelVars    == <<models, driftFlag, observed, raised>>
countVars    == <<scored, recorded, reported>>
storeVars    == <<rows, written>>
vars == <<kafkaVars, consumerVars, alertQueue, flushVars, reporterVars, jobs, busy,
          modelVars, countVars, storeVars>>

Domain  == ToSet(Domains)
Message == [domain : Domain, offset : Nat \ {0}]
Outcome == {"malformed", "error", "quiet", "alert"}
Row     == [window : Message, run : Nat, ts : Nat]
ScoreJob == [kind : {"score"}, message : Message, step : {"observe", "record"}, count : {0}]
CheckJob == [kind : {"check"}, domain : Domain, step : {"drift", "read", "reset"}, count : Nat]
Detector == {"iso", "ae"}   \* RollingIsolationForest, RollingAutoencoder
Rolling  == [buffer : Seq(Nat), sinceRetrain : Nat, fitted : Seq(Nat)]
Model    == [iso : Rolling, ae : Rolling, baseline : Seq(Nat)]
TakenBy  == [Detector -> Seq(Nat)]
RaisedAt == [Detector \cup {"either"} -> SUBSET Nat]

TypeOK ==
  /\ features \in [Domain -> Seq({"window", "malformed"})]
  /\ committed \in [Domain -> Nat] /\ now \in Nat /\ run \in Nat
  /\ bootPos \in [Domain -> Nat \ {0}] /\ position \in [Domain -> Nat \ {0}]
  /\ consumer \in {"down", "next", "scoring", "sending", "dead"}
  /\ item \in SUBSET Message /\ Cardinality(item) <= 1
  /\ sending \in SUBSET Row
  /\ alertQueue \in Seq(Row) /\ batch \in Seq(Row)
  /\ flush \in {"down", "waiting", "inserting"}
  /\ reporter \in {"down", "sleeping", "checking", "sending", "inserting"}
  /\ domainAt \in 1 .. Len(Domains) /\ rounds \in Nat
  /\ jobs \in Seq(ScoreJob \cup CheckJob) /\ busy \in SUBSET (ScoreJob \cup CheckJob)
  /\ models \in [Domain -> Model]
  /\ driftFlag \in [Domain -> BOOLEAN]
  /\ handled \in SUBSET [message : Message, run : Nat, outcome : Outcome]
  /\ observed \in [Domain -> TakenBy] /\ raised \in [Domain -> RaisedAt]
  /\ {scored, recorded, reported} \subseteq [Domain -> Nat]
  /\ {rows, written, dropped} \subseteq SUBSET Row
-----------------------------------------------------------------------------
(* The environment *)

(* feature-service publishes a window; one that FeatureEvent rejects (a NaN
   score arrives as null) is malformed. *)
Publish(d, kind) ==
  /\ Len(features[d]) < MaxWindows
  /\ features' = [features EXCEPT ![d] = Append(@, kind)]
  /\ UNCHANGED <<committed, now, run, consumerVars, alertQueue, flushVars, reporterVars,
                 jobs, busy, modelVars, countVars, storeVars>>

Tick ==
  /\ now < MaxTime
  /\ now' = now + 1
  /\ UNCHANGED <<features, committed, run, consumerVars, alertQueue, flushVars,
                 reporterVars, jobs, busy, modelVars, countVars, storeVars>>

(* aiokafka commits the position of what the iterator returned, whatever the
   loop is doing with it. *)
Position == [d \in Domain |-> IF position[d] > bootPos[d] THEN position[d] ELSE committed[d]]

AutoCommit ==
  /\ consumer # "down"
  /\ committed' = Position
  /\ UNCHANGED <<features, now, run, consumerVars, alertQueue, flushVars, reporterVars,
                 jobs, busy, modelVars, countVars, storeVars>>

ClickHouseMerge ==
  /\ Merge
  /\ UNCHANGED <<kafkaVars, consumerVars, alertQueue, flushVars, reporterVars, jobs, busy,
                 modelVars, countVars>>

EmptyRolling  == [buffer |-> <<>>, sinceRetrain |-> 0, fitted |-> <<>>]
EmptyModel    == [iso |-> EmptyRolling, ae |-> EmptyRolling, baseline |-> <<>>]
NothingTaken  == [d \in Domain |-> [r \in Detector |-> <<>>]]
NothingRaised == [d \in Domain |-> [r \in Detector \cup {"either"} |-> {}]]

(* Everything the process holds is gone; nothing drains the queue on the way
   out, in a shutdown neither, and an insert under way may still be applied.
   consumer.stop() commits once more, a crash does not. *)
Stop(commits) ==
  /\ consumer # "down"
  /\ committed' = IF commits THEN Position ELSE committed
  /\ consumer' = "down" /\ item' = {} /\ sending' = {}
  /\ alertQueue' = <<>> /\ flush' = "down" /\ batch' = <<>>
  /\ reporter' = "down" /\ domainAt' = 1
  /\ jobs' = <<>> /\ busy' = {}
  /\ models' = [d \in Domain |-> EmptyModel]
  /\ driftFlag' = [d \in Domain |-> FALSE]
  /\ observed' = NothingTaken /\ raised' = NothingRaised
  /\ scored' = [d \in Domain |-> 0] /\ recorded' = scored' /\ reported' = scored'
  /\ rows' \in {rows, rows \cup ToSet(batch)}
  /\ UNCHANGED <<features, now, run, bootPos, position, rounds, handled, dropped, written>>

Crash    == Stop(FALSE)
Shutdown == Stop(TRUE)

(* An error inside the iterator itself (the deserializer, the Kafka client) is
   outside the loop's try: the task ends, _dead_tasks names it and /health
   answers 503 until somebody restarts the process. *)
ConsumerDies ==
  /\ consumer = "next"
  /\ consumer' = "dead"
  /\ UNCHANGED <<kafkaVars, bootPos, position, item, sending, handled, alertQueue, flushVars,
                 reporterVars, jobs, busy, modelVars, countVars, storeVars>>
-----------------------------------------------------------------------------
(* lifespan: auto_offset_reset is latest. *)
ResumeAt_Zero(d) == committed[d]
ResumeAt(d) == IF committed[d] = 0 THEN Len(features[d]) + 1 ELSE committed[d]

Start ==
  /\ consumer = "down" /\ run < MaxStarts
  /\ run' = run + 1
  /\ bootPos' = [d \in Domain |-> ResumeAt(d)] /\ position' = bootPos'
  /\ consumer' = "next" /\ flush' = "waiting" /\ reporter' = "sleeping"
  /\ UNCHANGED <<features, committed, now, item, sending, handled, alertQueue, batch,
                 dropped, domainAt, rounds, jobs, busy, modelVars, countVars, storeVars>>
-----------------------------------------------------------------------------
(* _consume_loop *)

Outcomes(m, o) == handled \cup {[message |-> m, run |-> run, outcome |-> o]}

(* The next message: malformed ones are counted, the others go to the worker. *)
TakeMessage(d) ==
  /\ consumer = "next" /\ position[d] <= Len(features[d])
  /\ position' = [position EXCEPT ![d] = @ + 1]
  /\ LET m == [domain |-> d, offset |-> position[d]]
     IN  \/ /\ features[d][position[d]] = "malformed"
            /\ handled' = Outcomes(m, "malformed")
            /\ UNCHANGED <<consumer, item, jobs>>
         \/ /\ features[d][position[d]] = "window"
            /\ consumer' = "scoring" /\ item' = {m}
            /\ jobs' = Append(jobs, [kind |-> "score", message |-> m, step |-> "observe", count |-> 0])
            /\ UNCHANGED handled
  /\ UNCHANGED <<kafkaVars, bootPos, sending, alertQueue, flushVars, reporterVars, busy,
                 modelVars, countVars, storeVars>>

(* The alert is on the topic, or sending it failed: either way it is queued
   for ClickHouse. *)
SendAlert_Lossy ==
  /\ consumer = "sending"
  /\ \E sent \in BOOLEAN : alertQueue' = IF sent THEN alertQueue \o SetToSeq(sending) ELSE alertQueue
  /\ consumer' = "next" /\ sending' = {}
  /\ UNCHANGED <<kafkaVars, bootPos, position, item, handled, flushVars, reporterVars, jobs,
                 busy, modelVars, countVars, storeVars>>
SendAlert ==
  /\ consumer = "sending"
  /\ alertQueue' = alertQueue \o SetToSeq(sending)
  /\ consumer' = "next" /\ sending' = {}
  /\ UNCHANGED <<kafkaVars, bootPos, position, item, handled, flushVars, reporterVars, jobs,
                 busy, modelVars, countVars, storeVars>>
-----------------------------------------------------------------------------
(* _pipeline_executor: a thread that runs the jobs in the order of submission.
   A job is several steps, and between them another thread could run. *)

Workers_Pool == 2
Workers == 1

BeginJob ==
  /\ jobs # <<>> /\ Cardinality(busy) < Workers
  /\ busy' = busy \cup {Head(jobs)} /\ jobs' = Tail(jobs)
  /\ UNCHANGED <<kafkaVars, consumerVars, alertQueue, flushVars, reporterVars, modelVars,
                 countVars, storeVars>>

Advance(job, step, count) ==
  busy' = (busy \ {job}) \cup {[job EXCEPT !.step = step, !.count = count]}

(* RollingIsolationForest.observe() and RollingAutoencoder.observe(): the window is
   in the buffer and counted before the fit, which replaces model and counter only
   once it is over. *)
Rolled(buffer, w) ==
  IF Len(buffer) < BufferSize THEN Append(buffer, w) ELSE Append(Tail(buffer), w)

MustRetrain_Late(m, buffer) ==
  Len(buffer) >= MinBuffer /\ (m.fitted = <<>> \/ m.sinceRetrain >= RetrainEvery)
MustRetrain(m, buffer) ==
  Len(buffer) >= MinBuffer /\ (m.fitted = <<>> \/ m.sinceRetrain + 1 >= RetrainEvery)

ObserveRolling(m, w, raises) ==
  LET buffer == Rolled(m.buffer, w)
      fits   == MustRetrain(m, buffer) /\ ~raises
  IN  [buffer       |-> buffer,
       sinceRetrain |-> IF fits THEN 0 ELSE m.sinceRetrain + 1,
       fitted       |-> IF fits THEN buffer ELSE m.fitted]

(* set_baseline: the forest's buffer, once, by the first window that comes this far
   with the forest ready. *)
Baseline_Moving(model, iso) == IF iso.fitted # <<>> THEN iso.buffer ELSE model.baseline
Baseline(model, iso) ==
  IF model.baseline = <<>> /\ iso.fitted # <<>> THEN iso.buffer ELSE model.baseline

(* process() up to the scores.  `raiser` is the detector whose fit raises, "none"
   when both return: behind a fit that raises nothing of the window is done. *)
Observe(model, w, raiser) ==
  LET iso == ObserveRolling(model.iso, w, raiser = "iso")
  IN  [iso      |-> iso,
       ae       |-> IF raiser = "iso" THEN model.ae ELSE ObserveRolling(model.ae, w, raiser = "ae"),
       baseline |-> IF raiser = "none" THEN Baseline(model, iso) ELSE model.baseline]

MayRaise(model, w) ==
  {r \in Detector : MustRetrain(model[r], Rolled(model[r].buffer, w))}

Observed(d, w, raiser) ==
  LET takes == IF raiser = "iso" THEN {"iso"} ELSE Detector
      place(r) == IF r = "ae" THEN Len(observed[d].ae) + 1 ELSE Len(observed[d].iso) + 1
  IN  /\ models' = [models EXCEPT ![d] = Observe(@, w, raiser)]
      /\ observed' = [observed EXCEPT ![d] =
           [r \in Detector |-> IF r \in takes THEN Append(@[r], w) ELSE @[r]]]
      /\ raised' = [raised EXCEPT ![d] =
           [r \in Detector \cup {"either"} |->
              IF raiser # "none" /\ r \in {raiser, "either"} THEN @[r] \cup {place(r)} ELSE @[r]]]

ObserveWindow(job) ==
  /\ job.kind = "score" /\ job.step = "observe"
  /\ Observed(job.message.domain, job.message.offset, "none")
  /\ Advance(job, "record", 0)
  /\ UNCHANGED <<kafkaVars, consumerVars, alertQueue, flushVars, reporterVars, jobs,
                 driftFlag, countVars, storeVars>>

(* The rest of process(): the score is counted, then the rules decide, or the
   explanation raises. *)
RecordScore(job) ==
  /\ job.kind = "score" /\ job.step = "record"
  /\ LET d == job.message.domain
     IN  /\ scored' = [scored EXCEPT ![d] = @ + 1]
         /\ recorded' = [recorded EXCEPT ![d] = @ + 1]
  /\ busy' = busy \ {job} /\ item' = {}
  /\ \/ /\ \E o \in {"quiet", "error"} : handled' = Outcomes(job.message, o)
        /\ consumer' = "next" /\ UNCHANGED sending
     \/ /\ handled' = Outcomes(job.message, "alert") /\ consumer' = "sending"
        /\ sending' = {[window |-> job.message, run |-> run, ts |-> now]}
  /\ UNCHANGED <<kafkaVars, bootPos, position, alertQueue, flushVars, reporterVars, jobs,
                 modelVars, reported, storeVars>>

(* Something raises, and the consume loop logs it and goes on: to_vector before the
   window reached a buffer, a fit with the window in one buffer or in both, or a
   detector's score() after both. *)
ScoreRaises_Retries(job) ==
  /\ job.kind = "score"
  /\ busy' = busy \ {job} /\ jobs' = Append(jobs, job)
  /\ handled' = Outcomes(job.message, "error")
  /\ UNCHANGED <<kafkaVars, bootPos, position, consumer, item, sending, alertQueue,
                 flushVars, reporterVars, modelVars, countVars, storeVars>>
ScoreRaises_Kills(job) ==
  /\ job.kind = "score"
  /\ busy' = busy \ {job} /\ item' = {}
  /\ handled' = Outcomes(job.message, "error") /\ consumer' = "scoring"
  /\ UNCHANGED <<kafkaVars, bootPos, position, sending, alertQueue, flushVars, reporterVars,
                 jobs, modelVars, countVars, storeVars>>
ScoreRaises(job) ==
  /\ job.kind = "score"
  /\ \/ UNCHANGED <<models, observed, raised>>
     \/ /\ job.step = "observe"
        /\ \E r \in MayRaise(models[job.message.domain], job.message.offset) :
             Observed(job.message.domain, job.message.offset, r)
  /\ busy' = busy \ {job} /\ item' = {}
  /\ handled' = Outcomes(job.message, "error") /\ consumer' = "next"
  /\ UNCHANGED <<kafkaVars, bootPos, position, sending, alertQueue, flushVars, reporterVars,
                 jobs, driftFlag, countVars, storeVars>>

(* check_drift_and_build_metrics: the flag, then the counters, then reset(). *)
CheckDrift(job) ==
  /\ job.kind = "check" /\ job.step = "drift"
  /\ LET d == job.domain
         comparable == models[d].baseline # <<>> /\ Len(models[d].iso.buffer) >= MinLive
     IN  \E drifted \in BOOLEAN :
           /\ drifted => comparable
           /\ driftFlag' = [driftFlag EXCEPT ![d] = drifted]
  /\ Advance(job, "read", 0)
  /\ UNCHANGED <<kafkaVars, consumerVars, alertQueue, flushVars, reporterVars, jobs, models,
                 observed, raised, countVars, storeVars>>

ReadCounters(job) ==
  /\ job.kind = "check" /\ job.step = "read"
  /\ Advance(job, "reset", scored[job.domain])
  /\ UNCHANGED <<kafkaVars, consumerVars, alertQueue, flushVars, reporterVars, jobs,
                 modelVars, countVars, storeVars>>

ResetCounters(job) ==
  /\ job.kind = "check" /\ job.step = "reset"
  /\ scored' = [scored EXCEPT ![job.domain] = 0]
  /\ reported' = [reported EXCEPT ![job.domain] = @ + job.count]
  /\ busy' = busy \ {job}
  /\ reporter' = "sending"
  /\ UNCHANGED <<kafkaVars, consumerVars, alertQueue, flushVars, domainAt, rounds, jobs,
                 modelVars, recorded, storeVars>>
-----------------------------------------------------------------------------
(* _model_metrics_loop *)

SubmitCheck(i) == jobs' = Append(jobs, [kind |-> "check", domain |-> Domains[i],
                                        step |-> "drift", count |-> 0])

(* asyncio.sleep is over. *)
WakeReporter ==
  /\ reporter = "sleeping" /\ rounds < MaxChecks
  /\ reporter' = "checking" /\ domainAt' = 1 /\ rounds' = rounds + 1
  /\ SubmitCheck(1)
  /\ UNCHANGED <<kafkaVars, consumerVars, alertQueue, flushVars, busy, modelVars, countVars,
                 storeVars>>

(* On to the next domain, or back to sleep. *)
NextDomain ==
  \/ /\ domainAt < Len(Domains)
     /\ domainAt' = domainAt + 1 /\ reporter' = "checking"
     /\ SubmitCheck(domainAt + 1)
  \/ /\ domainAt = Len(Domains)
     /\ reporter' = "sleeping"
     /\ UNCHANGED <<domainAt, jobs>>

CheckRaises(job) ==
  /\ job.kind = "check" /\ job.step = "drift"
  /\ busy' = busy \ {job}
  /\ NextDomain
  /\ UNCHANGED <<kafkaVars, consumerVars, alertQueue, flushVars, rounds, modelVars,
                 countVars, storeVars>>

(* The event goes to Kafka, then to ClickHouse; a failure of either is logged. *)
SendMetrics ==
  /\ reporter = "sending"
  /\ reporter' = "inserting"
  /\ UNCHANGED <<kafkaVars, consumerVars, alertQueue, flushVars, domainAt, rounds, jobs,
                 busy, modelVars, countVars, storeVars>>

InsertMetrics ==
  /\ reporter = "inserting"
  /\ NextDomain
  /\ UNCHANGED <<kafkaVars, consumerVars, alertQueue, flushVars, rounds, busy, modelVars,
                 countVars, storeVars>>
-----------------------------------------------------------------------------
(* _clickhouse_flush_loop *)

Taken(q) == SubSeq(q, 1, IF Len(q) < FlushBatch THEN Len(q) ELSE FlushBatch)
Left(q)  == SubSeq(q, Len(Taken(q)) + 1, Len(q))

TakeBatch ==
  /\ flush = "waiting" /\ alertQueue # <<>>
  /\ batch' = Taken(alertQueue) /\ alertQueue' = Left(alertQueue)
  /\ flush' = "inserting"
  /\ UNCHANGED <<kafkaVars, consumerVars, dropped, reporterVars, jobs, busy, modelVars,
                 countVars, storeVars>>

(* An error drops the batch. *)
InsertBatch_Dies ==
  /\ flush = "inserting"
  /\ \/ InsertAcknowledged(ToSet(batch)) /\ flush' = "waiting" /\ UNCHANGED dropped
     \/ /\ InsertFailed(ToSet(batch)) /\ flush' = "down"
        /\ dropped' = dropped \cup ToSet(batch)
  /\ batch' = <<>>
  /\ UNCHANGED <<kafkaVars, consumerVars, alertQueue, reporterVars, jobs, busy, modelVars,
                 countVars>>
InsertBatch ==
  /\ flush = "inserting"
  /\ \/ InsertAcknowledged(ToSet(batch)) /\ UNCHANGED dropped
     \/ InsertFailed(ToSet(batch)) /\ dropped' = dropped \cup ToSet(batch)
  /\ batch' = <<>> /\ flush' = "waiting"
  /\ UNCHANGED <<kafkaVars, consumerVars, alertQueue, reporterVars, jobs, busy, modelVars,
                 countVars>>
-----------------------------------------------------------------------------
Init ==
  /\ features = [d \in Domain |-> <<>>] /\ committed = [d \in Domain |-> 0]
  /\ now = 0 /\ run = 0
  /\ bootPos = [d \in Domain |-> 1] /\ position = bootPos
  /\ consumer = "down" /\ item = {} /\ sending = {} /\ alertQueue = <<>>
  /\ flush = "down" /\ batch = <<>> /\ reporter = "down" /\ domainAt = 1 /\ rounds = 0
  /\ jobs = <<>> /\ busy = {}
  /\ models = [d \in Domain |-> EmptyModel] /\ driftFlag = [d \in Domain |-> FALSE]
  /\ scored = [d \in Domain |-> 0] /\ recorded = scored /\ reported = scored
  /\ handled = {} /\ dropped = {} /\ observed = NothingTaken /\ raised = NothingRaised
  /\ rows = {} /\ written = {}

Environment ==
  \/ \E d \in Domain, kind \in {"window", "malformed"} : Publish(d, kind)
  \/ Tick \/ AutoCommit \/ ClickHouseMerge \/ Crash \/ Shutdown \/ ConsumerDies

Loops ==
  \/ Start \/ SendAlert \/ TakeBatch \/ InsertBatch
  \/ WakeReporter \/ SendMetrics \/ InsertMetrics
  \/ \E d \in Domain : TakeMessage(d)

Worker ==
  \/ BeginJob
  \/ \E job \in busy : \/ ObserveWindow(job) \/ RecordScore(job) \/ ScoreRaises(job)
                       \/ CheckDrift(job) \/ ReadCounters(job) \/ ResetCounters(job)
                       \/ CheckRaises(job)

Next == Environment \/ Loops \/ Worker

Spec == Init /\ [][Next]_vars
-----------------------------------------------------------------------------
(* Where the messages and the alerts of the running process are *)

OutcomesOf(m) == {h \in handled : h.message = m /\ h.run = run}

(* Every message the run took is being handled or has exactly one outcome:
   no window is scored twice by one run, none disappears between the worker
   and the event loop. *)
EveryMessageAccounted ==
  \A d \in Domain : \A o \in bootPos[d] .. (position[d] - 1) :
    LET m == [domain |-> d, offset |-> o]
    IN  consumer # "down" =>
          Cardinality(OutcomesOf(m)) + Cardinality(item \cap {m}) = 1

(* An alert of the running process is in exactly one place on its way to
   ClickHouse: being produced, queued, in the batch, acknowledged or dropped -
   whether or not Kafka took it ("ClickHouse still gets the row"). *)
AlertConservation ==
  LET alerts == {h.message : h \in {x \in handled : x.run = run /\ x.outcome = "alert"}}
      places(m) == <<{a \in sending : a.window = m}, {a \in ToSet(alertQueue) : a.window = m},
                     {a \in ToSet(batch) : a.window = m},
                     {a \in written : a.window = m /\ a.run = run},
                     {a \in dropped : a.window = m /\ a.run = run}>>
  IN  /\ consumer # "down" =>
           \A m \in alerts :
             \E i \in 1 .. 5 : /\ Cardinality(places(m)[i]) = 1
                               /\ \A j \in (1 .. 5) \ {i} : places(m)[j] = {}
      /\ IsInjective(alertQueue \o batch)

LastOf(s, n) == SubSeq(s, (IF Len(s) > n THEN Len(s) - n ELSE 0) + 1, Len(s))

\* the buffer as it was when the k-th of the windows of obs came
BufferAt(obs, k) == LastOf(SubSeq(obs, 1, k), BufferSize)

\* a fit is the buffer of a moment, and was due again at no window since without
\* being tried
FitIsRecent(m, obs, tries) ==
  IF m.fitted = <<>>
  THEN MinBuffer .. Len(obs) \subseteq tries
  ELSE \E k \in MinBuffer .. Len(obs) :
         m.fitted = BufferAt(obs, k) /\ (k + RetrainEvery) .. Len(obs) \subseteq tries

\* the baseline is the buffer of the first window no fit stopped
BaselineIsFirst(baseline, obs, stopped) ==
  IF baseline = <<>>
  THEN MinBuffer .. Len(obs) \subseteq stopped
  ELSE \E k \in (MinBuffer .. Len(obs)) \ stopped :
         baseline = BufferAt(obs, k) /\ MinBuffer .. (k - 1) \subseteq stopped

(* What the models are.  A detector's fit is the last BufferSize windows it took up
   to some window, and is RetrainEvery windows old or older only while every fit
   since has raised: one that raises is tried again with each window.  The drift
   baseline is the forest's buffer at the first window, from the MinBuffer-th on,
   that neither fit stopped, and stays that.  ("frozen at first fit", says
   drift.py:5: a first fit of the autoencoder that raises puts it off.)  Restarts,
   windows that raise elsewhere and the drift checks in between change nothing. *)
ModelsTrackTraffic ==
  \A d \in Domain :
    /\ \A r \in Detector : FitIsRecent(models[d][r], observed[d][r], raised[d][r])
    /\ BaselineIsFirst(models[d].baseline, observed[d].iso, raised[d].either)

(* Every score recorded is in exactly one model-metrics event or still in the
   accumulator, while scoring and reporting interleave: main.py:32 says the
   single worker makes that safe without a lock. *)
ScoresReportedOnce ==
  \A d \in Domain : recorded[d] = reported[d] + scored[d]

(* A window the consume loop has handed to the worker gets its outcome, an
   exception in a detector included, and the loop goes on to the next message
   that is there ("must not silently kill Kafka consumption"). *)
ConsumptionContinues ==
  \A d \in Domain, o \in 1 .. MaxWindows :
    (consumer \in {"next", "scoring", "sending"} /\ position[d] = o /\ o <= Len(features[d]))
      ~> (position[d] > o \/ consumer \in {"down", "dead"})

(* An alert the pipeline returned is in ClickHouse or in an insert reported failed in
   the end, however the messages, alerts and batches around it come, and whether
   the consume loop goes on or dies - unless the process stops: a shutdown discards
   what is queued (lifespan cancels the flush loop and drains nothing). *)
AlertsSettle ==
  \A d \in Domain, o \in 1 .. MaxWindows :
    LET of(rowset) == \E a \in rowset : a.window = [domain |-> d, offset |-> o] /\ a.run = run
    IN  of(sending) ~> (of(written \cup dropped) \/ consumer = "down")

(* The event loop runs every task that is ready, the worker the jobs it has;
   produce and insert calls time out. A consumer with several partitions
   serves each of them. *)
Fairness ==
  /\ \A d \in Domain : SF_vars(TakeMessage(d))
  /\ WF_vars(SendAlert) /\ WF_vars(Worker)
  /\ WF_vars(TakeBatch) /\ WF_vars(InsertBatch)
  /\ WF_vars(SendMetrics) /\ WF_vars(InsertMetrics)

FairSpec == Spec /\ Fairness
=============================================================================
