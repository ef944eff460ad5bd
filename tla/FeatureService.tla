--------------------------- MODULE FeatureService ---------------------------
(***************************************************************************)
(* services/feature-service: the consumer task that turns the raw-events   *)
(* topic into one FeatureEvent per entity and tumbling window, publishes    *)
(* it on the features topic and copies features and raw events in batches   *)
(* to ClickHouse.  One tokio task runs everything; the awaits inside it     *)
(* (Kafka send, ClickHouse insert) are the points where time passes, the    *)
(* topic grows, librdkafka commits offsets in its own thread, or the        *)
(* process dies.                                                            *)
(*                                                                          *)
(* A payload is abstracted to its identity: which run of the process took   *)
(* which offset of which entity at which time.  The statistics of a window  *)
(* (vwap, rates, percentiles) stand for that set of events - the last price *)
(* carried over from the window before is left out - and the EWMA baseline  *)
(* for the set of windows folded into it so far.                            *)
(***************************************************************************)
EXTENDS Naturals, Sequences, FiniteSets

CONSTANTS
  Entity,      \* entity keys; raw-events is keyed by them
  WindowSize,  \* whole milliseconds (ticks) after which a window is due: at 2 s market, 5 s
               \* payments, and at the next whole one for a length with a fraction of one
  WindowStep,  \* the ticks flush() moves the boundary on: the length cut down to whole ones
  BatchSize,   \* clickhouse_batch_size
  MaxEvents,   \* bound: messages ever published per entity
  MaxTime,     \* bound: the clock
  MaxStarts    \* bound: times the process is started

ASSUME WindowSizeAssumption == WindowSize \in [Entity -> Nat \ {0}]
ASSUME WindowStepAssumption ==
         \A e \in Entity : WindowStep[e] \in {WindowSize[e] - 1, WindowSize[e]} \ {0}
ASSUME BatchSizeAssumption  == BatchSize \in Nat \ {0}
ASSUME BoundsAssumption     == MaxEvents \in Nat /\ MaxTime \in Nat /\ MaxStarts \in Nat

VARIABLES
  (* Kafka and the clock *)
  log,          \* raw-events: per entity, the messages in offset order
  committed,    \* offset the group resumes from, 0 when it never committed
  topic,        \* features topic
  now,          \* Utc::now(), in ticks
  (* the task's memory *)
  pc,           \* where the task is: down, select!, or one of its awaits
  run,          \* which start of the process this is
  bootPos,      \* consumer position of each entity's partition at the start
  position,     \* next offset recv() returns
  keys,         \* keys of the `windows` HashMap
  windows,      \* the EntityWindow of each key
  sweepNow,     \* `now` captured once by sweep_and_emit
  todo,         \* keys the running sweep has still to visit
  pending,      \* the feature whose send is awaited: a set of at most one
  featuresBatch, rawBatch,
  toFlush,      \* the inserts the task is on its way through
  (* ClickHouse *)
  chFeatures, chRaw,
  (* history *)
  emitted,      \* features flush() returned
  failed,       \* features and events of a batch dropped on an insert error
  lost          \* events in an open window when the process died

kafkaVars  == <<log, committed, topic>>
windowVars == <<bootPos, position, keys, windows>>
sweepVars  == <<sweepNow, todo, pending>>
batchVars  == <<featuresBatch, rawBatch, chFeatures, chRaw, failed>>
vars == <<kafkaVars, now, pc, run, windowVars, sweepVars, batchVars, toFlush,
          emitted, lost>>

Event   == [entity : Entity, offset : Nat, run : Nat, at : Nat]
Window  == [start : Nat, events : SUBSET Event, ewma : SUBSET Nat]
Feature == [entity : Entity, run : Nat, start : Nat, end : Nat,
            events : SUBSET Event, baseline : SUBSET Nat, at : Nat]
PC      == {"down", "select", "sweep", "send", "flush"}

TypeOK ==
  /\ log       \in [Entity -> Seq({"event", "malformed"})]
  /\ committed \in [Entity -> Nat]
  /\ topic     \in SUBSET Feature
  /\ now       \in Nat
  /\ pc        \in PC
  /\ run       \in Nat
  /\ bootPos   \in [Entity -> Nat \ {0}]
  /\ position  \in [Entity -> Nat \ {0}]
  /\ keys      \in SUBSET Entity
  /\ windows   \in [Entity -> Window]
  /\ sweepNow  \in Nat
  /\ todo      \in SUBSET Entity
  /\ pending   \in SUBSET Feature
  /\ featuresBatch \in SUBSET Feature
  /\ rawBatch      \in SUBSET Event
  /\ toFlush       \in SUBSET {"features", "raw"}
  /\ chFeatures    \in SUBSET Feature
  /\ chRaw         \in SUBSET Event
  /\ emitted       \in SUBSET Feature
  /\ failed        \in [features : SUBSET Feature, raw : SUBSET Event]
  /\ lost          \in SUBSET Event
-----------------------------------------------------------------------------
(* EntityWindow *)

NewWindow(t) == [start |-> t, events |-> {}, ewma |-> {}]

Add(w, ev) == [w EXCEPT !.events = @ \cup {ev}]

(* The elapsed milliseconds are compared with the length as it is configured, and
   the boundary moves by that length `as i64`. *)
ShouldFlush_Exactly(e, t) == t = windows[e].start + WindowSize[e]
ShouldFlush_Early(e, t) == t + 1 >= windows[e].start + WindowSize[e]
ShouldFlush(e, t) == t >= windows[e].start + WindowSize[e]

WindowEnd(e) == windows[e].start + WindowStep[e]

(* flush(): the next window opens where this one ends, whether or not it held
   events; only a window with events is observed by the EWMA. *)
Flushed_NoReset(e)  == [windows[e] EXCEPT !.start = WindowEnd(e),
                                          !.ewma = @ \cup {windows[e].start}]
Flushed_Drifting(e) == [start |-> sweepNow, events |-> {},
                        ewma |-> windows[e].ewma \cup {windows[e].start}]
Flushed(e) ==
  [start  |-> WindowEnd(e),
   events |-> {},
   ewma   |-> IF windows[e].events = {} THEN windows[e].ewma
              ELSE windows[e].ewma \cup {windows[e].start}]

(* The feature is scored against the EWMA as it was before this window; the
   first sample seeds the EWMA and is its own baseline. *)
FeatureOf_PostUpdate(e) ==
  [entity |-> e, run |-> run, start |-> windows[e].start, end |-> WindowEnd(e),
   events |-> windows[e].events, at |-> sweepNow,
   baseline |-> windows[e].ewma \cup {windows[e].start}]
FeatureOf(e) ==
  [entity |-> e, run |-> run, start |-> windows[e].start, end |-> WindowEnd(e),
   events |-> windows[e].events, at |-> sweepNow,
   baseline |-> IF windows[e].ewma = {} THEN {windows[e].start} ELSE windows[e].ewma]
-----------------------------------------------------------------------------
(* The environment *)

(* ingestion appends a message; a malformed one fails serde_json. *)
Publish(e, kind) ==
  /\ Len(log[e]) < MaxEvents
  /\ log' = [log EXCEPT ![e] = Append(@, kind)]
  /\ UNCHANGED <<committed, topic, now, pc, run, windowVars, sweepVars, batchVars,
                 toFlush, emitted, lost>>

Tick ==
  /\ now < MaxTime
  /\ now' = now + 1
  /\ UNCHANGED <<kafkaVars, pc, run, windowVars, sweepVars, batchVars, toFlush,
                 emitted, lost>>

(* enable.auto.commit: librdkafka's thread commits what recv() has returned,
   whatever the task is doing with it. *)
AutoCommit ==
  /\ pc # "down"
  /\ committed' = [e \in Entity |-> IF position[e] > bootPos[e] THEN position[e]
                                    ELSE committed[e]]
  /\ UNCHANGED <<log, topic, now, pc, run, windowVars, sweepVars, batchVars, toFlush,
                 emitted, lost>>

(* The process dies: windows, batches and the awaited send are memory. *)
OpenEvents == UNION {windows[e].events : e \in keys}

Crash ==
  /\ pc # "down"
  /\ pc' = "down"
  /\ lost' = lost \cup OpenEvents
  /\ keys' = {} /\ todo' = {} /\ pending' = {} /\ toFlush' = {}
  /\ windows' = [e \in Entity |-> NewWindow(0)]
  /\ featuresBatch' = {} /\ rawBatch' = {}
  /\ UNCHANGED <<kafkaVars, now, run, bootPos, position, sweepNow, chFeatures, chRaw,
                 failed, emitted>>
-----------------------------------------------------------------------------
(* The task *)

(* run(): a partition resumes at its committed offset, and at its end when it
   has none (auto.offset.reset = latest). *)
ResumeAt_Zero(e) == committed[e]
ResumeAt_Next(e) == IF committed[e] = 0 THEN Len(log[e]) + 1 ELSE committed[e] + 1
ResumeAt(e)      == IF committed[e] = 0 THEN Len(log[e]) + 1 ELSE committed[e]

Start ==
  /\ pc = "down" /\ run < MaxStarts
  /\ pc' = "select"
  /\ run' = run + 1
  /\ bootPos' = [e \in Entity |-> ResumeAt(e)]
  /\ position' = bootPos'
  /\ UNCHANGED <<kafkaVars, now, keys, windows, sweepVars, batchVars, toFlush,
                 emitted, lost>>

(* handle_raw_event: a message that does not parse is counted and dropped. *)
HandleRawEvent(e) ==
  /\ pc = "select" /\ position[e] <= Len(log[e])
  /\ position' = [position EXCEPT ![e] = @ + 1]
  /\ LET ev == [entity |-> e, offset |-> position[e], run |-> run, at |-> now]
     IN  \/ /\ log[e][position[e]] = "malformed"
            /\ UNCHANGED <<keys, windows, rawBatch>>
         \/ /\ log[e][position[e]] = "event"
            /\ keys' = keys \cup {e}
            /\ windows' = [windows EXCEPT ![e] = Add(IF e \in keys THEN @ ELSE NewWindow(now), ev)]
            /\ rawBatch' = rawBatch \cup {ev}
  /\ UNCHANGED <<kafkaVars, now, pc, run, bootPos, sweepVars, featuresBatch, chFeatures,
                 chRaw, failed, toFlush, emitted, lost>>

(* sweep_interval.tick(): `now` is read once for the whole sweep. *)
SweepTick ==
  /\ pc = "select"
  /\ pc' = "sweep" /\ sweepNow' = now /\ todo' = keys
  /\ UNCHANGED <<kafkaVars, now, run, windowVars, pending, batchVars, toFlush,
                 emitted, lost>>

(* One turn of sweep_and_emit's loop, up to its await. *)
SweepVisit(e) ==
  /\ pc = "sweep" /\ e \in todo
  /\ todo' = todo \ {e}
  /\ \/ /\ ~ShouldFlush(e, sweepNow)
        /\ UNCHANGED <<windows, pending, emitted, pc>>
     \/ /\ ShouldFlush(e, sweepNow) /\ windows[e].events = {}
        /\ windows' = [windows EXCEPT ![e] = Flushed(e)]
        /\ UNCHANGED <<pending, emitted, pc>>
     \/ /\ ShouldFlush(e, sweepNow) /\ windows[e].events # {}
        /\ windows' = [windows EXCEPT ![e] = Flushed(e)]
        /\ pending' = {FeatureOf(e)}
        /\ emitted' = emitted \cup {FeatureOf(e)}
        /\ pc' = "send"
  /\ UNCHANGED <<kafkaVars, now, run, bootPos, position, keys, sweepNow, batchVars,
                 toFlush, lost>>

(* producer.send(..).await returned: delivered, or an error.  A send whose
   delivery timed out may still have reached the broker, once or - the producer is
   not idempotent - more often: `topic` says which features are there, not how many
   copies.  The row goes to the ClickHouse batch either way. *)
SendFeature_OnlyIfSent ==
  /\ pc = "send"
  /\ pc' = "sweep" /\ pending' = {}
  /\ topic' \in {topic \cup pending, topic}
  /\ featuresBatch' = IF topic' = topic THEN featuresBatch ELSE featuresBatch \cup pending
  /\ UNCHANGED <<log, committed, now, run, windowVars, sweepNow, todo, rawBatch,
                 chFeatures, chRaw, failed, toFlush, emitted, lost>>
SendFeature ==
  /\ pc = "send"
  /\ pc' = "sweep" /\ pending' = {}
  /\ topic' \in {topic \cup pending, topic}
  /\ featuresBatch' = featuresBatch \cup pending
  /\ UNCHANGED <<log, committed, now, run, windowVars, sweepNow, todo, rawBatch,
                 chFeatures, chRaw, failed, toFlush, emitted, lost>>

(* The sweep is over: full batches are inserted before the next select!. *)
SweepDone ==
  /\ pc = "sweep" /\ todo = {}
  /\ toFlush' = {t \in {"features", "raw"} :
                   \/ t = "features" /\ Cardinality(featuresBatch) >= BatchSize
                   \/ t = "raw" /\ Cardinality(rawBatch) >= BatchSize}
  /\ pc' = IF toFlush' = {} THEN "select" ELSE "flush"
  /\ UNCHANGED <<kafkaVars, now, run, windowVars, sweepVars, batchVars, emitted, lost>>

(* ch_flush_interval.tick() *)
FlushTick ==
  /\ pc = "select"
  /\ pc' = "flush" /\ toFlush' = {"features", "raw"}
  /\ UNCHANGED <<kafkaVars, now, run, windowVars, sweepVars, batchVars, emitted, lost>>

FlushedTable(t) == /\ toFlush' = toFlush \ {t}
                   /\ pc' = IF toFlush' = {} THEN "select" ELSE "flush"

(* flush_features: the batch is taken before the insert, so an error drops it.
   chFeatures holds what ClickHouse acknowledged; after an error (`failed`) the
   rows may be there or not. *)
FlushFeatures ==
  /\ pc = "flush" /\ "features" \in toFlush
  /\ FlushedTable("features")
  /\ featuresBatch' = {}
  /\ \/ chFeatures' = chFeatures \cup featuresBatch /\ UNCHANGED failed
     \/ failed' = [failed EXCEPT !.features = @ \cup featuresBatch] /\ UNCHANGED chFeatures
  /\ UNCHANGED <<kafkaVars, now, run, windowVars, sweepVars, rawBatch, chRaw, emitted, lost>>

(* flush_raw_events, always after flush_features. *)
FlushRawEvents ==
  /\ pc = "flush" /\ toFlush = {"raw"}
  /\ FlushedTable("raw")
  /\ rawBatch' = {}
  /\ \/ chRaw' = chRaw \cup rawBatch /\ UNCHANGED failed
     \/ failed' = [failed EXCEPT !.raw = @ \cup rawBatch] /\ UNCHANGED chRaw
  /\ UNCHANGED <<kafkaVars, now, run, windowVars, sweepVars, featuresBatch, chFeatures,
                 emitted, lost>>
-----------------------------------------------------------------------------
Init ==
  /\ log = [e \in Entity |-> <<>>] /\ committed = [e \in Entity |-> 0] /\ topic = {}
  /\ now = 0 /\ pc = "down" /\ run = 0
  /\ bootPos = [e \in Entity |-> 1] /\ position = [e \in Entity |-> 1]
  /\ keys = {} /\ windows = [e \in Entity |-> NewWindow(0)]
  /\ sweepNow = 0 /\ todo = {} /\ pending = {}
  /\ featuresBatch = {} /\ rawBatch = {} /\ toFlush = {}
  /\ chFeatures = {} /\ chRaw = {}
  /\ emitted = {} /\ failed = [features |-> {}, raw |-> {}] /\ lost = {}

Environment ==
  \/ \E e \in Entity, kind \in {"event", "malformed"} : Publish(e, kind)
  \/ Tick \/ AutoCommit \/ Crash

Task ==
  \/ Start \/ SweepTick \/ SendFeature \/ SweepDone
  \/ FlushTick \/ FlushFeatures \/ FlushRawEvents
  \/ \E e \in Entity : HandleRawEvent(e) \/ SweepVisit(e)

Next == Environment \/ Task

Spec == Init /\ [][Next]_vars
-----------------------------------------------------------------------------
(* What the windowing promises *)

EmittedEvents == UNION {f.events : f \in emitted}

Windowed == OpenEvents \cup EmittedEvents \cup lost

(* Every message that parses, between the offset this run started at and its
   position, is in exactly one place: its entity's open window, one emitted
   feature, or the open windows of a process that died - across sweeps,
   catch-up flushes, stalled sends and restarts (handle_raw_event, add, flush). *)
WindowedExactlyOnce ==
  /\ \A e \in Entity : \A o \in bootPos[e] .. (position[e] - 1) :
       log[e][o] = "event" =>
         \E ev \in Windowed : {x \in Windowed : x.entity = e /\ x.offset = o /\ x.run = run} = {ev}
  /\ OpenEvents \cap EmittedEvents = {}
  /\ lost \cap (OpenEvents \cup EmittedEvents) = {}
  /\ \A f, g \in emitted : f # g => f.events \cap g.events = {}
  /\ \A e \in keys : \A ev \in windows[e].events : ev.entity = e /\ ev.run = run
  /\ \A f \in emitted : f.events # {} /\ \A ev \in f.events : ev.entity = f.entity /\ ev.run = f.run

(* A restart of a partition the group has committed never jumps over a message
   that no run has taken. *)
ResumeNeverSkips ==
  [][\A e \in Entity : (run' # run /\ committed[e] > 0) => position'[e] <= position[e]]_vars

(* A feature is never published before its window has passed, no event in it
   arrived before the window opened, and an open window has begun. *)
NeverEarly ==
  /\ \A f \in emitted : f.end <= f.at /\ \A ev \in f.events : f.start <= ev.at
  /\ \A e \in keys : windows[e].start <= now /\ \A ev \in windows[e].events : windows[e].start <= ev.at

(* pipeline.py:56 takes (domain, entity_key, window_end) for the identity of a
   window, and of an alert.  The spans of time the windows of an entity carry lie
   apart: no two features of it overlap, and its open window begins after all of
   them - over windows closed late, windows that held nothing, a boundary step
   shorter than the length, and a restart, which begins where it is.  (The "few
   partially-overlapping windows" consumer.rs:13 expects of a restart overlap in
   what they hold: a message taken before it and not committed is taken again, and
   is then in a second window, of the time of its second arrival.  How far back
   that goes is ResumeNeverSkips; that one run takes nothing twice,
   WindowedExactlyOnce.) *)
WindowsApart ==
  \A f \in emitted :
    /\ \A g \in emitted : (g # f /\ g.entity = f.entity) => f.end <= g.start \/ g.end <= f.start
    /\ f.entity \in keys => f.end <= windows[f.entity].start

(* The times of the windows, as the services behind may rely on them: they are over
   when they are published, and no two of an entity share a moment. *)
WindowTimes == NeverEarly /\ WindowsApart

(* ewma.rs: a sample is scored "against what the model believed before seeing
   it".  The baseline a feature carries is exactly the earlier windows of its
   entity and run that had events, none missing, none empty, never itself -
   save for the first, which has nothing before it. *)
BaselineIsThePast ==
  \A f \in emitted :
    LET earlier == {g \in emitted : g.entity = f.entity /\ g.run = f.run /\ g.start < f.start}
    IN  f.baseline = IF earlier = {} THEN {f.start} ELSE {g.start : g \in earlier}

\* where the features of the running process are: see RowConservation
FeaturesKept ==
  /\ {f \in emitted : f.run = run /\ pc # "down"} \subseteq
       pending \cup featuresBatch \cup chFeatures \cup failed.features
  /\ featuresBatch \cap (chFeatures \cup failed.features \cup pending) = {}
  /\ topic \cup chFeatures \cup featuresBatch \cup pending \subseteq emitted
  /\ (pending # {}) <=> (pc = "send")

\* the same for the flattened copies of the raw events
RawEventsKept ==
  /\ {ev \in Windowed : ev.run = run /\ pc # "down"} \subseteq rawBatch \cup chRaw \cup failed.raw
  /\ rawBatch \cap (chRaw \cup failed.raw) = {}
  /\ chRaw \subseteq Windowed

(* What happened to every feature and every raw event of this run: a feature's
   send is awaited, it waits in the batch, or it went to ClickHouse in an insert
   that succeeded or was reported failed, whether or not Kafka took it; and none
   is inserted a second time. *)
RowConservation == FeaturesKept /\ RawEventsKept

(* consumer.rs:10 calls the commits "at-least-once" and says a restart only
   re-windows events: an event that died in an open window would be taken
   again, or be in some emitted window.  Auto-commit breaks it. *)
AtLeastOnce ==
  \A ev \in lost :
    \/ \E f \in emitted : \E x \in f.events : x.entity = ev.entity /\ x.offset = ev.offset
    \/ \E x \in OpenEvents : x.entity = ev.entity /\ x.offset = ev.offset
    \/ ev.offset >= (IF pc = "down" THEN ResumeAt(ev.entity) ELSE position[ev.entity])

(* All of it together is TumblingWindows ("fixed-cadence boundaries, not drifting
   with call jitter"): the sweeps, the awaits, the commits, the batches and the
   restarts change nothing about the windows but when they close and what a
   death takes with it. *)
Tumbling == INSTANCE TumblingWindows WITH
  Arrival <- [entity : Entity, offset : 1 .. MaxEvents, run : 1 .. MaxStarts, at : 0 .. MaxTime],
  clock   <- now,
  current <- [e \in Entity |->
                {[start |-> windows[k].start, events |-> windows[k].events] : k \in keys \cap {e}}],
  closed  <- {[entity |-> f.entity, start |-> f.start, events |-> f.events] : f \in emitted},
  gone    <- lost
WindowsTumble == Tumbling!WindowsSpec

(* Every event in a window that ends within the modelled time is eventually in
   a feature whose row was handed to ClickHouse, unless the process dies. *)
EventuallyStored ==
  \A e \in Entity, o \in 1 .. MaxEvents :
    (/\ windows[e].start + WindowSize[e] <= MaxTime
     /\ \E ev \in windows[e].events : ev.offset = o)
      ~> (\/ pc = "down"
          \/ \E f \in chFeatures \cup failed.features : \E ev \in f.events :
               ev.entity = e /\ ev.offset = o)

(* tokio::select! polls its ready branches in random order, so a timer that
   keeps coming due is picked again and again; an await of this task ends
   (sends time out, ClickHouse answers). *)
Fairness ==
  /\ WF_vars(Tick)
  /\ SF_vars(SweepTick) /\ SF_vars(FlushTick)
  /\ \A e \in Entity : WF_vars(SweepVisit(e))
  /\ WF_vars(SendFeature) /\ WF_vars(SweepDone)
  /\ WF_vars(FlushFeatures) /\ WF_vars(FlushRawEvents)

FairSpec == Spec /\ Fairness
=============================================================================
