----------------------- MODULE FeatureService_proofs -----------------------
(***************************************************************************)
(* Theorems about FeatureService, for every set of entities, every window   *)
(* size, batch size and bound.                                              *)
(***************************************************************************)
EXTENDS FeatureService, TLAPS

(* The operators on windows keep their types. *)
LEMMA WindowTypes ==
  ASSUME TypeOK, NEW e \in Entity
  PROVE  /\ WindowSize[e] \in Nat \ {0}
         /\ windows[e].start < WindowEnd(e)
         /\ WindowEnd(e) <= windows[e].start + WindowSize[e]
         /\ windows[e] \in Window
         /\ windows[e].start \in Nat
         /\ WindowEnd(e) \in Nat
         /\ Flushed(e) \in Window
         /\ FeatureOf(e) \in Feature
         /\ NewWindow(now) \in Window
         /\ ResumeAt(e) \in Nat \ {0}
<1>1. /\ WindowSize[e] \in Nat \ {0}
      /\ windows[e] \in Window
      /\ windows[e].start \in Nat /\ windows[e].events \in SUBSET Event
      /\ windows[e].ewma \in SUBSET Nat
  BY WindowSizeAssumption DEF TypeOK, Window
<1>2. /\ WindowEnd(e) \in Nat /\ windows[e].start < WindowEnd(e)
      /\ WindowEnd(e) <= windows[e].start + WindowSize[e]
  <2>1. WindowStep[e] \in {WindowSize[e] - 1, WindowSize[e]} \ {0}
    BY WindowStepAssumption
  <2>2. PICK s, n, t : s = windows[e].start /\ n = WindowSize[e] /\ t = WindowStep[e]
    OBVIOUS
  <2>3. s \in Nat /\ n \in Nat \ {0} /\ (t = n \/ t = n - 1) /\ t # 0
    BY <1>1, <2>1, <2>2
  <2>4. s + t \in Nat /\ s < s + t /\ s + t <= s + n
    BY <2>3
  <2> QED BY <2>2, <2>4 DEF WindowEnd
<1>3. Flushed(e) \in Window
  BY <1>1, <1>2 DEF Flushed, Window
<1>4. FeatureOf(e) \in Feature
  BY <1>1, <1>2 DEF FeatureOf, Feature, TypeOK
<1>5. NewWindow(now) \in Window
  BY DEF NewWindow, Window, TypeOK
<1>6. ResumeAt(e) \in Nat \ {0}
  BY DEF ResumeAt, TypeOK
<1> QED BY <1>1, <1>2, <1>3, <1>4, <1>5, <1>6

\* The types at the start.
LEMMA InitTyped == Init => TypeOK
<1> SUFFICES ASSUME Init PROVE TypeOK
  OBVIOUS
<1>1. log \in [Entity -> Seq({"event", "malformed"})]
  BY DEF Init
<1>2. windows \in [Entity -> Window]
  BY DEF Init, NewWindow, Window
<1> QED BY <1>1, <1>2 DEF Init, TypeOK, PC

(* Every variable of the stage keeps its type: offsets stay positive, the
   awaited send and the batches hold features, the windows are EntityWindows. *)
THEOREM TypeCorrect == Spec => []TypeOK
<1>1. Init => TypeOK
  BY InitTyped
<1>2. TypeOK /\ [Next]_vars => TypeOK'
  <2> SUFFICES ASSUME TypeOK, [Next]_vars PROVE TypeOK'
    OBVIOUS
  <2> USE DEF kafkaVars, windowVars, sweepVars, batchVars
  <2>1. ASSUME NEW e \in Entity, NEW kind \in {"event", "malformed"}, Publish(e, kind)
        PROVE TypeOK'
    <3>1. log' \in [Entity -> Seq({"event", "malformed"})]
      BY <2>1 DEF Publish, TypeOK
    <3> QED BY <2>1, <3>1 DEF Publish, TypeOK
  <2>2. CASE Tick
    BY <2>2 DEF Tick, TypeOK
  <2>3. CASE AutoCommit
    <3>1. committed' \in [Entity -> Nat]
      BY <2>3 DEF AutoCommit, TypeOK
    <3> QED BY <2>3, <3>1 DEF AutoCommit, TypeOK
  <2>4. CASE Crash
    <3>1. windows' \in [Entity -> Window]
      BY <2>4 DEF Crash, NewWindow, Window
    <3>2. OpenEvents \in SUBSET Event
      BY DEF OpenEvents, TypeOK, Window
    <3> QED BY <2>4, <3>1, <3>2 DEF Crash, TypeOK, PC
  <2>5. CASE Start
    <3>1. /\ bootPos' \in [Entity -> Nat \ {0}]
          /\ position' \in [Entity -> Nat \ {0}]
      BY <2>5, WindowTypes DEF Start
    <3> QED BY <2>5, <3>1 DEF Start, TypeOK, PC
  <2>6. CASE SweepTick
    BY <2>6 DEF SweepTick, TypeOK, PC
  <2>7. CASE SendFeature
    BY <2>7 DEF SendFeature, TypeOK, PC
  <2>8. CASE SweepDone
    BY <2>8 DEF SweepDone, TypeOK, PC
  <2>9. CASE FlushTick
    BY <2>9 DEF FlushTick, TypeOK, PC
  <2>10. CASE FlushFeatures
    <3>1. failed' \in [features : SUBSET Feature, raw : SUBSET Event]
      BY <2>10 DEF FlushFeatures, TypeOK
    <3>2. chFeatures' \in SUBSET Feature
      BY <2>10 DEF FlushFeatures, TypeOK
    <3> QED BY <2>10, <3>1, <3>2 DEF FlushFeatures, FlushedTable, TypeOK, PC
  <2>11. CASE FlushRawEvents
    <3>1. failed' \in [features : SUBSET Feature, raw : SUBSET Event]
      BY <2>11 DEF FlushRawEvents, TypeOK
    <3>2. chRaw' \in SUBSET Event
      BY <2>11 DEF FlushRawEvents, TypeOK
    <3> QED BY <2>11, <3>1, <3>2 DEF FlushRawEvents, FlushedTable, TypeOK, PC
  <2>12. ASSUME NEW e \in Entity, HandleRawEvent(e) PROVE TypeOK'
    <3> DEFINE ev == [entity |-> e, offset |-> position[e], run |-> run, at |-> now]
    <3> DEFINE w  == IF e \in keys THEN windows[e] ELSE NewWindow(now)
    <3>1. ev \in Event
      BY DEF Event, TypeOK
    <3>2. w \in Window
      BY WindowTypes
    <3>3. Add(w, ev) \in Window
      BY <3>1, <3>2 DEF Add, Window
    <3>4. position' \in [Entity -> Nat \ {0}]
      BY <2>12 DEF HandleRawEvent, TypeOK
    <3>5. windows' \in [Entity -> Window]
      BY <2>12, <3>3 DEF HandleRawEvent, TypeOK
    <3>6. rawBatch' \in SUBSET Event
      BY <2>12, <3>1 DEF HandleRawEvent, TypeOK
    <3>7. keys' \in SUBSET Entity
      BY <2>12 DEF HandleRawEvent, TypeOK
    <3> QED BY <2>12, <3>4, <3>5, <3>6, <3>7 DEF HandleRawEvent, TypeOK
  <2>13. ASSUME NEW e \in Entity, SweepVisit(e) PROVE TypeOK'
    <3>1. windows' \in [Entity -> Window]
      <4>1. windows' = windows \/ windows' = [windows EXCEPT ![e] = Flushed(e)]
        BY <2>13 DEF SweepVisit
      <4>2. windows \in [Entity -> Window] /\ Flushed(e) \in Window
        BY WindowTypes DEF TypeOK
      <4> QED BY <4>1, <4>2
    <3>2. pending' \in SUBSET Feature /\ emitted' \in SUBSET Feature
      BY <2>13, WindowTypes DEF SweepVisit, TypeOK
    <3>3. todo' \in SUBSET Entity /\ pc' \in PC
      BY <2>13 DEF SweepVisit, TypeOK, PC
    <3> QED BY <2>13, <3>1, <3>2, <3>3 DEF SweepVisit, TypeOK
  <2>14. CASE UNCHANGED vars
    BY <2>14 DEF vars, TypeOK
  <2> QED
    BY <2>1, <2>2, <2>3, <2>4, <2>5, <2>6, <2>7, <2>8, <2>9, <2>10, <2>11, <2>12, <2>13,
       <2>14 DEF Next, Environment, Task
<1> QED BY <1>1, <1>2, PTL DEF Spec
-----------------------------------------------------------------------------
(* What windowing needs beside WindowedExactlyOnce to be inductive: events of
   this run lie below the consumer's position (so the next one is new), no
   event is of a later run, the consumer is inside its log, and a sweep only
   visits entities that have a window. *)
OffsetsBehind ==
  /\ \A ev \in Windowed : ev.run <= run /\ (ev.run = run => ev.offset < position[ev.entity])
  /\ \A e \in Entity : position[e] <= Len(log[e]) + 1 /\ committed[e] <= Len(log[e]) + 1

MemoryShape ==
  /\ todo \subseteq keys
  /\ pc = "down" => keys = {}

WindowInv == TypeOK /\ WindowedExactlyOnce /\ OffsetsBehind /\ MemoryShape

(* Whatever holds an event holds an Event. *)
LEMMA WindowedTyped ==
  ASSUME TypeOK
  PROVE  /\ Windowed \subseteq Event
         /\ \A x \in Windowed : /\ x.entity \in Entity /\ x.offset \in Nat
                               /\ x.run \in Nat /\ x \in Event
<1>1. OpenEvents \subseteq Event
  BY DEF TypeOK, OpenEvents, Window
<1>2. EmittedEvents \subseteq Event
  BY DEF TypeOK, EmittedEvents, Feature
<1>3. Windowed \subseteq Event
  BY <1>1, <1>2 DEF TypeOK, Windowed
<1>4. \A x \in Event : x.entity \in Entity /\ x.offset \in Nat /\ x.run \in Nat
  BY DEF Event
<1> QED BY <1>3, <1>4

(* A step that touches neither the windows, the emitted features nor the
   consumer's offsets leaves the invariant alone. *)
LEMMA WindowFrame ==
  ASSUME WindowInv, TypeOK', MemoryShape',
         UNCHANGED <<bootPos, position, keys, windows, run, emitted, lost, log>>,
         \A e \in Entity : committed'[e] <= Len(log[e]) + 1
  PROVE  WindowInv'
<1>1. OpenEvents' = OpenEvents /\ EmittedEvents' = EmittedEvents /\ Windowed' = Windowed
  BY DEF OpenEvents, EmittedEvents, Windowed
<1>2. WindowedExactlyOnce'
  BY <1>1 DEF WindowInv, WindowedExactlyOnce
<1>3. OffsetsBehind'
  BY <1>1 DEF WindowInv, OffsetsBehind
<1> QED BY <1>2, <1>3 DEF WindowInv

(* Taking a message puts its event into the open windows and nowhere else. *)
LEMMA HandleAdds ==
  ASSUME TypeOK, NEW e \in Entity, HandleRawEvent(e), log[e][position[e]] = "event"
  PROVE  LET ev == [entity |-> e, offset |-> position[e], run |-> run, at |-> now]
         IN  /\ OpenEvents' = OpenEvents \cup {ev}
             /\ keys' = keys \cup {e}
             /\ windows'[e].events = (IF e \in keys THEN windows[e].events ELSE {}) \cup {ev}
             /\ \A d \in Entity \ {e} : windows'[d] = windows[d]
<1> DEFINE ev == [entity |-> e, offset |-> position[e], run |-> run, at |-> now]
           w  == IF e \in keys THEN windows[e] ELSE NewWindow(now)
<1>1. /\ keys' = keys \cup {e}
      /\ windows' = [windows EXCEPT ![e] = Add(w, ev)]
  BY DEF HandleRawEvent
<1>2. w \in Window
  BY WindowTypes
<1>3. Add(w, ev).events = w.events \cup {ev}
  BY <1>2 DEF Add, Window
<1>4. w.events = IF e \in keys THEN windows[e].events ELSE {}
  BY DEF NewWindow
<1>5. /\ windows'[e].events = (IF e \in keys THEN windows[e].events ELSE {}) \cup {ev}
      /\ \A d \in Entity \ {e} : windows'[d] = windows[d]
  BY <1>1, <1>3, <1>4 DEF TypeOK
<1>6. OpenEvents' = OpenEvents \cup {ev}
  <2>1. keys \subseteq Entity
    BY DEF TypeOK
  <2> QED BY <1>1, <1>5, <2>1 DEF OpenEvents
<1> QED BY <1>1, <1>5, <1>6

(* Closing a window moves its events from the open windows to the emitted
   features. *)
LEMMA FlushMoves ==
  ASSUME WindowInv, NEW e \in Entity, e \in keys,
         keys' = keys, windows' = [windows EXCEPT ![e] = Flushed(e)],
         emitted' = emitted \cup {FeatureOf(e)}
  PROVE  /\ OpenEvents' = OpenEvents \ windows[e].events
         /\ EmittedEvents' = EmittedEvents \cup windows[e].events
         /\ windows[e].events \subseteq OpenEvents
         /\ windows'[e].events = {}
         /\ \A d \in Entity \ {e} : windows'[d] = windows[d]
<1>1. /\ windows'[e].events = {}
      /\ \A d \in Entity \ {e} : windows'[d] = windows[d]
  BY DEF WindowInv, TypeOK, Flushed
<1>2. FeatureOf(e).events = windows[e].events
  BY DEF FeatureOf
<1>3. EmittedEvents' = EmittedEvents \cup windows[e].events
  BY <1>2 DEF EmittedEvents
<1>4. windows[e].events \subseteq OpenEvents
  BY DEF OpenEvents
<1>5. \A d \in keys : \A ev \in windows[d].events : ev.entity = d
  BY DEF WindowInv, WindowedExactlyOnce
<1>6. OpenEvents' = OpenEvents \ windows[e].events
  <2>1. keys \subseteq Entity
    BY DEF WindowInv, TypeOK
  <2>2. OpenEvents' \subseteq OpenEvents \ windows[e].events
    BY <1>1, <1>5, <2>1 DEF OpenEvents
  <2>3. OpenEvents \ windows[e].events \subseteq OpenEvents'
    BY <1>1, <2>1 DEF OpenEvents
  <2> QED BY <2>2, <2>3
<1> QED BY <1>1, <1>3, <1>4, <1>6

(* One message: the new event is of an offset no event of this run has. *)
LEMMA HandlePreserves ==
  ASSUME WindowInv, TypeOK', NEW e \in Entity, HandleRawEvent(e)
  PROVE  WindowInv'
<1> USE DEF WindowInv
<1>0. /\ position' = [position EXCEPT ![e] = @ + 1]
      /\ position[e] <= Len(log[e])
      /\ UNCHANGED <<log, committed, pc, run, bootPos, todo, emitted, lost>>
      /\ log[e][position[e]] \in {"event", "malformed"}
  BY DEF HandleRawEvent, kafkaVars, sweepVars
<1>1. \A d \in Entity : position'[d] = IF d = e THEN position[e] + 1 ELSE position[d]
  BY <1>0 DEF TypeOK
<1>6. /\ \A d \in Entity : position[d] \in Nat /\ position'[d] \in Nat /\ position[d] <= position'[d]
      /\ keys \subseteq Entity
  BY <1>0, <1>1 DEF TypeOK
<1>7. \A x \in Windowed : x.entity \in Entity /\ x.offset \in Nat /\ x \in Event
  BY WindowedTyped
<1>8. \A x \in Windowed : x.run = run => x.offset < position[x.entity]
  BY DEF OffsetsBehind
<1>9. \A x \in Windowed : x.run = run => x.offset < position'[x.entity]
  BY <1>6, <1>7, <1>8
<1>2. MemoryShape'
  BY <1>0 DEF HandleRawEvent, MemoryShape
<1>3. \A d \in Entity : position'[d] <= Len(log'[d]) + 1 /\ committed'[d] <= Len(log'[d]) + 1
  BY <1>0, <1>1, SMTT(30) DEF OffsetsBehind, TypeOK
<1>4. CASE log[e][position[e]] = "malformed"
  <2>1. UNCHANGED <<keys, windows>>
    BY <1>4 DEF HandleRawEvent
  <2>2. OpenEvents' = OpenEvents /\ EmittedEvents' = EmittedEvents /\ Windowed' = Windowed
    BY <1>0, <2>1 DEF OpenEvents, EmittedEvents, Windowed
  <2>3. OffsetsBehind'
    BY <1>0, <1>3, <1>9, <2>2 DEF OffsetsBehind
  <2>4. ASSUME NEW d \in Entity, NEW o \in bootPos[d] .. (position'[d] - 1), log[d][o] = "event"
        PROVE  o \in bootPos[d] .. (position[d] - 1)
    BY <1>0, <1>1, <1>4, <2>4 DEF TypeOK
  <2>5. WindowedExactlyOnce'
    BY <1>0, <2>1, <2>2, <2>4 DEF WindowedExactlyOnce
  <2> QED BY <1>2, <2>3, <2>5
<1>5. CASE log[e][position[e]] = "event"
  <2> DEFINE ev == [entity |-> e, offset |-> position[e], run |-> run, at |-> now]
  <2>1. /\ OpenEvents' = OpenEvents \cup {ev}
        /\ keys' = keys \cup {e}
        /\ windows'[e].events = (IF e \in keys THEN windows[e].events ELSE {}) \cup {ev}
        /\ \A d \in Entity \ {e} : windows'[d] = windows[d]
    BY <1>5, HandleAdds
  <2>2. EmittedEvents' = EmittedEvents /\ Windowed' = Windowed \cup {ev}
    BY <1>0, <2>1 DEF EmittedEvents, Windowed
  <2>4. \A x \in Windowed : ~(x.entity = e /\ x.offset = position[e] /\ x.run = run)
    BY <1>6, <1>7, <1>8
  <2>5. ev \notin Windowed
    BY <2>4
  <2>6. OffsetsBehind'
    <3>2. ev.run <= run /\ ev.offset < position'[ev.entity]
      BY <1>1 DEF TypeOK
    <3> QED BY <1>0, <1>3, <1>9, <2>2, <3>2 DEF OffsetsBehind
  <2>7. ASSUME NEW d \in Entity, NEW o \in bootPos[d] .. (position'[d] - 1), log[d][o] = "event"
        PROVE  \E y \in Windowed' :
                 {x \in Windowed' : x.entity = d /\ x.offset = o /\ x.run = run} = {y}
    <3>1. CASE d = e /\ o = position[e]
      <4>1. {x \in Windowed' : x.entity = d /\ x.offset = o /\ x.run = run} = {ev}
        BY <2>2, <2>4, <3>1
      <4> QED BY <2>2, <4>1
    <3>2. CASE ~(d = e /\ o = position[e])
      <4>1. o \in bootPos[d] .. (position[d] - 1)
        BY <1>0, <1>1, <3>2, <2>7 DEF TypeOK
      <4>2. PICK y \in Windowed :
              {x \in Windowed : x.entity = d /\ x.offset = o /\ x.run = run} = {y}
        BY <4>1, <2>7 DEF WindowedExactlyOnce
      <4>3. ~(ev.entity = d /\ ev.offset = o)
        BY <3>2
      <4>4. {x \in Windowed' : x.entity = d /\ x.offset = o /\ x.run = run} = {y}
        BY <2>2, <4>2, <4>3
      <4> QED BY <2>2, <4>2, <4>4
    <3> QED BY <3>1, <3>2
  <2>8. /\ OpenEvents' \cap EmittedEvents' = {}
        /\ lost' \cap (OpenEvents' \cup EmittedEvents') = {}
    BY <1>0, <2>1, <2>2, <2>5 DEF WindowedExactlyOnce, Windowed
  <2>9. \A d \in keys' : \A x \in windows'[d].events : x.entity = d /\ x.run = run
    <3>1. \A d \in keys : \A x \in windows[d].events : x.entity = d /\ x.run = run
      BY DEF WindowedExactlyOnce
    <3> QED BY <1>6, <2>1, <3>1
  <2>10. WindowedExactlyOnce'
    BY <1>0, <2>7, <2>8, <2>9 DEF WindowedExactlyOnce
  <2> QED BY <1>2, <2>6, <2>10
<1> QED BY <1>0, <1>4, <1>5

(* One entity of a sweep. *)
LEMMA VisitPreserves ==
  ASSUME WindowInv, TypeOK', NEW e \in Entity, SweepVisit(e)
  PROVE  WindowInv'
<1> USE DEF WindowInv
<1>0. /\ UNCHANGED <<log, committed, run, bootPos, position, keys, lost>>
      /\ todo' = todo \ {e} /\ e \in keys /\ pc # "down" /\ pc' # "down"
  BY DEF SweepVisit, kafkaVars, MemoryShape
<1>1. MemoryShape'
  BY <1>0 DEF MemoryShape
<1>2. ASSUME OpenEvents' = OpenEvents, EmittedEvents' = EmittedEvents, emitted' = emitted,
             \A d \in keys : windows'[d].events = windows[d].events
      PROVE  WindowInv'
  <2>1. Windowed' = Windowed
    BY <1>0, <1>2 DEF Windowed
  <2>2. WindowedExactlyOnce'
    BY <1>0, <1>2, <2>1 DEF WindowedExactlyOnce
  <2>3. OffsetsBehind'
    BY <1>0, <2>1 DEF OffsetsBehind
  <2> QED BY <1>1, <2>2, <2>3
<1>3. CASE ~ShouldFlush(e, sweepNow)
  <2>1. UNCHANGED <<windows, emitted>>
    BY <1>3 DEF SweepVisit
  <2> QED BY <1>0, <1>2, <2>1 DEF OpenEvents, EmittedEvents
<1>4. CASE ShouldFlush(e, sweepNow) /\ windows[e].events = {}
  <2>1. windows' = [windows EXCEPT ![e] = Flushed(e)] /\ emitted' = emitted
    BY <1>4 DEF SweepVisit
  <2>2. \A d \in Entity : windows'[d].events = windows[d].events
    BY <2>1, <1>4 DEF Flushed, TypeOK
  <2>3. OpenEvents' = OpenEvents /\ EmittedEvents' = EmittedEvents
    <3>1. keys \subseteq Entity
      BY DEF TypeOK
    <3> QED BY <1>0, <2>1, <2>2, <3>1 DEF OpenEvents, EmittedEvents
  <2> QED BY <1>0, <1>2, <2>1, <2>2, <2>3 DEF TypeOK
<1>5. CASE ShouldFlush(e, sweepNow) /\ windows[e].events # {}
  <2>0. windows' = [windows EXCEPT ![e] = Flushed(e)] /\ emitted' = emitted \cup {FeatureOf(e)}
    BY <1>5 DEF SweepVisit
  <2>1. /\ OpenEvents' = OpenEvents \ windows[e].events
        /\ EmittedEvents' = EmittedEvents \cup windows[e].events
        /\ windows[e].events \subseteq OpenEvents
        /\ windows'[e].events = {}
        /\ \A d \in Entity \ {e} : windows'[d] = windows[d]
    BY <1>0, <2>0, FlushMoves
  <2>2. Windowed' = Windowed
    BY <1>0, <2>1 DEF Windowed
  <2>3. FeatureOf(e).events = windows[e].events /\ FeatureOf(e).entity = e /\ FeatureOf(e).run = run
    BY DEF FeatureOf
  <2>4. \A f \in emitted : f.events \subseteq EmittedEvents
    BY DEF EmittedEvents
  <2>5. \A f \in emitted : f.events \cap windows[e].events = {}
    BY <2>1, <2>4 DEF WindowedExactlyOnce
  <2>6. \A f, g \in emitted' : f # g => f.events \cap g.events = {}
    BY <2>0, <2>3, <2>5 DEF WindowedExactlyOnce
  <2>7. /\ OpenEvents' \cap EmittedEvents' = {}
        /\ lost' \cap (OpenEvents' \cup EmittedEvents') = {}
    BY <1>0, <2>1 DEF WindowedExactlyOnce
  <2>8. \A d \in keys' : \A x \in windows'[d].events : x.entity = d /\ x.run = run'
    BY <1>0, <2>1 DEF WindowedExactlyOnce, TypeOK
  <2>9. \A f \in emitted' : f.events # {} /\ \A x \in f.events : x.entity = f.entity /\ x.run = f.run
    BY <1>0, <1>5, <2>0, <2>3 DEF WindowedExactlyOnce
  <2>10. WindowedExactlyOnce'
    BY <1>0, <2>2, <2>6, <2>7, <2>8, <2>9 DEF WindowedExactlyOnce
  <2>11. OffsetsBehind'
    BY <1>0, <2>2 DEF OffsetsBehind
  <2> QED BY <1>1, <2>10, <2>11
<1> QED BY <1>3, <1>4, <1>5 DEF SweepVisit

(* The process dies: the open events become lost ones. *)
LEMMA CrashPreserves ==
  ASSUME WindowInv, TypeOK', Crash
  PROVE  WindowInv'
<1> USE DEF WindowInv
<1>1. /\ keys' = {} /\ todo' = {} /\ lost' = lost \cup OpenEvents
      /\ UNCHANGED <<log, committed, run, bootPos, position, emitted>>
  BY DEF Crash, kafkaVars
<1>2. OpenEvents' = {} /\ EmittedEvents' = EmittedEvents
  BY <1>1 DEF OpenEvents, EmittedEvents
<1>3. Windowed' = Windowed
  BY <1>1, <1>2 DEF Windowed
<1>4. WindowedExactlyOnce'
  BY <1>1, <1>2, <1>3 DEF WindowedExactlyOnce
<1>5. OffsetsBehind'
  BY <1>1, <1>3 DEF OffsetsBehind
<1>6. MemoryShape'
  BY <1>1 DEF MemoryShape
<1> QED BY <1>4, <1>5, <1>6

(* A start: no offset is taken yet, and no event is of the new run. *)
LEMMA StartPreserves ==
  ASSUME WindowInv, TypeOK', Start
  PROVE  WindowInv'
<1> USE DEF WindowInv
<1>1. /\ pc = "down" /\ run' = run + 1
      /\ bootPos' = [e \in Entity |-> ResumeAt(e)] /\ position' = bootPos'
      /\ UNCHANGED <<log, committed, keys, windows, todo, emitted, lost>>
  BY DEF Start, kafkaVars, sweepVars
<1>2. OpenEvents' = OpenEvents /\ EmittedEvents' = EmittedEvents /\ Windowed' = Windowed
  BY <1>1 DEF OpenEvents, EmittedEvents, Windowed
<1>3. keys = {}
  BY <1>1 DEF MemoryShape
<1>4. \A e \in Entity : position'[e] = ResumeAt(e) /\ bootPos'[e] = position'[e]
  BY <1>1
<1>5. \A e \in Entity : bootPos'[e] .. (position'[e] - 1) = {}
  BY <1>4 DEF TypeOK
<1>6. WindowedExactlyOnce'
  BY <1>1, <1>2, <1>3, <1>5 DEF WindowedExactlyOnce
<1>7. \A e \in Entity : position'[e] <= Len(log[e]) + 1
  <2> TAKE e \in Entity
  <2>1. Len(log[e]) \in Nat /\ committed[e] <= Len(log[e]) + 1
    BY DEF TypeOK, OffsetsBehind
  <2> QED BY <1>4, <2>1 DEF ResumeAt
<1>8. \A x \in Windowed : x.run \in Nat /\ x.run <= run
  BY WindowedTyped DEF OffsetsBehind
<1>9. run \in Nat
  BY DEF TypeOK
<1>10. \A x \in Windowed : x.run <= run' /\ x.run # run'
  BY <1>1, <1>8, <1>9
<1>11. OffsetsBehind'
  BY <1>1, <1>2, <1>7, <1>10 DEF OffsetsBehind
<1>12. MemoryShape'
  BY <1>1, <1>3 DEF MemoryShape
<1> QED BY <1>6, <1>11, <1>12

(* A message appended to the log is beyond every position. *)
LEMMA PublishPreserves ==
  ASSUME WindowInv, TypeOK', NEW e \in Entity, NEW kind \in {"event", "malformed"}, Publish(e, kind)
  PROVE  WindowInv'
<1> USE DEF WindowInv
<1>1. /\ log' = [log EXCEPT ![e] = Append(@, kind)]
      /\ UNCHANGED <<committed, pc, run, bootPos, position, keys, windows, todo, emitted, lost>>
  BY DEF Publish, windowVars, sweepVars
<1>2. OpenEvents' = OpenEvents /\ EmittedEvents' = EmittedEvents /\ Windowed' = Windowed
  BY <1>1 DEF OpenEvents, EmittedEvents, Windowed
<1>0. log \in [Entity -> Seq({"event", "malformed"})]
  BY DEF TypeOK
<1>3. \A d \in Entity : /\ Len(log[d]) \in Nat /\ Len(log'[d]) >= Len(log[d]) /\ Len(log'[d]) \in Nat
                       /\ \A o \in 1 .. Len(log[d]) : log'[d][o] = log[d][o]
  <2> TAKE d \in Entity
  <2>1. log[d] \in Seq({"event", "malformed"})
    BY <1>0
  <2>2. CASE d # e
    BY <1>0, <1>1, <2>1, <2>2
  <2>3. CASE d = e
    <3>1. log'[d] = Append(log[d], kind)
      BY <1>0, <1>1, <2>3
    <3> QED BY <2>1, <3>1
  <2> QED BY <2>2, <2>3
<1>9. \A d \in Entity : bootPos[d] \in Nat \ {0} /\ position[d] \in Nat /\ position[d] <= Len(log[d]) + 1
  BY DEF TypeOK, OffsetsBehind
<1>4. \A d \in Entity : \A o \in bootPos[d] .. (position[d] - 1) : o \in 1 .. Len(log[d])
  BY <1>3, <1>9
<1>5. WindowedExactlyOnce'
  BY <1>1, <1>2, <1>3, <1>4 DEF WindowedExactlyOnce
<1>10. \A d \in Entity : committed[d] \in Nat /\ committed[d] <= Len(log[d]) + 1
  BY DEF TypeOK, OffsetsBehind
<1>6. \A d \in Entity : position[d] <= Len(log'[d]) + 1 /\ committed[d] <= Len(log'[d]) + 1
  BY <1>3, <1>9, <1>10
<1>7. OffsetsBehind'
  BY <1>1, <1>2, <1>6 DEF OffsetsBehind
<1>8. MemoryShape'
  BY <1>1 DEF MemoryShape
<1> QED BY <1>5, <1>7, <1>8

\* The windowing invariant holds always.
LEMMA WindowInvariant == Spec => []WindowInv
<1>1. Init => WindowInv
  <2> SUFFICES ASSUME Init PROVE WindowInv
    OBVIOUS
  <2>1. TypeOK
    BY InitTyped
  <2>2. OpenEvents = {} /\ EmittedEvents = {} /\ Windowed = {}
    BY DEF Init, OpenEvents, EmittedEvents, Windowed
  <2>3. WindowedExactlyOnce
    BY <2>2 DEF Init, WindowedExactlyOnce
  <2>4. OffsetsBehind
    BY <2>2 DEF Init, OffsetsBehind
  <2>5. MemoryShape
    BY DEF Init, MemoryShape
  <2> QED BY <2>1, <2>3, <2>4, <2>5 DEF WindowInv
<1>2. WindowInv /\ TypeOK' /\ [Next]_vars => WindowInv'
  <2> SUFFICES ASSUME WindowInv, TypeOK', [Next]_vars PROVE WindowInv'
    OBVIOUS
  <2> USE DEF kafkaVars, windowVars, sweepVars, batchVars
  <2>0. \A e \in Entity : committed[e] <= Len(log[e]) + 1
    BY DEF WindowInv, OffsetsBehind
  <2>00. MemoryShape
    BY DEF WindowInv
  <2>1. ASSUME NEW e \in Entity, NEW kind \in {"event", "malformed"}, Publish(e, kind)
        PROVE WindowInv'
    BY <2>1, PublishPreserves
  <2>2. CASE Tick
    BY <2>0, <2>00, <2>2, WindowFrame DEF Tick, MemoryShape
  <2>3. CASE AutoCommit
    <3>1. \A e \in Entity : committed'[e] <= Len(log[e]) + 1
      BY <2>3 DEF AutoCommit, WindowInv, OffsetsBehind
    <3> QED BY <2>00, <2>3, <3>1, WindowFrame DEF AutoCommit, MemoryShape
  <2>4. CASE Crash
    BY <2>4, CrashPreserves
  <2>5. CASE Start
    BY <2>5, StartPreserves
  <2>6. CASE SweepTick
    BY <2>0, <2>00, <2>6, WindowFrame DEF SweepTick, MemoryShape
  <2>7. CASE SendFeature
    BY <2>0, <2>00, <2>7, WindowFrame DEF SendFeature, MemoryShape
  <2>8. CASE SweepDone
    BY <2>0, <2>00, <2>8, WindowFrame DEF SweepDone, MemoryShape
  <2>9. CASE FlushTick
    BY <2>0, <2>00, <2>9, WindowFrame DEF FlushTick, MemoryShape
  <2>10. CASE FlushFeatures
    BY <2>0, <2>00, <2>10, WindowFrame DEF FlushFeatures, FlushedTable, MemoryShape
  <2>11. CASE FlushRawEvents
    BY <2>0, <2>00, <2>11, WindowFrame DEF FlushRawEvents, FlushedTable, MemoryShape
  <2>12. ASSUME NEW e \in Entity, HandleRawEvent(e) PROVE WindowInv'
    BY <2>12, HandlePreserves
  <2>13. ASSUME NEW e \in Entity, SweepVisit(e) PROVE WindowInv'
    BY <2>13, VisitPreserves
  <2>14. CASE UNCHANGED vars
    BY <2>0, <2>00, <2>14, WindowFrame DEF vars, MemoryShape
  <2> QED
    BY <2>1, <2>2, <2>3, <2>4, <2>5, <2>6, <2>7, <2>8, <2>9, <2>10, <2>11, <2>12, <2>13,
       <2>14 DEF Next, Environment, Task
<1> QED BY <1>1, <1>2, TypeCorrect, PTL DEF Spec

(* In every reachable state, whatever the entities, window sizes, batch size
   and bounds: a message the run has taken is in exactly one window. *)
THEOREM ExactlyOnceWindowing == Spec => []WindowedExactlyOnce
<1>1. WindowInv => WindowedExactlyOnce
  BY DEF WindowInv
<1> QED BY <1>1, WindowInvariant, PTL
-----------------------------------------------------------------------------
(* The sweep's captured `now` is never ahead of the clock, which is what keeps
   a catch-up flush from opening a window in the future. *)
TimingInv == NeverEarly /\ sweepNow <= now /\ todo \subseteq keys

\* The timing holds on while no window is touched.
LEMMA TimingFrame ==
  ASSUME TimingInv, UNCHANGED <<keys, windows, emitted>>, now \in Nat, now' \in Nat,
         now <= now', sweepNow' <= now', todo' \subseteq keys,
         \A e \in keys : windows[e].start \in Nat
  PROVE  TimingInv'
<1>1. \A e \in keys : windows[e].start <= now'
  BY DEF TimingInv, NeverEarly
<1> QED BY <1>1 DEF TimingInv, NeverEarly

\* The timing holds always.
LEMMA TimingInvariant == Spec => []TimingInv
<1>1. Init => TimingInv
  BY DEF Init, TimingInv, NeverEarly
<1>2. TypeOK /\ TypeOK' /\ TimingInv /\ [Next]_vars => TimingInv'
  <2> SUFFICES ASSUME TypeOK, TypeOK', TimingInv, [Next]_vars PROVE TimingInv'
    OBVIOUS
  <2> USE DEF kafkaVars, windowVars, sweepVars, batchVars
  <2>0. /\ now \in Nat /\ now' \in Nat /\ sweepNow \in Nat /\ sweepNow <= now /\ todo \subseteq keys
        /\ \A e \in Entity : windows[e].start \in Nat
        /\ keys \subseteq Entity
    BY WindowTypes DEF TypeOK, TimingInv
  <2>1. ASSUME NEW e \in Entity, NEW kind \in {"event", "malformed"}, Publish(e, kind)
        PROVE TimingInv'
    BY <2>0, <2>1, TimingFrame DEF Publish
  <2>2. CASE Tick
    BY <2>0, <2>2, TimingFrame DEF Tick
  <2>3. CASE AutoCommit
    BY <2>0, <2>3, TimingFrame DEF AutoCommit
  <2>4. CASE Crash
    BY <2>0, <2>4 DEF Crash, TimingInv, NeverEarly
  <2>5. CASE Start
    BY <2>0, <2>5, TimingFrame DEF Start
  <2>6. CASE SweepTick
    BY <2>0, <2>6, TimingFrame DEF SweepTick
  <2>7. CASE SendFeature
    BY <2>0, <2>7, TimingFrame DEF SendFeature
  <2>8. CASE SweepDone
    BY <2>0, <2>8, TimingFrame DEF SweepDone
  <2>9. CASE FlushTick
    BY <2>0, <2>9, TimingFrame DEF FlushTick
  <2>10. CASE FlushFeatures
    BY <2>0, <2>10, TimingFrame DEF FlushFeatures
  <2>11. CASE FlushRawEvents
    BY <2>0, <2>11, TimingFrame DEF FlushRawEvents
  <2>12. ASSUME NEW e \in Entity, HandleRawEvent(e) PROVE TimingInv'
    <3>0. UNCHANGED <<now, sweepNow, todo, emitted>>
      BY <2>12 DEF HandleRawEvent
    <3>1. CASE log[e][position[e]] = "malformed"
      <4>1. UNCHANGED <<keys, windows>>
        BY <2>12, <3>1 DEF HandleRawEvent
      <4> QED BY <2>0, <3>0, <4>1, TimingFrame
    <3>2. CASE log[e][position[e]] # "malformed"
      <4> DEFINE ev == [entity |-> e, offset |-> position[e], run |-> run, at |-> now]
                 w  == IF e \in keys THEN windows[e] ELSE NewWindow(now)
      <4>1. keys' = keys \cup {e} /\ windows' = [windows EXCEPT ![e] = Add(w, ev)]
        BY <2>12, <3>2 DEF HandleRawEvent
      <4>0. windows[e] \in Window /\ NewWindow(now) \in Window
        BY <2>0, WindowTypes
      <4>2. w \in Window /\ w.start <= now /\ \A x \in w.events : w.start <= x.at
        <5>1. CASE e \in keys
          BY <4>0, <5>1 DEF TimingInv, NeverEarly
        <5>2. CASE e \notin keys
          BY <2>0, <4>0, <5>2 DEF NewWindow
        <5> QED BY <5>1, <5>2
      <4>3. Add(w, ev).start = w.start /\ Add(w, ev).events = w.events \cup {ev}
        BY <4>2 DEF Add, Window
      <4>4. windows'[e] = Add(w, ev) /\ \A d \in Entity \ {e} : windows'[d] = windows[d]
        BY <4>1 DEF TypeOK
      <4>5. \A d \in keys' : windows'[d].start <= now' /\ \A x \in windows'[d].events : windows'[d].start <= x.at
        BY <2>0, <3>0, <4>1, <4>2, <4>3, <4>4 DEF TimingInv, NeverEarly
      <4> QED BY <2>0, <3>0, <4>1, <4>5 DEF TimingInv, NeverEarly
    <3> QED BY <3>1, <3>2
  <2>13. ASSUME NEW e \in Entity, SweepVisit(e) PROVE TimingInv'
    <3>0. /\ UNCHANGED <<now, sweepNow, keys>> /\ todo' = todo \ {e} /\ e \in keys
      BY <2>0, <2>13 DEF SweepVisit
    <3>1. CASE ~ShouldFlush(e, sweepNow)
      BY <2>0, <2>13, <3>0, <3>1, TimingFrame DEF SweepVisit
    <3>2. CASE ShouldFlush(e, sweepNow)
      <4>1. windows' = [windows EXCEPT ![e] = Flushed(e)]
        BY <2>13, <3>2 DEF SweepVisit
      <4>2. WindowEnd(e) <= sweepNow /\ WindowEnd(e) <= now /\ WindowEnd(e) \in Nat
        <5>1. /\ windows[e].start \in Nat /\ WindowSize[e] \in Nat /\ WindowEnd(e) \in Nat
              /\ sweepNow \in Nat /\ now \in Nat /\ sweepNow <= now
          BY <2>0, WindowTypes DEF TypeOK, TimingInv
        <5>2. WindowEnd(e) <= windows[e].start + WindowSize[e]
          BY <2>0, WindowTypes
        <5> QED BY <3>2, <5>1, <5>2 DEF ShouldFlush
      <4>3. windows'[e].start = WindowEnd(e) /\ windows'[e].events = {}
        BY <4>1 DEF Flushed, TypeOK
      <4>4. \A d \in keys \ {e} : windows'[d] = windows[d]
        BY <2>0, <4>1 DEF TypeOK
      <4>5. \A d \in keys : windows'[d].start <= now /\ \A x \in windows'[d].events : windows'[d].start <= x.at
        BY <4>2, <4>3, <4>4 DEF TimingInv, NeverEarly
      <4>6. emitted' = emitted \/ emitted' = emitted \cup {FeatureOf(e)}
        BY <2>13 DEF SweepVisit
      <4>7. /\ FeatureOf(e).end <= FeatureOf(e).at
            /\ \A x \in FeatureOf(e).events : FeatureOf(e).start <= x.at
        BY <3>0, <4>2 DEF FeatureOf, TimingInv, NeverEarly
      <4>8. \A f \in emitted' : f.end <= f.at /\ \A x \in f.events : f.start <= x.at
        BY <4>6, <4>7 DEF TimingInv, NeverEarly
      <4> QED BY <2>0, <3>0, <4>5, <4>8 DEF TimingInv, NeverEarly
    <3> QED BY <3>1, <3>2
  <2>14. CASE UNCHANGED vars
    BY <2>0, <2>14, TimingFrame DEF vars
  <2> QED
    BY <2>1, <2>2, <2>3, <2>4, <2>5, <2>6, <2>7, <2>8, <2>9, <2>10, <2>11, <2>12, <2>13,
       <2>14 DEF Next, Environment, Task
<1> QED BY <1>1, <1>2, TypeCorrect, PTL DEF Spec

(* A feature is published only after its window has passed, and holds no event
   that arrived before its window opened: processing-time windows never read
   the future, whatever the interleaving of sweeps, stalls and restarts. *)
THEOREM NoEarlyWindow == Spec => []NeverEarly
<1>1. TimingInv => NeverEarly
  BY DEF TimingInv
<1> QED BY <1>1, TimingInvariant, PTL
-----------------------------------------------------------------------------
(* Beside WindowsApart: what was emitted ended in the past, so that a window which
   begins now, after a restart, begins after it. *)
ApartInv == WindowsApart /\ \A f \in emitted : f.end <= now

\* The windows stay apart while none of them is touched.
LEMMA ApartFrame ==
  ASSUME TypeOK, ApartInv, now' \in Nat, now <= now', emitted' = emitted, keys' \subseteq keys,
         \A e \in keys' : windows'[e].start = windows[e].start
  PROVE  ApartInv'
<1>1. \A f \in emitted : f.end \in Nat /\ f.end <= now /\ now \in Nat
  BY DEF TypeOK, Feature, ApartInv
<1>2. \A f \in emitted : f.end <= now'
  BY <1>1
<1> QED BY <1>2 DEF ApartInv, WindowsApart

\* A message joins the open window of its entity, or opens one now.
LEMMA HandleKeepsApart ==
  ASSUME TypeOK, ApartInv, NEW e \in Entity, HandleRawEvent(e)
  PROVE  ApartInv'
<1>1. UNCHANGED <<now, emitted>> /\ now \in Nat /\ keys \subseteq Entity
  BY DEF HandleRawEvent, TypeOK
<1>2. CASE UNCHANGED <<keys, windows>>
  BY <1>1, <1>2, ApartFrame
<1>3. CASE log[e][position[e]] = "event"
  <2> DEFINE ev == [entity |-> e, offset |-> position[e], run |-> run, at |-> now]
             w  == IF e \in keys THEN windows[e] ELSE NewWindow(now)
  <2>1. keys' = keys \cup {e} /\ windows' = [windows EXCEPT ![e] = Add(w, ev)]
    BY <1>3 DEF HandleRawEvent
  <2>2. w \in Window
    BY <1>1, WindowTypes
  <2>3. Add(w, ev).start = w.start
    BY <2>2 DEF Add, Window
  <2>4. w.start = IF e \in keys THEN windows[e].start ELSE now
    BY DEF NewWindow
  <2> HIDE DEF ev, w
  <2>5. windows'[e].start = w.start /\ \A d \in Entity \ {e} : windows'[d] = windows[d]
    BY <2>1, <2>3 DEF TypeOK
  <2>6. ASSUME NEW f \in emitted, f.entity \in keys' PROVE f.end <= windows'[f.entity].start
    <3>1. f.end <= now /\ (f.entity \in keys => f.end <= windows[f.entity].start)
      BY DEF ApartInv, WindowsApart
    <3>2. CASE f.entity = e
      BY <2>4, <2>5, <3>1, <3>2
    <3>3. CASE f.entity # e
      BY <1>1, <2>1, <2>5, <2>6, <3>1, <3>3
    <3> QED BY <3>2, <3>3
  <2> QED BY <1>1, <2>6 DEF ApartInv, WindowsApart
<1> QED BY <1>2, <1>3 DEF HandleRawEvent

\* A window that closes was behind all that were emitted, the next one is behind it.
LEMMA SweepKeepsApart ==
  ASSUME TypeOK, TimingInv, ApartInv, NEW e \in Entity, SweepVisit(e)
  PROVE  ApartInv'
<1>1. /\ UNCHANGED <<now, keys>> /\ e \in keys /\ now \in Nat /\ keys \subseteq Entity
      /\ sweepNow \in Nat /\ sweepNow <= now
  BY DEF SweepVisit, TimingInv, TypeOK, kafkaVars
<1>2. CASE UNCHANGED <<windows, emitted>>
  BY <1>1, <1>2, ApartFrame
<1>3. CASE /\ ShouldFlush(e, sweepNow) /\ windows' = [windows EXCEPT ![e] = Flushed(e)]
           /\ emitted' \in {emitted, emitted \cup {FeatureOf(e)}}
  <2>1. PICK s, t : s = windows[e].start /\ t = WindowEnd(e)
    OBVIOUS
  <2>2. s \in Nat /\ t \in Nat /\ s < t /\ t <= sweepNow
    <3>1. /\ windows[e].start \in Nat /\ WindowSize[e] \in Nat /\ WindowEnd(e) \in Nat
          /\ sweepNow \in Nat
      BY <1>1, WindowTypes
    <3>2. windows[e].start < WindowEnd(e) /\ WindowEnd(e) <= windows[e].start + WindowSize[e]
      BY WindowTypes
    <3> QED BY <1>3, <2>1, <3>1, <3>2 DEF ShouldFlush
  <2>3. windows'[e].start = t /\ \A d \in Entity \ {e} : windows'[d] = windows[d]
    BY <1>3, <2>1 DEF Flushed, TypeOK
  <2>4. PICK h : h = FeatureOf(e)
    OBVIOUS
  <2>5. h.entity = e /\ h.start = s /\ h.end = t
    BY <2>1, <2>4 DEF FeatureOf
  <2>6. \A f \in emitted : f.end \in Nat /\ f.end <= now /\ (f.entity = e => f.end <= s)
    BY <1>1, <2>1 DEF ApartInv, WindowsApart, TypeOK, Feature
  <2>7. \A f \in emitted' : f \in emitted \/ f = h
    BY <1>3, <2>4
  <2>8. ASSUME NEW f \in emitted', NEW g \in emitted', g # f, g.entity = f.entity
        PROVE  f.end <= g.start \/ g.end <= f.start
    <3>1. CASE f \in emitted /\ g \in emitted
      BY <2>8, <3>1 DEF ApartInv, WindowsApart
    <3>2. CASE f = h
      BY <2>5, <2>6, <2>7, <2>8, <3>2
    <3>3. CASE g = h
      BY <2>5, <2>6, <2>7, <2>8, <3>3
    <3> QED BY <2>7, <3>1, <3>2, <3>3
  <2>9. ASSUME NEW f \in emitted'
        PROVE  f.end <= now' /\ (f.entity \in keys' => f.end <= windows'[f.entity].start)
    <3>1. CASE f = h
      BY <1>1, <2>2, <2>3, <2>5, <3>1
    <3>2. CASE f \in emitted /\ f.entity = e
      BY <1>1, <2>2, <2>3, <2>6, <3>2
    <3>3. CASE f \in emitted /\ f.entity # e
      BY <1>1, <2>3, <3>3 DEF ApartInv, WindowsApart
    <3> QED BY <2>7, <3>1, <3>2, <3>3
  <2> QED BY <2>8, <2>9 DEF ApartInv, WindowsApart
<1> QED BY <1>2, <1>3 DEF SweepVisit

(* Entity and window end name one window: the windows emitted of an entity lie apart,
   and the open one begins after them, whatever was closed late, whichever runs of the
   process they are of. *)
THEOREM NoWindowsOverlap == Spec => []WindowsApart
<1>1. Init => ApartInv
  BY DEF Init, ApartInv, WindowsApart
<1>2. TypeOK /\ TimingInv /\ ApartInv /\ [Next]_vars => ApartInv'
  <2> SUFFICES ASSUME TypeOK, TimingInv, ApartInv, [Next]_vars PROVE ApartInv'
    OBVIOUS
  <2> USE DEF kafkaVars, windowVars, sweepVars, batchVars
  <2>1. now \in Nat /\ now <= now
    BY DEF TypeOK
  <2>2. ASSUME UNCHANGED <<keys, windows, emitted>>, now' \in {now, now + 1} PROVE ApartInv'
    BY <2>1, <2>2, ApartFrame
  <2>3. CASE Crash
    BY <2>1, <2>3 DEF Crash, ApartInv, WindowsApart
  <2>4. ASSUME Environment, ~Crash PROVE UNCHANGED <<keys, windows, emitted>> /\ now' \in {now, now + 1}
    BY <2>4 DEF Environment, Publish, Tick, AutoCommit
  <2>5. ASSUME Start \/ SweepTick \/ SendFeature \/ SweepDone \/ FlushTick \/ FlushFeatures \/ FlushRawEvents
        PROVE  UNCHANGED <<keys, windows, emitted, now>>
    BY <2>5 DEF Start, SweepTick, SendFeature, SweepDone, FlushTick, FlushFeatures, FlushRawEvents
  <2>6. ASSUME NEW e \in Entity, HandleRawEvent(e) \/ SweepVisit(e) PROVE ApartInv'
    BY <2>6, HandleKeepsApart, SweepKeepsApart
  <2>7. CASE UNCHANGED vars
    BY <2>2, <2>7 DEF vars
  <2> QED BY <2>2, <2>3, <2>4, <2>5, <2>6, <2>7 DEF Next, Task
<1>3. ApartInv => WindowsApart
  BY DEF ApartInv
<1> QED BY <1>1, <1>2, <1>3, TypeCorrect, TimingInvariant, PTL DEF Spec

(* Both together: the times of the windows are what the services behind rely on. *)
THEOREM WindowsKeepTime == Spec => []WindowTimes
<1>1. NeverEarly /\ WindowsApart => WindowTimes
  BY DEF WindowTimes
<1> QED BY <1>1, NoEarlyWindow, NoWindowsOverlap, PTL
-----------------------------------------------------------------------------
(* A commit never runs ahead of the consumer. *)
CommitBehind == \A e \in Entity : committed[e] <= position[e]

(* A restart of a partition the group has committed resumes at an offset the run
   before had reached: it takes messages again, it never jumps over one. *)
THEOREM ResumesWithoutGap == Spec => ResumeNeverSkips
<1>1. Init => CommitBehind
  BY DEF Init, CommitBehind
<1>2. TypeOK /\ CommitBehind /\ [Next]_vars => CommitBehind'
  <2> SUFFICES ASSUME TypeOK, CommitBehind, [Next]_vars PROVE CommitBehind'
    OBVIOUS
  <2> USE DEF kafkaVars, windowVars, sweepVars, batchVars
  <2>0. /\ committed \in [Entity -> Nat] /\ position \in [Entity -> Nat \ {0}]
        /\ \A e \in Entity : committed[e] <= position[e]
    BY DEF TypeOK, CommitBehind
  <2>1. CASE UNCHANGED <<committed, position>>
    BY <2>0, <2>1 DEF CommitBehind
  <2>2. CASE AutoCommit
    <3>1. \A e \in Entity : committed'[e] \in {position[e], committed[e]} /\ position'[e] = position[e]
      BY <2>2 DEF AutoCommit
    <3> QED BY <2>0, <3>1 DEF CommitBehind
  <2>3. CASE Start
    <3>1. \A e \in Entity : position'[e] = ResumeAt(e) /\ committed'[e] = committed[e]
      BY <2>3 DEF Start
    <3>2. \A e \in Entity : committed[e] <= ResumeAt(e)
      BY <2>0, WindowTypes DEF ResumeAt
    <3> QED BY <3>1, <3>2 DEF CommitBehind
  <2>4. ASSUME NEW e \in Entity, HandleRawEvent(e) PROVE CommitBehind'
    <3>1. position' = [position EXCEPT ![e] = position[e] + 1] /\ committed' = committed
      BY <2>4 DEF HandleRawEvent
    <3> QED BY <2>0, <3>1 DEF CommitBehind
  <2>5. ASSUME Environment, ~AutoCommit PROVE UNCHANGED <<committed, position>>
    BY <2>5 DEF Environment, Publish, Tick, Crash
  <2>6. ASSUME Task, ~Start, ~\E e \in Entity : HandleRawEvent(e) PROVE UNCHANGED <<committed, position>>
    BY <2>6 DEF Task, SweepTick, SendFeature, SweepDone, FlushTick, FlushFeatures, FlushRawEvents, SweepVisit
  <2>7. ASSUME UNCHANGED vars PROVE UNCHANGED <<committed, position>>
    BY <2>7 DEF vars
  <2> QED BY <2>1, <2>2, <2>3, <2>4, <2>5, <2>6, <2>7 DEF Next
<1>3. TypeOK /\ CommitBehind /\ [Next]_vars
        => [\A e \in Entity : (run' # run /\ committed[e] > 0) => position'[e] <= position[e]]_vars
  <2> SUFFICES ASSUME TypeOK, CommitBehind, Next, run' # run, NEW e \in Entity, committed[e] > 0
               PROVE  position'[e] <= position[e]
    OBVIOUS
  <2> USE DEF kafkaVars, windowVars, sweepVars, batchVars
  <2>1. Start
    <3>1. Environment => run' = run
      BY DEF Environment, Publish, Tick, AutoCommit, Crash
    <3>2. Task /\ ~Start => run' = run
      BY DEF Task, SweepTick, SendFeature, SweepDone, FlushTick, FlushFeatures, FlushRawEvents,
             HandleRawEvent, SweepVisit
    <3> QED BY <3>1, <3>2 DEF Next
  <2>2. position'[e] = ResumeAt(e)
    BY <2>1 DEF Start
  <2>3. ResumeAt(e) = committed[e]
    BY DEF ResumeAt, TypeOK
  <2> QED BY <2>2, <2>3 DEF CommitBehind
<1> QED BY <1>1, <1>2, <1>3, TypeCorrect, PTL DEF Spec, ResumeNeverSkips
-----------------------------------------------------------------------------
(* The EWMA of an open window is what this run emitted for its entity, all of it
   earlier; features name runs that have begun. *)
SeenBefore(e) == {f \in emitted : f.entity = e /\ f.run = run}

EwmaIsThePast ==
  \A e \in keys : /\ windows[e].ewma = {f.start : f \in SeenBefore(e)}
                  /\ \A f \in SeenBefore(e) : f.start < windows[e].start

FeaturesOfRuns ==
  \A f \in emitted : f.run <= run /\ (f.run = run /\ pc # "down" => f.entity \in keys)

BaselineInv == BaselineIsThePast /\ EwmaIsThePast /\ FeaturesOfRuns

\* Baselines hold on while no window's EWMA changes and nothing is emitted.
LEMMA BaselineFrame ==
  ASSUME BaselineInv, UNCHANGED <<run, emitted, keys>>, pc' # "down" => pc # "down",
         \A e \in keys : windows'[e].ewma = windows[e].ewma,
         \A e \in keys : \A f \in SeenBefore(e) : f.start < windows'[e].start
  PROVE  BaselineInv'
<1>1. BaselineIsThePast'
  BY DEF BaselineInv, BaselineIsThePast
<1>2. EwmaIsThePast' /\ FeaturesOfRuns'
  BY DEF BaselineInv, EwmaIsThePast, FeaturesOfRuns, SeenBefore
<1> QED BY <1>1, <1>2 DEF BaselineInv

(* A window with events closes: its feature is scored against the windows before,
   and its start joins the EWMA. *)
LEMMA EmitKeepsBaseline ==
  ASSUME TypeOK, BaselineInv, NEW e \in keys, run' = run, keys' = keys, pc # "down",
         windows' = [windows EXCEPT ![e] = Flushed(e)], windows[e].events # {},
         emitted' = emitted \cup {FeatureOf(e)}
  PROVE  BaselineInv'
<1>1. PICK f : f = FeatureOf(e)
  OBVIOUS
<1>2. /\ f.entity = e /\ f.run = run /\ f.start = windows[e].start
      /\ f.baseline = IF windows[e].ewma = {} THEN {f.start} ELSE windows[e].ewma
  BY <1>1 DEF FeatureOf
<1>3. /\ windows[e].start \in Nat /\ WindowEnd(e) \in Nat /\ windows[e].start < WindowEnd(e)
      /\ \A g \in emitted : g.start \in Nat
      /\ run \in Nat /\ e \in Entity /\ keys \subseteq Entity
  <2>1. e \in Entity /\ keys \subseteq Entity
    BY DEF TypeOK
  <2>2. windows[e].start \in Nat /\ WindowEnd(e) \in Nat /\ windows[e].start < WindowEnd(e)
    BY <2>1, WindowTypes
  <2>3. \A g \in emitted : g.start \in Nat
    BY DEF TypeOK, Feature
  <2> QED BY <2>1, <2>2, <2>3 DEF TypeOK
<1>4. windows[e].ewma = {g.start : g \in SeenBefore(e)} /\ \A g \in SeenBefore(e) : g.start < f.start
  BY <1>2 DEF BaselineInv, EwmaIsThePast
<1>5. emitted' = emitted \cup {f}
  BY <1>1
<1>6. \A g \in emitted : ~(f.entity = g.entity /\ f.run = g.run /\ f.start < g.start)
  <2> SUFFICES ASSUME NEW g \in emitted, f.entity = g.entity, f.run = g.run, f.start < g.start PROVE FALSE
    OBVIOUS
  <2>1. g \in SeenBefore(e)
    BY <1>2 DEF SeenBefore
  <2>2. g.start < f.start /\ g.start \in Nat /\ f.start \in Nat
    BY <1>2, <1>3, <1>4, <2>1
  <2> QED BY <2>2
<1>7. BaselineIsThePast'
  <2> SUFFICES ASSUME NEW g \in emitted'
               PROVE  LET earlier == {h \in emitted' : h.entity = g.entity /\ h.run = g.run /\ h.start < g.start}
                      IN  g.baseline = IF earlier = {} THEN {g.start} ELSE {h.start : h \in earlier}
    BY DEF BaselineIsThePast
  <2> DEFINE now1(x) == {h \in emitted' : h.entity = x.entity /\ h.run = x.run /\ h.start < x.start}
             was(x)  == {h \in emitted : h.entity = x.entity /\ h.run = x.run /\ h.start < x.start}
  <2>1. CASE g \in emitted
    <3>1. now1(g) = was(g)
      BY <1>5, <1>6, <2>1
    <3>2. g.baseline = IF was(g) = {} THEN {g.start} ELSE {h.start : h \in was(g)}
      BY <2>1 DEF BaselineInv, BaselineIsThePast
    <3> HIDE DEF was
    <3>3. g.baseline = IF now1(g) = {} THEN {g.start} ELSE {h.start : h \in now1(g)}
      BY <3>1, <3>2
    <3> QED BY <3>3
  <2>2. CASE g = f
    <3>1. now1(f) = SeenBefore(e)
      BY <1>2, <1>3, <1>4, <1>5 DEF SeenBefore
    <3>2. f.baseline = IF SeenBefore(e) = {} THEN {f.start} ELSE {h.start : h \in SeenBefore(e)}
      <4>1. windows[e].ewma = {} <=> SeenBefore(e) = {}
        BY <1>4
      <4> QED BY <1>2, <1>4, <4>1
    <3> HIDE DEF SeenBefore
    <3>3. g.baseline = IF now1(g) = {} THEN {g.start} ELSE {h.start : h \in now1(g)}
      BY <2>2, <3>1, <3>2
    <3> QED BY <3>3
  <2> QED BY <1>5, <2>1, <2>2
<1>8. EwmaIsThePast'
  <2> SUFFICES ASSUME NEW d \in keys
               PROVE  /\ windows'[d].ewma = {g.start : g \in SeenBefore(d)'}
                      /\ \A g \in SeenBefore(d)' : g.start < windows'[d].start
    BY DEF EwmaIsThePast
  <2>1. CASE d # e
    <3>1. SeenBefore(d)' = SeenBefore(d) /\ windows'[d] = windows[d]
      BY <1>2, <1>3, <1>5, <2>1 DEF SeenBefore, TypeOK
    <3> QED BY <3>1 DEF BaselineInv, EwmaIsThePast
  <2>2. CASE d = e
    <3>1. SeenBefore(e)' = SeenBefore(e) \cup {f}
      BY <1>2, <1>5 DEF SeenBefore
    <3>2. windows'[e].start = WindowEnd(e) /\ windows'[e].ewma = windows[e].ewma \cup {f.start}
      BY <1>2, <1>3 DEF Flushed, TypeOK
    <3>3. \A g \in SeenBefore(e) : g.start \in Nat
      BY <1>3 DEF SeenBefore
    <3>4. \A g \in SeenBefore(e) \cup {f} : g.start < WindowEnd(e)
      BY <1>2, <1>3, <1>4, <3>3
    <3>5. {g.start : g \in SeenBefore(e) \cup {f}} = windows[e].ewma \cup {f.start}
      BY <1>4
    <3> QED BY <2>2, <3>1, <3>2, <3>4, <3>5
  <2> QED BY <2>1, <2>2
<1>9. FeaturesOfRuns'
  BY <1>2, <1>3, <1>5 DEF BaselineInv, FeaturesOfRuns
<1> QED BY <1>7, <1>8, <1>9 DEF BaselineInv

\* Every step keeps the baselines.
LEMMA BaselineKept ==
  ASSUME WindowInv, BaselineInv, [Next]_vars
  PROVE  BaselineInv'
<1> USE DEF kafkaVars, windowVars, sweepVars, batchVars
<1>0. TypeOK /\ keys \subseteq Entity /\ \A e \in keys : \A f \in SeenBefore(e) : f.start < windows[e].start
  BY DEF WindowInv, TypeOK, BaselineInv, EwmaIsThePast
<1>1. ASSUME UNCHANGED <<run, emitted, keys, windows>>, pc' # "down" => pc # "down" PROVE BaselineInv'
  BY <1>0, <1>1, BaselineFrame
<1>2. CASE Crash
  <2>1. keys' = {} /\ pc' = "down" /\ UNCHANGED <<run, emitted>>
    BY <1>2 DEF Crash
  <2>2. BaselineIsThePast'
    BY <2>1 DEF BaselineInv, BaselineIsThePast
  <2> QED BY <2>1, <2>2 DEF BaselineInv, EwmaIsThePast, FeaturesOfRuns
<1>3. CASE Start
  <2>1. keys' = keys /\ keys = {} /\ run' = run + 1 /\ UNCHANGED emitted
    BY <1>3 DEF Start, WindowInv, MemoryShape
  <2>2. run \in Nat /\ \A f \in emitted : f.run \in Nat /\ f.run <= run
    BY <1>0 DEF TypeOK, Feature, BaselineInv, FeaturesOfRuns
  <2>3. \A f \in emitted : f.run <= run' /\ f.run # run'
    BY <2>1, <2>2
  <2>4. BaselineIsThePast'
    BY <2>1 DEF BaselineInv, BaselineIsThePast
  <2> QED BY <2>1, <2>3, <2>4 DEF BaselineInv, EwmaIsThePast, FeaturesOfRuns
<1>4. ASSUME NEW e \in Entity, HandleRawEvent(e) PROVE BaselineInv'
  <2>1. UNCHANGED <<run, emitted, pc>> /\ pc = "select"
    BY <1>4 DEF HandleRawEvent
  <2>2. CASE UNCHANGED <<keys, windows>>
    BY <1>1, <2>1, <2>2
  <2>3. CASE log[e][position[e]] = "event"
    <3> DEFINE ev == [entity |-> e, offset |-> position[e], run |-> run, at |-> now]
               w  == IF e \in keys THEN windows[e] ELSE NewWindow(now)
    <3>1. keys' = keys \cup {e} /\ windows' = [windows EXCEPT ![e] = Add(w, ev)]
      BY <1>4, <2>3 DEF HandleRawEvent
    <3>2. w \in Window
      BY <1>0, WindowTypes
    <3>3. Add(w, ev).start = w.start /\ Add(w, ev).ewma = w.ewma
      BY <3>2 DEF Add, Window
    <3> HIDE DEF ev, w
    <3>4. windows'[e] = Add(w, ev) /\ \A d \in Entity \ {e} : windows'[d] = windows[d]
      BY <1>0, <3>1 DEF TypeOK
    <3>5. CASE e \in keys
      <4>1. keys' = keys /\ w = windows[e]
        BY <3>1, <3>5 DEF w
      <4>2. \A d \in keys : windows'[d].ewma = windows[d].ewma /\ windows'[d].start = windows[d].start
        BY <1>0, <3>3, <3>4, <4>1
      <4> QED BY <1>0, <2>1, <4>1, <4>2, BaselineFrame
    <3>6. CASE e \notin keys
      <4>1. w = NewWindow(now) /\ windows'[e].ewma = {}
        BY <3>3, <3>4, <3>6 DEF w, NewWindow
      <4>2. SeenBefore(e) = {}
        BY <2>1, <3>6 DEF SeenBefore, BaselineInv, FeaturesOfRuns
      <4>3. \A d \in Entity : SeenBefore(d)' = SeenBefore(d)
        BY <2>1 DEF SeenBefore
      <4>4. EwmaIsThePast'
        <5> SUFFICES ASSUME NEW d \in keys'
                     PROVE  /\ windows'[d].ewma = {g.start : g \in SeenBefore(d)'}
                            /\ \A g \in SeenBefore(d)' : g.start < windows'[d].start
          BY DEF EwmaIsThePast
        <5>1. CASE d = e
          BY <4>1, <4>2, <4>3, <5>1
        <5>2. CASE d # e
          <6>1. d \in keys /\ windows'[d] = windows[d] /\ SeenBefore(d)' = SeenBefore(d)
            BY <1>0, <3>1, <3>4, <4>3, <5>2
          <6> QED BY <6>1 DEF BaselineInv, EwmaIsThePast
        <5> QED BY <5>1, <5>2
      <4>5. FeaturesOfRuns'
        BY <2>1, <3>1 DEF BaselineInv, FeaturesOfRuns
      <4>6. BaselineIsThePast'
        BY <2>1 DEF BaselineInv, BaselineIsThePast
      <4> QED BY <4>4, <4>5, <4>6 DEF BaselineInv
    <3> QED BY <3>5, <3>6
  <2> QED BY <1>4, <2>2, <2>3 DEF HandleRawEvent
<1>5. ASSUME NEW e \in Entity, SweepVisit(e) PROVE BaselineInv'
  <2>1. /\ UNCHANGED <<run, keys>> /\ e \in keys /\ pc = "sweep"
    BY <1>5 DEF SweepVisit, WindowInv, MemoryShape
  <2>2. CASE UNCHANGED <<windows, emitted>>
    BY <1>1, <2>1, <2>2
  <2>3. CASE windows[e].events = {} /\ windows' = [windows EXCEPT ![e] = Flushed(e)] /\ emitted' = emitted
    <3>1. /\ \A d \in keys \ {e} : windows'[d] = windows[d]
          /\ windows'[e].start = WindowEnd(e) /\ windows'[e].ewma = windows[e].ewma
      BY <1>0, <2>3 DEF TypeOK, Flushed
    <3>2. windows[e].start \in Nat /\ WindowEnd(e) \in Nat /\ windows[e].start < WindowEnd(e)
      BY <1>0, WindowTypes
    <3>3. \A f \in SeenBefore(e) : f.start \in Nat
      BY <1>0 DEF SeenBefore, TypeOK, Feature
    <3>4. \A f \in SeenBefore(e) : f.start < windows'[e].start
      BY <1>0, <2>1, <3>1, <3>2, <3>3
    <3> QED BY <1>0, <2>1, <2>3, <3>1, <3>4, BaselineFrame
  <2>4. CASE /\ windows[e].events # {} /\ windows' = [windows EXCEPT ![e] = Flushed(e)]
             /\ emitted' = emitted \cup {FeatureOf(e)}
    BY <1>0, <2>1, <2>4, EmitKeepsBaseline
  <2> QED BY <1>5, <2>2, <2>3, <2>4 DEF SweepVisit
<1>6. ASSUME Environment, ~Crash PROVE BaselineInv'
  <2>1. UNCHANGED <<run, emitted, keys, windows, pc>>
    BY <1>6 DEF Environment, Publish, Tick, AutoCommit
  <2> QED BY <1>1, <2>1
<1>7. ASSUME SweepTick \/ SendFeature \/ SweepDone \/ FlushTick \/ FlushFeatures \/ FlushRawEvents
      PROVE  BaselineInv'
  <2>1. UNCHANGED <<run, emitted, keys, windows>> /\ pc # "down"
    BY <1>7 DEF SweepTick, SendFeature, SweepDone, FlushTick, FlushFeatures, FlushRawEvents
  <2> QED BY <1>1, <2>1
<1>8. CASE UNCHANGED vars
  BY <1>1, <1>8 DEF vars
<1> QED BY <1>2, <1>3, <1>4, <1>5, <1>6, <1>7, <1>8 DEF Next, Task

\* The baseline invariant holds always.
LEMMA BaselineInvariant == Spec => []BaselineInv
<1>1. Init => BaselineInv
  BY DEF Init, BaselineInv, BaselineIsThePast, EwmaIsThePast, FeaturesOfRuns
<1>2. WindowInv /\ BaselineInv /\ [Next]_vars => BaselineInv'
  BY BaselineKept
<1> QED BY <1>1, <1>2, WindowInvariant, PTL DEF Spec

(* The baseline a feature carries is exactly the earlier windows of its entity and
   run that had events, never its own window - save the first, which has nothing
   before it. *)
THEOREM BaselinesArePast == Spec => []BaselineIsThePast
<1>1. BaselineInv => BaselineIsThePast
  BY DEF BaselineInv
<1> QED BY <1>1, BaselineInvariant, PTL
-----------------------------------------------------------------------------
(* Beside RowConservation: what is awaited is in no table, and batches and failed
   inserts hold only what was emitted or taken. *)
RowsKnown ==
  /\ pending \cap (chFeatures \cup failed.features) = {}
  /\ failed.features \subseteq emitted
  /\ rawBatch \cup failed.raw \subseteq Windowed

RowInv == RowConservation /\ RowsKnown

(* What a step can do to the events that are somewhere: nothing, or take one
   message, whose event is nowhere yet. *)
LEMMA WindowedStep ==
  ASSUME WindowInv, [Next]_vars
  PROVE  \/ Windowed' = Windowed
         \/ \E e \in Entity :
              LET ev == [entity |-> e, offset |-> position[e], run |-> run, at |-> now]
              IN  /\ HandleRawEvent(e) /\ rawBatch' = rawBatch \cup {ev}
                  /\ ev \notin Windowed /\ Windowed' = Windowed \cup {ev}
<1> USE DEF kafkaVars, windowVars, sweepVars, batchVars
<1>1. ASSUME UNCHANGED <<keys, windows, emitted, lost>> PROVE Windowed' = Windowed
  BY <1>1 DEF Windowed, OpenEvents, EmittedEvents
<1>2. CASE Crash
  <2>1. keys' = {} /\ lost' = lost \cup OpenEvents /\ emitted' = emitted
    BY <1>2 DEF Crash
  <2>2. OpenEvents' = {} /\ EmittedEvents' = EmittedEvents
    BY <2>1 DEF OpenEvents, EmittedEvents
  <2> QED BY <2>1, <2>2 DEF Windowed
<1>3. ASSUME NEW e \in Entity, HandleRawEvent(e), log[e][position[e]] = "event"
      PROVE  LET ev == [entity |-> e, offset |-> position[e], run |-> run, at |-> now]
             IN  /\ HandleRawEvent(e) /\ rawBatch' = rawBatch \cup {ev}
                 /\ ev \notin Windowed /\ Windowed' = Windowed \cup {ev}
  <2>1. PICK ev : ev = [entity |-> e, offset |-> position[e], run |-> run, at |-> now]
    OBVIOUS
  <2>2. OpenEvents' = OpenEvents \cup {ev}
    BY <1>3, <2>1, HandleAdds DEF WindowInv
  <2>3. emitted' = emitted /\ lost' = lost /\ rawBatch' = rawBatch \cup {ev}
    BY <1>3, <2>1 DEF HandleRawEvent
  <2>4. Windowed' = Windowed \cup {ev}
    BY <2>2, <2>3 DEF Windowed, EmittedEvents
  <2>5. ev \notin Windowed
    <3>1. position[e] \in Nat /\ ev.entity = e /\ ev.offset = position[e] /\ ev.run = run
      BY <2>1 DEF WindowInv, TypeOK
    <3>2. \A x \in Windowed : x.run = run => x.offset < position[x.entity]
      BY DEF WindowInv, OffsetsBehind
    <3> QED BY <3>1, <3>2
  <2> QED BY <1>3, <2>1, <2>3, <2>4, <2>5
<1>4. ASSUME NEW e \in Entity, SweepVisit(e) PROVE Windowed' = Windowed
  <2>1. /\ UNCHANGED <<keys, lost>> /\ e \in keys /\ keys \subseteq Entity
    BY <1>4 DEF SweepVisit, WindowInv, MemoryShape, TypeOK
  <2>2. CASE UNCHANGED <<windows, emitted>>
    BY <1>1, <2>1, <2>2
  <2>3. CASE windows[e].events = {} /\ windows' = [windows EXCEPT ![e] = Flushed(e)] /\ emitted' = emitted
    <3>1. \A d \in Entity : windows'[d].events = windows[d].events
      BY <2>3 DEF Flushed, WindowInv, TypeOK
    <3>2. OpenEvents' = OpenEvents
      BY <2>1, <3>1 DEF OpenEvents
    <3> QED BY <2>1, <2>3, <3>2 DEF Windowed, EmittedEvents
  <2>4. CASE windows' = [windows EXCEPT ![e] = Flushed(e)] /\ emitted' = emitted \cup {FeatureOf(e)}
    <3>1. /\ OpenEvents' = OpenEvents \ windows[e].events
          /\ EmittedEvents' = EmittedEvents \cup windows[e].events
          /\ windows[e].events \subseteq OpenEvents
      BY <2>1, <2>4, FlushMoves
    <3> QED BY <2>1, <3>1 DEF Windowed
  <2> QED BY <1>4, <2>2, <2>3, <2>4 DEF SweepVisit
<1>5. ASSUME Environment, ~Crash PROVE Windowed' = Windowed
  <2>1. UNCHANGED <<keys, windows, emitted, lost>>
    BY <1>5 DEF Environment, Publish, Tick, AutoCommit
  <2> QED BY <1>1, <2>1
<1>6. ASSUME \/ Start \/ SweepTick \/ SendFeature \/ SweepDone \/ FlushTick \/ FlushFeatures \/ FlushRawEvents
             \/ UNCHANGED vars
             \/ \E e \in Entity : HandleRawEvent(e) /\ UNCHANGED <<keys, windows>>
      PROVE  Windowed' = Windowed
  <2>1. UNCHANGED <<keys, windows, emitted, lost>>
    BY <1>6 DEF Start, SweepTick, SendFeature, SweepDone, FlushTick, FlushFeatures, FlushRawEvents, vars,
                HandleRawEvent
  <2> QED BY <1>1, <2>1
<1>7. ASSUME NEW e \in Entity, HandleRawEvent(e)
      PROVE  UNCHANGED <<keys, windows>> \/ log[e][position[e]] = "event"
  BY <1>7 DEF HandleRawEvent
<1> QED BY <1>2, <1>3, <1>4, <1>5, <1>6, <1>7 DEF Next, Task

(* The features' half: a new feature is new because its events are, and every
   later step moves it on or dies with it. *)
LEMMA FeaturesRowKept ==
  ASSUME WindowInv, BaselineInv, RowInv, [Next]_vars
  PROVE  /\ FeaturesKept' /\ failed'.features \subseteq emitted'
         /\ pending' \cap (chFeatures' \cup failed'.features) = {}
<1> USE DEF kafkaVars, windowVars, sweepVars, batchVars
<1> DEFINE Goal == /\ FeaturesKept' /\ failed'.features \subseteq emitted'
                   /\ pending' \cap (chFeatures' \cup failed'.features) = {}
<1>0. /\ {f \in emitted : f.run = run /\ pc # "down"} \subseteq
           pending \cup featuresBatch \cup chFeatures \cup failed.features
      /\ featuresBatch \cap (chFeatures \cup failed.features \cup pending) = {}
      /\ topic \cup chFeatures \cup featuresBatch \cup pending \subseteq emitted
      /\ (pending # {}) <=> (pc = "send")
      /\ failed.features \subseteq emitted
      /\ pending \cap (chFeatures \cup failed.features) = {}
  BY DEF RowInv, RowConservation, FeaturesKept, RowsKnown
<1>1. ASSUME UNCHANGED <<run, emitted, pending, featuresBatch, chFeatures, topic>>,
             failed'.features = failed.features, pc' # "down" => pc # "down",
             pc' = "send" <=> pc = "send"
      PROVE  Goal
  BY <1>0, <1>1 DEF FeaturesKept
<1>2. CASE Crash
  BY <1>0, <1>2 DEF Crash, FeaturesKept
<1>3. CASE Start
  <2>1. /\ pc = "down" /\ pc' = "select" /\ run' = run + 1
        /\ UNCHANGED <<emitted, pending, featuresBatch, chFeatures, topic, failed>>
    BY <1>3 DEF Start
  <2>2. run \in Nat /\ \A f \in emitted : f.run \in Nat /\ f.run <= run
    BY DEF WindowInv, TypeOK, Feature, BaselineInv, FeaturesOfRuns
  <2>3. \A f \in emitted : f.run # run'
    BY <2>1, <2>2
  <2> QED BY <1>0, <2>1, <2>3 DEF FeaturesKept
<1>4. ASSUME NEW e \in Entity, SweepVisit(e) PROVE Goal
  <2>1. /\ pc = "sweep" /\ e \in keys
        /\ UNCHANGED <<run, featuresBatch, chFeatures, topic, failed>>
    BY <1>4 DEF SweepVisit, WindowInv, MemoryShape
  <2>2. CASE UNCHANGED <<pending, emitted, pc>>
    BY <1>1, <2>1, <2>2
  <2>3. CASE windows[e].events # {} /\ pending' = {FeatureOf(e)} /\ emitted' = emitted \cup {FeatureOf(e)} /\ pc' = "send"
    <3>1. PICK f : f = FeatureOf(e)
      OBVIOUS
    <3>2. f.events = windows[e].events
      BY <3>1 DEF FeatureOf
    <3>3. windows[e].events \subseteq OpenEvents /\ OpenEvents \cap EmittedEvents = {}
      BY <2>1 DEF OpenEvents, WindowInv, WindowedExactlyOnce
    <3>4. f \notin emitted
      BY <2>3, <3>2, <3>3 DEF EmittedEvents
    <3>5. pending = {}
      BY <1>0, <2>1
    <3>6. pending' = {f} /\ emitted' = emitted \cup {f} /\ pc' = "send"
      BY <2>3, <3>1
    <3>7. {g \in emitted' : g.run = run /\ pc' # "down"} \subseteq
            pending' \cup featuresBatch \cup chFeatures \cup failed.features
      BY <1>0, <2>1, <3>5, <3>6
    <3> QED BY <1>0, <2>1, <3>4, <3>6, <3>7 DEF FeaturesKept
  <2> QED BY <1>4, <2>2, <2>3 DEF SweepVisit
<1>5. CASE SendFeature
  <2>1. /\ pc = "send" /\ pc' = "sweep" /\ pending' = {} /\ topic' \subseteq topic \cup pending
        /\ featuresBatch' = featuresBatch \cup pending /\ UNCHANGED <<run, emitted, chFeatures, failed>>
    BY <1>5 DEF SendFeature
  <2> QED BY <1>0, <2>1 DEF FeaturesKept
<1>6. CASE FlushFeatures
  <2>1. /\ pc = "flush" /\ pc' \in {"select", "flush"} /\ featuresBatch' = {}
        /\ UNCHANGED <<run, emitted, pending, topic>>
        /\ \/ chFeatures' = chFeatures \cup featuresBatch /\ failed' = failed
           \/ chFeatures' = chFeatures /\ failed' = [failed EXCEPT !.features = @ \cup featuresBatch]
    BY <1>6 DEF FlushFeatures, FlushedTable
  <2>2. failed.features \cup featuresBatch = [failed EXCEPT !.features = @ \cup featuresBatch].features
    BY DEF WindowInv, TypeOK
  <2> QED BY <1>0, <2>1, <2>2 DEF FeaturesKept
<1>7. CASE FlushRawEvents
  <2>1. /\ pc = "flush" /\ pc' \in {"select", "flush"}
        /\ UNCHANGED <<run, emitted, pending, featuresBatch, chFeatures, topic>>
        /\ \/ failed' = failed \/ failed' = [failed EXCEPT !.raw = @ \cup rawBatch]
    BY <1>7 DEF FlushRawEvents, FlushedTable
  <2>2. failed'.features = failed.features
    BY <2>1 DEF WindowInv, TypeOK
  <2> QED BY <1>1, <2>1, <2>2
<1>8. ASSUME \/ \E e \in Entity, kind \in {"event", "malformed"} : Publish(e, kind)
             \/ Tick \/ AutoCommit \/ SweepTick \/ SweepDone \/ FlushTick
             \/ \E e \in Entity : HandleRawEvent(e)
             \/ UNCHANGED vars
      PROVE  Goal
  <2>1. /\ UNCHANGED <<run, emitted, pending, featuresBatch, chFeatures, topic, failed>>
        /\ pc' = pc \/ (pc # "down" /\ pc # "send" /\ pc' # "down" /\ pc' # "send")
    BY <1>8 DEF Publish, Tick, AutoCommit, SweepTick, SweepDone, FlushTick, HandleRawEvent, vars
  <2> QED BY <1>1, <2>1
<1> QED BY <1>2, <1>3, <1>4, <1>5, <1>6, <1>7, <1>8 DEF Next, Environment, Task

(* The raw events' half. *)
LEMMA RawRowKept ==
  ASSUME WindowInv, RowInv, [Next]_vars
  PROVE  RawEventsKept' /\ rawBatch' \cup failed'.raw \subseteq Windowed'
<1> USE DEF kafkaVars, windowVars, sweepVars, batchVars
<1> DEFINE Goal == RawEventsKept' /\ rawBatch' \cup failed'.raw \subseteq Windowed'
<1>0. /\ {ev \in Windowed : ev.run = run /\ pc # "down"} \subseteq rawBatch \cup chRaw \cup failed.raw
      /\ rawBatch \cap (chRaw \cup failed.raw) = {}
      /\ chRaw \cup rawBatch \cup failed.raw \subseteq Windowed
  BY DEF RowInv, RowConservation, RawEventsKept, RowsKnown
<1>1. ASSUME UNCHANGED <<run, rawBatch, chRaw>>, Windowed' = Windowed,
             failed'.raw = failed.raw, pc' # "down" => pc # "down"
      PROVE  Goal
  BY <1>0, <1>1 DEF RawEventsKept
<1>2. ASSUME NEW e \in Entity,
             LET ev == [entity |-> e, offset |-> position[e], run |-> run, at |-> now]
             IN  /\ HandleRawEvent(e) /\ rawBatch' = rawBatch \cup {ev}
                 /\ ev \notin Windowed /\ Windowed' = Windowed \cup {ev}
      PROVE  Goal
  <2>1. PICK ev : /\ rawBatch' = rawBatch \cup {ev}
                  /\ ev \notin Windowed /\ Windowed' = Windowed \cup {ev}
    BY <1>2
  <2>2. UNCHANGED <<run, pc, chRaw, failed>>
    BY <1>2 DEF HandleRawEvent
  <2> QED BY <1>0, <2>1, <2>2 DEF RawEventsKept
<1>3. ASSUME Windowed' = Windowed PROVE Goal
  <2>1. CASE Crash
    BY <1>0, <1>3, <2>1 DEF Crash, RawEventsKept
  <2>2. CASE Start
    <3>1. /\ run' = run + 1 /\ UNCHANGED <<rawBatch, chRaw, failed>>
      BY <2>2 DEF Start
    <3>2. run \in Nat /\ \A ev \in Windowed : ev.run \in Nat /\ ev.run <= run
      BY WindowedTyped DEF WindowInv, TypeOK, OffsetsBehind
    <3>3. \A ev \in Windowed : ev.run # run'
      BY <3>1, <3>2
    <3> QED BY <1>0, <1>3, <3>1, <3>3 DEF RawEventsKept
  <2>3. CASE FlushFeatures
    <3>1. /\ pc = "flush" /\ UNCHANGED <<run, rawBatch, chRaw>>
          /\ \/ failed' = failed \/ failed' = [failed EXCEPT !.features = @ \cup featuresBatch]
      BY <2>3 DEF FlushFeatures, FlushedTable
    <3>2. failed'.raw = failed.raw
      BY <3>1 DEF WindowInv, TypeOK
    <3> QED BY <1>1, <1>3, <3>1, <3>2
  <2>4. CASE FlushRawEvents
    <3>1. /\ pc = "flush" /\ rawBatch' = {} /\ UNCHANGED run
          /\ \/ chRaw' = chRaw \cup rawBatch /\ failed' = failed
             \/ chRaw' = chRaw /\ failed' = [failed EXCEPT !.raw = @ \cup rawBatch]
      BY <2>4 DEF FlushRawEvents, FlushedTable
    <3>2. failed.raw \cup rawBatch = [failed EXCEPT !.raw = @ \cup rawBatch].raw
      BY DEF WindowInv, TypeOK
    <3> QED BY <1>0, <1>3, <3>1, <3>2 DEF RawEventsKept
  <2>5. ASSUME \/ \E e \in Entity, kind \in {"event", "malformed"} : Publish(e, kind)
               \/ Tick \/ AutoCommit \/ SweepTick \/ SweepDone \/ FlushTick \/ SendFeature
               \/ \E e \in Entity : SweepVisit(e)
               \/ UNCHANGED vars
        PROVE  Goal
    <3>1. /\ UNCHANGED <<run, rawBatch, chRaw, failed>>
          /\ pc' = pc \/ pc # "down"
      BY <2>5 DEF Publish, Tick, AutoCommit, SweepTick, SweepDone, FlushTick, SendFeature, SweepVisit, vars
    <3> QED BY <1>1, <1>3, <3>1
  <2>6. ASSUME NEW e \in Entity, HandleRawEvent(e) PROVE Goal
    <3>1. /\ UNCHANGED <<run, pc, chRaw, failed>>
          /\ \/ rawBatch' = rawBatch
             \/ rawBatch' = rawBatch \cup {[entity |-> e, offset |-> position[e], run |-> run, at |-> now]}
      BY <2>6 DEF HandleRawEvent
    <3>2. CASE rawBatch' = rawBatch
      BY <1>1, <1>3, <3>1, <3>2
    <3>3. CASE rawBatch' # rawBatch
      <4>1. log[e][position[e]] = "event"
        BY <2>6, <3>3 DEF HandleRawEvent
      <4>2. PICK ev : ev = [entity |-> e, offset |-> position[e], run |-> run, at |-> now]
        OBVIOUS
      <4>3. ev \in OpenEvents'
        BY <2>6, <4>1, <4>2, HandleAdds DEF WindowInv
      <4>4. ev \in Windowed
        BY <1>3, <4>3 DEF Windowed
      <4>5. position[e] \in Nat /\ ev.entity = e /\ ev.offset = position[e] /\ ev.run = run
        BY <4>2 DEF WindowInv, TypeOK
      <4>6. \A x \in Windowed : x.run = run => x.offset < position[x.entity]
        BY DEF WindowInv, OffsetsBehind
      <4> QED BY <4>4, <4>5, <4>6
    <3> QED BY <3>2, <3>3
  <2> QED BY <2>1, <2>2, <2>3, <2>4, <2>5, <2>6 DEF Next, Environment, Task
<1> QED BY <1>2, <1>3, WindowedStep

(* Every feature and raw event of the running process is awaited, batched, or went
   to ClickHouse in one insert, acknowledged or reported failed; none twice. *)
THEOREM RowsConserved == Spec => []RowConservation
<1>1. Init => RowInv
  BY DEF Init, RowInv, RowConservation, FeaturesKept, RawEventsKept, RowsKnown, Windowed,
         OpenEvents, EmittedEvents
<1>2. WindowInv /\ BaselineInv /\ RowInv /\ [Next]_vars => RowInv'
  BY FeaturesRowKept, RawRowKept DEF RowInv, RowConservation, RowsKnown
<1>3. RowInv => RowConservation
  BY DEF RowInv
<1> QED BY <1>1, <1>2, <1>3, WindowInvariant, BaselineInvariant, PTL DEF Spec
-----------------------------------------------------------------------------
(* Refinement: every step of FeatureService is, of TumblingWindows, an arrival, the
   close of one window, the clock, a death or, seen from there, nothing at all. *)

(* The windows and features as TumblingWindows sees them (the substitution of
   Tumbling in FeatureService). *)
AbstractWindow(k) == [start |-> windows[k].start, events |-> windows[k].events]
AbstractClose(f)  == [entity |-> f.entity, start |-> f.start, events |-> f.events]
Current == [e \in Entity |-> {AbstractWindow(k) : k \in keys \cap {e}}]
Closed  == {AbstractClose(f) : f \in emitted}
ArrivalSet == [entity : Entity, offset : 1 .. MaxEvents, run : 1 .. MaxStarts, at : 0 .. MaxTime]

(* The model's own bounds, which say which events can arrive. *)
BoundInv ==
  /\ \A e \in Entity : Len(log[e]) <= MaxEvents
  /\ now <= MaxTime /\ run <= MaxStarts /\ (pc # "down" => 1 <= run)

\* The bounds hold always.
LEMMA BoundsHold == Spec => []BoundInv
<1>1. Init => BoundInv
  BY BoundsAssumption DEF Init, BoundInv
<1>2. TypeOK /\ BoundInv /\ [Next]_vars => BoundInv'
  <2> SUFFICES ASSUME TypeOK, BoundInv, [Next]_vars PROVE BoundInv'
    OBVIOUS
  <2> USE DEF kafkaVars, windowVars, sweepVars, batchVars
  <2>0. now \in Nat /\ run \in Nat
    BY DEF TypeOK
  <2>1. ASSUME NEW e \in Entity, NEW kind \in {"event", "malformed"}, Publish(e, kind) PROVE BoundInv'
    <3>1. Len(log[e]) < MaxEvents /\ log' = [log EXCEPT ![e] = Append(log[e], kind)]
          /\ UNCHANGED <<now, run, pc>>
      BY <2>1 DEF Publish
    <3>2. log[e] \in Seq({"event", "malformed"})
      BY DEF TypeOK
    <3>3. Len(Append(log[e], kind)) = Len(log[e]) + 1 /\ Len(log[e]) \in Nat
      BY <3>2
    <3>4. \A d \in Entity : log'[d] = IF d = e THEN Append(log[e], kind) ELSE log[d]
      BY <3>1 DEF TypeOK
    <3>5. \A d \in Entity : Len(log'[d]) <= MaxEvents
      BY <3>1, <3>3, <3>4, BoundsAssumption DEF BoundInv
    <3> QED BY <3>1, <3>5 DEF BoundInv
  <2>2. CASE Tick
    BY <2>0, <2>2, BoundsAssumption DEF Tick, BoundInv
  <2>3. CASE Start
    BY <2>0, <2>3, BoundsAssumption DEF Start, BoundInv
  <2>4. ASSUME UNCHANGED <<log, now, run>>, pc' # "down" => pc # "down" PROVE BoundInv'
    BY <2>4 DEF BoundInv
  <2>5. ASSUME \/ AutoCommit \/ Crash \/ SweepTick \/ SendFeature \/ SweepDone
               \/ FlushTick \/ FlushFeatures \/ FlushRawEvents \/ UNCHANGED vars
               \/ \E e \in Entity : HandleRawEvent(e) \/ SweepVisit(e)
        PROVE  BoundInv'
    <3>1. UNCHANGED <<log, now, run>> /\ (pc' # "down" => pc # "down")
      BY <2>5 DEF AutoCommit, Crash, SweepTick, SendFeature, SweepDone, FlushTick,
                  FlushFeatures, FlushRawEvents, HandleRawEvent, SweepVisit, vars
    <3> QED BY <3>1, <2>4
  <2> QED BY <2>1, <2>2, <2>3, <2>5 DEF Next, Environment, Task
<1> QED BY <1>1, <1>2, TypeCorrect, PTL DEF Spec

(* An entity has an open window exactly when it is in the HashMap. *)
LEMMA CurrentIs ==
  ASSUME NEW e \in Entity
  PROVE  /\ e \in keys => Current[e] = {AbstractWindow(e)}
         /\ e \notin keys => Current[e] = {}
  BY DEF Current

\* The abstract module's open and closed events are those of the service.
LEMMA SameEvents ==
  ASSUME TypeOK
  PROVE  Tumbling!CurrentEvents = OpenEvents /\ Tumbling!ClosedEvents = EmittedEvents
<1> DEFINE CE == UNION {w.events : w \in UNION {Current[e] : e \in Entity}}
<1>0. keys \subseteq Entity
  BY DEF TypeOK
<1>1. ASSUME NEW x \in CE PROVE x \in OpenEvents
  <2>1. PICK w \in UNION {Current[e] : e \in Entity} : x \in w.events
    OBVIOUS
  <2>2. PICK e \in Entity : w \in Current[e]
    OBVIOUS
  <2>3. e \in keys /\ w = AbstractWindow(e)
    BY <2>2, CurrentIs
  <2> QED BY <2>1, <2>3 DEF AbstractWindow, OpenEvents
<1>2. ASSUME NEW x \in OpenEvents PROVE x \in CE
  <2>1. PICK e \in keys : x \in windows[e].events
    BY DEF OpenEvents
  <2>2. AbstractWindow(e) \in Current[e] /\ x \in AbstractWindow(e).events /\ e \in Entity
    BY <1>0, <2>1, CurrentIs DEF AbstractWindow
  <2> QED BY <2>2
<1>3. UNION {c.events : c \in Closed} = EmittedEvents
  <2>1. \A f \in emitted : AbstractClose(f).events = f.events
    BY DEF AbstractClose
  <2>2. \A x \in EmittedEvents : \E c \in Closed : x \in c.events
    BY <2>1 DEF EmittedEvents, Closed
  <2>3. \A c \in Closed : \E f \in emitted : c.events = f.events
    BY <2>1 DEF Closed
  <2>4. \A c \in Closed : c.events \subseteq EmittedEvents
    BY <2>3 DEF EmittedEvents
  <2> QED BY <2>2, <2>4
<1>4. Tumbling!CurrentEvents = CE /\ Tumbling!ClosedEvents = UNION {c.events : c \in Closed}
  BY DEF Tumbling!CurrentEvents, Tumbling!ClosedEvents, Current, Closed, AbstractWindow, AbstractClose
<1> QED BY <1>1, <1>2, <1>3, <1>4

\* Handling an event is an arrival.
LEMMA HandleArrives ==
  ASSUME WindowInv, BoundInv, NEW e \in Entity, HandleRawEvent(e), log[e][position[e]] = "event"
  PROVE  \E ev \in ArrivalSet : Tumbling!Arrive(ev)
<1>0. TypeOK
  BY DEF WindowInv
<1>1. PICK ev : ev = [entity |-> e, offset |-> position[e], run |-> run, at |-> now]
  OBVIOUS
<1>2. ev.entity = e /\ ev.at = now /\ ev.offset = position[e] /\ ev.run = run
  BY <1>1
<1>3. ev \in ArrivalSet
  <2>1. /\ position[e] \in Nat \ {0} /\ Len(log[e]) \in Nat /\ run \in Nat /\ now \in Nat
        /\ position[e] <= Len(log[e]) /\ pc = "select"
    BY <1>0 DEF TypeOK, HandleRawEvent
  <2>2. position[e] \in 1 .. MaxEvents /\ run \in 1 .. MaxStarts /\ now \in 0 .. MaxTime
    BY <2>1, BoundsAssumption DEF BoundInv
  <2> QED BY <1>1, <2>2 DEF ArrivalSet
<1>4. ev \notin Windowed
  <2>1. position[e] \in Nat /\ \A x \in Windowed : x.run = run => x.offset < position[x.entity]
    BY <1>0 DEF TypeOK, WindowInv, OffsetsBehind
  <2> QED BY <1>2, <2>1
<1>5. /\ keys' = keys \cup {e}
      /\ windows'[e].events = (IF e \in keys THEN windows[e].events ELSE {}) \cup {ev}
      /\ \A d \in Entity \ {e} : windows'[d] = windows[d]
  BY <1>0, <1>1, HandleAdds
<1>6. windows'[e].start = IF e \in keys THEN windows[e].start ELSE now
  <2> DEFINE w  == IF e \in keys THEN windows[e] ELSE NewWindow(now)
  <2>1. windows' = [windows EXCEPT ![e] = Add(w, ev)]
    BY <1>1 DEF HandleRawEvent
  <2>2. w \in Window
    BY <1>0, WindowTypes
  <2>3. Add(w, ev).start = w.start
    BY <2>2 DEF Add, Window
  <2>4. windows'[e] = Add(w, ev)
    BY <1>0, <2>1 DEF TypeOK
  <2> QED BY <2>3, <2>4 DEF NewWindow
<1>7. UNCHANGED <<now, emitted, lost>>
  BY DEF HandleRawEvent
<1>8. Current' = [Current EXCEPT ![e] =
        IF Current[e] = {} THEN {[start |-> now, events |-> {ev}]}
        ELSE {[w EXCEPT !.events = w.events \cup {ev}] : w \in Current[e]}]
  <2> DEFINE new == IF Current[e] = {} THEN {[start |-> now, events |-> {ev}]}
                    ELSE {[w EXCEPT !.events = w.events \cup {ev}] : w \in Current[e]}
  <2>1. Current'[e] = {[start |-> windows'[e].start, events |-> windows'[e].events]}
    BY <1>5 DEF Current, AbstractWindow
  <2>2. new = {[start |-> windows'[e].start, events |-> windows'[e].events]}
    <3>1. CASE e \in keys
      <4>1. [AbstractWindow(e) EXCEPT !.events = AbstractWindow(e).events \cup {ev}]
              = [start |-> windows[e].start, events |-> windows[e].events \cup {ev}]
        BY DEF AbstractWindow
      <4>2. Current[e] = {AbstractWindow(e)}
        BY <3>1, CurrentIs
      <4>3. new = {[AbstractWindow(e) EXCEPT !.events = AbstractWindow(e).events \cup {ev}]}
        BY <4>2
      <4> QED BY <1>5, <1>6, <3>1, <4>1, <4>3
    <3>2. CASE e \notin keys
      BY <1>5, <1>6, <3>2, CurrentIs
    <3> QED BY <3>1, <3>2
  <2>3. \A d \in Entity \ {e} : Current'[d] = Current[d]
    BY <1>5 DEF Current, AbstractWindow
  <2> HIDE DEF new
  <2>4. Current' = [Current EXCEPT ![e] = new]
    BY <2>1, <2>2, <2>3 DEF Current
  <2> QED BY <2>4 DEF new
<1>9. Closed' = Closed
  BY <1>7 DEF Closed, AbstractClose
<1>10. ev \notin Tumbling!CurrentEvents \cup Tumbling!ClosedEvents \cup lost
  BY <1>0, <1>4, SameEvents DEF Windowed
<1>11. Tumbling!Arrive(ev)
  BY <1>2, <1>7, <1>8, <1>9, <1>10 DEF Tumbling!Arrive,
     Current, Closed, AbstractWindow, AbstractClose
<1> QED BY <1>3, <1>11

\* Flushing a window is a closing.
LEMMA VisitCloses ==
  ASSUME WindowInv, TimingInv, NEW e \in Entity, SweepVisit(e), ShouldFlush(e, sweepNow)
  PROVE  Tumbling!Close(e)
<1>0. TypeOK
  BY DEF WindowInv
<1>1. /\ e \in keys /\ windows' = [windows EXCEPT ![e] = Flushed(e)]
      /\ UNCHANGED <<now, keys, lost>>
  BY DEF SweepVisit, WindowInv, MemoryShape
<1>2. PICK w : w = AbstractWindow(e)
  OBVIOUS
<1>3. w.start = windows[e].start /\ w.events = windows[e].events
  BY <1>2 DEF AbstractWindow
<1>4. w \in Current[e]
  BY <1>1, <1>2, CurrentIs
<1>5. w.start + WindowSize[e] <= now
  <2>1. /\ windows[e].start \in Nat /\ WindowSize[e] \in Nat /\ sweepNow \in Nat /\ now \in Nat
    BY <1>0, WindowTypes DEF TypeOK
  <2>2. windows[e].start + WindowSize[e] <= sweepNow /\ sweepNow <= now
    BY DEF ShouldFlush, TimingInv
  <2> QED BY <1>3, <2>1, <2>2
<1>6. /\ windows'[e].start = w.start + WindowStep[e] /\ windows'[e].events = {}
      /\ \A d \in Entity \ {e} : windows'[d] = windows[d]
  BY <1>0, <1>1, <1>3 DEF TypeOK, Flushed, WindowEnd
<1>7. Current' = [Current EXCEPT ![e] = {[start |-> w.start + WindowStep[e], events |-> {}]}]
  <2>1. Current'[e] = {[start |-> w.start + WindowStep[e], events |-> {}]}
    BY <1>1, <1>6 DEF Current, AbstractWindow
  <2>2. \A d \in Entity \ {e} : Current'[d] = Current[d]
    BY <1>1, <1>6 DEF Current, AbstractWindow
  <2> QED BY <2>1, <2>2 DEF Current
<1>8. Closed' = Closed \cup {[entity |-> e, start |-> w.start, events |-> x] : x \in {w.events} \ {{}}}
  <2>1. CASE windows[e].events = {}
    <3>1. emitted' = emitted
      BY <2>1 DEF SweepVisit
    <3> QED BY <1>3, <2>1, <3>1 DEF Closed, AbstractClose
  <2>2. CASE windows[e].events # {}
    <3>1. PICK f : f = FeatureOf(e)
      OBVIOUS
    <3>2. emitted' = emitted \cup {f}
      BY <2>2, <3>1 DEF SweepVisit
    <3>3. AbstractClose(f) = [entity |-> e, start |-> w.start, events |-> w.events]
      BY <1>3, <3>1 DEF AbstractClose, FeatureOf
    <3>4. Closed' = Closed \cup {AbstractClose(f)}
      BY <3>2 DEF Closed, AbstractClose
    <3> QED BY <1>3, <2>2, <3>3, <3>4
  <2> QED BY <2>1, <2>2
<1> QED
  BY <1>1, <1>4, <1>5, <1>7, <1>8 DEF Tumbling!Close, Current, Closed, AbstractWindow, AbstractClose

\* A crash is a death.
LEMMA CrashDies ==
  ASSUME TypeOK, Crash
  PROVE  Tumbling!Die
<1>1. /\ lost' = lost \cup OpenEvents /\ keys' = {} /\ UNCHANGED <<now, emitted>>
  BY DEF Crash
<1>2. Current' = [e \in Entity |-> {}]
  BY <1>1 DEF Current
<1>3. Closed' = Closed
  BY <1>1 DEF Closed, AbstractClose
<1> QED
  BY <1>1, <1>2, <1>3, SameEvents DEF Tumbling!Die, Current, Closed, AbstractWindow, AbstractClose

(* Every step of the consumer is a step of TumblingWindows or none at all. *)
LEMMA StepMaps ==
  ASSUME WindowInv, TimingInv, BoundInv, [Next]_vars
  PROVE  [Tumbling!WindowsNext]_(Tumbling!windowVars)
<1> USE DEF kafkaVars, windowVars, sweepVars, batchVars
<1> DEFINE Goal == [Tumbling!WindowsNext]_(Tumbling!windowVars)
<1>0. TypeOK
  BY DEF WindowInv
<1>1. ASSUME UNCHANGED <<keys, windows, emitted, lost, now>> PROVE Goal
  <2>1. Current' = Current /\ Closed' = Closed
    BY <1>1 DEF Current, Closed, AbstractWindow, AbstractClose
  <2> QED
    BY <1>1, <2>1 DEF Tumbling!windowVars, Current, Closed, AbstractWindow, AbstractClose
<1>2. CASE Tick
  <2>1. now' = now + 1 /\ UNCHANGED <<keys, windows, emitted, lost>>
    BY <1>2 DEF Tick
  <2>2. Current' = Current /\ Closed' = Closed
    BY <2>1 DEF Current, Closed, AbstractWindow, AbstractClose
  <2>3. Tumbling!Advance
    BY <2>1, <2>2 DEF Tumbling!Advance, Current, Closed, AbstractWindow, AbstractClose
  <2> QED BY <2>3 DEF Tumbling!WindowsNext
<1>3. CASE Crash
  BY <1>0, <1>3, CrashDies DEF Tumbling!WindowsNext
<1>4. ASSUME NEW e \in Entity, HandleRawEvent(e) PROVE Goal
  <2>1. UNCHANGED <<emitted, lost, now>>
    BY <1>4 DEF HandleRawEvent
  <2>2. CASE UNCHANGED <<keys, windows>>
    BY <1>1, <2>1, <2>2
  <2>3. CASE log[e][position[e]] = "event"
    <3>1. PICK ev \in ArrivalSet : Tumbling!Arrive(ev)
      BY <1>4, <2>3, HandleArrives
    <3>2. Tumbling!WindowsNext
      BY <3>1 DEF Tumbling!WindowsNext, ArrivalSet
    <3> QED BY <3>2
  <2> QED BY <1>4, <2>2, <2>3 DEF HandleRawEvent
<1>5. ASSUME NEW e \in Entity, SweepVisit(e) PROVE Goal
  <2>1. CASE ShouldFlush(e, sweepNow)
    <3>1. Tumbling!Close(e)
      BY <1>5, <2>1, VisitCloses
    <3>2. Tumbling!WindowsNext
      BY <3>1 DEF Tumbling!WindowsNext
    <3> QED BY <3>2
  <2>2. CASE ~ShouldFlush(e, sweepNow)
    <3>1. UNCHANGED <<keys, windows, emitted, lost, now>>
      BY <1>5, <2>2 DEF SweepVisit
    <3> QED BY <1>1, <3>1
  <2> QED BY <2>1, <2>2
<1>6. ASSUME \/ \E e \in Entity, kind \in {"event", "malformed"} : Publish(e, kind)
             \/ AutoCommit \/ Start \/ SweepTick \/ SendFeature \/ SweepDone
             \/ FlushTick \/ FlushFeatures \/ FlushRawEvents \/ UNCHANGED vars
      PROVE  Goal
  <2>1. UNCHANGED <<keys, windows, emitted, lost, now>>
    BY <1>6 DEF Publish, AutoCommit, Start, SweepTick, SendFeature, SweepDone, FlushTick,
                FlushFeatures, FlushRawEvents, vars
  <2> QED BY <1>1, <2>1
<1> QED BY <1>2, <1>3, <1>4, <1>5, <1>6 DEF Next, Environment, Task

(* The consumer task implements TumblingWindows for every number of entities,
   window lengths and batch sizes: sweeps, stalled sends, commits, batches and
   restarts decide when a window closes and what a death takes, and nothing else. *)
THEOREM ImplementsTumblingWindows == Spec => WindowsTumble
<1>1. Init => Tumbling!WindowsInit
  <2> SUFFICES ASSUME Init PROVE Tumbling!WindowsInit
    OBVIOUS
  <2>1. now = 0 /\ keys = {} /\ emitted = {} /\ lost = {}
    BY DEF Init
  <2>2. Current = [e \in Entity |-> {}] /\ Closed = {}
    BY <2>1 DEF Current, Closed
  <2> QED
    BY <2>1, <2>2 DEF Tumbling!WindowsInit, Current, Closed, AbstractWindow, AbstractClose
<1>2. WindowInv /\ TimingInv /\ BoundInv /\ [Next]_vars => [Tumbling!WindowsNext]_(Tumbling!windowVars)
  BY StepMaps
<1> QED
  BY <1>1, <1>2, WindowInvariant, TimingInvariant, BoundsHold, PTL
  DEF Spec, WindowsTumble, Tumbling!WindowsSpec
=============================================================================
