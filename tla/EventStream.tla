---------------------------- MODULE EventStream ----------------------------
(***************************************************************************)
(* From the generator's ticks to the raw-events topic: services/             *)
(* data-generator/app/main.py (producer loop, /stream) and services/ingestion  *)
(* (ingest.rs, backoff.rs, sink.rs).  The generator is one event loop, the     *)
(* ingestion one task that holds at most one connection and awaits one send    *)
(* at a time.  An event is known by its entity, the life of the generator and   *)
(* its seq there.                                                            *)
(***************************************************************************)
EXTENDS Naturals, Sequences, FiniteSets, SequencesExt

CONSTANTS
  Entity,
  RateUp, RateDown, \* events per tick, events_per_sec * TICK_INTERVAL_S, as a fraction
  Base, Cap,        \* backoff.rs: BASE_MS and MAX_MS
  MaxShift,         \* backoff_delay: attempt.min(10)
  MaxTicks,         \* bound: ticks of the producer loop in all lives
  MaxFaults         \* bound: broken connections, refused connects, failed sends, doubled
                    \* records and ends of either process

ASSUME EntityAssumption == IsFiniteSet(Entity)
ASSUME RateAssumption == RateUp \in Nat /\ RateDown \in Nat \ {0}
ASSUME BackoffAssumption == Base \in Nat \ {0} /\ Cap \in Nat /\ Base <= Cap /\ MaxShift \in 0 .. 10
ASSUME BoundsAssumption == MaxTicks \in Nat /\ MaxFaults \in Nat

VARIABLES
  (* generator *)
  up,       \* the process runs
  life,     \* number of its starts
  carry,    \* _producer_loop: carry, in 1/RateDown events, without the float's error
  seq,      \* impl.seq of each entity
  (* connection *)
  link,     \* "none", "accepted", "open" (its handler is in state.clients), "broken"
  out,      \* frames sent and not read: _send_or_drop tasks and the socket, in order
  (* ingestion *)
  ing,      \* "connecting", "reading", "sleeping"
  lines,    \* lines of the frame being handled, the first of them being sent
  attempt,  \* run: attempt
  delay,    \* backoff_delay of the last sleep, in ms
  (* Kafka *)
  topic,    \* raw-events
  late,     \* events given up whose request a broker may still hold
  (* history *)
  ticks,    \* ticks, in all lives and in this one
  faults,
  failed,   \* connects refused since a connection last worked
  aired,    \* events broadcast on the current connection, in order
  gaveUp,   \* events whose send failed, or was awaited when the ingestion ended
  newest    \* per entity, the last event the ingestion is done with: at most one

genVars  == <<up, life, carry, seq>>
ingVars  == <<ing, lines, attempt, delay, failed>>
kafka    == <<topic, late, gaveUp, newest>>
vars == <<genVars, link, out, ingVars, kafka, ticks, faults, aired>>

Event == [entity : Entity, life : 1 .. MaxFaults + 1, seq : 1 .. ((MaxTicks * RateUp) \div RateDown)]

Fault == faults < MaxFaults /\ faults' = faults + 1
Least(a, b) == IF a <= b THEN a ELSE b
-----------------------------------------------------------------------------
(* Generator *)

(* events_for_tick: how many events, and the new carry.  The code adds floats and
   truncates: a sum that should be whole may come out a little below, and then
   the last event is left in the carry, RateDown/RateDown of an event. *)
EventsForTick_Rounded(c) == {[n |-> (c + RateUp) \div RateDown, carry |-> 0]}
EventsForTick(c) ==
  {t \in [n : 0 .. c + RateUp, carry : 0 .. RateDown] : t.n * RateDown + t.carry = c + RateUp}

\* next_event n times: the entities drawn and their next numbers
NumberedEvents(drawn) ==
  [i \in DOMAIN drawn |->
     [entity |-> drawn[i], life |-> life,
      seq |-> seq[drawn[i]] + Cardinality({j \in 1 .. i : drawn[j] = drawn[i]})]]

\* one round of _producer_loop: without a client its events are gone
Tick ==
  /\ up /\ ticks.all < MaxTicks
  /\ ticks' = [all |-> ticks.all + 1, here |-> ticks.here + 1]
  /\ \E t \in EventsForTick(carry) : \E drawn \in [1 .. t.n -> Entity] :
       LET events == NumberedEvents(drawn)
           sent   == link = "open" /\ events # <<>>
       IN  /\ carry' = t.carry
           /\ seq' = [e \in Entity |-> seq[e] + Cardinality({i \in DOMAIN drawn : drawn[i] = e})]
           /\ out' = IF sent THEN Append(out, events) ELSE out
           /\ aired' = IF sent THEN aired \o events ELSE aired
  /\ UNCHANGED <<up, life, link, ingVars, kafka, faults>>

\* stream: the handler goes on after accept() and joins state.clients
Register ==
  /\ link = "accepted" /\ up
  /\ link' = "open"
  /\ UNCHANGED <<genVars, out, ingVars, kafka, ticks, faults, aired>>

(* The connection breaks: the generator drops the client at its next send or
   receive_text, the ingestion first reads what has reached it. *)
Break ==
  /\ link \in {"accepted", "open"} /\ Fault
  /\ link' = "broken"
  /\ \E n \in 0 .. Len(out) : out' = SubSeq(out, 1, n)
  /\ UNCHANGED <<genVars, ingVars, kafka, ticks, aired>>

GeneratorEnds ==
  /\ up /\ Fault
  /\ up' = FALSE
  /\ link' = IF link = "none" THEN "none" ELSE "broken"
  /\ \E n \in 0 .. Len(out) : out' = SubSeq(out, 1, n)
  /\ UNCHANGED <<life, carry, seq, ingVars, kafka, ticks, aired>>

GeneratorStarts ==
  /\ ~up
  /\ up' = TRUE /\ life' = life + 1
  /\ carry' = 0 /\ seq' = [e \in Entity |-> 0]
  /\ ticks' = [ticks EXCEPT !.here = 0]
  /\ UNCHANGED <<link, out, ingVars, kafka, faults, aired>>
-----------------------------------------------------------------------------
(* Ingestion: connect and backoff (run) *)

\* the largest delay of an attempt; the jitter picks one from the floor up
Longest(k) == Least(Base * 2 ^ Least(k, MaxShift), Cap)

\* attempt saturates; beyond MaxShift it makes no difference
Sleep(k) ==
  /\ ing' = "sleeping"
  /\ delay' \in {Base \div 2, Longest(k)}
  /\ attempt' = Least(k + 1, MaxShift)

Connect_KeepsAttempt ==
  /\ ing = "connecting" /\ up
  /\ ing' = "reading" /\ link' = "accepted" /\ out' = <<>> /\ failed' = 0 /\ aired' = <<>>
  /\ UNCHANGED <<genVars, lines, attempt, delay, kafka, ticks, faults>>
Connect ==
  /\ ing = "connecting" /\ up
  /\ ing' = "reading" /\ link' = "accepted" /\ out' = <<>>
  /\ attempt' = 0 /\ failed' = 0 /\ aired' = <<>>
  /\ UNCHANGED <<genVars, lines, delay, kafka, ticks, faults>>

ConnectFails_GivesUp ==
  /\ ing = "connecting"
  /\ ~up /\ UNCHANGED faults
  /\ IF attempt < MaxShift THEN Sleep(attempt) ELSE ing' = "over" /\ UNCHANGED <<delay, attempt>>
  /\ failed' = Least(failed + 1, MaxShift)
  /\ UNCHANGED <<genVars, link, out, lines, kafka, ticks, aired>>
ConnectFails ==
  /\ ing = "connecting"
  /\ (~up /\ UNCHANGED faults) \/ (up /\ Fault)
  /\ Sleep(attempt)
  /\ failed' = Least(failed + 1, MaxShift)
  /\ UNCHANGED <<genVars, link, out, lines, kafka, ticks, aired>>

Wake ==
  /\ ing = "sleeping"
  /\ ing' = "connecting"
  /\ UNCHANGED <<genVars, link, out, lines, attempt, delay, failed, kafka, ticks, faults, aired>>

\* read.next() after the close or an error: what it has not read is gone
SeesClose ==
  /\ ing = "reading" /\ lines = <<>> /\ link = "broken"
  /\ link' = "none" /\ out' = <<>> /\ aired' = <<>>
  /\ Sleep(attempt)
  /\ UNCHANGED <<genVars, lines, failed, kafka, ticks, faults>>

(* The process ends and is started again; a send it awaited may still be
   carried out. *)
IngestionRestarts ==
  /\ Fault
  /\ ing' = "connecting" /\ lines' = <<>> /\ attempt' = 0 /\ delay' = 0 /\ failed' = 0
  /\ link' = "none" /\ out' = <<>> /\ aired' = <<>>
  /\ IF lines = <<>> THEN UNCHANGED kafka
     ELSE /\ late' = late \cup {lines[1]} /\ gaveUp' = gaveUp \cup {lines[1]}
          /\ newest' = [newest EXCEPT ![lines[1].entity] = {lines[1]}]
          /\ UNCHANGED topic
  /\ UNCHANGED <<genVars, ticks>>
-----------------------------------------------------------------------------
(* Ingestion: frames and sends *)

\* handle_text_frame takes the lines of a frame one after the other
ReadFrame_FirstLine ==
  /\ ing = "reading" /\ lines = <<>> /\ out # <<>>
  /\ lines' = <<Head(Head(out))>> /\ out' = Tail(out)
  /\ UNCHANGED <<genVars, link, ing, attempt, delay, failed, kafka, ticks, faults, aired>>
ReadFrame ==
  /\ ing = "reading" /\ lines = <<>> /\ out # <<>>
  /\ lines' = Head(out) /\ out' = Tail(out)
  /\ UNCHANGED <<genVars, link, ing, attempt, delay, failed, kafka, ticks, faults, aired>>

LineDone == lines' = Tail(lines) /\ newest' = [newest EXCEPT ![lines[1].entity] = {lines[1]}]

\* acknowledged, after a retry of the producer perhaps appended twice
Sent ==
  /\ lines # <<>>
  /\ \/ topic' = Append(topic, lines[1]) /\ UNCHANGED faults
     \/ topic' = topic \o <<lines[1], lines[1]>> /\ Fault
  /\ LineDone
  /\ UNCHANGED <<genVars, link, out, ing, attempt, delay, failed, late, gaveUp, ticks, aired>>

\* an error, or ten seconds without an answer: counted and dropped
SendFails_Retries ==
  /\ lines # <<>> /\ Fault
  /\ late' = late \cup {lines[1]} /\ gaveUp' = gaveUp \cup {lines[1]}
  /\ UNCHANGED <<lines, newest>>
  /\ UNCHANGED <<genVars, link, out, ing, attempt, delay, failed, topic, ticks, aired>>
SendFails ==
  /\ lines # <<>> /\ Fault
  /\ late' = late \cup {lines[1]} /\ gaveUp' = gaveUp \cup {lines[1]}
  /\ LineDone
  /\ UNCHANGED <<genVars, link, out, ing, attempt, delay, failed, topic, ticks, aired>>

\* a broker carries out a request its producer no longer waits for
LateAppend ==
  \E x \in late :
    /\ topic' = Append(topic, x) /\ late' = late \ {x}
    /\ UNCHANGED <<genVars, link, out, ingVars, gaveUp, newest, ticks, faults, aired>>
-----------------------------------------------------------------------------
Init ==
  /\ up = TRUE /\ life = 1 /\ carry = 0 /\ seq = [e \in Entity |-> 0]
  /\ link = "none" /\ out = <<>>
  /\ ing = "connecting" /\ lines = <<>> /\ attempt = 0 /\ delay = 0 /\ failed = 0
  /\ topic = <<>> /\ late = {} /\ gaveUp = {} /\ newest = [e \in Entity |-> {}]
  /\ ticks = [all |-> 0, here |-> 0] /\ faults = 0 /\ aired = <<>>

Generator == Tick \/ Register \/ GeneratorEnds \/ GeneratorStarts
Ingestion == Connect \/ ConnectFails \/ Wake \/ SeesClose \/ IngestionRestarts
             \/ ReadFrame \/ Sent \/ SendFails
Next == Generator \/ Ingestion \/ Break \/ LateAppend

(* Both processes run and are restarted when they end; a connect is answered or
   refused, the end of a connection reaches the reader, a send is answered or
   times out. *)
Fairness ==
  /\ WF_vars(Tick) /\ WF_vars(Register) /\ WF_vars(GeneratorStarts)
  /\ WF_vars(Connect) /\ WF_vars(ConnectFails) /\ WF_vars(Wake) /\ WF_vars(SeesClose)
  /\ WF_vars(ReadFrame) /\ WF_vars(Sent \/ SendFails)

Spec == Init /\ [][Next]_vars /\ Fairness
-----------------------------------------------------------------------------
TypeOK ==
  /\ up \in BOOLEAN /\ life \in Nat /\ carry \in 0 .. RateDown /\ seq \in [Entity -> Nat]
  /\ link \in {"none", "accepted", "open", "broken"} /\ out \in Seq(Seq(Event))
  /\ ing \in {"connecting", "reading", "sleeping"} /\ lines \in Seq(Event)
  /\ attempt \in 0 .. MaxShift /\ failed \in 0 .. MaxShift /\ delay \in 0 .. Cap
  /\ topic \in Seq(Event) /\ late \subseteq gaveUp /\ gaveUp \subseteq Event
  /\ \A e \in Entity : newest[e] \subseteq Event
  /\ ticks \in [all : 0 .. MaxTicks, here : 0 .. MaxTicks] /\ faults \in 0 .. MaxFaults
  /\ aired \in Seq(Event)

Later(x, y) == x.life > y.life \/ (x.life = y.life /\ x.seq > y.seq)

(* Of one entity the topic holds what was acknowledged in the order the generator
   made it, over reconnects and restarts of either side; only an event whose send
   was given up can stand behind a later one, and no event is taken up twice. *)
TopicInOrder ==
  \A i, j \in DOMAIN topic :
    (i < j /\ topic[i].entity = topic[j].entity) =>
      /\ Later(topic[i], topic[j]) => topic[j] \in gaveUp
      /\ topic[i] = topic[j] => topic[i] \notin gaveUp /\ j = i + 1

(* On one connection nothing is skipped: what was broadcast on it is, in that
   order, done with (in the topic, or given up after a failed send), in the
   frame being handled, or on its way. *)
NothingSkipped ==
  LET ahead == lines \o FlattenSeq(out)
      done  == Len(aired) - Len(ahead)
  IN  link \in {"accepted", "open"} =>
        /\ done >= 0 /\ SubSeq(aired, done + 1, Len(aired)) = ahead
        /\ \A i \in 1 .. done : aired[i] \in gaveUp \/ \E k \in DOMAIN topic : topic[k] = aired[i]

(* events_for_tick against drift: however often the float falls short, in each
   life the events of all entities together are never more than the rate gives
   for its ticks, and never a whole event less than that: one is missing at
   most where the sum is whole. *)
RateHeld ==
  LET made == FoldFunction(+, 0, seq)
  IN  made * RateDown <= ticks.here * RateUp /\ ticks.here * RateUp <= (made + 1) * RateDown

(* backoff_delay: however the outages before it went, a sleep is at least half
   of BASE_MS, at most MAX_MS, and at most BASE_MS doubled once per connect that
   failed since a connection last worked. *)
BackoffFollowsOutage ==
  ing = "sleeping" => delay \in (Base \div 2) .. Least(Base * 2 ^ failed, Cap)

(* When the faults stop the feed comes back by itself, and all that was broadcast
   on the last connection is handled. *)
FeedResumes == <>[](link = "open" /\ out = <<>> /\ lines = <<>>)

(* raw-events is an ordered lossy feed of every entity. *)
Feed == INSTANCE OrderedFeed WITH feed <- topic, doubtful <- late
FeedIsOrdered == Feed!FeedSpec
=============================================================================
