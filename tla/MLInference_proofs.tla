------------------------- MODULE MLInference_proofs -------------------------
(***************************************************************************)
(* Theorems about MLInference, for every list of domains, every batch and   *)
(* buffer size, every retraining interval and bound.                        *)
(***************************************************************************)
EXTENDS MLInference, TLAPS, FiniteSetTheorems

(* The operators of SequencesExt the model is built from. *)
LEMMA SetToSeqOne ==
  ASSUME NEW a
  PROVE  SetToSeq({a}) = <<a>>
<1> DEFINE F == [1 .. Cardinality({a}) -> {a}]
<1>1. Cardinality({a}) = 1
  BY FS_Singleton
<1>2. \A f \in F : f = <<a>>
  BY <1>1
<1>3. <<a>> \in F /\ IsInjective(<<a>>)
  BY <1>1 DEF IsInjective
<1>4. SetToSeq({a}) \in F
  BY <1>3 DEF SetToSeq
<1> QED BY <1>2, <1>4

\* The elements of a sequence.
LEMMA ToSetOfSeq ==
  ASSUME NEW S, NEW s \in Seq(S)
  PROVE  /\ ToSet(s) \subseteq S
         /\ \A i \in DOMAIN s : s[i] \in ToSet(s)
<1>1. \A i \in DOMAIN s : s[i] \in S
  OBVIOUS
<1> QED BY <1>1 DEF ToSet

\* The elements of a sequence with one more.
LEMMA ToSetAppend ==
  ASSUME NEW S, NEW s \in Seq(S), NEW x \in S
  PROVE  ToSet(Append(s, x)) = ToSet(s) \cup {x}
<1> DEFINE t == Append(s, x)
<1>1. /\ t \in Seq(S) /\ Len(t) = Len(s) + 1 /\ Len(s) \in Nat
      /\ \A i \in 1 .. Len(s) : t[i] = s[i]
      /\ t[Len(s) + 1] = x
  OBVIOUS
<1> HIDE DEF t
<1>2. \A y \in ToSet(t) : y \in ToSet(s) \cup {x}
  BY <1>1 DEF ToSet
<1>3. \A y \in ToSet(s) \cup {x} : y \in ToSet(t)
  BY <1>1 DEF ToSet
<1> QED BY <1>2, <1>3 DEF t
-----------------------------------------------------------------------------
(* The loops and the worker keep in step: one alert is produced exactly while the
   consume loop awaits its send, it scores one message exactly while it awaits the
   worker, and of each kind there is one job at most, which its loop awaits. *)
SendingShape ==
  /\ consumer # "sending" => sending = {}
  /\ consumer = "sending" => \E a \in sending : sending = {a} /\ a.run = run

ScoringShape ==
  /\ consumer # "scoring" => item = {}
  /\ \A m, n \in item : m = n

Awaited(job) ==
  /\ job.kind = "score" => consumer = "scoring" /\ job.message \in item
  /\ job.kind = "check" => reporter = "checking"

JobsShape ==
  /\ \A i \in DOMAIN jobs : /\ Awaited(jobs[i]) /\ jobs[i].step \in {"observe", "drift"}
                            /\ \A k \in DOMAIN jobs : jobs[i].kind = jobs[k].kind => i = k
                            /\ \A b \in busy : jobs[i].kind # b.kind
  /\ \A b \in busy : Awaited(b) /\ \A c \in busy : b = c

DownShape ==
  consumer = "down" => /\ flush = "down" /\ reporter = "down"
                       /\ alertQueue = <<>> /\ batch = <<>>

Shape == SendingShape /\ ScoringShape /\ JobsShape /\ DownShape /\ (flush # "inserting" => batch = <<>>)

TypeInv == TypeOK /\ Shape

(* The helpers keep their types. *)
LEMMA ResumeTyped ==
  ASSUME TypeOK, NEW d \in Domain
  PROVE  ResumeAt(d) \in Nat \ {0}
<1>1. committed[d] \in Nat /\ features[d] \in Seq({"window", "malformed"})
  BY DEF TypeOK
<1>2. Len(features[d]) \in Nat
  BY <1>1
<1> QED BY <1>1, <1>2 DEF ResumeAt

\* Observing a window keeps the type of a rolling detector.
LEMMA RollingTyped ==
  ASSUME NEW m \in Rolling, NEW w \in Nat, NEW raises \in BOOLEAN
  PROVE  ObserveRolling(m, w, raises) \in Rolling
<1>1. m.buffer \in Seq(Nat) /\ m.sinceRetrain \in Nat /\ m.fitted \in Seq(Nat)
  BY DEF Rolling
<1>2. Rolled(m.buffer, w) \in Seq(Nat)
  <2>1. CASE Len(m.buffer) < BufferSize
    BY <1>1, <2>1 DEF Rolled
  <2>2. CASE ~(Len(m.buffer) < BufferSize)
    <3>1. m.buffer # <<>>
      BY <2>2, SizesAssumption
    <3>2. Tail(m.buffer) \in Seq(Nat)
      BY <1>1, <3>1
    <3> QED BY <2>2, <3>2 DEF Rolled
  <2> QED BY <2>1, <2>2
<1> QED BY <1>1, <1>2 DEF ObserveRolling, Rolling

\* The same for a model.
LEMMA ObserveTyped ==
  ASSUME NEW model \in Model, NEW w \in Nat, NEW raiser \in Detector \cup {"none"}
  PROVE  Observe(model, w, raiser) \in Model
<1>1. model.iso \in Rolling /\ model.ae \in Rolling /\ model.baseline \in Seq(Nat)
  BY DEF Model
<1>2. PICK iso \in Rolling : iso = ObserveRolling(model.iso, w, raiser = "iso")
  BY <1>1, RollingTyped
<1>3. PICK ae \in Rolling : ae = ObserveRolling(model.ae, w, raiser = "ae")
  BY <1>1, RollingTyped
<1>4. Baseline(model, iso) \in Seq(Nat)
  BY <1>1 DEF Baseline, Rolling
<1> QED BY <1>1, <1>2, <1>3, <1>4 DEF Observe, Model

\* The worker's step on a window, typed: what the models become, and what they took.
LEMMA ObservedTyped ==
  ASSUME TypeOK, NEW e \in Domain, NEW w \in Nat, NEW raiser \in Detector \cup {"none"},
         Observed(e, w, raiser)
  PROVE  /\ models' \in [Domain -> Model]
         /\ observed' \in [Domain -> TakenBy]
         /\ raised' \in [Domain -> RaisedAt]
<1> DEFINE takes    == IF raiser = "iso" THEN {"iso"} ELSE Detector
           place(r) == IF r = "ae" THEN Len(observed[e].ae) + 1 ELSE Len(observed[e].iso) + 1
           taken    == [r \in Detector |-> IF r \in takes THEN Append(observed[e][r], w) ELSE observed[e][r]]
           stopped  == [r \in Detector \cup {"either"} |->
                          IF raiser # "none" /\ r \in {raiser, "either"} THEN raised[e][r] \cup {place(r)}
                          ELSE raised[e][r]]
<1>1. /\ models \in [Domain -> Model] /\ observed \in [Domain -> TakenBy]
      /\ raised \in [Domain -> RaisedAt]
  BY DEF TypeOK
<1>2. Observe(models[e], w, raiser) \in Model
  BY <1>1, ObserveTyped
<1>3. taken \in TakenBy
  <2> SUFFICES ASSUME NEW r \in Detector
               PROVE  observed[e][r] \in Seq(Nat) /\ Append(observed[e][r], w) \in Seq(Nat)
    BY DEF TakenBy
  <2>1. observed[e][r] \in Seq(Nat)
    BY <1>1 DEF TakenBy
  <2> QED BY <2>1
<1>4. \A r : place(r) \in Nat
  <2>1. observed[e].ae \in Seq(Nat) /\ observed[e].iso \in Seq(Nat)
    BY <1>1 DEF Detector, TakenBy
  <2>2. Len(observed[e].ae) + 1 \in Nat /\ Len(observed[e].iso) + 1 \in Nat
    BY <2>1
  <2> QED BY <2>2
<1>5. stopped \in RaisedAt
  <2> SUFFICES ASSUME NEW r \in Detector \cup {"either"} PROVE raised[e][r] \in SUBSET Nat
    BY <1>4 DEF RaisedAt
  <2> QED BY <1>1 DEF RaisedAt
<1>6. /\ models' = [models EXCEPT ![e] = Observe(models[e], w, raiser)]
      /\ observed' = [observed EXCEPT ![e] = taken]
      /\ raised' = [raised EXCEPT ![e] = stopped]
  BY DEF Observed
<1> HIDE DEF taken, stopped, place, takes
<1> QED BY <1>1, <1>2, <1>3, <1>5, <1>6

\* Taking a batch keeps the types of batch and queue.
LEMMA BatchTyped ==
  ASSUME NEW q \in Seq(Row)
  PROVE  Taken(q) \in Seq(Row) /\ Left(q) \in Seq(Row)
<1> DEFINE k == IF Len(q) < FlushBatch THEN Len(q) ELSE FlushBatch
<1>1. k \in 0 .. Len(q)
  BY SizesAssumption
<1>2. Taken(q) \in Seq(Row) /\ Len(Taken(q)) = k
  BY <1>1 DEF Taken
<1>3. Left(q) \in Seq(Row)
  BY <1>1, <1>2 DEF Left
<1> QED BY <1>2, <1>3

(* A job keeps its kind while its steps go on. *)
LEMMA AdvanceTyped ==
  ASSUME NEW job \in ScoreJob \cup CheckJob, NEW step, NEW count,
         \/ job.kind = "score" /\ step \in {"observe", "record"} /\ count = 0
         \/ job.kind = "check" /\ step \in {"drift", "read", "reset"} /\ count \in Nat
  PROVE  [job EXCEPT !.step = step, !.count = count] \in ScoreJob \cup CheckJob
<1>1. CASE job \in ScoreJob
  BY <1>1 DEF ScoreJob, CheckJob
<1>2. CASE job \in CheckJob
  BY <1>2 DEF ScoreJob, CheckJob
<1> QED BY <1>1, <1>2

\* A job is of its kind's type.
LEMMA JobTypes ==
  ASSUME NEW job \in ScoreJob \cup CheckJob
  PROVE  /\ job.kind = "score" => job \in ScoreJob /\ job.message \in Message
         /\ job.kind = "check" => job \in CheckJob /\ job.domain \in Domain /\ job.count \in Nat
         /\ job.kind \in {"score", "check"}
BY DEF ScoreJob, CheckJob

\* There is a domain, and each is one.
LEMMA DomainsTyped ==
  /\ Len(Domains) \in Nat \ {0}
  /\ \A i \in 1 .. Len(Domains) : Domains[i] \in Domain
<1>1. Domains \in Seq(STRING) /\ Domains # <<>>
  BY DomainsAssumption
<1> QED BY <1>1 DEF Domain, ToSet

\* The types of models that have seen nothing.
LEMMA NothingTyped ==
  /\ [d \in Domain |-> EmptyModel] \in [Domain -> Model]
  /\ NothingTaken \in [Domain -> TakenBy]
  /\ NothingRaised \in [Domain -> RaisedAt]
<1>1. EmptyRolling \in Rolling
  BY DEF EmptyRolling, Rolling
<1>2. EmptyModel \in Model
  BY <1>1 DEF EmptyModel, Model
<1> QED BY <1>2 DEF NothingTaken, NothingRaised, TakenBy, RaisedAt

\* The types at the start.
LEMMA InitTyped == Init => TypeOK
<1> SUFFICES ASSUME Init PROVE TypeOK
  OBVIOUS
<1>1. features \in [Domain -> Seq({"window", "malformed"})]
  BY DEF Init
<1>2. /\ models \in [Domain -> Model] /\ observed \in [Domain -> TakenBy]
      /\ raised \in [Domain -> RaisedAt]
  BY NothingTyped DEF Init
<1>3. item \in SUBSET Message /\ Cardinality(item) <= 1
  BY FS_EmptySet DEF Init
<1>4. 1 \in 1 .. Len(Domains)
  BY DomainsTyped
<1> QED BY <1>1, <1>2, <1>3, <1>4 DEF Init, TypeOK

\* A stop keeps the types.
LEMMA StopTyped ==
  ASSUME TypeOK, NEW commits \in BOOLEAN, Stop(commits)
  PROVE  TypeOK'
<1>1. committed' \in [Domain -> Nat]
  <2>1. Position \in [Domain -> Nat]
    BY DEF Position, TypeOK
  <2> QED BY <2>1 DEF Stop, TypeOK
<1>2. item' \in SUBSET Message /\ Cardinality(item') <= 1
  BY FS_EmptySet DEF Stop
<1>3. domainAt' \in 1 .. Len(Domains)
  BY DomainsTyped DEF Stop
<1>4. /\ models' \in [Domain -> Model] /\ observed' \in [Domain -> TakenBy]
      /\ raised' \in [Domain -> RaisedAt]
  BY NothingTyped DEF Stop
<1>5. rows' \in SUBSET Row
  BY ToSetOfSeq DEF Stop, TypeOK
<1>6. {scored', recorded', reported'} \subseteq [Domain -> Nat] /\ driftFlag' \in [Domain -> BOOLEAN]
  BY DEF Stop
<1> QED BY <1>1, <1>2, <1>3, <1>4, <1>5, <1>6 DEF Stop, TypeOK

(* The steps of the consume loop and of the worker's scoring jobs. *)
LEMMA ScoringTyped ==
  ASSUME TypeOK,
         \/ \E d \in Domain : TakeMessage(d)
         \/ SendAlert /\ SendingShape
         \/ \E job \in busy : ObserveWindow(job) \/ RecordScore(job) \/ ScoreRaises(job)
  PROVE  TypeOK'
<1> USE DEF kafkaVars, consumerVars, flushVars, reporterVars, modelVars, countVars, storeVars
<1>1. ASSUME NEW d \in Domain, TakeMessage(d) PROVE TypeOK'
  <2> DEFINE m == [domain |-> d, offset |-> position[d]]
  <2>1. m \in Message /\ position' \in [Domain -> Nat \ {0}]
    <3>1. position \in [Domain -> Nat \ {0}]
      BY DEF TypeOK
    <3>2. position' = [position EXCEPT ![d] = @ + 1]
      BY <1>1 DEF TakeMessage
    <3> QED BY <3>1, <3>2 DEF Message
  <2>2. handled' \in SUBSET [message : Message, run : Nat, outcome : Outcome]
    BY <1>1, <2>1, SMTT(30) DEF TakeMessage, Outcomes, Outcome, TypeOK
  <2>3. jobs' \in Seq(ScoreJob \cup CheckJob)
    <3> DEFINE job == [kind |-> "score", message |-> m, step |-> "observe", count |-> 0]
    <3>1. job \in ScoreJob \cup CheckJob
      BY <2>1 DEF ScoreJob
    <3>2. jobs \in Seq(ScoreJob \cup CheckJob)
      BY DEF TypeOK
    <3>3. jobs' = jobs \/ jobs' = Append(jobs, job)
      BY <1>1 DEF TakeMessage
    <3> HIDE DEF job
    <3> QED BY <3>1, <3>2, <3>3
  <2>4. item' \in SUBSET Message /\ Cardinality(item') <= 1
    <3>1. item' = item \/ item' = {m}
      BY <1>1 DEF TakeMessage
    <3>2. Cardinality({m}) = 1 /\ item \in SUBSET Message /\ Cardinality(item) <= 1
      BY FS_Singleton DEF TypeOK
    <3> QED BY <2>1, <3>1, <3>2
  <2> QED BY <1>1, <2>1, <2>2, <2>3, <2>4 DEF TakeMessage, TypeOK
<1>2. CASE SendAlert /\ SendingShape
  <2>1. PICK a \in Row : sending = {a}
    BY <1>2 DEF SendAlert, SendingShape, TypeOK
  <2>2. alertQueue' \in Seq(Row)
    <3>1. alertQueue \in Seq(Row) /\ <<a>> \in Seq(Row)
      BY DEF TypeOK
    <3>2. alertQueue' = alertQueue \o <<a>>
      BY <1>2, <2>1, SetToSeqOne DEF SendAlert
    <3> QED BY <3>1, <3>2
  <2> QED BY <1>2, <2>2 DEF SendAlert, TypeOK
<1>3. ASSUME NEW job \in busy, ObserveWindow(job) PROVE TypeOK'
  <2>1. job \in ScoreJob \cup CheckJob
    BY DEF TypeOK
  <2>2. job.message \in Message /\ job.kind = "score"
    BY <1>3, <2>1, JobTypes DEF ObserveWindow
  <2>3. job.message.domain \in Domain /\ job.message.offset \in Nat
    BY <2>2 DEF Message
  <2>4. /\ models' \in [Domain -> Model] /\ observed' \in [Domain -> TakenBy]
        /\ raised' \in [Domain -> RaisedAt]
    BY <1>3, <2>3, ObservedTyped DEF ObserveWindow
  <2>5. busy' \in SUBSET (ScoreJob \cup CheckJob)
    <3>1. [job EXCEPT !.step = "record", !.count = 0] \in ScoreJob \cup CheckJob
      BY <2>1, <2>2, AdvanceTyped
    <3>2. busy' = (busy \ {job}) \cup {[job EXCEPT !.step = "record", !.count = 0]}
      BY <1>3 DEF ObserveWindow, Advance
    <3> QED BY <3>1, <3>2 DEF TypeOK
  <2> QED BY <1>3, <2>4, <2>5 DEF ObserveWindow, TypeOK
<1>4. ASSUME NEW job \in busy, RecordScore(job) PROVE TypeOK'
  <2>1. job.message \in Message /\ job.message.domain \in Domain
    BY <1>4, JobTypes DEF RecordScore, TypeOK, Message
  <2>2. {scored', recorded'} \subseteq [Domain -> Nat]
    <3> DEFINE e == job.message.domain
    <3>1. scored \in [Domain -> Nat] /\ recorded \in [Domain -> Nat]
      BY DEF TypeOK
    <3>2. /\ scored' = [scored EXCEPT ![e] = scored[e] + 1]
          /\ recorded' = [recorded EXCEPT ![e] = recorded[e] + 1]
      BY <1>4 DEF RecordScore
    <3>3. scored[e] + 1 \in Nat /\ recorded[e] + 1 \in Nat
      BY <2>1, <3>1
    <3> QED BY <3>1, <3>2, <3>3
  <2>3. handled' \in SUBSET [message : Message, run : Nat, outcome : Outcome]
    <3>1. PICK o \in Outcome : handled' = handled \cup {[message |-> job.message, run |-> run, outcome |-> o]}
      BY <1>4 DEF RecordScore, Outcomes, Outcome
    <3> QED BY <2>1, <3>1 DEF TypeOK
  <2>4. item' \in SUBSET Message /\ Cardinality(item') <= 1
    BY <1>4, FS_EmptySet DEF RecordScore
  <2>5. [window |-> job.message, run |-> run, ts |-> now] \in Row
    BY <2>1 DEF Row, TypeOK
  <2> QED BY <1>4, <2>2, <2>3, <2>4, <2>5 DEF RecordScore, TypeOK
<1>5. ASSUME NEW job \in busy, ScoreRaises(job) PROVE TypeOK'
  <2>1. job.message \in Message
    BY <1>5, JobTypes DEF ScoreRaises, TypeOK
  <2>2. handled' \in SUBSET [message : Message, run : Nat, outcome : Outcome]
    BY <1>5, <2>1 DEF ScoreRaises, Outcomes, Outcome, TypeOK
  <2>3. item' \in SUBSET Message /\ Cardinality(item') <= 1
    BY <1>5, FS_EmptySet DEF ScoreRaises
  <2>4. /\ models' \in [Domain -> Model] /\ observed' \in [Domain -> TakenBy]
        /\ raised' \in [Domain -> RaisedAt]
    <3>1. CASE UNCHANGED <<models, observed, raised>>
      BY <3>1 DEF TypeOK
    <3>2. CASE \E r \in Detector : Observed(job.message.domain, job.message.offset, r)
      <4>1. job.message.domain \in Domain /\ job.message.offset \in Nat
        BY <2>1 DEF Message
      <4> QED BY <3>2, <4>1, ObservedTyped
    <3> QED BY <1>5, <3>1, <3>2 DEF ScoreRaises, MayRaise
  <2> QED BY <1>5, <2>2, <2>3, <2>4 DEF ScoreRaises, TypeOK
<1> QED BY <1>1, <1>2, <1>3, <1>4, <1>5

(* The steps of the other two loops and of the worker's drift checks. *)
LEMMA ReportingTyped ==
  ASSUME TypeOK,
         \/ BeginJob \/ TakeBatch \/ InsertBatch
         \/ WakeReporter \/ SendMetrics \/ InsertMetrics
         \/ \E job \in busy : CheckDrift(job) \/ ReadCounters(job) \/ ResetCounters(job) \/ CheckRaises(job)
  PROVE  TypeOK'
<1> USE DEF kafkaVars, consumerVars, flushVars, reporterVars, modelVars, countVars, storeVars
<1>0. /\ jobs \in Seq(ScoreJob \cup CheckJob) /\ busy \subseteq ScoreJob \cup CheckJob
      /\ \A job \in busy : job.kind = "check" =>
           job \in CheckJob /\ job.domain \in Domain /\ job.count \in Nat
  BY JobTypes DEF TypeOK
<1>00. ASSUME NEW i \in 1 .. Len(Domains), SubmitCheck(i)
       PROVE  jobs' \in Seq(ScoreJob \cup CheckJob)
  <2> DEFINE job == [kind |-> "check", domain |-> Domains[i], step |-> "drift", count |-> 0]
  <2>1. job \in ScoreJob \cup CheckJob
    BY DomainsTyped DEF CheckJob
  <2>2. jobs' = Append(jobs, job)
    BY <1>00 DEF SubmitCheck
  <2> HIDE DEF job
  <2> QED BY <1>0, <2>1, <2>2
<1>000. ASSUME NextDomain
        PROVE  /\ jobs' \in Seq(ScoreJob \cup CheckJob) /\ domainAt' \in 1 .. Len(Domains)
               /\ reporter' \in {"sleeping", "checking"}
  <2>1. domainAt \in 1 .. Len(Domains) /\ Len(Domains) \in Nat
    BY DomainsTyped DEF TypeOK
  <2>2. CASE domainAt < Len(Domains) /\ domainAt' = domainAt + 1 /\ reporter' = "checking" /\ SubmitCheck(domainAt + 1)
    BY <1>00, <2>1, <2>2
  <2>3. CASE reporter' = "sleeping" /\ UNCHANGED <<domainAt, jobs>>
    BY <1>0, <2>1, <2>3
  <2> QED BY <1>000, <2>2, <2>3 DEF NextDomain
<1>1. CASE BeginJob
  <2>1. Head(jobs) \in ScoreJob \cup CheckJob /\ Tail(jobs) \in Seq(ScoreJob \cup CheckJob)
    BY <1>0, <1>1 DEF BeginJob
  <2>2. jobs' \in Seq(ScoreJob \cup CheckJob) /\ busy' \in SUBSET (ScoreJob \cup CheckJob)
    BY <1>0, <1>1, <2>1 DEF BeginJob
  <2> QED BY <1>1, <2>2 DEF BeginJob, TypeOK
<1>2. CASE TakeBatch
  <2>1. batch' \in Seq(Row) /\ alertQueue' \in Seq(Row)
    BY <1>2, BatchTyped DEF TakeBatch, TypeOK
  <2> QED BY <1>2, <2>1 DEF TakeBatch, TypeOK
<1>3. CASE InsertBatch
  <2>1. ToSet(batch) \subseteq Row
    BY ToSetOfSeq DEF TypeOK
  <2>2. {rows', written', dropped'} \subseteq SUBSET Row
    <3>1. rows \subseteq Row /\ written \subseteq Row /\ dropped \subseteq Row
      BY DEF TypeOK
    <3>2. rows' \subseteq Row /\ written' \subseteq Row /\ dropped' \subseteq Row
      BY <1>3, <2>1, <3>1 DEF InsertBatch, InsertAcknowledged, InsertFailed
    <3> QED BY <3>2
  <2>3. batch' \in Seq(Row)
    BY <1>3 DEF InsertBatch
  <2> QED BY <1>3, <2>2, <2>3 DEF InsertBatch, TypeOK
<1>4. CASE WakeReporter
  <2>1. 1 \in 1 .. Len(Domains)
    BY DomainsTyped
  <2>2. jobs' \in Seq(ScoreJob \cup CheckJob)
    BY <1>00, <1>4, <2>1 DEF WakeReporter
  <2> QED BY <1>4, <2>1, <2>2, SMTT(30) DEF WakeReporter, TypeOK
<1>5. CASE SendMetrics
  BY <1>5 DEF SendMetrics, TypeOK
<1>6. CASE InsertMetrics
  <2>1. /\ jobs' \in Seq(ScoreJob \cup CheckJob) /\ domainAt' \in 1 .. Len(Domains)
        /\ reporter' \in {"sleeping", "checking"}
    BY <1>000, <1>6 DEF InsertMetrics
  <2> QED BY <1>6, <2>1 DEF InsertMetrics, TypeOK
<1>7. ASSUME NEW job \in busy, CheckDrift(job) PROVE TypeOK'
  <2>1. driftFlag' \in [Domain -> BOOLEAN]
    BY <1>7 DEF CheckDrift, TypeOK
  <2>2. [job EXCEPT !.step = "read", !.count = 0] \in ScoreJob \cup CheckJob
    BY <1>0, <1>7, AdvanceTyped DEF CheckDrift
  <2>3. busy' \in SUBSET (ScoreJob \cup CheckJob)
    BY <1>0, <1>7, <2>2 DEF CheckDrift, Advance
  <2> QED BY <1>7, <2>1, <2>3 DEF CheckDrift, TypeOK
<1>8. ASSUME NEW job \in busy, ReadCounters(job) PROVE TypeOK'
  <2>1. scored[job.domain] \in Nat
    BY <1>0, <1>8 DEF ReadCounters, TypeOK
  <2>2. [job EXCEPT !.step = "reset", !.count = scored[job.domain]] \in ScoreJob \cup CheckJob
    BY <1>0, <1>8, <2>1, AdvanceTyped DEF ReadCounters
  <2>3. busy' \in SUBSET (ScoreJob \cup CheckJob)
    BY <1>0, <1>8, <2>2 DEF ReadCounters, Advance
  <2> QED BY <1>8, <2>3 DEF ReadCounters, TypeOK
<1>9. ASSUME NEW job \in busy, ResetCounters(job) PROVE TypeOK'
  <2>1. scored' \in [Domain -> Nat] /\ reported' \in [Domain -> Nat]
    <3>1. scored \in [Domain -> Nat] /\ reported \in [Domain -> Nat]
      BY DEF TypeOK
    <3>2. job.domain \in Domain /\ job.count \in Nat
      BY <1>0, <1>9 DEF ResetCounters
    <3> QED BY <1>9, <3>1, <3>2 DEF ResetCounters
  <2> QED BY <1>9, <2>1 DEF ResetCounters, TypeOK
<1>10. ASSUME NEW job \in busy, CheckRaises(job) PROVE TypeOK'
  <2>1. /\ jobs' \in Seq(ScoreJob \cup CheckJob) /\ domainAt' \in 1 .. Len(Domains)
        /\ reporter' \in {"sleeping", "checking"}
    BY <1>000, <1>10 DEF CheckRaises
  <2>2. busy' \in SUBSET (ScoreJob \cup CheckJob)
    BY <1>0, <1>10 DEF CheckRaises
  <2> QED BY <1>10, <2>1, <2>2 DEF CheckRaises, TypeOK
<1> QED BY <1>1, <1>2, <1>3, <1>4, <1>5, <1>6, <1>7, <1>8, <1>9, <1>10

\* Every step keeps the types.
LEMMA NextTyped ==
  ASSUME TypeOK, SendingShape, [Next]_vars
  PROVE  TypeOK'
<1> USE DEF kafkaVars, consumerVars, flushVars, reporterVars, modelVars, countVars, storeVars
<1>1. ASSUME NEW d \in Domain, NEW kind \in {"window", "malformed"}, Publish(d, kind) PROVE TypeOK'
  <2>1. features \in [Domain -> Seq({"window", "malformed"})]
    BY DEF TypeOK
  <2>2. features' = [features EXCEPT ![d] = Append(@, kind)]
    BY <1>1 DEF Publish
  <2>3. features' \in [Domain -> Seq({"window", "malformed"})]
    BY <2>1, <2>2
  <2> QED BY <1>1, <2>3 DEF Publish, TypeOK
<1>2. CASE Tick
  <2>1. now' \in Nat
    BY <1>2 DEF Tick, TypeOK
  <2> QED BY <1>2, <2>1 DEF Tick, TypeOK
<1>3. CASE AutoCommit
  <2>1. committed' \in [Domain -> Nat]
    BY <1>3 DEF AutoCommit, Position, TypeOK
  <2> QED BY <1>3, <2>1 DEF AutoCommit, TypeOK
<1>4. CASE ClickHouseMerge
  <2>1. rows' \subseteq rows /\ UNCHANGED written
    BY <1>4 DEF ClickHouseMerge, Merge
  <2>2. {rows', written', dropped'} \subseteq SUBSET Row
    BY <1>4, <2>1 DEF ClickHouseMerge, TypeOK
  <2> QED BY <1>4, <2>2 DEF ClickHouseMerge, TypeOK
<1>5. CASE Crash \/ Shutdown
  BY <1>5, StopTyped DEF Crash, Shutdown
<1>6. CASE ConsumerDies
  BY <1>6 DEF ConsumerDies, TypeOK
<1>7. CASE Start
  <2>1. bootPos' \in [Domain -> Nat \ {0}] /\ position' \in [Domain -> Nat \ {0}]
    BY <1>7, ResumeTyped DEF Start
  <2> QED BY <1>7, <2>1, SMTT(30) DEF Start, TypeOK
<1>8. CASE UNCHANGED vars
  BY <1>8 DEF vars, TypeOK
<1>9. CASE Loops
  BY <1>7, <1>9, ScoringTyped, ReportingTyped DEF Loops
<1>10. CASE Worker
  BY <1>10, ScoringTyped, ReportingTyped DEF Worker
<1>11. CASE Environment
  BY <1>1, <1>2, <1>3, <1>4, <1>5, <1>6, <1>11 DEF Environment
<1> QED BY <1>8, <1>9, <1>10, <1>11 DEF Next
-----------------------------------------------------------------------------
(* Steps that only move messages, commits, the clock or the table, or that only
   count, do not touch what Shape is about. *)
LEMMA ShapeFrame ==
  ASSUME Shape, UNCHANGED <<run, consumer, item, sending, alertQueue, flush, batch, reporter, jobs, busy>>
  PROVE  Shape'
BY DEF Shape, SendingShape, ScoringShape, JobsShape, Awaited, DownShape

(* A job appended to the queue is the only one of its kind. *)
LEMMA SubmitShape ==
  ASSUME TypeOK, NEW job \in ScoreJob \cup CheckJob, jobs' = Append(jobs, job), busy' \subseteq busy,
         \A i \in DOMAIN jobs : Awaited(jobs[i])' /\ jobs[i].kind # job.kind,
         \A b \in busy' : Awaited(b)' /\ b.kind # job.kind,
         Awaited(job)', job.step \in {"observe", "drift"}, JobsShape
  PROVE  JobsShape'
<1>1. /\ DOMAIN jobs = 1 .. Len(jobs) /\ DOMAIN jobs' = 1 .. Len(jobs) + 1 /\ Len(jobs) \in Nat
      /\ \A i \in 1 .. Len(jobs) : jobs'[i] = jobs[i]
      /\ jobs'[Len(jobs) + 1] = job
  BY DEF TypeOK
<1>2. ASSUME NEW i \in DOMAIN jobs'
      PROVE  /\ Awaited(jobs[i])' /\ jobs'[i].step \in {"observe", "drift"}
             /\ \A k \in DOMAIN jobs' : jobs'[i].kind = jobs'[k].kind => i = k
             /\ \A b \in busy' : jobs'[i].kind # b.kind
  <2>1. CASE i \in 1 .. Len(jobs)
    <3>1. jobs'[i] = jobs[i] /\ i \in DOMAIN jobs
      BY <1>1, <2>1
    <3>2. \A k \in DOMAIN jobs' : jobs'[i].kind = jobs'[k].kind => i = k
      <4> TAKE k \in DOMAIN jobs'
      <4>1. CASE k \in 1 .. Len(jobs)
        BY <1>1, <3>1, <4>1 DEF JobsShape
      <4>2. CASE k = Len(jobs) + 1
        BY <1>1, <3>1, <4>2
      <4> QED BY <1>1, <4>1, <4>2
    <3>3. \A b \in busy' : jobs'[i].kind # b.kind
      BY <3>1 DEF JobsShape
    <3> QED BY <3>1, <3>2, <3>3 DEF JobsShape
  <2>2. CASE i = Len(jobs) + 1
    <3>1. \A k \in DOMAIN jobs' : jobs'[i].kind = jobs'[k].kind => i = k
      BY <1>1, <2>2
    <3> QED BY <1>1, <2>2, <3>1
  <2> QED BY <1>1, <2>1, <2>2
<1>3. \A b \in busy' : Awaited(b)' /\ \A c \in busy' : b = c
  BY DEF JobsShape
<1> QED BY <1>2, <1>3 DEF JobsShape

(* A job the worker is done with, or that goes on to its next step. *)
LEMMA WorkShape ==
  ASSUME JobsShape, jobs' = jobs, NEW job \in busy,
         \/ busy' = busy \ {job}
         \/ \E next : busy' = (busy \ {job}) \cup {next} /\ next.kind = job.kind /\ Awaited(next)',
         \A i \in DOMAIN jobs : Awaited(jobs[i])'
  PROVE  JobsShape'
<1>1. busy = {job}
  BY DEF JobsShape
<1>2. CASE busy' = {}
  BY <1>2 DEF JobsShape
<1>3. ASSUME NEW next, busy' = {next}, next.kind = job.kind, Awaited(next)'
      PROVE  JobsShape'
  BY <1>3 DEF JobsShape
<1> QED BY <1>1, <1>2, <1>3

\* The consume loop's steps keep the shape.
LEMMA ScoringShapeKept ==
  ASSUME TypeInv,
         \/ \E d \in Domain : TakeMessage(d)
         \/ SendAlert
         \/ \E job \in busy : ObserveWindow(job) \/ RecordScore(job) \/ ScoreRaises(job)
  PROVE  Shape'
<1> USE DEF TypeInv, kafkaVars, consumerVars, flushVars, reporterVars, modelVars, countVars, storeVars
<1>0. /\ \A i \in DOMAIN jobs : jobs[i] \in ScoreJob \cup CheckJob
      /\ \A job \in busy : job \in ScoreJob \cup CheckJob
  BY DEF TypeOK
<1>00. /\ \A i \in DOMAIN jobs : jobs[i].kind \in {"score", "check"}
       /\ \A job \in busy : job.kind \in {"score", "check"}
  BY <1>0, JobTypes
<1>1. ASSUME NEW d \in Domain, TakeMessage(d) PROVE Shape'
  <2> DEFINE m == [domain |-> d, offset |-> position[d]]
             new == [kind |-> "score", message |-> m, step |-> "observe", count |-> 0]
  <2>1. /\ consumer = "next" /\ UNCHANGED <<run, sending, alertQueue, flush, batch, reporter, busy>>
        /\ \/ UNCHANGED <<consumer, item, jobs>>
           \/ consumer' = "scoring" /\ item' = {m} /\ jobs' = Append(jobs, new)
    BY <1>1 DEF TakeMessage
  <2>2. CASE UNCHANGED <<consumer, item, jobs>>
    BY <2>1, <2>2, ShapeFrame
  <2>3. CASE consumer' = "scoring" /\ item' = {m} /\ jobs' = Append(jobs, new)
    <3>1. PICK job \in ScoreJob \cup CheckJob : job = new
      <4>1. m \in Message
        BY DEF TypeOK, Message
      <4> QED BY <4>1 DEF ScoreJob
    <3>2. \A i \in DOMAIN jobs : jobs[i].kind = "check" /\ reporter = "checking"
      BY <1>00, <2>1 DEF Shape, JobsShape, Awaited
    <3>3. \A b \in busy : b.kind = "check" /\ reporter = "checking"
      BY <1>00, <2>1 DEF Shape, JobsShape, Awaited
    <3>4. job.kind = "score" /\ job.step = "observe" /\ job.message = m
      BY <3>1
    <3>7. \A i \in DOMAIN jobs : jobs'[i] = jobs[i]
      BY <2>3, SMTT(30) DEF TypeOK
    <3> HIDE DEF new
    <3>8. \A i \in DOMAIN jobs : Awaited(jobs[i])' /\ jobs[i].kind # job.kind
      BY <2>1, <3>2, <3>4, <3>7 DEF Awaited
    <3>9. \A b \in busy' : Awaited(b)' /\ b.kind # job.kind
      BY <2>1, <3>3, <3>4 DEF Awaited
    <3>10. Awaited(job)'
      BY <2>3, <3>4 DEF Awaited
    <3>11. jobs' = Append(jobs, job) /\ busy' \subseteq busy /\ job.step \in {"observe", "drift"}
      BY <2>1, <2>3, <3>1, <3>4
    <3>6. JobsShape'
      BY <3>8, <3>9, <3>10, <3>11, SubmitShape DEF Shape
    <3> QED BY <2>1, <2>3, <3>6 DEF Shape, SendingShape, ScoringShape, DownShape
  <2> QED BY <2>1, <2>2, <2>3
<1>2. CASE SendAlert
  <2>1. /\ consumer = "sending" /\ consumer' = "next" /\ sending' = {}
        /\ UNCHANGED <<run, item, flush, batch, reporter, jobs, busy>>
    BY <1>2 DEF SendAlert
  <2>2. JobsShape'
    BY <2>1 DEF Shape, JobsShape, Awaited
  <2> QED BY <2>1, <2>2 DEF Shape, SendingShape, ScoringShape, DownShape
<1>3. ASSUME NEW job \in busy, ObserveWindow(job) PROVE Shape'
  <2> DEFINE next == [job EXCEPT !.step = "record", !.count = 0]
  <2>1. /\ busy' = (busy \ {job}) \cup {next} /\ job.kind = "score"
        /\ UNCHANGED <<run, consumer, item, sending, alertQueue, flush, batch, reporter, jobs>>
    BY <1>3 DEF ObserveWindow, Advance
  <2>2. next.kind = job.kind /\ next.message = job.message
    BY <1>0, <2>1 DEF ScoreJob, CheckJob
  <2> HIDE DEF next
  <2>3. Awaited(next)' /\ \A i \in DOMAIN jobs : Awaited(jobs[i])'
    BY <2>1, <2>2 DEF Shape, JobsShape, Awaited
  <2>4. JobsShape'
    BY <2>1, <2>2, <2>3, WorkShape DEF Shape
  <2> QED BY <2>1, <2>4 DEF Shape, SendingShape, ScoringShape, DownShape
<1>4. ASSUME NEW job \in busy, RecordScore(job) \/ ScoreRaises(job) PROVE Shape'
  <2>1. /\ busy' = busy \ {job} /\ job.kind = "score" /\ item' = {}
        /\ UNCHANGED <<run, alertQueue, flush, batch, reporter, jobs>>
        /\ \/ consumer' = "next" /\ UNCHANGED sending
           \/ consumer' = "sending" /\ sending' = {[window |-> job.message, run |-> run, ts |-> now]}
    BY <1>4 DEF RecordScore, ScoreRaises
  <2>2. consumer = "scoring"
    BY <2>1 DEF Shape, JobsShape, Awaited
  <2>3. \A i \in DOMAIN jobs : jobs[i].kind = "check" /\ reporter = "checking"
    BY <1>00, <2>1 DEF Shape, JobsShape, Awaited
  <2>4. \A i \in DOMAIN jobs : Awaited(jobs[i])'
    BY <2>1, <2>3 DEF Awaited
  <2>5. JobsShape'
    BY <2>1, <2>4, WorkShape DEF Shape
  <2>6. SendingShape'
    <3>1. CASE consumer' = "next" /\ UNCHANGED sending
      BY <2>2, <3>1 DEF Shape, SendingShape
    <3>2. CASE consumer' = "sending" /\ sending' = {[window |-> job.message, run |-> run, ts |-> now]}
      <4>1. [window |-> job.message, run |-> run, ts |-> now].run = run'
        BY <2>1
      <4> QED BY <3>2, <4>1 DEF SendingShape
    <3> QED BY <2>1, <3>1, <3>2
  <2> QED BY <2>1, <2>2, <2>5, <2>6 DEF Shape, ScoringShape, DownShape
<1> QED BY <1>1, <1>2, <1>3, <1>4

\* The other loops' steps keep the shape.
LEMMA ReportingShapeKept ==
  ASSUME TypeInv,
         \/ BeginJob \/ TakeBatch \/ InsertBatch
         \/ WakeReporter \/ SendMetrics \/ InsertMetrics
         \/ \E job \in busy : CheckDrift(job) \/ ReadCounters(job) \/ ResetCounters(job) \/ CheckRaises(job)
  PROVE  Shape'
<1> USE DEF TypeInv, kafkaVars, consumerVars, flushVars, reporterVars, modelVars, countVars, storeVars
<1>0. /\ \A i \in DOMAIN jobs : jobs[i] \in ScoreJob \cup CheckJob
      /\ \A job \in busy : job \in ScoreJob \cup CheckJob
  BY DEF TypeOK
<1>00. /\ \A i \in DOMAIN jobs : jobs[i].kind \in {"score", "check"}
       /\ \A job \in busy : job.kind \in {"score", "check"}
  BY <1>0, JobTypes
<1>01. ASSUME NEW i \in 1 .. Len(Domains), SubmitCheck(i), busy' \subseteq busy,
              UNCHANGED <<consumer, item>>, reporter' = "checking",
              \A k \in DOMAIN jobs : jobs[k].kind = "score",
              \A b \in busy' : b.kind = "score"
       PROVE  JobsShape'
  <2> DEFINE job == [kind |-> "check", domain |-> Domains[i], step |-> "drift", count |-> 0]
  <2>1. job \in ScoreJob \cup CheckJob /\ job.kind = "check" /\ job.step = "drift"
    BY DomainsTyped DEF CheckJob
  <2>2. jobs' = Append(jobs, job)
    BY <1>01 DEF SubmitCheck
  <2> HIDE DEF job
  <2>3. \A k \in DOMAIN jobs : jobs'[k] = jobs[k]
    BY <2>2 DEF TypeOK
  <2>4. /\ \A k \in DOMAIN jobs : Awaited(jobs[k])' /\ jobs[k].kind # job.kind
        /\ \A b \in busy' : Awaited(b)' /\ b.kind # job.kind
        /\ Awaited(job)'
    BY <1>01, <2>1, <2>3 DEF Shape, JobsShape, Awaited
  <2> QED BY <1>01, <2>1, <2>2, <2>4, SubmitShape DEF Shape
<1>02. ASSUME NextDomain, busy' \subseteq busy, UNCHANGED <<consumer, item>>,
              \A k \in DOMAIN jobs : jobs[k].kind = "score",
              \A b \in busy' : b.kind = "score"
       PROVE  JobsShape' /\ reporter' # "down"
  <2>1. domainAt \in 1 .. Len(Domains) /\ Len(Domains) \in Nat
    BY DomainsTyped DEF TypeOK
  <2>2. CASE domainAt < Len(Domains) /\ reporter' = "checking" /\ SubmitCheck(domainAt + 1)
    BY <1>01, <1>02, <2>1, <2>2
  <2>3. CASE reporter' = "sleeping" /\ jobs' = jobs
    BY <1>02, <2>3 DEF Shape, JobsShape, Awaited
  <2> QED BY <1>02, <2>2, <2>3 DEF NextDomain
<1>1. CASE BeginJob
  <2>1. /\ jobs # <<>> /\ Cardinality(busy) < 1 /\ busy' = busy \cup {Head(jobs)} /\ jobs' = Tail(jobs)
        /\ UNCHANGED <<run, consumer, item, sending, alertQueue, flush, batch, reporter>>
    BY <1>1 DEF BeginJob, Workers
  <2>2. busy = {}
    <3>1. SUFFICES ASSUME NEW b \in busy PROVE FALSE
      OBVIOUS
    <3>2. \A c \in busy : b = c
      BY DEF Shape, JobsShape
    <3>3. busy = {b}
      BY <3>2
    <3>4. Cardinality({b}) = 1
      BY FS_Singleton
    <3> QED BY <2>1, <3>3, <3>4
  <2>3. /\ Len(jobs) \in Nat \ {0} /\ DOMAIN jobs = 1 .. Len(jobs) /\ DOMAIN jobs' = 1 .. Len(jobs) - 1
        /\ Head(jobs) = jobs[1] /\ \A i \in 1 .. Len(jobs) - 1 : jobs'[i] = jobs[i + 1]
    BY <2>1 DEF TypeOK
  <2>4. busy' = {jobs[1]} /\ 1 \in DOMAIN jobs
    BY <2>1, <2>2, <2>3
  <2>5. \A i \in DOMAIN jobs' : i + 1 \in DOMAIN jobs /\ i + 1 # 1 /\ jobs'[i] = jobs[i + 1]
    BY <2>3
  <2>6. \A i, k \in DOMAIN jobs' : jobs'[i].kind = jobs'[k].kind => i = k
    <3> TAKE i, k \in DOMAIN jobs'
    <3>1. jobs[i + 1].kind = jobs[k + 1].kind => i + 1 = k + 1
      BY <2>5 DEF Shape, JobsShape
    <3> QED BY <2>3, <2>5, <3>1
  <2>7. JobsShape'
    BY <2>1, <2>4, <2>5, <2>6 DEF Shape, JobsShape, Awaited
  <2> QED BY <2>1, <2>7 DEF Shape, SendingShape, ScoringShape, DownShape
<1>2. CASE TakeBatch \/ InsertBatch
  <2>1. /\ flush' # "down" /\ flush # "down" /\ (flush' # "inserting" => batch' = <<>>)
        /\ UNCHANGED <<run, consumer, item, sending, reporter, jobs, busy>>
    BY <1>2 DEF TakeBatch, InsertBatch
  <2>2. JobsShape'
    BY <2>1 DEF Shape, JobsShape, Awaited
  <2> QED BY <2>1, <2>2 DEF Shape, SendingShape, ScoringShape, DownShape
<1>4. CASE WakeReporter
  <2>1. /\ reporter = "sleeping" /\ reporter' = "checking" /\ SubmitCheck(1)
        /\ UNCHANGED <<run, consumer, item, sending, alertQueue, flush, batch, busy>>
    BY <1>4 DEF WakeReporter
  <2>2. /\ \A k \in DOMAIN jobs : jobs[k].kind = "score"
        /\ \A b \in busy : b.kind = "score"
    BY <1>00, <2>1 DEF Shape, JobsShape, Awaited
  <2>3. 1 \in 1 .. Len(Domains)
    BY DomainsTyped
  <2>4. JobsShape'
    BY <1>01, <2>1, <2>2, <2>3
  <2> QED BY <2>1, <2>4 DEF Shape, SendingShape, ScoringShape, DownShape
<1>5. CASE SendMetrics
  <2>1. /\ reporter = "sending" /\ reporter' = "inserting"
        /\ UNCHANGED <<run, consumer, item, sending, alertQueue, flush, batch, jobs, busy>>
    BY <1>5 DEF SendMetrics
  <2>2. JobsShape'
    BY <2>1 DEF Shape, JobsShape, Awaited
  <2> QED BY <2>1, <2>2 DEF Shape, SendingShape, ScoringShape, DownShape
<1>6. CASE InsertMetrics
  <2>1. /\ reporter = "inserting" /\ NextDomain
        /\ UNCHANGED <<run, consumer, item, sending, alertQueue, flush, batch, busy>>
    BY <1>6 DEF InsertMetrics
  <2>2. /\ \A k \in DOMAIN jobs : jobs[k].kind = "score"
        /\ \A b \in busy : b.kind = "score"
    BY <1>00, <2>1 DEF Shape, JobsShape, Awaited
  <2>3. JobsShape' /\ reporter' # "down"
    BY <1>02, <2>1, <2>2
  <2> QED BY <2>1, <2>3 DEF Shape, SendingShape, ScoringShape, DownShape
<1>7. ASSUME NEW job \in busy, CheckDrift(job) \/ ReadCounters(job) PROVE Shape'
  <2>1. PICK step, count :
          /\ busy' = (busy \ {job}) \cup {[job EXCEPT !.step = step, !.count = count]} /\ job.kind = "check"
          /\ UNCHANGED <<run, consumer, item, sending, alertQueue, flush, batch, reporter, jobs>>
    BY <1>7 DEF CheckDrift, ReadCounters, Advance
  <2> DEFINE next == [job EXCEPT !.step = step, !.count = count]
  <2>2. next.kind = job.kind
    BY <1>0, <2>1 DEF ScoreJob, CheckJob
  <2>3. busy' = (busy \ {job}) \cup {next}
    BY <2>1
  <2> HIDE DEF next
  <2>4. Awaited(next)' /\ \A i \in DOMAIN jobs : Awaited(jobs[i])'
    BY <2>1, <2>2 DEF Shape, JobsShape, Awaited
  <2>5. JobsShape'
    BY <2>1, <2>2, <2>3, <2>4, WorkShape DEF Shape
  <2> QED BY <2>1, <2>5 DEF Shape, SendingShape, ScoringShape, DownShape
<1>9. ASSUME NEW job \in busy, ResetCounters(job) \/ CheckRaises(job) PROVE Shape'
  <2>1. /\ busy' = busy \ {job} /\ job.kind = "check"
        /\ UNCHANGED <<run, consumer, item, sending, alertQueue, flush, batch>>
        /\ \/ jobs' = jobs /\ reporter' = "sending"
           \/ NextDomain
    BY <1>9 DEF ResetCounters, CheckRaises
  <2>2. \A k \in DOMAIN jobs : jobs[k].kind = "score"
    BY <1>00, <2>1 DEF Shape, JobsShape
  <2>3. busy' = {} /\ reporter = "checking"
    BY <2>1 DEF Shape, JobsShape, Awaited
  <2>4. CASE jobs' = jobs /\ reporter' = "sending"
    <3>1. JobsShape'
      BY <2>1, <2>2, <2>3, <2>4 DEF Shape, JobsShape, Awaited
    <3> QED BY <2>1, <2>3, <2>4, <3>1 DEF Shape, SendingShape, ScoringShape, DownShape
  <2>5. CASE NextDomain
    <3>1. JobsShape' /\ reporter' # "down"
      BY <1>02, <2>1, <2>2, <2>3, <2>5
    <3> QED BY <2>1, <2>3, <3>1 DEF Shape, SendingShape, ScoringShape, DownShape
  <2> QED BY <2>1, <2>4, <2>5
<1> QED BY <1>1, <1>2, <1>4, <1>5, <1>6, <1>7, <1>9

\* Every step keeps the shape.
LEMMA ShapeKept ==
  ASSUME TypeInv, [Next]_vars
  PROVE  Shape'
<1> USE DEF TypeInv, kafkaVars, consumerVars, flushVars, reporterVars, modelVars, countVars, storeVars
<1>1. CASE \/ \E d \in Domain, kind \in {"window", "malformed"} : Publish(d, kind)
           \/ Tick \/ AutoCommit \/ ClickHouseMerge \/ UNCHANGED vars
  <2>1. UNCHANGED <<run, consumer, item, sending, alertQueue, flush, batch, reporter, jobs, busy>>
    BY <1>1 DEF Publish, Tick, AutoCommit, ClickHouseMerge, vars
  <2> QED BY <2>1, ShapeFrame
<1>2. CASE Crash \/ Shutdown
  <2>1. /\ consumer' = "down" /\ item' = {} /\ sending' = {} /\ alertQueue' = <<>> /\ flush' = "down"
        /\ batch' = <<>> /\ reporter' = "down" /\ jobs' = <<>> /\ busy' = {}
    BY <1>2 DEF Crash, Shutdown, Stop
  <2> QED BY <2>1 DEF Shape, SendingShape, ScoringShape, JobsShape, DownShape
<1>3. CASE ConsumerDies
  <2>1. /\ consumer = "next" /\ consumer' = "dead"
        /\ UNCHANGED <<run, item, sending, alertQueue, flush, batch, reporter, jobs, busy>>
    BY <1>3 DEF ConsumerDies
  <2>2. JobsShape'
    BY <2>1 DEF Shape, JobsShape, Awaited
  <2> QED BY <2>1, <2>2 DEF Shape, SendingShape, ScoringShape, DownShape
<1>4. CASE Start
  <2>1. /\ consumer = "down" /\ consumer' = "next" /\ flush' = "waiting"
        /\ UNCHANGED <<item, sending, alertQueue, batch, jobs, busy>>
    BY <1>4 DEF Start
  <2>2. jobs = <<>> /\ busy = {}
    <3>1. jobs \in Seq(ScoreJob \cup CheckJob) /\ busy \subseteq ScoreJob \cup CheckJob
      BY DEF TypeOK
    <3>2. \A job \in ScoreJob \cup CheckJob : ~Awaited(job)
      BY <2>1, JobTypes DEF Shape, DownShape, Awaited
    <3>3. DOMAIN jobs = {} /\ busy = {}
      BY <3>1, <3>2 DEF Shape, JobsShape
    <3> QED BY <3>1, <3>3
  <2> QED BY <2>1, <2>2 DEF Shape, SendingShape, ScoringShape, JobsShape, DownShape
<1>5. CASE Loops
  BY <1>4, <1>5, ScoringShapeKept, ReportingShapeKept DEF Loops
<1>6. CASE Worker
  BY <1>6, ScoringShapeKept, ReportingShapeKept DEF Worker
<1>7. CASE Environment
  BY <1>1, <1>2, <1>3, <1>7 DEF Environment
<1> QED BY <1>1, <1>5, <1>6, <1>7 DEF Next

\* The shape at the start.
LEMMA InitShape == Init => Shape
BY DEF Init, Shape, SendingShape, ScoringShape, JobsShape, DownShape

\* Types and shape hold always.
LEMMA TypeInvariant == Spec => []TypeInv
<1>1. Init => TypeInv
  BY InitTyped, InitShape DEF TypeInv
<1>2. TypeInv /\ [Next]_vars => TypeInv'
  <2> SUFFICES ASSUME TypeInv, [Next]_vars PROVE TypeInv'
    OBVIOUS
  <2>1. TypeOK'
    BY NextTyped DEF TypeInv, Shape
  <2>2. Shape'
    BY ShapeKept
  <2> QED BY <2>1, <2>2 DEF TypeInv
<1> QED BY <1>1, <1>2, PTL DEF Spec

(* Every variable keeps its type, and the consume loop holds one message at most. *)
THEOREM TypeCorrect == Spec => []TypeOK
<1>1. TypeInv => TypeOK
  BY DEF TypeInv
<1> QED BY <1>1, TypeInvariant, PTL
-----------------------------------------------------------------------------
(* What the table is asked to do: each step leaves it alone, adds rows of a batch
   or merges, and a row counts as acknowledged only once it is in the table. *)
TableStep ==
  \/ rows \subseteq rows' /\ written' \subseteq written \cup (rows' \cap Row)
  \/ Merge

\* Every step is one of those the table allows.
LEMMA NextIsTableStep ==
  ASSUME TypeInv, [Next]_vars
  PROVE  TableStep
<1> USE DEF kafkaVars, consumerVars, flushVars, reporterVars, modelVars, countVars, storeVars
<1>1. CASE UNCHANGED <<rows, written>>
  BY <1>1 DEF TableStep
<1>2. CASE Crash \/ Shutdown
  <2>1. rows \subseteq rows' /\ written' = written
    BY <1>2 DEF Crash, Shutdown, Stop
  <2> QED BY <2>1 DEF TableStep
<1>3. CASE InsertBatch
  <2>1. ToSet(batch) \subseteq Row
    BY ToSetOfSeq DEF TypeInv, TypeOK
  <2>2. rows \subseteq rows' /\ written' \subseteq written \cup (rows' \cap Row)
    BY <1>3, <2>1 DEF InsertBatch, InsertAcknowledged, InsertFailed
  <2> QED BY <2>2 DEF TableStep
<1>4. CASE ClickHouseMerge
  BY <1>4 DEF ClickHouseMerge, TableStep
<1>5. ASSUME Environment, ~(Crash \/ Shutdown), ~ClickHouseMerge PROVE UNCHANGED <<rows, written>>
  BY <1>5 DEF Environment, Publish, Tick, AutoCommit, ConsumerDies
<1>6. ASSUME Loops, ~InsertBatch PROVE UNCHANGED <<rows, written>>
  BY <1>6 DEF Loops, Start, SendAlert, TakeBatch, WakeReporter, SendMetrics, InsertMetrics, TakeMessage
<1>7. ASSUME Worker PROVE UNCHANGED <<rows, written>>
  BY <1>7 DEF Worker, BeginJob, ObserveWindow, RecordScore, ScoreRaises, CheckDrift, ReadCounters,
              ResetCounters, CheckRaises
<1>8. ASSUME UNCHANGED vars PROVE UNCHANGED <<rows, written>>
  BY <1>8 DEF vars
<1> QED BY <1>1, <1>2, <1>3, <1>4, <1>5, <1>6, <1>7, <1>8 DEF Next

(* Whatever ClickHouse acknowledged stays in risk.alerts, in a version as recent of
   the same day: merges replace a row by one that is at least as new. *)
THEOREM LatestVersionSurvives == Spec => []LatestSurvives
<1>1. Init => LatestSurvives
  BY DEF Init, LatestSurvives
<1>2. TypeInv /\ LatestSurvives /\ [Next]_vars => LatestSurvives'
  <2> SUFFICES ASSUME TypeInv, LatestSurvives, [Next]_vars PROVE LatestSurvives'
    OBVIOUS
  <2>1. rows \subseteq Row /\ written \subseteq Row /\ \A r \in Row : r.ts \in Nat
    BY DEF TypeInv, TypeOK, Row
  <2>2. TableStep
    BY NextIsTableStep
  <2>3. CASE rows \subseteq rows' /\ written' \subseteq written \cup (rows' \cap Row)
    <3> SUFFICES ASSUME NEW r \in written'
                 PROVE  \E s \in rows' : SameKey(r, s) /\ SamePartition(r, s) /\ s.ts >= r.ts
      BY DEF LatestSurvives
    <3>1. CASE r \in written
      BY <2>3, <3>1 DEF LatestSurvives
    <3>2. CASE r \in rows' /\ r \in Row
      <4>1. SameKey(r, r) /\ SamePartition(r, r) /\ r.ts >= r.ts
        BY <2>1, <3>2 DEF SameKey, SamePartition
      <4> QED BY <3>2, <4>1
    <3> QED BY <2>3, <3>1, <3>2
  <2>4. CASE Merge
    <3>1. PICK r, s \in rows : Replaces(r, s) /\ rows' = rows \ {s}
      BY <2>4 DEF Merge
    <3>2. SUFFICES ASSUME NEW w \in written
                   PROVE  \E x \in rows' : SameKey(w, x) /\ SamePartition(w, x) /\ x.ts >= w.ts
      BY <2>4 DEF Merge, LatestSurvives
    <3>3. PICK x \in rows : SameKey(w, x) /\ SamePartition(w, x) /\ x.ts >= w.ts
      BY DEF LatestSurvives
    <3>4. CASE x # s
      BY <3>1, <3>3, <3>4
    <3>5. CASE x = s
      <4>1. r \in rows' /\ SameKey(r, s) /\ SamePartition(r, s) /\ r.ts >= s.ts
        BY <3>1 DEF Replaces
      <4>2. SameKey(w, r) /\ SamePartition(w, r)
        BY <3>3, <3>5, <4>1 DEF SameKey, SamePartition
      <4>3. r.ts >= w.ts
        BY <2>1, <3>3, <3>5, <4>1
      <4> QED BY <4>1, <4>2, <4>3
    <3> QED BY <3>4, <3>5
  <2> QED BY <2>2, <2>3, <2>4 DEF TableStep
<1> QED BY <1>1, <1>2, TypeInvariant, PTL DEF Spec
-----------------------------------------------------------------------------
(* The one check the worker runs may hold a count it has read; until it resets the
   accumulator nothing else touches it, because there is one worker. *)
CountRead ==
  \A job \in busy : job.kind = "check" /\ job.step = "reset" => job.count = scored[job.domain]

CountInv == ScoresReportedOnce /\ CountRead

\* The counts hold on while nobody counts.
LEMMA CountFrame ==
  ASSUME CountInv, UNCHANGED <<scored, recorded, reported>>,
         \A b \in busy' : b \in busy \/ b.step # "reset"
  PROVE  CountInv'
BY DEF CountInv, ScoresReportedOnce, CountRead

\* Every step keeps the counts.
LEMMA CountKept ==
  ASSUME TypeInv, CountInv, [Next]_vars
  PROVE  CountInv'
<1> USE DEF kafkaVars, consumerVars, flushVars, reporterVars, modelVars, countVars, storeVars
<1>0. /\ scored \in [Domain -> Nat] /\ recorded \in [Domain -> Nat] /\ reported \in [Domain -> Nat]
      /\ \A job \in busy : job \in ScoreJob \cup CheckJob
      /\ \A b, c \in busy : b = c
  BY DEF TypeInv, TypeOK, Shape, JobsShape
<1>1. CASE Environment
  <2>1. CASE Crash \/ Shutdown
    <3>1. /\ scored' = [d \in Domain |-> 0] /\ recorded' = scored' /\ reported' = scored' /\ busy' = {}
      BY <2>1 DEF Crash, Shutdown, Stop
    <3> QED BY <3>1 DEF CountInv, ScoresReportedOnce, CountRead
  <2>2. CASE ~(Crash \/ Shutdown)
    <3>1. UNCHANGED <<scored, recorded, reported, busy>>
      BY <1>1, <2>2 DEF Environment, Publish, Tick, AutoCommit, ClickHouseMerge, ConsumerDies
    <3> QED BY <3>1, CountFrame
  <2> QED BY <2>1, <2>2
<1>2. CASE Loops
  <2>1. UNCHANGED <<scored, recorded, reported, busy>>
    BY <1>2 DEF Loops, Start, SendAlert, TakeBatch, InsertBatch, WakeReporter, SendMetrics, InsertMetrics,
                TakeMessage
  <2> QED BY <2>1, CountFrame
<1>3. CASE UNCHANGED vars
  BY <1>3, CountFrame DEF vars
<1>4. CASE BeginJob
  <2>1. /\ UNCHANGED <<scored, recorded, reported>> /\ jobs # <<>> /\ busy' = busy \cup {Head(jobs)}
    BY <1>4 DEF BeginJob
  <2>2. jobs \in Seq(ScoreJob \cup CheckJob) /\ \A i \in DOMAIN jobs : jobs[i].step \in {"observe", "drift"}
    BY DEF TypeInv, TypeOK, Shape, JobsShape
  <2>3. Head(jobs).step # "reset"
    BY <2>1, <2>2
  <2> QED BY <2>1, <2>3, CountFrame
<1>5. ASSUME NEW job \in busy, ObserveWindow(job) \/ CheckDrift(job) PROVE CountInv'
  <2>1. PICK next \in {"record", "read"} :
          /\ UNCHANGED <<scored, recorded, reported>>
          /\ busy' = (busy \ {job}) \cup {[job EXCEPT !.step = next, !.count = 0]}
    BY <1>5 DEF ObserveWindow, CheckDrift, Advance
  <2>2. [job EXCEPT !.step = next, !.count = 0].step # "reset"
    BY <1>0 DEF ScoreJob, CheckJob
  <2> QED BY <2>1, <2>2, CountFrame
<1>6. ASSUME NEW job \in busy, RecordScore(job) PROVE CountInv'
  <2> DEFINE e == job.message.domain
  <2>1. job.message.domain \in Domain
    BY <1>0, <1>6, JobTypes DEF RecordScore, Message
  <2>2. /\ scored' = [scored EXCEPT ![e] = scored[e] + 1] /\ reported' = reported
        /\ recorded' = [recorded EXCEPT ![e] = recorded[e] + 1] /\ busy' = busy \ {job}
    BY <1>6 DEF RecordScore
  <2>3. ScoresReportedOnce'
    <3> SUFFICES ASSUME NEW d \in Domain PROVE recorded'[d] = reported'[d] + scored'[d]
      BY DEF ScoresReportedOnce
    <3>1. recorded[d] = reported[d] + scored[d]
      BY DEF CountInv, ScoresReportedOnce
    <3> QED BY <1>0, <2>1, <2>2, <3>1
  <2>4. busy' = {}
    BY <1>0, <2>2
  <2> QED BY <2>3, <2>4 DEF CountInv, CountRead
<1>7. ASSUME NEW job \in busy, ScoreRaises(job) \/ CheckRaises(job) PROVE CountInv'
  <2>1. UNCHANGED <<scored, recorded, reported>> /\ busy' \subseteq busy
    BY <1>7 DEF ScoreRaises, CheckRaises
  <2> QED BY <2>1, CountFrame
<1>8. ASSUME NEW job \in busy, ReadCounters(job) PROVE CountInv'
  <2> DEFINE next == [job EXCEPT !.step = "reset", !.count = scored[job.domain]]
  <2>1. UNCHANGED <<scored, recorded, reported>> /\ busy' = (busy \ {job}) \cup {next} /\ job.kind = "check"
    BY <1>8 DEF ReadCounters, Advance
  <2>2. busy' = {next}
    BY <1>0, <2>1
  <2>3. next.domain = job.domain /\ next.count = scored[job.domain]
    BY <1>0, <2>1 DEF ScoreJob, CheckJob
  <2>4. next.count = scored'[next.domain]
    BY <2>1, <2>3
  <2> QED BY <2>1, <2>2, <2>4 DEF CountInv, CountRead, ScoresReportedOnce
<1>9. ASSUME NEW job \in busy, ResetCounters(job) PROVE CountInv'
  <2> DEFINE e == job.domain
  <2>1. e \in Domain /\ job.count = scored[e]
    BY <1>0, <1>9, JobTypes DEF ResetCounters, CountInv, CountRead
  <2>2. /\ scored' = [scored EXCEPT ![e] = 0] /\ recorded' = recorded
        /\ reported' = [reported EXCEPT ![e] = reported[e] + scored[e]] /\ busy' = busy \ {job}
    BY <1>9, <2>1 DEF ResetCounters
  <2>3. ScoresReportedOnce'
    <3> SUFFICES ASSUME NEW d \in Domain PROVE recorded'[d] = reported'[d] + scored'[d]
      BY DEF ScoresReportedOnce
    <3>1. recorded[d] = reported[d] + scored[d]
      BY DEF CountInv, ScoresReportedOnce
    <3> QED BY <1>0, <2>1, <2>2, <3>1
  <2>4. busy' = {}
    BY <1>0, <2>2
  <2> QED BY <2>3, <2>4 DEF CountInv, CountRead
<1>10. CASE Worker
  BY <1>4, <1>5, <1>6, <1>7, <1>8, <1>9, <1>10 DEF Worker
<1> QED BY <1>1, <1>2, <1>3, <1>10 DEF Next

(* Every score recorded is in exactly one model-metrics event or still in the
   accumulator, however the consume loop, the metrics loop and the worker
   interleave: the one worker thread is what makes it so. *)
THEOREM ScoresCounted == Spec => []ScoresReportedOnce
<1>1. Init => CountInv
  BY DEF Init, CountInv, ScoresReportedOnce, CountRead
<1>2. TypeInv /\ CountInv /\ [Next]_vars => CountInv'
  BY CountKept
<1>3. CountInv => ScoresReportedOnce
  BY DEF CountInv
<1> QED BY <1>1, <1>2, <1>3, TypeInvariant, PTL DEF Spec
-----------------------------------------------------------------------------
(* Outcomes are of messages the run took, and a message taken is either the one
   being handled, with no outcome yet, or has its one outcome. *)
OutcomesTaken ==
  /\ \A h \in handled : /\ h.run <= run
                        /\ h.run = run => h.message.offset < position[h.message.domain]
  /\ \A m \in item : m.offset < position[m.domain] /\ OutcomesOf(m) = {}

Accounted(m) ==
  IF m \in item THEN OutcomesOf(m) = {} ELSE \E h \in handled : OutcomesOf(m) = {h}

OneOutcome ==
  consumer # "down" =>
    \A d \in Domain : \A o \in bootPos[d] .. (position[d] - 1) : Accounted([domain |-> d, offset |-> o])

OutcomeInv == OutcomesTaken /\ OneOutcome

\* Outcomes hold on while no message is taken or finished.
LEMMA OutcomeFrame ==
  ASSUME OutcomeInv, UNCHANGED <<run, bootPos, position, item, handled>>,
         consumer' # "down" => consumer # "down"
  PROVE  OutcomeInv'
BY DEF OutcomeInv, OutcomesTaken, OneOutcome, Accounted, OutcomesOf

(* The message at the position has neither been taken nor has it an outcome. *)
LEMMA TakeAccounted ==
  ASSUME TypeInv, OutcomeInv, NEW d \in Domain, TakeMessage(d)
  PROVE  OutcomeInv'
<1> USE DEF kafkaVars, consumerVars, flushVars, reporterVars, modelVars, countVars, storeVars
<1>0. /\ position \in [Domain -> Nat \ {0}] /\ bootPos \in [Domain -> Nat \ {0}] /\ run \in Nat
      /\ handled \subseteq [message : Message, run : Nat, outcome : Outcome]
      /\ item = {}
  BY DEF TypeInv, TypeOK, TakeMessage, Shape, ScoringShape
<1> DEFINE new == [domain |-> d, offset |-> position[d]]
<1>1. PICK m \in Message : m = new
  BY <1>0 DEF Message
<1>2. PICK h : h = [message |-> m, run |-> run, outcome |-> "malformed"]
  OBVIOUS
<1>3. /\ consumer = "next" /\ consumer' # "down" /\ run' = run /\ bootPos' = bootPos
      /\ position' = [position EXCEPT ![d] = position[d] + 1]
      /\ \/ handled' = handled \cup {h} /\ item' = {}
         \/ handled' = handled /\ item' = {m}
  BY <1>0, <1>1, <1>2 DEF TakeMessage, Outcomes
<1>4. m.domain = d /\ m.offset = position[d]
  BY <1>1
<1> HIDE DEF new
<1>5. OutcomesOf(m) = {}
  BY <1>0, <1>4 DEF OutcomesOf, OutcomeInv, OutcomesTaken
<1>6. OutcomesTaken'
  <2>1. ASSUME NEW g \in handled', g.run = run' PROVE g.message.offset < position'[g.message.domain]
    <3>1. CASE g \in handled
      <4>1. /\ g.message.offset < position[g.message.domain] /\ g.message.domain \in Domain
            /\ g.message.offset \in Nat
        BY <1>0, <1>3, <2>1, <3>1 DEF OutcomeInv, OutcomesTaken, Message
      <4> QED BY <1>0, <1>3, <4>1
    <3>2. CASE g = h
      <4>1. position'[d] = position[d] + 1 /\ g.message.domain = d /\ g.message.offset = position[d]
        BY <1>0, <1>2, <1>3, <1>4, <3>2
      <4> QED BY <1>0, <4>1
    <3> QED BY <1>3, <2>1, <3>1, <3>2
  <2>2. ASSUME NEW g \in handled' PROVE g.run <= run'
    BY <1>0, <1>2, <1>3 DEF OutcomeInv, OutcomesTaken
  <2>3. m.offset < position'[m.domain]
    BY <1>0, <1>3, <1>4
  <2>4. m \in item' => OutcomesOf(m)' = {}
    BY <1>3, <1>5 DEF OutcomesOf
  <2> QED BY <1>3, <2>1, <2>2, <2>3, <2>4 DEF OutcomesTaken
<1>7. ASSUME NEW e \in Domain, NEW o \in bootPos'[e] .. (position'[e] - 1)
      PROVE  Accounted([domain |-> e, offset |-> o])'
  <2> DEFINE nn == [domain |-> e, offset |-> o]
  <2>0. PICK n : n = nn
    OBVIOUS
  <2>1. n.domain = e /\ n.offset = o
    BY <2>0
  <2>2. CASE n = m
    <3>1. CASE handled' = handled /\ item' = {m}
      BY <1>3, <1>5, <2>2, <3>1, <2>0 DEF Accounted, OutcomesOf
    <3>2. CASE handled' = handled \cup {h} /\ item' = {}
      <4>1. h.message = m /\ h.run = run
        BY <1>2
      <4>2. OutcomesOf(m)' = {h}
        BY <1>3, <1>5, <3>2, <4>1 DEF OutcomesOf
      <4> QED BY <2>2, <2>0, <3>2, <4>2 DEF Accounted
    <3> QED BY <1>3, <3>1, <3>2
  <2>3. CASE n # m
    <3>1. o \in bootPos[e] .. (position[e] - 1)
      <4>1. CASE e = d
        <5>1. position'[e] = position[e] + 1
          BY <1>0, <1>3, <4>1
        <5>2. o # position[e]
          BY <1>1, <2>0, <2>3, <4>1 DEF new
        <5> QED BY <1>0, <1>3, <5>1, <5>2
      <4>2. CASE e # d
        BY <1>0, <1>3, <4>2
      <4> QED BY <4>1, <4>2
    <3>2. Accounted(nn)
      BY <1>3, <3>1 DEF OutcomeInv, OneOutcome
    <3>3. Accounted(n)
      BY <2>0, <3>2
    <3>4. PICK g \in handled : OutcomesOf(n) = {g}
      BY <1>0, <3>3 DEF Accounted
    <3>5. h.message = m
      BY <1>2
    <3>6. OutcomesOf(n)' = {g} /\ g \in handled' /\ n \notin item'
      BY <1>3, <2>3, <3>4, <3>5 DEF OutcomesOf
    <3>7. Accounted(n)'
      BY <3>6 DEF Accounted
    <3> QED BY <2>0, <3>7
  <2> QED BY <2>2, <2>3
<1> QED BY <1>6, <1>7 DEF OutcomeInv, OneOutcome

(* The message handled gets its outcome and is handled no more. *)
LEMMA FinishAccounted ==
  ASSUME TypeInv, OutcomeInv, NEW m \in item, NEW o \in Outcome,
         handled' = Outcomes(m, o), item' = {},
         UNCHANGED <<run, bootPos, position>>, consumer # "down"
  PROVE  OutcomeInv'
<1>1. PICK h : h = [message |-> m, run |-> run, outcome |-> o]
  OBVIOUS
<1>2. handled' = handled \cup {h} /\ h.message = m /\ h.run = run
  BY <1>1 DEF Outcomes
<1>3. item = {m} /\ run \in Nat
  BY DEF TypeInv, TypeOK, Shape, ScoringShape
<1>4. OutcomesTaken'
  BY <1>2, <1>3 DEF OutcomeInv, OutcomesTaken
<1>5. ASSUME NEW d \in Domain, NEW i \in bootPos'[d] .. (position'[d] - 1)
      PROVE  Accounted([domain |-> d, offset |-> i])'
  <2>1. PICK n : n = [domain |-> d, offset |-> i]
    OBVIOUS
  <2>2. Accounted(n)
    BY <2>1 DEF OutcomeInv, OneOutcome
  <2>3. CASE n = m
    <3>1. OutcomesOf(n)' = {h}
      BY <1>2, <2>2, <2>3 DEF OutcomesOf, Accounted
    <3> QED BY <1>2, <2>1, <3>1 DEF Accounted
  <2>4. CASE n # m
    <3>1. PICK g \in handled : OutcomesOf(n) = {g}
      BY <1>3, <2>2, <2>4 DEF Accounted
    <3>2. OutcomesOf(n)' = {g}
      BY <1>2, <2>4, <3>1 DEF OutcomesOf
    <3> QED BY <1>2, <2>1, <3>1, <3>2 DEF Accounted
  <2> QED BY <2>3, <2>4
<1> QED BY <1>4, <1>5 DEF OutcomeInv, OneOutcome

\* Every step keeps the outcomes.
LEMMA OutcomeKept ==
  ASSUME TypeInv, OutcomeInv, [Next]_vars
  PROVE  OutcomeInv'
<1> USE DEF kafkaVars, consumerVars, flushVars, reporterVars, modelVars, countVars, storeVars
<1>1. CASE Crash \/ Shutdown
  BY <1>1 DEF Crash, Shutdown, Stop, OutcomeInv, OutcomesTaken, OneOutcome
<1>2. CASE Start
  <2>1. /\ run' = run + 1 /\ position' = bootPos' /\ UNCHANGED <<item, handled>>
        /\ bootPos' = [d \in Domain |-> ResumeAt(d)] /\ item = {}
    BY <1>2 DEF Start, TypeInv, Shape, ScoringShape
  <2>2. run \in Nat /\ \A h \in handled : h.run \in Nat
    BY DEF TypeInv, TypeOK
  <2>3. \A d \in Domain : bootPos'[d] \in Nat
    BY <2>1, ResumeTyped DEF TypeInv
  <2>4. OutcomesTaken'
    BY <2>1, <2>2 DEF OutcomeInv, OutcomesTaken
  <2>5. \A d \in Domain : bootPos'[d] .. (position'[d] - 1) = {}
    BY <2>1, <2>3
  <2> QED BY <2>4, <2>5 DEF OutcomeInv, OneOutcome
<1>3. ASSUME NEW d \in Domain, TakeMessage(d) PROVE OutcomeInv'
  BY <1>3, TakeAccounted
<1>4. ASSUME NEW job \in busy, RecordScore(job) \/ ScoreRaises(job) PROVE OutcomeInv'
  <2>1. job.message \in item /\ consumer = "scoring"
    BY <1>4 DEF RecordScore, ScoreRaises, TypeInv, Shape, JobsShape, Awaited
  <2>2. PICK o \in Outcome : /\ handled' = Outcomes(job.message, o) /\ item' = {}
                             /\ UNCHANGED <<run, bootPos, position>>
    BY <1>4 DEF RecordScore, ScoreRaises, Outcome
  <2> QED BY <2>1, <2>2, FinishAccounted
<1>5. ASSUME Environment, ~(Crash \/ Shutdown) PROVE OutcomeInv'
  <2>1. /\ UNCHANGED <<run, bootPos, position, item, handled>>
        /\ consumer' = consumer \/ consumer = "next"
    BY <1>5 DEF Environment, Publish, Tick, AutoCommit, ClickHouseMerge, ConsumerDies
  <2> QED BY <2>1, OutcomeFrame
<1>6. ASSUME \/ SendAlert \/ TakeBatch \/ InsertBatch \/ WakeReporter \/ SendMetrics \/ InsertMetrics
      PROVE  OutcomeInv'
  <2>1. /\ UNCHANGED <<run, bootPos, position, item, handled>>
        /\ consumer' = consumer \/ consumer = "sending"
    BY <1>6 DEF SendAlert, TakeBatch, InsertBatch, WakeReporter, SendMetrics, InsertMetrics
  <2> QED BY <2>1, OutcomeFrame
<1>7. ASSUME \/ BeginJob
             \/ \E job \in busy : \/ ObserveWindow(job) \/ CheckDrift(job) \/ ReadCounters(job)
                                  \/ ResetCounters(job) \/ CheckRaises(job)
             \/ UNCHANGED vars
      PROVE  OutcomeInv'
  <2>1. UNCHANGED <<run, bootPos, position, item, handled, consumer>>
    BY <1>7 DEF BeginJob, ObserveWindow, CheckDrift, ReadCounters, ResetCounters, CheckRaises, vars
  <2> QED BY <2>1, OutcomeFrame
<1>8. CASE Loops
  BY <1>2, <1>3, <1>6, <1>8 DEF Loops
<1>9. CASE Worker
  BY <1>4, <1>7, <1>9 DEF Worker
<1> QED BY <1>1, <1>5, <1>7, <1>8, <1>9 DEF Next

\* The outcomes hold always.
LEMMA OutcomeInvariant == Spec => []OutcomeInv
<1>1. Init => OutcomeInv
  BY DEF Init, OutcomeInv, OutcomesTaken, OneOutcome
<1>2. TypeInv /\ OutcomeInv /\ [Next]_vars => OutcomeInv'
  BY OutcomeKept
<1> QED BY <1>1, <1>2, TypeInvariant, PTL DEF Spec

(* Every message a run took is being handled or has exactly one outcome: none is
   scored twice by one run, none is lost between the worker and the event loop. *)
THEOREM MessagesAccounted == Spec => []EveryMessageAccounted
<1>1. TypeInv /\ OutcomeInv => EveryMessageAccounted
  <2> SUFFICES ASSUME TypeInv, OutcomeInv, NEW d \in Domain,
                      NEW o \in bootPos[d] .. (position[d] - 1), consumer # "down"
               PROVE  LET m == [domain |-> d, offset |-> o]
                      IN  Cardinality(OutcomesOf(m)) + Cardinality(item \cap {m}) = 1
    BY DEF EveryMessageAccounted
  <2>1. PICK m : m = [domain |-> d, offset |-> o]
    OBVIOUS
  <2>2. Accounted(m)
    BY <2>1 DEF OutcomeInv, OneOutcome
  <2>3. Cardinality({}) = 0 /\ \A x : Cardinality({x}) = 1
    BY FS_EmptySet, FS_Singleton
  <2>4. CASE m \in item
    <3>1. OutcomesOf(m) = {} /\ item \cap {m} = {m}
      BY <2>2, <2>4 DEF Accounted
    <3>2. Cardinality(OutcomesOf(m)) = 0 /\ Cardinality(item \cap {m}) = 1
      BY <2>3, <3>1
    <3> QED BY <2>1, <3>2
  <2>5. CASE m \notin item
    <3>1. (\E h \in handled : OutcomesOf(m) = {h}) /\ item \cap {m} = {}
      BY <2>2, <2>5 DEF Accounted
    <3>2. Cardinality(OutcomesOf(m)) = 1 /\ Cardinality(item \cap {m}) = 0
      BY <2>3, <3>1
    <3> QED BY <2>1, <3>2
  <2> QED BY <2>4, <2>5
<1> QED BY <1>1, TypeInvariant, OutcomeInvariant, PTL
-----------------------------------------------------------------------------
(* Where the alerts of the run are: being produced, queued, in the batch,
   acknowledged, dropped.  Each row found there is of an alert the run raised, no
   row is in two places and no window has two rows, and every alert raised is
   somewhere. *)
Places == <<sending, ToSet(alertQueue), ToSet(batch),
            {a \in written : a.run = run}, {a \in dropped : a.run = run}>>

Raised(m) == [message |-> m, run |-> run, outcome |-> "alert"] \in handled

RowsOfAlerts == \A i \in 1 .. 5 : \A a \in Places[i] : a.run = run /\ Raised(a.window)

OneCopy == \A i, j \in 1 .. 5 : \A a \in Places[i], b \in Places[j] : a.window = b.window => i = j /\ a = b

AlertsFound ==
  consumer # "down" =>
    \A h \in handled : h.run = run /\ h.outcome = "alert" =>
      \E i \in 1 .. 5 : \E a \in Places[i] : a.window = h.message

PastRuns == \A a \in written \cup dropped : a.run <= run

NoRepeats == IsInjective(alertQueue) /\ IsInjective(batch)

PlaceInv == RowsOfAlerts /\ OneCopy /\ AlertsFound /\ PastRuns
AlertInv == PlaceInv /\ NoRepeats

\* The five places, one by one.
LEMMA PlacesAre ==
  /\ Places[1] = sending /\ Places[2] = ToSet(alertQueue) /\ Places[3] = ToSet(batch)
  /\ Places[4] = {a \in written : a.run = run} /\ Places[5] = {a \in dropped : a.run = run}
  /\ Places'[1] = sending' /\ Places'[2] = ToSet(alertQueue)' /\ Places'[3] = ToSet(batch)'
  /\ Places'[4] = {a \in written' : a.run = run'} /\ Places'[5] = {a \in dropped' : a.run = run'}
BY DEF Places

\* The places hold on while nothing moves.
LEMMA PlaceFrame ==
  ASSUME PlaceInv, UNCHANGED <<run, sending, written, dropped>>,
         ToSet(alertQueue)' = ToSet(alertQueue), ToSet(batch)' = ToSet(batch),
         handled \subseteq handled', \A h \in handled' \ handled : h.outcome # "alert",
         consumer' # "down" => consumer # "down"
  PROVE  PlaceInv'
<1>1. \A i \in 1 .. 5 : Places'[i] = Places[i]
  <2>1. /\ Places'[1] = Places[1] /\ Places'[2] = Places[2] /\ Places'[3] = Places[3]
        /\ Places'[4] = Places[4] /\ Places'[5] = Places[5]
    BY PlacesAre
  <2>2. \A i \in 1 .. 5 : i = 1 \/ i = 2 \/ i = 3 \/ i = 4 \/ i = 5
    OBVIOUS
  <2> QED BY <2>1, <2>2
<1>2. RowsOfAlerts' /\ OneCopy' /\ PastRuns'
  BY <1>1 DEF PlaceInv, RowsOfAlerts, OneCopy, PastRuns, Raised
<1>3. AlertsFound'
  BY <1>1 DEF PlaceInv, AlertsFound
<1> QED BY <1>2, <1>3 DEF PlaceInv

(* Rows move from one place to another. *)
Moved(X, from, to) ==
  /\ X \subseteq Places[from] /\ from # to /\ {from, to} \subseteq 1 .. 5
  /\ \A i \in 1 .. 5 : Places'[i] = IF i = from THEN Places[i] \ X
                                     ELSE IF i = to THEN Places[i] \cup X ELSE Places[i]

\* Rows that move as a whole from one place to another are still in one place.
LEMMA PlaceMove ==
  ASSUME PlaceInv, NEW X, NEW from, NEW to, Moved(X, from, to),
         UNCHANGED <<run, handled>>, consumer' # "down" => consumer # "down",
         \A a \in (written \cup dropped)' : a \in written \cup dropped \/ a.run <= run
  PROVE  PlaceInv'
<1> USE DEF Moved
<1>1. ASSUME NEW i \in 1 .. 5, NEW a \in Places'[i]
      PROVE  \E k \in 1 .. 5 : a \in Places[k] /\ i = (IF a \in X THEN to ELSE k)
  <2>1. CASE a \in X
    <3>1. a \in Places[from]
      BY <2>1
    <3>2. i = to
      <4>1. CASE i = from
        BY <1>1, <2>1, <4>1
      <4>2. CASE i # from /\ i # to
        <5>1. a \in Places[i] /\ i = from
          BY <1>1, <3>1, <4>2 DEF PlaceInv, OneCopy
        <5> QED BY <4>2, <5>1
      <4> QED BY <4>1, <4>2
    <3> QED BY <2>1, <3>1, <3>2
  <2>2. CASE a \notin X
    BY <1>1, <2>2
  <2> QED BY <2>1, <2>2
<1>2. ASSUME NEW k \in 1 .. 5, NEW a \in Places[k]
      PROVE  \E i \in 1 .. 5 : a \in Places'[i]
  <2>1. CASE a \in X
    BY <2>1
  <2>2. CASE a \notin X
    BY <1>2, <2>2
  <2> QED BY <2>1, <2>2
<1>3. RowsOfAlerts'
  BY <1>1 DEF PlaceInv, RowsOfAlerts, Raised
<1>4. OneCopy'
  <2> SUFFICES ASSUME NEW i \in 1 .. 5, NEW j \in 1 .. 5, NEW a \in Places'[i], NEW b \in Places'[j],
                      a.window = b.window
               PROVE  i = j /\ a = b
    BY DEF OneCopy
  <2>1. PICK k \in 1 .. 5 : a \in Places[k] /\ i = (IF a \in X THEN to ELSE k)
    BY <1>1
  <2>2. PICK l \in 1 .. 5 : b \in Places[l] /\ j = (IF b \in X THEN to ELSE l)
    BY <1>1
  <2>3. k = l /\ a = b
    BY <2>1, <2>2 DEF PlaceInv, OneCopy
  <2> QED BY <2>1, <2>2, <2>3
<1>5. AlertsFound'
  <2> SUFFICES ASSUME consumer' # "down", NEW h \in handled', h.run = run', h.outcome = "alert"
               PROVE  \E i \in 1 .. 5 : \E a \in Places'[i] : a.window = h.message
    BY DEF AlertsFound
  <2>1. PICK k \in 1 .. 5 : \E a \in Places[k] : a.window = h.message
    BY DEF PlaceInv, AlertsFound
  <2> QED BY <1>2, <2>1
<1>6. PastRuns'
  BY DEF PlaceInv, PastRuns
<1> QED BY <1>3, <1>4, <1>5, <1>6 DEF PlaceInv

(* A new alert: nothing was being produced, and its window had no outcome yet. *)
LEMMA PlaceRaise ==
  ASSUME TypeInv, OutcomeInv, PlaceInv, NEW m \in item, NEW a, a = [window |-> m, run |-> run, ts |-> now],
         handled' = Outcomes(m, "alert"), sending = {}, sending' = {a}, consumer # "down",
         UNCHANGED <<run, alertQueue, batch, written, dropped>>
  PROVE  PlaceInv'
<1>1. PICK h : h = [message |-> m, run |-> run, outcome |-> "alert"]
  OBVIOUS
<1>2. handled' = handled \cup {h} /\ h.message = m /\ a.run = run /\ a.window = m
  BY <1>1 DEF Outcomes
<1>3. Places[1] = {} /\ Places'[1] = {a} /\ \A i \in 2 .. 5 : Places'[i] = Places[i]
  <2>1. /\ Places'[2] = Places[2] /\ Places'[3] = Places[3]
        /\ Places'[4] = Places[4] /\ Places'[5] = Places[5]
    BY PlacesAre
  <2>2. \A i \in 2 .. 5 : i = 2 \/ i = 3 \/ i = 4 \/ i = 5
    OBVIOUS
  <2>3. Places[1] = {} /\ Places'[1] = {a}
    BY PlacesAre
  <2> QED BY <2>1, <2>2, <2>3
<1>4. \A g \in handled : ~(g.message = m /\ g.run = run)
  BY DEF OutcomeInv, OutcomesTaken, OutcomesOf
<1>5. \A i \in 1 .. 5 : \A b \in Places[i] : b.window # m
  <2> SUFFICES ASSUME NEW i \in 1 .. 5, NEW b \in Places[i], b.window = m PROVE FALSE
    OBVIOUS
  <2>1. [message |-> m, run |-> run, outcome |-> "alert"] \in handled
    BY DEF PlaceInv, RowsOfAlerts, Raised
  <2> QED BY <1>1, <1>4, <2>1
<1>6. RowsOfAlerts'
  <2> SUFFICES ASSUME NEW i \in 1 .. 5, NEW b \in Places'[i] PROVE b.run = run' /\ Raised(b.window)'
    BY DEF RowsOfAlerts
  <2>1. CASE i = 1
    <3>1. b = a /\ h \in handled'
      BY <1>2, <1>3, <2>1
    <3> QED BY <1>1, <1>2, <3>1 DEF Raised
  <2>2. CASE i # 1
    BY <1>2, <1>3, <2>2 DEF PlaceInv, RowsOfAlerts, Raised
  <2> QED BY <2>1, <2>2
<1>7. OneCopy'
  <2> SUFFICES ASSUME NEW i \in 1 .. 5, NEW j \in 1 .. 5, NEW b \in Places'[i], NEW c \in Places'[j],
                      b.window = c.window
               PROVE  i = j /\ b = c
    BY DEF OneCopy
  <2>1. CASE i = 1 /\ j = 1
    BY <1>3, <2>1
  <2>2. CASE i = 1 /\ j # 1
    <3>1. b = a /\ c \in Places[j]
      BY <1>3, <2>2
    <3> QED BY <1>2, <1>5, <3>1
  <2>3. CASE i # 1 /\ j = 1
    <3>1. c = a /\ b \in Places[i]
      BY <1>3, <2>3
    <3> QED BY <1>2, <1>5, <3>1
  <2>4. CASE i # 1 /\ j # 1
    BY <1>3, <2>4 DEF PlaceInv, OneCopy
  <2> QED BY <2>1, <2>2, <2>3, <2>4
<1>8. AlertsFound'
  <2> SUFFICES ASSUME NEW g \in handled', g.run = run', g.outcome = "alert"
               PROVE  \E i \in 1 .. 5 : \E b \in Places'[i] : b.window = g.message
    BY DEF AlertsFound
  <2>1. CASE g = h
    BY <1>2, <1>3, <2>1
  <2>2. CASE g \in handled
    <3>1. PICK i \in 1 .. 5 : \E b \in Places[i] : b.window = g.message
      BY <2>2 DEF PlaceInv, AlertsFound
    <3> QED BY <1>3, <3>1
  <2> QED BY <1>2, <2>1, <2>2
<1> QED BY <1>6, <1>7, <1>8 DEF PlaceInv, PastRuns

\* A sequence without repeats and one new element has no repeats.
LEMMA AppendKeepsInjective ==
  ASSUME NEW S, NEW s \in Seq(S), NEW x \in S, IsInjective(s), x \notin ToSet(s)
  PROVE  IsInjective(Append(s, x))
<1>0. PICK t : t = Append(s, x)
  OBVIOUS
<1>1. /\ DOMAIN t = 1 .. Len(s) + 1 /\ DOMAIN s = 1 .. Len(s) /\ Len(s) \in Nat
      /\ \A i \in 1 .. Len(s) : t[i] = s[i]
      /\ t[Len(s) + 1] = x
  BY <1>0
<1>2. \A i \in 1 .. Len(s) : t[i] # x
  BY <1>1 DEF ToSet
<1>3. ASSUME NEW i \in DOMAIN t, NEW k \in DOMAIN t, t[i] = t[k] PROVE i = k
  <2>1. CASE i \in 1 .. Len(s) /\ k \in 1 .. Len(s)
    BY <1>1, <1>3, <2>1 DEF IsInjective
  <2>2. CASE i = Len(s) + 1 \/ k = Len(s) + 1
    BY <1>1, <1>2, <1>3, <2>2
  <2> QED BY <1>1, <2>1, <2>2
<1>4. IsInjective(t)
  BY <1>3 DEF IsInjective
<1> QED BY <1>0, <1>4

\* Two sequences without repeats or common elements, joined.
LEMMA ConcatInjective ==
  ASSUME NEW S, NEW s \in Seq(S), NEW t \in Seq(S), IsInjective(s), IsInjective(t),
         ToSet(s) \cap ToSet(t) = {}
  PROVE  IsInjective(s \o t)
<1> DEFINE u == s \o t
<1>1. /\ DOMAIN u = 1 .. Len(s) + Len(t) /\ DOMAIN s = 1 .. Len(s) /\ DOMAIN t = 1 .. Len(t)
      /\ Len(s) \in Nat /\ Len(t) \in Nat
      /\ \A i \in 1 .. Len(s) : u[i] = s[i]
      /\ \A i \in Len(s) + 1 .. Len(s) + Len(t) : i - Len(s) \in 1 .. Len(t) /\ u[i] = t[i - Len(s)]
  OBVIOUS
<1> HIDE DEF u
<1>2. ASSUME NEW i \in DOMAIN u, NEW k \in DOMAIN u, u[i] = u[k] PROVE i = k
  <2>1. CASE i \in 1 .. Len(s) /\ k \in 1 .. Len(s)
    BY <1>1, <1>2, <2>1 DEF IsInjective
  <2>2. CASE i > Len(s) /\ k > Len(s)
    <3>1. /\ i - Len(s) \in DOMAIN t /\ k - Len(s) \in DOMAIN t
          /\ t[i - Len(s)] = t[k - Len(s)]
      BY <1>1, <1>2, <2>2
    <3>2. i - Len(s) = k - Len(s)
      BY <3>1 DEF IsInjective
    <3> QED BY <1>1, <3>2
  <2>3. \A a \in 1 .. Len(s), b \in 1 .. Len(t) : s[a] # t[b]
    BY <1>1 DEF ToSet
  <2>4. CASE i \in 1 .. Len(s) /\ k > Len(s)
    <3>1. k - Len(s) \in 1 .. Len(t) /\ u[k] = t[k - Len(s)]
      BY <1>1, <2>4
    <3> QED BY <1>1, <1>2, <2>3, <2>4, <3>1
  <2>5. CASE k \in 1 .. Len(s) /\ i > Len(s)
    <3>1. i - Len(s) \in 1 .. Len(t) /\ u[i] = t[i - Len(s)]
      BY <1>1, <2>5
    <3> QED BY <1>1, <1>2, <2>3, <2>5, <3>1
  <2> QED BY <1>1, <2>1, <2>2, <2>4, <2>5
<1> QED BY <1>2 DEF IsInjective, u

(* What the flush loop takes and what it leaves are the queue, split in two. *)
LEMMA SplitInjective ==
  ASSUME NEW S, NEW q \in Seq(S), IsInjective(q)
  PROVE  /\ IsInjective(Taken(q)) /\ IsInjective(Left(q))
         /\ ToSet(Taken(q)) \subseteq ToSet(q)
         /\ ToSet(Left(q)) = ToSet(q) \ ToSet(Taken(q))
<1> DEFINE k == IF Len(q) < FlushBatch THEN Len(q) ELSE FlushBatch
           s == Taken(q)
           t == Left(q)
<1>1. k \in 0 .. Len(q) /\ Len(q) \in Nat /\ k \in Nat
  BY SizesAssumption
<1>2. s = SubSeq(q, 1, k) /\ Len(s) = k
  BY <1>1 DEF Taken
<1>3. DOMAIN q = 1 .. Len(q) /\ DOMAIN s = 1 .. k /\ \A i \in 1 .. k : s[i] = q[i]
  BY <1>1, <1>2
<1>4. t = SubSeq(q, k + 1, Len(q))
  BY <1>2 DEF Left
<1>5. DOMAIN t = 1 .. (Len(q) - k) /\ \A i \in 1 .. (Len(q) - k) : t[i] = q[i + k]
  BY <1>1, <1>4
<1> HIDE DEF k, s, t
<1>6. IsInjective(s)
  BY <1>1, <1>3 DEF IsInjective
<1>7. IsInjective(t)
  <2> SUFFICES ASSUME NEW i \in DOMAIN t, NEW j \in DOMAIN t, t[i] = t[j] PROVE i = j
    BY DEF IsInjective
  <2>1. i + k \in DOMAIN q /\ j + k \in DOMAIN q /\ q[i + k] = q[j + k]
    BY <1>1, <1>3, <1>5
  <2>2. i + k = j + k
    BY <2>1 DEF IsInjective
  <2> QED BY <1>1, <1>5, <2>2
<1>8. ToSet(s) \subseteq ToSet(q)
  BY <1>1, <1>3 DEF ToSet
<1>9. ASSUME NEW x \in ToSet(t) PROVE x \in ToSet(q) \ ToSet(s)
  <2>1. PICK i \in 1 .. (Len(q) - k) : x = q[i + k]
    BY <1>5 DEF ToSet
  <2>2. i + k \in DOMAIN q /\ i + k > k /\ i + k \in Nat
    BY <1>1, <1>3
  <2>3. \A j \in 1 .. k : q[j] # q[i + k]
    BY <1>1, <1>3, <2>2 DEF IsInjective
  <2> QED BY <1>3, <2>1, <2>2, <2>3 DEF ToSet
<1>10. ASSUME NEW x \in ToSet(q) \ ToSet(s) PROVE x \in ToSet(t)
  <2>1. PICK j \in 1 .. Len(q) : x = q[j]
    BY <1>3 DEF ToSet
  <2>2. ~(j \in 1 .. k)
    BY <1>3, <2>1 DEF ToSet
  <2>3. j - k \in 1 .. (Len(q) - k) /\ (j - k) + k = j
    BY <1>1, <2>2
  <2>4. t[j - k] = x
    BY <1>5, <2>1, <2>3
  <2> QED BY <1>5, <2>3, <2>4 DEF ToSet
<1> QED BY <1>6, <1>7, <1>8, <1>9, <1>10 DEF s, t

\* The alerts hold on while none moves.
LEMMA AlertFrame ==
  ASSUME AlertInv, UNCHANGED <<run, sending, alertQueue, batch, written, dropped>>,
         handled \subseteq handled', \A h \in handled' \ handled : h.outcome # "alert",
         consumer' # "down" => consumer # "down"
  PROVE  AlertInv'
<1>1. ToSet(alertQueue)' = ToSet(alertQueue) /\ ToSet(batch)' = ToSet(batch)
  OBVIOUS
<1>2. PlaceInv'
  BY <1>1, PlaceFrame DEF AlertInv
<1> QED BY <1>2 DEF AlertInv, NoRepeats

(* The alert produced joins the queue. *)
LEMMA SendKept ==
  ASSUME TypeInv, AlertInv, SendAlert
  PROVE  AlertInv'
<1> USE DEF kafkaVars, consumerVars, flushVars, reporterVars, modelVars, countVars, storeVars
<1>1. PICK a \in Row : sending = {a}
  BY DEF SendAlert, TypeInv, TypeOK, Shape, SendingShape
<1>2. /\ consumer # "down" /\ sending' = {} /\ alertQueue' = alertQueue \o <<a>>
      /\ UNCHANGED <<run, handled, batch, written, dropped>>
  BY <1>1, SetToSeqOne DEF SendAlert
<1>3. alertQueue \in Seq(Row)
  BY DEF TypeInv, TypeOK
<1>4. alertQueue' = Append(alertQueue, a)
  BY <1>2, <1>3
<1>5. ToSet(alertQueue)' = ToSet(alertQueue) \cup {a}
  BY <1>3, <1>4, ToSetAppend
<1>6. a \notin ToSet(alertQueue)
  <2>1. a \in Places[1]
    BY <1>1, PlacesAre
  <2>2. a \notin Places[2]
    BY <2>1 DEF AlertInv, PlaceInv, OneCopy
  <2> QED BY <2>2, PlacesAre
<1>7. NoRepeats'
  <2>1. IsInjective(alertQueue) /\ IsInjective(batch)
    BY DEF AlertInv, NoRepeats
  <2>2. IsInjective(Append(alertQueue, a))
    BY <1>3, <1>6, <2>1, AppendKeepsInjective
  <2>3. IsInjective(alertQueue')
    BY <1>4, <2>2
  <2> QED BY <1>2, <2>1, <2>3 DEF NoRepeats
<1>8. PlaceInv'
  <2>1. /\ Places'[1] = Places[1] \ {a} /\ Places'[2] = Places[2] \cup {a} /\ Places'[3] = Places[3]
        /\ Places'[4] = Places[4] /\ Places'[5] = Places[5] /\ {a} \subseteq Places[1]
    <3>1. ToSet(batch)' = ToSet(batch)
      BY <1>2
    <3> QED BY <1>1, <1>2, <1>5, <3>1, PlacesAre
  <2>2. Moved({a}, 1, 2)
    BY <2>1 DEF Moved
  <2> QED BY <1>2, <2>2, PlaceMove DEF AlertInv
<1> QED BY <1>7, <1>8 DEF AlertInv

(* The flush loop moves the head of the queue to its batch. *)
LEMMA TakeBatchKept ==
  ASSUME TypeInv, AlertInv, TakeBatch
  PROVE  AlertInv'
<1> USE DEF kafkaVars, consumerVars, flushVars, reporterVars, modelVars, countVars, storeVars
<1>1. /\ consumer # "down" /\ batch = <<>> /\ batch' = Taken(alertQueue) /\ alertQueue' = Left(alertQueue)
      /\ UNCHANGED <<run, handled, consumer, sending, written, dropped>>
  BY DEF TakeBatch, TypeInv, Shape, DownShape
<1>2. alertQueue \in Seq(Row) /\ IsInjective(alertQueue)
  BY DEF TypeInv, TypeOK, AlertInv, NoRepeats
<1> DEFINE X == ToSet(Taken(alertQueue))
<1>3. /\ IsInjective(Taken(alertQueue)) /\ IsInjective(Left(alertQueue))
      /\ X \subseteq ToSet(alertQueue) /\ ToSet(Left(alertQueue)) = ToSet(alertQueue) \ X
  BY <1>2, SplitInjective
<1>4. ToSet(alertQueue)' = ToSet(alertQueue) \ X /\ ToSet(batch)' = X /\ ToSet(batch) = {}
  BY <1>1, <1>3 DEF ToSet
<1>5. NoRepeats'
  BY <1>1, <1>3 DEF NoRepeats
<1>6. PICK Y : Y = X
  OBVIOUS
<1> HIDE DEF X
<1>7. /\ Places'[1] = Places[1] /\ Places'[2] = Places[2] \ Y /\ Places'[3] = Places[3] \cup Y
      /\ Places'[4] = Places[4] /\ Places'[5] = Places[5] /\ Y \subseteq Places[2]
  BY <1>1, <1>3, <1>4, <1>6, PlacesAre
<1>8. Moved(Y, 2, 3)
  BY <1>7 DEF Moved
<1>9. PlaceInv'
  BY <1>1, <1>8, PlaceMove DEF AlertInv
<1> QED BY <1>5, <1>9 DEF AlertInv

(* The batch is acknowledged, or dropped. *)
LEMMA InsertBatchKept ==
  ASSUME TypeInv, AlertInv, InsertBatch
  PROVE  AlertInv'
<1> USE DEF kafkaVars, consumerVars, flushVars, reporterVars, modelVars, countVars, storeVars
<1>1. /\ consumer # "down" /\ batch' = <<>>
      /\ UNCHANGED <<run, handled, consumer, sending, alertQueue>>
      /\ \/ written' = written \cup ToSet(batch) /\ dropped' = dropped
         \/ dropped' = dropped \cup ToSet(batch) /\ written' = written
  BY DEF InsertBatch, InsertAcknowledged, InsertFailed, TypeInv, Shape, DownShape
<1>2. PICK Y : Y = ToSet(batch)
  OBVIOUS
<1>3. \A a \in Y : a.run = run
  <2>1. Y = Places[3]
    BY <1>2, PlacesAre
  <2> QED BY <2>1 DEF AlertInv, PlaceInv, RowsOfAlerts
<1>4. ToSet(batch)' = {} /\ ToSet(alertQueue)' = ToSet(alertQueue)
  BY <1>1 DEF ToSet
<1>5. NoRepeats'
  BY <1>1 DEF AlertInv, NoRepeats, IsInjective
<1>6. run <= run
  BY DEF TypeInv, TypeOK
<1>7. PICK to \in {4, 5} : /\ Places'[1] = Places[1] /\ Places'[2] = Places[2] /\ Places'[3] = Places[3] \ Y
                           /\ Places'[4] = (IF to = 4 THEN Places[4] \cup Y ELSE Places[4])
                           /\ Places'[5] = (IF to = 5 THEN Places[5] \cup Y ELSE Places[5])
                           /\ Y \subseteq Places[3]
  <2>1. CASE written' = written \cup Y /\ dropped' = dropped
    BY <1>1, <1>2, <1>3, <1>4, <2>1, PlacesAre
  <2>2. CASE dropped' = dropped \cup Y /\ written' = written
    BY <1>1, <1>2, <1>3, <1>4, <2>2, PlacesAre
  <2> QED BY <1>1, <1>2, <2>1, <2>2
<1>8. Moved(Y, 3, to)
  BY <1>7 DEF Moved
<1>9. \A a \in (written \cup dropped)' : a \in written \cup dropped \/ a.run <= run
  BY <1>1, <1>2, <1>3, <1>6
<1>10. PlaceInv'
  BY <1>1, <1>8, <1>9, PlaceMove DEF AlertInv
<1> QED BY <1>5, <1>10 DEF AlertInv

(* A run that ends leaves in the two histories what it had there; the next one
   starts with nothing. *)
LEMMA RestartKept ==
  ASSUME TypeInv, OutcomeInv, AlertInv, Crash \/ Shutdown \/ Start
  PROVE  AlertInv'
<1> USE DEF kafkaVars, consumerVars, flushVars, reporterVars, modelVars, countVars, storeVars
<1>0. /\ run \in Nat /\ \A a \in written \cup dropped : a.run \in Nat /\ a.run <= run
      /\ \A h \in handled : h.run \in Nat /\ h.run <= run
  <2>1. run \in Nat /\ \A a \in written \cup dropped : a.run \in Nat
    BY DEF TypeInv, TypeOK, Row
  <2>2. \A h \in handled : h.run \in Nat
    BY DEF TypeInv, TypeOK
  <2> QED BY <2>1, <2>2 DEF AlertInv, PlaceInv, PastRuns, OutcomeInv, OutcomesTaken
<1>1. CASE Crash \/ Shutdown
  <2>1. /\ consumer' = "down" /\ sending' = {} /\ alertQueue' = <<>> /\ batch' = <<>>
        /\ UNCHANGED <<run, handled, dropped, written>>
    BY <1>1 DEF Crash, Shutdown, Stop
  <2>2. ToSet(alertQueue)' = {} /\ ToSet(batch)' = {}
    BY <2>1 DEF ToSet
  <2>3. /\ Places'[1] = {} /\ Places'[2] = {} /\ Places'[3] = {}
        /\ Places'[4] = Places[4] /\ Places'[5] = Places[5]
    BY <2>1, <2>2, PlacesAre
  <2>4. \A i \in 1 .. 5 : Places'[i] \subseteq Places[i]
    BY <2>3
  <2>5. RowsOfAlerts' /\ OneCopy' /\ AlertsFound' /\ PastRuns'
    BY <2>1, <2>4 DEF AlertInv, PlaceInv, RowsOfAlerts, OneCopy, AlertsFound, PastRuns, Raised
  <2>6. NoRepeats'
    BY <2>1 DEF NoRepeats, IsInjective
  <2> QED BY <2>5, <2>6 DEF AlertInv, PlaceInv
<1>2. CASE Start
  <2>1. /\ consumer = "down" /\ run' = run + 1
        /\ UNCHANGED <<handled, sending, alertQueue, batch, dropped, written>>
    BY <1>2 DEF Start
  <2>2. sending = {} /\ alertQueue = <<>> /\ batch = <<>>
    BY <2>1 DEF TypeInv, Shape, SendingShape, DownShape
  <2>3. ToSet(alertQueue)' = {} /\ ToSet(batch)' = {}
    BY <2>1, <2>2 DEF ToSet
  <2>4. \A a \in written \cup dropped : a.run # run' /\ a.run <= run'
    BY <1>0, <2>1
  <2>5. /\ Places'[1] = {} /\ Places'[2] = {} /\ Places'[3] = {} /\ Places'[4] = {} /\ Places'[5] = {}
    BY <2>1, <2>2, <2>3, <2>4, PlacesAre
  <2>6. \A i \in 1 .. 5 : Places'[i] = {}
    BY <2>5
  <2>7. \A h \in handled' : h.run # run'
    BY <1>0, <2>1
  <2>8. RowsOfAlerts' /\ OneCopy' /\ AlertsFound' /\ PastRuns'
    BY <2>1, <2>4, <2>6, <2>7 DEF RowsOfAlerts, OneCopy, AlertsFound, PastRuns
  <2>9. NoRepeats'
    BY <2>1 DEF AlertInv, NoRepeats
  <2> QED BY <2>8, <2>9 DEF AlertInv, PlaceInv
<1> QED BY <1>1, <1>2

\* Every step keeps the alerts in their places.
LEMMA AlertKept ==
  ASSUME TypeInv, OutcomeInv, AlertInv, [Next]_vars
  PROVE  AlertInv'
<1> USE DEF kafkaVars, consumerVars, flushVars, reporterVars, modelVars, countVars, storeVars
<1>1. ASSUME NEW d \in Domain, TakeMessage(d) PROVE AlertInv'
  <2>1. /\ consumer # "down" /\ UNCHANGED <<run, sending, alertQueue, batch, written, dropped>>
        /\ \/ \E m : handled' = Outcomes(m, "malformed")
           \/ handled' = handled
    BY <1>1 DEF TakeMessage
  <2>2. handled \subseteq handled' /\ \A h \in handled' \ handled : h.outcome # "alert"
    BY <2>1 DEF Outcomes
  <2> QED BY <2>1, <2>2, AlertFrame
<1>2. ASSUME NEW job \in busy, RecordScore(job) \/ ScoreRaises(job) PROVE AlertInv'
  <2>1. job.message \in item /\ consumer = "scoring"
    BY <1>2 DEF RecordScore, ScoreRaises, TypeInv, Shape, JobsShape, Awaited
  <2>2. UNCHANGED <<run, alertQueue, batch, written, dropped>>
    BY <1>2 DEF RecordScore, ScoreRaises
  <2>3. ASSUME NEW o \in {"quiet", "error"}, handled' = Outcomes(job.message, o), UNCHANGED sending
        PROVE  AlertInv'
    <3>1. handled \subseteq handled' /\ \A h \in handled' \ handled : h.outcome # "alert"
      BY <2>3 DEF Outcomes
    <3> QED BY <2>1, <2>2, <2>3, <3>1, AlertFrame
  <2>4. ASSUME NEW a, a = [window |-> job.message, run |-> run, ts |-> now], sending' = {a},
               handled' = Outcomes(job.message, "alert")
        PROVE  AlertInv'
    <3>1. sending = {}
      BY <2>1 DEF TypeInv, Shape, SendingShape
    <3>2. PlaceInv'
      BY <2>1, <2>2, <2>4, <3>1, PlaceRaise DEF AlertInv
    <3> QED BY <2>2, <3>2 DEF AlertInv, NoRepeats
  <2> QED BY <1>2, <2>3, <2>4 DEF RecordScore, ScoreRaises
<1>3. ASSUME Environment, ~(Crash \/ Shutdown) PROVE AlertInv'
  <2>1. /\ UNCHANGED <<run, sending, alertQueue, batch, written, dropped, handled>>
        /\ consumer' = consumer \/ consumer = "next"
    BY <1>3 DEF Environment, Publish, Tick, AutoCommit, ClickHouseMerge, ConsumerDies, Merge
  <2> QED BY <2>1, AlertFrame
<1>4. ASSUME \/ WakeReporter \/ SendMetrics \/ InsertMetrics \/ BeginJob
             \/ \E job \in busy : \/ ObserveWindow(job) \/ CheckDrift(job) \/ ReadCounters(job)
                                  \/ ResetCounters(job) \/ CheckRaises(job)
             \/ UNCHANGED vars
      PROVE  AlertInv'
  <2>1. UNCHANGED <<run, sending, alertQueue, batch, written, dropped, handled, consumer>>
    BY <1>4 DEF WakeReporter, SendMetrics, InsertMetrics, BeginJob, ObserveWindow, CheckDrift, ReadCounters,
                ResetCounters, CheckRaises, vars
  <2> QED BY <2>1, AlertFrame
<1>5. CASE Loops
  BY <1>1, <1>4, <1>5, RestartKept, SendKept, TakeBatchKept, InsertBatchKept DEF Loops
<1>6. CASE Worker
  BY <1>2, <1>4, <1>6 DEF Worker
<1>7. CASE Environment
  BY <1>3, <1>7, RestartKept
<1> QED BY <1>4, <1>5, <1>6, <1>7 DEF Next

\* The alerts are in their places always.
LEMMA AlertInvariant == Spec => []AlertInv
<1>1. Init => AlertInv
  <2> SUFFICES ASSUME Init PROVE AlertInv
    OBVIOUS
  <2>1. /\ run = 0 /\ consumer = "down" /\ sending = {} /\ alertQueue = <<>> /\ batch = <<>>
        /\ written = {} /\ dropped = {}
    BY DEF Init
  <2>2. ToSet(alertQueue) = {} /\ ToSet(batch) = {} /\ NoRepeats
    BY <2>1 DEF ToSet, NoRepeats, IsInjective
  <2>3. Places[1] = {} /\ Places[2] = {} /\ Places[3] = {} /\ Places[4] = {} /\ Places[5] = {}
    BY <2>1, <2>2, PlacesAre
  <2>4. \A i \in 1 .. 5 : Places[i] = {}
    BY <2>3
  <2> QED BY <2>1, <2>2, <2>4 DEF AlertInv, PlaceInv, RowsOfAlerts, OneCopy, AlertsFound, PastRuns
<1>2. TypeInv /\ OutcomeInv /\ AlertInv /\ [Next]_vars => AlertInv'
  BY AlertKept
<1> QED BY <1>1, <1>2, TypeInvariant, OutcomeInvariant, PTL DEF Spec

(* Every alert the running process raised is in exactly one place - being produced,
   queued, in the batch, acknowledged or dropped - and queue and batch hold no row
   twice, whatever interleaves with the three loops. *)
THEOREM AlertsConserved == Spec => []AlertConservation
<1>1. TypeInv /\ AlertInv => AlertConservation
  <2> SUFFICES ASSUME TypeInv, AlertInv PROVE AlertConservation
    OBVIOUS
  <2> DEFINE alerts == {h.message : h \in {x \in handled : x.run = run /\ x.outcome = "alert"}}
             places(m) == <<{a \in sending : a.window = m}, {a \in ToSet(alertQueue) : a.window = m},
                            {a \in ToSet(batch) : a.window = m},
                            {a \in written : a.window = m /\ a.run = run},
                            {a \in dropped : a.window = m /\ a.run = run}>>
  <2>1. ASSUME NEW m PROVE \A i \in 1 .. 5 : places(m)[i] = {a \in Places[i] : a.window = m}
    <3>1. /\ places(m)[1] = {a \in Places[1] : a.window = m}
          /\ places(m)[2] = {a \in Places[2] : a.window = m}
          /\ places(m)[3] = {a \in Places[3] : a.window = m}
          /\ places(m)[4] = {a \in Places[4] : a.window = m}
          /\ places(m)[5] = {a \in Places[5] : a.window = m}
      BY PlacesAre
    <3> HIDE DEF places
    <3> QED BY <3>1
  <2> HIDE DEF places
  <2>2. ASSUME consumer # "down", NEW m \in alerts
        PROVE  \E i \in 1 .. 5 : /\ Cardinality(places(m)[i]) = 1
                                 /\ \A j \in (1 .. 5) \ {i} : places(m)[j] = {}
    <3>1. PICK i \in 1 .. 5 : \E a \in Places[i] : a.window = m
      BY <2>2 DEF AlertInv, PlaceInv, AlertsFound
    <3>2. PICK a \in Places[i] : a.window = m
      BY <3>1
    <3>3. {b \in Places[i] : b.window = m} = {a}
      BY <3>2 DEF AlertInv, PlaceInv, OneCopy
    <3>4. \A j \in (1 .. 5) \ {i} : {b \in Places[j] : b.window = m} = {}
      BY <3>2 DEF AlertInv, PlaceInv, OneCopy
    <3>5. Cardinality({a}) = 1
      BY FS_Singleton
    <3>6. Cardinality(places(m)[i]) = 1
      BY <2>1, <3>3, <3>5
    <3>7. \A j \in (1 .. 5) \ {i} : places(m)[j] = {}
      BY <2>1, <3>4
    <3> QED BY <3>6, <3>7
  <2>3. IsInjective(alertQueue \o batch)
    <3>1. alertQueue \in Seq(Row) /\ batch \in Seq(Row)
      BY DEF TypeInv, TypeOK
    <3>2. ToSet(alertQueue) \cap ToSet(batch) = {}
      <4>1. \A a \in Places[2], b \in Places[3] : a # b
        BY DEF AlertInv, PlaceInv, OneCopy
      <4> QED BY <4>1, PlacesAre
    <3> QED BY <3>1, <3>2, ConcatInjective DEF AlertInv, NoRepeats
  <2> QED BY <2>2, <2>3 DEF AlertConservation, places
<1> QED BY <1>1, TypeInvariant, AlertInvariant, PTL
-----------------------------------------------------------------------------
(* The buffer is the tail of what was taken; sinceRetrain says how long ago the fit
   was made, of the buffer of that moment; `tries` are the places fits raised at. *)
RollingOf(m, obs, tries) ==
  /\ m.buffer = LastOf(obs, BufferSize)
  /\ tries \subseteq 1 .. Len(obs)
  /\ m.fitted = <<>> => MinBuffer .. Len(obs) \subseteq tries
  /\ m.fitted # <<>> =>
       /\ m.sinceRetrain <= Len(obs) - MinBuffer
       /\ m.fitted = BufferAt(obs, Len(obs) - m.sinceRetrain)
       /\ ((Len(obs) - m.sinceRetrain) + RetrainEvery) .. Len(obs) \subseteq tries

ModelOf(m, taken, stopped) ==
  /\ \A r \in Detector : RollingOf(m[r], taken[r], stopped[r])
  /\ stopped.either \subseteq 1 .. Len(taken.iso)
  /\ BaselineIsFirst(m.baseline, taken.iso, stopped.either)

ModelInv == \A d \in Domain : ModelOf(models[d], observed[d], raised[d])

\* Sequences with the same elements are the same.
LEMMA SameSequence ==
  ASSUME NEW S, NEW s \in Seq(S), NEW t \in Seq(S), Len(s) = Len(t),
         \A i \in 1 .. Len(s) : s[i] = t[i]
  PROVE  s = t
OBVIOUS

\* The tail of a sequence, by length.
LEMMA LastOfLength ==
  ASSUME NEW S, NEW s \in Seq(S), NEW n \in Nat
  PROVE  /\ LastOf(s, n) \in Seq(S)
         /\ Len(s) <= n => LastOf(s, n) = s
         /\ Len(s) > n => /\ Len(LastOf(s, n)) = n
                          /\ \A i \in 1 .. n : LastOf(s, n)[i] = s[Len(s) - n + i]
<1>1. Len(s) \in Nat
  OBVIOUS
<1>2. CASE Len(s) <= n
  <2>0. (IF Len(s) > n THEN Len(s) - n ELSE 0) + 1 = 1 /\ ~(Len(s) > n)
    BY <1>1, <1>2
  <2>1. LastOf(s, n) = SubSeq(s, 1, Len(s))
    BY <2>0 DEF LastOf
  <2>2. SubSeq(s, 1, Len(s)) = s
    OBVIOUS
  <2>3. LastOf(s, n) = s
    BY <2>1, <2>2
  <2> QED BY <2>0, <2>3
<1>3. CASE Len(s) > n
  <2>1. LastOf(s, n) = SubSeq(s, Len(s) - n + 1, Len(s)) /\ Len(s) - n + 1 \in 1 .. Len(s) + 1
    BY <1>1, <1>3 DEF LastOf
  <2>2. /\ SubSeq(s, Len(s) - n + 1, Len(s)) \in Seq(S)
        /\ Len(SubSeq(s, Len(s) - n + 1, Len(s))) = n
        /\ \A i \in 1 .. n : SubSeq(s, Len(s) - n + 1, Len(s))[i] = s[Len(s) - n + i]
    BY <1>1, <1>3, <2>1
  <2> QED BY <1>1, <1>3, <2>1, <2>2
<1> QED BY <1>1, <1>2, <1>3

(* A deque of maxlen BufferSize holds the last BufferSize of what was appended. *)
LEMMA RolledIsLast ==
  ASSUME NEW obs \in Seq(Nat), NEW w \in Nat
  PROVE  Rolled(LastOf(obs, BufferSize), w) = LastOf(Append(obs, w), BufferSize)
<1> DEFINE L == Len(obs)
<1>1. BufferSize \in Nat \ {0} /\ L \in Nat
  BY SizesAssumption
<1>0. Append(obs, w) \in Seq(Nat)
  OBVIOUS
<1>2. PICK t \in Seq(Nat) : t = Append(obs, w)
  BY <1>0
<1>3. Len(t) = L + 1 /\ t[L + 1] = w /\ \A i \in 1 .. L : t[i] = obs[i]
  BY <1>2
<1>4. CASE L < BufferSize
  <2>1. LastOf(obs, BufferSize) = obs /\ LastOf(t, BufferSize) = t
    <3>1. Len(obs) <= BufferSize /\ Len(t) <= BufferSize /\ BufferSize \in Nat
      BY <1>1, <1>3, <1>4
    <3> QED BY <3>1, LastOfLength
  <2> QED BY <1>2, <1>4, <2>1 DEF Rolled
<1>5. CASE L >= BufferSize
  <2>1. PICK b \in Seq(Nat) : b = LastOf(obs, BufferSize)
    BY <1>1, LastOfLength
  <2>2. Len(b) = BufferSize /\ \A i \in 1 .. BufferSize : b[i] = obs[L - BufferSize + i]
    <3>1. CASE L = BufferSize
      <4>1. b = obs
        BY <1>1, <2>1, <3>1, LastOfLength
      <4> QED BY <1>1, <3>1, <4>1
    <3>2. CASE L > BufferSize
      BY <1>1, <2>1, <3>2, LastOfLength
    <3> QED BY <1>1, <1>5, <3>1, <3>2
  <2>3. PICK c \in Seq(Nat) : c = LastOf(t, BufferSize)
    BY <1>1, LastOfLength
  <2>4. Len(c) = BufferSize /\ \A i \in 1 .. BufferSize : c[i] = t[Len(t) - BufferSize + i]
    <3>1. Len(t) > BufferSize
      BY <1>1, <1>3, <1>5
    <3> QED BY <1>1, <2>3, <3>1, LastOfLength, ZenonT(30)
  <2>5. PICK a \in Seq(Nat) : a = Append(Tail(b), w)
    <3>1. b # <<>>
      BY <1>1, <2>2
    <3>2. Tail(b) \in Seq(Nat)
      BY <3>1
    <3>3. Append(Tail(b), w) \in Seq(Nat)
      BY <3>2
    <3> QED BY <3>3
  <2>6. /\ Len(a) = BufferSize /\ a[BufferSize] = w
        /\ \A i \in 1 .. BufferSize - 1 : a[i] = b[i + 1]
    BY <1>1, <2>2, <2>5
  <2>7. \A i \in 1 .. BufferSize : a[i] = c[i]
    <3> TAKE i \in 1 .. BufferSize
    <3>1. CASE i = BufferSize
      <4>1. Len(t) - BufferSize + i = L + 1
        BY <1>1, <1>3, <3>1
      <4> QED BY <1>3, <2>4, <2>6, <3>1, <4>1
    <3>2. CASE i # BufferSize
      <4>1. /\ i \in 1 .. BufferSize - 1 /\ i + 1 \in 1 .. BufferSize
            /\ L - BufferSize + (i + 1) = Len(t) - BufferSize + i
            /\ Len(t) - BufferSize + i \in 1 .. L
        BY <1>1, <1>3, <1>5, <3>2, SMTT(30)
      <4> QED BY <1>3, <2>2, <2>4, <2>6, <4>1
    <3> QED BY <3>1, <3>2
  <2>8. a = c
    BY <2>4, <2>6, <2>7, SameSequence
  <2>9. Rolled(b, w) = a
    BY <1>1, <2>2, <2>5 DEF Rolled
  <2> QED BY <1>2, <2>1, <2>3, <2>8, <2>9
<1> QED BY <1>1, <1>4, <1>5

\* A prefix of a sequence does not see what is appended.
LEMMA PrefixOfAppend ==
  ASSUME NEW s \in Seq(Nat), NEW w \in Nat, NEW k \in 0 .. Len(s)
  PROVE  SubSeq(Append(s, w), 1, k) = SubSeq(s, 1, k)
<1>1. Append(s, w) \in Seq(Nat) /\ Len(Append(s, w)) = Len(s) + 1 /\ Len(s) \in Nat /\ k \in Nat
  OBVIOUS
<1>2. PICK t \in Seq(Nat) : t = Append(s, w)
  BY <1>1
<1>3. Len(t) = Len(s) + 1 /\ \A i \in 1 .. Len(s) : t[i] = s[i]
  BY <1>2
<1>4. PICK a \in Seq(Nat) : a = SubSeq(t, 1, k)
  <2>1. SubSeq(t, 1, k) \in Seq(Nat)
    BY <1>1, <1>3
  <2> QED BY <2>1
<1>5. PICK b \in Seq(Nat) : b = SubSeq(s, 1, k)
  <2>1. SubSeq(s, 1, k) \in Seq(Nat)
    BY <1>1
  <2> QED BY <2>1
<1>6. Len(a) = k /\ \A i \in 1 .. k : a[i] = t[i]
  BY <1>1, <1>3, <1>4
<1>7. Len(b) = k /\ \A i \in 1 .. k : b[i] = s[i]
  BY <1>1, <1>5
<1>8. a = b
  <2>1. \A i \in 1 .. k : i \in 1 .. Len(s)
    BY <1>1
  <2>2. \A i \in 1 .. Len(a) : a[i] = b[i]
    BY <1>3, <1>6, <1>7, <2>1
  <2> QED BY <1>6, <1>7, <2>2, SameSequence
<1> QED BY <1>2, <1>4, <1>5, <1>8

\* What a buffer was stays that when a window is appended.
LEMMA BufferStays ==
  ASSUME NEW obs \in Seq(Nat), NEW w \in Nat, NEW k \in 0 .. Len(obs)
  PROVE  BufferAt(Append(obs, w), k) = BufferAt(obs, k)
BY PrefixOfAppend DEF BufferAt

\* The buffer now.
LEMMA BufferNow ==
  ASSUME NEW obs \in Seq(Nat)
  PROVE  BufferAt(obs, Len(obs)) = LastOf(obs, BufferSize)
<1>1. SubSeq(obs, 1, Len(obs)) = obs
  OBVIOUS
<1> QED BY <1>1 DEF BufferAt

(* Numbers: where a window comes to stand, and how the age of a fit counts. *)
LEMMA AgeOfFit ==
  ASSUME NEW l \in Nat, NEW age \in Nat, NEW least \in Nat \ {0}, NEW every \in Nat \ {0},
         age <= l - least
  PROVE  /\ (l + 1) - (age + 1) = l - age /\ age + 1 <= (l + 1) - least
         /\ l - age \in least .. l /\ l - age \in 0 .. l
         /\ ((l - age) + every) .. (l + 1) \subseteq (((l - age) + every) .. l) \cup {l + 1}
         /\ age + 1 < every => ((l - age) + every) .. (l + 1) = {}
<1>1. PICK k : k = l - age
  OBVIOUS
<1>2. k \in least .. l /\ k \in 0 .. l /\ age + 1 <= (l + 1) - least /\ (l + 1) - (age + 1) = k
  BY <1>1
<1>3. (k + every) .. (l + 1) \subseteq ((k + every) .. l) \cup {l + 1}
  BY <1>2
<1>4. ASSUME age + 1 < every PROVE (k + every) .. (l + 1) = {}
  <2>1. k + every > l + 1
    BY <1>1, <1>4
  <2> QED BY <1>2, <2>1
<1> QED BY <1>1, <1>2, <1>3, <1>4

\* Observing a window keeps a rolling detector in step with what it took.
LEMMA RollingFollows ==
  ASSUME NEW m \in Rolling, NEW obs \in Seq(Nat), NEW w \in Nat, NEW raises \in BOOLEAN,
         NEW tries, RollingOf(m, obs, tries)
  PROVE  RollingOf(ObserveRolling(m, w, raises), Append(obs, w),
                   IF raises THEN tries \cup {Len(obs) + 1} ELSE tries)
<1>1. /\ BufferSize \in Nat \ {0} /\ MinBuffer \in Nat \ {0} /\ RetrainEvery \in Nat \ {0}
      /\ MinBuffer <= BufferSize
  BY SizesAssumption
<1>2. m.buffer \in Seq(Nat) /\ m.sinceRetrain \in Nat /\ m.fitted \in Seq(Nat)
  BY DEF Rolling
<1>3. PICK l \in Nat : l = Len(obs)
  OBVIOUS
<1>4. PICK t \in Seq(Nat) : t = Append(obs, w) /\ Len(t) = l + 1
  <2>1. Append(obs, w) \in Seq(Nat) /\ Len(Append(obs, w)) = l + 1
    BY <1>3
  <2> QED BY <2>1
<1>5. PICK more : more = IF raises THEN tries \cup {l + 1} ELSE tries
  OBVIOUS
<1>6. tries \subseteq 1 .. l /\ more \subseteq 1 .. (l + 1) /\ tries \subseteq more
  <2>1. tries \subseteq 1 .. l
    BY <1>3 DEF RollingOf
  <2>2. 1 .. l \subseteq 1 .. (l + 1) /\ l + 1 \in 1 .. (l + 1)
    OBVIOUS
  <2> QED BY <1>5, <2>1, <2>2
<1>7. PICK buffer : buffer = Rolled(m.buffer, w)
  OBVIOUS
<1>8. buffer = LastOf(t, BufferSize)
  BY <1>4, <1>7, RolledIsLast DEF RollingOf
<1>9. /\ l + 1 <= BufferSize => Len(buffer) = l + 1
      /\ l + 1 > BufferSize => Len(buffer) = BufferSize
  BY <1>1, <1>4, <1>8, LastOfLength
<1>10. (Len(buffer) >= MinBuffer <=> l + 1 >= MinBuffer) /\ Len(buffer) \in Nat
  BY <1>1, <1>9
<1>11. PICK n : n = ObserveRolling(m, w, raises)
  OBVIOUS
<1>12. PICK fits \in BOOLEAN : fits = (MustRetrain(m, buffer) /\ ~raises)
  OBVIOUS
<1>13. /\ n.buffer = buffer
       /\ n.sinceRetrain = (IF fits THEN 0 ELSE m.sinceRetrain + 1)
       /\ n.fitted = (IF fits THEN buffer ELSE m.fitted)
  BY <1>7, <1>11, <1>12 DEF ObserveRolling
<1>14. fits <=> l + 1 >= MinBuffer /\ (m.fitted = <<>> \/ m.sinceRetrain + 1 >= RetrainEvery) /\ ~raises
  BY <1>10, <1>12 DEF MustRetrain
<1>15. CASE fits
  <2>1. n.sinceRetrain = 0 /\ n.fitted = buffer /\ l + 1 >= MinBuffer
    BY <1>13, <1>14, <1>15
  <2>2. buffer # <<>>
    <3>1. Len(buffer) # 0
      BY <1>1, <1>10, <2>1
    <3> QED BY <3>1
  <2>3. (l + 1) - 0 = l + 1 /\ 0 <= (l + 1) - MinBuffer /\ ((l + 1) + RetrainEvery) .. (l + 1) = {}
    BY <1>1, <2>1
  <2>4. n.fitted = BufferAt(t, (l + 1) - n.sinceRetrain)
    BY <1>4, <1>8, <2>1, <2>3, BufferNow
  <2> QED BY <1>3, <1>4, <1>5, <1>6, <1>8, <1>11, <1>13, <2>1, <2>2, <2>3, <2>4 DEF RollingOf
<1>16. CASE ~fits /\ m.fitted = <<>>
  <2>1. n.fitted = <<>>
    BY <1>13, <1>16
  <2>2. MinBuffer .. l \subseteq tries
    BY <1>3, <1>16 DEF RollingOf
  <2>3. MinBuffer .. (l + 1) \subseteq more
    <3>1. CASE raises
      <4>1. MinBuffer .. (l + 1) \subseteq (MinBuffer .. l) \cup {l + 1}
        BY <1>1
      <4> QED BY <1>5, <2>2, <3>1, <4>1
    <3>2. CASE ~raises
      <4>1. l + 1 < MinBuffer
        BY <1>1, <1>14, <1>16, <3>2
      <4>2. MinBuffer .. (l + 1) = {}
        BY <1>1, <4>1
      <4> QED BY <4>2
    <3> QED BY <3>1, <3>2
  <2> QED BY <1>3, <1>4, <1>5, <1>6, <1>8, <1>11, <1>13, <2>1, <2>3 DEF RollingOf
<1>17. CASE ~fits /\ m.fitted # <<>>
  <2>1. n.fitted = m.fitted /\ n.sinceRetrain = m.sinceRetrain + 1
    BY <1>13, <1>17
  <2>2. PICK age \in Nat : age = m.sinceRetrain
    BY <1>2
  <2>3. /\ age <= l - MinBuffer /\ m.fitted = BufferAt(obs, l - age)
        /\ ((l - age) + RetrainEvery) .. l \subseteq tries
    BY <1>3, <1>17, <2>2 DEF RollingOf
  <2>4. /\ (l + 1) - (age + 1) = l - age /\ age + 1 <= (l + 1) - MinBuffer
        /\ l - age \in MinBuffer .. l /\ l - age \in 0 .. l
        /\ ((l - age) + RetrainEvery) .. (l + 1) \subseteq (((l - age) + RetrainEvery) .. l) \cup {l + 1}
        /\ age + 1 < RetrainEvery => ((l - age) + RetrainEvery) .. (l + 1) = {}
    BY <1>1, <2>3, AgeOfFit
  <2>5. n.fitted = BufferAt(t, (l + 1) - n.sinceRetrain)
    <3>1. BufferAt(t, l - age) = BufferAt(obs, l - age)
      BY <1>3, <1>4, <2>4, BufferStays
    <3> QED BY <2>1, <2>2, <2>3, <2>4, <3>1
  <2>6. ((l - age) + RetrainEvery) .. (l + 1) \subseteq more
    <3>1. CASE raises
      BY <1>5, <2>3, <2>4, <3>1
    <3>2. CASE ~raises
      <4>1. l + 1 >= MinBuffer
        BY <1>1, <2>3
      <4>2. ~(age + 1 >= RetrainEvery)
        BY <1>14, <1>17, <2>2, <3>2, <4>1
      <4>3. age + 1 < RetrainEvery
        BY <1>1, <4>2
      <4> QED BY <2>4, <4>3
    <3> QED BY <3>1, <3>2
  <2>7. ((l + 1) - n.sinceRetrain) + RetrainEvery = (l - age) + RetrainEvery
    BY <2>1, <2>2, <2>4
  <2>8. n.sinceRetrain <= (l + 1) - MinBuffer
    BY <2>1, <2>2, <2>4
  <2>9. n.fitted # <<>>
    BY <1>17, <2>1
  <2>10. RollingOf(n, t, more)
    BY <1>4, <1>6, <1>8, <1>13, <2>5, <2>6, <2>7, <2>8, <2>9 DEF RollingOf
  <2> QED BY <1>3, <1>4, <1>5, <1>11, <2>10
<1> QED BY <1>15, <1>16, <1>17

\* The baseline keeps being that of the first window no fit stopped.
LEMMA BaselineFollows ==
  ASSUME NEW b, NEW iso \in Rolling, NEW obs \in Seq(Nat), NEW w \in Nat, NEW tries, NEW stopped,
         NEW raises \in BOOLEAN,
         BaselineIsFirst(b, obs, stopped), stopped \subseteq 1 .. Len(obs),
         tries \subseteq 1 .. Len(obs),
         ~raises => RollingOf(iso, Append(obs, w), tries)
  PROVE  BaselineIsFirst(IF ~raises /\ b = <<>> /\ iso.fitted # <<>> THEN iso.buffer ELSE b,
                         Append(obs, w), IF raises THEN stopped \cup {Len(obs) + 1} ELSE stopped)
<1>1. MinBuffer \in Nat \ {0} /\ BufferSize \in Nat \ {0}
  BY SizesAssumption
<1>2. PICK l \in Nat : l = Len(obs)
  OBVIOUS
<1>3. PICK t \in Seq(Nat) : t = Append(obs, w) /\ Len(t) = l + 1
  <2>1. Append(obs, w) \in Seq(Nat) /\ Len(Append(obs, w)) = l + 1
    BY <1>2
  <2> QED BY <2>1
<1>4. PICK more : more = IF raises THEN stopped \cup {l + 1} ELSE stopped
  OBVIOUS
<1>5. PICK n : n = IF ~raises /\ b = <<>> /\ iso.fitted # <<>> THEN iso.buffer ELSE b
  OBVIOUS
<1>6. CASE b = <<>> /\ raises
  <2>1. n = <<>> /\ MinBuffer .. l \subseteq stopped
    BY <1>2, <1>5, <1>6 DEF BaselineIsFirst
  <2>2. MinBuffer .. (l + 1) \subseteq (MinBuffer .. l) \cup {l + 1}
    BY <1>1
  <2>3. MinBuffer .. (l + 1) \subseteq more
    BY <1>4, <1>6, <2>1, <2>2
  <2> QED BY <1>2, <1>3, <1>4, <1>5, <2>1, <2>3 DEF BaselineIsFirst
<1>7. CASE b = <<>> /\ ~raises
  <2>1. RollingOf(iso, t, tries) /\ MinBuffer .. l \subseteq stopped /\ more = stopped
    BY <1>2, <1>3, <1>4, <1>7 DEF BaselineIsFirst
  <2>2. l + 1 \notin tries /\ l + 1 \notin stopped
    <3>1. l + 1 \notin 1 .. l
      OBVIOUS
    <3> QED BY <1>2, <3>1
  <2>3. CASE iso.fitted = <<>>
    <3>1. MinBuffer .. (l + 1) \subseteq tries
      BY <1>3, <2>1, <2>3 DEF RollingOf
    <3>2. l + 1 < MinBuffer
      <4>1. l + 1 >= MinBuffer => l + 1 \in MinBuffer .. (l + 1)
        BY <1>1
      <4> QED BY <1>1, <2>2, <3>1, <4>1
    <3>3. MinBuffer .. (l + 1) = {}
      BY <1>1, <3>2
    <3>4. n = <<>>
      BY <1>5, <1>7, <2>3
    <3>5. BaselineIsFirst(n, t, more)
      BY <1>3, <3>3, <3>4 DEF BaselineIsFirst
    <3> QED BY <1>2, <1>3, <1>4, <1>5, <3>5
  <2>4. CASE iso.fitted # <<>>
    <3>1. n = iso.buffer /\ iso.buffer = LastOf(t, BufferSize)
      BY <1>5, <1>7, <2>1, <2>4 DEF RollingOf
    <3>2. n = BufferAt(t, l + 1)
      BY <1>3, <3>1, BufferNow
    <3>3. iso.sinceRetrain \in Nat /\ iso.sinceRetrain <= (l + 1) - MinBuffer
      BY <1>3, <2>1, <2>4 DEF RollingOf, Rolling
    <3>4. l + 1 \in (MinBuffer .. (l + 1)) \ more /\ (l + 1) - 1 = l
      <4>1. l + 1 >= MinBuffer
        BY <1>1, <3>3
      <4> QED BY <1>1, <2>1, <2>2, <4>1
    <3>5. MinBuffer .. ((l + 1) - 1) \subseteq more
      BY <2>1, <3>4
    <3>6. n # <<>>
      <4>1. Len(t) <= BufferSize => LastOf(t, BufferSize) = t
        BY <1>1, <1>3, LastOfLength
      <4>2. Len(t) > BufferSize => Len(LastOf(t, BufferSize)) = BufferSize
        BY <1>1, <1>3, LastOfLength
      <4>3. Len(n) # 0
        BY <1>1, <1>3, <3>1, <4>1, <4>2
      <4> QED BY <4>3
    <3>7. \E k \in (MinBuffer .. Len(t)) \ more :
            n = BufferAt(t, k) /\ MinBuffer .. (k - 1) \subseteq more
      BY <1>3, <3>2, <3>4, <3>5
    <3>8. BaselineIsFirst(n, t, more)
      BY <3>6, <3>7 DEF BaselineIsFirst
    <3> QED BY <1>2, <1>3, <1>4, <1>5, <3>8
  <2> QED BY <2>3, <2>4
<1>8. CASE b # <<>>
  <2>1. n = b
    BY <1>5, <1>8
  <2>2. PICK k \in (MinBuffer .. l) \ stopped :
          b = BufferAt(obs, k) /\ MinBuffer .. (k - 1) \subseteq stopped
    BY <1>2, <1>8 DEF BaselineIsFirst
  <2>3. k \in 0 .. l /\ k \in MinBuffer .. (l + 1) /\ k # l + 1
    BY <1>1, <2>2
  <2>4. BufferAt(t, k) = BufferAt(obs, k)
    BY <1>2, <1>3, <2>3, BufferStays
  <2>5. k \notin more /\ stopped \subseteq more
    BY <1>4, <2>2, <2>3
  <2>6. \E j \in (MinBuffer .. Len(t)) \ more :
          n = BufferAt(t, j) /\ MinBuffer .. (j - 1) \subseteq more
    BY <1>3, <2>1, <2>2, <2>3, <2>4, <2>5
  <2>7. BaselineIsFirst(n, t, more)
    BY <1>8, <2>1, <2>6 DEF BaselineIsFirst
  <2> QED BY <1>2, <1>3, <1>4, <1>5, <2>7
<1> QED BY <1>6, <1>7, <1>8

\* Observing a window, whether a fit raises or not, keeps a model in step.
LEMMA ObserveModel ==
  ASSUME NEW m \in Model, NEW taken \in TakenBy, NEW stopped \in RaisedAt, NEW w \in Nat,
         NEW raiser \in Detector \cup {"none"}, ModelOf(m, taken, stopped),
         NEW more \in TakenBy, NEW failed \in RaisedAt,
         more.iso = Append(taken.iso, w),
         more.ae = IF raiser = "iso" THEN taken.ae ELSE Append(taken.ae, w),
         failed.iso = IF raiser = "iso" THEN stopped.iso \cup {Len(taken.iso) + 1} ELSE stopped.iso,
         failed.ae = IF raiser = "ae" THEN stopped.ae \cup {Len(taken.ae) + 1} ELSE stopped.ae,
         failed.either = IF raiser # "none" THEN stopped.either \cup {Len(taken.iso) + 1}
                         ELSE stopped.either
  PROVE  ModelOf(Observe(m, w, raiser), more, failed)
<1>1. /\ m.iso \in Rolling /\ m.ae \in Rolling
      /\ taken.iso \in Seq(Nat) /\ taken.ae \in Seq(Nat)
  BY DEF Model, TakenBy, Detector
<1>2. /\ RollingOf(m.iso, taken.iso, stopped.iso) /\ RollingOf(m.ae, taken.ae, stopped.ae)
      /\ stopped.either \subseteq 1 .. Len(taken.iso)
      /\ BaselineIsFirst(m.baseline, taken.iso, stopped.either)
  BY DEF ModelOf, Detector
<1>3. PICK iso \in Rolling : iso = ObserveRolling(m.iso, w, raiser = "iso")
  BY <1>1, RollingTyped
<1>4. RollingOf(iso, more.iso, failed.iso)
  <2>1. PICK q \in BOOLEAN : q = (raiser = "iso")
    OBVIOUS
  <2>2. RollingOf(ObserveRolling(m.iso, w, q), Append(taken.iso, w),
                  IF q THEN stopped.iso \cup {Len(taken.iso) + 1} ELSE stopped.iso)
    BY <1>1, <1>2, RollingFollows
  <2>3. failed.iso = IF q THEN stopped.iso \cup {Len(taken.iso) + 1} ELSE stopped.iso
    BY <2>1
  <2> QED BY <1>3, <2>1, <2>2, <2>3
<1>5. PICK n : n = Observe(m, w, raiser)
  OBVIOUS
<1>6. n.iso = iso
  BY <1>3, <1>5 DEF Observe
<1>7. RollingOf(n.ae, more.ae, failed.ae)
  <2>1. CASE raiser = "iso"
    <3>1. n.ae = m.ae /\ more.ae = taken.ae /\ failed.ae = stopped.ae
      BY <1>5, <2>1 DEF Observe
    <3> QED BY <1>2, <3>1
  <2>2. CASE raiser # "iso"
    <3>1. n.ae = ObserveRolling(m.ae, w, raiser = "ae") /\ more.ae = Append(taken.ae, w)
      BY <1>5, <2>2 DEF Observe
    <3>2. PICK q \in BOOLEAN : q = (raiser = "ae")
      OBVIOUS
    <3>3. RollingOf(ObserveRolling(m.ae, w, q), Append(taken.ae, w),
                    IF q THEN stopped.ae \cup {Len(taken.ae) + 1} ELSE stopped.ae)
      BY <1>1, <1>2, RollingFollows
    <3>4. failed.ae = IF q THEN stopped.ae \cup {Len(taken.ae) + 1} ELSE stopped.ae
      BY <3>2
    <3> QED BY <3>1, <3>2, <3>3, <3>4
  <2> QED BY <2>1, <2>2
<1>8. PICK raises \in BOOLEAN : raises = (raiser # "none")
  OBVIOUS
<1>9. n.baseline = IF ~raises /\ m.baseline = <<>> /\ iso.fitted # <<>> THEN iso.buffer ELSE m.baseline
  BY <1>3, <1>5, <1>8 DEF Observe, Baseline
<1>10. failed.either = IF raises THEN stopped.either \cup {Len(taken.iso) + 1} ELSE stopped.either
  BY <1>8
<1>11. ~raises => RollingOf(iso, Append(taken.iso, w), stopped.iso)
  BY <1>4, <1>8
<1>12. stopped.iso \subseteq 1 .. Len(taken.iso)
  BY <1>2 DEF RollingOf
<1>13. BaselineIsFirst(n.baseline, more.iso, failed.either)
  <2>1. BaselineIsFirst(IF ~raises /\ m.baseline = <<>> /\ iso.fitted # <<>> THEN iso.buffer
                        ELSE m.baseline, Append(taken.iso, w),
                        IF raises THEN stopped.either \cup {Len(taken.iso) + 1} ELSE stopped.either)
    BY <1>1, <1>2, <1>11, <1>12, BaselineFollows
  <2>2. PICK b : b = IF ~raises /\ m.baseline = <<>> /\ iso.fitted # <<>> THEN iso.buffer
                     ELSE m.baseline
    OBVIOUS
  <2>3. PICK more1 : more1 = IF raises THEN stopped.either \cup {Len(taken.iso) + 1}
                             ELSE stopped.either
    OBVIOUS
  <2>4. BaselineIsFirst(b, Append(taken.iso, w), more1)
    BY <2>1, <2>2, <2>3
  <2>5. n.baseline = b /\ failed.either = more1
    BY <1>9, <1>10, <2>2, <2>3
  <2> QED BY <2>4, <2>5
<1>14. failed.either \subseteq 1 .. Len(more.iso)
  <2>1. PICK l \in Nat : l = Len(taken.iso)
    BY <1>1
  <2>2. Len(more.iso) = l + 1
    BY <1>1, <2>1
  <2>3. 1 .. l \subseteq 1 .. (l + 1) /\ l + 1 \in 1 .. (l + 1)
    OBVIOUS
  <2> QED BY <1>2, <1>10, <2>1, <2>2, <2>3
<1>15. ModelOf(n, more, failed)
  BY <1>4, <1>6, <1>7, <1>13, <1>14 DEF ModelOf, Detector
<1> QED BY <1>5, <1>15

\* The worker's step on a window keeps all models in step.
LEMMA ObservedKept ==
  ASSUME TypeInv, ModelInv, NEW e \in Domain, NEW w \in Nat,
         NEW raiser \in Detector \cup {"none"}, Observed(e, w, raiser)
  PROVE  ModelInv'
<1>1. /\ models \in [Domain -> Model] /\ observed \in [Domain -> TakenBy] /\ raised \in [Domain -> RaisedAt]
      /\ models' \in [Domain -> Model] /\ observed' \in [Domain -> TakenBy] /\ raised' \in [Domain -> RaisedAt]
  BY ObservedTyped DEF TypeInv, TypeOK
<1>2. /\ models'[e] = Observe(models[e], w, raiser)
      /\ \A d \in Domain \ {e} : /\ models'[d] = models[d] /\ observed'[d] = observed[d]
                                 /\ raised'[d] = raised[d]
  BY <1>1 DEF Observed
<1>3. PICK taken \in TakenBy : taken = observed[e]
  BY <1>1
<1>4. PICK stopped \in RaisedAt : stopped = raised[e]
  BY <1>1
<1>5. PICK more \in TakenBy : more = observed'[e]
  BY <1>1
<1>6. PICK failed \in RaisedAt : failed = raised'[e]
  BY <1>1
<1>7. /\ more.iso = Append(taken.iso, w)
      /\ more.ae = IF raiser = "iso" THEN taken.ae ELSE Append(taken.ae, w)
  BY <1>1, <1>3, <1>5 DEF Observed, Detector
<1>8. /\ failed.iso = IF raiser = "iso" THEN stopped.iso \cup {Len(taken.iso) + 1} ELSE stopped.iso
      /\ failed.ae = IF raiser = "ae" THEN stopped.ae \cup {Len(taken.ae) + 1} ELSE stopped.ae
      /\ failed.either = IF raiser # "none" THEN stopped.either \cup {Len(taken.iso) + 1}
                         ELSE stopped.either
  BY <1>1, <1>3, <1>4, <1>6 DEF Observed, Detector
<1>9. PICK m \in Model : m = models[e]
  BY <1>1
<1>10. ModelOf(m, taken, stopped)
  BY <1>3, <1>4, <1>9 DEF ModelInv
<1>11. ModelOf(Observe(m, w, raiser), more, failed)
  BY <1>7, <1>8, <1>10, ObserveModel
<1>12. ModelOf(models'[e], observed'[e], raised'[e])
  BY <1>2, <1>5, <1>6, <1>9, <1>11
<1>13. \A d \in Domain \ {e} : ModelOf(models[d], observed[d], raised[d])
  BY DEF ModelInv
<1>14. \A d \in Domain : ModelOf(models'[d], observed'[d], raised'[d])
  BY <1>2, <1>12, <1>13
<1> QED BY <1>14 DEF ModelInv, ModelOf

\* A model that has taken nothing.
LEMMA EmptyModelOf ==
  ASSUME NEW taken, NEW stopped, taken.iso = <<>>, taken.ae = <<>>,
         stopped.iso = {}, stopped.ae = {}, stopped.either = {}
  PROVE  ModelOf(EmptyModel, taken, stopped)
<1>1. BufferSize \in Nat /\ MinBuffer \in Nat \ {0}
  BY SizesAssumption
<1>2. PICK s \in Seq(Nat) : s = <<>>
  <2>1. <<>> \in Seq(Nat)
    OBVIOUS
  <2> QED BY <2>1
<1>3. Len(s) = 0
  BY <1>2
<1>4. Len(s) <= BufferSize /\ MinBuffer .. Len(s) = {}
  BY <1>1, <1>3
<1>5. LastOf(s, BufferSize) = s
  BY <1>1, <1>4, LastOfLength
<1>6. RollingOf(EmptyRolling, s, {})
  BY <1>2, <1>4, <1>5 DEF RollingOf, EmptyRolling
<1>7. BaselineIsFirst(<<>>, s, {})
  BY <1>4 DEF BaselineIsFirst
<1>8. /\ EmptyModel.iso = EmptyRolling /\ EmptyModel.ae = EmptyRolling
      /\ EmptyModel.baseline = <<>>
  BY DEF EmptyModel
<1>9. \A r \in Detector : RollingOf(EmptyModel[r], taken[r], stopped[r])
  BY <1>2, <1>6, <1>8 DEF Detector
<1>10. BaselineIsFirst(EmptyModel.baseline, taken.iso, stopped.either)
  BY <1>2, <1>7, <1>8
<1> QED BY <1>9, <1>10 DEF ModelOf

\* Every step keeps the models in step.
LEMMA ModelKept ==
  ASSUME TypeInv, ModelInv, [Next]_vars
  PROVE  ModelInv'
<1> USE DEF kafkaVars, consumerVars, flushVars, reporterVars, modelVars, countVars, storeVars
<1>1. CASE UNCHANGED <<models, observed, raised>>
  BY <1>1 DEF ModelInv
<1>2. CASE Crash \/ Shutdown
  <2>1. models' = [d \in Domain |-> EmptyModel] /\ observed' = NothingTaken /\ raised' = NothingRaised
    BY <1>2 DEF Crash, Shutdown, Stop
  <2>2. \A d \in Domain : ModelOf(EmptyModel, NothingTaken[d], NothingRaised[d])
    <3> TAKE d \in Domain
    <3>1. /\ NothingTaken[d].iso = <<>> /\ NothingTaken[d].ae = <<>>
          /\ NothingRaised[d].iso = {} /\ NothingRaised[d].ae = {} /\ NothingRaised[d].either = {}
      BY DEF NothingTaken, NothingRaised, Detector
    <3> QED BY <3>1, EmptyModelOf
  <2> QED BY <2>1, <2>2 DEF ModelInv
<1>3. ASSUME NEW job \in busy, job.kind = "score", NEW raiser \in Detector \cup {"none"},
             Observed(job.message.domain, job.message.offset, raiser)
      PROVE  ModelInv'
  <2>1. job \in ScoreJob \cup CheckJob
    BY DEF TypeInv, TypeOK
  <2>2. job.message \in Message
    BY <1>3, <2>1, JobTypes
  <2>3. job.message.domain \in Domain /\ job.message.offset \in Nat
    BY <2>2 DEF Message
  <2> QED BY <1>3, <2>3, ObservedKept
<1>4. ASSUME NEW job \in busy, ObserveWindow(job) PROVE ModelInv'
  BY <1>3, <1>4 DEF ObserveWindow
<1>5. ASSUME NEW job \in busy, ScoreRaises(job) PROVE ModelInv'
  <2>1. \/ UNCHANGED <<models, observed, raised>>
        \/ \E r \in Detector : Observed(job.message.domain, job.message.offset, r)
    BY <1>5 DEF ScoreRaises, MayRaise
  <2>2. job.kind = "score"
    BY <1>5 DEF ScoreRaises
  <2> QED BY <1>1, <1>3, <2>1, <2>2
<1>6. ASSUME Environment, ~(Crash \/ Shutdown) PROVE UNCHANGED <<models, observed, raised>>
  BY <1>6 DEF Environment, Publish, Tick, AutoCommit, ClickHouseMerge, ConsumerDies
<1>7. ASSUME Loops PROVE UNCHANGED <<models, observed, raised>>
  BY <1>7 DEF Loops, Start, SendAlert, TakeBatch, InsertBatch, WakeReporter, SendMetrics, InsertMetrics,
              TakeMessage
<1>8. ASSUME \/ BeginJob
             \/ \E job \in busy : \/ RecordScore(job) \/ CheckDrift(job)
                                  \/ ReadCounters(job) \/ ResetCounters(job) \/ CheckRaises(job)
             \/ UNCHANGED vars
      PROVE  UNCHANGED <<models, observed, raised>>
  BY <1>8 DEF BeginJob, RecordScore, CheckDrift, ReadCounters, ResetCounters, CheckRaises, vars
<1>9. CASE Worker
  BY <1>1, <1>4, <1>5, <1>8, <1>9 DEF Worker
<1> QED BY <1>1, <1>2, <1>6, <1>7, <1>8, <1>9 DEF Next

(* A detector's fit is of the last BufferSize windows it took up to some window, and
   RetrainEvery windows old or older only while every fit since has raised; the
   drift baseline is the buffer at the first window no fit stopped, and stays that. *)
THEOREM ModelsFollow == Spec => []ModelsTrackTraffic
<1>1. Init => ModelInv
  <2> SUFFICES ASSUME Init, NEW d \in Domain PROVE ModelOf(models[d], observed[d], raised[d])
    BY DEF ModelInv
  <2>1. /\ models[d] = EmptyModel
        /\ observed[d].iso = <<>> /\ observed[d].ae = <<>>
        /\ raised[d].iso = {} /\ raised[d].ae = {} /\ raised[d].either = {}
    BY DEF Init, NothingTaken, NothingRaised, Detector
  <2>2. ModelOf(EmptyModel, observed[d], raised[d])
    BY <2>1, EmptyModelOf
  <2> QED BY <2>1, <2>2
<1>2. TypeInv /\ ModelInv /\ [Next]_vars => ModelInv'
  BY ModelKept
<1>3. TypeInv /\ ModelInv => ModelsTrackTraffic
  <2> SUFFICES ASSUME TypeInv, ModelInv, NEW d \in Domain
               PROVE  /\ \A r \in Detector : FitIsRecent(models[d][r], observed[d][r], raised[d][r])
                      /\ BaselineIsFirst(models[d].baseline, observed[d].iso, raised[d].either)
    BY DEF ModelsTrackTraffic
  <2>1. /\ \A r \in Detector : RollingOf(models[d][r], observed[d][r], raised[d][r])
        /\ BaselineIsFirst(models[d].baseline, observed[d].iso, raised[d].either)
    BY DEF ModelInv, ModelOf
  <2>2. ASSUME NEW m \in Rolling, NEW obs \in Seq(Nat), NEW tries, RollingOf(m, obs, tries)
        PROVE  FitIsRecent(m, obs, tries)
    <3>1. CASE m.fitted = <<>>
      BY <2>2, <3>1 DEF RollingOf, FitIsRecent
    <3>2. CASE m.fitted # <<>>
      <4>1. PICK k : k = Len(obs) - m.sinceRetrain
        OBVIOUS
      <4>2. /\ m.sinceRetrain <= Len(obs) - MinBuffer /\ m.fitted = BufferAt(obs, k)
            /\ (k + RetrainEvery) .. Len(obs) \subseteq tries
        BY <2>2, <3>2, <4>1 DEF RollingOf
      <4>3. m.sinceRetrain \in Nat /\ Len(obs) \in Nat /\ MinBuffer \in Nat
        BY SizesAssumption DEF Rolling
      <4>4. k \in MinBuffer .. Len(obs)
        BY <4>1, <4>2, <4>3
      <4> QED BY <3>2, <4>2, <4>4 DEF FitIsRecent
    <3> QED BY <3>1, <3>2
  <2>3. \A r \in Detector : models[d][r] \in Rolling /\ observed[d][r] \in Seq(Nat)
    <3>1. models[d] \in Model /\ observed[d] \in TakenBy
      BY DEF TypeInv, TypeOK
    <3> QED BY <3>1 DEF Model, TakenBy, Detector
  <2> QED BY <2>1, <2>2, <2>3
<1> QED BY <1>1, <1>2, <1>3, TypeInvariant, PTL DEF Spec
=============================================================================
