------------------------------ MODULE Scoring ------------------------------
(***************************************************************************)
(* services/ml-inference: what MLPipeline.process computes for one window - *)
(* the rolling velocity, the statistical detectors of each entity, the      *)
(* ensemble, the threshold rules and the probable cause - and the artefacts  *)
(* of XGBoost, which an offline training writes and a start of the process   *)
(* reads.  MLInference has the loops around process and leaves its outcome   *)
(* open; this module says which outcomes there are.                          *)
(*                                                                          *)
(* A z-score is an integer number of half sigmas, up to ten sigma or Far; a   *)
(* detector's score is an integer in 0..1000.  The scores of the three fitted  *)
(* models are any of Learned: they are data.                                 *)
(***************************************************************************)
EXTENDS Integers, Sequences, FiniteSets, SequencesExt

CONSTANTS
  Market, Payments,  \* the entities of the two domains
  Window,            \* per entity, the windows it may have: [z, count]
  Learned,           \* scores a fitted model may give
  VelocityWindows,   \* velocity_window_count
  MinBuffer,         \* min_buffer_for_training
  MaxWindows,        \* bound: windows per entity and start of the process
  MaxRaises,         \* bound: windows the detectors of an entity miss, per start
  MaxTrainings       \* bound: trainings per domain

Entity == Market \cup Payments
Domain == {"market", "payments"}
DomainOf(e) == IF e \in Market THEN "market" ELSE "payments"

(* 150 sigma, where squash() rounds to 1.0.  feature-service scores the second
   window of an entity against the least variance (ewma.rs), which gives more. *)
Far == 300
ZScores == -20 .. 20 \cup {-Far, Far}

ASSUME EntityAssumption == Market \cap Payments = {}
ASSUME WindowAssumption == \A e \in Entity : Window[e] \subseteq [z : ZScores, count : Nat]
ASSUME LearnedAssumption == Learned \subseteq 1 .. 999
ASSUME VelocityAssumption == VelocityWindows \in Nat

VARIABLES
  phase,     \* the process: down, loading the calibration, or up
  velocity,  \* RollingVelocity._history
  points,    \* EwmaRunRulesDetector._history
  cusum,     \* CusumDetector._state
  observed,  \* windows in the buffers of the two rolling models of a domain
  fitted,    \* which of the two have been fitted
  disk,      \* the artefact files: the training that wrote each, 0 when absent
  loaded,    \* the booster and the calibration the process holds
  writing,   \* a training has written its model and not its calibration
  result,    \* the scores of the last window, unless its scoring raised, and its tier
  (* history *)
  seen,      \* the windows of each entity since the start
  taken,     \* the z-scores of those its statistical detectors took
  torn       \* a training and the load of this start overlapped

detectorVars == <<velocity, points, cusum, observed, fitted>>
artefactVars == <<disk, loaded, writing, torn>>
historyVars  == <<seen, taken>>
vars == <<phase, detectorVars, artefactVars, result, historyVars>>

Artefacts == [model : Nat, calibration : Nat]
NoScore   == -1     \* None
Nothing   == "none" \* no severity, no action

-----------------------------------------------------------------------------
(* detectors/velocity.py, detectors/statistical.py *)

LastN(s, n) == IF Len(s) <= n THEN s ELSE SubSeq(s, Len(s) - n + 1, Len(s))

\* deque(maxlen = n).append
Pushed(deque, x, n) == LastN(Append(deque, x), n)

Abs(z) == IF z < 0 THEN -z ELSE z

\* squash(z), and 0.5 * squash(z, 6) up to three sigma, in thousandths
SquashTable ==
  <<0, 118, 221, 313, 393, 465, 528, 583, 632, 675, 713, 747, 777, 803, 826, 847,
    865, 881, 895, 907, 918>>
HalfSquashTable == <<0, 40, 77, 111, 142, 170, 197>>

ZScore(z) == IF Abs(z) = Far THEN 1000 ELSE SquashTable[Abs(z) + 1]

SameSignBeyond(pts, limit) ==
  LET above == Cardinality({i \in DOMAIN pts : pts[i] > limit})
      below == Cardinality({i \in DOMAIN pts : pts[i] < -limit})
  IN  IF above > below THEN above ELSE below

HistoryLen == 5

RunRules(pts) ==
  LET z == Last(pts)
  IN  IF Abs(z) > 6 THEN 1000
      ELSE IF Len(pts) >= 3 /\ SameSignBeyond(LastN(pts, 3), 4) >= 2 THEN 800
      ELSE IF Len(pts) = 5 /\ SameSignBeyond(pts, 2) >= 4 THEN 600
      ELSE HalfSquashTable[Abs(z) + 1]

AtLeast(a, b) == IF a >= b THEN a ELSE b
AtMost(a, b)  == IF a <= b THEN a ELSE b

\* one step of the two-sided CUSUM with slack k = 0.5 and threshold h = 5
Accumulated_Unclamped(s, z) == [pos |-> s.pos + z - 1, neg |-> AtMost(0, s.neg + z + 1)]
Accumulated(s, z) == [pos |-> AtLeast(0, s.pos + z - 1), neg |-> AtMost(0, s.neg + z + 1)]

CusumScore(s) == AtMost(AtLeast(s.pos, -s.neg) * 100, 1000)
-----------------------------------------------------------------------------
(* ensemble.py, rules.py and rules.yaml: scores in units of 10^-7 *)

Combine_OnlyReady(d) ==
  LET base == 15 * d.zscore + 20 * d.ewma + 20 * d.cusum + 20 * d.iso + 25 * d.ae
      used == 55 + (IF d.iso = 0 THEN 0 ELSE 20) + (IF d.ae = 0 THEN 0 ELSE 25)
  IN  IF d.xgb = NoScore THEN 100 * ((base * 100) \div used) ELSE 3500 * d.xgb + 65 * base
Combine(d) ==
  LET base == 15 * d.zscore + 20 * d.ewma + 20 * d.cusum + 20 * d.iso + 25 * d.ae
  IN  IF d.xgb = NoScore THEN 100 * base ELSE 3500 * d.xgb + 65 * base

Tier(min, severity, action) == [min |-> min * 100000, severity |-> severity, action |-> action]

Thresholds(domain) ==
  IF domain = "payments"
  THEN <<Tier(85, "critical", "block"), Tier(70, "alert", "alert"), Tier(50, "watch", "watch")>>
  ELSE <<Tier(90, "critical", "alert"), Tier(75, "alert", "alert"), Tier(55, "watch", "watch")>>

NoTier == [severity |-> Nothing, action |-> Nothing]

\* the first tier whose min_score is reached
Evaluate(domain, score) ==
  LET tiers == Thresholds(domain)
      hit   == {i \in DOMAIN tiers : score >= tiers[i].min}
      first == CHOOSE i \in hit : \A j \in hit : i <= j
  IN  IF hit = {} THEN NoTier
      ELSE [severity |-> tiers[first].severity, action |-> tiers[first].action]
-----------------------------------------------------------------------------
(* features.py, explain.py *)

FeatureNames(domain) ==
  {"zscore", "throughput_eps", "latency_p99_ms", "error_rate", "velocity_count"} \cup
  (IF domain = "market" THEN {"realized_vol", "spread_bps", "order_imbalance"}
   ELSE {"log_mean_amount", "decline_rate", "distinct_accounts"})

Sustained_AnyShift(d) == d.cusum > d.zscore
Sustained(d) == d.cusum > 500 /\ d.cusum > d.zscore

\* `concentrated`: many declines on few accounts, with an amount (payments only)
ProbableCause(domain, concentrated, top, d) ==
  CASE domain = "payments" /\ concentrated           -> "fraud_pattern"
    [] OTHER ->
  CASE top = "latency_p99_ms"                        -> "latency_incident"
    [] top \in {"throughput_eps", "velocity_count"}  -> "volume_spike"
    [] top = "error_rate"                            -> "data_corruption"
    [] OTHER ->
  CASE Sustained(d)                                  -> "regime_change"
    [] ~Sustained(d) /\ domain = "payments" /\ top \in {"log_mean_amount", "decline_rate", "zscore"}
                                                     -> "fraud_pattern"
    [] ~Sustained(d) /\ domain = "market"
       /\ top \in {"realized_vol", "zscore", "spread_bps", "order_imbalance"}
                                                     -> "volatility_spike"
    [] OTHER                                         -> "unknown"
\* what an alert may name as its cause: its top feature and amounts are data
Causes(r) ==
  IF r.tier = NoTier THEN {}
  ELSE LET d == DomainOf(r.entity)
       IN  {ProbableCause(d, c, top, r.scores) :
              c \in BOOLEAN, top \in FeatureNames(d)}
-----------------------------------------------------------------------------
(* MLPipeline.process *)

Scores(e, z, iso, ae, xgb) ==
  [zscore |-> ZScore(z), ewma |-> RunRules(points'[e]), cusum |-> CusumScore(cusum'[e]),
   iso |-> iso, ae |-> ae, xgb |-> xgb]

Model == {"iso", "ae"}

\* a rolling model is fitted as soon as its buffer is long enough
Due(d, m) == observed[d][m] + 1 >= MinBuffer

Observe(d, by, fits) ==
  /\ observed' = [observed EXCEPT ![d] = [m \in Model |-> IF m \in by THEN @[m] + 1 ELSE @[m]]]
  /\ fitted' = [fitted EXCEPT ![d] = @ \cup {m \in fits : Due(d, m)}]

ModelScores(ready) == IF ready THEN Learned ELSE {0}
XGBoostScores(d)   == IF loaded[d].model = 0 THEN {NoScore} ELSE Learned

Arrives(e, w) ==
  /\ phase = "up" /\ Len(seen[e]) < MaxWindows[e]
  /\ seen' = [seen EXCEPT ![e] = Append(@, w)]
  /\ velocity' = [velocity EXCEPT ![e] = Pushed(@, w.count, VelocityWindows)]
  /\ UNCHANGED <<phase, artefactVars>>

\* the models observe the window, then the statistical detectors of the entity take it
Taken(e, w) ==
  /\ Arrives(e, w)
  /\ Observe(DomainOf(e), Model, Model)
  /\ taken' = [taken EXCEPT ![e] = Append(@, w.z)]
  /\ points' = [points EXCEPT ![e] = Pushed(@, w.z, HistoryLen)]
  /\ cusum' = [cusum EXCEPT ![e] = Accumulated(@, w.z)]

\* what the window may come to, the scores of the learned models being data
Outcomes(e, w) ==
  LET d == DomainOf(e)
      Outcome(s) == [entity |-> e, scores |-> s, tier |-> Evaluate(d, Combine(s))]
  IN  {Outcome(Scores(e, w.z, iso, ae, xgb)) :
         iso \in ModelScores("iso" \in fitted'[d]), ae \in ModelScores("ae" \in fitted'[d]),
         xgb \in XGBoostScores(d)}

Process(e, w) ==
  /\ Taken(e, w)
  /\ \E r \in Outcomes(e, w) : result' = {r}

(* A fit raises, or drift.set_baseline after both: velocity and some buffers have
   the window, the statistical detectors do not. *)
RaisesBeforeDetectors(e, w) ==
  LET d == DomainOf(e) IN
  /\ Arrives(e, w)
  /\ Len(seen[e]) - Len(taken[e]) < MaxRaises
  /\ \/ Due(d, "iso") /\ Observe(d, {"iso"}, {})
     \/ Due(d, "ae") /\ Observe(d, Model, {"iso"})
     \/ Due(d, "iso") /\ Observe(d, Model, Model)
  /\ result' = {}
  /\ UNCHANGED <<points, cusum, taken>>

(* A learned model raises in score - XGBoost, when the names of its features are
   not those of the vector - or, for an alert, its SHAP attribution or the parsing of
   window_start does.  The detectors have taken the window by then. *)
RaisesAfterDetectors(e, w) ==
  LET d == DomainOf(e) IN
  /\ Taken(e, w)
  /\ fitted'[d] # {} \/ loaded[d].model # 0 \/ \E r \in Outcomes(e, w) : r.tier # NoTier
  /\ result' = {}
-----------------------------------------------------------------------------
(* XGBoostDetector.__init__ in MLPipeline.__init__, and train_xgboost.py *)

Fresh(x) == [e \in Entity |-> x]

EmptyMemory ==
  /\ velocity' = Fresh(<<>>) /\ points' = Fresh(<<>>) /\ cusum' = Fresh([pos |-> 0, neg |-> 0])
  /\ observed' = [d \in Domain |-> [m \in Model |-> 0]] /\ fitted' = [d \in Domain |-> {}]
  /\ seen' = Fresh(<<>>) /\ taken' = Fresh(<<>>) /\ result' = {}

\* _load reads the model first
Start ==
  /\ phase = "down" /\ phase' = "loading"
  /\ loaded' = [d \in Domain |-> [model |-> disk[d].model, calibration |-> 0]]
  /\ torn' = writing
  /\ UNCHANGED <<detectorVars, disk, writing, result, historyVars>>

\* ... and the calibration after it
LoadCalibration ==
  /\ phase = "loading" /\ phase' = "up"
  /\ loaded' = [d \in Domain |-> [loaded[d] EXCEPT !.calibration = disk[d].calibration]]
  /\ UNCHANGED <<detectorVars, disk, writing, torn, result, historyVars>>

Crash ==
  /\ phase # "down" /\ phase' = "down"
  /\ EmptyMemory
  /\ loaded' = [d \in Domain |-> [model |-> 0, calibration |-> 0]] /\ torn' = {}
  /\ UNCHANGED <<disk, writing>>

(* train_domain's last steps.  A training that dies in between leaves the new
   model with the old calibration until the next one. *)
SaveModel(d) ==
  /\ disk[d].model < MaxTrainings[d]
  /\ disk' = [disk EXCEPT ![d].model = @ + 1]
  /\ writing' = writing \cup {d}
  /\ torn' = IF phase = "loading" THEN torn \cup {d} ELSE torn
  /\ UNCHANGED <<phase, detectorVars, loaded, result, historyVars>>

SaveCalibration_Missing(d) ==
  /\ d \in writing /\ writing' = writing \ {d}
  /\ UNCHANGED <<phase, detectorVars, disk, loaded, torn, result, historyVars>>
SaveCalibration(d) ==
  /\ d \in writing /\ writing' = writing \ {d}
  /\ disk' = [disk EXCEPT ![d].calibration = disk[d].model]
  /\ UNCHANGED <<phase, detectorVars, loaded, torn, result, historyVars>>
-----------------------------------------------------------------------------
Init ==
  /\ phase = "down"
  /\ velocity = Fresh(<<>>) /\ points = Fresh(<<>>) /\ cusum = Fresh([pos |-> 0, neg |-> 0])
  /\ observed = [d \in Domain |-> [m \in Model |-> 0]] /\ fitted = [d \in Domain |-> {}]
  /\ disk = [d \in Domain |-> [model |-> 0, calibration |-> 0]] /\ loaded = disk
  /\ writing = {} /\ torn = {}
  /\ result = {} /\ seen = Fresh(<<>>) /\ taken = Fresh(<<>>)

Next ==
  \/ Start \/ LoadCalibration \/ Crash
  \/ \E e \in Entity : \E w \in Window[e] : 
       Process(e, w) \/ RaisesBeforeDetectors(e, w) \/ RaisesAfterDetectors(e, w)
  \/ \E d \in Domain : SaveModel(d) \/ SaveCalibration(d)

Spec == Init /\ [][Next]_vars
-----------------------------------------------------------------------------
TypeOK ==
  /\ phase \in {"down", "loading", "up"}
  /\ velocity \in [Entity -> Seq(Nat)] /\ points \in [Entity -> Seq(ZScores)]
  /\ cusum \in [Entity -> [pos : Nat, neg : Int]]
  /\ observed \in [Domain -> [Model -> Nat]] /\ fitted \in [Domain -> SUBSET Model]
  /\ disk \in [Domain -> Artefacts] /\ loaded \in [Domain -> Artefacts]
  /\ writing \subseteq Domain /\ torn \subseteq Domain
  /\ \A e \in Entity : Len(velocity[e]) <= VelocityWindows /\ Len(points[e]) <= HistoryLen
  /\ \A r \in result :
       /\ r.entity \in Entity
       /\ \A x \in {"zscore", "ewma", "cusum", "iso", "ae"} : r.scores[x] \in 0 .. 1000
       /\ r.scores.xgb \in {NoScore} \cup 0 .. 1000

\* sums of the first i elements
PartialSums(s) == LET f[i \in 0 .. Len(s)] == IF i = 0 THEN 0 ELSE f[i - 1] + s[i] IN f

SumOf(s) == PartialSums(s)[Len(s)]

\* the largest sum of x - slack over a suffix of the history, 0 for none
LargestShift(h) ==
  LET p      == PartialSums(h)
      n      == Len(h)
      shifts == {p[n] - p[i] - (n - i) : i \in 0 .. n}
  IN  CHOOSE s \in shifts : \A t \in shifts : t <= s

Mirror(h) == [i \in DOMAIN h |-> -h[i]]

(* statistical.py: CUSUM "accumulates signed deviation from baseline".  Each side is
   the largest sum of deviations beyond the slack over any stretch of this
   entity's own windows that ends now, whatever other entities did.  A window whose
   scoring raised is part of it when the exception came after CUSUM's turn. *)
CusumIsLargestShift ==
  \A e \in Entity : /\ cusum[e].pos = LargestShift(taken[e])
                    /\ -cusum[e].neg = LargestShift(Mirror(taken[e]))

(* The run rules judge exactly the last windows of this entity: "2 of the last 3
   both 2+ sigma, same direction", "4 of the last 5" beyond one, over the whole
   history and not over what the deque happens to hold. *)
RunRulesSeeOwnHistory ==
  \A r \in result :
    LET h == taken[r.entity]
        n == Len(h)
        Beyond(k, limit) ==
          LET last == n - k + 1 .. n
          IN  {Cardinality({i \in last : h[i] > limit}), Cardinality({i \in last : h[i] < -limit})}
    IN  /\ (r.scores.ewma = 1000) <=> h[n] > 6 \/ h[n] < -6
        /\ (r.scores.ewma = 800) <=>
             /\ h[n] \in -6 .. 6 /\ n >= 3 /\ \E c \in Beyond(3, 4) : c >= 2
        /\ (r.scores.ewma = 600) <=>
             /\ h[n] \in -6 .. 6 /\ n >= 5 /\ \A c \in Beyond(3, 4) : c < 2
             /\ \E c \in Beyond(5, 2) : c >= 4

(* velocity.py: the feature is the sum of the counts of the last windows of the
   entity in this process, the windows whose scoring raised included. *)
VelocityIsRecentVolume ==
  \A e \in Entity :
    LET counts == [i \in DOMAIN seen[e] |-> seen[e][i].count]
    IN  SumOf(velocity[e]) = SumOf(LastN(counts, VelocityWindows))

(* What the detectors of an entity remember is that entity's own past and nothing
   else: CUSUM, the run rules and the velocity are functions of the windows they
   were given, across other entities' windows, exceptions halfway through a
   window, and restarts. *)
DetectorsSeeOwnHistory ==
  TypeOK /\ CusumIsLargestShift /\ RunRulesSeeOwnHistory /\ VelocityIsRecentVolume

(* Warm-up: before the rolling models are fitted and without XGBoost the
   statistical detectors, whatever they see, raise a watch at most and never a
   block; on the market side only when all three of them are saturated. *)
WarmUpOnlyWatches ==
  \A r \in result :
    (/\ fitted[DomainOf(r.entity)] = {} /\ r.scores.xgb = NoScore
     /\ r.tier # NoTier) =>
       /\ r.tier.severity = "watch"
       /\ r.entity \in Market =>
            r.scores.zscore = 1000 /\ r.scores.ewma = 1000 /\ r.scores.cusum = 1000

(* An alert explained as a regime change has a drift behind it: more than half
   the CUSUM threshold accumulated over the entity's own windows. *)
RegimeChangeHasDrift ==
  \A r \in result : "regime_change" \in Causes(r) =>
    LET h == taken[r.entity]
    IN  LargestShift(h) > 5 \/ LargestShift(Mirror(h)) > 5

(* A score is calibrated by the calibration of its own model, save when a
   training overlapped this start (or died halfway before it). *)
CalibrationOfOwnModel ==
  phase = "up" => \A d \in Domain \ torn : loaded[d].calibration = loaded[d].model
=============================================================================
