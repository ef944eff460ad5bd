----------------------------- MODULE Scenarios -----------------------------
(***************************************************************************)
(* services/data-generator: the table of active anomaly scenarios, how they *)
(* are injected and spawned, and what an event generated under one carries.  *)
(* Every handler is synchronous code of one event loop, so each is one step.  *)
(* An injection is known by its place in the history `log`; prices, amounts,  *)
(* rates and the corrupted payloads are data.                                *)
(***************************************************************************)
EXTENDS Naturals, Sequences, FiniteSets, SequencesExt

CONSTANTS
  Market, Payments,  \* the entities of the two domains
  Ghost,             \* keys /inject takes although no entity has them
  Second,            \* ticks of the clock per second
  Click,             \* the clicks on Inject in the operator's console
  Budgets            \* bounds, of which a behaviour has one: the clock, the scenario
                     \* types and durations that occur, whether there are events and
                     \* polls, numbers of spawns, direct injections, clicks, logins,
                     \* restarts of the gateway

Entity == Market \cup Payments
Key    == Entity \cup Ghost

MarketScenarios   == {"volatility_spike", "latency_incident", "data_corruption",
                      "regime_change", "volume_spike"}
PaymentsScenarios == {"fraud_pattern", "latency_incident", "data_corruption",
                      "regime_change", "volume_spike"}
ScenarioType      == MarketScenarios \cup PaymentsScenarios

Pool(e) == IF e \in Market THEN MarketScenarios ELSE PaymentsScenarios

ASSUME KeysAssumption ==
  Market \cap Payments = {} /\ Entity \cap Ghost = {} /\ IsFiniteSet(Entity)
ASSUME ClickAssumption == Click \cap {"auto", "direct"} = {}
ASSUME SecondAssumption == Second \in Nat \ {0}
ASSUME BudgetsAssumption ==
  \A b \in Budgets : b.types \subseteq ScenarioType /\ b.durations \subseteq Nat

VARIABLES
  wall,        \* time.time(), in ticks
  active,      \* ScenarioManager._active: per key an injection, 0 for none
  lastCheck,   \* _last_scenario_check
  shifts,      \* apply_regime_shift calls of each entity
  compromised, \* per merchant, the injection its cluster was drawn under, 0 if empty
  budget,
  (* history *)
  log,         \* every injection
  event        \* the last event of each entity: a set of at most one

genVars == <<active, lastCheck, shifts, compromised, log, event>>

ActiveScenario == [key : Key, type : ScenarioType, start : Nat, duration : Nat,
                   by : {"auto", "direct"} \cup Click]

By(who) == Cardinality({i \in DOMAIN log : log[i].by = who})
-----------------------------------------------------------------------------
(* ScenarioManager *)

IsActive_ClosedEnd(sc, t) == sc.start <= t /\ t <= sc.start + sc.duration
IsActive(sc, t) == sc.start <= t /\ t < sc.start + sc.duration

\* get_active; it deletes an expired scenario
GetActive(k) == IF active[k] # 0 /\ IsActive(log[active[k]], wall) THEN active[k] ELSE 0

\* snapshot, which deletes nothing
Snapshot == {active[k] : k \in {x \in Key : GetActive(x) # 0}}

Shift(k, type) == type = "regime_change" /\ k \in Entity

\* inject: an active scenario of the key is replaced
Inject(k, type, duration, by) ==
  /\ log' = Append(log, [key |-> k, type |-> type, start |-> wall, duration |-> duration,
                         by |-> by])
  /\ active' = [active EXCEPT ![k] = Len(log')]
  /\ shifts' = [e \in Entity |-> IF e = k /\ Shift(k, type) THEN shifts[e] + 1 ELSE shifts[e]]
  /\ UNCHANGED <<lastCheck, compromised, event>>

\* POST /inject on the generator's own port (demos and tests/eval)
InjectDirect(k, type, duration) ==
  /\ By("direct") < budget.direct
  /\ Inject(k, type, duration, "direct")
  /\ UNCHANGED <<wall, budget>>
-----------------------------------------------------------------------------
(* GeneratorState.next_event *)

CheckDue == wall >= lastCheck + Second

\* maybe_spawn: an entity without an active scenario may get one of its pool
Idle == {e \in Entity : GetActive(e) = 0}

\* maybe_spawn_scenarios; get_active has visited every entity when it is done
Spawn(spawned, what) ==
  LET order == SetToSeq(spawned)
      place(e) == Len(log) + CHOOSE i \in DOMAIN order : order[i] = e
  IN  /\ lastCheck' = IF CheckDue THEN wall ELSE lastCheck
      /\ log' = log \o [i \in DOMAIN order |->
                 [key |-> order[i], type |-> what[order[i]][1], start |-> wall,
                  duration |-> what[order[i]][2], by |-> "auto"]]
      /\ active' = [k \in Key |-> IF k \in spawned THEN place(k)
                                 ELSE IF k \in Entity THEN GetActive(k) ELSE active[k]]
      /\ shifts' = [e \in Entity |-> IF e \in spawned /\ Shift(e, what[e][1])
                                    THEN shifts[e] + 1 ELSE shifts[e]]

\* PaymentsEntity.tick: fraud stays on one cluster, anything else clears it
Cluster_Redrawn(e, n) ==
  IF n = 0 \/ log'[n].type # "fraud_pattern" THEN 0 ELSE Len(log')
Cluster(e, n) ==
  IF n = 0 \/ log'[n].type # "fraud_pattern" THEN 0
  ELSE IF compromised[e] = 0 THEN n ELSE compromised[e]

\* `clean` is history: the injections there were at the last event without fraud
CleanSince(e) == IF event[e] = {} THEN 0 ELSE (CHOOSE x \in event[e] : TRUE).clean

NextEvent(e) ==
  /\ budget.events
  /\ \E spawned \in IF CheckDue THEN SUBSET Idle ELSE {{}} :
       /\ By("auto") + Cardinality(spawned) <= budget.spawns
       /\ \E what \in [spawned -> (budget.types \X (budget.durations \ {0}))] :
            /\ \A x \in spawned : what[x][1] \in Pool(x)
            /\ Spawn(spawned, what)
  /\ LET n       == active'[e]
         cluster == IF e \in Payments THEN Cluster(e, n) ELSE 0
     IN  /\ compromised' = [x \in Payments |-> IF x = e THEN cluster ELSE compromised[x]]
         /\ event' = [event EXCEPT ![e] =
              {[at |-> wall, under |-> n, known |-> Len(log'), cluster |-> cluster,
                clean |-> IF cluster = 0 THEN Len(log') ELSE CleanSince(e)]}]
  /\ UNCHANGED <<wall, budget>>

Tick ==
  /\ wall < budget.time
  /\ wall' = wall + 1
  /\ UNCHANGED <<genVars, budget>>
-----------------------------------------------------------------------------
GeneratorInit ==
  /\ wall = Second /\ lastCheck = 0
  /\ active = [k \in Key |-> 0] /\ shifts = [e \in Entity |-> 0]
  /\ compromised = [e \in Payments |-> 0]
  /\ budget \in Budgets
  /\ log = <<>> /\ event = [e \in Entity |-> {}]

GeneratorNext ==
  \/ Tick
  \/ \E e \in Entity : NextEvent(e)
  \/ \E k \in Key, type \in budget.types, duration \in budget.durations :
       InjectDirect(k, type, duration)

-----------------------------------------------------------------------------
(* The label a key has at time t after the first n injections: the last of them
   on that key decides, and it covers [start, start + duration). *)
LabelAt(k, t, n) ==
  LET own  == {i \in 1 .. n : log[i].key = k /\ log[i].start <= t}
      last == CHOOSE i \in own : \A j \in own : j <= i
  IN  IF own = {} \/ t >= log[last].start + log[last].duration THEN 0 ELSE last

\* the label of every event, and what /scenarios lists: see GroundTruth
LabelsAreTrue ==
  /\ \A e \in Entity : \A x \in event[e] : x.under = LabelAt(e, x.at, x.known)
  /\ Snapshot = {LabelAt(k, wall, Len(log)) : k \in Key} \ {0}

\* automatic scenarios: no interruption, the entity's own pool, a second between checks
SpawnsKeepTheirPlace ==
  \A i \in DOMAIN log : log[i].by = "auto" =>
    /\ log[i].type \in Pool(log[i].key)
    /\ LabelAt(log[i].key, log[i].start, i - 1) = 0
    /\ \A j \in DOMAIN log : (log[j].by = "auto" /\ log[j].start # log[i].start) =>
         log[j].start >= log[i].start + Second \/ log[i].start >= log[j].start + Second

\* a regime change moves the baseline of its entity once, for good
ShiftsAreRegimeChanges ==
  \A e \in Entity :
    shifts[e] = Cardinality({i \in DOMAIN log : log[i].key = e /\ log[i].type = "regime_change"})

(* Ground truth for tests/eval.  The label of every event is the one the history
   of injections gives its entity at that moment - whatever was replaced, expired
   unseen or spawned by the same event - and /scenarios lists exactly what is in
   force now, keys no entity has included; a spawn never interrupts a scenario;
   a baseline has moved once per regime change of its entity and does not move
   again when the label expires or is replaced. *)
GroundTruth ==
  /\ active \in [Key -> 0 .. Len(log)] /\ log \in Seq(ActiveScenario)
  /\ LabelsAreTrue /\ SpawnsKeepTheirPlace /\ ShiftsAreRegimeChanges

(* All events of one fraud hit one cluster.  The cluster is this fraud's own, or
   that of an earlier fraud that no event without fraud has followed. *)
FraudKeepsItsCluster ==
  [][\A e \in Payments : \A x \in event'[e] : x.cluster # 0 =>
       /\ x.cluster > x.clean /\ x.cluster <= x.under
       /\ log'[x.cluster].key = e /\ log'[x.cluster].type = "fraud_pattern"
       /\ \A y \in event[e] : y.under = x.under => y.cluster = x.cluster]_<<event, log>>
=============================================================================
