-------------------------- MODULE Scenarios_proofs --------------------------
(***************************************************************************)
(* What the scenario table of the data-generator keeps, for every set of      *)
(* entities, scenario durations and clock: the steps of Scenarios preserve   *)
(* the invariant behind GroundTruth and FraudKeepsItsCluster.  The            *)
(* specification that takes these steps is OperatorConsole.                  *)
(***************************************************************************)
EXTENDS Scenarios, TLAPS, FiniteSetTheorems

End(sc) == sc.start + sc.duration

\* the injections of key k among the first n of l that had begun by t
Own(l, k, t, n) == {i \in 1 .. n : l[i].key = k /\ l[i].start <= t}

(* u is the label LabelAt gives, said without CHOOSE: the last of the own
   injections if it is still in force, 0 otherwise. *)
Governs(l, k, t, n, u) ==
  LET own == Own(l, k, t, n)
  IN  /\ u = 0 => \/ own = {}
                  \/ \E i \in own : (\A j \in own : j <= i) /\ t >= End(l[i])
      /\ u # 0 => u \in own /\ (\A j \in own : j <= u) /\ t < End(l[u])

Latest(l, k, i) ==
  i \in DOMAIN l /\ l[i].key = k /\ \A j \in DOMAIN l : l[j].key = k => j <= i

TableType ==
  /\ wall \in Nat /\ lastCheck \in Nat /\ lastCheck <= wall /\ budget \in Budgets
  /\ log \in Seq(ActiveScenario) /\ active \in [Key -> 0 .. Len(log)]
  /\ shifts \in [Entity -> Nat]

(* The table and the history: an entry is the latest injection of its key, and a
   key without an entry has none or one that is over, whoever deleted it. *)
TableInv ==
  /\ TableType
  /\ \A i \in DOMAIN log : log[i].start <= wall
  /\ \A k \in Key : active[k] # 0 => Latest(log, k, active[k])
  /\ \A k \in Key : active[k] = 0 =>
       \/ \A i \in DOMAIN log : log[i].key # k
       \/ \E i \in DOMAIN log : Latest(log, k, i) /\ wall >= End(log[i])

(* What a check spawned: in its place, and at a check. *)
SpawnInv ==
  \A i \in DOMAIN log : log[i].by = "auto" =>
    /\ log[i].type \in Pool(log[i].key) /\ Governs(log, log[i].key, log[i].start, i - 1, 0)
    /\ log[i].start <= lastCheck
    /\ \A j \in DOMAIN log : (log[j].by = "auto" /\ log[j].start # log[i].start) =>
         log[j].start >= log[i].start + Second \/ log[i].start >= log[j].start + Second

EventRecord == [at : Nat, under : Nat, known : Nat, cluster : Nat, clean : Nat]

EventInv ==
  /\ event \in [Entity -> SUBSET EventRecord]
  /\ \A e \in Entity : \A x \in event[e] :
       /\ x.at <= wall /\ x.known <= Len(log)
       /\ \A i \in 1 .. x.known : log[i].start <= x.at
       /\ Governs(log, e, x.at, x.known, x.under)
       /\ \A y \in event[e] : x = y

(* The cluster of a merchant is the one its last event hit, and it is empty after
   an event without fraud, and only then or before the first event. *)
ClusterInv ==
  /\ compromised \in [Payments -> Nat]
  /\ \A e \in Payments :
       /\ event[e] = {} => compromised[e] = 0
       /\ \A x \in event[e] :
            /\ x.cluster = compromised[e]
            /\ x.cluster = 0 => /\ x.under = 0 \/ log[x.under].type # "fraud_pattern"
                                /\ x.clean = x.known
            /\ x.cluster # 0 => /\ x.clean < x.cluster /\ x.cluster <= x.under
                                /\ log[x.cluster].key = e
                                /\ log[x.cluster].type = "fraud_pattern"

ScenariosInv ==
  TableInv /\ SpawnInv /\ ShiftsAreRegimeChanges /\ EventInv /\ ClusterInv
-----------------------------------------------------------------------------
(* Sequences and labels *)

\* What joining two sequences keeps.
LEMMA JoinedLog ==
  ASSUME NEW l \in Seq(ActiveScenario), NEW m \in Seq(ActiveScenario), NEW z, z = l \o m
  PROVE  /\ z \in Seq(ActiveScenario) /\ Len(z) = Len(l) + Len(m)
         /\ \A i \in DOMAIN l : i \in DOMAIN z /\ z[i] = l[i]
         /\ \A i \in DOMAIN m : Len(l) + i \in DOMAIN z /\ z[Len(l) + i] = m[i]
         /\ \A i \in DOMAIN z : i \in DOMAIN l \/ i - Len(l) \in DOMAIN m
<1>2. z \in Seq(ActiveScenario) /\ Len(z) = Len(l) + Len(m)
  OBVIOUS
<1>3. DOMAIN l = 1 .. Len(l) /\ DOMAIN m = 1 .. Len(m) /\ DOMAIN z = 1 .. Len(l) + Len(m)
  BY <1>2
<1>4. Len(l) \in Nat /\ Len(m) \in Nat
  OBVIOUS
<1>5. \A i \in DOMAIN l : i \in DOMAIN z /\ z[i] = l[i]
  BY <1>3, <1>4
<1>6. \A i \in DOMAIN m : Len(l) + i \in DOMAIN z /\ z[Len(l) + i] = m[i]
  BY <1>3, <1>4
<1>7. ASSUME NEW i \in DOMAIN z, i \notin DOMAIN l
      PROVE  i - Len(l) \in DOMAIN m
  BY <1>3, <1>4, <1>7
<1> QED
  BY <1>2, <1>5, <1>6, <1>7

\* A label looks at the injections before it only: later ones do not change it.
LEMMA GovernsKept ==
  ASSUME NEW l, NEW m, NEW k, NEW t, NEW n, NEW u,
         \A i \in 1 .. n : m[i] = l[i], Governs(l, k, t, n, u)
  PROVE  Governs(m, k, t, n, u)
<1>1. Own(m, k, t, n) = Own(l, k, t, n)
  BY DEF Own
<1>2. \A i \in Own(l, k, t, n) : m[i] = l[i]
  BY DEF Own
<1> QED
  BY <1>1, <1>2 DEF Governs, End

\* The fields of an injection.
LEMMA InjectionFields ==
  ASSUME TableType, NEW i \in DOMAIN log
  PROVE  /\ log[i] \in ActiveScenario /\ log[i].key \in Key /\ log[i].type \in ScenarioType
         /\ log[i].start \in Nat /\ log[i].duration \in Nat
         /\ log[i].by \in {"auto", "direct"} \cup Click
         /\ i \in Nat /\ 1 <= i /\ i <= Len(log)
<1>1. log \in Seq(ActiveScenario)
  BY DEF TableType
<1>2. log[i] \in ActiveScenario /\ i \in 1 .. Len(log) /\ Len(log) \in Nat
  BY <1>1
<1> QED
  BY <1>2 DEF ActiveScenario

\* Governs is what LabelAt computes.
LEMMA LabelOf ==
  ASSUME TableType, NEW k, NEW t \in Nat, NEW n \in 0 .. Len(log), NEW u,
         Governs(log, k, t, n, u)
  PROVE  LabelAt(k, t, n) = u
<1> DEFINE own == {i \in 1 .. n : log[i].key = k /\ log[i].start <= t}
           last == CHOOSE i \in own : \A j \in own : j <= i
<1>1. Own(log, k, t, n) = own
  BY DEF Own
<1>2. \A i, j \in own : (i <= j /\ j <= i) => i = j
  OBVIOUS
<1>3. \A i \in own : (\A j \in own : j <= i) => last = i
  <2> SUFFICES ASSUME NEW i \in own, \A j \in own : j <= i
               PROVE  last = i
    OBVIOUS
  <2>1. last \in own /\ \A j \in own : j <= last
    OBVIOUS
  <2> QED
    BY <2>1, <1>2
<1>4. LabelAt(k, t, n) = IF own = {} \/ t >= log[last].start + log[last].duration THEN 0 ELSE last
  BY DEF LabelAt
<1> HIDE DEF last
<1>5. CASE u = 0
  <2> HIDE DEF own
  <2> QED
    BY <1>1, <1>3, <1>4, <1>5 DEF Governs, End
<1>6. CASE u # 0
  <2>1. u \in own /\ (\A j \in own : j <= u) /\ t < log[u].start + log[u].duration
    BY <1>1, <1>6 DEF Governs, End
  <2>2. last = u /\ own # {}
    BY <2>1, <1>3
  <2>3. u \in DOMAIN log
    <3>1. log \in Seq(ActiveScenario) /\ u \in 1 .. n
      BY <2>1 DEF TableType
    <3>2. Len(log) \in Nat /\ DOMAIN log = 1 .. Len(log)
      BY <3>1
    <3> QED
      BY <3>1, <3>2
  <2>4. ~(t >= log[u].start + log[u].duration)
    BY <2>1, <2>3, InjectionFields
  <2> HIDE DEF own
  <2> QED
    BY <2>2, <2>4, <1>4
<1> QED
  BY <1>5, <1>6

\* get_active answers the label of this moment.
LEMMA InForce ==
  ASSUME TableInv, NEW k \in Key
  PROVE  Governs(log, k, wall, Len(log), GetActive(k))
<1>1. TableType /\ wall \in Nat /\ active[k] \in Nat /\ Len(log) \in Nat
       /\ DOMAIN log = 1 .. Len(log)
  BY DEF TableInv, TableType
<1> DEFINE own == Own(log, k, wall, Len(log))
<1>2. own = {i \in DOMAIN log : log[i].key = k}
  BY <1>1 DEF Own, TableInv
<1>3. CASE active[k] = 0
  <2>1. GetActive(k) = 0
    BY <1>3 DEF GetActive
  <2>2. \/ \A i \in DOMAIN log : log[i].key # k
        \/ \E i \in DOMAIN log : Latest(log, k, i) /\ wall >= End(log[i])
    BY <1>3 DEF TableInv
  <2> QED
    BY <2>1, <2>2, <1>2 DEF Governs, Latest
<1>4. CASE active[k] # 0
  <2> DEFINE i == active[k]
  <2>1. Latest(log, k, i)
    BY <1>4 DEF TableInv
  <2>2. i \in own /\ \A j \in own : j <= i
    BY <2>1, <1>2 DEF Latest
  <2>3. log[i].start <= wall /\ log[i].start \in Nat /\ log[i].duration \in Nat
    BY <2>1, <1>1, InjectionFields DEF Latest, TableInv
  <2>4. CASE wall < End(log[i])
    <3>1. GetActive(k) = i
      BY <2>3, <2>4, <1>4 DEF GetActive, IsActive, End
    <3> QED
      BY <3>1, <2>2, <2>4, <1>4 DEF Governs
  <2>5. CASE ~(wall < End(log[i]))
    <3>1. GetActive(k) = 0
      BY <2>3, <2>5, <1>4 DEF GetActive, IsActive, End
    <3>2. wall >= End(log[i])
      BY <2>3, <2>5, <1>1 DEF End
    <3> QED
      BY <3>1, <3>2, <2>2 DEF Governs
  <2> QED
    BY <2>4, <2>5
<1> QED
  BY <1>3, <1>4
-----------------------------------------------------------------------------
(* Injections.  Injected(new): the injections of `new`, at most one per key, are
   made at this moment.  Inject makes one, a check of next_event any number, and
   what else the check does is delete entries that have expired. *)

\* the key has an injection in new
Hit(new, k) == \E i \in DOMAIN new : new[i].key = k

Injected(new) ==
  /\ new \in Seq(ActiveScenario) /\ log' = log \o new
  /\ \A i, j \in DOMAIN new : new[i].key = new[j].key => i = j
  /\ \A i \in DOMAIN new : new[i].start = wall
  /\ active' \in [Key -> Nat]
  /\ \A k \in Key : IF Hit(new, k)
                    THEN \E i \in DOMAIN new : new[i].key = k /\ active'[k] = Len(log) + i
                    ELSE active'[k] \in {active[k], GetActive(k)}
  /\ shifts' = [e \in Entity |->
                  IF \E i \in DOMAIN new : new[i].key = e /\ new[i].type = "regime_change"
                  THEN shifts[e] + 1 ELSE shifts[e]]
  /\ \A i \in DOMAIN new : new[i].by = "auto" =>
       /\ CheckDue /\ lastCheck' = wall
       /\ new[i].type \in Pool(new[i].key) /\ GetActive(new[i].key) = 0
  /\ lastCheck' \in {lastCheck, wall}
  /\ UNCHANGED <<wall, budget>>

\* SetToSeq lists a finite set, every element once.
LEMMA Listed ==
  ASSUME NEW S, IsFiniteSet(S)
  PROVE  \E z : /\ z = SetToSeq(S) /\ z \in Seq(S)
                /\ \A i, j \in DOMAIN z : z[i] = z[j] => i = j
                /\ \A x \in S : \E i \in DOMAIN z : z[i] = x
<1> DEFINE n == Cardinality(S)
<1>1. n \in Nat /\ ExistsBijection(1 .. n, S)
  BY FS_CardinalityType
<1>2. \E f \in [1 .. n -> S] : IsInjective(f)
  BY <1>1, Zenon DEF ExistsBijection, Bijection, Injection
<1>3. PICK z : z = SetToSeq(S)
  OBVIOUS
<1>4. z \in [1 .. n -> S] /\ IsInjective(z)
  BY <1>2, <1>3, Zenon DEF SetToSeq
<1>5. z \in Injection(1 .. n, S)
  BY <1>4 DEF Injection
<1>6. IsFiniteSet(1 .. n) /\ Cardinality(1 .. n) = n
  BY <1>1, FS_Interval
<1>7. z \in Surjection(1 .. n, S)
  BY <1>5, <1>6, FS_Injection
<1>8. \A x \in S : \E i \in DOMAIN z : z[i] = x
  BY <1>4, <1>7 DEF Surjection
<1>9. z \in Seq(S)
  BY <1>1, <1>4
<1>10. \A i, j \in DOMAIN z : z[i] = z[j] => i = j
  BY <1>4 DEF IsInjective
<1> QED
  BY <1>3, <1>8, <1>9, <1>10

\* The fields of a scenario.
LEMMA Fields ==
  ASSUME NEW k \in Key, NEW type \in ScenarioType, NEW start \in Nat, NEW duration \in Nat,
         NEW by \in {"auto", "direct"} \cup Click
  PROVE  [key |-> k, type |-> type, start |-> start, duration |-> duration, by |-> by]
           \in ActiveScenario
BY DEF ActiveScenario

\* What a budget offers is of its type.
LEMMA BudgetTypes ==
  ASSUME TableType, NEW type \in budget.types, NEW duration \in budget.durations
  PROVE  type \in ScenarioType /\ duration \in Nat
BY BudgetsAssumption DEF TableType

\* /inject makes one injection.
LEMMA InjectInjects ==
  ASSUME TableInv, NEW k \in Key, NEW type \in ScenarioType, NEW duration \in Nat,
         NEW by \in {"direct"} \cup Click, Inject(k, type, duration, by),
         UNCHANGED <<wall, budget>>
  PROVE  \E new : Injected(new) /\ Len(new) = 1 /\ new[1].by = by
<1> DEFINE sc == [key |-> k, type |-> type, start |-> wall, duration |-> duration, by |-> by]
<1>1. sc \in ActiveScenario
  BY Fields DEF TableInv, TableType
<1>2. PICK new : new = <<sc>>
  OBVIOUS
<1>3. new \in Seq(ActiveScenario) /\ Len(new) = 1 /\ DOMAIN new = {1} /\ new[1] = sc
  BY <1>1, <1>2
<1>4. log \in Seq(ActiveScenario) /\ Len(log) \in Nat /\ active \in [Key -> Nat]
  BY DEF TableInv, TableType
<1>5. log' = log \o new /\ Len(log') = Len(log) + 1
  BY <1>1, <1>2, <1>4 DEF Inject
<1>6. active' = [active EXCEPT ![k] = Len(log) + 1]
  BY <1>5 DEF Inject
<1>7. by # "auto"
  BY ClickAssumption
<1>8. shifts' = [e \in Entity |->
                  IF \E i \in DOMAIN new : new[i].key = e /\ new[i].type = "regime_change"
                  THEN shifts[e] + 1 ELSE shifts[e]]
  BY <1>3 DEF Inject, Shift
<1>9. \A x \in Key : IF Hit(new, x)
                     THEN \E i \in DOMAIN new : new[i].key = x /\ active'[x] = Len(log) + i
                     ELSE active'[x] \in {active[x], GetActive(x)}
  BY <1>3, <1>4, <1>6 DEF Hit
<1>10. active' \in [Key -> Nat]
  BY <1>4, <1>6
<1>11. lastCheck' = lastCheck
  BY DEF Inject
<1>12. /\ \A i, j \in DOMAIN new : new[i].key = new[j].key => i = j
       /\ \A i \in DOMAIN new : new[i].start = wall /\ new[i].by # "auto"
  BY <1>3, <1>7
<1>13. new[1].by = by
  BY <1>3
<1>14. Injected(new)
  BY <1>3, <1>5, <1>8, <1>9, <1>10, <1>11, <1>12 DEF Injected
<1> QED
  BY <1>3, <1>13, <1>14

\* The check of next_event injects what it spawns.
LEMMA SpawnInjects ==
  ASSUME TableInv, NEW e \in Entity, NextEvent(e)
  PROVE  /\ \E new : Injected(new) /\ \A i \in DOMAIN new : new[i].by = "auto"
         /\ \A k \in Entity : active'[k] # 0 => IsActive(log'[active'[k]], wall)
<1>1. PICK spawned \in IF CheckDue THEN SUBSET Idle ELSE {{}} :
         \E what \in [spawned -> (budget.types \X (budget.durations \ {0}))] :
            /\ \A x \in spawned : what[x][1] \in Pool(x)
            /\ Spawn(spawned, what)
  BY DEF NextEvent
<1>2. PICK what \in [spawned -> (budget.types \X (budget.durations \ {0}))] :
            /\ \A x \in spawned : what[x][1] \in Pool(x)
            /\ Spawn(spawned, what)
  BY <1>1
<1>3. /\ spawned \subseteq Idle /\ (spawned # {} => CheckDue)
  BY <1>1
<1>4. spawned \subseteq Entity /\ IsFiniteSet(spawned) /\ Entity \subseteq Key
  BY <1>3, KeysAssumption, FS_Subset DEF Idle, Key
<1>5. PICK order : /\ order = SetToSeq(spawned) /\ order \in Seq(spawned)
                   /\ \A i, j \in DOMAIN order : order[i] = order[j] => i = j
                   /\ \A x \in spawned : \E i \in DOMAIN order : order[i] = x
  BY <1>4, Listed
<1> DEFINE place(x) == Len(log) + CHOOSE i \in DOMAIN order : order[i] = x
           made(i)  == [key |-> order[i], type |-> what[order[i]][1], start |-> wall,
                        duration |-> what[order[i]][2], by |-> "auto"]
<1>6. PICK new : new = [i \in DOMAIN order |-> made(i)]
  OBVIOUS
<1>7. /\ lastCheck' = IF CheckDue THEN wall ELSE lastCheck
      /\ log' = log \o new
      /\ active' = [k \in Key |-> IF k \in spawned THEN place(k)
                                 ELSE IF k \in Entity THEN GetActive(k) ELSE active[k]]
      /\ shifts' = [x \in Entity |-> IF x \in spawned /\ Shift(x, what[x][1])
                                    THEN shifts[x] + 1 ELSE shifts[x]]
  BY <1>2, <1>5, <1>6 DEF Spawn
<1>8. Len(order) \in Nat /\ DOMAIN order = 1 .. Len(order) /\ \A i \in DOMAIN order : order[i] \in spawned
  BY <1>5
<1>9. \A x \in spawned : what[x][1] \in ScenarioType /\ what[x][2] \in Nat \ {0}
  <2> TAKE x \in spawned
  <2>1. what[x] \in budget.types \X (budget.durations \ {0})
    OBVIOUS
  <2>2. what[x][1] \in budget.types /\ what[x][2] \in budget.durations /\ what[x][2] # 0
    BY <2>1
  <2> QED
    BY <2>2, BudgetTypes DEF TableInv
<1>10. wall \in Nat /\ Len(log) \in Nat /\ active \in [Key -> Nat]
  BY DEF TableInv, TableType
<1>11. \A i \in DOMAIN order : made(i) \in ActiveScenario
  BY <1>4, <1>8, <1>9, <1>10, Fields
<1>12. DOMAIN new = DOMAIN order /\ \A i \in DOMAIN order : new[i] = made(i)
  BY <1>6
<1>13. new \in Seq(ActiveScenario)
  <2>1. new \in [1 .. Len(order) -> ActiveScenario]
    BY <1>6, <1>8, <1>11
  <2> QED
    BY <2>1, <1>8
<1>14. \A i \in DOMAIN new : /\ new[i].key = order[i] /\ new[i].type = what[order[i]][1]
                             /\ new[i].start = wall /\ new[i].by = "auto"
                             /\ new[i].duration = what[order[i]][2]
  BY <1>12
<1>15. \A i, j \in DOMAIN new : new[i].key = new[j].key => i = j
  BY <1>5, <1>12, <1>14
<1>16. \A k : Hit(new, k) <=> k \in spawned
  BY <1>5, <1>8, <1>12, <1>14 DEF Hit
<1>17. \A k \in spawned : \E i \in DOMAIN new : new[i].key = k /\ place(k) = Len(log) + i
  <2> TAKE k \in spawned
  <2>1. PICK i \in DOMAIN order : i = CHOOSE j \in DOMAIN order : order[j] = k
    BY <1>5
  <2>2. order[i] = k
    BY <1>5, <2>1
  <2>3. place(k) = Len(log) + i
    BY <2>1
  <2> QED
    BY <2>2, <2>3, <1>12, <1>14
<1>18. \A k \in Key : GetActive(k) \in Nat
  BY <1>10 DEF GetActive
<1>19. \A k \in Key : IF Hit(new, k)
                      THEN \E i \in DOMAIN new : new[i].key = k /\ active'[k] = Len(log) + i
                      ELSE active'[k] \in {active[k], GetActive(k)}
  <2> TAKE k \in Key
  <2> HIDE DEF place
  <2> QED
    BY <1>7, <1>16, <1>17
<1>20. active' \in [Key -> Nat]
  <2>1. \A k \in Key : active'[k] \in Nat
    <3> TAKE k \in Key
    <3>1. CASE k \in spawned
      <4>1. PICK i \in DOMAIN new : place(k) = Len(log) + i
        BY <3>1, <1>17
      <4>2. active'[k] = place(k)
        BY <3>1, <1>7
      <4>3. i \in Nat
        BY <1>8, <1>12
      <4> HIDE DEF place
      <4> QED
        BY <4>1, <4>2, <4>3, <1>10
    <3>2. CASE k \notin spawned
      BY <3>2, <1>7, <1>10, <1>18
    <3> QED
      BY <3>1, <3>2
  <2>2. DOMAIN active' = Key /\ active' = [k \in Key |-> active'[k]]
    BY <1>7
  <2> QED
    BY <2>1, <2>2
<1>21. shifts' = [x \in Entity |->
                  IF \E i \in DOMAIN new : new[i].key = x /\ new[i].type = "regime_change"
                  THEN shifts[x] + 1 ELSE shifts[x]]
  <2>1. \A x \in Entity : (x \in spawned /\ Shift(x, what[x][1]))
          <=> \E i \in DOMAIN new : new[i].key = x /\ new[i].type = "regime_change"
    <3> TAKE x \in Entity
    <3>1. Shift(x, what[x][1]) <=> what[x][1] = "regime_change"
      BY <1>4 DEF Shift
    <3> QED
      BY <3>1, <1>5, <1>8, <1>12, <1>14
  <2> QED
    BY <2>1, <1>7
<1>22. \A i \in DOMAIN new : /\ CheckDue /\ lastCheck' = wall
                             /\ new[i].type \in Pool(new[i].key) /\ GetActive(new[i].key) = 0
  <2> TAKE i \in DOMAIN new
  <2>1. order[i] \in spawned
    BY <1>8, <1>12
  <2>2. CheckDue /\ GetActive(order[i]) = 0 /\ what[order[i]][1] \in Pool(order[i])
    BY <2>1, <1>2, <1>3 DEF Idle
  <2> QED
    BY <2>2, <1>7, <1>14
<1>23. lastCheck' \in {lastCheck, wall} /\ UNCHANGED <<wall, budget>>
  BY <1>7 DEF NextEvent
<1>24. Injected(new)
  BY <1>7, <1>13, <1>14, <1>15, <1>19, <1>20, <1>21, <1>22, <1>23 DEF Injected
<1>25. PICK z : z = log \o new
  OBVIOUS
<1>26. /\ \A i \in DOMAIN log : i \in DOMAIN z /\ z[i] = log[i]
      /\ \A i \in DOMAIN new : z[Len(log) + i] = new[i]
  <2>1. log \in Seq(ActiveScenario)
    BY DEF TableInv, TableType
  <2> QED
    BY <2>1, <1>13, <1>25, JoinedLog
<1>27. ASSUME NEW k \in Entity, active'[k] # 0
       PROVE  IsActive(z[active'[k]], wall)
  <2>1. CASE k \in spawned
    <3>1. PICK i \in DOMAIN new : new[i].key = k /\ active'[k] = Len(log) + i
      BY <2>1, <1>4, <1>16, <1>19
    <3>2. z[active'[k]] = new[i]
      BY <3>1, <1>26
    <3>3. new[i].start = wall /\ new[i].duration \in Nat \ {0}
      BY <1>8, <1>9, <1>12, <1>14
    <3> QED
      BY <3>2, <3>3, <1>10 DEF IsActive
  <2>2. CASE k \notin spawned
    <3>1. active'[k] = GetActive(k)
      BY <2>2, <1>4, <1>7
    <3>2. active'[k] = active[k] /\ IsActive(log[active[k]], wall)
      BY <3>1, <1>27 DEF GetActive
    <3>3. Latest(log, k, active[k])
      BY <3>2, <1>4, <1>27 DEF TableInv
    <3> QED
      BY <3>2, <3>3, <1>26 DEF Latest
  <2> QED
    BY <2>1, <2>2
<1>28. log' = z
  BY <1>7, <1>25
<1>29. \A i \in DOMAIN new : new[i].by = "auto"
  BY <1>14
<1> QED
  BY <1>24, <1>27, <1>28, <1>29
-----------------------------------------------------------------------------
(* What injections preserve *)

\* The log after an injection.
LEMMA LogGrows ==
  ASSUME TableType, NEW new, Injected(new)
  PROVE  /\ log' \in Seq(ActiveScenario) /\ Len(log') = Len(log) + Len(new)
         /\ Len(log) \in Nat /\ Len(new) \in Nat /\ Len(log') \in Nat
         /\ DOMAIN log = 1 .. Len(log) /\ DOMAIN new = 1 .. Len(new)
         /\ DOMAIN log' = 1 .. Len(log')
         /\ \A i \in DOMAIN log : i \in DOMAIN log' /\ log'[i] = log[i]
         /\ \A i \in DOMAIN new : Len(log) + i \in DOMAIN log' /\ log'[Len(log) + i] = new[i]
         /\ \A i \in DOMAIN log' : i \in DOMAIN log \/ \E j \in DOMAIN new : i = Len(log) + j
<1>1. log \in Seq(ActiveScenario) /\ new \in Seq(ActiveScenario) /\ log' = log \o new
  BY DEF TableType, Injected
<1>2. /\ log' \in Seq(ActiveScenario) /\ Len(log') = Len(log) + Len(new)
      /\ \A i \in DOMAIN log : i \in DOMAIN log' /\ log'[i] = log[i]
      /\ \A i \in DOMAIN new : Len(log) + i \in DOMAIN log' /\ log'[Len(log) + i] = new[i]
      /\ \A i \in DOMAIN log' : i \in DOMAIN log \/ \E j \in DOMAIN new : i = Len(log) + j
  <2>1. PICK z : z = log \o new
    OBVIOUS
  <2>2. log' = z
    BY <1>1, <2>1
  <2>3. z \in Seq(ActiveScenario) /\ Len(z) = Len(log) + Len(new)
    BY <1>1, <2>1, JoinedLog
  <2>4. \A i \in DOMAIN log : i \in DOMAIN z /\ z[i] = log[i]
    BY <1>1, <2>1, JoinedLog
  <2>5. \A i \in DOMAIN new : Len(log) + i \in DOMAIN z /\ z[Len(log) + i] = new[i]
    BY <1>1, <2>1, JoinedLog
  <2>6. \A i \in DOMAIN z : i \in DOMAIN log \/ \E j \in DOMAIN new : i = Len(log) + j
    <3>1. \A i \in DOMAIN z : i \in DOMAIN log \/ i - Len(log) \in DOMAIN new
      BY <1>1, <2>1, JoinedLog
    <3>2. \A i \in DOMAIN z : i = Len(log) + (i - Len(log))
      BY <1>1, <2>3
    <3> QED
      BY <3>1, <3>2
  <2> QED
    BY <2>2, <2>3, <2>4, <2>5, <2>6
<1> QED
  BY <1>1, <1>2

\* An entry that get_active answers 0 for is missing or over.
LEMMA Over ==
  ASSUME TableInv, NEW k \in Key, GetActive(k) = 0
  PROVE  \/ \A i \in DOMAIN log : log[i].key # k
         \/ \E i \in DOMAIN log : Latest(log, k, i) /\ wall >= End(log[i])
<1>1. CASE active[k] = 0
  BY <1>1 DEF TableInv
<1>2. CASE active[k] # 0
  <2>1. Latest(log, k, active[k]) /\ active[k] \in DOMAIN log
    BY <1>2 DEF TableInv, Latest
  <2>2. ~IsActive(log[active[k]], wall)
    BY <1>2 DEF GetActive
  <2>3. /\ log[active[k]].start <= wall /\ log[active[k]].start \in Nat
        /\ log[active[k]].duration \in Nat /\ wall \in Nat
    BY <2>1, InjectionFields DEF TableInv, TableType
  <2>4. wall >= End(log[active[k]])
    BY <2>2, <2>3 DEF IsActive, End
  <2> QED
    BY <2>1, <2>4
<1> QED
  BY <1>1, <1>2

\* An injection keeps the table.
LEMMA TableKept ==
  ASSUME TableInv, NEW new, Injected(new)
  PROVE  TableInv'
<1>0. TableType
  BY DEF TableInv
<1>1. /\ wall \in Nat /\ lastCheck \in Nat /\ lastCheck <= wall /\ budget \in Budgets
      /\ active \in [Key -> 0 .. Len(log)] /\ shifts \in [Entity -> Nat]
  BY DEF TableInv, TableType
<1>2. /\ log' \in Seq(ActiveScenario) /\ Len(log') = Len(log) + Len(new)
      /\ Len(log) \in Nat /\ Len(new) \in Nat /\ Len(log') \in Nat
      /\ DOMAIN log = 1 .. Len(log) /\ DOMAIN new = 1 .. Len(new)
      /\ DOMAIN log' = 1 .. Len(log')
      /\ \A i \in DOMAIN log : i \in DOMAIN log' /\ log'[i] = log[i]
      /\ \A i \in DOMAIN new : Len(log) + i \in DOMAIN log' /\ log'[Len(log) + i] = new[i]
      /\ \A i \in DOMAIN log' : i \in DOMAIN log \/ \E j \in DOMAIN new : i = Len(log) + j
  BY <1>0, LogGrows
<1>3. wall' = wall /\ lastCheck' \in {lastCheck, wall} /\ budget' = budget
  BY DEF Injected
<1>4. \A i \in DOMAIN log' : log'[i].start <= wall'
  <2>1. \A i \in DOMAIN log : log[i].start <= wall
    BY DEF TableInv
  <2>2. \A i \in DOMAIN new : new[i].start <= wall
    BY <1>1 DEF Injected
  <2> QED
    BY <1>2, <1>3, <2>1, <2>2
<1>5. ASSUME NEW k \in Key, NEW i \in DOMAIN new, new[i].key = k
      PROVE  Latest(log', k, Len(log) + i)
  <2>1. \A j \in DOMAIN new : new[j].key = k => j = i
    BY <1>5 DEF Injected
  <2>2. Len(log) + i \in DOMAIN log' /\ log'[Len(log) + i].key = k
    BY <1>2, <1>5
  <2>3. \A j \in DOMAIN log : j <= Len(log) + i
    BY <1>2
  <2>4. \A j \in DOMAIN log' : log'[j].key = k => j <= Len(log) + i
    <3> SUFFICES ASSUME NEW j \in DOMAIN log', log'[j].key = k
                 PROVE  j <= Len(log) + i
      OBVIOUS
    <3>1. CASE j \in DOMAIN log
      BY <3>1, <2>3
    <3>2. CASE \E n \in DOMAIN new : j = Len(log) + n
      <4>1. PICK n \in DOMAIN new : j = Len(log) + n
        BY <3>2
      <4>2. n = i
        BY <4>1, <2>1, <1>2
      <4> QED
        BY <4>1, <4>2, <1>2
    <3> QED
      BY <3>1, <3>2, <1>2
  <2> QED
    BY <2>2, <2>4 DEF Latest
<1>6. ASSUME NEW k \in Key, ~Hit(new, k)
      PROVE  /\ \A i \in DOMAIN log' : log'[i].key = k => i \in DOMAIN log
             /\ \A i : Latest(log, k, i) => Latest(log', k, i)
  <2>1. \A i \in DOMAIN log' : log'[i].key = k => i \in DOMAIN log
    BY <1>2, <1>6 DEF Hit
  <2> QED
    BY <2>1, <1>2 DEF Latest
<1>7. ASSUME NEW k \in Key
      PROVE  active'[k] \in 0 .. Len(log') /\ (active'[k] # 0 => Latest(log', k, active'[k]))
  <2>1. CASE Hit(new, k)
    <3>1. PICK i \in DOMAIN new : new[i].key = k /\ active'[k] = Len(log) + i
      BY <2>1 DEF Injected
    <3> QED
      BY <3>1, <1>2, <1>5
  <2>2. CASE ~Hit(new, k)
    <3>1. active'[k] \in {active[k], 0}
      BY <2>2 DEF Injected, GetActive
    <3>2. active[k] # 0 => Latest(log', k, active[k])
      BY <2>2, <1>6 DEF TableInv
    <3> QED
      BY <3>1, <3>2, <1>1, <1>2
  <2> QED
    BY <2>1, <2>2
<1>8. ASSUME NEW k \in Key, active'[k] = 0
      PROVE  \/ \A i \in DOMAIN log' : log'[i].key # k
             \/ \E i \in DOMAIN log' : Latest(log', k, i) /\ wall' >= End(log'[i])
  <2>1. ~Hit(new, k)
    <3> SUFFICES ASSUME Hit(new, k)
                 PROVE  FALSE
      OBVIOUS
    <3>1. PICK i \in DOMAIN new : active'[k] = Len(log) + i
      BY DEF Injected
    <3> QED
      BY <3>1, <1>2, <1>8
  <2>2. active'[k] \in {active[k], GetActive(k)}
    BY <2>1 DEF Injected
  <2>3. GetActive(k) = 0
    BY <2>2, <1>8 DEF GetActive
  <2>4. \/ \A i \in DOMAIN log : log[i].key # k
        \/ \E i \in DOMAIN log : Latest(log, k, i) /\ wall >= End(log[i])
    BY <2>3, Over
  <2>5. CASE \A i \in DOMAIN log : log[i].key # k
    BY <2>1, <2>5, <1>2, <1>6
  <2>6. CASE \E i \in DOMAIN log : Latest(log, k, i) /\ wall >= End(log[i])
    BY <2>1, <2>6, <1>2, <1>3, <1>6 DEF End
  <2> QED
    BY <2>4, <2>5, <2>6
<1>9. active' \in [Key -> 0 .. Len(log')]
  <2>1. active' \in [Key -> Nat]
    BY DEF Injected
  <2> QED
    BY <2>1, <1>7
<1>10. shifts' \in [Entity -> Nat]
  BY <1>1 DEF Injected
<1>11. TableType'
  BY <1>1, <1>2, <1>3, <1>9, <1>10 DEF TableType
<1> QED
  BY <1>4, <1>7, <1>8, <1>11 DEF TableInv

\* Automatic injections keep their place, old and new.
LEMMA SpawnKept ==
  ASSUME TableInv, SpawnInv, NEW new, Injected(new)
  PROVE  SpawnInv'
<1>0. TableType
  BY DEF TableInv
<1>1. wall \in Nat /\ lastCheck \in Nat /\ lastCheck <= wall /\ Second \in Nat
  BY SecondAssumption DEF TableInv, TableType
<1>2. /\ Len(log') = Len(log) + Len(new)
      /\ Len(log) \in Nat /\ Len(new) \in Nat /\ Len(log') \in Nat
      /\ DOMAIN log = 1 .. Len(log) /\ DOMAIN new = 1 .. Len(new)
      /\ DOMAIN log' = 1 .. Len(log')
      /\ \A i \in DOMAIN log : i \in DOMAIN log' /\ log'[i] = log[i]
      /\ \A i \in DOMAIN new : Len(log) + i \in DOMAIN log' /\ log'[Len(log) + i] = new[i]
      /\ \A i \in DOMAIN log' : i \in DOMAIN log \/ \E j \in DOMAIN new : i = Len(log) + j
  BY <1>0, LogGrows
<1>3. ASSUME NEW i \in DOMAIN log, log[i].by = "auto"
      PROVE  /\ log[i].type \in Pool(log[i].key) /\ log[i].start \in Nat
             /\ Governs(log', log[i].key, log[i].start, i - 1, 0)
             /\ log[i].start <= lastCheck /\ log[i].start <= lastCheck'
  <2>1. /\ log[i].type \in Pool(log[i].key) /\ Governs(log, log[i].key, log[i].start, i - 1, 0)
        /\ log[i].start <= lastCheck
    BY <1>3 DEF SpawnInv
  <2>2. log[i].start \in Nat
    BY <1>0, InjectionFields
  <2>3. \A j \in 1 .. i - 1 : log'[j] = log[j]
    BY <1>2
  <2>4. Governs(log', log[i].key, log[i].start, i - 1, 0)
    BY <2>1, <2>3, GovernsKept
  <2>5. lastCheck' \in {lastCheck, wall}
    BY DEF Injected
  <2> QED
    BY <2>1, <2>2, <2>4, <2>5, <1>1
<1>4. ASSUME NEW i \in DOMAIN new, new[i].by = "auto"
      PROVE  /\ new[i].type \in Pool(new[i].key) /\ new[i].start = wall
             /\ Governs(log', new[i].key, new[i].start, Len(log) + i - 1, 0)
             /\ lastCheck' = wall /\ wall >= lastCheck + Second
  <2>1. /\ wall >= lastCheck + Second /\ lastCheck' = wall /\ new[i].start = wall
        /\ new[i].type \in Pool(new[i].key) /\ GetActive(new[i].key) = 0
        /\ new \in Seq(ActiveScenario)
        /\ \A j \in DOMAIN new : new[i].key = new[j].key => i = j
    BY <1>4 DEF Injected, CheckDue
  <2> DEFINE k == new[i].key
  <2>2. k \in Key
    <3>1. new[i] \in ActiveScenario
      BY <2>1
    <3> QED
      BY <3>1 DEF ActiveScenario
  <2>3. Governs(log, k, wall, Len(log), 0)
    BY <2>1, <2>2, InForce
  <2>4. \A j \in 1 .. Len(log) : log'[j] = log[j]
    BY <1>2
  <2>5. Governs(log', k, wall, Len(log), 0)
    BY <2>3, <2>4, GovernsKept
  <2>6. Own(log', k, wall, Len(log) + i - 1) = Own(log', k, wall, Len(log))
    <3>1. ASSUME NEW j \in 1 .. (Len(log) + i - 1), j \notin 1 .. Len(log)
          PROVE  log'[j].key # k
      <4>1. j \in DOMAIN log'
        BY <1>2
      <4>2. PICK n \in DOMAIN new : j = Len(log) + n
        BY <3>1, <4>1, <1>2
      <4>3. n # i
        BY <4>2, <1>2
      <4>4. new[n].key # k
        BY <4>3, <2>1
      <4> QED
        BY <4>2, <4>4, <1>2
    <3>2. 1 .. Len(log) \subseteq 1 .. (Len(log) + i - 1)
      BY <1>2
    <3> QED
      BY <3>1, <3>2 DEF Own
  <2>7. Governs(log', k, wall, Len(log) + i - 1, 0)
    BY <2>5, <2>6 DEF Governs
  <2> QED
    BY <2>1, <2>7
<1>5. ASSUME NEW i \in DOMAIN log', log'[i].by = "auto"
      PROVE  /\ log'[i].type \in Pool(log'[i].key)
             /\ Governs(log', log'[i].key, log'[i].start, i - 1, 0)
             /\ log'[i].start <= lastCheck' /\ log'[i].start \in Nat
             /\ \/ i \in DOMAIN log /\ log'[i] = log[i]
                \/ log'[i].start = wall /\ wall >= lastCheck + Second
  <2>1. CASE i \in DOMAIN log
    BY <2>1, <1>2, <1>3, <1>5
  <2>2. CASE \E j \in DOMAIN new : i = Len(log) + j
    <3>1. PICK j \in DOMAIN new : i = Len(log) + j
      BY <2>2
    <3>2. log'[i] = new[j] /\ new[j].by = "auto"
      BY <3>1, <1>2, <1>5
    <3>3. /\ new[j].type \in Pool(new[j].key) /\ new[j].start = wall
          /\ Governs(log', new[j].key, new[j].start, Len(log) + j - 1, 0)
          /\ lastCheck' = wall /\ wall >= lastCheck + Second
      BY <3>2, <1>4
    <3>4. Governs(log', log'[i].key, log'[i].start, i - 1, 0)
      BY <3>1, <3>2, <3>3, SMTT(30)
    <3> QED
      BY <3>2, <3>3, <3>4, <1>1
  <2> QED
    BY <2>1, <2>2, <1>2
<1>6. ASSUME NEW i \in DOMAIN log', log'[i].by = "auto", NEW j \in DOMAIN log', log'[j].by = "auto",
             log'[j].start # log'[i].start
      PROVE  log'[j].start >= log'[i].start + Second \/ log'[i].start >= log'[j].start + Second
  <2>1. CASE i \in DOMAIN log /\ log'[i] = log[i] /\ j \in DOMAIN log /\ log'[j] = log[j]
    BY <2>1, <1>6 DEF SpawnInv
  <2>2. CASE log'[i].start = wall /\ wall >= lastCheck + Second
    <3>1. CASE j \in DOMAIN log /\ log'[j] = log[j]
      BY <2>2, <3>1, <1>1, <1>3, <1>6
    <3>2. CASE log'[j].start = wall
      BY <2>2, <3>2, <1>6
    <3> QED
      BY <3>1, <3>2, <1>5, <1>6
  <2>3. CASE log'[j].start = wall /\ wall >= lastCheck + Second /\ i \in DOMAIN log /\ log'[i] = log[i]
    BY <2>3, <1>1, <1>3, <1>6
  <2> QED
    BY <2>1, <2>2, <2>3, <1>5, <1>6
<1> QED
  BY <1>5, <1>6 DEF SpawnInv

\* Injections are counted: the regime changes of an entity, and those of one origin.
LEMMA ShiftsKept ==
  ASSUME TableType, ShiftsAreRegimeChanges, NEW new, Injected(new)
  PROVE  ShiftsAreRegimeChanges'
<1> DEFINE Regimes(l, e) == {i \in DOMAIN l : l[i].key = e /\ l[i].type = "regime_change"}
<1>1. /\ Len(log) \in Nat /\ Len(new) \in Nat
      /\ DOMAIN log = 1 .. Len(log) /\ DOMAIN new = 1 .. Len(new)
      /\ \A i \in DOMAIN log : i \in DOMAIN log' /\ log'[i] = log[i]
      /\ \A i \in DOMAIN new : Len(log) + i \in DOMAIN log' /\ log'[Len(log) + i] = new[i]
      /\ \A i \in DOMAIN log' : i \in DOMAIN log \/ \E j \in DOMAIN new : i = Len(log) + j
  BY LogGrows
<1> SUFFICES ASSUME NEW e \in Entity
             PROVE  shifts'[e] = Cardinality(Regimes(log', e))
  BY DEF ShiftsAreRegimeChanges
<1>2. shifts[e] = Cardinality(Regimes(log, e))
  BY DEF ShiftsAreRegimeChanges
<1>3. IsFiniteSet(Regimes(log, e))
  <2>1. Regimes(log, e) \in SUBSET (1 .. Len(log))
    BY <1>1
  <2>2. IsFiniteSet(1 .. Len(log))
    BY <1>1, FS_Interval
  <2> QED
    BY <2>1, <2>2, FS_Subset
<1>4. CASE \E i \in DOMAIN new : new[i].key = e /\ new[i].type = "regime_change"
  <2>1. PICK i \in DOMAIN new : new[i].key = e /\ new[i].type = "regime_change"
    BY <1>4
  <2>2. \A j \in DOMAIN new : new[j].key = e => j = i
    BY <2>1 DEF Injected
  <2>3. Regimes(log', e) = Regimes(log, e) \cup {Len(log) + i}
    BY <1>1, <2>1, <2>2
  <2>4. Len(log) + i \notin Regimes(log, e)
    BY <1>1
  <2>5. shifts'[e] = shifts[e] + 1
    BY <1>4 DEF Injected
  <2> HIDE DEF Regimes
  <2> QED
    BY <1>2, <1>3, <2>3, <2>4, <2>5, FS_AddElement
<1>5. CASE ~\E i \in DOMAIN new : new[i].key = e /\ new[i].type = "regime_change"
  <2>1. Regimes(log', e) = Regimes(log, e)
    BY <1>1, <1>5
  <2>2. shifts'[e] = shifts[e]
    BY <1>5 DEF Injected
  <2> QED
    BY <1>2, <2>1, <2>2
<1> QED
  BY <1>4, <1>5

\* How often somebody injected, after an injection.
LEMMA ByCounts ==
  ASSUME TableType, NEW new, Injected(new), NEW who
  PROVE  /\ By(who) \in Nat
         /\ (\A i \in DOMAIN new : new[i].by # who) => By(who)' = By(who)
         /\ (Len(new) = 1 /\ new[1].by = who) => By(who)' = By(who) + 1
<1> DEFINE Made(l) == {i \in DOMAIN l : l[i].by = who}
<1>1. /\ Len(log) \in Nat /\ Len(new) \in Nat
      /\ DOMAIN log = 1 .. Len(log) /\ DOMAIN new = 1 .. Len(new)
      /\ \A i \in DOMAIN log : i \in DOMAIN log' /\ log'[i] = log[i]
      /\ \A i \in DOMAIN new : Len(log) + i \in DOMAIN log' /\ log'[Len(log) + i] = new[i]
      /\ \A i \in DOMAIN log' : i \in DOMAIN log \/ \E j \in DOMAIN new : i = Len(log) + j
  BY LogGrows
<1>2. By(who) = Cardinality(Made(log)) /\ By(who)' = Cardinality(Made(log'))
  BY DEF By
<1>3. IsFiniteSet(Made(log))
  <2>1. Made(log) \in SUBSET (1 .. Len(log))
    BY <1>1
  <2>2. IsFiniteSet(1 .. Len(log))
    BY <1>1, FS_Interval
  <2> QED
    BY <2>1, <2>2, FS_Subset
<1>4. By(who) \in Nat
  BY <1>2, <1>3, FS_CardinalityType
<1>5. ASSUME \A i \in DOMAIN new : new[i].by # who
      PROVE  By(who)' = By(who)
  <2>1. Made(log') = Made(log)
    BY <1>1, <1>5
  <2> QED
    BY <1>2, <2>1
<1>6. ASSUME Len(new) = 1, new[1].by = who
      PROVE  By(who)' = By(who) + 1
  <2>1. DOMAIN new = {1}
    BY <1>1, <1>6
  <2>2. Made(log') = Made(log) \cup {Len(log) + 1}
    BY <1>1, <1>6, <2>1
  <2>3. Len(log) + 1 \notin Made(log)
    BY <1>1
  <2> HIDE DEF Made
  <2> QED
    BY <1>2, <1>3, <2>2, <2>3, FS_AddElement
<1> QED
  BY <1>4, <1>5, <1>6

\* What an event's label says of the log it was read from.
LEMMA LabelPlace ==
  ASSUME TableType, EventInv, NEW e \in Entity, NEW x \in event[e]
  PROVE  /\ x \in EventRecord /\ x.known \in 0 .. Len(log) /\ x.under \in 0 .. x.known
         /\ x.at \in Nat /\ x.cluster \in Nat /\ x.clean \in Nat
<1>1. x \in EventRecord /\ x.known <= Len(log) /\ Governs(log, e, x.at, x.known, x.under)
  BY DEF EventInv
<1>2. x.known \in Nat /\ x.under \in Nat /\ x.at \in Nat /\ x.cluster \in Nat /\ x.clean \in Nat
  BY <1>1 DEF EventRecord
<1>3. log \in Seq(ActiveScenario)
  BY DEF TableType
<1>4. x.under \in 0 .. x.known
  BY <1>1, <1>2 DEF Governs, Own
<1> QED
  BY <1>1, <1>2, <1>3, <1>4

\* An event of before is what it was, after an injection.
LEMMA OldEvent ==
  ASSUME TableType, EventInv, NEW new, Injected(new), NEW e \in Entity, NEW x \in event[e]
  PROVE  /\ x.at <= wall' /\ x.known <= Len(log')
         /\ Governs(log', e, x.at, x.known, x.under)
         /\ \A i \in 1 .. x.known : log'[i] = log[i] /\ log'[i].start <= x.at
<1>1. x.known \in 0 .. Len(log) /\ x.at \in Nat
  BY LabelPlace
<1>2. /\ x.at <= wall /\ Governs(log, e, x.at, x.known, x.under)
      /\ \A i \in 1 .. x.known : log[i].start <= x.at
  BY DEF EventInv
<1>3. /\ Len(log) \in Nat /\ Len(new) \in Nat /\ Len(log') = Len(log) + Len(new)
      /\ DOMAIN log = 1 .. Len(log)
      /\ \A i \in DOMAIN log : log'[i] = log[i]
  BY LogGrows
<1>4. \A i \in 1 .. x.known : log'[i] = log[i]
  BY <1>1, <1>3
<1>5. Governs(log', e, x.at, x.known, x.under)
  BY <1>2, <1>4, GovernsKept
<1>6. wall' = wall
  BY DEF Injected
<1> QED
  BY <1>1, <1>2, <1>3, <1>4, <1>5, <1>6

\* What ClusterInv says of one event x of merchant e, with the log l.
OwnCluster(l, e, x) ==
  /\ x.cluster = 0 => (x.under = 0 \/ l[x.under].type # "fraud_pattern") /\ x.clean = x.known
  /\ x.cluster # 0 => /\ x.clean < x.cluster /\ x.cluster <= x.under
                      /\ l[x.cluster].key = e /\ l[x.cluster].type = "fraud_pattern"

\* The cluster of an event of before is its own, after an injection.
LEMMA OldCluster ==
  ASSUME TableType, EventInv, ClusterInv, NEW new, Injected(new),
         NEW e \in Payments, NEW x \in event[e]
  PROVE  x.cluster = compromised[e] /\ OwnCluster(log', e, x)
<1>1. e \in Entity
  BY DEF Entity
<1>2. /\ x.known \in 0 .. Len(log) /\ x.under \in 0 .. x.known
      /\ x.cluster \in Nat /\ x.clean \in Nat
  BY <1>1, LabelPlace
<1>3. \A i \in 1 .. x.known : log'[i] = log[i]
  BY <1>1, OldEvent
<1>4. x.cluster = compromised[e] /\ OwnCluster(log, e, x)
  BY DEF ClusterInv, OwnCluster
<1>5. log \in Seq(ActiveScenario)
  BY DEF TableType
<1>6. x.under # 0 => log'[x.under] = log[x.under]
  BY <1>2, <1>3, <1>5
<1>7. x.cluster # 0 => log'[x.cluster] = log[x.cluster]
  <2>1. x.cluster # 0 => x.cluster \in 1 .. x.known
    BY <1>2, <1>4, <1>5 DEF OwnCluster
  <2> QED
    BY <2>1, <1>3
<1> QED
  BY <1>4, <1>6, <1>7 DEF OwnCluster

(* /inject leaves events and clusters alone. *)
LEMMA InjectKeeps ==
  ASSUME ScenariosInv, NEW new, Injected(new), UNCHANGED <<event, compromised>>
  PROVE  ScenariosInv'
<1>1. TableType /\ TableInv /\ SpawnInv /\ ShiftsAreRegimeChanges /\ EventInv /\ ClusterInv
  BY DEF ScenariosInv, TableInv
<1>2. TableInv' /\ SpawnInv' /\ ShiftsAreRegimeChanges'
  BY <1>1, TableKept, SpawnKept, ShiftsKept
<1>3. EventInv'
  <2>1. event' \in [Entity -> SUBSET EventRecord]
    BY <1>1 DEF EventInv
  <2>2. ASSUME NEW e \in Entity, NEW x \in event'[e]
        PROVE  /\ x.at <= wall' /\ x.known <= Len(log')
               /\ \A i \in 1 .. x.known : log'[i].start <= x.at
               /\ Governs(log', e, x.at, x.known, x.under)
               /\ \A y \in event'[e] : x = y
    <3>1. x \in event[e] /\ event' = event
      OBVIOUS
    <3>2. \A y \in event[e] : x = y
      BY <1>1, <3>1 DEF EventInv
    <3> QED
      BY <1>1, <3>1, <3>2, OldEvent
  <2> QED
    BY <2>1, <2>2 DEF EventInv
<1>4. ClusterInv'
  <2>1. compromised' = compromised /\ event' = event /\ compromised \in [Payments -> Nat]
    BY <1>1 DEF ClusterInv
  <2>2. \A e \in Payments : \A x \in event[e] : x.cluster = compromised[e] /\ OwnCluster(log', e, x)
    BY <1>1, OldCluster
  <2>3. \A e \in Payments : event[e] = {} => compromised[e] = 0
    BY <1>1 DEF ClusterInv
  <2> QED
    BY <2>1, <2>2, <2>3 DEF ClusterInv, OwnCluster
<1> QED
  BY <1>2, <1>3, <1>4 DEF ScenariosInv

(* Time passes: what is over stays over. *)
LEMMA TickKeeps ==
  ASSUME ScenariosInv, Tick
  PROVE  ScenariosInv'
<1>1. TableType /\ TableInv /\ SpawnInv /\ ShiftsAreRegimeChanges /\ EventInv /\ ClusterInv
  BY DEF ScenariosInv, TableInv
<1>2. /\ wall \in Nat /\ wall' = wall + 1
      /\ UNCHANGED <<active, lastCheck, shifts, compromised, log, event, budget>>
  BY <1>1 DEF Tick, genVars, TableType
<1>3. TableType'
  BY <1>1, <1>2 DEF TableType
<1>4. \A i \in DOMAIN log : log[i].start \in Nat /\ log[i].duration \in Nat /\ End(log[i]) \in Nat
  BY <1>1, InjectionFields DEF End
<1>5. TableInv'
  <2>1. \A i \in DOMAIN log' : log'[i].start <= wall'
    BY <1>1, <1>2, <1>4 DEF TableInv
  <2>2. \A k \in Key : active'[k] # 0 => Latest(log', k, active'[k])
    BY <1>1, <1>2 DEF TableInv
  <2>3. ASSUME NEW k \in Key, active'[k] = 0
        PROVE  \/ \A i \in DOMAIN log' : log'[i].key # k
               \/ \E i \in DOMAIN log' : Latest(log', k, i) /\ wall' >= End(log'[i])
    <3>1. \/ \A i \in DOMAIN log : log[i].key # k
          \/ \E i \in DOMAIN log : Latest(log, k, i) /\ wall >= End(log[i])
      BY <1>1, <1>2, <2>3 DEF TableInv
    <3>2. CASE \A i \in DOMAIN log : log[i].key # k
      BY <1>2, <3>2
    <3>3. CASE \E i \in DOMAIN log : Latest(log, k, i) /\ wall >= End(log[i])
      <4>1. PICK i \in DOMAIN log : Latest(log, k, i) /\ wall >= End(log[i])
        BY <3>3
      <4>2. wall + 1 >= End(log[i])
        BY <4>1, <1>2, <1>4
      <4> QED
        BY <4>1, <4>2, <1>2
    <3> QED
      BY <3>1, <3>2, <3>3
  <2> QED
    BY <1>3, <2>1, <2>2, <2>3 DEF TableInv
<1>6. SpawnInv' /\ ClusterInv'
  BY <1>1, <1>2 DEF SpawnInv, ClusterInv
<1>7. ShiftsAreRegimeChanges'
  BY <1>1, <1>2 DEF ShiftsAreRegimeChanges
<1>8. EventInv'
  <2>1. ASSUME NEW e \in Entity, NEW x \in event[e]
        PROVE  x.at <= wall'
    <3>1. x.at <= wall /\ x.at \in Nat
      BY <1>1, <2>1, LabelPlace DEF EventInv
    <3> QED
      BY <1>2, <3>1
  <2> QED
    BY <1>1, <1>2, <2>1 DEF EventInv
<1> QED
  BY <1>5, <1>6, <1>7, <1>8 DEF ScenariosInv
-----------------------------------------------------------------------------
(* next_event *)

\* The event carries the label of this moment.
LEMMA EventLabel ==
  ASSUME TableInv, NEW e \in Entity, NextEvent(e), TableInv'
  PROVE  /\ Governs(log', e, wall, Len(log'), active'[e])
         /\ active'[e] # 0 => Latest(log', e, active'[e]) /\ wall < End(log'[active'[e]])
<1> DEFINE n == active'[e]
           own == Own(log', e, wall, Len(log'))
<1>1. e \in Key /\ wall' = wall
  BY DEF Key, NextEvent
<1>2. log' \in Seq(ActiveScenario)
  BY DEF TableInv, TableType
<1>3. Len(log') \in Nat /\ DOMAIN log' = 1 .. Len(log')
  BY <1>2
<1>4. own = {i \in DOMAIN log' : log'[i].key = e}
  BY <1>1, <1>3 DEF Own, TableInv
<1>5. \A i : Latest(log', e, i) => i \in own /\ \A j \in own : j <= i
  BY <1>4 DEF Latest
<1>6. CASE n = 0
  <2>1. \/ \A i \in DOMAIN log' : log'[i].key # e
        \/ \E i \in DOMAIN log' : Latest(log', e, i) /\ wall' >= End(log'[i])
    BY <1>1, <1>6 DEF TableInv
  <2> HIDE DEF own
  <2>2. own = {} \/ \E i \in own : (\A j \in own : j <= i) /\ wall >= End(log'[i])
    BY <2>1, <1>1, <1>4, <1>5
  <2> QED
    BY <2>2, <1>6 DEF Governs, own
<1>7. CASE n # 0
  <2>1. Latest(log', e, n)
    BY <1>1, <1>7 DEF TableInv
  <2>2. IsActive(log'[n], wall)
    BY <1>7, SpawnInjects
  <2>3. wall < End(log'[n])
    BY <2>2 DEF IsActive, End
  <2> QED
    BY <2>1, <2>3, <1>5, <1>7 DEF Governs
<1> QED
  BY <1>6, <1>7

\* The cluster a fraud hits is its own, or one that no event without fraud has ended.
LEMMA NewCluster ==
  ASSUME ScenariosInv, NEW e \in Payments, NextEvent(e), TableInv',
         NEW n, n = active'[e], NEW c, c = Cluster(e, n)
  PROVE  /\ c \in Nat
         /\ c = 0 => n = 0 \/ log'[n].type # "fraud_pattern"
         /\ c # 0 => /\ CleanSince(e) \in Nat /\ CleanSince(e) < c /\ c <= n
                     /\ log'[c].key = e /\ log'[c].type = "fraud_pattern"
                     /\ \A y \in event[e] : y.under = n => y.cluster = c
<1>0. e \in Entity /\ e \in Key
  BY DEF Entity, Key
<1>1. TableType /\ TableInv /\ EventInv /\ ClusterInv
  BY DEF ScenariosInv, TableInv
<1>2. PICK new : Injected(new)
  BY <1>0, <1>1, SpawnInjects
<1>3. /\ Len(log) \in Nat /\ DOMAIN log = 1 .. Len(log)
      /\ \A i \in DOMAIN log : i \in DOMAIN log' /\ log'[i] = log[i]
  BY <1>1, <1>2, LogGrows
<1>4. n \in Nat /\ compromised[e] \in Nat
  BY <1>0, <1>1, <1>2 DEF Injected, ClusterInv
<1>5. c = IF n = 0 \/ log'[n].type # "fraud_pattern" THEN 0
          ELSE IF compromised[e] = 0 THEN n ELSE compromised[e]
  BY DEF Cluster
<1>6. c \in Nat /\ (c = 0 => n = 0 \/ log'[n].type # "fraud_pattern")
  BY <1>4, <1>5
<1>7. ASSUME c # 0
      PROVE  /\ CleanSince(e) \in Nat /\ CleanSince(e) < c /\ c <= n
             /\ log'[c].key = e /\ log'[c].type = "fraud_pattern"
             /\ \A y \in event[e] : y.under = n => y.cluster = c
  <2>1. n # 0 /\ log'[n].type = "fraud_pattern" /\ c = IF compromised[e] = 0 THEN n ELSE compromised[e]
    BY <1>5, <1>7
  <2>2. Latest(log', e, n) /\ wall < End(log'[n])
    BY <1>0, <1>1, <2>1, EventLabel
  <2>3. log'[n].key = e /\ \A j \in DOMAIN log' : log'[j].key = e => j <= n
    BY <2>2 DEF Latest
  <2>4. CASE event[e] = {}
    <3>1. compromised[e] = 0 /\ CleanSince(e) = 0
      BY <2>4, <1>1 DEF ClusterInv, CleanSince
    <3> QED
      BY <3>1, <2>1, <2>3, <2>4, <1>4
  <2>5. CASE event[e] # {}
    <3>1. PICK y \in event[e] : TRUE
      BY <2>5
    <3>2. \A z \in event[e] : z = y
      BY <1>0, <1>1 DEF EventInv
    <3>3. CleanSince(e) = y.clean
      BY <3>1, <3>2, <2>5 DEF CleanSince
    <3>4. /\ y.known \in 0 .. Len(log) /\ y.under \in 0 .. y.known /\ y.at \in Nat
          /\ y.cluster \in Nat /\ y.clean \in Nat
      BY <1>0, <1>1, LabelPlace
    <3>5. y.cluster = compromised[e] /\ OwnCluster(log', e, y)
      BY <1>1, <1>2, OldCluster
    <3>6. /\ Governs(log', e, y.at, y.known, y.under)
          /\ \A i \in 1 .. y.known : log'[i].start <= y.at
          /\ y.at <= wall
      BY <1>0, <1>1, <1>2, OldEvent DEF EventInv
    <3>7. y.under = n => y.cluster # 0
      BY <2>1, <3>5 DEF OwnCluster
    <3>8. CASE compromised[e] = 0
      <4>1. y.clean = y.known /\ y.cluster = 0 /\ y.under # n /\ c = n
        BY <3>5, <3>7, <3>8, <2>1 DEF OwnCluster
      <4>2. y.known < n
        <5> SUFFICES ASSUME ~(y.known < n)
                     PROVE  FALSE
          OBVIOUS
        <5> DEFINE own == Own(log', e, y.at, y.known)
        <5>1. n \in 1 .. y.known
          BY <3>4, <1>4, <2>1
        <5>2. n \in own
          BY <5>1, <2>3, <3>6 DEF Own
        <5>3. \A j \in own : j <= n /\ j \in Nat
          <6> TAKE j \in own
          <6>1. j \in 1 .. y.known /\ log'[j].key = e
            BY DEF Own
          <6>2. j \in DOMAIN log'
            BY <6>1, <3>4, <1>3
          <6> QED
            BY <6>1, <6>2, <2>3
        <5> HIDE DEF own
        <5>4. CASE y.under = 0
          <6>1. PICK i \in own : (\A j \in own : j <= i) /\ y.at >= End(log'[i])
            BY <5>2, <5>4, <3>6 DEF Governs, own
          <6>2. i = n
            BY <6>1, <5>2, <5>3, <1>4
          <6>3. log'[n].start \in Nat /\ log'[n].duration \in Nat /\ wall \in Nat
            <7>1. n \in DOMAIN log
              BY <5>1, <3>4, <1>3
            <7> QED
              BY <7>1, <1>1, <1>3, InjectionFields DEF TableType
          <6> QED
            BY <6>1, <6>2, <6>3, <2>2, <3>4, <3>6 DEF End
        <5>5. CASE y.under # 0
          <6>1. y.under \in own /\ n <= y.under
            BY <5>2, <5>5, <3>6 DEF Governs, own
          <6> QED
            BY <6>1, <5>3, <4>1, <1>4
        <5> QED
          BY <5>4, <5>5
      <4> QED
        BY <4>1, <4>2, <3>2, <3>3, <3>4, <1>4, <2>1, <2>3
    <3>9. CASE compromised[e] # 0
      <4>1. /\ c = y.cluster /\ y.clean < c /\ c <= y.under
            /\ log'[c].key = e /\ log'[c].type = "fraud_pattern"
        BY <3>5, <3>9, <2>1 DEF OwnCluster
      <4>2. c \in DOMAIN log'
        BY <4>1, <3>4, <1>3, <1>6
      <4>3. c <= n
        BY <4>1, <4>2, <2>3
      <4> QED
        BY <4>1, <4>3, <3>2, <3>3, <3>4
    <3> QED
      BY <3>8, <3>9
  <2> QED
    BY <2>4, <2>5
<1> QED
  BY <1>6, <1>7

(* What next_event writes down: one event, with the label of this moment. *)
LEMMA NewEvent ==
  ASSUME ScenariosInv, NEW e \in Entity, NextEvent(e), TableInv'
  PROVE  \E x \in EventRecord :
           /\ event' = [event EXCEPT ![e] = {x}]
           /\ x.at = wall /\ x.known = Len(log') /\ x.under = active'[e]
           /\ e \in Payments =>
                /\ compromised' = [compromised EXCEPT ![e] = x.cluster]
                /\ OwnCluster(log', e, x)
                /\ \A y \in event[e] : (y.under = x.under /\ x.cluster # 0) => y.cluster = x.cluster
           /\ e \notin Payments => compromised' = compromised
<1> DEFINE n == active'[e]
           c == IF e \in Payments THEN Cluster(e, n) ELSE 0
           clean == IF c = 0 THEN Len(log') ELSE CleanSince(e)
<1>1. /\ compromised' = [x \in Payments |-> IF x = e THEN c ELSE compromised[x]]
      /\ event' = [event EXCEPT ![e] = {[at |-> wall, under |-> n, known |-> Len(log'),
                                        cluster |-> c, clean |-> clean]}]
  BY DEF NextEvent
<1>2. PICK x : x = [at |-> wall, under |-> n, known |-> Len(log'), cluster |-> c, clean |-> clean]
  OBVIOUS
<1>3. wall \in Nat /\ n \in Nat /\ Len(log') \in Nat
  <2>1. log' \in Seq(ActiveScenario) /\ active' \in [Key -> 0 .. Len(log')] /\ e \in Key
    BY DEF TableInv, TableType, Key
  <2>2. Len(log') \in Nat /\ active'[e] \in 0 .. Len(log')
    BY <2>1
  <2> QED
    BY <2>2 DEF ScenariosInv, TableInv, TableType
<1>4. compromised \in [Payments -> Nat]
  BY DEF ScenariosInv, ClusterInv
<1>5. CASE e \in Payments
  <2>1. PICK m, d : m = n /\ d = Cluster(e, n)
    OBVIOUS
  <2>2. /\ d \in Nat
        /\ d = 0 => n = 0 \/ log'[n].type # "fraud_pattern"
        /\ d # 0 => /\ CleanSince(e) \in Nat /\ CleanSince(e) < d /\ d <= n
                    /\ log'[d].key = e /\ log'[d].type = "fraud_pattern"
                    /\ \A y \in event[e] : y.under = n => y.cluster = d
    BY <1>5, <2>1, NewCluster
  <2>3. c = d
    BY <1>5, <2>1
  <2>4. x.at = wall /\ x.under = n /\ x.known = Len(log') /\ x.cluster = d
    BY <1>2, <2>3
  <2>5. x.clean = IF d = 0 THEN Len(log') ELSE CleanSince(e)
    BY <1>2, <2>3
  <2>6. clean \in Nat
    BY <1>3, <2>2, <2>3
  <2>7. x \in EventRecord
    BY <1>2, <1>3, <2>2, <2>3, <2>6 DEF EventRecord
  <2>8. OwnCluster(log', e, x)
    BY <2>2, <2>4, <2>5 DEF OwnCluster
  <2>9. compromised' = [compromised EXCEPT ![e] = x.cluster]
    BY <1>1, <1>4, <2>3, <2>4
  <2>10. \A y \in event[e] : (y.under = x.under /\ x.cluster # 0) => y.cluster = x.cluster
    BY <2>2, <2>4
  <2> HIDE DEF c, clean, n
  <2>11. event' = [event EXCEPT ![e] = {x}]
    BY <1>1, <1>2
  <2> QED
    BY <1>5, <2>4, <2>7, <2>8, <2>9, <2>10, <2>11 DEF n
<1>6. CASE e \notin Payments
  <2>1. c = 0 /\ clean = Len(log')
    BY <1>6
  <2>2. x \in EventRecord /\ x.at = wall /\ x.under = n /\ x.known = Len(log')
    BY <1>2, <1>3, <2>1 DEF EventRecord
  <2>3. compromised' = compromised
    BY <1>1, <1>4, <1>6
  <2> HIDE DEF c, clean, n
  <2>4. event' = [event EXCEPT ![e] = {x}]
    BY <1>1, <1>2
  <2> QED
    BY <1>6, <2>2, <2>3, <2>4 DEF n
<1> QED
  BY <1>5, <1>6

\* Drawing an event keeps the invariant, its spawns and expiries included.
LEMMA NextEventKeeps ==
  ASSUME ScenariosInv, NEW e \in Entity, NextEvent(e)
  PROVE  ScenariosInv'
<1>1. TableType /\ TableInv /\ SpawnInv /\ ShiftsAreRegimeChanges /\ EventInv /\ ClusterInv
  BY DEF ScenariosInv, TableInv
<1>2. PICK new : Injected(new)
  BY <1>1, SpawnInjects
<1>3. TableInv' /\ SpawnInv' /\ ShiftsAreRegimeChanges'
  BY <1>1, <1>2, TableKept, SpawnKept, ShiftsKept
<1>4. PICK x \in EventRecord :
           /\ event' = [event EXCEPT ![e] = {x}]
           /\ x.at = wall /\ x.known = Len(log') /\ x.under = active'[e]
           /\ e \in Payments =>
                /\ compromised' = [compromised EXCEPT ![e] = x.cluster]
                /\ OwnCluster(log', e, x)
                /\ \A y \in event[e] : (y.under = x.under /\ x.cluster # 0) => y.cluster = x.cluster
           /\ e \notin Payments => compromised' = compromised
  BY <1>3, NewEvent
<1>5. event \in [Entity -> SUBSET EventRecord] /\ compromised \in [Payments -> Nat]
  BY <1>1 DEF EventInv, ClusterInv
<1>6. event' \in [Entity -> SUBSET EventRecord] /\ event'[e] = {x}
      /\ \A d \in Entity : d # e => event'[d] = event[d]
  BY <1>4, <1>5
<1>7. wall' = wall /\ wall \in Nat /\ log' \in Seq(ActiveScenario) /\ DOMAIN log' = 1 .. Len(log')
  BY <1>1, <1>2, <1>3 DEF Injected, TableInv, TableType
<1>8. EventInv'
  <2>1. ASSUME NEW d \in Entity, NEW y \in event'[d]
        PROVE  /\ y.at <= wall' /\ y.known <= Len(log')
               /\ \A i \in 1 .. y.known : log'[i].start <= y.at
               /\ Governs(log', d, y.at, y.known, y.under)
               /\ \A z \in event'[d] : y = z
    <3>1. CASE d = e
      <4>1. y = x /\ \A z \in event'[d] : z = x
        BY <3>1, <1>6
      <4>2. Governs(log', e, wall, Len(log'), active'[e])
        BY <1>1, <1>3, EventLabel
      <4>3. \A i \in 1 .. Len(log') : log'[i].start <= wall
        BY <1>3, <1>7 DEF TableInv
      <4>4. Len(log') \in Nat
        BY <1>7
      <4> QED
        BY <3>1, <4>1, <4>2, <4>3, <4>4, <1>4, <1>7
    <3>2. CASE d # e
      <4>1. y \in event[d] /\ event'[d] = event[d]
        BY <3>2, <1>6
      <4>2. \A z \in event[d] : y = z
        BY <4>1, <1>1 DEF EventInv
      <4>3. /\ y.at <= wall' /\ y.known <= Len(log')
            /\ Governs(log', d, y.at, y.known, y.under)
            /\ \A i \in 1 .. y.known : log'[i].start <= y.at
        BY <4>1, <1>1, <1>2, OldEvent
      <4> QED
        BY <4>1, <4>2, <4>3
    <3> QED
      BY <3>1, <3>2
  <2> QED
    BY <1>6, <2>1 DEF EventInv
<1>9. ClusterInv'
  <2>1. compromised' \in [Payments -> Nat]
    <3>1. x.cluster \in Nat
      BY DEF EventRecord
    <3> QED
      BY <3>1, <1>4, <1>5
  <2>2. ASSUME NEW d \in Payments
        PROVE  /\ event'[d] = {} => compromised'[d] = 0
               /\ \A y \in event'[d] : y.cluster = compromised'[d] /\ OwnCluster(log', d, y)
    <3>1. d \in Entity
      BY DEF Entity
    <3>2. CASE d = e
      <4>1. event'[d] = {x} /\ compromised'[d] = x.cluster /\ OwnCluster(log', d, x)
        BY <3>2, <1>4, <1>5, <1>6
      <4> QED
        BY <4>1
    <3>3. CASE d # e
      <4>1. event'[d] = event[d] /\ compromised'[d] = compromised[d]
        BY <3>1, <3>3, <1>4, <1>5, <1>6
      <4>2. event[d] = {} => compromised[d] = 0
        BY <1>1 DEF ClusterInv
      <4>3. \A y \in event[d] : y.cluster = compromised[d] /\ OwnCluster(log', d, y)
        BY <1>1, <1>2, OldCluster
      <4> QED
        BY <4>1, <4>2, <4>3
    <3> QED
      BY <3>2, <3>3
  <2> QED
    BY <2>1, <2>2 DEF ClusterInv, OwnCluster
<1> QED
  BY <1>3, <1>8, <1>9 DEF ScenariosInv
-----------------------------------------------------------------------------
(* What the invariant gives. *)

\* The invariant at the start.
LEMMA GeneratorStarts ==
  ASSUME GeneratorInit
  PROVE  ScenariosInv
<1>1. /\ wall = Second /\ lastCheck = 0 /\ active = [k \in Key |-> 0]
      /\ shifts = [e \in Entity |-> 0] /\ compromised = [e \in Payments |-> 0]
      /\ budget \in Budgets /\ log = <<>> /\ event = [e \in Entity |-> {}]
  BY DEF GeneratorInit
<1>2. log \in Seq(ActiveScenario) /\ Len(log) = 0 /\ DOMAIN log = {}
  BY <1>1
<1>3. TableInv
  BY <1>1, <1>2, SecondAssumption DEF TableInv, TableType
<1>4. SpawnInv
  BY <1>2 DEF SpawnInv
<1>5. ShiftsAreRegimeChanges
  <2>1. \A e \in Entity : {i \in DOMAIN log : log[i].key = e /\ log[i].type = "regime_change"} = {}
    BY <1>2
  <2> QED
    BY <1>1, <2>1, FS_EmptySet DEF ShiftsAreRegimeChanges
<1>6. EventInv /\ ClusterInv
  BY <1>1 DEF EventInv, ClusterInv, Entity
<1> QED
  BY <1>3, <1>4, <1>5, <1>6 DEF ScenariosInv

\* What the invariant says of the labels.
LEMMA LabelsFollow ==
  ASSUME ScenariosInv
  PROVE  GroundTruth
<1>1. TableType /\ TableInv /\ SpawnInv /\ ShiftsAreRegimeChanges /\ EventInv
  BY DEF ScenariosInv, TableInv
<1>2. /\ wall \in Nat /\ log \in Seq(ActiveScenario) /\ active \in [Key -> 0 .. Len(log)]
  BY <1>1 DEF TableType
<1>3. Len(log) \in Nat /\ DOMAIN log = 1 .. Len(log)
  BY <1>2
<1>4. \A e \in Entity : \A x \in event[e] : x.under = LabelAt(e, x.at, x.known)
  <2> TAKE e \in Entity
  <2> TAKE x \in event[e]
  <2>1. x.known \in 0 .. Len(log) /\ x.at \in Nat
    BY <1>1, LabelPlace
  <2>2. Governs(log, e, x.at, x.known, x.under)
    BY <1>1 DEF EventInv
  <2> QED
    BY <1>1, <2>1, <2>2, LabelOf
<1>5. \A k \in Key : LabelAt(k, wall, Len(log)) = GetActive(k)
  <2> TAKE k \in Key
  <2>1. Governs(log, k, wall, Len(log), GetActive(k))
    BY <1>1, InForce
  <2>2. Len(log) \in 0 .. Len(log)
    BY <1>3
  <2> QED
    BY <1>1, <1>2, <2>1, <2>2, LabelOf
<1>6. Snapshot = {LabelAt(k, wall, Len(log)) : k \in Key} \ {0}
  <2>1. Snapshot = {GetActive(k) : k \in Key} \ {0}
    BY DEF Snapshot, GetActive
  <2> QED
    BY <1>5, <2>1
<1>7. SpawnsKeepTheirPlace
  <2>1. ASSUME NEW i \in DOMAIN log, log[i].by = "auto"
        PROVE  LabelAt(log[i].key, log[i].start, i - 1) = 0
    <3>1. Governs(log, log[i].key, log[i].start, i - 1, 0)
      BY <1>1, <2>1 DEF SpawnInv
    <3>2. log[i].start \in Nat /\ i - 1 \in 0 .. Len(log)
      BY <1>1, <1>3, InjectionFields
    <3> QED
      BY <1>1, <3>1, <3>2, LabelOf
  <2> QED
    BY <1>1, <2>1 DEF SpawnsKeepTheirPlace, SpawnInv
<1> QED
  BY <1>1, <1>2, <1>4, <1>6, <1>7 DEF GroundTruth, LabelsAreTrue

\* One step of FraudKeepsItsCluster.
FraudStep ==
  \A e \in Payments : \A x \in event'[e] : x.cluster # 0 =>
    /\ x.cluster > x.clean /\ x.cluster <= x.under
    /\ log'[x.cluster].key = e /\ log'[x.cluster].type = "fraud_pattern"
    /\ \A y \in event[e] : y.under = x.under => y.cluster = x.cluster

\* What the invariant says of a step's cluster.
LEMMA FraudStays ==
  ASSUME ScenariosInv, ScenariosInv',
         UNCHANGED event \/ \E e \in Entity : NextEvent(e)
  PROVE  FraudStep
<1> SUFFICES ASSUME NEW e \in Payments, NEW x \in event'[e], x.cluster # 0
             PROVE  /\ x.cluster > x.clean /\ x.cluster <= x.under
                    /\ log'[x.cluster].key = e /\ log'[x.cluster].type = "fraud_pattern"
                    /\ \A y \in event[e] : y.under = x.under => y.cluster = x.cluster
  BY DEF FraudStep
<1>1. e \in Entity
  BY DEF Entity
<1>2. /\ x.clean < x.cluster /\ x.cluster <= x.under
      /\ log'[x.cluster].key = e /\ log'[x.cluster].type = "fraud_pattern"
  BY DEF ScenariosInv, ClusterInv
<1>3. x.clean \in Nat /\ x.cluster \in Nat
  BY <1>1 DEF ScenariosInv, EventInv, EventRecord
<1>4. x.cluster > x.clean
  BY <1>2, <1>3
<1>5. CASE event'[e] = event[e]
  <2>1. \A y \in event[e] : x = y
    BY <1>1, <1>5 DEF ScenariosInv, EventInv
  <2> QED
    BY <1>2, <1>4, <2>1
<1>6. CASE NextEvent(e)
  <2>1. PICK z \in EventRecord :
           /\ event' = [event EXCEPT ![e] = {z}]
           /\ e \in Payments =>
                \A y \in event[e] : (y.under = z.under /\ z.cluster # 0) => y.cluster = z.cluster
    <3>1. TableInv'
      BY DEF ScenariosInv
    <3>2. \E z \in EventRecord :
           /\ event' = [event EXCEPT ![e] = {z}]
           /\ z.at = wall /\ z.known = Len(log') /\ z.under = active'[e]
           /\ e \in Payments =>
                /\ compromised' = [compromised EXCEPT ![e] = z.cluster]
                /\ OwnCluster(log', e, z)
                /\ \A y \in event[e] : (y.under = z.under /\ z.cluster # 0) => y.cluster = z.cluster
           /\ e \notin Payments => compromised' = compromised
      BY <1>1, <1>6, <3>1, NewEvent
    <3> QED
      BY <3>2
  <2>2. event \in [Entity -> SUBSET EventRecord]
    BY DEF ScenariosInv, EventInv
  <2>3. x = z
    BY <1>1, <2>1, <2>2
  <2> QED
    BY <1>2, <1>4, <2>1, <2>3
<1>7. CASE \E d \in Entity : d # e /\ NextEvent(d)
  <2>1. PICK d \in Entity : d # e /\ NextEvent(d)
    BY <1>7
  <2>2. event \in [Entity -> SUBSET EventRecord]
    BY DEF ScenariosInv, EventInv
  <2>3. event'[e] = event[e]
    BY <1>1, <2>1, <2>2 DEF NextEvent
  <2> QED
    BY <1>5, <2>3
<1> QED
  BY <1>1, <1>5, <1>6, <1>7
=============================================================================
