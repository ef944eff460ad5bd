----------------------- MODULE OperatorConsole_proofs -----------------------
(***************************************************************************)
(* Theorems about OperatorConsole: the labels of events, what the operator is *)
(* told, and the operator's session, for every number of entities, clicks,    *)
(* restarts and polls, and every expiry and margin of the tokens.            *)
(***************************************************************************)
EXTENDS OperatorConsole, Scenarios_proofs

Token == [secret : Nat, issued : Nat, got : Nat]

LoginState == [number : Nat, answer : {"none", "token", "denied"}, token : Token]

ClickState ==
  [told : {"nothing", "injecting", "injected", "expired", "failed", "gone"},
   request : {"none", "sent", "proxied", "done"} \cup Answered, pending : BOOLEAN,
   key : Key \cup {""}, type : ScenarioType \cup {""}, token : SUBSET Token, sent : Nat]

SessionType ==
  /\ secret \in Nat /\ unlocked \in BOOLEAN
  /\ logins \in Nat /\ login \in SUBSET LoginState
  /\ stored \in SUBSET [token : Token, until : Int]
  /\ form \in [domain : {"market", "payments"}, type : ScenarioType]
  /\ clicks \in [Click -> ClickState]

(* One click x whose injection was applied n times.  It is on its way to the
   generator or has been there, and not both; what is still with the browser or
   was refused was never forwarded; nothing more comes of a click that "expired". *)
ClickOk(x, n) ==
  /\ n \in Nat /\ (IF x.pending THEN n = 0 ELSE n <= 1)
  /\ x.told = "nothing" => x = NoClick
  /\ x.request \in {"none", "sent", "refused"} => n = 0 /\ ~x.pending
  /\ x.request = "ok" => n = 1
  /\ x.told = "expired" => x.request = "done" /\ n = 0 /\ ~x.pending
  /\ x.told = "injected" => n = 1
  /\ (x.request = "sent" \/ x.pending) => x.key \in Key /\ x.type \in ScenarioType

ClicksInv == \A c \in Click : ClickOk(clicks[c], By(c))

(* A token is used until the margin before its expiry, counted from its arrival;
   a click carries the one token that was stored and usable when it was sent. *)
TokensInv ==
  /\ \A s, t \in stored : s = t
  /\ \A s \in stored : s.until = s.token.got + Expiry - Margin
  /\ \A c \in Click : \A t \in clicks[c].token :
       /\ clicks[c].request = "sent" /\ clicks[c].sent < t.got + Expiry - Margin
       /\ \A u \in clicks[c].token : u = t

ConsoleInv == ScenariosInv /\ SessionType /\ ClicksInv /\ TokensInv /\ SessionInStep
-----------------------------------------------------------------------------
(* The generator under the console *)

\* A step without the generator keeps its invariant and applies no click.
LEMMA GeneratorRests ==
  ASSUME ScenariosInv, UNCHANGED <<wall, genVars, budget>>
  PROVE  ScenariosInv' /\ FraudStep /\ \A c \in Click : By(c)' = By(c)
<1>1. UNCHANGED <<wall, active, lastCheck, shifts, compromised, budget, log, event>>
  BY DEF genVars
<1>2. TableInv'
  BY <1>1 DEF ScenariosInv, TableInv, TableType
<1>3. SpawnInv' /\ ShiftsAreRegimeChanges'
  BY <1>1 DEF ScenariosInv, SpawnInv, ShiftsAreRegimeChanges
<1>4. EventInv' /\ ClusterInv'
  BY <1>1 DEF ScenariosInv, EventInv, ClusterInv
<1>5. ScenariosInv'
  BY <1>2, <1>3, <1>4 DEF ScenariosInv
<1>6. FraudStep
  BY <1>1, <1>5, FraudStays
<1>7. \A c \in Click : By(c)' = By(c)
  BY <1>1 DEF By
<1> QED
  BY <1>5, <1>6, <1>7

\* How often a click was applied, after an injection.
LEMMA ByOfClick ==
  ASSUME ScenariosInv, NEW new, Injected(new), NEW b, NEW c \in Click,
         \A i \in DOMAIN new : new[i].by = b
  PROVE  By(c) \in Nat /\ (b # c => By(c)' = By(c)) /\ ((b = c /\ Len(new) = 1) => By(c)' = By(c) + 1)
<1>1. TableType
  BY DEF ScenariosInv, TableInv
<1>2. /\ By(c) \in Nat
      /\ (\A i \in DOMAIN new : new[i].by # c) => By(c)' = By(c)
      /\ (Len(new) = 1 /\ new[1].by = c) => By(c)' = By(c) + 1
  BY <1>1, ByCounts
<1>3. DOMAIN new = 1 .. Len(new) /\ Len(new) \in Nat
  BY <1>1, LogGrows
<1>4. Len(new) = 1 => 1 \in DOMAIN new
  BY <1>3
<1> QED
  BY <1>2, <1>4

\* One injection over HTTP, for the console's click or directly.
LEMMA OneInjection ==
  ASSUME ScenariosInv, NEW k \in Key, NEW type \in ScenarioType, NEW duration \in Nat,
         NEW by \in {"direct"} \cup Click, Inject(k, type, duration, by),
         UNCHANGED <<wall, budget>>
  PROVE  /\ ScenariosInv' /\ FraudStep
         /\ \A c \in Click : By(c) \in Nat /\ By(c)' = IF c = by THEN By(c) + 1 ELSE By(c)
<1>1. TableInv /\ TableType
  BY DEF ScenariosInv, TableInv
<1>2. PICK new : Injected(new) /\ Len(new) = 1 /\ new[1].by = by
  BY <1>1, InjectInjects
<1>3. UNCHANGED <<event, compromised>>
  BY DEF Inject
<1>4. ScenariosInv'
  BY <1>2, <1>3, InjectKeeps
<1>5. FraudStep
  BY <1>3, <1>4, FraudStays
<1>6. \A i \in DOMAIN new : new[i].by = by
  <2>1. DOMAIN new = 1 .. Len(new)
    BY <1>1, <1>2, LogGrows
  <2> QED
    BY <1>2, <2>1
<1>7. \A c \in Click : By(c) \in Nat /\ By(c)' = IF c = by THEN By(c) + 1 ELSE By(c)
  BY <1>2, <1>6, ByOfClick
<1> QED
  BY <1>4, <1>5, <1>7

\* Ticks, events and direct injections apply nobody's click.
LEMMA GeneratorSteps ==
  ASSUME ScenariosInv, GeneratorNext
  PROVE  ScenariosInv' /\ FraudStep /\ \A c \in Click : By(c)' = By(c)
<1>1. TableInv /\ TableType
  BY DEF ScenariosInv, TableInv
<1>2. CASE Tick
  <2>1. ScenariosInv' /\ UNCHANGED <<log, event>>
    BY <1>2, TickKeeps DEF Tick, genVars
  <2>2. FraudStep
    BY <2>1, FraudStays
  <2> QED
    BY <2>1, <2>2 DEF By
<1>3. ASSUME NEW e \in Entity, NextEvent(e)
      PROVE  ScenariosInv' /\ FraudStep /\ \A c \in Click : By(c)' = By(c)
  <2>1. ScenariosInv'
    BY <1>3, NextEventKeeps
  <2>2. FraudStep
    BY <1>3, <2>1, FraudStays
  <2>3. PICK new : Injected(new) /\ \A i \in DOMAIN new : new[i].by = "auto"
    BY <1>1, <1>3, SpawnInjects
  <2>4. \A c \in Click : "auto" # c
    BY ClickAssumption
  <2> QED
    BY <2>1, <2>2, <2>3, <2>4, ByOfClick
<1>4. ASSUME NEW k \in Key, NEW type \in budget.types, NEW duration \in budget.durations,
             InjectDirect(k, type, duration)
      PROVE  ScenariosInv' /\ FraudStep /\ \A c \in Click : By(c)' = By(c)
  <2>1. type \in ScenarioType /\ duration \in Nat
    BY <1>1, BudgetTypes
  <2>2. Inject(k, type, duration, "direct") /\ UNCHANGED <<wall, budget>>
    BY <1>4 DEF InjectDirect
  <2>3. \A c \in Click : "direct" # c
    BY ClickAssumption
  <2> QED
    BY <2>1, <2>2, <2>3, OneInjection
<1> QED
  BY <1>2, <1>3, <1>4 DEF GeneratorNext

(* GeneratorInjects(c) applies click c, or loses it on the way. *)
LEMMA ClickApplied ==
  ASSUME ScenariosInv, ClicksInv, NEW c \in Click, GeneratorInjects(c)
  PROVE  /\ ScenariosInv' /\ FraudStep
         /\ \A d \in Click : By(d)' = By(d) \/ (d = c /\ By(d)' = By(d) + 1)
<1>1. clicks[c].key \in Key /\ clicks[c].type \in ScenarioType /\ UNCHANGED <<wall, budget>>
  BY DEF GeneratorInjects, ClicksInv, ClickOk
<1>2. \A duration \in budget.durations : duration \in Nat
  BY BudgetsAssumption DEF ScenariosInv, TableInv, TableType
<1>3. ASSUME NEW duration \in budget.durations, Inject(clicks[c].key, clicks[c].type, duration, c)
      PROVE  /\ ScenariosInv' /\ FraudStep
             /\ \A d \in Click : By(d)' = By(d) \/ (d = c /\ By(d)' = By(d) + 1)
  <2>1. duration \in Nat /\ c \in {"direct"} \cup Click
    BY <1>2, <1>3
  <2>2. /\ ScenariosInv' /\ FraudStep
        /\ \A d \in Click : By(d)' = IF d = c THEN By(d) + 1 ELSE By(d)
    BY <1>1, <1>3, <2>1, OneInjection
  <2> QED
    BY <2>2
<1>4. CASE UNCHANGED genVars
  BY <1>1, <1>4, GeneratorRests
<1> QED
  BY <1>3, <1>4 DEF GeneratorInjects

\* Every step keeps the generator's invariant, and applies at most the click it is about.
LEMMA ScenariosKept ==
  ASSUME ScenariosInv, ClicksInv, [Next]_vars
  PROVE  /\ ScenariosInv' /\ FraudStep
         /\ \A c \in Click : By(c)' = By(c) \/ (GeneratorInjects(c) /\ By(c)' = By(c) + 1)
         /\ (\A c \in Click : ~GeneratorInjects(c)) => \A c \in Click : By(c)' = By(c)
<1>1. CASE Generator
  BY <1>1, GeneratorSteps DEF Generator
<1>2. ASSUME NEW c \in Click, GeneratorInjects(c)
      PROVE  /\ ScenariosInv' /\ FraudStep
             /\ \A d \in Click : By(d)' = By(d) \/ (GeneratorInjects(d) /\ By(d)' = By(d) + 1)
  BY <1>2, ClickApplied
<1>3. CASE UNCHANGED <<wall, genVars, budget>>
  BY <1>3, GeneratorRests
<1>4. CASE Operator
  <2>1. UNCHANGED <<wall, genVars, budget>>
    BY <1>4 DEF Operator, Unlock, LoginAnswered, Lock, Choose, Reload, Deliver, ClickInject
  <2> QED
    BY <2>1, <1>3
<1>5. CASE Gateway /\ ~\E c \in Click : GeneratorInjects(c)
  <2>1. UNCHANGED <<wall, genVars, budget>>
    BY <1>5 DEF Gateway, IssueToken, GatewayRestarts, CheckToken, ProxyAnswers
  <2> QED
    BY <2>1, <1>3
<1>6. CASE Polling
  <2>1. UNCHANGED <<wall, genVars, budget>>
    BY <1>6 DEF Polling, AskList, ListTaken, ListFails, ListArrives
  <2> QED
    BY <2>1, <1>3
<1>7. CASE UNCHANGED vars
  <2>1. UNCHANGED <<wall, genVars, budget>>
    BY <1>7 DEF vars
  <2> QED
    BY <2>1, <1>3
<1> QED
  BY <1>1, <1>2, <1>4, <1>5, <1>6, <1>7 DEF Next
-----------------------------------------------------------------------------
(* Types *)

\* The fields of a click.
LEMMA ClickFields ==
  ASSUME SessionType, NEW c \in Click
  PROVE  /\ clicks[c] \in ClickState /\ clicks[c].pending \in BOOLEAN /\ clicks[c].sent \in Nat
         /\ clicks[c].token \in SUBSET Token
         /\ clicks[c].told \in {"nothing", "injecting", "injected", "expired", "failed", "gone"}
         /\ clicks[c].request \in {"none", "sent", "proxied", "done"} \cup Answered
         /\ clicks[c].key \in Key \cup {""} /\ clicks[c].type \in ScenarioType \cup {""}
<1>1. clicks[c] \in ClickState
  BY DEF SessionType
<1> QED
  BY <1>1 DEF ClickState

\* The steps that touch the clicks, as what becomes of each of them.
Restarted(x) ==
  IF x.request \in {"sent", "proxied"} THEN [x EXCEPT !.request = "broken", !.token = {}, !.sent = 0]
  ELSE x
Left(x) == IF x.told = "injecting" THEN [x EXCEPT !.told = "gone"] ELSE x
Checked(x, ok) == [x EXCEPT !.pending = ok, !.token = {}, !.sent = 0,
                            !.request = IF ok THEN "proxied" ELSE "refused"]
Delivered(x) == [x EXCEPT !.request = "done",
                          !.told = IF @ = "injecting" THEN Told(x.request) ELSE @]
Expired(x)   == [x EXCEPT !.told = "expired", !.request = "done"]

ClickStep(c) ==
  LET x == clicks[c] IN
  \/ clicks'[c] = x
  \/ /\ x = NoClick
     /\ \/ clicks'[c] = Expired(x) /\ unlocked' = FALSE
        \/ \E e \in Entity : /\ UsableTokens # {} /\ unlocked' = unlocked
             /\ clicks'[c] = [told |-> "injecting", request |-> "sent", pending |-> FALSE,
                  key |-> e, type |-> form.type, token |-> {s.token : s \in UsableTokens},
                  sent |-> wall]
  \/ x.request = "sent" /\ clicks'[c] = Checked(x, \A t \in x.token : Accepted(t))
  \/ x.pending /\ clicks'[c] = [x EXCEPT !.pending = FALSE]
  \/ x.request = "proxied" /\ By(c) > 0 /\ clicks'[c] = [x EXCEPT !.request = "ok"]
  \/ x.request = "proxied" /\ clicks'[c] = [x EXCEPT !.request = "failed"]
  \/ /\ x.request \in Answered /\ clicks'[c] = Delivered(x)
     /\ unlocked' = (unlocked /\ clicks'[c].told # "expired")
  \/ clicks'[c] = Restarted(x)
  \/ clicks'[c] = Left(x)

\* A step that changes one click leaves the others alone.
LEMMA OneChanged ==
  ASSUME SessionType, NEW c \in Click, NEW v, clicks' = [clicks EXCEPT ![c] = v]
  PROVE  /\ clicks' = [d \in Click |-> clicks'[d]] /\ clicks'[c] = v
         /\ \A d \in Click : d # c => clicks'[d] = clicks[d]
<1>1. clicks \in [Click -> ClickState]
  BY DEF SessionType
<1> QED
  BY <1>1

\* What a step can do to any click.
LEMMA ClickSteps ==
  ASSUME SessionType, [Next]_vars
  PROVE  clicks' = [d \in Click |-> clicks'[d]] /\ \A c \in Click : ClickStep(c)
<1>0. clicks \in [Click -> ClickState] /\ \A c \in Click : clicks[c] \in ClickState
  BY DEF SessionType
<1>1. CASE clicks' = clicks
  BY <1>0, <1>1 DEF ClickStep
<1>2. ASSUME NEW c \in Click, clicks' = [clicks EXCEPT ![c] = clicks'[c]], ClickStep(c)
      PROVE  clicks' = [d \in Click |-> clicks'[d]] /\ \A d \in Click : ClickStep(d)
  <2>1. /\ clicks' = [d \in Click |-> clicks'[d]]
        /\ \A d \in Click : d # c => clicks'[d] = clicks[d]
    <3>1. PICK v : v = clicks'[c]
      OBVIOUS
    <3> QED
      BY <3>1, <1>2, OneChanged
  <2>2. \A d \in Click : d # c => ClickStep(d)
    BY <2>1 DEF ClickStep
  <2> QED
    BY <1>2, <2>1, <2>2
<1>3. CASE \/ Generator \/ Unlock \/ Lock \/ Choose \/ Polling \/ UNCHANGED vars
           \/ \E l \in login : LoginAnswered(l) \/ IssueToken(l)
  <2>1. clicks' = clicks
    BY <1>3 DEF Generator, Unlock, LoginAnswered, Lock, Choose, IssueToken, Polling, AskList,
                ListTaken, ListFails, ListArrives, vars
  <2> QED
    BY <2>1, <1>1
<1>4. CASE Reload
  <2>1. clicks' = [c \in Click |-> Left(clicks[c])]
    BY <1>4 DEF Reload, Left
  <2> QED
    BY <2>1 DEF ClickStep
<1>5. CASE GatewayRestarts
  <2>1. clicks' = [c \in Click |-> Restarted(clicks[c])]
    BY <1>5 DEF GatewayRestarts, Restarted
  <2> QED
    BY <2>1 DEF ClickStep
<1>6. ASSUME NEW c \in Click, Deliver(c)
      PROVE  clicks' = [d \in Click |-> clicks'[d]] /\ \A d \in Click : ClickStep(d)
  <2>1. clicks' = [clicks EXCEPT ![c] = Delivered(clicks[c])]
    BY <1>0, <1>6 DEF Deliver, Delivered
  <2>2. clicks'[c] = Delivered(clicks[c])
    BY <2>1, OneChanged
  <2>3. ClickStep(c)
    BY <1>6, <2>2 DEF Deliver, ClickStep
  <2> QED
    BY <2>1, <2>2, <2>3, <1>2
<1>7. ASSUME NEW c \in Click, NEW e \in Entity, ClickInject(c, e)
      PROVE  clicks' = [d \in Click |-> clicks'[d]] /\ \A d \in Click : ClickStep(d)
  <2>1. clicks[c] = NoClick
    BY <1>7 DEF ClickInject
  <2>2. CASE /\ clicks' = [clicks EXCEPT ![c].told = "expired", ![c].request = "done"]
             /\ unlocked' = FALSE
    <3>1. clicks' = [clicks EXCEPT ![c] = Expired(clicks[c])]
      BY <1>0, <2>2 DEF Expired
    <3>2. clicks'[c] = Expired(clicks[c])
      BY <3>1, OneChanged
    <3>3. ClickStep(c)
      BY <2>1, <2>2, <3>2 DEF ClickStep
    <3> QED
      BY <3>1, <3>2, <3>3, <1>2
  <2>3. CASE /\ UsableTokens # {}
             /\ clicks' = [clicks EXCEPT ![c] =
                  [told |-> "injecting", request |-> "sent", pending |-> FALSE, key |-> e,
                   type |-> form.type, token |-> {s.token : s \in UsableTokens}, sent |-> wall]]
             /\ UNCHANGED unlocked
    <3>1. PICK v : v = [told |-> "injecting", request |-> "sent", pending |-> FALSE, key |-> e,
                   type |-> form.type, token |-> {s.token : s \in UsableTokens}, sent |-> wall]
      OBVIOUS
    <3>2. clicks' = [clicks EXCEPT ![c] = v] /\ clicks'[c] = v
      BY <2>3, <3>1, OneChanged
    <3>3. ClickStep(c)
      BY <2>1, <2>3, <3>1, <3>2 DEF ClickStep
    <3> QED
      BY <3>2, <3>3, <1>2
  <2> QED
    BY <1>7, <2>2, <2>3 DEF ClickInject
<1>8. ASSUME NEW c \in Click, CheckToken(c)
      PROVE  clicks' = [d \in Click |-> clicks'[d]] /\ \A d \in Click : ClickStep(d)
  <2>1. PICK ok : ok = \A t \in clicks[c].token : Accepted(t)
    OBVIOUS
  <2>2. clicks' = [clicks EXCEPT ![c].pending = ok, ![c].token = {}, ![c].sent = 0,
                                 ![c].request = IF ok THEN "proxied" ELSE "refused"]
    BY <1>8, <2>1 DEF CheckToken
  <2>3. clicks' = [clicks EXCEPT ![c] = Checked(clicks[c], ok)]
    BY <1>0, <2>2 DEF Checked
  <2>4. clicks'[c] = Checked(clicks[c], ok)
    BY <2>3, OneChanged
  <2>5. ClickStep(c)
    BY <1>8, <2>1, <2>4 DEF ClickStep, CheckToken
  <2> QED
    BY <2>3, <2>4, <2>5, <1>2
<1>9. ASSUME NEW c \in Click, GeneratorInjects(c)
      PROVE  clicks' = [d \in Click |-> clicks'[d]] /\ \A d \in Click : ClickStep(d)
  <2>1. clicks' = [clicks EXCEPT ![c] = [clicks[c] EXCEPT !.pending = FALSE]]
    BY <1>9 DEF GeneratorInjects
  <2>2. clicks'[c] = [clicks[c] EXCEPT !.pending = FALSE]
    BY <2>1, OneChanged
  <2>3. ClickStep(c)
    BY <1>9, <2>2 DEF ClickStep, GeneratorInjects
  <2> QED
    BY <2>1, <2>2, <2>3, <1>2
<1>10. ASSUME NEW c \in Click, ProxyAnswers(c)
       PROVE  clicks' = [d \in Click |-> clicks'[d]] /\ \A d \in Click : ClickStep(d)
  <2>1. PICK answer \in {"ok", "failed"} :
          /\ clicks' = [clicks EXCEPT ![c] = [clicks[c] EXCEPT !.request = answer]]
          /\ clicks[c].request = "proxied" /\ (answer = "ok" => By(c) > 0)
    BY <1>10 DEF ProxyAnswers
  <2>2. clicks'[c] = [clicks[c] EXCEPT !.request = answer]
    BY <2>1, OneChanged
  <2>3. ClickStep(c)
    BY <2>1, <2>2 DEF ClickStep
  <2> QED
    BY <2>1, <2>2, <2>3, <1>2
<1> QED
  BY <1>3, <1>4, <1>5, <1>6, <1>7, <1>8, <1>9, <1>10 DEF Next, Operator, Gateway

\* What a token of the login answer or of a click is made of.
LEMMA TokensUsed ==
  ASSUME SessionType
  PROVE  /\ {s.token : s \in UsableTokens} \in SUBSET Token
         /\ form.type \in ScenarioType
<1> QED
  BY DEF SessionType, UsableTokens

\* One click stays consistent with the history of injections.
LEMMA ClickKept ==
  ASSUME SessionType, ClicksInv, wall \in Nat, NEW c \in Click, ClickStep(c),
         \/ By(c)' = By(c)
         \/ /\ clicks[c].pending /\ clicks'[c] = [clicks[c] EXCEPT !.pending = FALSE]
            /\ By(c)' = By(c) + 1
  PROVE  clicks'[c] \in ClickState /\ ClickOk(clicks'[c], By(c)')
<1>1. PICK x, y, n, m : x = clicks[c] /\ y = clicks'[c] /\ n = By(c) /\ m = By(c)'
  OBVIOUS
<1>2. x \in ClickState /\ ClickOk(x, n)
  BY <1>1 DEF SessionType, ClicksInv
<1>3. /\ n \in Nat /\ x.pending \in BOOLEAN
      /\ x.told \in {"nothing", "injecting", "injected", "expired", "failed", "gone"}
      /\ x.request \in {"none", "sent", "proxied", "done"} \cup Answered
      /\ m = n \/ (x.pending /\ y = [x EXCEPT !.pending = FALSE] /\ m = n + 1)
  BY <1>1, <1>2 DEF ClickState, ClickOk
<1>14. (y.request # x.request \/ y.told # x.told) => m = n
  <2>1. \A z : z = [x EXCEPT !.pending = FALSE] => z.request = x.request /\ z.told = x.told
    BY <1>2 DEF ClickState
  <2> QED
    BY <1>3, <2>1
<1>15. NoClick.request = "none" /\ NoClick.told = "nothing" /\ ~NoClick.pending
  BY DEF NoClick
<1>16. x.told = "nothing" => x.request = "none" /\ ~x.pending
  BY <1>2, <1>15 DEF ClickOk
<1>4. ASSUME y = x PROVE y \in ClickState /\ ClickOk(y, m)
  <2>1. m = n
    BY <1>2, <1>3, <1>4 DEF ClickState
  <2> QED
    BY <1>2, <1>4, <2>1
<1>5. ASSUME x = NoClick, y = Expired(x) PROVE y \in ClickState /\ ClickOk(y, m)
  <2>1. m = n
    BY <1>3, <1>5, <1>15
  <2>2. y = [told |-> "expired", request |-> "done", pending |-> FALSE, key |-> "", type |-> "",
             token |-> {}, sent |-> 0]
    BY <1>5 DEF NoClick, Expired
  <2>3. n = 0
    BY <1>2, <1>5, <1>15 DEF ClickOk
  <2>4. y \in ClickState
    BY <2>2 DEF ClickState
  <2>5. /\ y.told = "expired" /\ y.request = "done" /\ ~y.pending
    BY <2>2
  <2> QED
    BY <2>1, <2>3, <2>4, <2>5 DEF ClickOk
<1>6. ASSUME NEW e \in Entity, x = NoClick,
             y = [told |-> "injecting", request |-> "sent", pending |-> FALSE, key |-> e,
                  type |-> form.type, token |-> {s.token : s \in UsableTokens}, sent |-> wall]
      PROVE  y \in ClickState /\ ClickOk(y, m)
  <2>1. m = n /\ n = 0
    BY <1>2, <1>3, <1>6, <1>15 DEF ClickOk
  <2>2. e \in Key /\ form.type \in ScenarioType
    BY TokensUsed DEF Key
  <2>3. PICK ts : ts = {s.token : s \in UsableTokens} /\ ts \in SUBSET Token
    BY TokensUsed
  <2>4. y \in ClickState
    BY <1>6, <2>2, <2>3 DEF ClickState
  <2>5. /\ y.told = "injecting" /\ y.request = "sent" /\ ~y.pending /\ y.key \in Key
        /\ y.type \in ScenarioType
    BY <1>6, <2>2
  <2> QED
    BY <2>1, <2>4, <2>5 DEF ClickOk
<1>7. ASSUME x.request = "sent", NEW ok \in BOOLEAN, y = Checked(x, ok)
      PROVE  y \in ClickState /\ ClickOk(y, m)
  <2>1. ~x.pending /\ n = 0
    BY <1>2, <1>7 DEF ClickOk
  <2>2. /\ y.told = x.told /\ y.key = x.key /\ y.type = x.type /\ y.pending = ok
        /\ y.request = IF ok THEN "proxied" ELSE "refused"
    BY <1>2, <1>7 DEF Checked, ClickState
  <2>3. m = n /\ x.told # "nothing" /\ x.told # "expired" /\ x.told # "injected"
    BY <1>2, <1>3, <1>7, <1>16, <2>1 DEF ClickOk
  <2>4. y \in ClickState
    BY <1>2, <1>7 DEF Checked, ClickState, Answered
  <2> QED
    BY <1>2, <1>7, <2>1, <2>2, <2>3, <2>4 DEF ClickOk
<1>8. ASSUME x.pending, y = [x EXCEPT !.pending = FALSE]
      PROVE  y \in ClickState /\ ClickOk(y, m)
  <2>1. /\ y.told = x.told /\ y.key = x.key /\ y.type = x.type /\ ~y.pending
        /\ y.request = x.request
    BY <1>2, <1>8 DEF ClickState
  <2>2. /\ n = 0 /\ m \in {0, 1}
        /\ x.told \notin {"nothing", "expired", "injected"}
        /\ x.request \notin {"none", "sent", "refused", "ok"}
    BY <1>2, <1>3, <1>8, <1>16 DEF ClickOk
  <2>3. y \in ClickState
    BY <1>2, <1>8 DEF ClickState
  <2> QED
    BY <1>2, <1>8, <2>1, <2>2, <2>3 DEF ClickOk
<1>9. ASSUME x.request = "proxied", NEW answer \in {"ok", "failed"}, answer = "ok" => n > 0,
             y = [x EXCEPT !.request = answer]
      PROVE  y \in ClickState /\ ClickOk(y, m)
  <2>1. /\ y.told = x.told /\ y.key = x.key /\ y.type = x.type /\ y.pending = x.pending
        /\ y.request = answer /\ x.request # answer
    BY <1>2, <1>9 DEF ClickState
  <2>2. m = n /\ x.told \notin {"nothing", "expired"}
    BY <1>2, <1>9, <1>14, <1>16, <2>1 DEF ClickOk
  <2>3. y \in ClickState
    BY <1>2, <1>9 DEF ClickState, Answered
  <2>4. answer = "ok" => n = 1
    BY <1>2, <1>3, <1>9 DEF ClickOk
  <2> QED
    BY <1>2, <1>9, <2>1, <2>2, <2>3, <2>4 DEF ClickOk
<1>10. ASSUME x.request \in Answered, y = Delivered(x)
       PROVE  y \in ClickState /\ ClickOk(y, m)
  <2>1. /\ y.told = IF x.told = "injecting" THEN Told(x.request) ELSE x.told
        /\ y.key = x.key /\ y.type = x.type /\ y.pending = x.pending
        /\ y.request = "done" /\ x.request # "done"
    BY <1>2, <1>10 DEF ClickState, Delivered, Answered
  <2>2. m = n /\ x.told \notin {"nothing", "expired"}
    BY <1>2, <1>10, <1>14, <1>16, <2>1 DEF ClickOk, Answered
  <2>3. /\ Told(x.request) \in {"injected", "expired", "failed"}
        /\ Told(x.request) = "injected" => x.request = "ok"
        /\ Told(x.request) = "expired" => x.request = "refused"
    BY <1>10 DEF Told, Answered
  <2>4. y \in ClickState
    BY <1>2, <1>10, <2>3 DEF ClickState, Delivered
  <2> QED
    BY <1>2, <1>10, <2>1, <2>2, <2>3, <2>4 DEF ClickOk
<1>11. ASSUME y = Restarted(x)
       PROVE  y \in ClickState /\ ClickOk(y, m)
  <2>1. CASE x.request \in {"sent", "proxied"}
    <3>1. /\ y.told = x.told /\ y.key = x.key /\ y.type = x.type /\ y.pending = x.pending
          /\ y.request = "broken" /\ y \in ClickState
      BY <1>2, <1>11, <2>1 DEF ClickState, Restarted, Answered
    <3>2. m = n /\ x.told \notin {"nothing", "expired"}
      BY <1>2, <1>14, <1>16, <2>1, <3>1 DEF ClickOk
    <3> QED
      BY <1>2, <2>1, <3>1, <3>2 DEF ClickOk
  <2> QED
    BY <1>4, <1>11, <2>1 DEF Restarted
<1>12. ASSUME y = Left(x)
       PROVE  y \in ClickState /\ ClickOk(y, m)
  <2>1. CASE x.told = "injecting"
    <3>1. /\ y.told = "gone" /\ y.key = x.key /\ y.type = x.type /\ y.pending = x.pending
          /\ y.request = x.request /\ y \in ClickState
      BY <1>2, <1>12, <2>1 DEF ClickState, Left
    <3>2. m = n
      BY <1>2, <1>3, <2>1, <3>1 DEF ClickState
    <3> QED
      BY <1>2, <2>1, <3>1, <3>2 DEF ClickOk
  <2> QED
    BY <1>4, <1>12, <2>1 DEF Left
<1>13. y \in ClickState /\ ClickOk(y, m)
  <2>1. \A t \in x.token : Accepted(t) \in BOOLEAN
    BY DEF Accepted
  <2>2. (\A t \in x.token : Accepted(t)) \in BOOLEAN
    OBVIOUS
  <2> QED
    BY <1>1, <1>4, <1>5, <1>6, <1>7, <1>8, <1>9, <1>10, <1>11, <1>12, <2>2 DEF ClickStep
<1> QED
  BY <1>1, <1>13

\* All clicks stay consistent with the history of injections.
LEMMA ClicksKept ==
  ASSUME ScenariosInv, SessionType, ClicksInv, [Next]_vars
  PROVE  clicks' \in [Click -> ClickState] /\ ClicksInv'
<1>1. wall \in Nat
  BY DEF ScenariosInv, TableInv, TableType
<1>2. ASSUME NEW c \in Click
      PROVE  clicks'[c] \in ClickState /\ ClickOk(clicks'[c], By(c)')
  <2>1. \/ By(c)' = By(c)
        \/ GeneratorInjects(c) /\ By(c)' = By(c) + 1
    BY ScenariosKept
  <2>2. ASSUME GeneratorInjects(c)
        PROVE  clicks[c].pending /\ clicks'[c] = [clicks[c] EXCEPT !.pending = FALSE]
    <3>1. clicks' = [clicks EXCEPT ![c] = [clicks[c] EXCEPT !.pending = FALSE]]
      BY <2>2 DEF GeneratorInjects
    <3> QED
      BY <2>2, <3>1, OneChanged DEF GeneratorInjects
  <2>3. ClickStep(c)
    BY ClickSteps
  <2> QED
    BY <1>1, <2>1, <2>2, <2>3, ClickKept
<1>3. clicks' = [c \in Click |-> clicks'[c]]
  BY ClickSteps
<1>4. clicks' \in [Click -> ClickState]
  BY <1>2, <1>3
<1>5. ClicksInv'
  BY <1>2 DEF ClicksInv
<1> QED
  BY <1>4, <1>5

\* Every step keeps the types of page and gateway.
LEMMA SessionTypeKept ==
  ASSUME ScenariosInv, SessionType, ClicksInv, [Next]_vars
  PROVE  SessionType'
<1>1. wall \in Nat /\ budget.types \in SUBSET ScenarioType
  BY BudgetsAssumption DEF ScenariosInv, TableInv, TableType
<1>2. /\ secret \in Nat /\ unlocked \in BOOLEAN /\ Expiry \in Nat /\ Margin \in Nat
      /\ logins \in Nat /\ login \in SUBSET LoginState
      /\ stored \in SUBSET [token : Token, until : Int]
      /\ form \in [domain : {"market", "payments"}, type : ScenarioType]
  BY TokenAssumption DEF SessionType
<1>3. clicks' \in [Click -> ClickState]
  BY ClicksKept
<1>4. ASSUME UNCHANGED sessionVars PROVE SessionType'
  BY <1>2, <1>3, <1>4 DEF SessionType, sessionVars
<1>5. CASE Generator \/ Polling \/ UNCHANGED vars
  <2>1. UNCHANGED sessionVars
    BY <1>5 DEF Generator, Polling, AskList, ListTaken, ListFails, ListArrives, vars
  <2> QED
    BY <1>4, <2>1
<1>6. CASE \E c \in Click : CheckToken(c) \/ GeneratorInjects(c) \/ ProxyAnswers(c)
  <2>1. UNCHANGED sessionVars
    BY <1>6 DEF CheckToken, GeneratorInjects, ProxyAnswers
  <2> QED
    BY <1>4, <2>1
<1>7. CASE Unlock
  <2>1. UNCHANGED <<secret, stored, unlocked, form>> /\ logins' = logins + 1
    BY <1>7 DEF Unlock
  <2>2. PICK l : l = [number |-> logins', answer |-> "none", token |-> NoToken] /\ login' = login \cup {l}
    BY <1>7 DEF Unlock
  <2>3. l \in LoginState
    BY <1>2, <2>1, <2>2 DEF LoginState, Token, NoToken
  <2> QED
    BY <1>2, <1>3, <2>1, <2>2, <2>3 DEF SessionType
<1>7a. ASSUME NEW l \in login, IssueToken(l) PROVE SessionType'
  <2>1. UNCHANGED <<secret, logins, stored, unlocked, form>>
    BY <1>7a DEF IssueToken
  <2>2. PICK a \in {[l EXCEPT !.answer = "token", !.token.secret = secret, !.token.issued = wall],
                    [l EXCEPT !.answer = "denied"]} :
          login' = (login \ {l}) \cup {a}
    BY <1>7a DEF IssueToken
  <2>3. PICK n, w, t : n = l.number /\ w = l.answer /\ t = l.token /\ l = [number |-> n, answer |-> w, token |-> t]
    BY <1>2 DEF LoginState
  <2>4. n \in Nat /\ t \in Token
    BY <1>2, <2>3 DEF LoginState
  <2>5. PICK g \in Nat : g = t.got
    BY <2>4 DEF Token
  <2>6. \/ a = [number |-> n, answer |-> "token", token |-> [secret |-> secret, issued |-> wall, got |-> g]]
        \/ a = [number |-> n, answer |-> "denied", token |-> t]
    BY <2>2, <2>3, <2>4, <2>5 DEF Token
  <2>7. a \in LoginState
    BY <1>1, <1>2, <2>4, <2>5, <2>6 DEF LoginState, Token
  <2> QED
    BY <1>2, <1>3, <2>1, <2>2, <2>7 DEF SessionType
<1>8. ASSUME NEW l \in login, LoginAnswered(l) PROVE SessionType'
  <2>1. /\ login' = login \ {l}
        /\ \/ /\ stored' = {[token |-> [l.token EXCEPT !.got = wall], until |-> wall + Expiry - Margin]}
              /\ unlocked' = TRUE
           \/ UNCHANGED <<stored, unlocked>>
        /\ UNCHANGED <<secret, logins, form>>
    BY <1>8 DEF LoginAnswered
  <2>2. l.token \in Token
    BY <1>2 DEF LoginState
  <2>3. [l.token EXCEPT !.got = wall] \in Token
    BY <1>1, <2>2 DEF Token
  <2>4. wall + Expiry - Margin \in Int
    BY <1>1, <1>2
  <2>5. stored' \in SUBSET [token : Token, until : Int] /\ unlocked' \in BOOLEAN
    <3>1. PICK t, u : t = [l.token EXCEPT !.got = wall] /\ u = wall + Expiry - Margin
      OBVIOUS
    <3>2. [token |-> t, until |-> u] \in [token : Token, until : Int]
      BY <2>3, <2>4, <3>1
    <3>3. \/ stored' = {[token |-> t, until |-> u]} /\ unlocked' = TRUE
          \/ stored' = stored /\ unlocked' = unlocked
      BY <2>1, <3>1
    <3> QED
      BY <1>2, <3>2, <3>3
  <2> QED
    BY <1>2, <1>3, <2>1, <2>5 DEF SessionType
<1>9. CASE Lock \/ Reload
  <2>1. /\ stored' \in SUBSET stored /\ unlocked' \in BOOLEAN /\ login' \in SUBSET login
        /\ UNCHANGED <<secret, logins>>
    BY <1>9 DEF Lock, Reload
  <2>2. form' \in [domain : {"market", "payments"}, type : ScenarioType]
    BY <1>2, <1>9 DEF Lock, Reload, ScenarioType, MarketScenarios
  <2> QED
    BY <1>2, <1>3, <2>1, <2>2 DEF SessionType
<1>10. CASE Choose
  <2>1. UNCHANGED <<secret, logins, login, stored, unlocked>>
    BY <1>10 DEF Choose
  <2>2. form' \in [domain : {"market", "payments"}, type : ScenarioType]
    BY <1>1, <1>2, <1>10 DEF Choose, ValidScenarios
  <2> QED
    BY <1>2, <1>3, <2>1, <2>2 DEF SessionType
<1>11. ASSUME NEW c \in Click,
              Deliver(c) \/ \E e \in Entity : ClickInject(c, e)
       PROVE  SessionType'
  <2>1. UNCHANGED <<secret, logins, login, stored, form>>
    BY <1>11 DEF Deliver, ClickInject
  <2>2. unlocked' \in BOOLEAN
    BY <1>2, <1>11 DEF Deliver, ClickInject
  <2> QED
    BY <1>2, <1>3, <2>1, <2>2 DEF SessionType
<1>12. CASE GatewayRestarts
  <2>1. UNCHANGED <<logins, stored, unlocked, form>> /\ (secret' = secret \/ secret' = secret + 1)
    BY <1>12 DEF GatewayRestarts
  <2>2. login' \in SUBSET LoginState
    <3>1. ASSUME NEW l \in login
          PROVE  [l EXCEPT !.answer = IF @ = "none" THEN "denied" ELSE @] \in LoginState
      BY <1>2 DEF LoginState
    <3>2. login' = {[l EXCEPT !.answer = IF @ = "none" THEN "denied" ELSE @] : l \in login}
      BY <1>12 DEF GatewayRestarts
    <3> QED
      BY <3>1, <3>2
  <2> QED
    BY <1>2, <1>3, <2>1, <2>2 DEF SessionType
<1> QED
  BY <1>5, <1>6, <1>7, <1>7a, <1>8, <1>9, <1>10, <1>11, <1>12 DEF Next, Operator, Gateway
-----------------------------------------------------------------------------
(* The operator's session *)

\* What a step can do to the stored token and the lock on screen.
LoggedIn ==
  \E t \in Token : /\ t.got = wall /\ unlocked' = TRUE /\ wall' = wall
                   /\ stored' = {[token |-> t, until |-> wall + Expiry - Margin]}
LockedOut ==
  /\ stored' = stored /\ wall' = wall
  /\ \/ unlocked' = (UsableTokens # {})
     \/ unlocked' = unlocked
     \/ unlocked' = FALSE /\ \E c \in Click : clicks'[c].told = "expired"

\* What a step can do to lock and token.
LEMMA SessionMoves ==
  ASSUME ScenariosInv, SessionType, [Next]_vars
  PROVE  \/ stored' = stored /\ unlocked' = unlocked /\ wall' \in {wall, wall + 1}
         \/ LoggedIn
         \/ stored' = {} /\ unlocked' = FALSE /\ wall' = wall
         \/ LockedOut
<1>1. wall \in Nat
  BY DEF ScenariosInv, TableInv, TableType
<1>2. CASE Generator
  BY <1>2 DEF Generator, GeneratorNext, Tick, NextEvent, InjectDirect, sessionVars
<1>3. ASSUME NEW l \in login, LoginAnswered(l)
      PROVE  LoggedIn \/ (stored' = stored /\ unlocked' = unlocked /\ wall' \in {wall, wall + 1})
  <2>1. /\ \/ /\ stored' = {[token |-> [l.token EXCEPT !.got = wall], until |-> wall + Expiry - Margin]}
              /\ unlocked' = TRUE
           \/ UNCHANGED <<stored, unlocked>>
        /\ wall' = wall
    BY <1>3 DEF LoginAnswered
  <2>2. l.token \in Token
    BY DEF SessionType, LoginState
  <2>3. [l.token EXCEPT !.got = wall] \in Token /\ [l.token EXCEPT !.got = wall].got = wall
    BY <1>1, <2>2 DEF Token
  <2> QED
    BY <2>1, <2>3 DEF LoggedIn
<1>4. CASE Lock
  BY <1>4 DEF Lock
<1>5. CASE Reload
  BY <1>5 DEF Reload, LockedOut
<1>6. ASSUME NEW c \in Click, Deliver(c) PROVE LockedOut
  <2>1. CASE clicks'[c].told = "expired"
    BY <1>6, <2>1 DEF Deliver, LockedOut
  <2>2. CASE clicks'[c].told # "expired"
    <3>1. unlocked' = unlocked
      BY <1>6, <2>2 DEF Deliver, SessionType
    <3> QED
      BY <1>6, <3>1 DEF Deliver, LockedOut
  <2> QED
    BY <2>1, <2>2
<1>7. ASSUME NEW c \in Click, NEW e \in Entity, ClickInject(c, e) PROVE LockedOut
  <2>1. stored' = stored /\ wall' = wall
    BY <1>7 DEF ClickInject
  <2>2. CASE clicks' = [clicks EXCEPT ![c].told = "expired", ![c].request = "done"] /\ unlocked' = FALSE
    <3>1. clicks'[c].told = "expired"
      BY <2>2 DEF SessionType, ClickState
    <3> QED
      BY <2>1, <2>2, <3>1 DEF LockedOut
  <2>3. CASE UNCHANGED unlocked
    BY <2>1, <2>3 DEF LockedOut
  <2> QED
    BY <1>7, <2>2, <2>3 DEF ClickInject
<1>8. CASE Unlock \/ Choose \/ Gateway
  BY <1>8 DEF Unlock, Choose, Gateway, IssueToken, GatewayRestarts, CheckToken, GeneratorInjects,
              ProxyAnswers, sessionVars
<1>9. CASE Polling \/ UNCHANGED vars
  BY <1>9 DEF Polling, AskList, ListTaken, ListFails, ListArrives, vars, sessionVars
<1> QED
  BY <1>2, <1>3, <1>4, <1>5, <1>6, <1>7, <1>8, <1>9 DEF Next, Operator

\* The tokens a click carries after a step: those it had, unless it was just sent.
LEMMA TokensCarried ==
  ASSUME SessionType, ClicksInv, TokensInv, NEW c \in Click, ClickStep(c)
  PROVE  \/ clicks'[c].token = {}
         \/ /\ clicks'[c].token = clicks[c].token /\ clicks'[c].sent = clicks[c].sent
            /\ clicks'[c].request = clicks[c].request
         \/ /\ clicks'[c].token = {s.token : s \in UsableTokens} /\ clicks'[c].sent = wall
            /\ clicks'[c].request = "sent"
<1>1. PICK x, y : x = clicks[c] /\ y = clicks'[c]
  OBVIOUS
<1>2. /\ x \in ClickState /\ ClickOk(x, By(c)) /\ (x.token # {} => x.request = "sent")
      /\ x.request = "sent" => ~x.pending
  BY <1>1 DEF SessionType, ClicksInv, TokensInv, ClickOk
<1>3. CASE x = NoClick
  <2>1. x.token = {} /\ x.request = "none" /\ ~x.pending
    BY <1>3 DEF NoClick
  <2>2. y = Expired(x) => y.token = {}
    BY <1>2, <2>1 DEF Expired, ClickState
  <2>3. y = Restarted(x) => y = x
    BY <2>1 DEF Restarted
  <2>4. y = Left(x) => y.token = {}
    BY <1>2, <2>1 DEF Left, ClickState
  <2>5. x.request \notin Answered
    BY <2>1 DEF Answered
  <2>6. PICK k : k = {s.token : s \in UsableTokens}
    OBVIOUS
  <2>7. \A e \in Entity : y = [told |-> "injecting", request |-> "sent", pending |-> FALSE, key |-> e,
                             type |-> form.type, token |-> k, sent |-> wall]
          => y.token = k /\ y.sent = wall /\ y.request = "sent"
    OBVIOUS
  <2> QED
    BY <1>1, <2>1, <2>2, <2>3, <2>4, <2>5, <2>6, <2>7 DEF ClickStep
<1>4. CASE x # NoClick
  <2>1. \A ok \in BOOLEAN : y = Checked(x, ok) => y.token = {}
    BY <1>2 DEF Checked, ClickState
  <2>2. (\A t \in x.token : Accepted(t)) \in BOOLEAN
    OBVIOUS
  <2>3. x.pending /\ y = [x EXCEPT !.pending = FALSE] => y.token = {}
    BY <1>2 DEF ClickState
  <2>4. \A a \in {"ok", "failed"} : x.request = "proxied" /\ y = [x EXCEPT !.request = a] => y.token = {}
    BY <1>2 DEF ClickState
  <2>5. x.request \in Answered /\ y = Delivered(x) => y.token = {}
    BY <1>2 DEF ClickState, Delivered, Answered
  <2>6. y = Restarted(x) => y.token = {} \/ y = x
    BY <1>2 DEF ClickState, Restarted
  <2>7. y = Left(x) => y.token = x.token /\ y.sent = x.sent /\ y.request = x.request
    BY <1>2 DEF ClickState, Left
  <2> QED
    BY <1>1, <1>4, <2>1, <2>2, <2>3, <2>4, <2>5, <2>6, <2>7 DEF ClickStep
<1> QED
  BY <1>3, <1>4

\* Every step keeps the tokens within their margin.
LEMMA TokensKept ==
  ASSUME ScenariosInv, SessionType, ClicksInv, TokensInv, [Next]_vars
  PROVE  TokensInv'
<1>1. /\ \A s, t \in stored' : s = t
      /\ \A s \in stored' : s.until = s.token.got + Expiry - Margin
  <2>1. CASE LoggedIn
    <3>1. PICK t, u : /\ t.got = wall /\ u = wall + Expiry - Margin
                      /\ stored' = {[token |-> t, until |-> u]}
      BY <2>1 DEF LoggedIn
    <3> QED
      BY <3>1
  <2>2. CASE stored' = stored \/ stored' = {}
    BY <2>2 DEF TokensInv
  <2> QED
    BY <2>1, <2>2, SessionMoves DEF LockedOut
<1>2. \A t \in {s.token : s \in UsableTokens} :
        /\ wall < t.got + Expiry - Margin
        /\ \A u \in {s.token : s \in UsableTokens} : u = t
  <2>1. \A s \in UsableTokens : wall < s.token.got + Expiry - Margin /\ s \in stored
    BY DEF UsableTokens, TokensInv
  <2>2. \A s, t \in UsableTokens : s = t
    BY <2>1 DEF TokensInv
  <2> QED
    BY <2>1, <2>2
<1>3. ASSUME NEW c \in Click, NEW t \in clicks'[c].token
      PROVE  /\ clicks'[c].request = "sent" /\ clicks'[c].sent < t.got + Expiry - Margin
             /\ \A u \in clicks'[c].token : u = t
  <2>1. ClickStep(c)
    BY ClickSteps
  <2>2. CASE /\ clicks'[c].token = clicks[c].token /\ clicks'[c].sent = clicks[c].sent
             /\ clicks'[c].request = clicks[c].request
    BY <1>3, <2>2 DEF TokensInv
  <2>3. CASE /\ clicks'[c].token = {s.token : s \in UsableTokens} /\ clicks'[c].sent = wall
             /\ clicks'[c].request = "sent"
    BY <1>2, <1>3, <2>3
  <2> QED
    BY <1>3, <2>1, <2>2, <2>3, TokensCarried
<1> QED
  BY <1>1, <1>3 DEF TokensInv

\* A click that said "expired" says so for good.
LEMMA ToldExpired ==
  ASSUME SessionType, ClicksInv, NEW c \in Click, ClickStep(c), clicks[c].told = "expired"
  PROVE  clicks'[c].told = "expired"
<1>1. PICK x, y : x = clicks[c] /\ y = clicks'[c]
  OBVIOUS
<1>2. /\ x \in ClickState /\ x.told = "expired" /\ x.request = "done" /\ ~x.pending
  BY <1>1 DEF SessionType, ClicksInv, ClickOk
<1>3. x # NoClick /\ x.request \notin Answered
  <2>1. NoClick.request = "none"
    BY DEF NoClick
  <2> QED
    BY <1>2, <2>1 DEF Answered
<1>4. y = Restarted(x) \/ y = Left(x) => y = x
  BY <1>2 DEF Restarted, Left
<1> QED
  BY <1>1, <1>2, <1>3, <1>4 DEF ClickStep

\* Every step keeps lock and token in step.
LEMMA SessionStaysInStep ==
  ASSUME ScenariosInv, SessionType, ClicksInv, SessionInStep, [Next]_vars
  PROVE  SessionInStep'
<1>1. wall \in Nat /\ \A s \in stored : s.until \in Int
  BY DEF ScenariosInv, TableInv, TableType, SessionType
<1>2. \A c \in Click : clicks[c].told = "expired" => clicks'[c].told = "expired"
  BY ClickSteps, ToldExpired
<1>3. CASE stored' = stored /\ unlocked' = unlocked /\ wall' \in {wall, wall + 1}
  <2>1. UsableTokens' \subseteq UsableTokens
    BY <1>1, <1>3 DEF UsableTokens
  <2> QED
    BY <1>2, <1>3, <2>1 DEF SessionInStep
<1>4. CASE LoggedIn
  <2>1. stored' # {} /\ unlocked' = TRUE
    BY <1>4 DEF LoggedIn
  <2> QED
    BY <2>1 DEF SessionInStep
<1>5. CASE stored' = {} /\ unlocked' = FALSE
  BY <1>5 DEF SessionInStep, UsableTokens
<1>6. CASE LockedOut
  <2>1. UsableTokens' = UsableTokens /\ UsableTokens \subseteq stored
    BY <1>6 DEF UsableTokens, LockedOut
  <2>2. CASE unlocked' = (UsableTokens # {})
    <3>1. CASE UsableTokens = {}
      BY <2>1, <2>2, <3>1 DEF SessionInStep
    <3>2. CASE UsableTokens # {}
      <4>1. unlocked' = TRUE /\ stored # {} /\ stored' = stored
        BY <1>6, <2>1, <2>2, <3>2 DEF LockedOut
      <4> QED
        BY <4>1 DEF SessionInStep
    <3> QED
      BY <3>1, <3>2
  <2>3. CASE unlocked' = unlocked
    BY <1>2, <1>6, <2>1, <2>3 DEF SessionInStep, LockedOut
  <2>4. CASE unlocked' = FALSE /\ \E c \in Click : clicks'[c].told = "expired"
    BY <2>4 DEF SessionInStep
  <2> QED
    BY <1>6, <2>2, <2>3, <2>4 DEF LockedOut
<1> QED
  BY <1>3, <1>4, <1>5, <1>6, SessionMoves

\* A token of this gateway that is refused was late.
LEMMA LateIfRefused ==
  ASSUME ScenariosInv, SessionType, ClicksInv, TokensInv, [Next]_vars,
         NEW c \in Click, NEW t \in clicks[c].token,
         clicks'[c].request = "refused", t.secret = secret
  PROVE  (wall - clicks[c].sent) + (t.got - t.issued) > Margin - (t.issued % Second)
<1>1. PICK x, y : x = clicks[c] /\ y = clicks'[c]
  OBVIOUS
<1>2. /\ x \in ClickState /\ t \in Token /\ x.request = "sent" /\ ~x.pending
      /\ x.sent < t.got + Expiry - Margin /\ \A u \in x.token : u = t
  BY <1>1 DEF SessionType, ClicksInv, TokensInv, ClickOk, ClickState
<1>3. ClickStep(c)
  BY ClickSteps
<1>4. ~\A u \in x.token : Accepted(u)
  <2>1. x # NoClick /\ x.request \notin Answered
    <3>1. NoClick.request = "none"
      BY DEF NoClick
    <3> QED
      BY <1>2, <3>1 DEF Answered
  <2>2. y = Restarted(x) \/ y = Left(x) => y.request # "refused"
    BY <1>2 DEF Restarted, Left, ClickState
  <2>3. y = Checked(x, TRUE) => y.request # "refused"
    BY <1>2 DEF Checked, ClickState
  <2> QED
    BY <1>1, <1>2, <1>3, <2>1, <2>2, <2>3 DEF ClickStep
<1>5. PICK cut : cut = t.issued % Second /\ ~(wall < t.issued - cut + Expiry)
  BY <1>2, <1>4 DEF Accepted, Iat
<1>6. wall \in Nat /\ Expiry \in Nat /\ Margin \in Nat
  BY TokenAssumption DEF ScenariosInv, TableInv, TableType
<1>7. x.sent \in Nat /\ t.got \in Nat /\ t.issued \in Nat
  BY <1>2 DEF ClickState, Token
<1>8. cut \in Nat
  <2>1. \A a \in Nat, b \in Nat \ {0} : a % b \in Nat
    OBVIOUS
  <2> QED
    BY <1>5, <1>7, <2>1, SecondAssumption
<1> QED
  BY <1>1, <1>2, <1>5, <1>6, <1>7, <1>8
-----------------------------------------------------------------------------
(* The theorems *)

\* The invariant at the start.
LEMMA ConsoleStarts == Init => ConsoleInv
<1> SUFFICES ASSUME Init PROVE ConsoleInv
  OBVIOUS
<1>1. ScenariosInv
  BY GeneratorStarts DEF Init
<1>2. SessionType
  <2>1. NoClick \in ClickState
    BY DEF NoClick, ClickState
  <2> QED
    BY <2>1 DEF Init, SessionType, ScenarioType, MarketScenarios
<1>3. \A c \in Click : clicks[c] = NoClick /\ By(c) = 0
  <2>1. log = <<>>
    BY DEF Init, GeneratorInit
  <2>2. \A c \in Click : {i \in DOMAIN log : log[i].by = c} = {}
    BY <2>1
  <2> QED
    BY <2>2, FS_EmptySet DEF Init, By
<1>4. ClickOk(NoClick, 0) /\ NoClick.token = {}
  BY DEF ClickOk, NoClick
<1>5. ClicksInv
  BY <1>3, <1>4 DEF ClicksInv
<1>6. TokensInv /\ SessionInStep
  BY <1>3, <1>4 DEF Init, TokensInv, SessionInStep, UsableTokens
<1> QED
  BY <1>1, <1>2, <1>5, <1>6 DEF ConsoleInv

\* Every step keeps the invariant.
LEMMA ConsoleKept == ConsoleInv /\ [Next]_vars => ConsoleInv'
BY ScenariosKept, SessionTypeKept, ClicksKept, TokensKept, SessionStaysInStep DEF ConsoleInv

(* The invariant the theorems below are read from. *)
THEOREM ConsoleInvariant == Spec => []ConsoleInv
<1>1. Init => ConsoleInv
  BY ConsoleStarts
<1>2. ConsoleInv /\ [Next]_vars => ConsoleInv'
  BY ConsoleKept
<1> QED
  BY <1>1, <1>2, PTL DEF Spec

(* inject_scenario of the gateway and inject() of the page: "injected" was applied
   exactly once, a click that "expired" was never applied and never will be, and no
   click is applied twice, whatever is lost, late, timed out or restarted. *)
THEOREM OperatorIsToldTheTruth == Spec => []VerdictsAreTrue
<1>1. ConsoleInv => VerdictsAreTrue
  <2> SUFFICES ASSUME ConsoleInv, NEW c \in Click
               PROVE  /\ By(c) + (IF clicks[c].pending THEN 1 ELSE 0) <= 1
                      /\ clicks[c].told = "injected" => By(c) = 1
                      /\ clicks[c].told \in {"expired", "nothing"} => By(c) = 0 /\ ~clicks[c].pending
    BY DEF VerdictsAreTrue
  <2>1. ClickOk(clicks[c], By(c)) /\ clicks[c].pending \in BOOLEAN
    BY ClickFields DEF ConsoleInv, ClicksInv
  <2>2. NoClick.request = "none"
    BY DEF NoClick
  <2>3. clicks[c].told \in {"expired", "nothing"} => By(c) = 0 /\ ~clicks[c].pending
    BY <2>1, <2>2 DEF ClickOk
  <2> QED
    BY <2>1, <2>3 DEF ClickOk
<1> QED
  BY <1>1, ConsoleInvariant, PTL

(* getStoredToken and the lock of ScenarioControls agree: an unlocked page has a
   token, and a locked one has a usable token only after a click that "expired". *)
THEOREM SessionAgrees == Spec => []SessionInStep
<1>1. ConsoleInv => SessionInStep
  BY DEF ConsoleInv
<1> QED
  BY <1>1, ConsoleInvariant, PTL

(* require_operator refuses a token signed with its own secret only when the login
   answer and the request together took longer than the safety margin of auth.ts,
   less the fraction of a second that iat leaves out. *)
THEOREM RefusedForLateness == Spec => RefusedOnlyWhenSlow
<1>1. ConsoleInv /\ [Next]_vars
        => [\A c \in Click : \A t \in clicks[c].token :
              (clicks'[c].request = "refused" /\ t.secret = secret)
                => (wall - clicks[c].sent) + (t.got - t.issued) > Margin - (t.issued % Second)]_vars
  BY LateIfRefused DEF ConsoleInv
<1> QED
  BY <1>1, ConsoleInvariant, PTL DEF Spec, RefusedOnlyWhenSlow

(* ScenarioManager.get_active: the label an event carries is the scenario that was
   in force for its entity when it was generated, whatever was injected, spawned,
   replaced or deleted, and whoever listed the scenarios. *)
THEOREM LabelsAreGroundTruth == Spec => []GroundTruth
<1>1. ConsoleInv => GroundTruth
  BY LabelsFollow DEF ConsoleInv
<1> QED
  BY <1>1, ConsoleInvariant, PTL

(* PaymentsEntity.tick: from one event to the next of a merchant under fraud the
   compromised cluster stays the same. *)
THEOREM FraudOnOneCluster == Spec => FraudKeepsItsCluster
<1>1. ConsoleInv /\ [Next]_vars => FraudStep
  BY ScenariosKept DEF ConsoleInv
<1> QED
  BY <1>1, ConsoleInvariant, PTL DEF Spec, FraudKeepsItsCluster, FraudStep
=============================================================================
