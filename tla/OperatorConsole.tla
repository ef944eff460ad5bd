-------------------------- MODULE OperatorConsole --------------------------
(***************************************************************************)
(* The control plane around Scenarios: the dashboard's scenario controls     *)
(* (ScenarioControls.tsx, lib/auth.ts, lib/api.ts), the operator tokens and   *)
(* the proxy routes of the api-gateway (auth.py, routes/system.py), and the    *)
(* polled list of active scenarios (usePolling.ts).  Requests between browser  *)
(* and gateway, and between gateway and generator, take any time; browser and  *)
(* gateway read the same clock.                                              *)
(***************************************************************************)
EXTENDS Scenarios

CONSTANTS
  Expiry,  \* api_gateway_jwt_expiry_minutes, in ticks
  Margin,  \* the safety margin of auth.ts, in ticks
  Poll     \* polls that may be in flight at once

ASSUME TokenAssumption == Expiry \in Nat /\ Margin \in 0 .. Expiry

VARIABLES
  secret,   \* the signing secret: configured, or a random one of each start of the gateway
  logins,   \* history: logins sent
  login,    \* the logins in flight, each with its number
  stored,   \* localStorage: a set of at most one token with its expiry time
  unlocked, \* ScenarioControls: unlocked
  form,     \* ScenarioControls: the domain and the scenario selected
  clicks,   \* per click, its request and what the operator was told
  polls,    \* per poll, whether it is in flight and the list it got
  shown     \* the list of active scenarios on screen

sessionVars == <<secret, logins, login, stored, unlocked, form>>
pollVars    == <<polls, shown>>
vars == <<wall, genVars, budget, sessionVars, clicks, pollVars>>

NoList == {0}   \* usePolling: data = null

EntitiesOf(domain) == IF domain = "market" THEN Market ELSE Payments
ValidScenarios(domain) ==
  budget.types \ (IF domain = "market" THEN {"fraud_pattern"} ELSE {"volatility_spike"})
-----------------------------------------------------------------------------
(* Operator session *)

\* getStoredToken
UsableTokens_NoMargin == {s \in stored : wall < s.token.got + Expiry}
UsableTokens == {s \in stored : wall < s.until}

NoToken == [secret |-> 0, issued |-> 0, got |-> 0]

Unlock ==
  /\ ~unlocked /\ logins < budget.logins
  /\ logins' = logins + 1
  /\ login' = login \cup {[number |-> logins', answer |-> "none", token |-> NoToken]}
  /\ UNCHANGED <<wall, genVars, budget, secret, stored, unlocked, form, clicks, pollVars>>

\* POST /auth/token: the key is right, or not (or none is configured)
IssueToken(l) ==
  /\ l.answer = "none"
  /\ \E answered \in {[l EXCEPT !.answer = "token", !.token.secret = secret, !.token.issued = wall],
                      [l EXCEPT !.answer = "denied"]} :
       login' = (login \ {l}) \cup {answered}
  /\ UNCHANGED <<wall, genVars, budget, secret, logins, stored, unlocked, form, clicks, pollVars>>

\* iat is int(time.time()): the second in which the token was issued has begun then
Iat(t) == t.issued - (t.issued % Second)

LoginAnswered(l) ==
  /\ l.answer # "none"
  /\ login' = login \ {l}
  /\ IF l.answer = "token"
     THEN /\ stored' = {[token |-> [l.token EXCEPT !.got = wall], until |-> wall + Expiry - Margin]}
          /\ unlocked' = TRUE
     ELSE UNCHANGED <<stored, unlocked>>
  /\ UNCHANGED <<wall, genVars, budget, secret, logins, form, clicks, pollVars>>

Lock_KeepsToken ==
  /\ unlocked
  /\ unlocked' = FALSE
  /\ UNCHANGED <<wall, genVars, budget, secret, logins, login, stored, form, clicks, pollVars>>
Lock ==
  /\ unlocked
  /\ stored' = {} /\ unlocked' = FALSE
  /\ UNCHANGED <<wall, genVars, budget, secret, logins, login, form, clicks, pollVars>>

\* switching the domain resets the entity, not the scenario
Choose ==
  /\ unlocked /\ budget.clicks > 0
  /\ \/ \E type \in ValidScenarios(form.domain) : form' = [form EXCEPT !.type = type]
     \/ \E domain \in {"market", "payments"} : form' = [form EXCEPT !.domain = domain]
  /\ UNCHANGED <<wall, genVars, budget, secret, logins, login, stored, unlocked, clicks, pollVars>>

\* the page is loaded again: its fetches are forgotten, localStorage is not
Reload ==
  /\ budget.clicks > 0
  /\ unlocked' = (UsableTokens # {})
  /\ login' = {}
  /\ form' = [domain |-> "market", type |-> "volatility_spike"]
  /\ clicks' = [c \in Click |-> IF clicks[c].told = "injecting" THEN [clicks[c] EXCEPT !.told = "gone"]
                               ELSE clicks[c]]
  /\ UNCHANGED <<wall, genVars, budget, secret, logins, stored, pollVars>>
-----------------------------------------------------------------------------
(* One click on Inject: [told, request, pending, key, type, token, sent].  The
   request goes none, sent, proxied, and is answered refused, ok, failed or
   broken; `pending` is the proxied request, which may reach the generator late. *)

NoClick == [told |-> "nothing", request |-> "none", pending |-> FALSE,
            key |-> "", type |-> "", token |-> {}, sent |-> 0]

Answered == {"refused", "ok", "failed", "broken"}

ClickInject(c, e) ==
  /\ unlocked /\ clicks[c] = NoClick
  /\ Cardinality({x \in Click : clicks[x] # NoClick}) < budget.clicks
  /\ e \in EntitiesOf(form.domain)
  /\ \/ /\ UsableTokens = {}
        /\ clicks' = [clicks EXCEPT ![c].told = "expired", ![c].request = "done"]
        /\ unlocked' = FALSE
     \/ /\ UsableTokens # {}
        /\ clicks' = [clicks EXCEPT ![c] =
             [told |-> "injecting", request |-> "sent", pending |-> FALSE, key |-> e,
              type |-> form.type, token |-> {s.token : s \in UsableTokens}, sent |-> wall]]
        /\ UNCHANGED unlocked
  /\ UNCHANGED <<wall, genVars, budget, secret, logins, login, stored, form, pollVars>>

\* require_operator: signed with the secret of this process and not expired
Accepted(t) == t.secret = secret /\ wall < Iat(t) + Expiry

CheckToken_Forwards(c) ==
  /\ clicks[c].request = "sent"
  /\ clicks' = [clicks EXCEPT ![c].pending = TRUE, ![c].token = {}, ![c].sent = 0,
       ![c].request = IF \A t \in clicks[c].token : Accepted(t) THEN "proxied" ELSE "refused"]
  /\ UNCHANGED <<wall, genVars, budget, sessionVars, pollVars>>
CheckToken(c) ==
  /\ clicks[c].request = "sent"
  /\ LET ok == \A t \in clicks[c].token : Accepted(t)
     IN  clicks' = [clicks EXCEPT ![c].pending = ok, ![c].token = {}, ![c].sent = 0,
                                  ![c].request = IF ok THEN "proxied" ELSE "refused"]
  /\ UNCHANGED <<wall, genVars, budget, sessionVars, pollVars>>

\* the generator handles the proxied request, or it is lost on the way
GeneratorInjects(c) ==
  /\ clicks[c].pending
  /\ clicks' = [clicks EXCEPT ![c].pending = FALSE]
  /\ \/ \E duration \in budget.durations : Inject(clicks[c].key, clicks[c].type, duration, c)
     \/ UNCHANGED genVars
  /\ UNCHANGED <<wall, budget, sessionVars, pollVars>>

\* inject_scenario: the generator's answer, or a 502 after an error or ten seconds
ProxyAnswers_NoTimeout(c) ==
  /\ clicks[c].request = "proxied" /\ By(c) > 0
  /\ clicks' = [clicks EXCEPT ![c].request = "ok"]
  /\ UNCHANGED <<wall, genVars, budget, sessionVars, pollVars>>
ProxyAnswers(c) ==
  /\ clicks[c].request = "proxied"
  /\ \/ By(c) > 0 /\ clicks' = [clicks EXCEPT ![c].request = "ok"]
     \/ clicks' = [clicks EXCEPT ![c].request = "failed"]
  /\ UNCHANGED <<wall, genVars, budget, sessionVars, pollVars>>

(* injectScenario and inject() of the page: 401 locks, anything else is a failure.
   `told` is what inject() sets for its own click; the page has one status for all
   clicks, the last one set, and does not render it while it is locked. *)
Told(answer) == CASE answer = "ok" -> "injected" [] answer = "refused" -> "expired"
                  [] OTHER -> "failed"

Deliver(c) ==
  /\ clicks[c].request \in Answered
  /\ clicks' = [clicks EXCEPT ![c].request = "done",
       ![c].told = IF @ = "injecting" THEN Told(clicks[c].request) ELSE @]
  /\ unlocked' = (unlocked /\ clicks'[c].told # "expired")
  /\ UNCHANGED <<wall, genVars, budget, secret, logins, login, stored, form, pollVars>>

(* The gateway process ends and starts again: its open connections break, what it
   has forwarded stays on its way.  A secret that is not configured is drawn anew. *)
GatewayRestarts ==
  /\ budget.restarts > 0
  /\ secret' = secret \/ (secret <= budget.restarts /\ secret' = secret + 1)
  /\ login' = {[l EXCEPT !.answer = IF @ = "none" THEN "denied" ELSE @] : l \in login}
  /\ clicks' = [c \in Click |->
       IF clicks[c].request \in {"sent", "proxied"}
       THEN [clicks[c] EXCEPT !.request = "broken", !.token = {}, !.sent = 0]
       ELSE clicks[c]]
  /\ polls' = [p \in Poll |-> IF polls[p].state = "asked" THEN [polls[p] EXCEPT !.state = "failed"]
                             ELSE polls[p]]
  /\ UNCHANGED <<wall, genVars, budget, logins, stored, unlocked, form, shown>>
-----------------------------------------------------------------------------
(* usePolling of GET /api/scenarios: every interval one more fetch, whether or
   not the one before has been answered. *)

PollState(p, state, list) == polls' = [polls EXCEPT ![p] = [state |-> state, list |-> list]]

AskList(p) ==
  /\ budget.polls /\ polls[p].state = "idle"
  /\ PollState(p, "asked", {})
  /\ UNCHANGED <<wall, genVars, budget, sessionVars, clicks, shown>>

ListTaken(p) ==
  /\ polls[p].state = "asked"
  /\ PollState(p, "answered", Snapshot)
  /\ UNCHANGED <<wall, genVars, budget, sessionVars, clicks, shown>>

ListFails(p) ==
  /\ polls[p].state = "asked"
  /\ PollState(p, "failed", {})
  /\ UNCHANGED <<wall, genVars, budget, sessionVars, clicks, shown>>

\* run(): the last good value stays on an error
ListArrives_FailureStops(p) ==
  /\ polls[p].state \in {"answered", "failed"}
  /\ shown' = IF polls[p].state = "answered" THEN polls[p].list ELSE shown
  /\ PollState(p, IF polls[p].state = "failed" THEN "over" ELSE "idle", {})
  /\ UNCHANGED <<wall, genVars, budget, sessionVars, clicks>>
ListArrives(p) ==
  /\ polls[p].state \in {"answered", "failed"}
  /\ shown' = IF polls[p].state = "answered" THEN polls[p].list ELSE shown
  /\ PollState(p, "idle", {})
  /\ UNCHANGED <<wall, genVars, budget, sessionVars, clicks>>
-----------------------------------------------------------------------------
Init ==
  /\ GeneratorInit
  /\ secret = 1 /\ logins = 0 /\ login = {} /\ stored = {} /\ unlocked = FALSE
  /\ form = [domain |-> "market", type |-> "volatility_spike"]
  /\ clicks = [c \in Click |-> NoClick]
  /\ polls = [p \in Poll |-> [state |-> "idle", list |-> {}]] /\ shown = NoList

Generator == GeneratorNext /\ UNCHANGED <<sessionVars, clicks, pollVars>>
Operator  == Unlock \/ Lock \/ Choose \/ Reload \/ \E l \in login : LoginAnswered(l)
             \/ \E c \in Click : Deliver(c) \/ \E e \in Entity : ClickInject(c, e)
Gateway   == GatewayRestarts \/ \E l \in login : IssueToken(l)
             \/ \E c \in Click : CheckToken(c) \/ GeneratorInjects(c) \/ ProxyAnswers(c)
Polling   == \E p \in Poll : AskList(p) \/ ListTaken(p) \/ ListFails(p) \/ ListArrives(p)

Next == Generator \/ Operator \/ Gateway \/ Polling

(* The gateway handles what it is asked and gives up on the generator after ten
   seconds; the browser gets an answer or sees the connection break; the timer
   of usePolling fires for ever, and now and then the generator answers. *)
Fairness ==
  /\ \A c \in Click : WF_vars(CheckToken(c)) /\ WF_vars(ProxyAnswers(c)) /\ WF_vars(Deliver(c))
  /\ \A p \in Poll : WF_vars(AskList(p)) /\ SF_vars(ListTaken(p)) /\ WF_vars(ListArrives(p))

Spec == Init /\ [][Next]_vars /\ Fairness
-----------------------------------------------------------------------------
(* What the operator is told is true for good: "injected" was applied once, a
   refused click never was and never will be; a click that "failed" or whose
   page was left may have been applied, and no click is applied twice. *)
VerdictsAreTrue ==
  \A c \in Click :
    /\ By(c) + (IF clicks[c].pending THEN 1 ELSE 0) <= 1
    /\ clicks[c].told = "injected" => By(c) = 1
    /\ clicks[c].told \in {"expired", "nothing"} => By(c) = 0 /\ ~clicks[c].pending

(* auth.ts: "5s safety margin so a token doesn't expire mid-request".  A token
   signed with the gateway's secret is refused only when its login answer and the
   click's own way together took longer than the margin, less what int(time.time())
   cut off when it was issued: up to a second. *)
RefusedOnlyWhenSlow ==
  [][\A c \in Click : \A t \in clicks[c].token :
       (clicks'[c].request = "refused" /\ t.secret = secret)
         => (wall - clicks[c].sent) + (t.got - t.issued) > Margin - (t.issued % Second)]_vars

(* The lock on screen and the token in storage agree: an unlocked page has one, a
   locked page has none that is still usable - except after a 401, which locks
   the page (also one unlocked again meanwhile) and leaves the token. *)
SessionInStep ==
  /\ unlocked => stored # {}
  /\ (~unlocked /\ UsableTokens # {}) => \E c \in Click : clicks[c].told = "expired"

(* Every click gets an answer, also when the generator never answers. *)
EveryClickIsAnswered ==
  \A c \in Click : clicks[c].told = "injecting" ~> clicks[c].told # "injecting"

(* Overlapping polls may show an older list after a newer one, but not for good:
   when nothing changes any more the screen settles on what is active. *)
ListSettles == (\A b \in {budget} : b.polls) => <>[](shown = Snapshot)
=============================================================================
