------------------------- MODULE MCOperatorConsole -------------------------
(* Instances of OperatorConsole for TLC. *)
EXTENDS OperatorConsole, TLC

CONSTANTS btc, shop, ghost

Nothing == [time |-> 2, types |-> {}, durations |-> {}, events |-> FALSE, spawns |-> 0,
            direct |-> 0, clicks |-> 0, logins |-> 0, restarts |-> 0, polls |-> FALSE]

\* scenarios spawned and injected under a stream of events
Stream == [Nothing EXCEPT !.time = 4, !.types = {"fraud_pattern", "regime_change"},
             !.durations = {1, 2}, !.events = TRUE, !.spawns = 2, !.direct = 1]

\* one click of an operator who logs in twice, over a restart of the gateway
Session == [Nothing EXCEPT !.time = 4, !.types = {"volatility_spike", "fraud_pattern"},
             !.durations = {2}, !.clicks = 1, !.logins = 2, !.restarts = 1]

\* two clicks in flight at once
Clicks == [Session EXCEPT !.types = {"volatility_spike"}, !.clicks = 2, !.logins = 1,
             !.restarts = 0]

\* polls over injections
Watch == [Nothing EXCEPT !.time = 4, !.types = {"latency_incident"}, !.durations = {1},
             !.direct = 2, !.restarts = 1, !.polls = TRUE]

Shares == {Stream, Session, Clicks, Watch}
=============================================================================
