----------------------------- MODULE MCLiveFeed -----------------------------
(* Instances of LiveFeed for TLC. *)
EXTENDS LiveFeed, TLC

CONSTANTS a, b   \* two tabs

Tabs == Permutations({a, b})

(* The states the run of the safety properties keeps to.  One tab, with everything that
   can happen to its screen ... *)
OneScreen ==
  /\ Len(log["alerts"]) <= 2 /\ handler[3] = "none"
  /\ \E tab \in Tab : \A other \in Tab \ {tab} : socket[other] = NoConn /\ shown[other] = <<>>

(* ... or more tabs and messages, as far as broadcasts can tell them apart: the backlog
   and what a tab does with a message do not matter to them ... *)
OnlyBroadcasts ==
  /\ restarts = 0 /\ table = {} /\ \A tab \in Tab : shown[tab] = <<>>
  /\ \A i \in Conn : handler[i] \notin {"greeting", "reading"}
  /\ \A k \in 1 .. made : alertOf[k] = k
  /\ log["alerts"] \in {<<>>, <<1>>, <<1, 2>>, <<1, 2, 2>>}

(* ... with one relay at work, or both. *)
OneRelay == log["model-metrics"] = <<>> /\ relay["model-metrics"].pc = "polling"
BothRelays == made <= 1 /\ handler[3] = "none"

Bounds == (OneRelay /\ OneScreen) \/ (OnlyBroadcasts /\ (OneRelay \/ BothRelays))
=============================================================================
