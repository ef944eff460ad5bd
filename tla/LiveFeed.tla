------------------------------ MODULE LiveFeed ------------------------------
(***************************************************************************)
(* How an alert reaches a screen.  services/api-gateway relays the alerts   *)
(* and model-metrics topics to the WebSockets of one shared set of clients  *)
(* (ws_manager.py, kafka_bridge.py), and greets each new client with a      *)
(* backlog read from ClickHouse (main.py, ws_endpoint);                     *)
(* services/dashboard/src/hooks/useLiveFeed.ts turns the messages of a      *)
(* connection into the list a tab shows.  The gateway is one event loop:    *)
(* its two relays and one handler per connection interleave at their        *)
(* awaits.                                                                  *)
(*                                                                          *)
(* The scorings that raise an alert are numbered as ml-inference makes      *)
(* them.  A window that is scored again after a crash raises its alert, of  *)
(* the same alert_id, once more.  Model metrics carry no data here: that    *)
(* relay is modelled for what it does to the shared set.                    *)
(***************************************************************************)
EXTENDS Naturals, Sequences, FiniteSets, SequencesExt

CONSTANTS
  Tab,           \* browser tabs with the dashboard open
  BacklogSize,   \* ws_backlog_size
  MaxShown,      \* MAX_ALERTS
  MaxAlerts,     \* bound: scorings that ever raise an alert
  MaxSent,       \* bound: messages ever in the alerts topic
  MaxStored,     \* bound: rows of risk.alerts at a time
  MaxMetrics,    \* bound: model-metrics events ever made
  MaxConns,      \* bound: connections ever opened
  MaxRestarts    \* bound: times the gateway is restarted

ASSUME FeedAssumption == {BacklogSize, MaxShown} \subseteq Nat \ {0}
ASSUME FeedBounds     == {MaxAlerts, MaxSent, MaxStored, MaxMetrics, MaxConns, MaxRestarts} \subseteq Nat

Topic == {"alerts", "model-metrics"}
Conn  == 1 .. MaxConns   \* each connection is a WebSocket object of its own
NoConn == 0

VARIABLES
  (* ml-inference, Kafka and ClickHouse *)
  made,      \* scorings so far that raised an alert
  alertOf,   \* the alert each of them raised
  log,       \* per topic, the messages in offset order
  table,     \* the scorings that risk.alerts has a row of
  (* the gateway *)
  clients,   \* WebSocketManager._clients
  relay,     \* per topic, where relay_topic is
  handler,   \* per connection, where ws_endpoint is
  queried,   \* per connection, the rows the backlog query returned
  restarts,
  (* the network and the tabs *)
  open,      \* connections the browser still holds
  inbox,     \* per connection, the messages on their way, in order
  socket,    \* per tab, its connection, or NoConn
  shown,     \* per tab, `alerts`: the copies on screen, newest first
  (* history *)
  greeted,   \* open connections whose backlog the tab has handled
  delivered, \* per open connection, the offsets of alerts sent to it
  early,     \* per open connection, the messages its tab handled before the backlog
  disturbed, \* relays during whose broadcast someone else changed `clients`
  shaken     \* offsets of alerts during whose broadcast someone joined `clients`

pipelineVars == <<made, alertOf, log, table>>
gatewayVars  == <<clients, relay, disturbed, shaken, handler, queried, restarts, delivered>>
tabVars      == <<socket, shown, greeted, early>>
vars == <<pipelineVars, gatewayVars, tabVars, open, inbox>>

(* A copy of an alert a tab gets: n tells which one it is, the n-th message sent on
   the connection, or 0 for a row of the backlog.  Nobody has seen an alert before it
   was made. *)
Copy == [n : Nat, of : 1 .. made]

Message == [kind : {"backlog"}, rows : Seq(Copy)] \cup [kind : {"alert"}, copy : Copy]

(* todo: the clients that lie ahead of the running iteration *)
Relay == [pc : {"polling", "sending", "dead", "ended"}, next : Nat \ {0},
          size : Nat, todo : SUBSET Conn, failed : SUBSET Conn, at : Conn \cup {NoConn}]

TypeOK ==
  /\ made \in 0 .. MaxAlerts /\ alertOf \in [1 .. made -> 1 .. made] /\ table \subseteq 1 .. made
  /\ log["alerts"] \in Seq(1 .. made) /\ log["model-metrics"] \in Seq({0})
  /\ clients \subseteq Conn
  /\ relay \in [Topic -> Relay]
  /\ handler \in [Conn -> {"none", "querying", "greeting", "reading", "done"}]
  /\ queried \in [Conn -> Seq(1 .. made)]
  /\ restarts \in 0 .. MaxRestarts
  /\ open \subseteq Conn
  /\ inbox \in [Conn -> Seq(Message)]
  /\ socket \in [Tab -> open \cup {NoConn}]
  /\ shown \in [Tab -> Seq(Copy)]
  /\ greeted \subseteq Conn /\ disturbed \subseteq Topic /\ shaken \subseteq Nat
  /\ delivered \in [Conn -> Seq(1 .. Len(log["alerts"]))]
  /\ early \in [Conn -> SUBSET Nat]
-----------------------------------------------------------------------------
(* A window is scored: its alert is a new one, or, when the window was scored
   before a crash of ml-inference, one made already.  The send to Kafka fails, or
   appends it, or, as the producer is not idempotent and retries, appends it
   twice. *)
MakeAlert ==
  /\ made < MaxAlerts
  /\ made' = made + 1
  /\ \E a \in 1 .. made' : /\ a = made' \/ a \in ToSet(alertOf)
                           /\ alertOf' = Append(alertOf, a)
  /\ \E sent \in {<<>>, <<made'>>, <<made', made'>>} :
       /\ Len(log["alerts"]) + Len(sent) <= MaxSent
       /\ log' = [log EXCEPT !["alerts"] = @ \o sent]
  /\ UNCHANGED <<table, gatewayVars, tabVars, open, inbox>>

(* Later the flush loop inserts the alert, or drops it.  Rows of one alert stay
   apart until ClickHouse merges them, if it ever does. *)
StoreAlert ==
  /\ Cardinality(table) < MaxStored
  /\ \E k \in (1 .. made) \ table : (\A j \in table : j < k) /\ table' = table \cup {k}
  /\ UNCHANGED <<made, alertOf, log, gatewayVars, tabVars, open, inbox>>

MergeRows ==
  /\ \E old, new \in table : old < new /\ alertOf[old] = alertOf[new] /\ table' = table \ {old}
  /\ UNCHANGED <<made, alertOf, log, gatewayVars, tabVars, open, inbox>>

MakeMetrics ==
  /\ Len(log["model-metrics"]) < MaxMetrics
  /\ log' = [log EXCEPT !["model-metrics"] = Append(@, 0)]
  /\ UNCHANGED <<made, alertOf, table, gatewayVars, tabVars, open, inbox>>
-----------------------------------------------------------------------------
(* WebSocketManager.  Every change of the set disturbs the iterations that are
   under way, except the one that makes it. *)
SetClients(S, by) ==
  /\ clients' = S
  /\ disturbed' = IF S = clients THEN disturbed
                  ELSE disturbed \cup {t \in Topic \ by : relay[t].pc = "sending"}

Polling(next) == [pc |-> "polling", next |-> next, at |-> NoConn, size |-> 0, todo |-> {},
                  failed |-> {}]

(* relay_topic takes the next message and broadcast iterates over the set
   itself; nothing awaits until the first send. *)
RelayTake(t) ==
  /\ relay[t].pc = "polling" /\ relay[t].next <= Len(log[t])
  /\ \/ /\ clients = {}
        /\ relay' = [relay EXCEPT ![t].next = @ + 1]
     \/ \E i \in clients :
          relay' = [relay EXCEPT ![t] = [pc |-> "sending", next |-> @.next + 1, at |-> i,
                                         size |-> Cardinality(clients), todo |-> clients \ {i},
                                         failed |-> {}]]
  /\ disturbed' = disturbed \ {t}
  /\ UNCHANGED <<pipelineVars, clients, shaken, handler, queried, restarts, delivered, tabVars,
                 open, inbox>>

(* The consumer does not start, or raises, or the value is no JSON: nobody
   catches that either, and the relay is over. *)
RelayEnds(t) ==
  /\ relay[t].pc = "polling"
  /\ relay' = [relay EXCEPT ![t].pc = "ended"]
  /\ UNCHANGED <<pipelineVars, clients, disturbed, shaken, handler, queried, restarts, delivered,
                 tabVars, open, inbox>>

(* What the loop does after a send without awaiting anything.  The iterator
   first compares the size of the set with the size it began with: when they
   differ it raises RuntimeError, nobody catches it, relay_topic's finally
   stops the consumer and the task is over.  Otherwise it yields a client that
   lies ahead of it, or there is none and the clients that failed are discarded. *)
Exhausted_AtFirstFailure(t, failed) == relay[t].todo \cap clients = {} \/ failed # {}
Exhausted(t, failed) == relay[t].todo \cap clients = {}

Continue(t, failed) ==
  \/ /\ Cardinality(clients) # relay[t].size
     /\ relay' = [relay EXCEPT ![t].pc = "dead"]
     /\ UNCHANGED <<clients, disturbed>>
  \/ /\ Cardinality(clients) = relay[t].size
     /\ \E j \in relay[t].todo \cap clients :
          relay' = [relay EXCEPT ![t].at = j, ![t].todo = @ \ {j}, ![t].failed = failed]
     /\ UNCHANGED <<clients, disturbed>>
  \/ /\ Cardinality(clients) = relay[t].size /\ Exhausted(t, failed)
     /\ relay' = [relay EXCEPT ![t] = Polling(relay[t].next)]
     /\ SetClients(clients \ failed, {t})

(* send_text returned, or raised because the client is gone. *)
RelaySent_Evicts(t) ==
  /\ relay[t].pc = "sending" /\ relay[t].at \notin open
  /\ clients' = clients \ {relay[t].at}
  /\ relay' = [relay EXCEPT ![t].pc = "dead"]
  /\ UNCHANGED <<pipelineVars, handler, queried, restarts, delivered, disturbed, shaken, inbox, tabVars, open>>
RelaySent(t) ==
  LET i == relay[t].at
      k == relay[t].next - 1
  IN  /\ relay[t].pc = "sending"
      /\ IF i \in open /\ t = "alerts"
         THEN /\ inbox' = [inbox EXCEPT ![i] = Append(@, [kind |-> "alert", copy |-> [n |-> Len(delivered[i]) + 1, of |-> log[t][k]]])]
              /\ delivered' = [delivered EXCEPT ![i] = Append(@, k)]
         ELSE UNCHANGED <<inbox, delivered>>
      /\ Continue(t, relay[t].failed \cup ({i} \ open))
      /\ UNCHANGED <<pipelineVars, shaken, handler, queried, restarts, tabVars, open>>
-----------------------------------------------------------------------------
(* ws_endpoint *)

(* CPython keeps a set in a table of slots, in hash order, and an iterator is a
   position in it.  Removing a member moves no other.  Adding one may put it
   before or behind that position, and may make the table anew, which moves
   them all: any of the members may then lie ahead of an iteration under way. *)
Rearranged(S) ==
  \E ahead \in [{t \in Topic : relay[t].pc = "sending"} -> SUBSET S] :
    relay' = [t \in Topic |-> IF relay[t].pc = "sending" THEN [relay[t] EXCEPT !.todo = ahead[t]]
                                                         ELSE relay[t]]

(* A tab opens a socket; connect() accepts it and adds it to the set before
   the backlog is read. *)
Connect(tab) ==
  /\ socket[tab] = NoConn
  /\ \E i \in Conn :
       /\ handler[i] = "none" /\ \A j \in 1 .. (i - 1) : handler[j] # "none"
       /\ handler' = [handler EXCEPT ![i] = "querying"]
       /\ open' = open \cup {i}
       /\ socket' = [socket EXCEPT ![tab] = i]
       /\ SetClients(clients \cup {i}, {}) /\ Rearranged(clients \cup {i})
  /\ shaken' = IF relay["alerts"].pc = "sending" THEN shaken \cup {relay["alerts"].next - 1}
                                                 ELSE shaken
  /\ UNCHANGED <<pipelineVars, queried, restarts, delivered, shown, greeted, early, inbox>>

(* ORDER BY ts DESC LIMIT n, reversed: the newest n, oldest first. *)
Rank(k, S)    == Cardinality({j \in S : j <= k})
Ascending(S)  == [p \in 1 .. Cardinality(S) |-> CHOOSE k \in S : Rank(k, S) = p]
Newest(S, n)  == Ascending({k \in S : Cardinality({j \in S : j > k}) < n})

Rows(s)       == [p \in DOMAIN s |-> [n |-> 0, of |-> s[p]]]

QueryBacklog(i) ==
  /\ handler[i] = "querying"
  /\ handler' = [handler EXCEPT ![i] = "greeting"]
  /\ queried' = [queried EXCEPT ![i] = Newest(table, BacklogSize)]
  /\ UNCHANGED <<pipelineVars, clients, relay, disturbed, shaken, restarts, delivered, tabVars,
                 open, inbox>>

(* ClickHouse answered with an HTTP error: no backlog. *)
QueryRefused(i) ==
  /\ handler[i] = "querying"
  /\ handler' = [handler EXCEPT ![i] = "reading"]
  /\ UNCHANGED <<pipelineVars, clients, relay, disturbed, shaken, queried, restarts, delivered,
                 tabVars, open, inbox>>

SendBacklog(i) ==
  /\ handler[i] = "greeting" /\ i \in open
  /\ handler' = [handler EXCEPT ![i] = "reading"]
  /\ inbox' = [inbox EXCEPT ![i] = Append(@, [kind |-> "backlog", rows |-> Rows(queried[i])])]
  /\ UNCHANGED <<pipelineVars, clients, relay, disturbed, shaken, queried, restarts, delivered,
                 tabVars, open>>

(* Connections end: what was on its way on them is lost, onclose fires in
   their tabs, and their history is over. *)
Sockets_Stale(S) == socket
Sockets(S) == [tab \in Tab |-> IF socket[tab] \in S THEN NoConn ELSE socket[tab]]

Close(S) ==
  /\ open' = open \ S
  /\ socket' = Sockets(S)
  /\ inbox' = [i \in Conn |-> IF i \in S THEN <<>> ELSE inbox[i]]
  /\ delivered' = [i \in Conn |-> IF i \in S THEN <<>> ELSE delivered[i]]
  /\ early' = [i \in Conn |-> IF i \in S THEN {} ELSE early[i]]
  /\ greeted' = greeted \ S
  /\ UNCHANGED shown

(* The handler ends and disconnects: its peer is gone (send_json and
   receive_text raise), or the query failed without an HTTP answer, which no
   except clause names. *)
HandlerEnds(i) ==
  /\ \/ handler[i] \in {"greeting", "reading"} /\ i \notin open
     \/ handler[i] = "querying"
  /\ handler' = [handler EXCEPT ![i] = "done"]
  /\ queried' = [queried EXCEPT ![i] = <<>>]
  /\ SetClients(clients \ {i}, {})
  /\ Close({i})
  /\ UNCHANGED <<pipelineVars, relay, shaken, restarts>>

(* The tab is closed or the network drops: the gateway has yet to notice. *)
Drop(tab) ==
  /\ socket[tab] # NoConn
  /\ Close({socket[tab]})
  /\ UNCHANGED <<pipelineVars, clients, relay, disturbed, shaken, handler, queried, restarts>>

(* The gateway process ends and comes up again.  Its consumer groups resume at
   their last commit, at the end of the topic when there is none. *)
Restart ==
  /\ restarts < MaxRestarts
  /\ restarts' = restarts + 1
  /\ clients' = {} /\ disturbed' = {} /\ shaken' = {}
  /\ handler' = [i \in Conn |-> IF handler[i] = "none" THEN "none" ELSE "done"]
  /\ \E next \in [Topic -> 1 .. MaxSent + MaxMetrics + 1] :
       /\ \A t \in Topic : next[t] \in (1 .. relay[t].next) \cup {Len(log[t]) + 1}
       /\ relay' = [t \in Topic |-> Polling(next[t])]
  /\ queried' = [i \in Conn |-> <<>>]
  /\ Close(Conn)
  /\ UNCHANGED pipelineVars
-----------------------------------------------------------------------------
(* useLiveFeed: onmessage; a backlog replaces what is on screen *)

Least(a, b) == IF a <= b THEN a ELSE b

FromBacklog_Merged(prev, data) == SubSeq(Reverse(data) \o prev, 1, Least(Len(data) + Len(prev), MaxShown))
FromBacklog(prev, data) ==
  Reverse(SubSeq(data, (IF Len(data) > MaxShown THEN Len(data) - MaxShown ELSE 0) + 1, Len(data)))

WithAlert_AtEnd(prev, copy) == IF Len(prev) < MaxShown THEN Append(prev, copy) ELSE prev
WithAlert(prev, copy) == SubSeq(<<copy>> \o prev, 1, Least(Len(prev) + 1, MaxShown))

Receive(tab) ==
  LET i == socket[tab]
  IN  /\ i # NoConn /\ inbox[i] # <<>>
      /\ inbox' = [inbox EXCEPT ![i] = Tail(@)]
      /\ LET msg == Head(inbox[i])
         IN  \/ /\ msg.kind = "backlog"
                /\ shown' = [shown EXCEPT ![tab] = FromBacklog(@, msg.rows)]
                /\ greeted' = greeted \cup {i}
                /\ UNCHANGED early
             \/ /\ msg.kind = "alert"
                /\ shown' = [shown EXCEPT ![tab] = WithAlert(@, msg.copy)]
                /\ early' = IF i \in greeted THEN early
                            ELSE [early EXCEPT ![i] = @ \cup {msg.copy.n}]
                /\ UNCHANGED greeted
      /\ UNCHANGED <<pipelineVars, gatewayVars, open, socket>>
-----------------------------------------------------------------------------
Init ==
  /\ made = 0 /\ alertOf = <<>> /\ table = {} /\ log = [t \in Topic |-> <<>>]
  /\ clients = {} /\ relay = [t \in Topic |-> Polling(1)] /\ disturbed = {} /\ shaken = {}
  /\ handler = [i \in Conn |-> "none"] /\ queried = [i \in Conn |-> <<>>] /\ restarts = 0
  /\ open = {} /\ inbox = [i \in Conn |-> <<>>]
  /\ socket = [t \in Tab |-> NoConn] /\ shown = [t \in Tab |-> <<>>]
  /\ greeted = {} /\ delivered = [i \in Conn |-> <<>>] /\ early = [i \in Conn |-> {}]

RelayStep(t) == RelayTake(t) \/ RelaySent(t)

Next ==
  \/ MakeAlert \/ StoreAlert \/ MergeRows \/ MakeMetrics \/ Restart
  \/ \E t \in Topic : RelayStep(t) \/ RelayEnds(t)
  \/ \E i \in Conn : QueryBacklog(i) \/ QueryRefused(i) \/ SendBacklog(i) \/ HandlerEnds(i)
  \/ \E tab \in Tab : Connect(tab) \/ Drop(tab) \/ Receive(tab)

Spec == Init /\ [][Next]_vars
-----------------------------------------------------------------------------
(* What a connection is sent is an unbroken run of the topic, whoever leaves or
   fails during the broadcasts.  It can lack an alert, or get one twice, only when
   somebody joined while that alert was being broadcast and as many left: the size
   of the set then gives nothing away, and its order has changed under the
   iteration. *)
Unbroken(p, q) == /\ p <= q /\ (p = q => p \in shaken)
                  /\ \A k \in p + 1 .. q - 1 : k \in shaken

NoGapPerConnection ==
  \A i \in Conn : \A n \in 1 .. (Len(delivered[i]) - 1) : Unbroken(delivered[i][n], delivered[i][n + 1])

(* ws_manager.py:32 "one bad client must not break the broadcast fan-out": as
   long as nobody else joins or leaves during a broadcast, a client whose send
   fails is evicted without an error. *)
OneBadClient == \A t \in Topic : relay[t].pc = "dead" => t \in disturbed

(* What a greeted tab does not show of the messages sent to it is on its way, has
   been pushed off a full screen by newer ones, or came ahead of the backlog:
   setAlerts(backlog) replaces what is on screen.  Rows of the backlog leave only
   a full screen, so an alert that came too early is missed only if it was not yet
   stored when the backlog was read. *)
MissedOnlyBeforeBacklog ==
  \A tab \in Tab :
    LET i == socket[tab]
        on == ToSet(shown[tab])
        full == Len(shown[tab]) = MaxShown
    IN  (i # NoConn /\ i \in greeted) =>
          /\ \A n \in (1 .. Len(delivered[i])) \ early[i] :
               \/ \E msg \in ToSet(inbox[i]) : msg.kind = "alert" /\ msg.copy.n = n
               \/ \E copy \in on : copy.n = n
               \/ full /\ \A copy \in on : copy.n > n
          /\ full \/ \A row \in ToSet(queried[i]) : [n |-> 0, of |-> row] \in on

(* The page has no check for an alert it has already: it shows it once for every
   row of the backlog and every message after the backlog.  An alert is therefore on
   screen twice when the relay brings what the backlog had, when it was scored
   twice, or when the topic or the table has it twice - and never more often than
   that, whatever earlier connections showed and however the relay resumed. *)
ShownAsOftenAsSent ==
  \A tab \in Tab :
    LET i == socket[tab]
        later == (1 .. Len(delivered[i])) \ early[i]
    IN  (i # NoConn /\ i \in greeted) =>
          \A a \in 1 .. made :
            Cardinality({p \in DOMAIN shown[tab] : alertOf[shown[tab][p].of] = a}) <=
              Cardinality({row \in ToSet(queried[i]) : alertOf[row] = a}) +
              Cardinality({n \in later : alertOf[log["alerts"][delivered[i][n]]] = a})

(* kafka_bridge.py and ws_manager.py:32 have the relay outlive its clients.  A
   client that joins or leaves while a send is awaited changes the set under
   the iteration, and the relay is over until the gateway is restarted. *)
RelaySurvives == \A t \in Topic : relay[t].pc # "dead"

(* An alert in the topic while a client is connected is sent to it, unless the
   client goes, the relay is over, or somebody joins during the broadcast. *)
AlertsReachClients ==
  \A i \in Conn, k \in 1 .. MaxSent :
    (i \in clients /\ relay["alerts"].next = k /\ k <= Len(log["alerts"]))
      ~> \/ k \in ToSet(delivered[i]) \/ i \notin open
         \/ relay["alerts"].pc \in {"dead", "ended"} \/ k \in shaken

(* The event loop runs what is ready; a send to a client that is gone fails
   at the latest when the ping times out. *)
Fairness == \A t \in Topic : WF_vars(RelayStep(t))

FairSpec == Spec /\ Fairness
=============================================================================
