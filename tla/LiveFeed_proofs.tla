--------------------------- MODULE LiveFeed_proofs ---------------------------
(***************************************************************************)
(* Theorems about LiveFeed: what one connection is sent, what kills a relay   *)
(* and what a tab shows, for every number of tabs, connections, alerts and     *)
(* restarts and every size of the backlog and of the page.                   *)
(***************************************************************************)
EXTENDS LiveFeed, TLAPS, FiniteSetTheorems

(* Types, as far as a later step needs them: a relay is never ahead of its topic. *)
TypeInv ==
  /\ TypeOK
  /\ log \in [Topic -> Seq(Nat)]
  /\ \A t \in Topic : /\ relay[t].next <= Len(log[t]) + 1
                      /\ relay[t].pc = "sending" => relay[t].next >= 2 /\ relay[t].at \in Conn

(* Connections.  The gateway may keep a client that is gone, and forgets none
   that is there; nobody is a client before it connected. *)
Known == {i \in Conn : handler[i] # "none"}

LinkInv ==
  /\ open \subseteq clients /\ clients \subseteq Known
  /\ \A t \in Topic : relay[t].pc = "sending" => relay[t].at \in Known /\ relay[t].failed \subseteq Known \ open
  /\ \A tab, other \in Tab : (socket[tab] = socket[other] /\ socket[tab] # NoConn) => tab = other
  /\ \A i \in Conn \ open : delivered[i] = <<>> /\ inbox[i] = <<>> /\ early[i] = {} /\ i \notin greeted

(* A relay whose iteration nobody disturbed still sees the size it began with. *)
DisturbInv ==
  \A t \in Topic : t \notin disturbed =>
    /\ relay[t].pc # "dead"
    /\ relay[t].pc = "sending" => relay[t].size = Cardinality(clients)

(* Where each client stands in the alerts topic.  The last message it was sent is the
   last one broadcast, or only shaken ones came after it; before a client's turn in
   a broadcast nobody shook, that goes for the message before. *)
LastOf(s) == s[Len(s)]

Chain(s)   == \A n \in 1 .. (Len(s) - 1) : Unbroken(s[n], s[n + 1])
UpTo(l, k) == l <= k /\ \A m \in l + 1 .. k : m \in shaken

Waits(i) == LET r == relay["alerts"]
            IN  r.next - 1 \notin shaken /\ (i \in r.todo \/ i = r.at)

Stands(i) ==
  LET r == relay["alerts"]
      l == LastOf(delivered[i])
  IN  /\ r.pc = "polling" => UpTo(l, r.next - 1)
      /\ r.pc = "sending" => UpTo(l, IF Waits(i) THEN r.next - 2 ELSE r.next - 1)

RunInv ==
  /\ \A i \in Conn : delivered[i] # <<>> => Chain(delivered[i]) /\ Stands(i)
  /\ LET r == relay["alerts"]
     IN  (r.pc = "sending" /\ r.next - 1 \notin shaken) => r.at \notin r.todo

Sent(i)      == 1 .. Len(delivered[i])
Alert(copy)  == [kind |-> "alert", copy |-> copy]
Alerts(i)    == {n \in DOMAIN inbox[i] : inbox[i][n].kind = "alert"}
Backlogs(i)  == {n \in DOMAIN inbox[i] : inbox[i][n].kind = "backlog"}
Coming(i)    == {inbox[i][n].copy.n : n \in Alerts(i)}
Handled(i)   == Sent(i) \ Coming(i)
InBacklog(i) == {queried[i][n] : n \in DOMAIN queried[i]}
Climbs(s)    == \A n, m \in DOMAIN s : n < m => s[n] < s[m]

(* What is on its way: the last messages sent, in order, and the backlog at most
   once and only to a tab that has not had it. *)
InboxOk(i) ==
  /\ \A n, m \in Alerts(i) : n < m => inbox[i][n].copy.n < inbox[i][m].copy.n
  /\ Coming(i) \subseteq Sent(i)
  /\ \A new \in Coming(i), old \in Handled(i) : old < new
  /\ \A n, m \in Backlogs(i) : n = m
  /\ \A n \in Backlogs(i) : inbox[i][n].rows = Rows(queried[i]) /\ i \notin greeted /\ handler[i] = "reading"
  /\ handler[i] \in {"querying", "greeting"} => i \notin greeted
  /\ Climbs(queried[i])

InboxInv == \A i \in Conn : InboxOk(i)

(* What a tab shows once it has its backlog: the messages handled since, newest
   first, and behind them what is left of the backlog.  A message it handled and does
   not show went off a full screen, and was older than all that is left. *)
Page(s, cut, handled, rows, before) ==
  /\ \A p \in 1 .. cut : s[p].n \in handled \ before
  /\ \A p, q \in 1 .. cut : p < q => s[p].n > s[q].n
  /\ \A p \in cut + 1 .. Len(s) : s[p].n = 0 /\ s[p].of \in rows
  /\ \A p, q \in cut + 1 .. Len(s) : p < q => s[p].of > s[q].of
  /\ \A n \in handled \ before : \/ \E p \in 1 .. cut : s[p].n = n
                                 \/ Len(s) = MaxShown /\ \A p \in 1 .. Len(s) : s[p].n > n
  /\ (\A r \in rows : \E p \in 1 .. Len(s) : s[p].n = 0 /\ s[p].of = r) \/ Len(s) = MaxShown

Shows(s, handled, rows, before) ==
  Len(s) <= MaxShown /\ \E cut \in 0 .. Len(s) : Page(s, cut, handled, rows, before)

Screen(tab, i) ==
  /\ early[i] \subseteq Handled(i)
  /\ i \notin greeted => Handled(i) \subseteq early[i]
  /\ i \in greeted => Shows(shown[tab], Handled(i), InBacklog(i), early[i])

ScreenInv == \A tab \in Tab, i \in Conn : socket[tab] = i => Screen(tab, i)

(* A copy of a message holds the alert the topic has at the message's offset. *)
Genuine(i, copy) ==
  \/ copy.n = 0
  \/ copy.n \in Sent(i) /\ copy.of = log["alerts"][delivered[i][copy.n]]

GenuineInv ==
  \A i \in Conn :
    /\ \A n \in Alerts(i) : Genuine(i, inbox[i][n].copy)
    /\ i \in greeted => \A tab \in Tab : socket[tab] = i => \A p \in DOMAIN shown[tab] : Genuine(i, shown[tab][p])
-----------------------------------------------------------------------------
(* Sequences and connections *)

\* Connections are finitely many numbers.
LEMMA Conns ==
  /\ MaxConns \in Nat /\ Conn \subseteq Nat /\ IsFiniteSet(Conn) /\ NoConn \notin Conn
  /\ \A S \in SUBSET Conn : IsFiniteSet(S) /\ Cardinality(S) \in Nat
<1>1. MaxConns \in Nat
  BY FeedBounds
<1>2. Conn \subseteq Nat /\ NoConn \notin Conn /\ IsFiniteSet(Conn)
  BY <1>1, FS_Interval DEF Conn, NoConn
<1> QED BY <1>1, <1>2, FS_Subset, FS_CardinalityType

\* What appending and taking the tail keep.
LEMMA SeqFacts ==
  /\ \A S, T : S \subseteq T => Seq(S) \subseteq Seq(T)
  /\ \A S : \A s \in Seq(S), x \in S : Append(s, x) \in Seq(S)
  /\ \A S : \A s \in Seq(S) : s # <<>> => Head(s) \in S /\ Tail(s) \in Seq(S)
  /\ \A S : <<>> \in Seq(S)
<1>1. \A S, T : S \subseteq T => Seq(S) \subseteq Seq(T)
  OBVIOUS
<1>2. \A S : \A s \in Seq(S), x \in S : Append(s, x) \in Seq(S)
  OBVIOUS
<1>3. \A S : \A s \in Seq(S) : s # <<>> => Head(s) \in S /\ Tail(s) \in Seq(S)
  OBVIOUS
<1>4. \A S : <<>> \in Seq(S)
  OBVIOUS
<1> QED BY <1>1, <1>2, <1>3, <1>4

(* The rows of the backlog: the elements of a finite set in ascending order. *)
LEMMA RanksRun ==
  ASSUME NEW S \in SUBSET Nat, IsFiniteSet(S)
  PROVE  /\ Cardinality(S) \in Nat
         /\ \A k \in S : Rank(k, S) \in 1 .. Cardinality(S)
         /\ \A j, k \in S : j <= k => Rank(j, S) <= Rank(k, S)
         /\ \A p \in 1 .. Cardinality(S) : \E k \in S : Rank(k, S) = p
<1> DEFINE upto(k) == {j \in S : j <= k}
<1>1. Cardinality(S) \in Nat
  BY FS_CardinalityType
<1>2. ASSUME NEW k \in S
      PROVE  IsFiniteSet(upto(k)) /\ Cardinality(upto(k)) \in 1 .. Cardinality(S)
  <2>1. IsFiniteSet(upto(k)) /\ Cardinality(upto(k)) <= Cardinality(S)
    BY FS_Subset
  <2>2. k \in upto(k)
    OBVIOUS
  <2>3. Cardinality(upto(k)) \in Nat /\ Cardinality(upto(k)) # 0
    BY <2>1, <2>2, FS_CardinalityType, FS_EmptySet
  <2> QED BY <1>1, <2>1, <2>3
<1>3. ASSUME NEW j \in S, NEW k \in S, j <= k
      PROVE  /\ Cardinality(upto(j)) <= Cardinality(upto(k))
             /\ j # k => Cardinality(upto(j)) # Cardinality(upto(k))
  <2>1. upto(j) \subseteq upto(k)
    <3>1. \A x, y, z \in Nat : (x <= y /\ y <= z) => x <= z
      OBVIOUS
    <3>2. \A x \in S : x \in Nat
      OBVIOUS
    <3> QED BY <1>3, <3>1, <3>2
  <2>2. Cardinality(upto(j)) <= Cardinality(upto(k))
    BY <1>2, <2>1, FS_Subset
  <2>3. Cardinality(upto(j)) = Cardinality(upto(k)) => upto(j) = upto(k)
    BY <1>2, <2>1, FS_Subset
  <2>4. j # k => upto(j) # upto(k)
    BY <1>3
  <2> QED BY <2>2, <2>3, <2>4
<1>4. ASSUME NEW p \in 1 .. Cardinality(S) PROVE \E k \in S : Cardinality(upto(k)) = p
  <2> DEFINE f == [k \in S |-> Cardinality(upto(k))]
  <2>1. f \in [S -> 1 .. Cardinality(S)]
    BY <1>2
  <2>2. \A j, k \in S : f[j] = f[k] => j = k
    <3>1. \A j, k \in S : j <= k \/ k <= j
      OBVIOUS
    <3> QED BY <1>3, <3>1
  <2>3. f \in Injection(S, 1 .. Cardinality(S))
    BY <2>1, <2>2 DEF Injection, IsInjective
  <2>4. IsFiniteSet(1 .. Cardinality(S)) /\ Cardinality(1 .. Cardinality(S)) = Cardinality(S)
    BY <1>1, FS_Interval
  <2>5. f \in Surjection(S, 1 .. Cardinality(S))
    BY <2>3, <2>4, FS_Injection
  <2>6. \E k \in S : f[k] = p
    BY <2>5 DEF Surjection
  <2> QED BY <2>6
<1>5. \A k : Rank(k, S) = Cardinality(upto(k))
  BY DEF Rank
<1> HIDE DEF upto
<1> QED BY <1>1, <1>2, <1>3, <1>4, <1>5

\* Ascending lists a set of numbers in order.
LEMMA AscendingSorts ==
  ASSUME NEW S \in SUBSET Nat, IsFiniteSet(S)
  PROVE  /\ Ascending(S) \in Seq(S)
         /\ \A n, m \in DOMAIN Ascending(S) : n < m => Ascending(S)[n] < Ascending(S)[m]
<1>1. Cardinality(S) \in Nat
  BY RanksRun
<1>2. ASSUME NEW p \in 1 .. Cardinality(S) PROVE Ascending(S)[p] \in S /\ Rank(Ascending(S)[p], S) = p
  <2>1. \E k \in S : Rank(k, S) = p
    BY RanksRun
  <2> QED BY <2>1 DEF Ascending
<1>3. DOMAIN Ascending(S) = 1 .. Cardinality(S)
  BY DEF Ascending
<1>4. Ascending(S) \in Seq(S)
  <2>1. Ascending(S) \in [1 .. Cardinality(S) -> S]
    BY <1>2 DEF Ascending
  <2> QED BY <1>1, <2>1
<1>5. ASSUME NEW n \in 1 .. Cardinality(S), NEW m \in 1 .. Cardinality(S), n < m
      PROVE  Ascending(S)[n] < Ascending(S)[m]
  <2>1. PICK j \in S, k \in S : j = Ascending(S)[n] /\ k = Ascending(S)[m]
    BY <1>2
  <2>2. Rank(j, S) = n /\ Rank(k, S) = m
    BY <1>2, <2>1
  <2>3. ~(k <= j)
    BY <1>1, <1>5, <2>2, RanksRun
  <2>4. j \in Nat /\ k \in Nat
    OBVIOUS
  <2> QED BY <2>1, <2>3, <2>4
<1> QED BY <1>3, <1>4, <1>5

\* A backlog is newest alerts of the table, in ascending order.
LEMMA NewestSorts ==
  ASSUME NEW n \in Nat, NEW S \in SUBSET (1 .. n), NEW size
  PROVE  /\ Newest(S, size) \in Seq(1 .. n)
         /\ \A p, q \in DOMAIN Newest(S, size) : p < q => Newest(S, size)[p] < Newest(S, size)[q]
<1> DEFINE T == {k \in S : Cardinality({j \in S : j > k}) < size}
<1>1. T \subseteq 1 .. n /\ T \in SUBSET Nat
  <2>1. T \subseteq S /\ S \subseteq 1 .. n
    OBVIOUS
  <2>2. 1 .. n \subseteq Nat
    OBVIOUS
  <2> QED BY <2>1, <2>2
<1>2. IsFiniteSet(T)
  <2>1. IsFiniteSet(1 .. n)
    BY FS_Interval
  <2> QED BY <1>1, <2>1, FS_Subset
<1>3. Newest(S, size) = Ascending(T)
  BY DEF Newest
<1> HIDE DEF T
<1>4. Seq(T) \subseteq Seq(1 .. n)
  BY <1>1, SeqFacts
<1> QED BY <1>1, <1>2, <1>3, <1>4, AscendingSorts
-----------------------------------------------------------------------------
(* Types *)

PipeTypes ==
  /\ made \in 0 .. MaxAlerts /\ alertOf \in [1 .. made -> 1 .. made] /\ table \subseteq 1 .. made
  /\ log \in [Topic -> Seq(Nat)]
  /\ log["alerts"] \in Seq(1 .. made) /\ log["model-metrics"] \in Seq({0})
GateTypes ==
  /\ clients \subseteq Conn /\ relay \in [Topic -> Relay] /\ disturbed \subseteq Topic /\ shaken \subseteq Nat
  /\ handler \in [Conn -> {"none", "querying", "greeting", "reading", "done"}]
  /\ queried \in [Conn -> Seq(1 .. made)] /\ restarts \in 0 .. MaxRestarts
  /\ delivered \in [Conn -> Seq(1 .. Len(log["alerts"]))]
  /\ \A t \in Topic : /\ relay[t].next <= Len(log[t]) + 1
                      /\ relay[t].pc = "sending" => relay[t].next >= 2 /\ relay[t].at \in Conn
TabTypes ==
  /\ open \subseteq Conn /\ inbox \in [Conn -> Seq(Message)]
  /\ socket \in [Tab -> open \cup {NoConn}] /\ shown \in [Tab -> Seq(Copy)]
  /\ greeted \subseteq Conn /\ early \in [Conn -> SUBSET Nat]

\* The bounds, one by one.
LEMMA BoundTypes ==
  /\ BacklogSize \in Nat \ {0} /\ MaxShown \in Nat \ {0} /\ MaxAlerts \in Nat /\ MaxRestarts \in Nat
  BY FeedAssumption, FeedBounds

\* The type invariant, part by part.
LEMMA TypeParts == TypeInv <=> PipeTypes /\ GateTypes /\ TabTypes
  BY DEF TypeInv, TypeOK, PipeTypes, GateTypes, TabTypes

\* the same for the next state
LEMMA TypePartsNext ==
  ASSUME PipeTypes', GateTypes', TabTypes'
  PROVE  TypeInv'
  BY DEF TypeInv, TypeOK, PipeTypes, GateTypes, TabTypes

(* When alerts are only added what has been typed stays so. *)
LEMMA GrowthKeeps ==
  ASSUME PipeTypes, GateTypes, TabTypes, made' \in Nat, made <= made',
         \A t \in Topic : Len(log'[t]) \in Nat /\ Len(log[t]) <= Len(log'[t]),
         UNCHANGED <<gatewayVars, tabVars, open, inbox>>
  PROVE  GateTypes' /\ TabTypes'
<1>1. 1 .. made \subseteq 1 .. made' /\ 1 .. Len(log["alerts"]) \subseteq 1 .. Len(log'["alerts"])
  <2>1. Len(log["alerts"]) \in Nat /\ made \in Nat /\ "alerts" \in Topic
    BY DEF PipeTypes, Topic
  <2> QED BY <2>1
<1>2. /\ Seq(1 .. made) \subseteq Seq(1 .. made')
      /\ Seq(1 .. Len(log["alerts"])) \subseteq Seq(1 .. Len(log'["alerts"]))
  BY <1>1, SeqFacts
<1>3. Message \subseteq Message' /\ Seq(Copy) \subseteq Seq(Copy')
  <2>1. Copy \subseteq Copy'
    BY <1>1 DEF Copy
  <2>2. Seq(Copy) \subseteq Seq(Copy')
    BY <2>1, SeqFacts
  <2> QED BY <2>1, <2>2 DEF Message
<1>4. Seq(Message) \subseteq Seq(Message')
  BY <1>3, SeqFacts
<1>5. TabTypes'
  BY <1>3, <1>4 DEF TabTypes, tabVars
<1>6. \A t \in Topic : relay[t].next <= Len(log'[t]) + 1
  <2>1. \A t \in Topic : relay[t].next \in Nat /\ Len(log[t]) \in Nat /\ relay[t].next <= Len(log[t]) + 1
    BY DEF GateTypes, PipeTypes, Relay
  <2> QED BY <2>1
<1>7. GateTypes'
  BY <1>2, <1>6 DEF GateTypes, gatewayVars
<1> QED BY <1>5, <1>7

\* What ml-inference does keeps the types.
LEMMA PipeTyped ==
  ASSUME PipeTypes, GateTypes, TabTypes, MakeAlert \/ StoreAlert \/ MergeRows \/ MakeMetrics
  PROVE  PipeTypes' /\ GateTypes' /\ TabTypes'
<1>0. /\ made \in 0 .. MaxAlerts /\ made \in Nat /\ log \in [Topic -> Seq(Nat)]
      /\ log["alerts"] \in Seq(1 .. made) /\ log["model-metrics"] \in Seq({0}) /\ table \subseteq 1 .. made
      /\ alertOf \in [1 .. made -> 1 .. made] /\ "alerts" \in Topic /\ "model-metrics" \in Topic
  BY BoundTypes DEF PipeTypes, Topic
<1>1. CASE MakeAlert
  <2>1. /\ made < MaxAlerts /\ made' = made + 1 /\ table' = table
        /\ UNCHANGED <<gatewayVars, tabVars, open, inbox>>
    BY <1>1 DEF MakeAlert
  <2>2. made' \in 0 .. MaxAlerts /\ made' \in Nat /\ 1 .. made \subseteq 1 .. made' /\ made' \in 1 .. made'
    BY <1>0, <2>1, BoundTypes
  <2>3. alertOf' \in [1 .. made' -> 1 .. made']
    <3>1. PICK a \in 1 .. made' : alertOf' = Append(alertOf, a)
      BY <1>1 DEF MakeAlert
    <3>2. PICK m \in Nat : m = made /\ made' = m + 1
      BY <1>0, <2>1
    <3>3. alertOf \in Seq(1 .. m + 1) /\ Len(alertOf) = m
      BY <1>0, <3>2
    <3>4. /\ Append(alertOf, a) \in Seq(1 .. m + 1) /\ Len(Append(alertOf, a)) = m + 1
      BY <3>1, <3>2, <3>3
    <3>5. \A z \in Seq(1 .. m + 1) : Len(z) = m + 1 => z \in [1 .. m + 1 -> 1 .. m + 1]
      OBVIOUS
    <3> QED BY <3>1, <3>2, <3>4, <3>5
  <2>4. log["alerts"] \in Seq(1 .. made')
    BY <1>0, <2>2, SeqFacts
  <2>5. PICK sent \in Seq(1 .. made') : log' = [log EXCEPT !["alerts"] = log["alerts"] \o sent]
    <3>1. <<>> \in Seq(1 .. made') /\ <<made'>> \in Seq(1 .. made') /\ <<made', made'>> \in Seq(1 .. made')
      BY <2>2
    <3> QED BY <1>1, <3>1 DEF MakeAlert
  <2>6. PICK grown : grown = log["alerts"] \o sent
    OBVIOUS
  <2>7. grown \in Seq(1 .. made') /\ grown \in Seq(Nat) /\ Len(grown) \in Nat /\ Len(log["alerts"]) <= Len(grown)
    <3>1. \A z, y \in Seq(1 .. made') : z \o y \in Seq(1 .. made') /\ Len(z \o y) = Len(z) + Len(y)
      OBVIOUS
    <3>2. grown \in Seq(1 .. made') /\ Len(grown) = Len(log["alerts"]) + Len(sent)
      BY <2>4, <2>6, <3>1
    <3>3. Len(sent) \in Nat /\ Len(log["alerts"]) \in Nat
      BY <2>4
    <3>4. 1 .. made' \subseteq Nat
      BY <2>2
    <3>5. grown \in Seq(Nat)
      BY <3>2, <3>4, SeqFacts
    <3> QED BY <3>2, <3>3, <3>5
  <2>8. log' = [log EXCEPT !["alerts"] = grown]
    BY <2>5, <2>6
  <2>9. PipeTypes'
    <3>1. log' \in [Topic -> Seq(Nat)] /\ log'["alerts"] \in Seq(1 .. made') /\ log'["model-metrics"] \in Seq({0})
      BY <1>0, <2>7, <2>8
    <3>2. table' \subseteq 1 .. made'
      BY <1>0, <2>1, <2>2
    <3> QED BY <2>2, <2>3, <3>1, <3>2 DEF PipeTypes
  <2>10. \A t \in Topic : Len(log'[t]) \in Nat /\ Len(log[t]) <= Len(log'[t])
    <3>1. \A t \in Topic : log[t] \in Seq(Nat) /\ (log'[t] = log[t] \/ (t = "alerts" /\ log'[t] = grown))
      BY <1>0, <2>8
    <3>2. \A y \in Seq(Nat) : Len(y) \in Nat /\ Len(y) <= Len(y)
      OBVIOUS
    <3> QED BY <2>7, <3>1, <3>2
  <2>11. GateTypes' /\ TabTypes'
    BY <1>0, <2>1, <2>2, <2>10, GrowthKeeps
  <2> QED BY <2>9, <2>11
<1>2. CASE StoreAlert \/ MergeRows
  <2>1. /\ made' = made /\ alertOf' = alertOf /\ log' = log /\ table' \subseteq 1 .. made
        /\ UNCHANGED <<gatewayVars, tabVars, open, inbox>>
    BY <1>0, <1>2 DEF StoreAlert, MergeRows
  <2>2. PipeTypes'
    BY <1>0, <2>1 DEF PipeTypes
  <2>3. GateTypes' /\ TabTypes'
    BY <2>1 DEF GateTypes, TabTypes, gatewayVars, tabVars, Message, Copy
  <2> QED BY <2>2, <2>3
<1>3. CASE MakeMetrics
  <2>1. /\ made' = made /\ alertOf' = alertOf /\ table' = table /\ UNCHANGED <<gatewayVars, tabVars, open, inbox>>
        /\ log' = [log EXCEPT !["model-metrics"] = Append(log["model-metrics"], 0)]
    BY <1>3 DEF MakeMetrics
  <2>2. Append(log["model-metrics"], 0) \in Seq({0}) /\ Append(log["model-metrics"], 0) \in Seq(Nat)
    BY <1>0, SeqFacts
  <2>3. PipeTypes'
    <3>1. log' \in [Topic -> Seq(Nat)] /\ log'["alerts"] = log["alerts"] /\ log'["model-metrics"] \in Seq({0})
      BY <1>0, <2>1, <2>2
    <3> QED BY <1>0, <2>1, <3>1 DEF PipeTypes
  <2>4. \A t \in Topic : Len(log'[t]) \in Nat /\ Len(log[t]) <= Len(log'[t])
    <3>1. \A s \in Seq(Nat) : /\ Len(s) \in Nat /\ Len(s) <= Len(s)
                              /\ Len(Append(s, 0)) \in Nat /\ Len(s) <= Len(Append(s, 0))
      OBVIOUS
    <3>2. \A t \in Topic : log'[t] = log[t] \/ log'[t] = Append(log[t], 0)
      BY <1>0, <2>1
    <3>3. \A t \in Topic : log[t] \in Seq(Nat)
      BY <1>0
    <3> QED BY <3>1, <3>2, <3>3
  <2>5. GateTypes' /\ TabTypes'
    BY <1>0, <2>1, <2>4, GrowthKeeps
  <2> QED BY <2>3, <2>5
<1> QED BY <1>1, <1>2, <1>3

(* One broadcast step: what the iteration makes of its record. *)
Stopped(t, r) == /\ r = [relay[t] EXCEPT !.pc = "dead"]
                 /\ Cardinality(clients) # relay[t].size /\ UNCHANGED <<clients, disturbed>>
Moved(t, r, failed) ==
  /\ r.at \in relay[t].todo \cap clients
  /\ r = [relay[t] EXCEPT !.at = r.at, !.todo = relay[t].todo \ {r.at}, !.failed = failed]
  /\ Cardinality(clients) = relay[t].size /\ UNCHANGED <<clients, disturbed>>
Ended(t, r, failed) ==
  /\ r = Polling(relay[t].next) /\ relay[t].todo \cap clients = {}
  /\ Cardinality(clients) = relay[t].size /\ SetClients(clients \ failed, {t})

\* A relay that goes on dies, moves to another client or ends its broadcast.
LEMMA ContinueCases ==
  ASSUME relay \in [Topic -> Relay], NEW t \in Topic, NEW failed, Continue(t, failed)
  PROVE  \E r : /\ relay' = [relay EXCEPT ![t] = r]
                /\ Stopped(t, r) \/ Moved(t, r, failed) \/ Ended(t, r, failed)
<1>1. relay[t] \in Relay
  OBVIOUS
<1>2. CASE /\ Cardinality(clients) # relay[t].size
           /\ relay' = [relay EXCEPT ![t].pc = "dead"]
           /\ UNCHANGED <<clients, disturbed>>
  <2>1. PICK r : r = [relay[t] EXCEPT !.pc = "dead"]
    OBVIOUS
  <2>2. relay' = [relay EXCEPT ![t] = r]
    BY <1>2, <2>1
  <2> QED BY <1>2, <2>1, <2>2 DEF Stopped
<1>3. CASE /\ Cardinality(clients) = relay[t].size
           /\ \E j \in relay[t].todo \cap clients :
                relay' = [relay EXCEPT ![t].at = j, ![t].todo = @ \ {j}, ![t].failed = failed]
           /\ UNCHANGED <<clients, disturbed>>
  <2>1. PICK j \in relay[t].todo \cap clients :
          relay' = [relay EXCEPT ![t].at = j, ![t].todo = @ \ {j}, ![t].failed = failed]
    BY <1>3
  <2>2. PICK r : r = [relay[t] EXCEPT !.at = j, !.todo = relay[t].todo \ {j}, !.failed = failed]
    OBVIOUS
  <2>3. r.at = j
    BY <1>1, <2>2 DEF Relay
  <2>4. relay' = [relay EXCEPT ![t] = r]
    BY <1>1, <2>1, <2>2 DEF Relay
  <2>5. Moved(t, r, failed)
    BY <1>3, <2>1, <2>2, <2>3 DEF Moved
  <2> QED BY <2>4, <2>5
<1>4. CASE /\ Cardinality(clients) = relay[t].size /\ Exhausted(t, failed)
           /\ relay' = [relay EXCEPT ![t] = Polling(relay[t].next)]
           /\ SetClients(clients \ failed, {t})
  BY <1>4 DEF Ended, Exhausted
<1> QED BY <1>2, <1>3, <1>4 DEF Continue

\* The type of a relay between two messages.
LEMMA PollingTyped ==
  ASSUME NEW n \in Nat \ {0}
  PROVE  /\ Polling(n) \in Relay /\ Polling(n).pc = "polling" /\ Polling(n).next = n
  BY Conns DEF Polling, Relay, NoConn

\* A relay's step keeps the types.
LEMMA RelayTyped ==
  ASSUME PipeTypes, GateTypes, TabTypes, NEW t \in Topic, RelayStep(t)
  PROVE  PipeTypes' /\ GateTypes' /\ TabTypes'
<1>0. /\ relay \in [Topic -> Relay] /\ relay[t] \in Relay /\ relay[t].next \in Nat \ {0}
      /\ \A u \in Topic : Len(log[u]) \in Nat
      /\ clients \subseteq Conn
  <2>1. relay \in [Topic -> Relay] /\ clients \subseteq Conn
    BY DEF GateTypes
  <2>2. relay[t] \in Relay
    BY <2>1
  <2>3. relay[t].next \in Nat \ {0}
    BY <2>2 DEF Relay
  <2>4. \A u \in Topic : Len(log[u]) \in Nat
    BY DEF PipeTypes
  <2> QED BY <2>1, <2>2, <2>3, <2>4
<1>1. ASSUME NEW r \in Relay, relay' = [relay EXCEPT ![t] = r], r.next <= Len(log[t]) + 1,
             r.pc = "sending" => r.next >= 2 /\ r.at \in Conn,
             clients' \subseteq Conn, disturbed' \subseteq Topic, delivered' \in [Conn -> Seq(1 .. Len(log["alerts"]))],
             UNCHANGED <<pipelineVars, shaken, handler, queried, restarts>>
      PROVE  PipeTypes' /\ GateTypes'
  <2>1. PipeTypes'
    BY <1>1 DEF PipeTypes, pipelineVars
  <2>2. relay' \in [Topic -> Relay] /\ \A u \in Topic : relay'[u] = IF u = t THEN r ELSE relay[u]
    BY <1>0, <1>1
  <2>3. GateTypes'
    BY <1>1, <2>2 DEF GateTypes, pipelineVars
  <2> QED BY <2>1, <2>3
<1>2. CASE RelayTake(t)
  <2>1. /\ relay[t].next <= Len(log[t]) /\ disturbed' = disturbed \ {t}
        /\ UNCHANGED <<pipelineVars, clients, shaken, handler, queried, restarts, delivered, tabVars, open, inbox>>
    BY <1>2 DEF RelayTake
  <2>2. \E r \in Relay : /\ relay' = [relay EXCEPT ![t] = r] /\ r.next = relay[t].next + 1
                         /\ r.pc = "sending" => r.at \in Conn
                         /\ r.pc = "sending" \/ r.pc = relay[t].pc
    <3>1. CASE clients = {} /\ relay' = [relay EXCEPT ![t].next = @ + 1]
      <4>1. PICK r : r = [relay[t] EXCEPT !.next = relay[t].next + 1]
        OBVIOUS
      <4>2. r \in Relay /\ r.next = relay[t].next + 1 /\ r.pc = relay[t].pc /\ r.at = relay[t].at
        <5>1. PICK n \in Nat \ {0} : n = relay[t].next + 1
          BY <1>0
        <5>2. PICK q \in Relay : q = relay[t]
          BY <1>0
        <5>3. r = [q EXCEPT !.next = n]
          BY <4>1, <5>1, <5>2
        <5>4. r \in Relay /\ r.next = n /\ r.pc = q.pc /\ r.at = q.at
          BY <5>3 DEF Relay
        <5> QED BY <5>1, <5>2, <5>4
      <4>3. relay' = [relay EXCEPT ![t] = r]
        BY <3>1, <4>1
      <4>4. r.pc = "sending" => r.at \in Conn
        BY <4>2 DEF GateTypes
      <4> QED BY <4>2, <4>3, <4>4
    <3>2. ASSUME NEW i \in clients,
                 relay' = [relay EXCEPT ![t] = [pc |-> "sending", next |-> @.next + 1, at |-> i,
                                                size |-> Cardinality(clients), todo |-> clients \ {i},
                                                failed |-> {}]]
          PROVE  \E r \in Relay : /\ relay' = [relay EXCEPT ![t] = r] /\ r.next = relay[t].next + 1
                                  /\ r.pc = "sending" => r.at \in Conn
                                  /\ r.pc = "sending" \/ r.pc = relay[t].pc
      <4>1. PICK r : r = [pc |-> "sending", next |-> relay[t].next + 1, at |-> i,
                          size |-> Cardinality(clients), todo |-> clients \ {i},
                          failed |-> {}]
        OBVIOUS
      <4>2. r \in Relay /\ r.next = relay[t].next + 1 /\ r.at = i /\ r.pc = "sending"
        <5>1. PICK n \in Nat \ {0}, c \in Nat : n = relay[t].next + 1 /\ c = Cardinality(clients)
          BY <1>0, Conns
        <5>2. i \in Conn /\ clients \ {i} \subseteq Conn
          BY <1>0
        <5>3. PICK T \in SUBSET Conn : T = clients \ {i}
          BY <5>2
        <5>4. r = [pc |-> "sending", next |-> n, at |-> i, size |-> c, todo |-> T, failed |-> {}]
          BY <4>1, <5>1, <5>3
        <5> QED BY <5>1, <5>2, <5>4 DEF Relay
      <4>3. relay' = [relay EXCEPT ![t] = r]
        BY <3>2, <4>1
      <4> QED BY <1>0, <4>2, <4>3
    <3> QED BY <1>2, <3>1, <3>2 DEF RelayTake
  <2>3. PICK r \in Relay : /\ relay' = [relay EXCEPT ![t] = r] /\ r.next = relay[t].next + 1
                           /\ r.pc = "sending" => r.at \in Conn
    BY <2>2
  <2>4. r.next <= Len(log[t]) + 1 /\ r.next >= 2
    <3>1. \A n \in Nat \ {0}, l \in Nat : n <= l => n + 1 <= l + 1 /\ n + 1 >= 2
      OBVIOUS
    <3> QED BY <1>0, <2>1, <2>3, <3>1
  <2>5. PipeTypes' /\ GateTypes'
    BY <1>0, <1>1, <2>1, <2>3, <2>4 DEF GateTypes
  <2>6. TabTypes'
    BY <2>1 DEF TabTypes, pipelineVars, tabVars, Message, Copy
  <2> QED BY <2>5, <2>6
<1>3. CASE RelaySent(t)
  <2>1. PICK failed : /\ failed = relay[t].failed \cup ({relay[t].at} \ open) /\ Continue(t, failed)
                      /\ relay[t].pc = "sending"
                      /\ UNCHANGED <<pipelineVars, shaken, handler, queried, restarts, tabVars, open>>
    BY <1>3 DEF RelaySent
  <2>2. failed \subseteq Conn /\ relay[t].next >= 2 /\ relay[t].next <= Len(log[t]) + 1 /\ relay[t].at \in Conn
    BY <1>0, <2>1 DEF GateTypes, Relay
  <2>3. PICK r : /\ relay' = [relay EXCEPT ![t] = r]
                 /\ Stopped(t, r) \/ Moved(t, r, failed) \/ Ended(t, r, failed)
    BY <1>0, <2>1, ContinueCases
  <2>4. r \in Relay /\ r.next = relay[t].next /\ (r.pc = "sending" => r.at \in Conn)
    <3>1. CASE Stopped(t, r)
      BY <1>0, <3>1 DEF Stopped, Relay
    <3>2. CASE Moved(t, r, failed)
      <4>1. PICK j \in Conn : j = r.at
        BY <1>0, <3>2 DEF Moved
      <4>2. r = [relay[t] EXCEPT !.at = j, !.todo = relay[t].todo \ {j},
                                 !.failed = failed]
        BY <3>2, <4>1 DEF Moved
      <4>3. relay[t].todo \ {j} \subseteq Conn
        BY <1>0, <2>1, <4>1 DEF Relay
      <4>4. r \in Relay
        <5>1. ASSUME NEW q \in Relay, NEW A \in SUBSET Conn, NEW B \in SUBSET Conn
              PROVE  [q EXCEPT !.at = j, !.todo = A, !.failed = B] \in Relay
          BY DEF Relay
        <5> QED BY <1>0, <2>2, <4>2, <4>3, <5>1
      <4>5. r.next = relay[t].next
        BY <1>0, <4>2 DEF Relay
      <4> QED BY <4>1, <4>4, <4>5
    <3>3. CASE Ended(t, r, failed)
      BY <1>0, <3>3, PollingTyped DEF Ended
    <3> QED BY <2>3, <3>1, <3>2, <3>3
  <2>5. clients' \subseteq Conn /\ disturbed' \subseteq Topic
    BY <1>0, <2>3 DEF Stopped, Moved, Ended, SetClients, GateTypes
  <2>6. PICK i \in Conn, k \in Nat : i = relay[t].at /\ k = relay[t].next - 1 /\ k \in 1 .. Len(log[t])
    <3>1. \A n \in Nat, l \in Nat : (n >= 2 /\ n <= l + 1) => n - 1 \in 1 .. l /\ n - 1 \in Nat
      OBVIOUS
    <3> QED BY <1>0, <2>2, <3>1
  <2>7. \/ /\ i \in open /\ t = "alerts"
           /\ inbox' = [inbox EXCEPT ![i] = Append(inbox[i], Alert([n |-> Len(delivered[i]) + 1, of |-> log[t][k]]))]
           /\ delivered' = [delivered EXCEPT ![i] = Append(delivered[i], k)]
        \/ inbox' = inbox /\ delivered' = delivered
    BY <1>3, <2>6 DEF RelaySent, Alert
  <2>8. delivered' \in [Conn -> Seq(1 .. Len(log["alerts"]))]
    <3>1. delivered \in [Conn -> Seq(1 .. Len(log["alerts"]))]
      BY DEF GateTypes
    <3>2. t = "alerts" => Append(delivered[i], k) \in Seq(1 .. Len(log["alerts"]))
      BY <2>6, <3>1, SeqFacts
    <3> QED BY <2>7, <3>1, <3>2
  <2>9. inbox' \in [Conn -> Seq(Message)]
    <3>1. inbox \in [Conn -> Seq(Message)]
      BY DEF TabTypes
    <3>2. t = "alerts" => Alert([n |-> Len(delivered[i]) + 1, of |-> log[t][k]]) \in Message
      <4>1. t = "alerts" => log[t][k] \in 1 .. made
        <5>1. \A S : \A z \in Seq(S) : \A p \in 1 .. Len(z) : z[p] \in S
          OBVIOUS
        <5> QED BY <2>6, <5>1 DEF PipeTypes
      <4>2. Len(delivered[i]) + 1 \in Nat
        BY <2>6 DEF GateTypes
      <4> QED BY <4>1, <4>2 DEF Message, Copy, Alert
    <3>3. t = "alerts" => Append(inbox[i], Alert([n |-> Len(delivered[i]) + 1, of |-> log[t][k]])) \in Seq(Message)
      BY <3>1, <3>2, SeqFacts
    <3> QED BY <2>7, <3>1, <3>3
  <2>10. PipeTypes' /\ GateTypes'
    BY <1>1, <2>1, <2>2, <2>3, <2>4, <2>5, <2>8
  <2>11. TabTypes'
    BY <2>1, <2>9 DEF TabTypes, pipelineVars, tabVars, Message, Copy
  <2> QED BY <2>10, <2>11
<1> QED BY <1>2, <1>3 DEF RelayStep

\* Ending a relay changes nothing but where it is.
LEMMA EndCases ==
  ASSUME relay \in [Topic -> Relay], NEW t \in Topic, RelayEnds(t)
  PROVE  /\ relay' \in [Topic -> Relay] /\ relay[t].pc = "polling"
         /\ \A u \in Topic \ {t} : relay'[u] = relay[u]
         /\ relay'[t].pc = "ended" /\ relay'[t].next = relay[t].next /\ relay'[t].at = relay[t].at
<1>1. relay' = [relay EXCEPT ![t].pc = "ended"] /\ relay[t].pc = "polling"
  BY DEF RelayEnds
<1>2. PICK r : r = [relay[t] EXCEPT !.pc = "ended"]
  OBVIOUS
<1>3. r \in Relay /\ r.next = relay[t].next /\ r.at = relay[t].at /\ r.pc = "ended"
  BY <1>2 DEF Relay
<1>4. \A u \in Topic : relay'[u] = IF u = t THEN r ELSE relay[u]
  BY <1>1, <1>2
<1>5. relay' \in [Topic -> Relay]
  BY <1>1, <1>2, <1>3
<1> QED BY <1>1, <1>3, <1>4, <1>5

\* Rearranging the set changes nothing but what lies ahead of the iterations.
LEMMA Rearranges ==
  ASSUME relay \in [Topic -> Relay], NEW S \in SUBSET Conn, Rearranged(S)
  PROVE  /\ relay' \in [Topic -> Relay]
         /\ \A t \in Topic : /\ relay'[t].pc = relay[t].pc /\ relay'[t].next = relay[t].next
                             /\ relay'[t].at = relay[t].at /\ relay'[t].size = relay[t].size
                             /\ relay'[t].failed = relay[t].failed
<1>1. PICK ahead \in [{t \in Topic : relay[t].pc = "sending"} -> SUBSET S] :
        relay' = [t \in Topic |-> IF relay[t].pc = "sending" THEN [relay[t] EXCEPT !.todo = ahead[t]]
                                                             ELSE relay[t]]
  BY DEF Rearranged
<1>2. ASSUME NEW t \in Topic
      PROVE  /\ relay'[t] \in Relay
             /\ relay'[t].pc = relay[t].pc /\ relay'[t].next = relay[t].next
             /\ relay'[t].at = relay[t].at /\ relay'[t].size = relay[t].size
             /\ relay'[t].failed = relay[t].failed
  <2>1. CASE relay[t].pc = "sending"
    <3>1. ahead[t] \in SUBSET S
      BY <1>1, <2>1
    <3>2. PICK T \in SUBSET Conn : T = ahead[t]
      BY <3>1
    <3>3. PICK r : r = [relay[t] EXCEPT !.todo = T]
      OBVIOUS
    <3>4. relay'[t] = r
      BY <1>1, <2>1, <3>2, <3>3
    <3>5. PICK q \in Relay : q = relay[t]
      OBVIOUS
    <3>6. /\ r \in Relay /\ r.pc = q.pc /\ r.next = q.next /\ r.at = q.at /\ r.size = q.size
          /\ r.failed = q.failed
      BY <3>3, <3>5 DEF Relay
    <3> QED BY <3>4, <3>5, <3>6
  <2>2. CASE relay[t].pc # "sending"
    BY <1>1, <2>2
  <2> QED BY <2>1, <2>2
<1>3. relay' \in [Topic -> Relay]
  BY <1>1, <1>2
<1> QED BY <1>2, <1>3

\* A relay that ends keeps the types.
LEMMA EndTyped ==
  ASSUME PipeTypes, GateTypes, TabTypes, NEW t \in Topic, RelayEnds(t)
  PROVE  PipeTypes' /\ GateTypes' /\ TabTypes'
<1>1. UNCHANGED <<pipelineVars, clients, disturbed, shaken, handler, queried, restarts, delivered,
                  tabVars, open, inbox>>
  BY DEF RelayEnds
<1>2. PipeTypes' /\ TabTypes'
  BY <1>1 DEF PipeTypes, TabTypes, pipelineVars, tabVars, Message, Copy
<1>3. /\ relay' \in [Topic -> Relay]
      /\ \A u \in Topic : relay'[u].next = relay[u].next /\ relay'[u].at = relay[u].at
                          /\ (relay'[u].pc = "sending" => relay[u].pc = "sending")
  BY EndCases DEF GateTypes
<1>4. GateTypes'
  BY <1>1, <1>3 DEF GateTypes, pipelineVars
<1> QED BY <1>2, <1>4

(* What a message makes of the list on screen, position by position. *)
LEMMA BacklogShown ==
  ASSUME NEW S, NEW prev, NEW data \in Seq(S)
  PROVE  /\ FromBacklog(prev, data) \in Seq(S)
         /\ Len(FromBacklog(prev, data)) = Least(Len(data), MaxShown)
         /\ \A n \in 1 .. Least(Len(data), MaxShown) :
              FromBacklog(prev, data)[n] = data[Len(data) - n + 1]
<1>1. PICK L \in Nat, M \in Nat : L = Len(data) /\ M = MaxShown /\ M >= 1
  BY BoundTypes
<1>2. PICK from \in Nat : /\ from = IF L > M THEN L - M ELSE 0
                          /\ from <= L /\ L - from = Least(L, M)
  <2>1. CASE L > M
    <3>1. L - M \in Nat /\ L - M <= L /\ L - (L - M) = M /\ Least(L, M) = M
      BY <1>1, <2>1 DEF Least
    <3> QED BY <2>1, <3>1
  <2>2. CASE ~(L > M)
    <3>1. 0 <= L /\ L - 0 = L /\ Least(L, M) = L
      BY <1>1, <2>2 DEF Least
    <3> QED BY <2>2, <3>1
  <2> QED BY <2>1, <2>2
<1>3. PICK part : part = SubSeq(data, from + 1, L)
  OBVIOUS
<1>4. /\ part \in Seq(S) /\ Len(part) = L - from
      /\ \A n \in 1 .. L - from : part[n] = data[from + n]
  <2>1. \A s \in Seq(S), f \in Nat : f <= Len(s) =>
          /\ SubSeq(s, f + 1, Len(s)) \in Seq(S) /\ Len(SubSeq(s, f + 1, Len(s))) = Len(s) - f
          /\ \A n \in 1 .. Len(s) - f : SubSeq(s, f + 1, Len(s))[n] = s[f + n]
    OBVIOUS
  <2> QED BY <1>1, <1>2, <1>3, <2>1
<1>5. FromBacklog(prev, data) = Reverse(part)
  BY <1>1, <1>2, <1>3 DEF FromBacklog
<1>6. PICK N \in Nat : N = Len(part) /\ N = L - from /\ N <= L
  BY <1>1, <1>2, <1>4
<1>7. Reverse(part) = [n \in 1 .. N |-> part[N - n + 1]]
  BY <1>6 DEF Reverse
<1>8. \A n \in 1 .. N : N - n + 1 \in 1 .. N /\ part[N - n + 1] \in S
  BY <1>4, <1>6
<1>9. Reverse(part) \in Seq(S) /\ Len(Reverse(part)) = N
  BY <1>6, <1>7, <1>8
<1>10. \A n \in 1 .. N : Reverse(part)[n] = data[L - n + 1]
  <2> SUFFICES ASSUME NEW n \in 1 .. N PROVE Reverse(part)[n] = data[L - n + 1]
    OBVIOUS
  <2>1. PICK m \in Nat : m = N - n + 1 /\ m \in 1 .. N /\ from + m = L - n + 1
    <3>1. n \in Nat /\ 1 <= n /\ n <= N /\ N = L - from
      BY <1>6
    <3>2. N - n + 1 \in Nat /\ N - n + 1 \in 1 .. N /\ from + (N - n + 1) = L - n + 1
      <4>1. \A f, l, k, m \in Nat : (f <= l /\ k = l - f /\ 1 <= m /\ m <= k) =>
              k - m + 1 \in Nat /\ k - m + 1 \in 1 .. k /\ f + (k - m + 1) = l - m + 1
        OBVIOUS
      <4> QED BY <1>2, <3>1, <4>1
    <3> QED BY <3>2
  <2> QED BY <1>4, <1>6, <1>7, <2>1
<1> QED BY <1>1, <1>2, <1>5, <1>6, <1>9, <1>10

\* What the screen shows after an alert.
LEMMA AlertShown ==
  ASSUME NEW S, NEW prev \in Seq(S), NEW id \in S
  PROVE  /\ Len(WithAlert(prev, id)) = Least(Len(prev) + 1, MaxShown) /\ WithAlert(prev, id)[1] = id
         /\ \A n \in 1 .. Len(prev) : n < MaxShown => WithAlert(prev, id)[n + 1] = prev[n]
<1>1. PICK L \in Nat, M \in Nat : L = Len(prev) /\ M = MaxShown /\ M >= 1
  BY BoundTypes
<1>2. PICK N \in Nat : N = Least(L + 1, M) /\ 1 <= N /\ N <= L + 1
  BY <1>1 DEF Least
<1>3. PICK s : s = <<id>> \o prev
  OBVIOUS
<1>4. /\ s \in Seq(S) /\ Len(s) = L + 1 /\ s[1] = id
      /\ \A n \in 1 .. L : s[n + 1] = prev[n]
  BY <1>1, <1>3
<1>5. PICK z : z = SubSeq(s, 1, N)
  OBVIOUS
<1>6. z = WithAlert(prev, id)
  BY <1>1, <1>2, <1>3, <1>5 DEF WithAlert
<1>7. z \in Seq(S) /\ Len(z) = N /\ \A n \in 1 .. N : z[n] = s[n]
  BY <1>2, <1>4, <1>5
<1>8. ASSUME NEW n \in 1 .. L, n < M PROVE z[n + 1] = prev[n]
  <2>1. n + 1 \in 1 .. N
    BY <1>1, <1>2, <1>8 DEF Least
  <2> QED BY <1>4, <1>7, <2>1
<1>9. 1 \in 1 .. N
  BY <1>2
<1> QED BY <1>1, <1>2, <1>4, <1>6, <1>7, <1>8, <1>9

\* Its copies stay copies of the same set.
LEMMA AlertTyped ==
  ASSUME NEW S, NEW prev \in Seq(S), NEW id \in S
  PROVE  WithAlert(prev, id) \in Seq(S)
<1>1. PICK L \in Nat, M \in Nat : L = Len(prev) /\ M = MaxShown /\ M >= 1
  BY BoundTypes
<1>2. PICK N \in Nat : N = Least(L + 1, M) /\ N <= L + 1
  BY <1>1 DEF Least
<1>3. PICK s : s = <<id>> \o prev
  OBVIOUS
<1>4. s \in Seq(S) /\ Len(s) = L + 1
  BY <1>1, <1>3
<1>5. SubSeq(s, 1, N) \in Seq(S)
  BY <1>2, <1>4
<1> QED BY <1>1, <1>2, <1>3, <1>5 DEF WithAlert

\* Closing connections keeps the types of the tabs.
LEMMA CloseTyped ==
  ASSUME GateTypes, TabTypes, NEW S, Close(S), made' = made
  PROVE  TabTypes' /\ delivered' \in [Conn -> Seq(1 .. Len(log["alerts"]))]
<1>1. <<>> \in Seq(Message) /\ <<>> \in Seq(1 .. Len(log["alerts"]))
  BY SeqFacts
<1>2. delivered' \in [Conn -> Seq(1 .. Len(log["alerts"]))]
  BY <1>1 DEF Close, GateTypes
<1>3. inbox' \in [Conn -> Seq(Message)] /\ early' \in [Conn -> SUBSET Nat]
  BY <1>1 DEF Close, TabTypes
<1>4. socket' \in [Tab -> open' \cup {NoConn}]
  BY DEF Close, TabTypes, Sockets
<1>5. open' \subseteq Conn /\ greeted' \subseteq Conn /\ shown' \in [Tab -> Seq(Copy)]
  BY DEF Close, TabTypes
<1> QED BY <1>2, <1>3, <1>4, <1>5 DEF TabTypes, Message, Copy

\* The rows of a backlog, one by one.
LEMMA RowsTyped ==
  ASSUME NEW s \in Seq(1 .. made)
  PROVE  /\ Rows(s) \in Seq(Copy) /\ Len(Rows(s)) = Len(s) /\ DOMAIN Rows(s) = 1 .. Len(s)
         /\ \A p \in 1 .. Len(s) : Rows(s)[p].n = 0 /\ Rows(s)[p].of = s[p]
<1>1. PICK L \in Nat : L = Len(s) /\ DOMAIN s = 1 .. L
  OBVIOUS
<1>2. \A p \in 1 .. L : s[p] \in 1 .. made
  <2>1. \A S : \A z \in Seq(S) : \A p \in DOMAIN z : z[p] \in S
    OBVIOUS
  <2> QED BY <1>1, <2>1
<1>3. \A p \in 1 .. L : [n |-> 0, of |-> s[p]] \in Copy
  BY <1>2 DEF Copy
<1>4. Rows(s) = [p \in 1 .. L |-> [n |-> 0, of |-> s[p]]]
  BY <1>1 DEF Rows
<1>5. Rows(s) \in [1 .. L -> Copy]
  BY <1>3, <1>4
<1> HIDE DEF Rows
<1>6. Rows(s) \in Seq(Copy) /\ Len(Rows(s)) = L /\ DOMAIN Rows(s) = 1 .. L
  BY <1>5
<1> QED BY <1>1, <1>4, <1>6

\* A handler's step keeps the types.
LEMMA HandlerTyped ==
  ASSUME PipeTypes, GateTypes, TabTypes, NEW i \in Conn,
         QueryBacklog(i) \/ QueryRefused(i) \/ SendBacklog(i) \/ HandlerEnds(i)
  PROVE  PipeTypes' /\ GateTypes' /\ TabTypes'
<1>0. UNCHANGED <<pipelineVars, relay, restarts, shaken>>
  BY DEF QueryBacklog, QueryRefused, SendBacklog, HandlerEnds
<1>1. PipeTypes'
  BY <1>0 DEF PipeTypes, pipelineVars
<1>2. handler' \in [Conn -> {"none", "querying", "greeting", "reading", "done"}]
  BY DEF QueryBacklog, QueryRefused, SendBacklog, HandlerEnds, GateTypes
<1>3. clients' \subseteq Conn /\ disturbed' \subseteq Topic
  BY DEF QueryBacklog, QueryRefused, SendBacklog, HandlerEnds, GateTypes, SetClients
<1>4. queried' \in [Conn -> Seq(1 .. made)]
  <2>1. Newest(table, BacklogSize) \in Seq(1 .. made) /\ <<>> \in Seq(1 .. made)
    <3>1. made \in Nat /\ table \subseteq 1 .. made
      BY BoundTypes DEF PipeTypes
    <3> QED BY <3>1, NewestSorts, SeqFacts
  <2>2. \/ queried' = queried \/ queried' = [queried EXCEPT ![i] = Newest(table, BacklogSize)]
        \/ queried' = [queried EXCEPT ![i] = <<>>]
    BY DEF QueryBacklog, QueryRefused, SendBacklog, HandlerEnds
  <2> QED BY <2>1, <2>2 DEF GateTypes
<1>5. TabTypes' /\ delivered' \in [Conn -> Seq(1 .. Len(log["alerts"]))]
  <2>1. CASE QueryBacklog(i) \/ QueryRefused(i)
    BY <1>0, <2>1 DEF QueryBacklog, QueryRefused, TabTypes, GateTypes, tabVars, pipelineVars, Message, Copy
  <2>2. CASE SendBacklog(i)
    <3>1. /\ inbox' = [inbox EXCEPT ![i] = Append(@, [kind |-> "backlog", rows |-> Rows(queried[i])])]
          /\ delivered' = delivered /\ UNCHANGED <<tabVars, open>>
      BY <2>2 DEF SendBacklog
    <3>2. [kind |-> "backlog", rows |-> Rows(queried[i])] \in Message
      <4>1. queried[i] \in Seq(1 .. made)
        BY DEF GateTypes
      <4>2. Rows(queried[i]) \in Seq(Copy)
        BY <4>1, RowsTyped
      <4> QED BY <4>2 DEF Message
    <3>3. inbox' \in [Conn -> Seq(Message)]
      BY <3>1, <3>2, SeqFacts DEF TabTypes
    <3> QED BY <1>0, <3>1, <3>3 DEF TabTypes, GateTypes, tabVars, pipelineVars, Message, Copy
  <2>3. CASE HandlerEnds(i)
    BY <1>0, <2>3, CloseTyped DEF HandlerEnds, pipelineVars
  <2> QED BY <2>1, <2>2, <2>3
<1> QED BY <1>0, <1>1, <1>2, <1>3, <1>4, <1>5 DEF GateTypes, pipelineVars

\* A tab's step keeps the types.
LEMMA TabTyped ==
  ASSUME PipeTypes, GateTypes, TabTypes, NEW tab \in Tab, Connect(tab) \/ Drop(tab) \/ Receive(tab)
  PROVE  PipeTypes' /\ GateTypes' /\ TabTypes'
<1>0. UNCHANGED <<pipelineVars, restarts, queried>>
  BY DEF Connect, Drop, Receive, gatewayVars
<1>1. PipeTypes'
  BY <1>0 DEF PipeTypes, pipelineVars
<1>2. CASE Connect(tab)
  <2>1. PICK i \in Conn : /\ handler' = [handler EXCEPT ![i] = "querying"] /\ open' = open \cup {i}
                          /\ socket' = [socket EXCEPT ![tab] = i] /\ SetClients(clients \cup {i}, {})
                          /\ Rearranged(clients \cup {i})
    BY <1>2 DEF Connect
  <2>2. UNCHANGED <<delivered, shown, greeted, early, inbox>>
    BY <1>2 DEF Connect
  <2>3. clients' \subseteq Conn /\ disturbed' \subseteq Topic
    BY <2>1 DEF GateTypes, SetClients
  <2>4. GateTypes'
    <3>1. clients \cup {i} \in SUBSET Conn /\ relay \in [Topic -> Relay]
      BY DEF GateTypes
    <3>2. /\ relay' \in [Topic -> Relay]
          /\ \A u \in Topic : relay'[u].next = relay[u].next /\ relay'[u].at = relay[u].at
                              /\ relay'[u].pc = relay[u].pc
      BY <2>1, <3>1, Rearranges
    <3>3. shaken' \subseteq Nat
      <4>1. shaken \subseteq Nat /\ relay["alerts"].next - 1 \in Nat
        <5>1. "alerts" \in Topic
          BY DEF Topic
        <5>2. relay["alerts"].next \in Nat \ {0}
          BY <3>1, <5>1 DEF Relay
        <5> QED BY <5>2 DEF GateTypes
      <4> QED BY <1>2, <4>1 DEF Connect
    <3> QED BY <1>0, <2>1, <2>2, <2>3, <3>2, <3>3 DEF GateTypes, pipelineVars
  <2>5. TabTypes'
    BY <1>0, <2>1, <2>2 DEF TabTypes, pipelineVars, Message, Copy
  <2> QED BY <1>1, <2>4, <2>5
<1>3. CASE Drop(tab)
  <2>1. Close({socket[tab]}) /\ UNCHANGED <<clients, relay, disturbed, shaken, handler>>
    BY <1>3 DEF Drop
  <2>2. TabTypes' /\ delivered' \in [Conn -> Seq(1 .. Len(log["alerts"]))]
    BY <1>0, <2>1, CloseTyped DEF pipelineVars
  <2>3. GateTypes'
    BY <1>0, <2>1, <2>2 DEF GateTypes, pipelineVars
  <2> QED BY <1>1, <2>2, <2>3
<1>4. CASE Receive(tab)
  <2>1. PICK i, msg : i = socket[tab] /\ msg = Head(inbox[i])
    OBVIOUS
  <2>2. /\ i # NoConn /\ inbox[i] # <<>> /\ inbox' = [inbox EXCEPT ![i] = Tail(inbox[i])]
        /\ UNCHANGED <<gatewayVars, open, socket>>
    BY <1>4, <2>1 DEF Receive
  <2>3. i \in open /\ i \in Conn
    BY <2>1, <2>2 DEF TabTypes
  <2>4. msg \in Message /\ Tail(inbox[i]) \in Seq(Message)
    BY <2>1, <2>2, <2>3, SeqFacts DEF TabTypes
  <2>5. inbox' \in [Conn -> Seq(Message)]
    BY <2>2, <2>4 DEF TabTypes
  <2>6. CASE /\ msg.kind = "backlog" /\ shown' = [shown EXCEPT ![tab] = FromBacklog(@, msg.rows)]
             /\ greeted' = greeted \cup {i} /\ early' = early
    <3>1. msg.rows \in Seq(Copy)
      BY <2>4, <2>6 DEF Message
    <3>2. FromBacklog(shown[tab], msg.rows) \in Seq(Copy)
      BY <3>1, BacklogShown
    <3>3. shown' \in [Tab -> Seq(Copy)]
      BY <2>6, <3>2 DEF TabTypes
    <3> QED BY <1>0, <2>2, <2>3, <2>5, <2>6, <3>3 DEF TabTypes, GateTypes, PipeTypes, pipelineVars, gatewayVars, Message, Copy
  <2>7. CASE /\ msg.kind = "alert" /\ shown' = [shown EXCEPT ![tab] = WithAlert(@, msg.copy)]
             /\ early' = IF i \in greeted THEN early ELSE [early EXCEPT ![i] = @ \cup {msg.copy.n}]
             /\ greeted' = greeted
    <3>1. msg.copy \in Copy /\ msg.copy.n \in Nat
      BY <2>4, <2>7 DEF Message, Copy
    <3>2. shown[tab] \in Seq(Copy)
      BY DEF TabTypes
    <3>3. WithAlert(shown[tab], msg.copy) \in Seq(Copy)
      BY <3>1, <3>2, AlertTyped, ZenonT(30)
    <3>4. shown' \in [Tab -> Seq(Copy)] /\ early' \in [Conn -> SUBSET Nat]
      BY <2>3, <2>7, <3>1, <3>3 DEF TabTypes
    <3> QED BY <1>0, <2>2, <2>5, <2>7, <3>4 DEF TabTypes, GateTypes, PipeTypes, pipelineVars, gatewayVars, Message, Copy
  <2> QED BY <1>4, <2>1, <2>6, <2>7 DEF Receive
<1> QED BY <1>2, <1>3, <1>4

\* A restart of the gateway keeps the types.
LEMMA RestartTyped ==
  ASSUME PipeTypes, GateTypes, TabTypes, Restart
  PROVE  PipeTypes' /\ GateTypes' /\ TabTypes'
<1>1. /\ restarts < MaxRestarts /\ restarts' = restarts + 1 /\ clients' = {} /\ disturbed' = {} /\ shaken' = {}
      /\ handler' = [i \in Conn |-> IF handler[i] = "none" THEN "none" ELSE "done"]
      /\ queried' = [i \in Conn |-> <<>>] /\ Close(Conn) /\ UNCHANGED pipelineVars
  BY DEF Restart
<1>2. PICK next \in [Topic -> 1 .. MaxSent + MaxMetrics + 1] :
        /\ \A t \in Topic : next[t] \in (1 .. relay[t].next) \cup {Len(log[t]) + 1}
        /\ relay' = [t \in Topic |-> Polling(next[t])]
  BY DEF Restart
<1>3. PipeTypes'
  BY <1>1 DEF PipeTypes, pipelineVars
<1>4. TabTypes' /\ delivered' \in [Conn -> Seq(1 .. Len(log["alerts"]))]
  BY <1>1, CloseTyped DEF pipelineVars
<1>5. /\ relay' \in [Topic -> Relay]
      /\ \A t \in Topic : /\ relay'[t].next <= Len(log'[t]) + 1
                          /\ relay'[t].pc = "sending" => relay'[t].next >= 2 /\ relay'[t].at \in Conn
  <2>1. \A t \in Topic : /\ next[t] \in Nat \ {0} /\ Len(log[t]) \in Nat /\ relay[t].next \in Nat
                         /\ relay[t].next <= Len(log[t]) + 1 /\ log'[t] = log[t]
    <3>1. MaxSent + MaxMetrics + 1 \in Nat
      BY FeedBounds
    <3>2. \A t \in Topic : next[t] \in Nat \ {0}
      BY <1>2, <3>1
    <3>3. \A t \in Topic : log[t] \in Seq(Nat) /\ relay[t] \in Relay /\ relay[t].next <= Len(log[t]) + 1
      BY DEF GateTypes, PipeTypes
    <3>4. \A t \in Topic : Len(log[t]) \in Nat /\ relay[t].next \in Nat
      BY <3>3 DEF Relay
    <3> QED BY <1>1, <3>2, <3>3, <3>4 DEF pipelineVars
  <2>2. \A t \in Topic : next[t] <= Len(log[t]) + 1
    BY <1>2, <2>1, SMTT(30)
  <2>3. \A t \in Topic : relay'[t] = Polling(next[t])
    BY <1>2
  <2>4. \A t \in Topic : relay'[t] \in Relay /\ relay'[t].pc = "polling" /\ relay'[t].next = next[t]
    BY <2>1, <2>3, PollingTyped
  <2> QED BY <1>2, <2>1, <2>2, <2>4
<1>6. GateTypes'
  <2>1. restarts' \in 0 .. MaxRestarts
    BY <1>1, BoundTypes DEF GateTypes
  <2>2. queried' \in [Conn -> Seq(1 .. made')]
    BY <1>1, SeqFacts
  <2>3. log' = log
    BY <1>1 DEF pipelineVars
  <2> QED BY <1>1, <1>4, <1>5, <2>1, <2>2, <2>3 DEF GateTypes
<1> QED BY <1>3, <1>4, <1>6

\* Every step keeps the types.
LEMMA TypeStep ==
  ASSUME TypeInv, [Next]_vars
  PROVE  TypeInv'
<1>1. PipeTypes /\ GateTypes /\ TabTypes
  BY TypeParts
<1>2. CASE UNCHANGED vars
  BY <1>1, <1>2, TypePartsNext
  DEF vars, pipelineVars, gatewayVars, tabVars, PipeTypes, GateTypes, TabTypes, Message, Copy
<1>3. CASE Next
  <2>1. PipeTypes' /\ GateTypes' /\ TabTypes'
    BY <1>1, <1>3, PipeTyped, RestartTyped, RelayTyped, EndTyped, HandlerTyped, TabTyped DEF Next
  <2> QED BY <2>1, TypePartsNext
<1> QED BY <1>2, <1>3

\* The types at the start.
LEMMA TypeInit ==
  ASSUME Init
  PROVE  TypeInv
<1>1. \A t \in Topic : relay[t] \in Relay /\ relay[t].pc = "polling" /\ relay[t].next = 1
  BY PollingTyped DEF Init
<1>2. PipeTypes
  BY SeqFacts, BoundTypes DEF Init, PipeTypes, Topic
<1>3. GateTypes
  <2>1. \A t \in Topic : Len(log[t]) = 0
    BY DEF Init
  <2>2. relay \in [Topic -> Relay]
    BY <1>1 DEF Init
  <2>3. queried \in [Conn -> Seq(1 .. made)] /\ delivered \in [Conn -> Seq(1 .. Len(log["alerts"]))]
    BY SeqFacts DEF Init
  <2> QED BY <1>1, <2>1, <2>2, <2>3, BoundTypes DEF Init, GateTypes
<1>4. TabTypes
  BY SeqFacts DEF Init, TabTypes
<1> QED BY <1>2, <1>3, <1>4, TypeParts

\* The types hold always.
LEMMA TypeInvariant == Spec => []TypeInv
<1> QED BY TypeInit, TypeStep, PTL DEF Spec

(* Every variable of the gateway, the network and the tabs keeps its type; no tab
   shows and no connection was sent an alert that was never made. *)
THEOREM TypeCorrect == Spec => []TypeOK
<1>1. TypeInv => TypeOK
  BY DEF TypeInv
<1> QED BY <1>1, TypeInvariant, PTL
-----------------------------------------------------------------------------
(* Connections *)

SocketsApart ==
  \A tab, other \in Tab : (socket[tab] = socket[other] /\ socket[tab] # NoConn) => tab = other
ClosedIsEmpty ==
  \A i \in Conn \ open : delivered[i] = <<>> /\ inbox[i] = <<>> /\ early[i] = {} /\ i \notin greeted
RelaysKnown ==
  \A t \in Topic : relay[t].pc = "sending" =>
    relay[t].at \in Known /\ relay[t].failed \subseteq Known \ open

\* The invariant of the connections, part by part.
LEMMA LinkParts ==
  LinkInv <=> open \subseteq clients /\ clients \subseteq Known /\ RelaysKnown /\ SocketsApart /\ ClosedIsEmpty
BY DEF LinkInv, RelaysKnown, SocketsApart, ClosedIsEmpty

\* Closing connections keeps sockets apart and empties what is closed.
LEMMA Closing ==
  ASSUME TypeInv, SocketsApart, ClosedIsEmpty, NEW S, Close(S)
  PROVE  SocketsApart' /\ ClosedIsEmpty' /\ open' = open \ S
<1>1. SocketsApart'
  BY DEF Close, Sockets, SocketsApart
<1>2. ClosedIsEmpty'
  <2> SUFFICES ASSUME NEW i \in Conn, i \notin open'
               PROVE  delivered'[i] = <<>> /\ inbox'[i] = <<>> /\ early'[i] = {} /\ i \notin greeted'
    BY DEF ClosedIsEmpty
  <2>1. CASE i \in S
    BY <2>1 DEF Close
  <2>2. CASE i \notin S
    BY <2>2 DEF Close, ClosedIsEmpty
  <2> QED BY <2>1, <2>2
<1> QED BY <1>1, <1>2 DEF Close

\* A relay's step keeps the invariant of the connections.
LEMMA RelayLinks ==
  ASSUME TypeInv, LinkInv, NEW t \in Topic, RelayStep(t)
  PROVE  LinkInv'
<1>0. relay \in [Topic -> Relay] /\ relay[t] \in Relay /\ open \subseteq Conn /\ clients \subseteq Conn
  BY DEF TypeInv, TypeOK
<1>1. open \subseteq clients /\ clients \subseteq Known /\ RelaysKnown /\ SocketsApart /\ ClosedIsEmpty
  BY LinkParts
<1>2. UNCHANGED <<handler, open, socket, early, greeted>>
  BY DEF RelayStep, RelayTake, RelaySent, tabVars
<1>3. Known' = Known /\ SocketsApart'
  BY <1>1, <1>2 DEF Known, SocketsApart
<1>4. ASSUME NEW r, relay' = [relay EXCEPT ![t] = r],
             r.pc = "sending" => r.at \in Known /\ r.failed \subseteq Known \ open
      PROVE  RelaysKnown'
  BY <1>0, <1>1, <1>2, <1>3, <1>4 DEF RelaysKnown
<1>5. CASE RelayTake(t)
  <2>1. clients' = clients /\ delivered' = delivered /\ inbox' = inbox
    BY <1>5 DEF RelayTake
  <2>2. ClosedIsEmpty'
    BY <1>1, <1>2, <2>1 DEF ClosedIsEmpty
  <2>3. RelaysKnown'
    <3>1. CASE relay' = [relay EXCEPT ![t].next = @ + 1]
      <4>1. PICK r : r = [relay[t] EXCEPT !.next = relay[t].next + 1]
        OBVIOUS
      <4>2. r.pc = relay[t].pc /\ r.at = relay[t].at /\ r.failed = relay[t].failed
        BY <1>0, <4>1 DEF Relay
      <4>3. relay' = [relay EXCEPT ![t] = r]
        BY <3>1, <4>1
      <4> QED BY <1>1, <1>4, <4>2, <4>3 DEF RelaysKnown
    <3>2. ASSUME NEW i \in clients,
                 relay' = [relay EXCEPT ![t] = [pc |-> "sending", next |-> @.next + 1, at |-> i,
                                                size |-> Cardinality(clients), todo |-> clients \ {i},
                                                failed |-> {}]]
          PROVE  RelaysKnown'
      <4>1. PICK r : r = [pc |-> "sending", next |-> relay[t].next + 1, at |-> i,
                          size |-> Cardinality(clients), todo |-> clients \ {i},
                          failed |-> {}]
        OBVIOUS
      <4>2. relay' = [relay EXCEPT ![t] = r]
        BY <3>2, <4>1
      <4> QED BY <1>1, <1>4, <4>1, <4>2
    <3> QED BY <1>5, <3>1, <3>2 DEF RelayTake
  <2> QED BY <1>1, <1>2, <1>3, <2>1, <2>2, <2>3 DEF LinkInv, RelaysKnown, SocketsApart, ClosedIsEmpty
<1>6. CASE RelaySent(t)
  <2>1. PICK failed : /\ failed = relay[t].failed \cup ({relay[t].at} \ open) /\ Continue(t, failed)
                      /\ relay[t].pc = "sending"
    BY <1>6 DEF RelaySent
  <2>2. failed \subseteq Known \ open
    BY <1>1, <2>1 DEF RelaysKnown
  <2>3. PICK r : /\ relay' = [relay EXCEPT ![t] = r]
                 /\ Stopped(t, r) \/ Moved(t, r, failed) \/ Ended(t, r, failed)
    BY <1>0, <2>1, ContinueCases
  <2>4. RelaysKnown'
    <3>1. CASE Stopped(t, r)
      <4>1. r.pc = "dead"
        BY <1>0, <3>1 DEF Stopped, Relay
      <4> QED BY <1>4, <2>3, <4>1
    <3>2. CASE Moved(t, r, failed)
      <4>1. PICK j \in clients : j = r.at
        BY <3>2 DEF Moved
      <4>2. r = [relay[t] EXCEPT !.at = j, !.todo = relay[t].todo \ {j}, !.failed = failed]
        BY <3>2, <4>1 DEF Moved
      <4>3. r.failed = failed
        BY <1>0, <4>2 DEF Relay
      <4>4. r.at \in Known
        BY <1>1, <4>1
      <4> QED BY <1>4, <2>2, <2>3, <4>3, <4>4
    <3>3. CASE Ended(t, r, failed)
      <4>1. r.pc = "polling"
        BY <3>3 DEF Ended, Polling
      <4> QED BY <1>4, <2>3, <4>1
    <3> QED BY <2>3, <3>1, <3>2, <3>3
  <2>5. open' \subseteq clients' /\ clients' \subseteq Known'
    BY <1>1, <1>2, <1>3, <2>2, <2>3 DEF Stopped, Moved, Ended, SetClients
  <2>6. ClosedIsEmpty'
    <3>1. \A j \in Conn \ open : inbox'[j] = inbox[j] /\ delivered'[j] = delivered[j]
      BY <1>6 DEF RelaySent, TypeInv, TypeOK
    <3> QED BY <1>1, <1>2, <3>1 DEF ClosedIsEmpty
  <2> QED BY <1>3, <2>4, <2>5, <2>6 DEF LinkInv, RelaysKnown, SocketsApart, ClosedIsEmpty
<1> QED BY <1>5, <1>6 DEF RelayStep

\* Every step keeps the invariant of the connections.
LEMMA LinkStep ==
  ASSUME TypeInv, LinkInv, [Next]_vars
  PROVE  LinkInv'
<1>0. /\ open \subseteq Conn /\ clients \subseteq Conn /\ socket \in [Tab -> open \cup {NoConn}]
      /\ handler \in [Conn -> {"none", "querying", "greeting", "reading", "done"}]
      /\ relay \in [Topic -> Relay]
  BY DEF TypeInv, TypeOK
<1>1. open \subseteq clients /\ clients \subseteq Known /\ RelaysKnown /\ SocketsApart /\ ClosedIsEmpty
  BY LinkParts
<1>p. ASSUME open' \subseteq clients', clients' \subseteq Known', RelaysKnown', SocketsApart', ClosedIsEmpty'
      PROVE  LinkInv'
  BY <1>p DEF LinkInv, RelaysKnown, SocketsApart, ClosedIsEmpty
<1>2. CASE MakeAlert \/ StoreAlert \/ MergeRows \/ MakeMetrics \/ UNCHANGED vars
  <2>1. UNCHANGED <<gatewayVars, tabVars, open, inbox>>
    BY <1>2 DEF MakeAlert, StoreAlert, MergeRows, MakeMetrics, vars
  <2> QED BY <2>1 DEF LinkInv, gatewayVars, tabVars, Known
<1>3. CASE \E t \in Topic : RelayStep(t)
  BY <1>3, RelayLinks
<1>4. ASSUME NEW i \in Conn, QueryBacklog(i) \/ QueryRefused(i) \/ SendBacklog(i) PROVE LinkInv'
  <2>1. /\ Known' = Known
        /\ UNCHANGED <<clients, relay, delivered, tabVars, open>>
    BY <1>0, <1>4 DEF QueryBacklog, QueryRefused, SendBacklog, Known
  <2>2. \A j \in Conn \ open : inbox'[j] = inbox[j]
    BY <1>4 DEF QueryBacklog, QueryRefused, SendBacklog, TypeInv, TypeOK
  <2>3. ClosedIsEmpty' /\ SocketsApart' /\ RelaysKnown'
    BY <1>1, <2>1, <2>2 DEF ClosedIsEmpty, SocketsApart, RelaysKnown, tabVars
  <2> QED BY <1>1, <1>p, <2>1, <2>3
<1>5. ASSUME NEW i \in Conn, HandlerEnds(i) PROVE LinkInv'
  <2>1. /\ Known' = Known /\ clients' = clients \ {i} /\ relay' = relay /\ Close({i})
    BY <1>0, <1>5 DEF HandlerEnds, Known, SetClients
  <2>2. SocketsApart' /\ ClosedIsEmpty' /\ open' = open \ {i}
    BY <1>1, <2>1, Closing
  <2>3. RelaysKnown'
    BY <1>1, <2>1, <2>2 DEF RelaysKnown
  <2> QED BY <1>1, <1>p, <2>1, <2>2, <2>3
<1>6. ASSUME NEW tab \in Tab, Connect(tab) PROVE LinkInv'
  <2>1. PICK i \in Conn : /\ handler[i] = "none" /\ handler' = [handler EXCEPT ![i] = "querying"]
                          /\ open' = open \cup {i} /\ socket' = [socket EXCEPT ![tab] = i]
                          /\ clients' = clients \cup {i} /\ Rearranged(clients \cup {i})
    BY <1>6 DEF Connect, SetClients
  <2>2. UNCHANGED <<delivered, greeted, early, inbox>>
    BY <1>6 DEF Connect
  <2>3. i \notin Known /\ Known' = Known \cup {i} /\ i \notin open
    BY <1>0, <1>1, <2>1 DEF Known
  <2>4. RelaysKnown'
    <3>1. clients \cup {i} \in SUBSET Conn
      BY <1>0
    <3>2. \A t \in Topic : /\ relay'[t].pc = relay[t].pc /\ relay'[t].at = relay[t].at
                           /\ relay'[t].failed = relay[t].failed
      BY <1>0, <2>1, <3>1, Rearranges
    <3>3. ASSUME NEW t \in Topic, relay'[t].pc = "sending"
          PROVE  relay'[t].at \in Known' /\ relay'[t].failed \subseteq Known' \ open'
      <4>1. relay[t].at \in Known /\ relay[t].failed \subseteq Known \ open
        BY <1>1, <3>2, <3>3 DEF RelaysKnown
      <4>2. i \notin relay[t].failed
        BY <2>3, <4>1
      <4> QED BY <2>1, <2>3, <3>2, <4>1, <4>2
    <3> QED BY <3>3 DEF RelaysKnown
  <2>5. SocketsApart'
    <3>1. \A x \in Tab : socket[x] # i
      BY <1>0, <2>3, Conns
    <3>2. \A x \in Tab : socket'[x] = IF x = tab THEN i ELSE socket[x]
      BY <1>0, <2>1
    <3> QED BY <1>1, <3>1, <3>2 DEF SocketsApart
  <2>6. ClosedIsEmpty'
    BY <1>1, <2>1, <2>2 DEF ClosedIsEmpty
  <2> QED BY <1>1, <1>p, <2>1, <2>3, <2>4, <2>5, <2>6
<1>7. ASSUME NEW tab \in Tab, Drop(tab) PROVE LinkInv'
  <2>1. Close({socket[tab]}) /\ UNCHANGED <<clients, relay, handler>>
    BY <1>7 DEF Drop
  <2>2. SocketsApart' /\ ClosedIsEmpty' /\ open' = open \ {socket[tab]} /\ Known' = Known
    BY <1>1, <2>1, Closing DEF Known
  <2>3. RelaysKnown'
    BY <1>1, <2>1, <2>2 DEF RelaysKnown
  <2> QED BY <1>1, <1>p, <2>1, <2>2, <2>3
<1>8. ASSUME NEW tab \in Tab, Receive(tab) PROVE LinkInv'
  <2>1. UNCHANGED <<gatewayVars, open, socket>>
    BY <1>8 DEF Receive
  <2>2. PICK i : i = socket[tab] /\ i \in open /\ i \in Conn
    BY <1>0, <1>8 DEF Receive
  <2>3. \A j \in Conn \ {i} : inbox'[j] = inbox[j] /\ early'[j] = early[j] /\ (j \in greeted' <=> j \in greeted)
    BY <1>8, <2>2 DEF Receive, TypeInv, TypeOK
  <2>4. ClosedIsEmpty'
    BY <1>1, <2>1, <2>2, <2>3 DEF ClosedIsEmpty, gatewayVars
  <2>5. SocketsApart' /\ RelaysKnown' /\ Known' = Known /\ clients' = clients
    BY <1>1, <2>1 DEF SocketsApart, RelaysKnown, Known, gatewayVars
  <2> QED BY <1>1, <1>p, <2>1, <2>4, <2>5
<1>9. CASE Restart
  <2>1. Close(Conn) /\ clients' = {} /\ \E next : relay' = [t \in Topic |-> Polling(next[t])]
    BY <1>9 DEF Restart
  <2>2. SocketsApart' /\ ClosedIsEmpty' /\ open' = {}
    BY <1>0, <1>1, <2>1, Closing
  <2>3. \A t \in Topic : relay'[t].pc = "polling"
    BY <2>1 DEF Polling
  <2>4. RelaysKnown'
    BY <2>3 DEF RelaysKnown
  <2> QED BY <1>p, <2>1, <2>2, <2>4
<1>10. ASSUME NEW t \in Topic, RelayEnds(t) PROVE LinkInv'
  <2>1. UNCHANGED <<clients, handler, delivered, tabVars, open, inbox>>
    BY <1>10 DEF RelayEnds
  <2>2. RelaysKnown'
    <3>1. \A u \in Topic : relay'[u] = relay[u] \/ relay'[u].pc = "ended"
      BY <1>0, <1>10, EndCases
    <3>2. Known' = Known /\ open' = open
      BY <2>1 DEF Known
    <3>3. \A u \in Topic : relay'[u].pc = "sending" => relay'[u] = relay[u]
      BY <3>1
    <3> QED BY <1>1, <3>2, <3>3 DEF RelaysKnown
  <2>3. Known' = Known /\ SocketsApart' /\ ClosedIsEmpty'
    BY <1>1, <2>1 DEF Known, SocketsApart, ClosedIsEmpty, tabVars
  <2> QED BY <1>1, <1>p, <2>1, <2>2, <2>3
<1> QED BY <1>2, <1>3, <1>4, <1>5, <1>6, <1>7, <1>8, <1>9, <1>10 DEF Next

\* The invariant of the connections holds always.
LEMMA LinkInvariant == Spec => []LinkInv
<1>1. Init => LinkInv
  BY DEF Init, LinkInv, Polling, Known
<1> QED BY <1>1, LinkStep, TypeInvariant, PTL DEF Spec
-----------------------------------------------------------------------------
(* What kills a relay *)

\* A relay's step keeps undisturbed iterations intact.
LEMMA RelayDisturbs ==
  ASSUME TypeInv, DisturbInv, NEW t \in Topic, RelayStep(t)
  PROVE  DisturbInv'
<1>0. relay \in [Topic -> Relay] /\ relay[t] \in Relay /\ t \in Topic
  BY DEF TypeInv, TypeOK
<1>1. CASE RelayTake(t)
  <2>1. clients' = clients /\ disturbed' = disturbed \ {t} /\ relay[t].pc = "polling"
    BY <1>1 DEF RelayTake
  <2>2. \E r : /\ relay' = [relay EXCEPT ![t] = r] /\ r.pc # "dead"
               /\ r.pc = "sending" => r.size = Cardinality(clients)
    <3>1. CASE relay' = [relay EXCEPT ![t].next = @ + 1]
      <4>1. PICK r : r = [relay[t] EXCEPT !.next = relay[t].next + 1]
        OBVIOUS
      <4>2. r.pc = "polling" /\ relay' = [relay EXCEPT ![t] = r]
        BY <1>0, <2>1, <3>1, <4>1 DEF Relay
      <4> QED BY <4>2
    <3>2. CASE ~(relay' = [relay EXCEPT ![t].next = @ + 1])
      <4>1. PICK i \in clients :
              relay' = [relay EXCEPT ![t] = [pc |-> "sending", next |-> @.next + 1, at |-> i,
                                             size |-> Cardinality(clients), todo |-> clients \ {i},
                                             failed |-> {}]]
        BY <1>1, <3>2 DEF RelayTake
      <4>2. PICK r : r = [pc |-> "sending", next |-> relay[t].next + 1, at |-> i,
                          size |-> Cardinality(clients), todo |-> clients \ {i},
                          failed |-> {}]
        OBVIOUS
      <4>3. relay' = [relay EXCEPT ![t] = r]
        BY <4>1, <4>2
      <4>4. r.pc # "dead" /\ r.size = Cardinality(clients)
        BY <4>2
      <4> QED BY <4>3, <4>4
    <3> QED BY <3>1, <3>2
  <2>3. PICK r : /\ relay' = [relay EXCEPT ![t] = r] /\ r.pc # "dead"
                 /\ r.pc = "sending" => r.size = Cardinality(clients)
    BY <2>2
  <2> QED BY <1>0, <2>1, <2>3 DEF DisturbInv
<1>2. CASE RelaySent(t)
  <2>1. PICK failed : Continue(t, failed) /\ relay[t].pc = "sending"
    BY <1>2 DEF RelaySent
  <2>2. PICK r : /\ relay' = [relay EXCEPT ![t] = r]
                 /\ Stopped(t, r) \/ Moved(t, r, failed) \/ Ended(t, r, failed)
    BY <1>0, <2>1, ContinueCases
  <2>3. \A u \in Topic : relay'[u] = IF u = t THEN r ELSE relay[u]
    BY <1>0, <2>2
  <2>4. CASE Stopped(t, r)
    <3>1. t \in disturbed /\ clients' = clients /\ disturbed' = disturbed
      BY <2>1, <2>4 DEF DisturbInv, Stopped
    <3> QED BY <2>3, <3>1 DEF DisturbInv
  <2>5. CASE Moved(t, r, failed)
    <3>1. PICK j : j = r.at
      OBVIOUS
    <3>2. r = [relay[t] EXCEPT !.at = j, !.todo = relay[t].todo \ {j}, !.failed = failed]
      BY <2>5, <3>1 DEF Moved
    <3>3. r.pc = relay[t].pc /\ r.size = relay[t].size
      BY <1>0, <3>2 DEF Relay
    <3>4. clients' = clients /\ disturbed' = disturbed
      BY <2>5 DEF Moved
    <3> QED BY <2>3, <3>3, <3>4 DEF DisturbInv
  <2>6. CASE Ended(t, r, failed)
    <3>1. r.pc = "polling" /\ SetClients(clients \ failed, {t})
      BY <2>6 DEF Ended, Polling
    <3> QED BY <2>3, <3>1 DEF DisturbInv, SetClients
  <2> QED BY <2>2, <2>4, <2>5, <2>6
<1> QED BY <1>1, <1>2 DEF RelayStep

\* Every step keeps undisturbed iterations intact.
LEMMA DisturbStep ==
  ASSUME TypeInv, DisturbInv, [Next]_vars
  PROVE  DisturbInv'
<1>1. CASE \E t \in Topic : RelayStep(t)
  BY <1>1, RelayDisturbs
<1>2. ASSUME relay' = relay, NEW S, SetClients(S, {})
      PROVE  DisturbInv'
  BY <1>2 DEF DisturbInv, SetClients
<1>3. ASSUME UNCHANGED <<relay, clients, disturbed>> PROVE DisturbInv'
  BY <1>3 DEF DisturbInv
<1>4. CASE Restart
  <2>1. \E next : relay' = [t \in Topic |-> Polling(next[t])]
    BY <1>4 DEF Restart
  <2>2. \A t \in Topic : relay'[t].pc = "polling"
    BY <2>1 DEF Polling
  <2> QED BY <2>2 DEF DisturbInv
<1>5. CASE MakeAlert \/ StoreAlert \/ MergeRows \/ MakeMetrics \/ UNCHANGED vars
  BY <1>3, <1>5 DEF MakeAlert, StoreAlert, MergeRows, MakeMetrics, vars, gatewayVars
<1>6. ASSUME NEW i \in Conn, QueryBacklog(i) \/ QueryRefused(i) \/ SendBacklog(i) \/ HandlerEnds(i)
      PROVE  DisturbInv'
  BY <1>2, <1>3, <1>6 DEF QueryBacklog, QueryRefused, SendBacklog, HandlerEnds
<1>7. ASSUME NEW tab \in Tab, Drop(tab) \/ Receive(tab) PROVE DisturbInv'
  BY <1>3, <1>7 DEF Drop, Receive, gatewayVars
<1>8. ASSUME NEW tab \in Tab, Connect(tab) PROVE DisturbInv'
  <2>1. PICK i \in Conn : SetClients(clients \cup {i}, {}) /\ Rearranged(clients \cup {i})
    BY <1>8 DEF Connect
  <2>2. relay \in [Topic -> Relay] /\ clients \cup {i} \in SUBSET Conn
    BY DEF TypeInv, TypeOK
  <2>3. \A t \in Topic : relay'[t].pc = relay[t].pc /\ relay'[t].size = relay[t].size
    BY <2>1, <2>2, Rearranges
  <2> QED BY <2>1, <2>3 DEF DisturbInv, SetClients
<1>9. ASSUME NEW t \in Topic, RelayEnds(t) PROVE DisturbInv'
  <2>1. UNCHANGED <<clients, disturbed>>
    BY <1>9 DEF RelayEnds
  <2>2. relay \in [Topic -> Relay]
    BY DEF TypeInv, TypeOK
  <2>3. \A u \in Topic : relay'[u] = relay[u] \/ relay'[u].pc = "ended"
    BY <1>9, <2>2, EndCases
  <2> QED BY <2>1, <2>3 DEF DisturbInv
<1> QED BY <1>1, <1>4, <1>5, <1>6, <1>7, <1>8, <1>9 DEF Next

(* A relay dies only when somebody else joined or left during its broadcast: a
   client whose send fails is evicted without an error. *)
THEOREM BadClientSpared == Spec => []OneBadClient
<1>1. Init => DisturbInv
  BY DEF Init, DisturbInv, Polling
<1>2. TypeInv /\ DisturbInv => OneBadClient
  BY DEF DisturbInv, OneBadClient
<1> QED BY <1>1, <1>2, DisturbStep, TypeInvariant, PTL DEF Spec
-----------------------------------------------------------------------------
(* What one connection is sent *)

\* How far a client is, and what it may be sent next.
LEMMA UpToFacts ==
  ASSUME NEW l \in Nat, NEW k \in Nat, k >= 1
  PROVE  /\ UpTo(l, k - 1) /\ k \in shaken => UpTo(l, k)
         /\ UpTo(l, k - 1) => Unbroken(l, k)
         /\ UpTo(l, k) /\ k \in shaken => Unbroken(l, k)
         /\ UpTo(k, k)
<1>1. ASSUME UpTo(l, k - 1), k \in shaken PROVE UpTo(l, k)
  <2>1. l <= k /\ \A m \in l + 1 .. k : m \in l + 1 .. k - 1 \/ m = k
    BY <1>1 DEF UpTo
  <2> QED BY <1>1, <2>1 DEF UpTo
<1>2. ASSUME UpTo(l, k - 1) PROVE Unbroken(l, k)
  BY <1>2 DEF UpTo, Unbroken
<1>3. ASSUME UpTo(l, k), k \in shaken PROVE Unbroken(l, k)
  <2>1. \A m \in l + 1 .. k - 1 : m \in l + 1 .. k
    OBVIOUS
  <2> QED BY <1>3, <2>1 DEF UpTo, Unbroken
<1>4. UpTo(k, k)
  BY DEF UpTo
<1> QED BY <1>1, <1>2, <1>3, <1>4

\* A run stays one when more offsets are shaken.
LEMMA ShakenKeeps ==
  ASSUME shaken \subseteq shaken', NEW l, NEW k, NEW s
  PROVE  (UpTo(l, k) => UpTo(l, k)') /\ (Chain(s) => Chain(s)')
<1>1. \A p, n : Unbroken(p, n) => Unbroken(p, n)'
  BY DEF Unbroken
<1>2. UpTo(l, k) => UpTo(l, k)'
  BY DEF UpTo
<1>3. ASSUME Chain(s) PROVE Chain(s)'
  <2>1. \A n \in 1 .. (Len(s) - 1) : Unbroken(s[n], s[n + 1])'
    BY <1>1, <1>3 DEF Chain
  <2> QED BY <2>1 DEF Chain
<1> QED BY <1>2, <1>3

\* A run grows by a message that may follow its last.
LEMMA ChainGrows ==
  ASSUME NEW s \in Seq(Nat), NEW k \in Nat, Chain(s), s # <<>> => Unbroken(LastOf(s), k)
  PROVE  Chain(Append(s, k)) /\ LastOf(Append(s, k)) = k
<1>1. PICK L \in Nat : L = Len(s)
  OBVIOUS
<1>2. PICK z : z = Append(s, k)
  OBVIOUS
<1>3. /\ Len(z) = L + 1 /\ z[L + 1] = k
      /\ \A n \in 1 .. L : z[n] = s[n]
  BY <1>1, <1>2
<1>4. ASSUME NEW n \in 1 .. (Len(z) - 1) PROVE Unbroken(z[n], z[n + 1])
  <2>1. n \in 1 .. L /\ n \in Nat
    BY <1>3
  <2>2. CASE n = L
    <3>1. s # <<>> /\ LastOf(s) = z[n] /\ z[n + 1] = k
      BY <1>1, <1>3, <2>1, <2>2 DEF LastOf
    <3> QED BY <3>1
  <2>3. CASE n # L
    <3>1. n \in 1 .. (Len(s) - 1) /\ n + 1 \in 1 .. L
      BY <1>1, <2>1, <2>3
    <3>2. z[n] = s[n] /\ z[n + 1] = s[n + 1]
      BY <1>3, <2>1, <3>1
    <3> QED BY <3>1, <3>2 DEF Chain
  <2> QED BY <2>2, <2>3
<1>5. Chain(z)
  BY <1>4 DEF Chain
<1> QED BY <1>1, <1>2, <1>3, <1>5 DEF LastOf

\* The types of the runs.
LEMMA RunTypes ==
  ASSUME TypeInv, LinkInv
  PROVE  /\ relay \in [Topic -> Relay] /\ "alerts" \in Topic /\ relay["alerts"].next \in Nat \ {0}
         /\ delivered \in [Conn -> Seq(Nat)]
         /\ \A i \in Conn : delivered[i] # <<>> => i \in clients /\ i \in open /\ LastOf(delivered[i]) \in Nat
<1>1. relay \in [Topic -> Relay] /\ "alerts" \in Topic
  BY DEF TypeInv, TypeOK, Topic
<1>2. relay["alerts"].next \in Nat \ {0}
  BY <1>1 DEF Relay
<1>3. delivered \in [Conn -> Seq(Nat)]
  <2>1. \A n : Seq(1 .. n) \subseteq Seq(Nat)
    <3>1. \A n : 1 .. n \subseteq Nat
      OBVIOUS
    <3> QED BY <3>1, SeqFacts
  <2>2. delivered \in [Conn -> Seq(1 .. Len(log["alerts"]))]
    BY DEF TypeInv, TypeOK
  <2>3. PICK S : S = Seq(1 .. Len(log["alerts"])) /\ S \subseteq Seq(Nat)
    BY <2>1
  <2> QED BY <2>2, <2>3
<1>4. ASSUME NEW i \in Conn, delivered[i] # <<>>
      PROVE  i \in clients /\ i \in open /\ LastOf(delivered[i]) \in Nat
  <2>1. i \in open /\ open \subseteq clients
    BY <1>4, LinkParts DEF ClosedIsEmpty
  <2>2. \A s \in Seq(Nat) : s # <<>> => s[Len(s)] \in Nat
    OBVIOUS
  <2> QED BY <1>3, <1>4, <2>1, <2>2 DEF LastOf
<1> QED BY <1>1, <1>2, <1>3, <1>4

\* Taking a message for the clients keeps the runs.
LEMMA TakeRuns ==
  ASSUME TypeInv, LinkInv, RunInv, RelayTake("alerts")
  PROVE  RunInv'
<1>0. /\ relay \in [Topic -> Relay] /\ "alerts" \in Topic /\ relay["alerts"].pc = "polling"
      /\ delivered' = delivered /\ shaken' = shaken
  BY RunTypes DEF RelayTake
<1>1. PICK k \in Nat : k = relay["alerts"].next /\ k >= 1
  BY RunTypes
<1>2. \A j \in Conn : delivered[j] # <<>> =>
        /\ Chain(delivered[j]) /\ j \in clients /\ LastOf(delivered[j]) \in Nat
        /\ delivered[j] \in Seq(Nat) /\ UpTo(LastOf(delivered[j]), k - 1)
  BY <1>0, <1>1, RunTypes DEF RunInv, Stands
<1>3. CASE clients = {} /\ relay' = [relay EXCEPT !["alerts"].next = @ + 1]
  <2>1. \A j \in Conn : delivered'[j] = <<>>
    BY <1>0, <1>2, <1>3
  <2>2. relay'["alerts"].pc = "polling"
    BY <1>0, <1>3 DEF Relay
  <2> QED BY <2>1, <2>2 DEF RunInv
<1>4. ASSUME NEW i \in clients,
             relay' = [relay EXCEPT !["alerts"] =
                         [pc |-> "sending", next |-> @.next + 1, at |-> i,
                          size |-> Cardinality(clients), todo |-> clients \ {i},
                          failed |-> {}]]
      PROVE  RunInv'
  <2>1. PICK r : r = [pc |-> "sending", next |-> k + 1, at |-> i,
                      size |-> Cardinality(clients), todo |-> clients \ {i},
                      failed |-> {}]
    OBVIOUS
  <2>2. /\ relay'["alerts"] = r /\ r.pc = "sending" /\ r.next = k + 1 /\ r.at = i /\ r.todo = clients \ {i}
        /\ r.next - 1 = k /\ r.next - 2 = k - 1
    BY <1>0, <1>1, <1>4, <2>1
  <2>3. ASSUME NEW j \in Conn, delivered'[j] # <<>> PROVE Chain(delivered[j])' /\ Stands(j)'
    <3>1. PICK s \in Seq(Nat), l \in Nat : s = delivered[j] /\ l = LastOf(s) /\ Chain(s) /\ UpTo(l, k - 1) /\ j \in clients
      BY <1>0, <1>2, <2>3
    <3>2. Chain(s)' /\ UpTo(l, k - 1)'
      BY <1>0, <3>1, ShakenKeeps
    <3>3. k \in shaken => UpTo(l, k)'
      <4>1. k \in shaken => UpTo(l, k)
        BY <1>1, <3>1, UpToFacts
      <4> QED BY <1>0, <4>1, ShakenKeeps
    <3>4. Waits(j)' <=> k \notin shaken
      BY <1>0, <2>2, <3>1 DEF Waits
    <3>5. delivered'[j] = s
      BY <1>0, <3>1
    <3>6. Stands(j)'
      BY <2>2, <3>1, <3>2, <3>3, <3>4, <3>5 DEF Stands
    <3> QED BY <3>2, <3>5, <3>6
  <2> QED BY <2>2, <2>3 DEF RunInv
<1> QED BY <1>3, <1>4 DEF RelayTake

\* A message sent to a client keeps the runs.
LEMMA SendRuns ==
  ASSUME TypeInv, LinkInv, RunInv, RelaySent("alerts")
  PROVE  RunInv'
<1> DEFINE q == relay["alerts"]
<1>0. /\ relay \in [Topic -> Relay] /\ "alerts" \in Topic /\ q \in Relay /\ q.pc = "sending"
      /\ delivered \in [Conn -> Seq(Nat)] /\ shaken' = shaken
  BY RunTypes DEF RelaySent
<1>1. PICK k \in Nat : k = q.next - 1 /\ k - 1 = q.next - 2 /\ k >= 1
  <2>1. q.next >= 2 /\ q.next \in Nat
    BY <1>0, RunTypes DEF TypeInv
  <2> QED BY <2>1
<1>2. PICK i, failed : i \in Conn /\ i = q.at /\ Continue("alerts", failed)
  <2>1. q.at \in Conn
    BY <1>0 DEF TypeInv
  <2> QED BY <2>1 DEF RelaySent
<1>3. PICK r : /\ relay' = [relay EXCEPT !["alerts"] = r]
               /\ Stopped("alerts", r) \/ Moved("alerts", r, failed) \/ Ended("alerts", r, failed)
  BY <1>0, <1>2, ContinueCases
<1>4. relay'["alerts"] = r
  BY <1>0, <1>3
<1>5. \A j \in Conn : delivered[j] # <<>> =>
        /\ Chain(delivered[j]) /\ j \in clients /\ j \in open /\ LastOf(delivered[j]) \in Nat
        /\ delivered[j] \in Seq(Nat)
        /\ Waits(j) => UpTo(LastOf(delivered[j]), k - 1)
        /\ ~Waits(j) => UpTo(LastOf(delivered[j]), k)
  BY <1>0, <1>1, RunTypes DEF RunInv, Stands
<1>6. \A j \in Conn : Waits(j) <=> k \notin shaken /\ (j \in q.todo \/ j = i)
  BY <1>1, <1>2 DEF Waits
<1>7. k \notin shaken => i \notin q.todo
  BY <1>0, <1>1, <1>2 DEF RunInv
<1>8. /\ i \in open => delivered' = [delivered EXCEPT ![i] = Append(@, k)]
      /\ i \notin open => delivered' = delivered
  BY <1>1, <1>2 DEF RelaySent
\* how far everyone is when the iteration goes on
<1>9. ASSUME NEW j \in Conn, delivered'[j] # <<>>
      PROVE  \E s \in Seq(Nat), l \in Nat :
               /\ s = delivered'[j] /\ l = LastOf(s) /\ Chain(s)' /\ j \in clients
               /\ (k \notin shaken /\ j \in q.todo) => UpTo(l, k - 1)'
               /\ ~(k \notin shaken /\ j \in q.todo) => UpTo(l, k)'
  <2>1. CASE j = i /\ i \in open
    <3>1. PICK s \in Seq(Nat) : s = delivered[i]
      BY <1>0, <1>2
    <3>2. Chain(s) /\ (s # <<>> => Unbroken(LastOf(s), k))
      <4>1. CASE s = <<>>
        BY <4>1 DEF Chain
      <4>2. CASE s # <<>>
        <5>1. PICK l \in Nat : l = LastOf(s) /\ Chain(s) /\ (k \notin shaken => UpTo(l, k - 1))
                                /\ (k \in shaken => UpTo(l, k))
          BY <1>2, <1>5, <1>6, <3>1, <4>2
        <5>2. Unbroken(l, k)
          <6>1. CASE k \in shaken
            BY <1>1, <5>1, <6>1, UpToFacts
          <6>2. CASE k \notin shaken
            BY <1>1, <5>1, <6>2, UpToFacts
          <6> QED BY <6>1, <6>2
        <5> QED BY <5>1, <5>2
      <4> QED BY <4>1, <4>2
    <3>3. PICK z \in Seq(Nat) : z = Append(s, k) /\ Chain(z) /\ LastOf(z) = k
      <4>1. Append(s, k) \in Seq(Nat)
        BY <1>1
      <4>2. Chain(Append(s, k)) /\ LastOf(Append(s, k)) = k
        BY <3>2, ChainGrows
      <4> QED BY <4>1, <4>2
    <3>4. z = delivered'[j]
      BY <1>0, <1>8, <2>1, <3>1, <3>3
    <3>5. Chain(z)' /\ UpTo(k, k)'
      <4>1. UpTo(k, k)
        BY <1>1, UpToFacts
      <4> QED BY <1>0, <3>3, <4>1, ShakenKeeps
    <3>6. i \in clients
      BY <2>1, LinkParts
    <3>7. ~(k \notin shaken /\ j \in q.todo)
      BY <1>7, <2>1
    <3> QED BY <2>1, <3>3, <3>4, <3>5, <3>6, <3>7
  <2>2. CASE ~(j = i /\ i \in open)
    <3>1. delivered'[j] = delivered[j]
      BY <1>0, <1>8, <2>2
    <3>2. j # i
      BY <1>5, <1>9, <2>2, <3>1
    <3>3. PICK s \in Seq(Nat), l \in Nat :
            /\ s = delivered[j] /\ l = LastOf(s) /\ Chain(s) /\ j \in clients
            /\ (k \notin shaken /\ j \in q.todo) => UpTo(l, k - 1)
            /\ ~(k \notin shaken /\ j \in q.todo) => UpTo(l, k)
      BY <1>5, <1>6, <1>9, <3>1, <3>2
    <3>4. /\ Chain(s)' /\ (UpTo(l, k - 1) => UpTo(l, k - 1)') /\ (UpTo(l, k) => UpTo(l, k)')
      BY <1>0, <3>3, ShakenKeeps
    <3> QED BY <3>1, <3>3, <3>4
  <2> QED BY <2>1, <2>2
<1>10. ASSUME NEW j \in Conn, delivered'[j] # <<>> PROVE Chain(delivered[j])' /\ Stands(j)'
  <2>1. PICK s \in Seq(Nat), l \in Nat :
          /\ s = delivered'[j] /\ l = LastOf(s) /\ Chain(s)' /\ j \in clients
          /\ (k \notin shaken /\ j \in q.todo) => UpTo(l, k - 1)'
          /\ ~(k \notin shaken /\ j \in q.todo) => UpTo(l, k)'
    BY <1>9, <1>10
  <2>2. Chain(delivered[j])' /\ LastOf(delivered[j])' = l
    BY <2>1 DEF LastOf
  <2>3. CASE Stopped("alerts", r)
    <3>1. r.pc = "dead"
      BY <1>0, <2>3 DEF Stopped, Relay
    <3> QED BY <1>4, <2>2, <3>1 DEF Stands
  <2>4. CASE Moved("alerts", r, failed)
    <3>1. PICK a : a = r.at /\ a \in q.todo
      BY <2>4 DEF Moved
    <3>2. r = [q EXCEPT !.at = a, !.todo = q.todo \ {a}, !.failed = failed]
      BY <2>4, <3>1 DEF Moved
    <3>3. r.pc = "sending" /\ r.next = q.next /\ r.todo = q.todo \ {a} /\ r.at = a
      BY <1>0, <3>2 DEF Relay
    <3>4. Waits(j)' <=> k \notin shaken /\ j \in q.todo
      BY <1>0, <1>1, <1>4, <3>1, <3>3 DEF Waits
    <3>5. Stands(j)'
      BY <1>1, <1>4, <2>1, <2>2, <3>3, <3>4 DEF Stands
    <3> QED BY <2>2, <3>5
  <2>5. CASE Ended("alerts", r, failed)
    <3>1. r.pc = "polling" /\ r.next = q.next /\ q.todo \cap clients = {}
      BY <2>5 DEF Ended, Polling
    <3>2. UpTo(l, k)'
      BY <2>1, <3>1
    <3>3. Stands(j)'
      BY <1>1, <1>4, <2>2, <3>1, <3>2 DEF Stands
    <3> QED BY <2>2, <3>3
  <2> QED BY <1>3, <2>3, <2>4, <2>5
<1>11. relay'["alerts"].pc = "sending" => relay'["alerts"].at \notin relay'["alerts"].todo
  <2>1. CASE Stopped("alerts", r)
    <3>1. r.pc = "dead"
      BY <1>0, <2>1 DEF Stopped, Relay
    <3> QED BY <1>4, <3>1
  <2>2. CASE Moved("alerts", r, failed)
    <3>1. PICK a : a = r.at
      OBVIOUS
    <3>2. r = [q EXCEPT !.at = a, !.todo = q.todo \ {a}, !.failed = failed]
      BY <2>2, <3>1 DEF Moved
    <3>3. r.todo = q.todo \ {a}
      BY <1>0, <3>2 DEF Relay
    <3> QED BY <1>4, <3>1, <3>3
  <2>3. CASE Ended("alerts", r, failed)
    <3>1. r.pc = "polling"
      BY <2>3 DEF Ended, Polling
    <3> QED BY <1>4, <3>1
  <2> QED BY <1>3, <2>1, <2>2, <2>3
<1> QED BY <1>10, <1>11 DEF RunInv

\* A client that joins shakes the broadcast under way and keeps the runs.
LEMMA JoinRuns ==
  ASSUME TypeInv, LinkInv, RunInv, NEW tab \in Tab, Connect(tab)
  PROVE  RunInv'
<1> DEFINE q == relay["alerts"]
<1>0. relay \in [Topic -> Relay] /\ "alerts" \in Topic /\ q.next \in Nat \ {0}
  BY RunTypes
<1>1. q'.pc = q.pc /\ q'.next = q.next
  <2>1. PICK i \in Conn : Rearranged(clients \cup {i})
    BY DEF Connect
  <2>2. clients \cup {i} \in SUBSET Conn
    BY DEF TypeInv, TypeOK
  <2> QED BY <1>0, <2>1, <2>2, Rearranges
<1>2. PICK k \in Nat : k = q.next - 1 /\ k - 1 = q.next - 2
  BY <1>0
<1>3. /\ delivered' = delivered /\ shaken \subseteq shaken'
      /\ q.pc = "sending" => k \in shaken'
  BY <1>2 DEF Connect
<1>4. ASSUME NEW j \in Conn, delivered'[j] # <<>> PROVE Chain(delivered[j])' /\ Stands(j)'
  <2>1. PICK s \in Seq(Nat), l \in Nat : s = delivered[j] /\ l = LastOf(s) /\ Chain(s)
    BY <1>3, <1>4, RunTypes DEF RunInv
  <2>2. Stands(j) /\ delivered'[j] = s
    BY <1>3, <1>4, <2>1 DEF RunInv
  <2>3. Chain(s)'
    BY <1>3, <2>1, ShakenKeeps
  <2>4. CASE q.pc = "sending"
    <3>1. k >= 1
      BY <1>0, <1>2, <2>4 DEF TypeInv
    <3>2. UpTo(l, k - 1) \/ UpTo(l, k)
      BY <1>2, <2>1, <2>2, <2>4 DEF Stands
    <3>3. UpTo(l, k)'
      <4>1. CASE UpTo(l, k)
        BY <1>3, <4>1, ShakenKeeps
      <4>2. CASE UpTo(l, k - 1)
        <5>1. UpTo(l, k - 1)'
          BY <1>3, <4>2, ShakenKeeps
        <5>2. \A m \in l + 1 .. k : m \in l + 1 .. k - 1 \/ m = k
          BY <3>1
        <5>3. l <= k
          BY <3>1, <4>2 DEF UpTo
        <5> QED BY <1>3, <2>4, <5>1, <5>2, <5>3 DEF UpTo
      <4> QED BY <3>2, <4>1, <4>2
    <3>4. ~Waits(j)'
      BY <1>1, <1>2, <1>3, <2>4 DEF Waits
    <3>5. Stands(j)'
      BY <1>1, <1>2, <2>1, <2>2, <2>4, <3>3, <3>4 DEF Stands
    <3> QED BY <2>2, <2>3, <3>5
  <2>5. CASE q.pc = "polling"
    <3>1. UpTo(l, k)
      BY <1>2, <2>1, <2>2, <2>5 DEF Stands
    <3>2. UpTo(l, k)'
      BY <1>3, <3>1, ShakenKeeps
    <3>3. Stands(j)'
      BY <1>1, <1>2, <2>1, <2>2, <2>5, <3>2 DEF Stands
    <3> QED BY <2>2, <2>3, <3>3
  <2>6. CASE q.pc # "sending" /\ q.pc # "polling"
    <3>1. Stands(j)'
      BY <1>1, <2>6 DEF Stands
    <3> QED BY <2>2, <2>3, <3>1
  <2> QED BY <2>4, <2>5, <2>6
<1>5. q'.pc = "sending" => q'.next - 1 \in shaken'
  BY <1>1, <1>2, <1>3
<1> QED BY <1>4, <1>5 DEF RunInv

\* Every step keeps the runs unbroken.
LEMMA RunStep ==
  ASSUME TypeInv, LinkInv, RunInv, [Next]_vars
  PROVE  RunInv'
<1>0. relay \in [Topic -> Relay] /\ "alerts" \in Topic
  BY RunTypes
<1>1. ASSUME relay'["alerts"] = relay["alerts"], shaken' = shaken,
             \A i \in Conn : delivered'[i] = delivered[i] \/ delivered'[i] = <<>>
      PROVE  RunInv'
  <2>1. ASSUME NEW i \in Conn, delivered'[i] # <<>> PROVE Chain(delivered[i])' /\ Stands(i)'
    <3>1. delivered'[i] = delivered[i]
      BY <1>1, <2>1
    <3>2. Chain(delivered[i]) /\ Stands(i)
      BY <2>1, <3>1 DEF RunInv
    <3>3. Chain(delivered[i])'
      BY <1>1, <3>1, <3>2 DEF Chain, Unbroken
    <3>4. Stands(i)'
      BY <1>1, <3>1, <3>2 DEF Stands, Waits, UpTo, LastOf
    <3> QED BY <3>3, <3>4
  <2> QED BY <1>1, <2>1 DEF RunInv
<1>2. CASE \E t \in Topic : RelayStep(t)
  <2>1. CASE RelayStep("alerts")
    BY <2>1, TakeRuns, SendRuns DEF RelayStep
  <2>2. CASE RelayStep("model-metrics")
    <3>1. delivered' = delivered /\ shaken' = shaken
      BY <2>2 DEF RelayStep, RelayTake, RelaySent
    <3>2. \E r : relay' = [relay EXCEPT !["model-metrics"] = r]
      <4>1. CASE RelayTake("model-metrics")
        <5>1. \/ relay' = [relay EXCEPT !["model-metrics"].next = @ + 1]
              \/ \E i \in clients : relay' = [relay EXCEPT !["model-metrics"] =
                   [pc |-> "sending", next |-> @.next + 1, at |-> i,
                    size |-> Cardinality(clients), todo |-> clients \ {i},
                    failed |-> {}]]
          BY <4>1 DEF RelayTake
        <5> QED BY <5>1
      <4>2. CASE RelaySent("model-metrics")
        <5>1. PICK failed : Continue("model-metrics", failed)
          BY <4>2 DEF RelaySent
        <5> QED BY <1>0, <5>1, ContinueCases DEF Topic
      <4> QED BY <2>2, <4>1, <4>2 DEF RelayStep
    <3>3. relay'["alerts"] = relay["alerts"]
      BY <1>0, <3>2 DEF Topic
    <3> QED BY <1>1, <3>1, <3>3
  <2> QED BY <1>2, <2>1, <2>2 DEF Topic
<1>3. CASE Restart
  <2>1. (\A i \in Conn : delivered'[i] = <<>>) /\ \E next : relay' = [t \in Topic |-> Polling(next[t])]
    BY <1>3 DEF Restart, Close
  <2>2. relay'["alerts"].pc = "polling"
    BY <1>0, <2>1 DEF Polling
  <2> QED BY <2>1, <2>2 DEF RunInv
<1>4. CASE MakeAlert \/ StoreAlert \/ MergeRows \/ MakeMetrics \/ UNCHANGED vars
  BY <1>1, <1>4 DEF MakeAlert, StoreAlert, MergeRows, MakeMetrics, vars, gatewayVars
<1>5. ASSUME NEW i \in Conn, QueryBacklog(i) \/ QueryRefused(i) \/ SendBacklog(i) \/ HandlerEnds(i)
      PROVE  RunInv'
  BY <1>1, <1>5 DEF QueryBacklog, QueryRefused, SendBacklog, HandlerEnds, Close
<1>6. ASSUME NEW tab \in Tab, Drop(tab) \/ Receive(tab) PROVE RunInv'
  BY <1>1, <1>6 DEF Drop, Receive, Close, gatewayVars
<1>7. ASSUME NEW tab \in Tab, Connect(tab) PROVE RunInv'
  BY <1>7, JoinRuns
<1>8. ASSUME NEW t \in Topic, RelayEnds(t) PROVE RunInv'
  <2>1. delivered' = delivered /\ shaken' = shaken
    BY <1>8 DEF RelayEnds
  <2>2. CASE t = "alerts"
    <3>1. relay'["alerts"].pc = "ended"
      BY <1>0, <1>8, <2>2, EndCases
    <3>2. ASSUME NEW i \in Conn, delivered'[i] # <<>> PROVE Chain(delivered[i])' /\ Stands(i)'
      <4>1. Chain(delivered[i])
        BY <2>1, <3>2 DEF RunInv
      <4> QED BY <2>1, <3>1, <4>1 DEF Stands, Chain, Unbroken
    <3> QED BY <3>1, <3>2 DEF RunInv
  <2>3. CASE t # "alerts"
    <3>1. relay'["alerts"] = relay["alerts"]
      BY <1>0, <1>8, <2>3, EndCases
    <3> QED BY <1>1, <2>1, <3>1
  <2> QED BY <2>2, <2>3
<1> QED BY <1>2, <1>3, <1>4, <1>5, <1>6, <1>7, <1>8 DEF Next

\* Runs are unbroken always.
LEMMA RunInvariant == Spec => []RunInv
<1>1. Init => RunInv
  BY DEF Init, RunInv, Polling, Topic
<1> QED BY <1>1, RunStep, TypeInvariant, LinkInvariant, PTL DEF Spec

(* What a connection is sent is an unbroken run of the alerts topic, whoever
   leaves or fails during the broadcasts, and over restarts: it lacks a message, or
   gets it twice, only when somebody joined during that message's broadcast. *)
THEOREM SentWithoutGap == Spec => []NoGapPerConnection
<1>1. TypeInv /\ RunInv => NoGapPerConnection
  <2> SUFFICES ASSUME TypeInv, RunInv, NEW i \in Conn, NEW n \in 1 .. (Len(delivered[i]) - 1)
               PROVE  Unbroken(delivered[i][n], delivered[i][n + 1])
    BY DEF NoGapPerConnection
  <2>1. delivered[i] # <<>>
    OBVIOUS
  <2> QED BY <2>1 DEF RunInv, Chain
<1> QED BY <1>1, RunInvariant, TypeInvariant, PTL
-----------------------------------------------------------------------------
(* What is on its way to a tab *)

\* What was sent to a connection and is on its way are numbers of messages.
LEMMA FeedNumbers ==
  ASSUME TypeInv, NEW i \in Conn
  PROVE  /\ Sent(i) \subseteq Nat
         /\ \A n \in Alerts(i) : inbox[i][n].copy.n \in Nat
         /\ inbox[i] \in Seq(Message) /\ queried[i] \in Seq(Nat) /\ queried[i] \in Seq(1 .. made)
<1>1. Sent(i) \subseteq Nat
  BY DEF Sent
<1>2. inbox[i] \in Seq(Message) /\ made \in Nat /\ queried[i] \in Seq(1 .. made)
  BY BoundTypes DEF TypeInv, TypeOK
<1>3. \A n \in DOMAIN inbox[i] : inbox[i][n] \in Message
  BY <1>2
<1>4. \A m \in Message : m.kind = "alert" => m.copy.n \in Nat
  BY DEF Message, Copy
<1>5. \A n \in Alerts(i) : inbox[i][n].copy.n \in Nat
  BY <1>3, <1>4 DEF Alerts
<1>6. queried[i] \in Seq(Nat)
  <2>1. 1 .. made \subseteq Nat
    OBVIOUS
  <2> QED BY <1>2, <2>1, SeqFacts
<1> QED BY <1>1, <1>2, <1>5, <1>6

(* What one step can do to one connection. *)
Quiet(i) ==
  /\ inbox'[i] = inbox[i] /\ Sent(i)' = Sent(i) /\ queried'[i] = queried[i]
  /\ early'[i] = early[i] /\ (i \in greeted' <=> i \in greeted)
  /\ handler'[i] = handler[i] \/ (handler[i] # "reading" /\ i \notin greeted)
IsSent(i) ==
  /\ \E copy : /\ inbox'[i] = Append(inbox[i], Alert(copy)) /\ Sent(i)' = Sent(i) \cup {copy.n}
               /\ copy.n \in Nat /\ Genuine(i, copy)' /\ \A old \in Sent(i) : old < copy.n
  /\ queried'[i] = queried[i] /\ handler'[i] = handler[i]
  /\ early'[i] = early[i] /\ (i \in greeted' <=> i \in greeted)
IsQueried(i) ==
  /\ handler[i] = "querying" /\ handler'[i] = "greeting" /\ Climbs(queried'[i])
  /\ inbox'[i] = inbox[i] /\ Sent(i)' = Sent(i)
  /\ early'[i] = early[i] /\ (i \in greeted' <=> i \in greeted)
IsGreeted(i) ==
  /\ handler[i] = "greeting" /\ handler'[i] = "reading"
  /\ inbox'[i] = Append(inbox[i], [kind |-> "backlog", rows |-> Rows(queried[i])])
  /\ Sent(i)' = Sent(i) /\ queried'[i] = queried[i]
  /\ early'[i] = early[i] /\ (i \in greeted' <=> i \in greeted)
IsEnded(i) ==
  /\ inbox'[i] = <<>> /\ Sent(i)' = {} /\ i \notin greeted'
  /\ queried'[i] = queried[i] \/ queried'[i] = <<>>
  /\ \A tab \in Tab : socket'[tab] # i
IsRead(i) ==
  /\ inbox[i] # <<>> /\ inbox'[i] = Tail(inbox[i])
  /\ Sent(i)' = Sent(i) /\ queried'[i] = queried[i] /\ handler'[i] = handler[i]
  /\ Head(inbox[i]).kind = "alert" => (i \in greeted' <=> i \in greeted)

(* What each of them leaves on its way and handled. *)
LEMMA QuietKeeps ==
  ASSUME NEW i \in Conn, inbox'[i] = inbox[i]
  PROVE  Alerts(i)' = Alerts(i) /\ Backlogs(i)' = Backlogs(i) /\ Coming(i)' = Coming(i)
<1>1. Alerts(i)' = Alerts(i) /\ Backlogs(i)' = Backlogs(i)
  BY DEF Alerts, Backlogs
<1> QED BY <1>1 DEF Coming

\* A message put at the end of an inbox.
LEMMA QueueGrows ==
  ASSUME TypeInv, NEW i \in Conn, NEW msg, inbox'[i] = Append(inbox[i], msg)
  PROVE  \E L \in Nat : /\ DOMAIN inbox[i] = 1 .. L /\ DOMAIN inbox'[i] = 1 .. L + 1
                        /\ \A n \in 1 .. L : inbox'[i][n] = inbox[i][n]
                        /\ inbox'[i][L + 1] = msg
<1>1. PICK s \in Seq(Message) : s = inbox[i]
  BY FeedNumbers
<1>2. PICK z : z = Append(s, msg)
  OBVIOUS
<1>3. /\ Len(s) \in Nat /\ DOMAIN s = 1 .. Len(s) /\ DOMAIN z = 1 .. Len(s) + 1
      /\ \A n \in 1 .. Len(s) : z[n] = s[n]
      /\ z[Len(s) + 1] = msg
  BY <1>2
<1> QED BY <1>1, <1>2, <1>3

\* The first message of an inbox is taken.
LEMMA QueueShrinks ==
  ASSUME TypeInv, NEW i \in Conn, inbox[i] # <<>>, inbox'[i] = Tail(inbox[i])
  PROVE  \E L \in Nat : /\ DOMAIN inbox[i] = 1 .. L + 1 /\ DOMAIN inbox'[i] = 1 .. L
                        /\ \A n \in 1 .. L : inbox'[i][n] = inbox[i][n + 1]
                        /\ Head(inbox[i]) = inbox[i][1]
<1>1. PICK s \in Seq(Message) : s = inbox[i]
  BY FeedNumbers
<1>2. PICK z : z = Tail(s)
  OBVIOUS
<1>3. s # <<>>
  BY <1>1
<1>4. Len(s) - 1 \in Nat /\ Len(s) = (Len(s) - 1) + 1 /\ Len(s) \in Nat
  BY <1>3
<1>5. PICK L \in Nat : L = Len(s) - 1 /\ Len(s) = L + 1
  BY <1>4
<1>6. /\ DOMAIN s = 1 .. L + 1 /\ DOMAIN z = 1 .. L /\ Head(s) = s[1]
      /\ \A n \in 1 .. L : z[n] = s[n + 1]
  BY <1>2, <1>3, <1>5
<1> QED BY <1>1, <1>2, <1>6

\* An alert put on the way keeps the inbox in order, and is not handled yet.
LEMMA AlertJoins ==
  ASSUME TypeInv, NEW i \in Conn, InboxOk(i), IsSent(i)
  PROVE  /\ InboxOk(i)' /\ Handled(i)' = Handled(i)
<1>0. PICK copy : /\ inbox'[i] = Append(inbox[i], Alert(copy)) /\ Sent(i)' = Sent(i) \cup {copy.n}
                  /\ copy.n \in Nat /\ \A old \in Sent(i) : old < copy.n
  BY DEF IsSent
<1>1. PICK id \in Nat : /\ id = copy.n /\ inbox'[i] = Append(inbox[i], Alert(copy))
                        /\ Sent(i)' = Sent(i) \cup {id} /\ \A old \in Sent(i) : old < id
  BY <1>0
<1>2. /\ queried'[i] = queried[i] /\ handler'[i] = handler[i] /\ (i \in greeted' <=> i \in greeted)
  BY DEF IsSent
<1>3. PICK L \in Nat : /\ DOMAIN inbox[i] = 1 .. L /\ DOMAIN inbox'[i] = 1 .. L + 1
                       /\ \A n \in 1 .. L : inbox'[i][n] = inbox[i][n]
                       /\ inbox'[i][L + 1] = Alert(copy)
  BY <1>1, QueueGrows
<1>4. Alert(copy).kind = "alert" /\ Alert(copy).copy.n = id
  BY <1>1 DEF Alert
<1>5. Alerts(i)' = Alerts(i) \cup {L + 1} /\ Backlogs(i)' = Backlogs(i) /\ L + 1 \notin Alerts(i)
  <2>1. \A n \in 1 .. L + 1 : n \in 1 .. L \/ n = L + 1
    OBVIOUS
  <2>2. L + 1 \notin 1 .. L /\ 1 .. L \subseteq 1 .. L + 1 /\ L + 1 \in 1 .. L + 1
    OBVIOUS
  <2> QED BY <1>3, <1>4, <2>1, <2>2 DEF Alerts, Backlogs
<1>6. \A n \in Alerts(i) : inbox'[i][n] = inbox[i][n] /\ n \in 1 .. L
  BY <1>3 DEF Alerts
<1>7. Coming(i)' = Coming(i) \cup {id}
  <2>1. Coming(i)' = {inbox'[i][n].copy.n : n \in Alerts(i) \cup {L + 1}}
    BY <1>5 DEF Coming
  <2>2. inbox'[i][L + 1].copy.n = id /\ \A n \in Alerts(i) : inbox'[i][n].copy.n = inbox[i][n].copy.n
    BY <1>3, <1>4, <1>6
  <2> QED BY <2>1, <2>2, SMTT(30) DEF Coming
<1>8. id \notin Sent(i) /\ Sent(i) \subseteq Nat
  BY <1>1, FeedNumbers
<1>9. Coming(i) \subseteq Sent(i)
  BY DEF InboxOk
<1>10. Handled(i)' = Handled(i)
  BY <1>1, <1>7, <1>8, <1>9 DEF Handled
<1>11. ASSUME NEW n \in Alerts(i)', NEW m \in Alerts(i)', n < m
       PROVE  inbox'[i][n].copy.n < inbox'[i][m].copy.n
  <2>1. n \in Alerts(i)
    BY <1>5, <1>6, <1>11
  <2>2. inbox[i][n].copy.n \in Sent(i)
    BY <1>9, <2>1 DEF Coming
  <2>3. CASE m = L + 1
    BY <1>1, <1>3, <1>4, <1>6, <2>1, <2>2, <2>3
  <2>4. CASE m # L + 1
    <3>1. m \in Alerts(i)
      BY <1>5, <2>4
    <3> QED BY <1>6, <1>11, <2>1, <3>1 DEF InboxOk
  <2> QED BY <2>3, <2>4
<1>12. \A new \in Coming(i)', old \in Handled(i)' : old < new
  BY <1>1, <1>7, <1>10 DEF InboxOk, Handled
<1>13. \A n \in Backlogs(i)' : inbox'[i][n] = inbox[i][n] /\ n \in Backlogs(i)
  BY <1>3, <1>5 DEF Backlogs
<1>14. Coming(i)' \subseteq Sent(i)'
  BY <1>1, <1>7, <1>9
<1>15. /\ \A n, m \in Backlogs(i)' : n = m
       /\ \A n \in Backlogs(i)' : inbox'[i][n].rows = Rows(queried'[i]) /\ i \notin greeted' /\ handler'[i] = "reading"
       /\ handler'[i] \in {"querying", "greeting"} => i \notin greeted'
       /\ Climbs(queried'[i])
  BY <1>2, <1>13 DEF InboxOk
<1>16. InboxOk(i)'
  BY <1>11, <1>12, <1>14, <1>15 DEF InboxOk, Climbs
<1> QED BY <1>10, <1>16

\* A backlog put on the way keeps the inbox in order.
LEMMA BacklogJoins ==
  ASSUME TypeInv, NEW i \in Conn, InboxOk(i), IsGreeted(i)
  PROVE  InboxOk(i)' /\ Handled(i)' = Handled(i)
<1> DEFINE msg == [kind |-> "backlog", rows |-> Rows(queried[i])]
<1>1. /\ handler[i] = "greeting" /\ handler'[i] = "reading" /\ inbox'[i] = Append(inbox[i], msg)
      /\ Sent(i)' = Sent(i) /\ queried'[i] = queried[i] /\ (i \in greeted' <=> i \in greeted)
  BY DEF IsGreeted
<1>2. PICK L \in Nat : /\ DOMAIN inbox[i] = 1 .. L /\ DOMAIN inbox'[i] = 1 .. L + 1
                       /\ \A n \in 1 .. L : inbox'[i][n] = inbox[i][n]
                       /\ inbox'[i][L + 1] = msg
  BY <1>1, QueueGrows
<1>3. msg.kind = "backlog" /\ msg.rows = Rows(queried[i])
  OBVIOUS
<1> HIDE DEF msg
<1>4. Backlogs(i) = {} /\ i \notin greeted
  BY <1>1 DEF InboxOk
<1>5. Alerts(i)' = Alerts(i) /\ Backlogs(i)' = {L + 1}
  <2>1. \A n \in 1 .. L + 1 : n \in 1 .. L \/ n = L + 1
    OBVIOUS
  <2>2. 1 .. L \subseteq 1 .. L + 1 /\ L + 1 \in 1 .. L + 1
    OBVIOUS
  <2>3. \A n \in 1 .. L : inbox'[i][n].kind # "backlog"
    BY <1>2, <1>4 DEF Backlogs
  <2> QED BY <1>2, <1>3, <2>1, <2>2, <2>3 DEF Alerts, Backlogs
<1>6. \A n \in Alerts(i) : inbox'[i][n] = inbox[i][n]
  BY <1>2 DEF Alerts
<1>7. Coming(i)' = Coming(i)
  BY <1>5, <1>6 DEF Coming
<1>8. Handled(i)' = Handled(i)
  BY <1>1, <1>7 DEF Handled
<1>9. \A n, m \in Alerts(i)' : n < m => inbox'[i][n].copy.n < inbox'[i][m].copy.n
  BY <1>5, <1>6 DEF InboxOk
<1>10. /\ Coming(i)' \subseteq Sent(i)'
       /\ \A id \in Coming(i)', old \in Handled(i)' : old < id
       /\ Climbs(queried'[i])
  BY <1>1, <1>7, <1>8 DEF InboxOk
<1>11. \A n, m \in Backlogs(i)' : n = m
  BY <1>5
<1>12. \A n \in Backlogs(i)' : inbox'[i][n].rows = Rows(queried'[i]) /\ i \notin greeted' /\ handler'[i] = "reading"
  BY <1>1, <1>2, <1>3, <1>4, <1>5
<1>13. InboxOk(i)'
  BY <1>1, <1>9, <1>10, <1>11, <1>12 DEF InboxOk, Climbs
<1> QED BY <1>8, <1>13

(* The head of the queue leaves it: an alert is then the newest one handled. *)
LEMMA HeadLeaves ==
  ASSUME TypeInv, NEW i \in Conn, InboxOk(i), IsRead(i),
         Head(inbox[i]).kind = "alert" \/ Head(inbox[i]).kind = "backlog"
  PROVE  /\ InboxOk(i)'
         /\ Head(inbox[i]).kind = "alert" =>
              /\ Head(inbox[i]).copy.n \notin Handled(i) /\ \A old \in Handled(i) : old < Head(inbox[i]).copy.n
              /\ Handled(i)' = Handled(i) \cup {Head(inbox[i]).copy.n} /\ Head(inbox[i]).copy.n \in Nat
         /\ Head(inbox[i]).kind = "backlog" =>
              Handled(i)' = Handled(i) /\ Head(inbox[i]).rows = Rows(queried[i]) /\ i \notin greeted
<1>1. /\ inbox[i] # <<>> /\ inbox'[i] = Tail(inbox[i])
      /\ Sent(i)' = Sent(i) /\ queried'[i] = queried[i] /\ handler'[i] = handler[i]
  BY DEF IsRead
<1>2. PICK L \in Nat : /\ DOMAIN inbox[i] = 1 .. L + 1 /\ DOMAIN inbox'[i] = 1 .. L
                       /\ \A n \in 1 .. L : inbox'[i][n] = inbox[i][n + 1]
                       /\ Head(inbox[i]) = inbox[i][1]
  BY <1>1, QueueShrinks
<1>3. 1 \in 1 .. L + 1 /\ \A n \in 1 .. L : n + 1 \in 1 .. L + 1 /\ n + 1 # 1 /\ 1 < n + 1
  OBVIOUS
<1>4. \A m \in 1 .. L + 1 : m = 1 \/ \E n \in 1 .. L : m = n + 1
  <2> SUFFICES ASSUME NEW m \in 1 .. L + 1, m # 1 PROVE \E n \in 1 .. L : m = n + 1
    OBVIOUS
  <2>1. m - 1 \in 1 .. L /\ m = (m - 1) + 1
    OBVIOUS
  <2> QED BY <2>1
<1>5. /\ \A n \in 1 .. L : n \in Alerts(i)' <=> n + 1 \in Alerts(i)
      /\ \A n \in 1 .. L : n \in Backlogs(i)' <=> n + 1 \in Backlogs(i)
      /\ Alerts(i)' \subseteq 1 .. L /\ Backlogs(i)' \subseteq 1 .. L
  BY <1>2, <1>3 DEF Alerts, Backlogs
<1>6. \A n, m \in Alerts(i)' : n < m => inbox'[i][n].copy.n < inbox'[i][m].copy.n
  <2> SUFFICES ASSUME NEW n \in Alerts(i)', NEW m \in Alerts(i)', n < m
               PROVE  inbox'[i][n].copy.n < inbox'[i][m].copy.n
    OBVIOUS
  <2>1. n \in 1 .. L /\ m \in 1 .. L /\ n + 1 \in Alerts(i) /\ m + 1 \in Alerts(i)
    BY <1>5
  <2>2. n + 1 < m + 1
    BY <2>1
  <2> QED BY <1>2, <2>1, <2>2 DEF InboxOk
<1>7. /\ \A n, m \in Backlogs(i)' : n = m
      /\ \A n \in Backlogs(i)' : inbox'[i][n].rows = Rows(queried'[i]) /\ handler'[i] = "reading"
  <2>1. ASSUME NEW n \in Backlogs(i)' PROVE inbox'[i][n].rows = Rows(queried'[i]) /\ handler'[i] = "reading"
    BY <1>1, <1>2, <1>5 DEF InboxOk
  <2>2. ASSUME NEW n \in Backlogs(i)', NEW m \in Backlogs(i)' PROVE n = m
    <3>1. n + 1 = m + 1
      BY <1>5 DEF InboxOk
    <3>2. n \in Nat /\ m \in Nat
      BY <1>5
    <3> QED BY <3>1, <3>2
  <2> QED BY <2>1, <2>2
<1>8. Climbs(queried'[i])
  BY <1>1 DEF InboxOk
<1>9. Coming(i) \subseteq Sent(i) /\ Sent(i) \subseteq Nat
  BY FeedNumbers DEF InboxOk
<1>10. CASE Head(inbox[i]).kind = "alert"
  <2>1. PICK id : id = inbox[i][1].copy.n
    OBVIOUS
  <2>2. 1 \in Alerts(i) /\ id \in Coming(i) /\ id \in Nat
    <3>1. 1 \in Alerts(i)
      BY <1>2, <1>3, <1>10 DEF Alerts
    <3> QED BY <1>9, <2>1, <3>1 DEF Coming
  <2>3. \A n \in Alerts(i)' : inbox'[i][n] = inbox[i][n + 1] /\ n + 1 \in Alerts(i) /\ id < inbox[i][n + 1].copy.n
    BY <1>2, <1>3, <1>5, <2>1, <2>2 DEF InboxOk
  <2>4. Coming(i)' = Coming(i) \ {id}
    <3>1. ASSUME NEW x \in Coming(i)' PROVE x \in Coming(i) \ {id}
      <4>1. PICK n \in Alerts(i)' : x = inbox'[i][n].copy.n
        BY DEF Coming
      <4>2. x \in Coming(i) /\ id < x
        BY <2>3, <4>1 DEF Coming
      <4> QED BY <1>9, <2>2, <4>2
    <3>2. ASSUME NEW x \in Coming(i), x # id PROVE x \in Coming(i)'
      <4>1. PICK m \in Alerts(i) : x = inbox[i][m].copy.n
        BY DEF Coming
      <4>2. m \in 1 .. L + 1 /\ m # 1
        BY <1>2, <2>1, <3>2, <4>1 DEF Alerts
      <4>3. PICK n \in 1 .. L : m = n + 1
        BY <1>4, <4>2
      <4>4. n \in Alerts(i)' /\ x = inbox'[i][n].copy.n
        BY <1>2, <1>5, <4>1, <4>3
      <4> QED BY <4>4 DEF Coming
    <3> QED BY <3>1, <3>2
  <2>5. Handled(i)' = Handled(i) \cup {id} /\ id \notin Handled(i)
    BY <1>1, <1>9, <2>2, <2>4 DEF Handled
  <2>6. \A old \in Handled(i) : old < id
    BY <2>2 DEF InboxOk
  <2>7. \A x \in Coming(i)' : id < x
    <3> SUFFICES ASSUME NEW x \in Coming(i)' PROVE id < x
      OBVIOUS
    <3>1. PICK n \in Alerts(i)' : x = inbox'[i][n].copy.n
      BY DEF Coming
    <3> QED BY <2>3, <3>1
  <2>8. \A x \in Coming(i)', old \in Handled(i)' : old < x
    BY <2>4, <2>5, <2>7 DEF InboxOk
  <2>9. Coming(i)' \subseteq Sent(i)'
    BY <1>1, <1>9, <2>4
  <2>10. i \in greeted' <=> i \in greeted
    BY <1>10 DEF IsRead
  <2>11. /\ \A n \in Backlogs(i)' : i \notin greeted'
         /\ handler'[i] \in {"querying", "greeting"} => i \notin greeted'
    BY <1>1, <1>5, <2>10 DEF InboxOk
  <2>12. InboxOk(i)'
    BY <1>6, <1>7, <1>8, <2>8, <2>9, <2>11 DEF InboxOk, Climbs
  <2> QED BY <1>2, <1>10, <2>1, <2>2, <2>5, <2>6, <2>12
<1>11. CASE Head(inbox[i]).kind = "backlog"
  <2>1. 1 \in Backlogs(i) /\ 1 \notin Alerts(i)
    BY <1>2, <1>3, <1>11 DEF Backlogs, Alerts
  <2>2. inbox[i][1].rows = Rows(queried[i]) /\ i \notin greeted /\ handler[i] = "reading"
    BY <2>1 DEF InboxOk
  <2>3. Backlogs(i)' = {}
    <3>1. \A n \in Backlogs(i)' : n + 1 = 1
      BY <1>5, <2>1 DEF InboxOk
    <3> QED BY <1>3, <1>5, <3>1
  <2>4. Coming(i)' = Coming(i)
    <3>1. \A n \in Alerts(i)' : inbox'[i][n] = inbox[i][n + 1] /\ n + 1 \in Alerts(i)
      BY <1>2, <1>5
    <3>2. \A m \in Alerts(i) : \E n \in Alerts(i)' : inbox'[i][n] = inbox[i][m]
      <4> SUFFICES ASSUME NEW m \in Alerts(i) PROVE \E n \in Alerts(i)' : inbox'[i][n] = inbox[i][m]
        OBVIOUS
      <4>1. m \in 1 .. L + 1 /\ m # 1
        BY <1>2, <2>1 DEF Alerts
      <4>2. PICK n \in 1 .. L : m = n + 1
        BY <1>4, <4>1
      <4> QED BY <1>2, <1>5, <4>2
    <3>3. \A x : x \in Coming(i)' => x \in Coming(i)
      BY <3>1 DEF Coming
    <3>4. \A x : x \in Coming(i) => x \in Coming(i)'
      BY <3>2 DEF Coming
    <3> QED BY <3>3, <3>4
  <2>5. Handled(i)' = Handled(i)
    BY <1>1, <2>4 DEF Handled
  <2>6. /\ Coming(i)' \subseteq Sent(i)'
        /\ \A x \in Coming(i)', old \in Handled(i)' : old < x
    BY <1>1, <2>4, <2>5 DEF InboxOk
  <2>7. handler'[i] \notin {"querying", "greeting"}
    BY <1>1, <2>2
  <2>8. InboxOk(i)'
    BY <1>6, <1>7, <1>8, <2>3, <2>6, <2>7 DEF InboxOk, Climbs
  <2> QED BY <1>2, <1>11, <2>2, <2>5, <2>8
<1> QED BY <1>10, <1>11

Changes(i) ==
  Quiet(i) \/ IsSent(i) \/ IsQueried(i) \/ IsGreeted(i) \/ IsEnded(i)
    \/ (IsRead(i) /\ \E tab \in Tab : socket[tab] = i /\ Receive(tab))

\* The next message is an alert or a backlog.
LEMMA HeadKinds ==
  ASSUME TypeInv, NEW i \in Conn, inbox[i] # <<>>
  PROVE  Head(inbox[i]).kind = "alert" \/ Head(inbox[i]).kind = "backlog"
<1>1. PICK s \in Seq(Message) : s = inbox[i]
  BY FeedNumbers
<1>2. Head(s) \in Message
  BY <1>1
<1>3. \A m \in Message : m.kind = "alert" \/ m.kind = "backlog"
  BY DEF Message
<1> QED BY <1>1, <1>2, <1>3

\* Whatever happens to a connection keeps its inbox in order.
LEMMA ChangeKeepsInbox ==
  ASSUME TypeInv, NEW i \in Conn, InboxOk(i), Changes(i)
  PROVE  InboxOk(i)'
<1>1. CASE Quiet(i)
  <2>1. Alerts(i)' = Alerts(i) /\ Backlogs(i)' = Backlogs(i) /\ Coming(i)' = Coming(i)
    BY <1>1, QuietKeeps DEF Quiet
  <2>2. Handled(i)' = Handled(i)
    BY <1>1, <2>1 DEF Quiet, Handled
  <2>3. CASE handler'[i] = handler[i]
    BY <1>1, <2>1, <2>2, <2>3 DEF Quiet, InboxOk, Climbs
  <2>4. CASE handler[i] # "reading" /\ i \notin greeted
    <3>1. Backlogs(i) = {}
      BY <2>4 DEF InboxOk
    <3> QED BY <1>1, <2>1, <2>2, <2>4, <3>1 DEF Quiet, InboxOk, Climbs
  <2> QED BY <1>1, <2>3, <2>4 DEF Quiet
<1>2. CASE IsSent(i)
  BY <1>2, AlertJoins
<1>3. CASE IsQueried(i)
  <2>1. Alerts(i)' = Alerts(i) /\ Backlogs(i)' = Backlogs(i) /\ Coming(i)' = Coming(i)
    BY <1>3, QuietKeeps DEF IsQueried
  <2>2. Handled(i)' = Handled(i)
    BY <1>3, <2>1 DEF IsQueried, Handled
  <2>3. Backlogs(i) = {} /\ i \notin greeted
    BY <1>3 DEF IsQueried, InboxOk
  <2> QED BY <1>3, <2>1, <2>2, <2>3 DEF IsQueried, InboxOk, Climbs
<1>4. CASE IsGreeted(i)
  BY <1>4, BacklogJoins
<1>5. CASE IsEnded(i)
  <2>1. Alerts(i)' = {} /\ Backlogs(i)' = {}
    BY <1>5 DEF IsEnded, Alerts, Backlogs
  <2>2. Coming(i)' = {}
    BY <2>1 DEF Coming
  <2>3. Climbs(queried'[i])
    <3>1. Climbs(<<>>)
      BY DEF Climbs
    <3> QED BY <1>5, <3>1 DEF IsEnded, InboxOk, Climbs
  <2> QED BY <1>5, <2>1, <2>2, <2>3 DEF IsEnded, InboxOk, Climbs
<1>6. CASE IsRead(i)
  BY <1>6, HeadKinds, HeadLeaves DEF IsRead
<1> QED BY <1>1, <1>2, <1>3, <1>4, <1>5, <1>6 DEF Changes
-----------------------------------------------------------------------------
(* Every step does one of these things to a connection. *)

\* what was sent stays sent
LEMMA SentStays ==
  ASSUME NEW i \in Conn, delivered'[i] = delivered[i]
  PROVE  Sent(i)' = Sent(i)
BY DEF Sent

\* A connection that is closed.
LEMMA ConnectionEnds ==
  ASSUME TypeInv, NEW S, Close(S), NEW i \in Conn, i \in S,
         queried'[i] = queried[i] \/ queried'[i] = <<>>
  PROVE  IsEnded(i)
<1>1. inbox'[i] = <<>> /\ delivered'[i] = <<>> /\ i \notin greeted'
  BY DEF Close
<1>2. Sent(i)' = {}
  BY <1>1 DEF Sent
<1>3. \A tab \in Tab : socket'[tab] # i
  BY Conns DEF Close, Sockets
<1> QED BY <1>1, <1>2, <1>3 DEF IsEnded

\* A connection that is not among those closed.
LEMMA OthersStay ==
  ASSUME TypeInv, [Next]_vars, NEW S, Close(S), NEW i \in Conn, i \notin S,
         queried'[i] = queried[i], handler'[i] = handler[i]
  PROVE  Quiet(i)
<1>1. /\ inbox'[i] = inbox[i] /\ delivered'[i] = delivered[i] /\ early'[i] = early[i]
      /\ (i \in greeted' <=> i \in greeted)
  BY DEF Close
<1> QED BY <1>1, SentStays DEF Quiet

(* A message the relay sends is newer than all it has sent on that connection. *)
LEMMA RelayAdds ==
  ASSUME TypeInv, RelaySent("alerts"), NEW i \in Conn,
         i = relay["alerts"].at, i \in open
  PROVE  IsSent(i)
<1>1. PICK k : k = relay["alerts"].next - 1
  OBVIOUS
<1>2. PICK S, s : s \in Seq(S) /\ s = delivered[i]
  BY DEF TypeInv, TypeOK
<1>3. PICK L \in Nat : L = Len(s)
  BY <1>2
<1>4. PICK z : z = Append(s, k)
  OBVIOUS
<1>5. Len(z) = L + 1 /\ z[L + 1] = k
  BY <1>2, <1>3, <1>4
<1>6. PICK copy : copy = [n |-> L + 1, of |-> log["alerts"][k]]
  OBVIOUS
<1>7. /\ inbox'[i] = Append(inbox[i], Alert(copy)) /\ delivered'[i] = z /\ log' = log
  <2>1. /\ inbox' = [inbox EXCEPT ![i] = Append(@, [kind |-> "alert", copy |->
                       [n |-> Len(delivered[i]) + 1, of |-> log["alerts"][k]]])]
        /\ delivered' = [delivered EXCEPT ![i] = Append(@, k)]
        /\ log' = log
    BY <1>1 DEF RelaySent, pipelineVars
  <2>2. Len(delivered[i]) = L
    BY <1>2, <1>3
  <2>3. inbox' = [inbox EXCEPT ![i] = Append(@, Alert(copy))]
    BY <1>6, <2>1, <2>2 DEF Alert
  <2> QED BY <1>2, <1>4, <2>1, <2>3 DEF TypeInv, TypeOK
<1>8. Sent(i) = 1 .. L /\ Sent(i)' = 1 .. L + 1 /\ copy.n = L + 1
  BY <1>2, <1>3, <1>5, <1>6, <1>7 DEF Sent
<1>9. Sent(i)' = Sent(i) \cup {copy.n} /\ copy.n \in Nat /\ \A old \in Sent(i) : old < copy.n
  <2>1. 1 .. L + 1 = 1 .. L \cup {L + 1} /\ \A old \in 1 .. L : old < L + 1
    OBVIOUS
  <2> QED BY <1>8, <2>1
<1>10. Genuine(i, copy)'
  BY <1>5, <1>6, <1>7, <1>8, <1>9 DEF Genuine
<1>11. /\ queried'[i] = queried[i] /\ handler'[i] = handler[i]
       /\ early'[i] = early[i] /\ (i \in greeted' <=> i \in greeted)
  BY DEF RelaySent, tabVars
<1> QED BY <1>7, <1>9, <1>10, <1>11 DEF IsSent

\* What a step does to one connection.
LEMMA StepChanges ==
  ASSUME TypeInv, LinkInv, [Next]_vars, NEW i \in Conn, InboxOk(i)
  PROVE  Changes(i)
<1>0. /\ handler \in [Conn -> {"none", "querying", "greeting", "reading", "done"}]
      /\ inbox \in [Conn -> Seq(Message)] /\ socket \in [Tab -> open \cup {NoConn}]
      /\ open \subseteq clients /\ clients \subseteq Known /\ ClosedIsEmpty
      /\ DOMAIN queried = Conn /\ DOMAIN delivered = Conn /\ DOMAIN early = Conn
  BY LinkParts DEF TypeInv, TypeOK
<1>q. ASSUME inbox'[i] = inbox[i], delivered'[i] = delivered[i], queried'[i] = queried[i],
             early'[i] = early[i], i \in greeted' <=> i \in greeted,
             handler'[i] = handler[i] \/ (handler[i] # "reading" /\ i \notin greeted)
      PROVE  Changes(i)
  BY <1>q, SentStays DEF Quiet, Changes
<1>1. CASE MakeAlert \/ StoreAlert \/ MergeRows \/ MakeMetrics \/ UNCHANGED vars
  BY <1>1, <1>q DEF MakeAlert, StoreAlert, MergeRows, MakeMetrics, vars, gatewayVars, tabVars
<1>2. ASSUME NEW t \in Topic, RelayStep(t) PROVE Changes(i)
  <2>1. CASE RelayTake(t)
    BY <1>q, <2>1 DEF RelayTake, tabVars
  <2>2. CASE RelaySent(t) /\ t = "alerts" /\ i = relay[t].at /\ i \in open
    BY <2>2, RelayAdds DEF Changes
  <2>3. CASE RelaySent(t) /\ ~(t = "alerts" /\ i = relay[t].at /\ i \in open)
    <3>1. inbox'[i] = inbox[i] /\ delivered'[i] = delivered[i]
      BY <1>0, <2>3 DEF RelaySent
    <3>2. UNCHANGED <<handler, queried, early, greeted>>
      BY <2>3 DEF RelaySent, tabVars
    <3> QED BY <1>q, <3>1, <3>2
  <2> QED BY <1>2, <2>1, <2>2, <2>3 DEF RelayStep
<1>3. ASSUME NEW j \in Conn, QueryBacklog(j) PROVE Changes(i)
  <2>1. UNCHANGED <<delivered, early, greeted, inbox>>
    BY <1>3 DEF QueryBacklog, tabVars
  <2>2. CASE i # j
    <3>1. queried'[i] = queried[i] /\ handler'[i] = handler[i]
      BY <1>0, <1>3, <2>2 DEF QueryBacklog
    <3> QED BY <1>q, <2>1, <3>1
  <2>3. CASE i = j
    <3>1. handler[i] = "querying" /\ handler'[i] = "greeting" /\ queried'[i] = Newest(table, BacklogSize)
      BY <1>0, <1>3, <2>3 DEF QueryBacklog
    <3>2. Climbs(Newest(table, BacklogSize))
      <4>1. made \in Nat /\ table \subseteq 1 .. made
        BY BoundTypes DEF TypeInv, TypeOK
      <4> QED BY <4>1, NewestSorts DEF Climbs
    <3>3. Sent(i)' = Sent(i)
      BY <2>1, SentStays
    <3> QED BY <2>1, <3>1, <3>2, <3>3 DEF IsQueried, Climbs, Changes
  <2> QED BY <2>2, <2>3
<1>4. ASSUME NEW j \in Conn, QueryRefused(j) PROVE Changes(i)
  <2>1. UNCHANGED <<delivered, early, greeted, inbox, queried>>
    BY <1>4 DEF QueryRefused, tabVars
  <2>2. CASE i # j
    <3>1. handler'[i] = handler[i]
      BY <1>0, <1>4, <2>2 DEF QueryRefused
    <3> QED BY <1>q, <2>1, <3>1
  <2>3. CASE i = j
    <3>1. handler[i] = "querying" /\ i \notin greeted
      BY <1>4, <2>3 DEF QueryRefused, InboxOk
    <3> QED BY <1>q, <2>1, <3>1
  <2> QED BY <2>2, <2>3
<1>5. ASSUME NEW j \in Conn, SendBacklog(j) PROVE Changes(i)
  <2>1. UNCHANGED <<delivered, early, greeted, queried>>
    BY <1>5 DEF SendBacklog, tabVars
  <2>2. CASE i # j
    <3>1. handler'[i] = handler[i] /\ inbox'[i] = inbox[i]
      BY <1>0, <1>5, <2>2 DEF SendBacklog
    <3> QED BY <1>q, <2>1, <3>1
  <2>3. CASE i = j
    <3>1. /\ handler[i] = "greeting" /\ handler'[i] = "reading"
          /\ inbox'[i] = Append(inbox[i], [kind |-> "backlog", rows |-> Rows(queried[i])])
      BY <1>0, <1>5, <2>3 DEF SendBacklog
    <3>2. Sent(i)' = Sent(i)
      BY <2>1, SentStays
    <3> QED BY <2>1, <3>1, <3>2 DEF IsGreeted, Changes
  <2> QED BY <2>2, <2>3
<1>6. ASSUME NEW j \in Conn, HandlerEnds(j) PROVE Changes(i)
  <2>1. /\ Close({j}) /\ handler' = [handler EXCEPT ![j] = "done"] /\ queried' = [queried EXCEPT ![j] = <<>>]
    BY <1>6 DEF HandlerEnds
  <2>2. CASE i # j
    <3>1. handler'[i] = handler[i] /\ queried'[i] = queried[i] /\ i \notin {j}
      BY <1>0, <2>1, <2>2
    <3> QED BY <2>1, <3>1, OthersStay DEF Changes
  <2>3. CASE i = j
    <3>1. queried'[i] = <<>> /\ i \in {j}
      BY <1>0, <2>1, <2>3
    <3> QED BY <2>1, <3>1, ConnectionEnds DEF Changes
  <2> QED BY <2>2, <2>3
<1>7. ASSUME NEW tab \in Tab, Connect(tab) PROVE Changes(i)
  <2>1. UNCHANGED <<queried, delivered, greeted, early, inbox>>
    BY <1>7 DEF Connect
  <2>2. PICK j \in Conn : handler[j] = "none" /\ handler' = [handler EXCEPT ![j] = "querying"]
    BY <1>7 DEF Connect
  <2>3. CASE i # j
    <3>1. handler'[i] = handler[i]
      BY <1>0, <2>2, <2>3
    <3> QED BY <1>q, <2>1, <3>1
  <2>4. CASE i = j
    <3>1. handler[i] = "none" /\ i \notin open /\ i \notin greeted
      BY <1>0, <2>2, <2>4 DEF Known, ClosedIsEmpty
    <3> QED BY <1>q, <2>1, <3>1
  <2> QED BY <2>3, <2>4
<1>8. ASSUME NEW tab \in Tab, Drop(tab) PROVE Changes(i)
  <2>1. Close({socket[tab]}) /\ UNCHANGED <<handler, queried>>
    BY <1>8 DEF Drop
  <2>2. CASE i \notin {socket[tab]}
    BY <2>1, <2>2, OthersStay DEF Changes
  <2>3. CASE i \in {socket[tab]}
    BY <2>1, <2>3, ConnectionEnds DEF Changes
  <2> QED BY <2>2, <2>3
<1>9. CASE Restart
  <2>1. Close(Conn) /\ queried'[i] = <<>>
    BY <1>9 DEF Restart
  <2> QED BY <2>1, ConnectionEnds DEF Changes
<1>10. ASSUME NEW tab \in Tab, Receive(tab) PROVE Changes(i)
  <2>1. UNCHANGED <<delivered, queried, handler>>
    BY <1>10 DEF Receive, gatewayVars
  <2>2. PICK j : j = socket[tab]
    OBVIOUS
  <2>3. /\ inbox[j] # <<>> /\ inbox' = [inbox EXCEPT ![j] = Tail(@)]
        /\ \/ Head(inbox[j]).kind = "backlog" /\ greeted' = greeted \cup {j} /\ early' = early
           \/ /\ Head(inbox[j]).kind = "alert" /\ greeted' = greeted
              /\ early' = IF j \in greeted THEN early
                          ELSE [early EXCEPT ![j] = @ \cup {Head(inbox[j]).copy.n}]
    BY <1>10, <2>2 DEF Receive
  <2>4. CASE i # j
    <3>1. inbox'[i] = inbox[i] /\ early'[i] = early[i] /\ (i \in greeted' <=> i \in greeted)
      BY <1>0, <2>3, <2>4
    <3> QED BY <1>q, <2>1, <3>1
  <2>5. CASE i = j
    <3>1. /\ inbox[i] # <<>> /\ inbox'[i] = Tail(inbox[i])
          /\ Head(inbox[i]).kind = "alert" => greeted' = greeted
      BY <1>0, <2>3, <2>5
    <3>2. Sent(i)' = Sent(i)
      BY <2>1, SentStays
    <3>3. IsRead(i)
      BY <2>1, <3>1, <3>2 DEF IsRead
    <3> QED BY <1>10, <2>2, <2>5, <3>3 DEF Changes
  <2> QED BY <2>4, <2>5
<1>11. ASSUME NEW t \in Topic, RelayEnds(t) PROVE Changes(i)
  BY <1>q, <1>11 DEF RelayEnds, tabVars
<1> QED BY <1>1, <1>2, <1>3, <1>4, <1>5, <1>6, <1>7, <1>8, <1>9, <1>10, <1>11 DEF Next

\* Every step keeps the inboxes in order.
LEMMA InboxStep ==
  ASSUME TypeInv, LinkInv, InboxInv, [Next]_vars
  PROVE  InboxInv'
<1> SUFFICES ASSUME NEW i \in Conn PROVE InboxOk(i)'
  BY DEF InboxInv
<1>1. InboxOk(i)
  BY DEF InboxInv
<1> QED BY <1>1, StepChanges, ChangeKeepsInbox

\* The inboxes are in order always.
LEMMA InboxInvariant == Spec => []InboxInv
<1>1. Init => InboxInv
  <2> SUFFICES ASSUME Init, NEW i \in Conn PROVE InboxOk(i)
    BY DEF InboxInv
  <2>1. inbox[i] = <<>> /\ queried[i] = <<>> /\ greeted = {} /\ handler[i] = "none"
    BY DEF Init
  <2>2. Alerts(i) = {} /\ Backlogs(i) = {}
    BY <2>1 DEF Alerts, Backlogs
  <2>3. Coming(i) = {}
    BY <2>2 DEF Coming
  <2> QED BY <2>1, <2>2, <2>3 DEF InboxOk, Climbs
<1> QED BY <1>1, InboxStep, TypeInvariant, LinkInvariant, PTL DEF Spec
-----------------------------------------------------------------------------
(* What a tab shows *)

\* A screen stays a page when a newer alert is put on top.
LEMMA AlertOnTop ==
  ASSUME NEW S, \A c \in S : c.n \in Nat /\ c.of \in Nat, NEW s \in Seq(S), NEW copy \in S,
         NEW handled \in SUBSET Nat, NEW rows, NEW before,
         Shows(s, handled, rows, before), \A old \in handled : old < copy.n, copy.n \notin before
  PROVE  Shows(WithAlert(s, copy), handled \cup {copy.n}, rows, before)
<1>0. PICK id \in Nat : id = copy.n /\ id \notin before /\ \A old \in handled : old < id
  OBVIOUS
<1>1. PICK K \in Nat : K = MaxShown /\ K >= 1
  BY BoundTypes
<1>2. PICK L \in Nat : L = Len(s) /\ L <= K
  BY <1>1 DEF Shows
<1>3. PICK cut \in 0 .. L : Page(s, cut, handled, rows, before)
  BY <1>2 DEF Shows
<1>4. PICK z : z = WithAlert(s, copy)
  OBVIOUS
<1>5. PICK N \in Nat : N = Least(L + 1, K) /\ N <= K /\ N <= L + 1 /\ 1 <= N /\ (L < K => N = L + 1) /\ (L = K => N = K)
  BY <1>1, <1>2 DEF Least
<1>6. /\ Len(z) = N /\ z[1].n = id
      /\ \A n \in 2 .. N : z[n] = s[n - 1]
  <2>2. /\ Len(WithAlert(s, copy)) = Least(Len(s) + 1, MaxShown) /\ WithAlert(s, copy)[1] = copy
        /\ \A n \in 1 .. Len(s) : n < MaxShown => WithAlert(s, copy)[n + 1] = s[n]
    BY AlertShown
  <2>3. Len(z) = Least(L + 1, K) /\ z[1] = copy /\ \A n \in 1 .. L : n < K => z[n + 1] = s[n]
    BY <1>1, <1>2, <1>4, <2>2
  <2>4. ASSUME NEW n \in 2 .. N PROVE z[n] = s[n - 1]
    <3>1. n - 1 \in 1 .. L /\ n - 1 < K /\ (n - 1) + 1 = n
      BY <1>5
    <3> QED BY <2>3, <3>1
  <2> QED BY <1>0, <1>5, <2>3, <2>4
<1>7. /\ \A n \in 1 .. L : s[n].n \in Nat /\ s[n].of \in Nat
      /\ \A n \in 2 .. N : n - 1 \in 1 .. L /\ n - 1 \in Nat
      /\ \A n \in 1 .. N : n = 1 \/ n \in 2 .. N
      /\ id \in Nat /\ cut \in Nat /\ cut <= L
  <2>1. \A n \in 1 .. L : s[n] \in S
    BY <1>2
  <2> QED BY <1>2, <1>5, <2>1
<1>8. PICK c \in Nat : c = Least(cut + 1, K) /\ c <= N /\ c <= cut + 1 /\ 1 <= c /\ (cut < K => c = cut + 1) /\ (~(cut < K) => c = K) /\ c <= K
  BY <1>1, <1>2, <1>5, <1>7 DEF Least
<1>9. /\ \A n \in 1 .. cut : s[n].n \in handled \ before
      /\ \A n, m \in 1 .. cut : n < m => s[n].n > s[m].n
      /\ \A n \in cut + 1 .. L : s[n].n = 0 /\ s[n].of \in rows
      /\ \A n, m \in cut + 1 .. L : n < m => s[n].of > s[m].of
      /\ \A old \in handled \ before : \/ \E n \in 1 .. cut : s[n].n = old
                                       \/ L = K /\ \A n \in 1 .. L : s[n].n > old
      /\ (\A r \in rows : \E n \in 1 .. L : s[n].n = 0 /\ s[n].of = r) \/ L = K
  BY <1>1, <1>2, <1>3 DEF Page
<1>10. \A n \in 2 .. c : n \in 2 .. N /\ n - 1 \in 1 .. cut /\ n - 1 \in Nat
  BY <1>7, <1>8
<1>11. \A n \in 1 .. c : n = 1 \/ n \in 2 .. c
  BY <1>8
<1>12. \A n \in 1 .. c : z[n].n \in (handled \cup {id}) \ before
  <2> SUFFICES ASSUME NEW n \in 1 .. c PROVE z[n].n \in (handled \cup {id}) \ before
    OBVIOUS
  <2>1. CASE n = 1
    BY <1>0, <1>6, <2>1
  <2>2. CASE n \in 2 .. c
    BY <1>6, <1>9, <1>10, <2>2
  <2> QED BY <1>11, <2>1, <2>2
<1>13. ASSUME NEW n \in 1 .. c, NEW m \in 1 .. c, n < m PROVE z[n].n > z[m].n
  <2>1. m \in 2 .. c
    BY <1>11, <1>13
  <2>2. z[m] = s[m - 1] /\ s[m - 1].n \in handled
    BY <1>6, <1>9, <1>10, <2>1
  <2>3. CASE n = 1
    <3>1. z[m].n \in Nat /\ z[m].n < id
      BY <1>0, <2>2
    <3> QED BY <1>6, <1>7, <2>3, <3>1
  <2>4. CASE n \in 2 .. c
    <3>1. z[n] = s[n - 1] /\ n - 1 \in 1 .. cut /\ m - 1 \in 1 .. cut
      BY <1>6, <1>10, <2>1, <2>4
    <3>2. n - 1 < m - 1
      BY <1>8, <1>13
    <3> QED BY <1>9, <2>2, <3>1, <3>2
  <2> QED BY <1>11, <2>3, <2>4
<1>14. \A n \in c + 1 .. N : n \in 2 .. N /\ n - 1 \in cut + 1 .. L /\ z[n] = s[n - 1]
  <2> SUFFICES ASSUME NEW n \in c + 1 .. N PROVE n \in 2 .. N /\ n - 1 \in cut + 1 .. L
    BY <1>6
  <2>1. cut < K
    <3>1. c < K
      BY <1>5, <1>8
    <3> QED BY <1>8, <3>1
  <2> QED BY <1>5, <1>7, <1>8, <2>1
<1>15. \A n \in c + 1 .. N : z[n].n = 0 /\ z[n].of \in rows
  BY <1>9, <1>14
<1>16. ASSUME NEW n \in c + 1 .. N, NEW m \in c + 1 .. N, n < m PROVE z[n].of > z[m].of
  <2>1. n - 1 < m - 1
    BY <1>8, <1>16
  <2> QED BY <1>9, <1>14, <2>1
<1>17. ASSUME NEW old \in (handled \cup {id}) \ before
       PROVE  \/ \E n \in 1 .. c : z[n].n = old
              \/ N = K /\ \A n \in 1 .. N : z[n].n > old
  <2>1. CASE old = id
    BY <1>6, <1>8, <2>1
  <2>2. CASE old \in handled /\ \E n \in 1 .. cut : s[n].n = old
    <3>1. PICK n \in 1 .. cut : s[n].n = old
      BY <2>2
    <3>2. CASE n + 1 <= c
      <4>1. n + 1 \in 2 .. c /\ n + 1 \in 1 .. c /\ (n + 1) - 1 = n
        BY <1>8, <3>2
      <4>2. z[n + 1] = s[(n + 1) - 1]
        BY <1>6, <1>10, <4>1
      <4> QED BY <3>1, <4>1, <4>2
    <3>3. CASE ~(n + 1 <= c)
      <4>1. n = K /\ cut = K /\ L = K /\ N = K /\ c = K
        <5>1. \A a, b, d, e, k, l \in Nat :
                (a <= b /\ b <= l /\ l <= k /\ ~(a + 1 <= d) /\ (b < k => d = b + 1) /\ d <= k) =>
                  ~(b < k) /\ b = k /\ l = k
          OBVIOUS
        <5>2. cut = K /\ L = K
          BY <1>2, <1>7, <1>8, <3>3, <5>1
        <5>3. c = K /\ N = K
          BY <1>1, <1>5, <1>8, <5>2 DEF Least
        <5>4. n = K
          BY <3>3, <5>2, <5>3
        <5> QED BY <5>2, <5>3, <5>4
      <4>2. ASSUME NEW m \in 1 .. N PROVE z[m].n > old
        <5>1. CASE m = 1
          <6>1. old \in Nat /\ old < id
            BY <1>0, <2>2
          <6> QED BY <1>6, <1>7, <5>1, <6>1
        <5>2. CASE m \in 2 .. N
          <6>1. m - 1 \in 1 .. cut /\ m - 1 < n /\ n \in 1 .. cut
            BY <4>1, <5>2
          <6> QED BY <1>6, <1>9, <3>1, <5>2, <6>1
        <5> QED BY <1>7, <5>1, <5>2
      <4> QED BY <4>1, <4>2
    <3> QED BY <3>2, <3>3
  <2>3. CASE old \in handled /\ L = K /\ \A n \in 1 .. L : s[n].n > old
    <3>1. N = K
      BY <1>5, <2>3
    <3>2. ASSUME NEW m \in 1 .. N PROVE z[m].n > old
      <4>1. CASE m = 1
        <5>1. old \in Nat /\ old < id
          BY <1>0, <2>3
        <5> QED BY <1>6, <1>7, <4>1, <5>1
      <4>2. CASE m \in 2 .. N
        BY <1>6, <1>7, <2>3, <4>2
      <4> QED BY <1>7, <4>1, <4>2
    <3> QED BY <3>1, <3>2
  <2> QED BY <1>9, <1>17, <2>1, <2>2, <2>3
<1>18. (\A r \in rows : \E n \in 1 .. N : z[n].n = 0 /\ z[n].of = r) \/ N = K
  <2>1. CASE L = K
    BY <1>5, <2>1
  <2>2. CASE L < K
    <3>1. N = L + 1
      BY <1>5, <2>2
    <3>2. ASSUME NEW r \in rows PROVE \E n \in 1 .. N : z[n].n = 0 /\ z[n].of = r
      <4>1. PICK n \in 1 .. L : s[n].n = 0 /\ s[n].of = r
        BY <1>9, <2>2
      <4>2. n + 1 \in 2 .. N /\ n + 1 \in 1 .. N /\ (n + 1) - 1 = n
        BY <3>1, <4>1
      <4>3. z[n + 1] = s[(n + 1) - 1]
        BY <1>6, <4>2
      <4> QED BY <4>1, <4>2, <4>3
    <3> QED BY <3>2
  <2> QED BY <1>2, <2>1, <2>2
<1>19. Page(z, c, handled \cup {id}, rows, before)
  BY <1>1, <1>6, <1>12, <1>13, <1>15, <1>16, <1>17, <1>18 DEF Page
<1>20. c \in 0 .. N
  BY <1>8
<1> QED BY <1>0, <1>1, <1>4, <1>5, <1>6, <1>19, <1>20 DEF Shows

\* A backlog that replaces the screen is a page.
LEMMA BacklogOnPage ==
  ASSUME NEW S \in SUBSET Nat, NEW data \in Seq(S), Climbs(data), NEW prev,
         NEW copies, Len(copies) = Len(data), NEW T, copies \in Seq(T),
         \A p \in 1 .. Len(data) : copies[p].n = 0 /\ copies[p].of = data[p],
         NEW before, NEW handled \in SUBSET before
  PROVE  Shows(FromBacklog(prev, copies), handled, {data[n] : n \in DOMAIN data}, before)
<1>1. PICK K \in Nat : K = MaxShown /\ K >= 1
  BY BoundTypes
<1>2. PICK L \in Nat : L = Len(data)
  OBVIOUS
<1>3. PICK N \in Nat : N = Least(L, K) /\ N <= K /\ N <= L /\ (L <= K => N = L) /\ (~(L <= K) => N = K)
  BY <1>1, <1>2 DEF Least
<1>4. PICK z : z = FromBacklog(prev, copies)
  OBVIOUS
<1>7. \A n \in 1 .. N : L - n + 1 \in 1 .. L
  BY <1>3
<1>5. Len(z) = N /\ \A n \in 1 .. N : z[n].n = 0 /\ z[n].of = data[L - n + 1]
  <2>1. /\ Len(FromBacklog(prev, copies)) = Least(Len(copies), MaxShown)
        /\ \A n \in 1 .. Least(Len(copies), MaxShown) :
             FromBacklog(prev, copies)[n] = copies[Len(copies) - n + 1]
    BY BacklogShown
  <2>2. Len(z) = N /\ \A n \in 1 .. N : z[n] = copies[L - n + 1]
    BY <1>1, <1>2, <1>3, <1>4, <2>1
  <2> QED BY <1>2, <1>7, <2>2
<1>6. DOMAIN data = 1 .. L /\ \A n \in 1 .. L : data[n] \in Nat
  <2>1. \A X : \A x \in Seq(X) : DOMAIN x = 1 .. Len(x) /\ \A n \in DOMAIN x : x[n] \in X
    OBVIOUS
  <2>2. DOMAIN data = 1 .. L /\ \A n \in 1 .. L : data[n] \in S
    BY <1>2, <2>1
  <2> QED BY <2>2
<1>8. ASSUME NEW n \in 0 + 1 .. N, NEW m \in 0 + 1 .. N, n < m PROVE z[n].of > z[m].of
  <2>1. /\ n \in 1 .. N /\ m \in 1 .. N
        /\ L - m + 1 < L - n + 1
    BY <1>3, <1>8
  <2>2. PICK a \in 1 .. L, b \in 1 .. L : a = L - n + 1 /\ b = L - m + 1 /\ b < a
    BY <1>7, <2>1
  <2>3. data[b] < data[a]
    BY <1>6, <2>2 DEF Climbs
  <2>4. data[a] \in Nat /\ data[b] \in Nat
    BY <1>6
  <2> QED BY <1>5, <2>1, <2>2, <2>3, <2>4
<1>9. \A n \in 0 + 1 .. N : z[n].n = 0 /\ z[n].of \in {data[k] : k \in DOMAIN data}
  <2>1. \A n \in 0 + 1 .. N : n \in 1 .. N
    OBVIOUS
  <2> QED BY <1>5, <1>6, <1>7, <2>1
<1>10. (\A r \in {data[k] : k \in DOMAIN data} : \E n \in 1 .. N : z[n].n = 0 /\ z[n].of = r) \/ N = K
  <2>1. CASE L <= K
    <3> SUFFICES ASSUME NEW k \in 1 .. L PROVE \E n \in 1 .. N : z[n].n = 0 /\ z[n].of = data[k]
      BY <1>6
    <3>1. PICK n \in 1 .. L : n = L - k + 1
      OBVIOUS
    <3>2. n \in 1 .. N /\ L - n + 1 = k
      BY <1>3, <2>1, <3>1
    <3> QED BY <1>5, <3>2
  <2> QED BY <1>3, <2>1
<1>11. PICK rows : rows = {data[n] : n \in DOMAIN data}
  OBVIOUS
<1>12. Page(z, 0, handled, rows, before)
  <2>1. 1 .. 0 = {} /\ handled \ before = {}
    OBVIOUS
  <2> QED BY <1>1, <1>5, <1>8, <1>9, <1>10, <1>11, <2>1 DEF Page
<1>13. 0 \in 0 .. N
  OBVIOUS
<1> QED BY <1>1, <1>3, <1>4, <1>5, <1>11, <1>12, <1>13 DEF Shows

\* What a tab does with the message it reads.
LEMMA TabReads ==
  ASSUME TypeInv, [Next]_vars, NEW tab \in Tab, NEW i \in Conn, socket[tab] = i, Receive(tab)
  PROVE  /\ IsRead(i) /\ socket'[tab] = i
         /\ \/ /\ Head(inbox[i]).kind = "backlog" /\ shown'[tab] = FromBacklog(shown[tab], Head(inbox[i]).rows)
               /\ i \in greeted' /\ early'[i] = early[i]
            \/ /\ Head(inbox[i]).kind = "alert" /\ shown'[tab] = WithAlert(shown[tab], Head(inbox[i]).copy)
               /\ i \in greeted => i \in greeted' /\ early'[i] = early[i]
               /\ i \notin greeted => i \notin greeted' /\ early'[i] = early[i] \cup {Head(inbox[i]).copy.n}
<1>1. inbox \in [Conn -> Seq(Message)] /\ DOMAIN early = Conn /\ DOMAIN shown = Tab
  BY DEF TypeInv, TypeOK
<1>2. PICK msg : msg = Head(inbox[i])
  OBVIOUS
<1>3. /\ inbox[i] # <<>> /\ inbox' = [inbox EXCEPT ![i] = Tail(@)]
      /\ \/ /\ msg.kind = "backlog" /\ shown' = [shown EXCEPT ![tab] = FromBacklog(@, msg.rows)]
            /\ greeted' = greeted \cup {i} /\ early' = early
         \/ /\ msg.kind = "alert" /\ shown' = [shown EXCEPT ![tab] = WithAlert(@, msg.copy)]
            /\ greeted' = greeted
            /\ early' = IF i \in greeted THEN early ELSE [early EXCEPT ![i] = @ \cup {msg.copy.n}]
  BY <1>2 DEF Receive
<1>4. UNCHANGED <<delivered, queried, handler, socket>>
  BY DEF Receive, gatewayVars
<1>5. Sent(i)' = Sent(i)
  BY <1>4, SentStays
<1>6. IsRead(i)
  BY <1>1, <1>2, <1>3, <1>4, <1>5 DEF IsRead
<1> QED BY <1>1, <1>2, <1>3, <1>4, <1>6

(* A tab on a connection had it before, or has just opened it. *)
LEMMA TabHolds ==
  ASSUME TypeInv, LinkInv, [Next]_vars, NEW tab \in Tab, NEW i \in Conn, socket'[tab] = i
  PROVE  \/ socket[tab] = i /\ (shown'[tab] = shown[tab] \/ Receive(tab))
         \/ /\ delivered'[i] = <<>> /\ i \notin greeted' /\ early'[i] = {}
<1>0. /\ handler \in [Conn -> {"none", "querying", "greeting", "reading", "done"}]
      /\ open \subseteq Known /\ ClosedIsEmpty /\ DOMAIN socket = Tab /\ DOMAIN shown = Tab
  BY LinkParts DEF TypeInv, TypeOK
<1>1. ASSUME NEW S, Close(S) PROVE socket[tab] = i /\ shown'[tab] = shown[tab]
  BY <1>1, Conns DEF Close, Sockets
<1>2. CASE MakeAlert \/ StoreAlert \/ MergeRows \/ MakeMetrics \/ UNCHANGED vars
  BY <1>2 DEF MakeAlert, StoreAlert, MergeRows, MakeMetrics, vars, tabVars
<1>3. ASSUME NEW t \in Topic, RelayStep(t) PROVE socket[tab] = i /\ shown'[tab] = shown[tab]
  BY <1>3 DEF RelayStep, RelayTake, RelaySent, tabVars
<1>4. ASSUME NEW j \in Conn, QueryBacklog(j) \/ QueryRefused(j) \/ SendBacklog(j) \/ HandlerEnds(j)
      PROVE  socket[tab] = i /\ shown'[tab] = shown[tab]
  BY <1>1, <1>4 DEF QueryBacklog, QueryRefused, SendBacklog, HandlerEnds, tabVars
<1>5. CASE Restart
  BY <1>1, <1>5 DEF Restart
<1>6. ASSUME NEW other \in Tab, Drop(other) PROVE socket[tab] = i /\ shown'[tab] = shown[tab]
  BY <1>1, <1>6 DEF Drop
<1>7. ASSUME NEW other \in Tab, Receive(other)
      PROVE  socket[tab] = i /\ (shown'[tab] = shown[tab] \/ Receive(tab))
  <2>1. socket' = socket
    BY <1>7 DEF Receive
  <2>2. other # tab => shown'[tab] = shown[tab]
    BY <1>0, <1>7 DEF Receive
  <2> QED BY <1>7, <2>1, <2>2
<1>8. ASSUME NEW other \in Tab, Connect(other)
      PROVE  \/ socket[tab] = i /\ shown'[tab] = shown[tab]
             \/ delivered'[i] = <<>> /\ i \notin greeted' /\ early'[i] = {}
  <2>1. PICK j \in Conn : handler[j] = "none" /\ socket' = [socket EXCEPT ![other] = j]
    BY <1>8 DEF Connect
  <2>2. UNCHANGED <<shown, delivered, greeted, early>>
    BY <1>8 DEF Connect
  <2>3. CASE other = tab
    <3>1. j = i /\ i \notin open
      BY <1>0, <2>1, <2>3 DEF Known
    <3> QED BY <1>0, <2>2, <3>1 DEF ClosedIsEmpty
  <2>4. CASE other # tab
    BY <1>0, <2>1, <2>2, <2>4
  <2> QED BY <2>3, <2>4
<1>9. ASSUME NEW t \in Topic, RelayEnds(t) PROVE socket[tab] = i /\ shown'[tab] = shown[tab]
  BY <1>9 DEF RelayEnds, tabVars
<1> QED BY <1>2, <1>3, <1>4, <1>5, <1>6, <1>7, <1>8, <1>9 DEF Next

\* Every step keeps the screens.
LEMMA ScreenStep ==
  ASSUME TypeInv, LinkInv, InboxInv, ScreenInv, [Next]_vars
  PROVE  ScreenInv'
<1> SUFFICES ASSUME NEW tab \in Tab, NEW i \in Conn, socket'[tab] = i PROVE Screen(tab, i)'
  BY DEF ScreenInv
<1>0. InboxOk(i)
  BY DEF InboxInv
<1>1. CASE delivered'[i] = <<>> /\ i \notin greeted' /\ early'[i] = {}
  <2>1. Sent(i)' = {}
    BY <1>1 DEF Sent
  <2>2. Handled(i)' = {}
    BY <2>1 DEF Handled
  <2> QED BY <1>1, <2>2 DEF Screen
<1>2. CASE socket[tab] = i /\ Receive(tab)
  <2>1. Screen(tab, i) /\ IsRead(i)
    BY <1>2, TabReads DEF ScreenInv
  <2>2. PICK msg : msg = Head(inbox[i])
    OBVIOUS
  <2>3. inbox[i] # <<>> /\ InBacklog(i)' = InBacklog(i)
    BY <2>1 DEF IsRead, InBacklog
  <2>4. msg.kind = "alert" \/ msg.kind = "backlog"
    BY <2>2, <2>3, HeadKinds
  <2>5. Handled(i) \subseteq Nat
    BY FeedNumbers DEF Handled
  <2>6. CASE msg.kind = "backlog"
    <3>1. /\ shown'[tab] = FromBacklog(shown[tab], msg.rows)
          /\ i \in greeted' /\ early'[i] = early[i]
      BY <1>2, <2>2, <2>6, TabReads
    <3>2. Handled(i)' = Handled(i) /\ msg.rows = Rows(queried[i]) /\ i \notin greeted
      BY <1>0, <2>1, <2>2, <2>6, HeadLeaves
    <3>3. Handled(i) \subseteq early[i]
      BY <2>1, <3>2 DEF Screen
    <3>4. Shows(FromBacklog(shown[tab], Rows(queried[i])), Handled(i), InBacklog(i), early[i])
      <4>1. PICK q : q = queried[i] /\ q \in Seq(1 .. made) /\ q \in Seq(Nat) /\ Climbs(q)
        <5>1. Climbs(queried[i])
          BY <1>0 DEF InboxOk
        <5> QED BY <5>1, FeedNumbers
      <4>2. PICK copies, T : /\ copies = Rows(q) /\ copies \in Seq(T) /\ Len(copies) = Len(q)
                             /\ \A p \in 1 .. Len(q) : copies[p].n = 0 /\ copies[p].of = q[p]
        BY <4>1, RowsTyped
      <4>3. PICK prev, before, handled : /\ prev = shown[tab] /\ before = early[i] /\ handled = Handled(i)
                                         /\ handled \in SUBSET before
        BY <3>3
      <4>4. Shows(FromBacklog(prev, copies), handled, {q[n] : n \in DOMAIN q}, before)
        BY <4>1, <4>2, <4>3, BacklogOnPage
      <4> QED BY <4>1, <4>2, <4>3, <4>4 DEF InBacklog
    <3>5. PICK s, h, r, b : s = shown'[tab] /\ h = Handled(i)' /\ r = InBacklog(i)' /\ b = early'[i]
      OBVIOUS
    <3>6. Shows(s, h, r, b)
      BY <2>3, <3>1, <3>2, <3>4, <3>5
    <3>7. early'[i] \subseteq Handled(i)'
      BY <2>1, <3>1, <3>2 DEF Screen
    <3> QED BY <3>1, <3>5, <3>6, <3>7 DEF Screen
  <2>7. CASE msg.kind = "alert"
    <3>0. PICK copy, id : copy = msg.copy /\ id = copy.n
      OBVIOUS
    <3>1. /\ shown'[tab] = WithAlert(shown[tab], copy)
          /\ i \in greeted => i \in greeted' /\ early'[i] = early[i]
          /\ i \notin greeted => i \notin greeted' /\ early'[i] = early[i] \cup {id}
      BY <1>2, <2>2, <2>7, <3>0, TabReads
    <3>2. /\ \A old \in Handled(i) : old < id
          /\ id \notin Handled(i) /\ Handled(i)' = Handled(i) \cup {id}
      BY <1>0, <2>1, <2>2, <2>7, <3>0, HeadLeaves
    <3>9. early[i] \subseteq Handled(i)
      BY <2>1 DEF Screen
    <3>3. CASE i \notin greeted
      <4>1. Handled(i) \subseteq early[i]
        BY <2>1, <3>3 DEF Screen
      <4>2. Handled(i)' \subseteq early'[i] /\ early'[i] \subseteq Handled(i)'
        BY <3>1, <3>2, <3>3, <3>9, <4>1
      <4> QED BY <3>1, <3>3, <4>2 DEF Screen
    <3>4. CASE i \in greeted
      <4>1. Shows(shown[tab], Handled(i), InBacklog(i), early[i])
        BY <2>1, <3>4 DEF Screen
      <4>2. PICK S : /\ S = Copy /\ shown[tab] \in Seq(S) /\ copy \in S
                     /\ \A c \in S : c.n \in Nat /\ c.of \in Nat
        <5>1. shown[tab] \in Seq(Copy) /\ inbox[i] \in Seq(Message)
          BY DEF TypeInv, TypeOK
        <5>2. msg \in Message
          BY <2>2, <2>3, <5>1
        <5>3. copy \in Copy
          BY <2>7, <3>0, <5>2 DEF Message
        <5>4. \A c \in Copy : c.n \in Nat /\ c.of \in Nat
          BY DEF Copy
        <5> QED BY <5>1, <5>3, <5>4
      <4>3. Shows(WithAlert(shown[tab], copy), Handled(i) \cup {id}, InBacklog(i), early[i])
        <5>1. PICK prev, before, handled, rows :
                /\ prev = shown[tab] /\ before = early[i] /\ handled = Handled(i) /\ rows = InBacklog(i)
                /\ handled \in SUBSET Nat /\ prev \in Seq(S) /\ Shows(prev, handled, rows, before)
                /\ (\A old \in handled : old < copy.n) /\ copy.n \notin before
          BY <2>5, <3>0, <3>2, <3>9, <4>1, <4>2
        <5>2. Shows(WithAlert(prev, copy), handled \cup {copy.n}, rows, before)
          BY <4>2, <5>1, AlertOnTop
        <5> QED BY <3>0, <5>1, <5>2
      <4>4. PICK s, h, r, b : s = shown'[tab] /\ h = Handled(i)' /\ r = InBacklog(i)' /\ b = early'[i]
        OBVIOUS
      <4>5. Shows(s, h, r, b)
        BY <2>3, <3>1, <3>2, <3>4, <4>3, <4>4
      <4>6. early'[i] \subseteq Handled(i)'
        BY <3>1, <3>2, <3>4, <3>9
      <4> QED BY <3>1, <3>4, <4>4, <4>5, <4>6 DEF Screen
    <3> QED BY <3>3, <3>4
  <2> QED BY <2>4, <2>6, <2>7
<1>3. CASE socket[tab] = i /\ shown'[tab] = shown[tab] /\ ~Receive(tab)
  <2>1. Screen(tab, i)
    BY <1>3 DEF ScreenInv
  <2>2. ASSUME Handled(i)' = Handled(i), queried'[i] = queried[i], early'[i] = early[i],
               i \in greeted' <=> i \in greeted
        PROVE  Screen(tab, i)'
    <3>1. InBacklog(i)' = InBacklog(i)
      BY <2>2 DEF InBacklog
    <3>2. PICK s, h, r, b : s = shown'[tab] /\ h = Handled(i)' /\ r = InBacklog(i)' /\ b = early'[i]
      OBVIOUS
    <3>3. i \in greeted => Shows(s, h, r, b)
      BY <1>3, <2>1, <2>2, <3>1, <3>2 DEF Screen
    <3>4. i \notin greeted => Handled(i)' \subseteq early'[i]
      BY <2>1, <2>2 DEF Screen
    <3>5. early'[i] \subseteq Handled(i)'
      BY <2>1, <2>2 DEF Screen
    <3> QED BY <2>2, <3>2, <3>3, <3>4, <3>5 DEF Screen
  <2>3. CASE Quiet(i)
    <3>1. Coming(i)' = Coming(i)
      BY <2>3, QuietKeeps DEF Quiet
    <3>2. Handled(i)' = Handled(i)
      BY <2>3, <3>1 DEF Quiet, Handled
    <3> QED BY <2>2, <2>3, <3>2 DEF Quiet
  <2>4. CASE IsSent(i)
    BY <1>0, <2>2, <2>4, AlertJoins DEF IsSent
  <2>5. CASE IsGreeted(i)
    BY <1>0, <2>2, <2>5, BacklogJoins DEF IsGreeted
  <2>6. CASE IsQueried(i)
    <3>1. i \notin greeted /\ i \notin greeted' /\ early'[i] = early[i]
      BY <1>0, <2>6 DEF IsQueried, InboxOk
    <3>2. Coming(i)' = Coming(i)
      BY <2>6, QuietKeeps DEF IsQueried
    <3>3. Handled(i)' = Handled(i)
      BY <2>6, <3>2 DEF IsQueried, Handled
    <3> QED BY <2>1, <3>1, <3>3 DEF Screen
  <2>7. CASE IsEnded(i)
    BY <2>7 DEF IsEnded
  <2>8. CASE \E other \in Tab : socket[other] = i /\ Receive(other)
    <3>1. PICK other \in Tab : socket[other] = i /\ Receive(other)
      BY <2>8
    <3>2. other = tab
      BY <1>3, <3>1, Conns, LinkParts DEF SocketsApart
    <3> QED BY <1>3, <3>1, <3>2
  <2> QED BY <1>0, <2>3, <2>4, <2>5, <2>6, <2>7, <2>8, StepChanges DEF Changes
<1> QED BY <1>1, <1>2, <1>3, TabHolds

\* The screens are as said always.
LEMMA ScreenInvariant == Spec => []ScreenInv
<1>1. Init => ScreenInv
  BY Conns DEF Init, ScreenInv
<1> QED BY <1>1, ScreenStep, TypeInvariant, LinkInvariant, InboxInvariant, PTL DEF Spec

(* What a greeted tab does not show of the messages it was sent is on its way, came
   ahead of the backlog or went off a full screen; rows of the backlog, too, leave
   only a full screen. *)
THEOREM MissesOnlyBeforeBacklog == Spec => []MissedOnlyBeforeBacklog
<1>1. ASSUME TypeInv, ScreenInv PROVE MissedOnlyBeforeBacklog
  <2> SUFFICES ASSUME NEW tab \in Tab, NEW i \in Conn, i = socket[tab], i \in greeted
               PROVE  /\ \A n \in Sent(i) \ early[i] :
                           \/ \E msg \in ToSet(inbox[i]) : msg.kind = "alert" /\ msg.copy.n = n
                           \/ \E copy \in ToSet(shown[tab]) : copy.n = n
                           \/ Len(shown[tab]) = MaxShown /\ \A copy \in ToSet(shown[tab]) : copy.n > n
                      /\ \/ Len(shown[tab]) = MaxShown
                         \/ \A row \in ToSet(queried[i]) : [n |-> 0, of |-> row] \in ToSet(shown[tab])
    <3>1. socket \in [Tab -> open \cup {NoConn}] /\ open \subseteq Conn
      BY <1>1 DEF TypeInv, TypeOK
    <3> QED BY <3>1 DEF MissedOnlyBeforeBacklog, Sent
  <2>1. PICK s \in Seq(Copy) : s = shown[tab]
    BY <1>1 DEF TypeInv, TypeOK
  <2>2. PICK cut \in 0 .. Len(s) : Page(s, cut, Handled(i), InBacklog(i), early[i])
    BY <1>1, <2>1 DEF ScreenInv, Screen, Shows
  <2>3. PICK L \in Nat : L = Len(s) /\ DOMAIN s = 1 .. L /\ cut \in 0 .. L
    BY <2>2
  <2>4. ToSet(s) = {s[n] : n \in 1 .. L} /\ 1 .. cut \subseteq 1 .. L
    BY <2>3 DEF ToSet
  <2>5. InBacklog(i) = ToSet(queried[i])
    BY DEF InBacklog, ToSet
  <2>6. L = MaxShown \/ \A row \in ToSet(queried[i]) : [n |-> 0, of |-> row] \in ToSet(s)
    <3>1. SUFFICES ASSUME L # MaxShown, NEW row \in InBacklog(i)
                   PROVE  [n |-> 0, of |-> row] \in ToSet(s)
      BY <2>5
    <3>2. PICK p \in 1 .. L : s[p].n = 0 /\ s[p].of = row
      BY <2>2, <2>3, <3>1 DEF Page
    <3>3. s[p] \in Copy
      <4>1. \A S : \A x \in Seq(S) : \A n \in DOMAIN x : x[n] \in S
        OBVIOUS
      <4> QED BY <2>3, <4>1
    <3>4. s[p] = [n |-> 0, of |-> row]
      BY <3>2, <3>3 DEF Copy
    <3> QED BY <2>4, <3>4
  <2>7. ASSUME NEW n \in Sent(i) \ early[i]
        PROVE  \/ \E msg \in ToSet(inbox[i]) : msg.kind = "alert" /\ msg.copy.n = n
               \/ \E copy \in ToSet(s) : copy.n = n
               \/ L = MaxShown /\ \A copy \in ToSet(s) : copy.n > n
    <3>1. CASE n \in Coming(i)
      <4>1. PICK m \in Alerts(i) : n = inbox[i][m].copy.n
        BY <3>1 DEF Coming
      <4>2. m \in DOMAIN inbox[i] /\ inbox[i][m].kind = "alert"
        BY DEF Alerts
      <4> QED BY <4>1, <4>2 DEF ToSet
    <3>2. CASE n \notin Coming(i)
      <4>1. n \in Handled(i) \ early[i]
        BY <3>2 DEF Handled
      <4>2. \/ \E p \in 1 .. cut : s[p].n = n
            \/ L = MaxShown /\ \A p \in 1 .. L : s[p].n > n
        BY <2>2, <2>3, <4>1 DEF Page
      <4> QED BY <2>4, <4>2
    <3> QED BY <3>1, <3>2
  <2> QED BY <2>1, <2>3, <2>6, <2>7
<1> QED BY <1>1, TypeInvariant, ScreenInvariant, PTL
-----------------------------------------------------------------------------
(* What the copies are copies of *)

\* What a connection was sent is forgotten with it, or only grows.
LEMMA DeliveredGrows ==
  ASSUME TypeInv, [Next]_vars, NEW i \in Conn
  PROVE  \/ delivered'[i] = <<>> \/ delivered'[i] = delivered[i]
         \/ \E k : delivered'[i] = Append(delivered[i], k)
<1>0. DOMAIN delivered = Conn
  BY DEF TypeInv, TypeOK
<1>1. ASSUME NEW S, Close(S) PROVE delivered'[i] = <<>> \/ delivered'[i] = delivered[i]
  BY <1>1 DEF Close
<1>2. CASE MakeAlert \/ StoreAlert \/ MergeRows \/ MakeMetrics \/ UNCHANGED vars
  BY <1>2 DEF MakeAlert, StoreAlert, MergeRows, MakeMetrics, vars, gatewayVars
<1>3. ASSUME NEW t \in Topic, RelayStep(t) \/ RelayEnds(t)
      PROVE  delivered'[i] = delivered[i] \/ \E k : delivered'[i] = Append(delivered[i], k)
  <2>1. CASE RelayTake(t) \/ RelayEnds(t)
    BY <2>1 DEF RelayTake, RelayEnds
  <2>2. CASE RelaySent(t)
    BY <1>0, <2>2 DEF RelaySent
  <2> QED BY <1>3, <2>1, <2>2 DEF RelayStep
<1>4. ASSUME NEW j \in Conn, QueryBacklog(j) \/ QueryRefused(j) \/ SendBacklog(j) \/ HandlerEnds(j)
      PROVE  delivered'[i] = <<>> \/ delivered'[i] = delivered[i]
  BY <1>1, <1>4 DEF QueryBacklog, QueryRefused, SendBacklog, HandlerEnds
<1>5. CASE Restart
  BY <1>1, <1>5 DEF Restart
<1>6. ASSUME NEW tab \in Tab, Connect(tab) \/ Drop(tab) \/ Receive(tab)
      PROVE  delivered'[i] = <<>> \/ delivered'[i] = delivered[i]
  BY <1>1, <1>6 DEF Connect, Drop, Receive, gatewayVars
<1> QED BY <1>2, <1>3, <1>4, <1>5, <1>6 DEF Next

\* The topic keeps its messages at their offsets.
LEMMA TopicKeeps ==
  ASSUME TypeInv, [Next]_vars, NEW k \in 1 .. Len(log["alerts"])
  PROVE  log'["alerts"][k] = log["alerts"][k]
<1>0. PICK S, s : s \in Seq(S) /\ s = log["alerts"] /\ DOMAIN log = Topic
  BY DEF TypeInv, TypeOK
<1>1. CASE UNCHANGED log
  BY <1>1
<1>2. CASE MakeAlert
  <2>1. PICK sent \in {<<>>, <<made'>>, <<made', made'>>} : log' = [log EXCEPT !["alerts"] = @ \o sent]
    BY <1>2 DEF MakeAlert
  <2>2. "alerts" \in Topic
    BY DEF Topic
  <2>3. log'["alerts"] = s \o sent
    BY <1>0, <2>1, <2>2
  <2>4. \A X, Y : \A x \in Seq(X), y \in Seq(Y) : \A n \in 1 .. Len(x) : (x \o y)[n] = x[n]
    OBVIOUS
  <2>5. sent \in Seq({made'})
    <3>1. <<>> \in Seq({made'}) /\ <<made'>> \in Seq({made'}) /\ <<made', made'>> \in Seq({made'})
      OBVIOUS
    <3> QED BY <2>1, <3>1
  <2> QED BY <1>0, <2>3, <2>4, <2>5
<1>3. CASE MakeMetrics
  <2>1. log' = [log EXCEPT !["model-metrics"] = Append(@, 0)]
    BY <1>3 DEF MakeMetrics
  <2> QED BY <2>1
<1>4. CASE UNCHANGED pipelineVars
  BY <1>1, <1>4 DEF pipelineVars
<1>5. ASSUME NEW t \in Topic, RelayStep(t) \/ RelayEnds(t) PROVE UNCHANGED pipelineVars
  BY <1>5 DEF RelayStep, RelayTake, RelaySent, RelayEnds
<1>6. ASSUME NEW j \in Conn, QueryBacklog(j) \/ QueryRefused(j) \/ SendBacklog(j) \/ HandlerEnds(j)
      PROVE  UNCHANGED pipelineVars
  BY <1>6 DEF QueryBacklog, QueryRefused, SendBacklog, HandlerEnds
<1>7. ASSUME NEW tab \in Tab, Connect(tab) \/ Drop(tab) \/ Receive(tab) PROVE UNCHANGED pipelineVars
  BY <1>7 DEF Connect, Drop, Receive
<1>8. CASE StoreAlert \/ MergeRows \/ Restart \/ UNCHANGED vars
  BY <1>1, <1>8 DEF StoreAlert, MergeRows, Restart, vars, pipelineVars
<1> QED BY <1>2, <1>3, <1>4, <1>5, <1>6, <1>7, <1>8 DEF Next

\* While the connection lasts, a genuine copy stays one.
LEMMA GenuineLasts ==
  ASSUME TypeInv, [Next]_vars, NEW i \in Conn, delivered'[i] # <<>>, NEW copy, Genuine(i, copy)
  PROVE  Genuine(i, copy)'
<1>1. CASE copy.n = 0
  BY <1>1 DEF Genuine
<1>2. CASE copy.n # 0
  <2>1. PICK s, T : s = delivered[i] /\ T = 1 .. Len(log["alerts"]) /\ s \in Seq(T)
    BY DEF TypeInv, TypeOK
  <2>2. PICK n : n = copy.n /\ n \in 1 .. Len(s) /\ copy.of = log["alerts"][s[n]]
    BY <1>2, <2>1 DEF Genuine, Sent
  <2>3. s[n] \in T
    <3>1. \A S : \A x \in Seq(S) : \A p \in 1 .. Len(x) : x[p] \in S
      OBVIOUS
    <3> QED BY <2>1, <2>2, <3>1
  <2>4. log'["alerts"][s[n]] = log["alerts"][s[n]]
    BY <2>1, <2>3, TopicKeeps
  <2>5. PICK z : z = delivered'[i]
    OBVIOUS
  <2>6. n \in 1 .. Len(z) /\ z[n] = s[n]
    <3>1. CASE z = s
      BY <2>2, <3>1
    <3>2. ASSUME NEW k, z = Append(s, k) PROVE n \in 1 .. Len(z) /\ z[n] = s[n]
      <4>1. \A x \in Seq(T) : \A y : /\ Len(Append(x, y)) = Len(x) + 1
                                  /\ \A p \in 1 .. Len(x) : Append(x, y)[p] = x[p]
        OBVIOUS
      <4>2. Len(z) = Len(s) + 1 /\ z[n] = s[n] /\ Len(s) \in Nat
        BY <2>1, <2>2, <3>2, <4>1
      <4> QED BY <2>2, <4>2
    <3> QED BY <2>1, <2>5, <3>1, <3>2, DeliveredGrows
  <2> QED BY <2>2, <2>4, <2>5, <2>6 DEF Genuine, Sent
<1> QED BY <1>1, <1>2

\* What a step adds to an inbox is genuine; the rest was there.
LEMMA InboxCopies ==
  ASSUME TypeInv, LinkInv, InboxInv, [Next]_vars, NEW i \in Conn, NEW n \in Alerts(i)',
         NEW copy, copy = inbox'[i][n].copy
  PROVE  (\E m \in Alerts(i) : copy = inbox[i][m].copy) \/ Genuine(i, copy)'
<1>0. n \in DOMAIN inbox'[i] /\ inbox'[i][n].kind = "alert"
  BY DEF Alerts
<1>1. CASE inbox'[i] = inbox[i]
  BY <1>0, <1>1 DEF Alerts
<1>2. CASE inbox'[i] = <<>>
  BY <1>0, <1>2
<1>3. ASSUME NEW msg, inbox'[i] = Append(inbox[i], msg), msg.kind = "alert" => Genuine(i, msg.copy)'
      PROVE  (\E m \in Alerts(i) : copy = inbox[i][m].copy) \/ Genuine(i, copy)'
  <2>1. PICK L \in Nat : /\ DOMAIN inbox[i] = 1 .. L /\ DOMAIN inbox'[i] = 1 .. L + 1
                         /\ \A m \in 1 .. L : inbox'[i][m] = inbox[i][m]
                         /\ inbox'[i][L + 1] = msg
    BY <1>3, QueueGrows
  <2>2. CASE n = L + 1
    BY <1>0, <1>3, <2>1, <2>2
  <2>3. CASE n # L + 1
    <3>1. n \in 1 .. L
      BY <1>0, <2>1, <2>3
    <3> QED BY <1>0, <2>1, <3>1 DEF Alerts
  <2> QED BY <2>2, <2>3
<1>4. CASE IsRead(i)
  <2>1. PICK L \in Nat : /\ DOMAIN inbox[i] = 1 .. L + 1 /\ DOMAIN inbox'[i] = 1 .. L
                         /\ \A m \in 1 .. L : inbox'[i][m] = inbox[i][m + 1]
    BY <1>4, QueueShrinks DEF IsRead
  <2>2. n + 1 \in 1 .. L + 1 /\ inbox'[i][n] = inbox[i][n + 1]
    BY <1>0, <2>1
  <2> QED BY <1>0, <2>1, <2>2 DEF Alerts
<1>5. CASE IsSent(i)
  <2>1. PICK new : inbox'[i] = Append(inbox[i], Alert(new)) /\ Genuine(i, new)'
    BY <1>5 DEF IsSent
  <2>2. Alert(new).copy = new
    BY DEF Alert
  <2>3. PICK msg : msg = Alert(new)
    OBVIOUS
  <2> QED BY <1>3, <2>1, <2>2, <2>3
<1>6. CASE IsGreeted(i)
  <2>1. PICK msg : inbox'[i] = Append(inbox[i], msg) /\ msg.kind = "backlog"
    BY <1>6 DEF IsGreeted
  <2> QED BY <1>3, <2>1
<1>7. InboxOk(i)
  BY DEF InboxInv
<1>8. Changes(i)
  BY <1>7, StepChanges
<1>9. CASE Quiet(i) \/ IsQueried(i)
  BY <1>1, <1>9 DEF Quiet, IsQueried
<1>10. CASE IsEnded(i)
  BY <1>2, <1>10 DEF IsEnded
<1> QED BY <1>4, <1>5, <1>6, <1>8, <1>9, <1>10 DEF Changes

\* A tab that takes no message keeps the connection it was greeted on.
LEMMA GreetedBefore ==
  ASSUME TypeInv, LinkInv, InboxInv, [Next]_vars, NEW tab \in Tab, NEW i \in Conn,
         socket[tab] = i, socket'[tab] = i, ~Receive(tab), i \in greeted'
  PROVE  i \in greeted
<1>1. InboxOk(i)
  BY DEF InboxInv
<1>2. Changes(i)
  BY <1>1, StepChanges
<1>3. ASSUME NEW other \in Tab, socket[other] = i, Receive(other) PROVE FALSE
  <2>1. other = tab
    BY <1>3, Conns, LinkParts DEF SocketsApart
  <2> QED BY <1>3, <2>1
<1> QED BY <1>2, <1>3 DEF Changes, Quiet, IsSent, IsQueried, IsGreeted, IsEnded

\* What a tab puts on the screen is genuine; the rest was there.
LEMMA ScreenCopies ==
  ASSUME TypeInv, LinkInv, InboxInv, [Next]_vars, TypeInv', NEW tab \in Tab, NEW i \in Conn,
         socket'[tab] = i, i \in greeted', delivered'[i] # <<>>, NEW p \in DOMAIN shown'[tab],
         NEW copy, copy = shown'[tab][p]
  PROVE  \/ copy.n = 0
         \/ \E m \in Alerts(i) : copy = inbox[i][m].copy
         \/ i \in greeted /\ socket[tab] = i /\ \E m \in DOMAIN shown[tab] : copy = shown[tab][m]
<1>1. socket[tab] = i /\ (shown'[tab] = shown[tab] \/ Receive(tab))
  BY TabHolds
<1>2. CASE ~Receive(tab)
  BY <1>1, <1>2, GreetedBefore
<1>3. CASE Receive(tab)
  <2>0. InboxOk(i) /\ IsRead(i)
    BY <1>1, <1>3, TabReads DEF InboxInv
  <2>1. PICK msg : msg = Head(inbox[i])
    OBVIOUS
  <2>2. PICK L \in Nat : DOMAIN inbox[i] = 1 .. L + 1 /\ msg = inbox[i][1]
    BY <2>0, <2>1, QueueShrinks DEF IsRead
  <2>3. CASE msg.kind = "backlog"
    <3>1. shown'[tab] = FromBacklog(shown[tab], Rows(queried[i]))
      BY <1>1, <1>3, <2>0, <2>1, <2>3, TabReads, HeadLeaves
    <3>2. PICK data : /\ data = Rows(queried[i]) /\ data \in Seq(Copy)
                      /\ \A m \in 1 .. Len(data) : data[m].n = 0
      <4>1. PICK q \in Seq(1 .. made) : q = queried[i]
        BY FeedNumbers
      <4>2. /\ Rows(q) \in Seq(Copy) /\ Len(Rows(q)) = Len(q)
            /\ \A m \in 1 .. Len(q) : Rows(q)[m].n = 0
        BY RowsTyped
      <4> QED BY <4>1, <4>2
    <3>3. PICK N \in Nat, K \in Nat : N = Len(data) /\ K = MaxShown
      BY <3>2, BoundTypes
    <3>4. PICK z : z = FromBacklog(shown[tab], data) /\ z = shown'[tab]
      BY <3>1, <3>2
    <3>5. /\ DOMAIN z = 1 .. Least(N, K)
          /\ \A m \in 1 .. Least(N, K) : z[m] = data[N - m + 1]
      <4>1. PICK prev, T : prev = shown[tab] /\ data \in Seq(T)
        BY <3>2
      <4>2. /\ Len(FromBacklog(prev, data)) = Least(Len(data), MaxShown)
            /\ \A n \in 1 .. Least(Len(data), MaxShown) :
                 FromBacklog(prev, data)[n] = data[Len(data) - n + 1]
        BY <4>1, BacklogShown
      <4>3. Len(z) = Least(N, K) /\ \A m \in 1 .. Least(N, K) : z[m] = data[N - m + 1]
        BY <3>3, <3>4, <4>1, <4>2
      <4>4. z \in Seq(Copy')
        BY <3>4 DEF TypeInv, TypeOK
      <4>5. DOMAIN z = 1 .. Len(z)
        BY <4>4
      <4> QED BY <4>3, <4>5
    <3>6. p \in 1 .. N /\ N - p + 1 \in 1 .. N /\ copy = data[N - p + 1]
      BY <3>3, <3>4, <3>5 DEF Least
    <3> QED BY <3>2, <3>3, <3>6
  <2>4. CASE msg.kind = "alert"
    <3>1. shown'[tab] = WithAlert(shown[tab], msg.copy) /\ i \in greeted
      BY <1>1, <1>3, <2>1, <2>4, TabReads
    <3>2. PICK s : s = shown[tab] /\ s \in Seq(Copy)
      BY DEF TypeInv, TypeOK
    <3>3. PICK x : x = msg.copy /\ x \in Copy
      <4>1. inbox[i] \in Seq(Message) /\ inbox[i] # <<>>
        BY <2>0, FeedNumbers DEF IsRead
      <4>2. msg \in Message
        BY <2>1, <4>1
      <4> QED BY <2>4, <4>2 DEF Message
    <3>4. PICK N \in Nat, K \in Nat : N = Len(s) /\ K = MaxShown
      BY <3>2, BoundTypes
    <3>5. PICK z : z = WithAlert(s, x) /\ z = shown'[tab]
      BY <3>1, <3>2, <3>3
    <3>6. /\ Len(z) = Least(N + 1, K) /\ z[1] = x
          /\ \A n \in 1 .. N : n < K => z[n + 1] = s[n]
      <4>1. PICK T : s \in Seq(T) /\ x \in T
        BY <3>2, <3>3
      <4>2. /\ Len(WithAlert(s, x)) = Least(Len(s) + 1, MaxShown) /\ WithAlert(s, x)[1] = x
            /\ \A n \in 1 .. Len(s) : n < MaxShown => WithAlert(s, x)[n + 1] = s[n]
        BY <4>1, AlertShown
      <4> QED BY <3>4, <3>5, <4>2
    <3>7. DOMAIN z = 1 .. Least(N + 1, K) /\ DOMAIN s = 1 .. N
      <4>1. shown'[tab] \in Seq(Copy')
        BY DEF TypeInv, TypeOK
      <4> QED BY <3>2, <3>4, <3>5, <3>6, <4>1
    <3>8. CASE p = 1
      <4>1. 1 \in Alerts(i)
        BY <2>2, <2>4 DEF Alerts
      <4> QED BY <2>2, <3>3, <3>5, <3>6, <3>8, <4>1
    <3>9. CASE p # 1
      <4>1. PICK m \in 1 .. N : m < K /\ p = m + 1
        <5>1. p \in 1 .. Least(N + 1, K)
          BY <3>5, <3>7
        <5>2. p - 1 \in 1 .. N /\ p - 1 < K /\ p = (p - 1) + 1
          BY <3>9, <5>1 DEF Least
        <5> QED BY <5>2
      <4>2. copy = s[m]
        BY <3>5, <3>6, <4>1
      <4> QED BY <1>1, <3>1, <3>2, <3>7, <4>1, <4>2
    <3> QED BY <3>8, <3>9
  <2> QED BY <2>1, <2>2, <2>3, <2>4, <2>0, HeadKinds DEF IsRead
<1> QED BY <1>2, <1>3

\* Every step keeps the copies genuine.
LEMMA GenuineStep ==
  ASSUME TypeInv, LinkInv, InboxInv, GenuineInv, [Next]_vars, TypeInv', InboxInv', ScreenInv'
  PROVE  GenuineInv'
<1> SUFFICES ASSUME NEW i \in Conn
             PROVE  /\ \A n \in Alerts(i)' : \A copy : copy = inbox'[i][n].copy => Genuine(i, copy)'
                    /\ i \in greeted' =>
                         \A tab \in Tab : socket'[tab] = i =>
                           \A p \in DOMAIN shown'[tab] : \A copy : copy = shown'[tab][p] => Genuine(i, copy)'
  BY DEF GenuineInv, Genuine
<1>1. CASE delivered'[i] = <<>>
  <2>1. Sent(i)' = {}
    BY <1>1 DEF Sent
  <2>2. Coming(i)' = {} /\ Handled(i)' = {}
    BY <2>1 DEF InboxInv, InboxOk, Handled
  <2>3. Alerts(i)' = {}
    BY <2>2 DEF Coming
  <2>4. ASSUME NEW tab \in Tab, i \in greeted', socket'[tab] = i, NEW p \in DOMAIN shown'[tab]
        PROVE  shown'[tab][p].n = 0
    <3>1. PICK z : z = shown'[tab] /\ z \in Seq(Copy') /\ Shows(z, {}, InBacklog(i)', early'[i])
      <4>1. PICK z, h : z = shown'[tab] /\ h = Handled(i)' /\ z \in Seq(Copy')
        BY DEF TypeInv, TypeOK
      <4>2. Shows(z, h, InBacklog(i)', early'[i])
        BY <2>4, <4>1 DEF ScreenInv, Screen
      <4> QED BY <2>2, <4>1, <4>2
    <3>2. PICK r, b : r = InBacklog(i)' /\ b = early'[i]
      OBVIOUS
    <3>3. PICK cut \in 0 .. Len(z) : Page(z, cut, {}, r, b)
      BY <3>1, <3>2 DEF Shows
    <3>4. (\A n \in 1 .. cut : FALSE) /\ \A n \in cut + 1 .. Len(z) : z[n].n = 0
      BY <3>3 DEF Page
    <3>5. Len(z) \in Nat /\ DOMAIN z = 1 .. Len(z)
      BY <3>1
    <3> QED BY <3>1, <3>4, <3>5
  <2> QED BY <2>3, <2>4 DEF Genuine
<1>2. CASE delivered'[i] # <<>>
  <2>1. ASSUME NEW m \in Alerts(i), NEW copy, copy = inbox[i][m].copy PROVE Genuine(i, copy)'
    <3>1. Genuine(i, copy)
      BY <2>1 DEF GenuineInv
    <3> QED BY <1>2, <3>1, GenuineLasts
  <2>2. ASSUME NEW n \in Alerts(i)', NEW copy, copy = inbox'[i][n].copy PROVE Genuine(i, copy)'
    BY <2>1, <2>2, InboxCopies
  <2>3. ASSUME NEW tab \in Tab, i \in greeted', socket'[tab] = i, NEW p \in DOMAIN shown'[tab],
               NEW copy, copy = shown'[tab][p]
        PROVE  Genuine(i, copy)'
    <3>1. \/ copy.n = 0
          \/ \E m \in Alerts(i) : copy = inbox[i][m].copy
          \/ i \in greeted /\ socket[tab] = i /\ \E m \in DOMAIN shown[tab] : copy = shown[tab][m]
      BY <1>2, <2>3, ScreenCopies
    <3>2. CASE copy.n = 0
      BY <3>2 DEF Genuine
    <3>3. ASSUME i \in greeted, socket[tab] = i, NEW m \in DOMAIN shown[tab], copy = shown[tab][m]
          PROVE  Genuine(i, copy)'
      <4>1. Genuine(i, copy)
        BY <3>3 DEF GenuineInv
      <4> QED BY <1>2, <4>1, GenuineLasts
    <3> QED BY <2>1, <3>1, <3>2, <3>3
  <2> QED BY <2>2, <2>3
<1> QED BY <1>1, <1>2

\* The copies are genuine always.
LEMMA GenuineInvariant == Spec => []GenuineInv
<1>1. Init => GenuineInv
  <2> SUFFICES ASSUME Init, NEW i \in Conn PROVE Alerts(i) = {} /\ i \notin greeted
    BY DEF GenuineInv
  <2> QED BY DEF Init, Alerts
<1> QED BY <1>1, GenuineStep, TypeInvariant, LinkInvariant, InboxInvariant, ScreenInvariant, PTL DEF Spec

\* A set that maps one to one into a finite set is no larger.
LEMMA MapsApart ==
  ASSUME NEW S, NEW T, IsFiniteSet(T), NEW f \in [S -> T], \A x, y \in S : f[x] = f[y] => x = y
  PROVE  IsFiniteSet(S) /\ Cardinality(S) \in Nat /\ Cardinality(T) \in Nat /\ Cardinality(S) <= Cardinality(T)
<1>1. f \in Injection(S, T)
  BY DEF Injection, IsInjective
<1>2. IsFiniteSet(S) /\ Cardinality(S) <= Cardinality(T)
  BY <1>1, FS_Injection
<1> QED BY <1>2, FS_CardinalityType

(* An alert is on screen at most once for every row of the backlog and every message
   after the backlog that holds it, whatever the tab's earlier connections and the
   relay's restarts were. *)
THEOREM ShowsAsOftenAsSent == Spec => []ShownAsOftenAsSent
<1>1. ASSUME TypeInv, ScreenInv, GenuineInv PROVE ShownAsOftenAsSent
  <2> SUFFICES ASSUME NEW tab \in Tab, NEW i \in Conn, i = socket[tab], i \in greeted,
                      NEW a \in 1 .. made
               PROVE  Cardinality({p \in DOMAIN shown[tab] : alertOf[shown[tab][p].of] = a}) <=
                        Cardinality({row \in ToSet(queried[i]) : alertOf[row] = a}) +
                        Cardinality({n \in (1 .. Len(delivered[i])) \ early[i] :
                                       alertOf[log["alerts"][delivered[i][n]]] = a})
    <3>1. socket \in [Tab -> open \cup {NoConn}] /\ open \subseteq Conn
      BY <1>1 DEF TypeInv, TypeOK
    <3> QED BY <3>1 DEF ShownAsOftenAsSent
  <2>1. PICK s \in Seq(Copy) : s = shown[tab]
    BY <1>1 DEF TypeInv, TypeOK
  <2>2. PICK cut \in 0 .. Len(s) : Page(s, cut, Handled(i), InBacklog(i), early[i])
    BY <1>1, <2>1 DEF ScreenInv, Screen, Shows
  <2>3. PICK L \in Nat : L = Len(s) /\ DOMAIN s = 1 .. L /\ cut \in 0 .. L
    BY <2>2
  <2>4. PICK D \in Nat : D = Len(delivered[i])
    <3>1. PICK T, sent : sent = delivered[i] /\ sent \in Seq(T)
      BY <1>1 DEF TypeInv, TypeOK
    <3>2. Len(sent) \in Nat
      BY <3>1
    <3> QED BY <3>1, <3>2
  <2>5. PICK rows : rows = ToSet(queried[i]) /\ rows = InBacklog(i)
    BY DEF InBacklog, ToSet
  <2>6. \A p \in 1 .. L : s[p].n \in Nat /\ s[p].of \in Nat
    <3>1. \A S : \A x \in Seq(S) : \A n \in DOMAIN x : x[n] \in S
      OBVIOUS
    <3>2. \A p \in 1 .. L : s[p] \in Copy
      BY <2>3, <3>1
    <3> QED BY <3>2 DEF Copy
  <2> DEFINE X == {row \in rows : alertOf[row] = a}
             Y == {n \in (1 .. D) \ early[i] : alertOf[log["alerts"][delivered[i][n]]] = a}
             upper == {p \in 1 .. cut : alertOf[s[p].of] = a}
             lower == {p \in cut + 1 .. L : alertOf[s[p].of] = a}
  <2>7. IsFiniteSet(X) /\ IsFiniteSet(Y)
    <3>1. IsFiniteSet(1 .. made) /\ IsFiniteSet(1 .. D)
      <4>1. made \in Nat
        BY <1>1 DEF TypeInv, TypeOK
      <4> QED BY <4>1, FS_Interval
    <3>2. rows \subseteq 1 .. made
      <4>1. \A S : \A x \in Seq(S) : \A n \in DOMAIN x : x[n] \in S
        OBVIOUS
      <4>2. PICK T, q : q = queried[i] /\ q \in Seq(T) /\ T = 1 .. made
        BY <1>1 DEF TypeInv, TypeOK
      <4>3. \A n \in DOMAIN q : q[n] \in T
        BY <4>1, <4>2
      <4> QED BY <2>5, <4>2, <4>3 DEF ToSet
    <3>3. X \in SUBSET (1 .. made) /\ Y \in SUBSET (1 .. D)
      BY <3>2
    <3> QED BY <3>1, <3>3, FS_Subset
  <2>8. /\ IsFiniteSet(upper) /\ Cardinality(upper) \in Nat /\ Cardinality(Y) \in Nat
        /\ Cardinality(upper) <= Cardinality(Y)
    <3> DEFINE f == [p \in upper |-> s[p].n]
    <3>1. ASSUME NEW p \in upper PROVE f[p] \in Y
      <4>1. p \in 1 .. cut /\ p \in 1 .. L /\ s[p].n \in Handled(i) \ early[i] /\ alertOf[s[p].of] = a
        BY <2>2, <2>3 DEF Page
      <4>2. s[p].n \in 1 .. D /\ s[p].n # 0
        BY <2>4, <4>1 DEF Handled, Sent
      <4>3. Genuine(i, s[p])
        BY <1>1, <2>1, <2>3, <4>1 DEF GenuineInv
      <4>4. s[p].of = log["alerts"][delivered[i][s[p].n]]
        BY <4>2, <4>3 DEF Genuine
      <4> QED BY <4>1, <4>2, <4>4
    <3>2. \A p, q \in upper : s[p].n = s[q].n => p = q
      <4> SUFFICES ASSUME NEW p \in upper, NEW q \in upper, s[p].n = s[q].n, p < q PROVE FALSE
        BY <2>3
      <4>1. s[p].n > s[q].n
        BY <2>2, <2>3 DEF Page
      <4>2. s[q].n \in Nat
        BY <2>3, <2>6
      <4> QED BY <4>1, <4>2
    <3>3. f \in [upper -> Y] /\ \A p, q \in upper : f[p] = f[q] => p = q
      BY <3>1, <3>2
    <3> HIDE DEF upper, Y, f
    <3> QED BY <2>7, <3>3, MapsApart
  <2>9. /\ IsFiniteSet(lower) /\ Cardinality(lower) \in Nat /\ Cardinality(X) \in Nat
        /\ Cardinality(lower) <= Cardinality(X)
    <3> DEFINE f == [p \in lower |-> s[p].of]
    <3>1. ASSUME NEW p \in lower PROVE f[p] \in X
      BY <2>2, <2>3, <2>5 DEF Page
    <3>2. \A p, q \in lower : s[p].of = s[q].of => p = q
      <4> SUFFICES ASSUME NEW p \in lower, NEW q \in lower, s[p].of = s[q].of, p < q PROVE FALSE
        BY <2>3
      <4>1. s[p].of > s[q].of
        BY <2>2, <2>3 DEF Page
      <4>2. s[q].of \in Nat
        BY <2>3, <2>6
      <4> QED BY <4>1, <4>2
    <3>3. f \in [lower -> X] /\ \A p, q \in lower : f[p] = f[q] => p = q
      BY <3>1, <3>2
    <3> HIDE DEF lower, X, f
    <3> QED BY <2>7, <3>3, MapsApart
  <2>10. {p \in DOMAIN shown[tab] : alertOf[shown[tab][p].of] = a} = upper \cup lower
    BY <2>1, <2>3
  <2> HIDE DEF upper, lower, X, Y
  <2>11. Cardinality(upper \cup lower) <= Cardinality(X) + Cardinality(Y)
    <3>1. Cardinality(upper \cup lower) = Cardinality(upper) + Cardinality(lower) - Cardinality(upper \cap lower)
      BY <2>8, <2>9, FS_Union
    <3>2. Cardinality(upper \cap lower) \in Nat
      BY <2>8, <2>9, FS_Intersection, FS_CardinalityType
    <3> QED BY <2>8, <2>9, <3>1, <3>2
  <2> QED BY <2>4, <2>5, <2>10, <2>11 DEF X, Y
<1> QED BY <1>1, TypeInvariant, ScreenInvariant, GenuineInvariant, PTL
=============================================================================
