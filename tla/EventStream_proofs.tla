------------------------- MODULE EventStream_proofs -------------------------
(***************************************************************************)
(* Theorems about EventStream: the generator's rate and numbering, the order   *)
(* of the raw-events topic, what a connection hands on and the ingestion's      *)
(* backoff, for every number of entities, rate, bound and backoff the           *)
(* assumptions allow.                                                        *)
(***************************************************************************)
EXTENDS EventStream, InductionLemmas

(* Beside TypeOK: an end of the generator is a fault, and an entity has no more
   events in this life than the rate gave, less what is carried over. *)
WithinRate == \A e \in Entity : seq[e] * RateDown + carry <= ticks.here * RateUp

TypeInv ==
  /\ TypeOK
  /\ 1 <= life /\ life <= faults + 1 /\ (up \/ life <= faults)
  /\ WithinRate /\ ticks.here <= ticks.all
  /\ newest \in [Entity -> SUBSET Event]

(* The order of what is under way.  Sorted: the events of one entity follow each
   other; Before: those of the second sequence follow those of the first. *)
Sorted(s) ==
  \A i, j \in DOMAIN s : (i < j /\ s[i].entity = s[j].entity) => Later(s[j], s[i])
Before(s, t) ==
  \A i \in DOMAIN s, j \in DOMAIN t : s[i].entity = t[j].entity => Later(t[j], s[i])

\* events the generator has made, not those to come
Made(x) == x.life < life \/ (x.life = life /\ x.seq <= seq[x.entity])

\* events the ingestion is done with
DoneWith(x) == \E y \in newest[x.entity] : x = y \/ Later(y, x)
Awaited(x)  == Made(x) /\ \A y \in newest[x.entity] : Later(x, y)

AheadInOrder ==
  /\ Sorted(lines)
  /\ \A n \in DOMAIN out : Sorted(out[n]) /\ Before(lines, out[n])
  /\ \A n, m \in DOMAIN out : n < m => Before(out[n], out[m])

AheadIsNew ==
  /\ \A i \in DOMAIN lines : Awaited(lines[i])
  /\ \A n \in DOMAIN out : \A i \in DOMAIN out[n] : Awaited(out[n][i])

NewestIsLast ==
  /\ \A e \in Entity : \A y, z \in newest[e] : y = z /\ y.entity = e /\ Made(y)
  /\ \A k \in DOMAIN topic : DoneWith(topic[k])
  /\ \A x \in gaveUp : DoneWith(x)

OrderInv ==
  /\ AheadInOrder /\ AheadIsNew /\ NewestIsLast /\ TopicInOrder
  /\ \A x \in late : \A k \in DOMAIN topic : topic[k] # x

(* One failed connect per doubling: see BackoffFollowsOutage. *)
BackoffInv ==
  /\ BackoffFollowsOutage /\ attempt <= failed + 1
  /\ ing = "reading" => attempt = 0
-----------------------------------------------------------------------------
(* Arithmetic *)

(* The carry loses nothing: a tick that makes q events and carries r has an
   entity's count, of which it makes k at most q, still within the rate. *)
LEMMA CarryKept ==
  ASSUME NEW s \in Nat, NEW c \in Nat, NEW t \in Nat, NEW k \in Nat, NEW q \in Nat, NEW r \in Nat,
         k <= q, q * RateDown + r = c + RateUp, s * RateDown + c <= t * RateUp
  PROVE  (s + k) * RateDown + r <= (t + 1) * RateUp
<1>1. RateUp \in Nat /\ RateDown \in Nat
  BY RateAssumption
<1>2. k * RateDown <= q * RateDown
  BY <1>1
<1>3. /\ (s + k) * RateDown = s * RateDown + k * RateDown
      /\ (t + 1) * RateUp = t * RateUp + RateUp
  BY <1>1
<1>4. s * RateDown \in Nat /\ k * RateDown \in Nat /\ q * RateDown \in Nat /\ t * RateUp \in Nat
  BY <1>1
<1>5. s * RateDown + k * RateDown + r <= t * RateUp + RateUp
  BY <1>1, <1>2, <1>4
<1> QED BY <1>3, <1>5

\* A tick's number and its carry are together the old carry and the rate.
LEMMA TickCarries ==
  ASSUME carry \in Nat, NEW t \in EventsForTick(carry)
  PROVE  /\ t.n \in Nat /\ t.carry \in 0 .. RateDown /\ t.carry \in Nat
         /\ t.n * RateDown + t.carry = carry + RateUp
<1>1. RateUp \in Nat /\ RateDown \in Nat
  BY RateAssumption
<1>2. t.n \in 0 .. carry + RateUp /\ t.carry \in 0 .. RateDown /\ t.n * RateDown + t.carry = carry + RateUp
  BY DEF EventsForTick
<1> QED BY <1>1, <1>2

\* Within the rate, a count is within the bound of the type.
LEMMA CountBounded ==
  ASSUME NEW s \in Nat, NEW c \in Nat, NEW t \in Nat, t <= MaxTicks, s * RateDown + c <= t * RateUp
  PROVE  s <= (MaxTicks * RateUp) \div RateDown
<1>1. RateUp \in Nat /\ RateDown \in Nat /\ RateDown # 0 /\ MaxTicks \in Nat
  BY RateAssumption, BoundsAssumption
<1>2. t * RateUp <= MaxTicks * RateUp
  BY <1>1
<1>3. s * RateDown \in Nat /\ t * RateUp \in Nat /\ MaxTicks * RateUp \in Nat
  BY <1>1
<1>4. s * RateDown <= MaxTicks * RateUp
  BY <1>2, <1>3
<1>5. \A a \in Nat, b \in Nat \ {0}, x \in Nat : x * b <= a => x <= a \div b
  OBVIOUS
<1> QED BY <1>1, <1>3, <1>4, <1>5

(* Powers of two up to the shift of the code. *)
LEMMA Powers ==
  ASSUME NEW j \in 0 .. 10, NEW k \in 0 .. 10, j <= k
  PROVE  2 ^ j \in Nat \ {0} /\ 2 ^ k \in Nat /\ 2 ^ j <= 2 ^ k
<1>1. /\ 2 ^ 0 = 1 /\ 2 ^ 1 = 2 /\ 2 ^ 2 = 4 /\ 2 ^ 3 = 8 /\ 2 ^ 4 = 16 /\ 2 ^ 5 = 32
      /\ 2 ^ 6 = 64 /\ 2 ^ 7 = 128 /\ 2 ^ 8 = 256 /\ 2 ^ 9 = 512 /\ 2 ^ 10 = 1024
  OBVIOUS
<1>2. PICK f : f = [i \in 0 .. 10 |-> 2 ^ i]
  OBVIOUS
<1>3. /\ f[0] = 1 /\ f[1] = 2 /\ f[2] = 4 /\ f[3] = 8 /\ f[4] = 16 /\ f[5] = 32
      /\ f[6] = 64 /\ f[7] = 128 /\ f[8] = 256 /\ f[9] = 512 /\ f[10] = 1024
  BY <1>1, <1>2
<1>4. \A i \in 0 .. 10 : \/ i = 0 \/ i = 1 \/ i = 2 \/ i = 3 \/ i = 4 \/ i = 5
                         \/ i = 6 \/ i = 7 \/ i = 8 \/ i = 9 \/ i = 10
  OBVIOUS
<1>5. f[j] \in Nat \ {0} /\ f[k] \in Nat /\ f[j] <= f[k]
  BY <1>3, <1>4
<1>6. f[j] = 2 ^ j /\ f[k] = 2 ^ k
  BY <1>2
<1> QED BY <1>5, <1>6

\* The longest sleep is the base doubled, up to the cap, and does not shrink as the shift grows.
LEMMA LongestGrows ==
  ASSUME NEW j \in 0 .. MaxShift, NEW k \in 0 .. MaxShift, j <= k
  PROVE  /\ Longest(j) = Least(Base * 2 ^ j, Cap) /\ Longest(j) \in 0 .. Cap
         /\ Base \div 2 \in 0 .. Longest(j) /\ Longest(j) <= Longest(k)
<1>1. /\ MaxShift \in 0 .. 10 /\ Base \in Nat \ {0} /\ Cap \in Nat /\ Base <= Cap
      /\ j \in 0 .. 10 /\ k \in 0 .. 10 /\ j <= MaxShift /\ k <= MaxShift
  BY BackoffAssumption
<1>2. Least(j, MaxShift) = j /\ Least(k, MaxShift) = k
  BY <1>1 DEF Least
<1>3. PICK p, q \in Nat : p = 2 ^ j /\ q = 2 ^ k /\ 1 <= p /\ p <= q
  <2>1. 2 ^ j \in Nat \ {0} /\ 2 ^ k \in Nat /\ 2 ^ j <= 2 ^ k
    BY <1>1, Powers
  <2> QED BY <2>1
<1>4. Longest(j) = Least(Base * p, Cap) /\ Longest(k) = Least(Base * q, Cap)
  BY <1>2, <1>3 DEF Longest
<1>5. /\ Base * p \in Nat /\ Base * q \in Nat /\ Base <= Base * p /\ Base * p <= Base * q
      /\ Base \div 2 \in Nat /\ Base \div 2 <= Base
  <2>1. \A b, x, y \in Nat : 1 <= x /\ x <= y => b * x \in Nat /\ b * y \in Nat /\ b <= b * x /\ b * x <= b * y
    OBVIOUS
  <2> QED BY <1>1, <1>3, <2>1
<1> QED BY <1>1, <1>3, <1>4, <1>5 DEF Least
-----------------------------------------------------------------------------
(* Numbering the events of a tick *)

Draws(drawn, e, i) == {j \in 1 .. i : drawn[j] = e}

\* How often an entity was drawn: it grows with the prefix, and strictly where it is drawn.
LEMMA DrawsCounted ==
  ASSUME NEW n \in Nat, NEW drawn, NEW e, NEW i \in 0 .. n, NEW k \in 0 .. n, i <= k
  PROVE  /\ IsFiniteSet(Draws(drawn, e, k))
         /\ Cardinality(Draws(drawn, e, i)) \in 0 .. i
         /\ Cardinality(Draws(drawn, e, i)) <= Cardinality(Draws(drawn, e, k))
         /\ (i < k /\ drawn[k] = e) => Cardinality(Draws(drawn, e, i)) < Cardinality(Draws(drawn, e, k))
<1>1. \A m \in 0 .. n : /\ IsFiniteSet(Draws(drawn, e, m))
                        /\ Cardinality(Draws(drawn, e, m)) \in Nat
                        /\ Cardinality(Draws(drawn, e, m)) <= m
  <2> SUFFICES ASSUME NEW m \in 0 .. n
               PROVE  /\ IsFiniteSet(Draws(drawn, e, m))
                      /\ Cardinality(Draws(drawn, e, m)) \in Nat
                      /\ Cardinality(Draws(drawn, e, m)) <= m
    OBVIOUS
  <2>1. IsFiniteSet(1 .. m) /\ Cardinality(1 .. m) = m
    BY FS_Interval
  <2>2. Draws(drawn, e, m) \subseteq 1 .. m
    BY DEF Draws
  <2>3. IsFiniteSet(Draws(drawn, e, m)) /\ Cardinality(Draws(drawn, e, m)) <= m
    BY <2>1, <2>2, FS_Subset
  <2> QED BY <2>3, FS_CardinalityType
<1>2. Draws(drawn, e, i) \subseteq Draws(drawn, e, k)
  BY DEF Draws
<1>3. Cardinality(Draws(drawn, e, i)) <= Cardinality(Draws(drawn, e, k))
  BY <1>1, <1>2, FS_Subset
<1>4. ASSUME i < k, drawn[k] = e
      PROVE  Cardinality(Draws(drawn, e, i)) < Cardinality(Draws(drawn, e, k))
  <2>1. k \in Draws(drawn, e, k) /\ k \notin Draws(drawn, e, i)
    BY <1>4 DEF Draws
  <2>2. Draws(drawn, e, i) # Draws(drawn, e, k)
    BY <2>1
  <2>3. Cardinality(Draws(drawn, e, i)) # Cardinality(Draws(drawn, e, k))
    BY <1>1, <1>2, <2>2, FS_Subset
  <2> QED BY <1>1, <1>3, <2>3
<1> QED BY <1>1, <1>3, <1>4

Drawn(drawn, e, i) == Cardinality(Draws(drawn, e, i))

(* Whatever entities the draws fall on, together they have been drawn as often as
   there were draws. *)
LEMMA DrawsSum ==
  ASSUME NEW D, IsFiniteSet(D), NEW n \in Nat, NEW drawn \in [1 .. n -> D]
  PROVE  Total([e \in D |-> Drawn(drawn, e, n)]) = n
<1> DEFINE count(k) == [e \in D |-> Drawn(drawn, e, k)]
           S == {k \in Nat : k <= n => Total(count(k)) = k}
<1>1. \A k \in Nat : \A e \in D : Drawn(drawn, e, k) \in Nat /\ IsFiniteSet(Draws(drawn, e, k))
  <2> SUFFICES ASSUME NEW k \in Nat, NEW e \in D PROVE Drawn(drawn, e, k) \in Nat /\ IsFiniteSet(Draws(drawn, e, k))
    OBVIOUS
  <2>1. IsFiniteSet(1 .. k) /\ Draws(drawn, e, k) \subseteq 1 .. k
    BY FS_Interval DEF Draws
  <2> QED BY <2>1, FS_Subset, FS_CardinalityType DEF Drawn
<1>2. 0 \in S
  <2>1. \A e \in D : Drawn(drawn, e, 0) = 0
    BY FS_EmptySet DEF Drawn, Draws
  <2>2. count(0) \in [D -> Nat] /\ \A e \in D : count(0)[e] = 0
    BY <2>1
  <2>3. Total(count(0)) = 0
    <3> HIDE DEF count, S
    <3> QED BY <2>2, SumOfZeros
  <2> QED BY <2>3
<1>3. ASSUME NEW k \in Nat, k \in S PROVE k + 1 \in S
  <2> SUFFICES ASSUME k + 1 <= n PROVE Total(count(k + 1)) = k + 1
    OBVIOUS
  <2>1. PICK d \in D : d = drawn[k + 1]
    OBVIOUS
  <2>2. PICK one : one = [e \in D |-> IF e = d THEN 1 ELSE 0]
    OBVIOUS
  <2>3. one \in [D -> Nat] /\ Total(one) = 1
    <3>1. one \in [D -> Nat] /\ \A e \in D : one[e] = IF e = d THEN 1 ELSE 0
      BY <2>2
    <3> QED BY <3>1, SumOfIndicator
  <2>4. ASSUME NEW e \in D PROVE Drawn(drawn, e, k + 1) = Drawn(drawn, e, k) + one[e]
    <3>1. CASE e = d
      <4>1. Draws(drawn, e, k + 1) = Draws(drawn, e, k) \cup {k + 1} /\ k + 1 \notin Draws(drawn, e, k)
        BY <2>1, <3>1 DEF Draws
      <4>2. Drawn(drawn, e, k + 1) = Drawn(drawn, e, k) + 1
        BY <1>1, <4>1, FS_AddElement DEF Drawn
      <4> QED BY <2>2, <3>1, <4>2
    <3>2. CASE e # d
      <4>1. Draws(drawn, e, k + 1) = Draws(drawn, e, k)
        BY <2>1, <3>2 DEF Draws
      <4>2. one[e] = 0 /\ Drawn(drawn, e, k) \in Nat
        BY <1>1, <2>2, <3>2
      <4> QED BY <4>1, <4>2 DEF Drawn
    <3> QED BY <3>1, <3>2
  <2>5. PICK f, g : f = count(k) /\ g = count(k + 1)
    OBVIOUS
  <2>6. Total(g) = Total(f) + Total(one)
    <3>1. ASSUME NEW e \in D PROVE g[e] = f[e] + one[e] /\ g[e] \in Nat /\ f[e] \in Nat
      <4>1. f[e] = Drawn(drawn, e, k) /\ g[e] = Drawn(drawn, e, k + 1)
        BY <2>5
      <4>2. k + 1 \in Nat
        OBVIOUS
      <4>3. Drawn(drawn, e, k) \in Nat /\ Drawn(drawn, e, k + 1) \in Nat
        BY <1>1, <4>2
      <4> QED BY <2>4, <4>1, <4>3
    <3>2. f \in [D -> Nat] /\ g \in [D -> Nat] /\ AddsUp(g, f, one, D)
      BY <2>5, <3>1 DEF AddsUp
    <3>3. one \in [D -> Nat]
      BY <2>3
    <3> HIDE DEF count, S
    <3>4. PICK a, b, c : a = Total(f) /\ b = Total(one) /\ c = Total(g)
      OBVIOUS
    <3>5. a \in Nat /\ b \in Nat /\ c = a + b
      <4>1. \A u, v, w \in [D -> Nat] : AddsUp(w, u, v, D) => Total(u) \in Nat /\ Total(v) \in Nat /\ Total(w) = Total(u) + Total(v)
        BY SumAdds
      <4> QED BY <3>2, <3>3, <3>4, <4>1
    <3> QED BY <3>4, <3>5
  <2>7. Total(count(k)) = k
    BY <1>3
  <2>8. Total(g) = k + 1
    BY <2>3, <2>5, <2>6, <2>7
  <2> QED BY <2>5, <2>8
<1>4. \A k \in Nat : k \in S
  <2> HIDE DEF S
  <2> QED BY <1>2, <1>3, Inductive
<1> QED BY <1>4

(* What a tick makes: for each entity numbers beyond its last one, in order, up to
   its new last one, which is still within the rate. *)
NewSeq(drawn) == [e \in Entity |-> seq[e] + Cardinality({i \in DOMAIN drawn : drawn[i] = e})]

\* What the events of one tick are: new numbers, in order, within the rate.
LEMMA TickNumbers ==
  ASSUME TypeInv, ticks.all < MaxTicks, NEW t \in EventsForTick(carry),
         NEW drawn \in [1 .. t.n -> Entity]
  PROVE  /\ NewSeq(drawn) \in [Entity -> Nat]
         /\ \A e \in Entity :
              NewSeq(drawn)[e] * RateDown + t.carry <= (ticks.here + 1) * RateUp
         /\ \A e \in Entity : seq[e] <= NewSeq(drawn)[e]
         /\ NumberedEvents(drawn) \in Seq(Event)
         /\ Sorted(NumberedEvents(drawn))
         /\ \A i \in DOMAIN NumberedEvents(drawn) :
              LET x == NumberedEvents(drawn)[i]
              IN  /\ x.entity \in Entity /\ x.life = life
                  /\ x.seq > seq[x.entity] /\ x.seq <= NewSeq(drawn)[x.entity]
<1>1. PICK n, c : n = t.n /\ c = t.carry
  OBVIOUS
<1>2. /\ carry \in 0 .. RateDown /\ seq \in [Entity -> Nat] /\ life \in Nat /\ life >= 1
      /\ ticks.here \in 0 .. MaxTicks /\ ticks.all \in 0 .. MaxTicks /\ ticks.here <= ticks.all
      /\ faults \in 0 .. MaxFaults /\ life <= faults + 1
  BY DEF TypeInv, TypeOK
<1>3. RateUp \in Nat /\ RateDown \in Nat \ {0} /\ MaxTicks \in Nat /\ MaxFaults \in Nat
  BY RateAssumption, BoundsAssumption
<1>4. n \in Nat /\ c \in Nat /\ n * RateDown + c = carry + RateUp
  <2>1. carry \in Nat
    BY <1>2, <1>3
  <2> QED BY <1>1, <2>1, TickCarries
<1>n. n \in Nat
  BY <1>4
<1>5. drawn \in [1 .. n -> Entity] /\ DOMAIN drawn = 1 .. n
  BY <1>1
<1>6. \A e \in Entity : NewSeq(drawn)[e] = seq[e] + Drawn(drawn, e, n) /\ Drawn(drawn, e, n) \in 0 .. n
  <2> SUFFICES ASSUME NEW e \in Entity PROVE NewSeq(drawn)[e] = seq[e] + Drawn(drawn, e, n) /\ Drawn(drawn, e, n) \in 0 .. n
    OBVIOUS
  <2>1. {i \in DOMAIN drawn : drawn[i] = e} = Draws(drawn, e, n)
    BY <1>5 DEF Draws
  <2>2. Drawn(drawn, e, n) \in 0 .. n
    BY <1>n, DrawsCounted DEF Drawn
  <2> QED BY <2>1, <2>2 DEF NewSeq, Drawn
<1>7. /\ NewSeq(drawn) \in [Entity -> Nat]
      /\ \A e \in Entity : seq[e] \in Nat /\ NewSeq(drawn)[e] \in Nat /\ seq[e] <= NewSeq(drawn)[e]
  <2>1. \A e \in Entity : seq[e] \in Nat /\ NewSeq(drawn)[e] \in Nat /\ seq[e] <= NewSeq(drawn)[e]
    BY <1>2, <1>4, <1>6
  <2> QED BY <2>1 DEF NewSeq
<1>8. ASSUME NEW e \in Entity
      PROVE  NewSeq(drawn)[e] * RateDown + c <= (ticks.here + 1) * RateUp
  <2>1. seq[e] * RateDown + carry <= ticks.here * RateUp
    BY DEF TypeInv, WithinRate
  <2>2. PICK s \in Nat, k \in Nat, u \in Nat, h \in Nat :
          s = seq[e] /\ k = Drawn(drawn, e, n) /\ u = carry /\ h = ticks.here
    <3>1. seq[e] \in Nat /\ carry \in Nat /\ ticks.here \in Nat
      BY <1>2, <1>3
    <3>2. Drawn(drawn, e, n) \in Nat
      BY <1>4, <1>6
    <3> QED BY <3>1, <3>2
  <2>3. k <= n /\ n * RateDown + c = u + RateUp /\ s * RateDown + u <= h * RateUp
    BY <1>4, <1>6, <2>1, <2>2
  <2>4. (s + k) * RateDown + c <= (h + 1) * RateUp
    BY <1>4, <2>3, CarryKept
  <2> QED BY <1>6, <2>2, <2>4
<1>9. \A e \in Entity : NewSeq(drawn)[e] <= (MaxTicks * RateUp) \div RateDown
  <2> SUFFICES ASSUME NEW e \in Entity PROVE NewSeq(drawn)[e] <= (MaxTicks * RateUp) \div RateDown
    OBVIOUS
  <2>1. ticks.here + 1 \in Nat /\ ticks.here + 1 <= MaxTicks
    BY <1>2, <1>3
  <2> QED BY <1>4, <1>7, <1>8, <2>1, CountBounded
<1>10. ASSUME NEW i \in 1 .. n
       PROVE  /\ drawn[i] \in Entity /\ Drawn(drawn, drawn[i], i) \in Nat
              /\ 1 <= Drawn(drawn, drawn[i], i) /\ Drawn(drawn, drawn[i], i) <= Drawn(drawn, drawn[i], n)
              /\ NumberedEvents(drawn)[i].entity = drawn[i] /\ NumberedEvents(drawn)[i].life = life
              /\ NumberedEvents(drawn)[i].seq = seq[drawn[i]] + Drawn(drawn, drawn[i], i)
              /\ NumberedEvents(drawn)[i] = [entity |-> drawn[i], life |-> life,
                                            seq |-> seq[drawn[i]] + Drawn(drawn, drawn[i], i)]
  <2>1. drawn[i] \in Entity
    BY <1>5
  <2>2. {j \in 1 .. i : drawn[j] = drawn[i]} = Draws(drawn, drawn[i], i)
    BY DEF Draws
  <2>3. Drawn(drawn, drawn[i], i) <= Drawn(drawn, drawn[i], n) /\ Drawn(drawn, drawn[i], i) \in 0 .. i
    BY <1>4, DrawsCounted DEF Drawn
  <2>4. Drawn(drawn, drawn[i], 0) < Drawn(drawn, drawn[i], i) /\ Drawn(drawn, drawn[i], 0) \in 0 .. 0
    <3>1. 0 \in 0 .. n /\ i \in 0 .. n /\ 0 <= i /\ 0 < i
      BY <1>4
    <3> QED BY <1>4, <3>1, DrawsCounted DEF Drawn
  <2>5. Drawn(drawn, drawn[i], i) \in Nat /\ 1 <= Drawn(drawn, drawn[i], i)
    BY <1>4, <2>3, <2>4
  <2>6. NumberedEvents(drawn)[i] = [entity |-> drawn[i], life |-> life,
           seq |-> seq[drawn[i]] + Cardinality({j \in 1 .. i : drawn[j] = drawn[i]})]
    BY <1>5 DEF NumberedEvents
  <2>7. NumberedEvents(drawn)[i] = [entity |-> drawn[i], life |-> life,
                                    seq |-> seq[drawn[i]] + Drawn(drawn, drawn[i], i)]
    BY <2>2, <2>6 DEF Drawn
  <2> QED BY <2>1, <2>3, <2>5, <2>7
<1>11. DOMAIN NumberedEvents(drawn) = 1 .. n
  BY <1>5 DEF NumberedEvents
<1>12. ASSUME NEW i \in 1 .. n
       PROVE  LET x == NumberedEvents(drawn)[i]
              IN  /\ x \in Event /\ x.entity \in Entity /\ x.life = life
                  /\ x.seq > seq[x.entity] /\ x.seq <= NewSeq(drawn)[x.entity]
  <2>1. PICK d \in Entity, k \in Nat :
          /\ d = drawn[i] /\ k = Drawn(drawn, drawn[i], i) /\ 1 <= k /\ k <= Drawn(drawn, d, n)
          /\ NumberedEvents(drawn)[i] = [entity |-> d, life |-> life, seq |-> seq[d] + k]
    <3>1. /\ Drawn(drawn, drawn[i], i) \in Nat /\ 1 <= Drawn(drawn, drawn[i], i)
      BY <1>4, <1>10
    <3>2. drawn[i] \in Entity
      BY <1>10
    <3> QED BY <1>10, <3>1, <3>2
  <2>2. seq[d] + k \in Nat /\ seq[d] + k > seq[d] /\ seq[d] + k <= NewSeq(drawn)[d]
    BY <1>2, <1>4, <1>6, <2>1, SMTT(30)
  <2>3. seq[d] + k \in 1 .. ((MaxTicks * RateUp) \div RateDown)
    <3>1. \A a \in Nat, b \in Nat \ {0} : a \div b \in Nat
      OBVIOUS
    <3>2. (MaxTicks * RateUp) \div RateDown \in Nat
      BY <1>3, <3>1
    <3> QED BY <1>2, <1>7, <1>9, <2>1, <2>2, <3>2
  <2>4. life \in 1 .. MaxFaults + 1
    BY <1>2, <1>3
  <2> QED BY <2>1, <2>2, <2>3, <2>4 DEF Event
<1>13. NumberedEvents(drawn) \in Seq(Event)
  <2>1. \A i \in 1 .. n : NumberedEvents(drawn)[i] \in Event
    BY <1>12
  <2>2. NumberedEvents(drawn) = [i \in 1 .. n |-> NumberedEvents(drawn)[i]]
    BY <1>5 DEF NumberedEvents
  <2>3. NumberedEvents(drawn) \in [1 .. n -> Event]
    BY <2>1, <2>2
  <2> QED BY <1>4, <2>3
<1>14. Sorted(NumberedEvents(drawn))
  <2> SUFFICES ASSUME NEW i \in 1 .. n, NEW j \in 1 .. n, i < j,
                      NumberedEvents(drawn)[i].entity = NumberedEvents(drawn)[j].entity
               PROVE  Later(NumberedEvents(drawn)[j], NumberedEvents(drawn)[i])
    BY <1>11 DEF Sorted
  <2>0. \A k \in 1 .. n : NumberedEvents(drawn)[k].entity = drawn[k]
    BY <1>4, <1>10
  <2>1. drawn[i] = drawn[j]
    BY <2>0
  <2>2. Drawn(drawn, drawn[j], i) < Drawn(drawn, drawn[j], j)
    <3>1. i \in 0 .. n /\ j \in 0 .. n /\ i <= j
      BY <1>4
    <3> QED BY <1>4, <3>1, DrawsCounted DEF Drawn
  <2>3. /\ NumberedEvents(drawn)[i].seq = seq[drawn[j]] + Drawn(drawn, drawn[j], i)
        /\ NumberedEvents(drawn)[j].seq = seq[drawn[j]] + Drawn(drawn, drawn[j], j)
        /\ NumberedEvents(drawn)[i].life = life /\ NumberedEvents(drawn)[j].life = life
        /\ Drawn(drawn, drawn[j], i) \in Nat /\ Drawn(drawn, drawn[j], j) \in Nat /\ seq[drawn[j]] \in Nat
    <3>1. \A k \in 1 .. n : /\ NumberedEvents(drawn)[k].seq = seq[drawn[k]] + Drawn(drawn, drawn[k], k)
                            /\ NumberedEvents(drawn)[k].life = life /\ drawn[k] \in Entity
      BY <1>4, <1>10
    <3>2. \A k \in 1 .. n : Drawn(drawn, drawn[k], k) \in Nat
      BY <1>4, <1>10
    <3> QED BY <1>2, <2>1, <3>1, <3>2
  <2> QED BY <2>2, <2>3 DEF Later
<1> QED BY <1>1, <1>4, <1>7, <1>8, <1>11, <1>12, <1>13, <1>14
-----------------------------------------------------------------------------
\* Prefixes, tails and the like keep their types.
LEMMA SeqTypes ==
  ASSUME NEW S, NEW s \in Seq(S)
  PROVE  /\ \A n \in 0 .. Len(s) : /\ SubSeq(s, 1, n) \in Seq(S) /\ DOMAIN SubSeq(s, 1, n) = 1 .. n
                                   /\ \A i \in 1 .. n : SubSeq(s, 1, n)[i] = s[i]
         /\ \A x \in S : /\ Append(s, x) \in Seq(S) /\ DOMAIN Append(s, x) = 1 .. Len(s) + 1
                         /\ \A i \in 1 .. Len(s) : Append(s, x)[i] = s[i]
                         /\ Append(s, x)[Len(s) + 1] = x
         /\ s # <<>> => /\ Head(s) \in S /\ s[1] = Head(s) /\ 1 \in DOMAIN s /\ Tail(s) \in Seq(S)
                        /\ DOMAIN Tail(s) = 1 .. Len(s) - 1
                        /\ \A i \in DOMAIN Tail(s) : i + 1 \in DOMAIN s /\ Tail(s)[i] = s[i + 1]
         /\ DOMAIN s = 1 .. Len(s) /\ Len(s) \in Nat /\ \A i \in DOMAIN s : s[i] \in S
  OBVIOUS

(* The types of what a step of the generator or the ingestion leaves alone. *)
LEMMA InitTyped == Init => TypeInv
<1> SUFFICES ASSUME Init PROVE TypeInv
  OBVIOUS
<1> USE RateAssumption, BackoffAssumption, BoundsAssumption DEF Init
<1>1. TypeOK
  BY DEF TypeOK
<1>2. WithinRate
  <2>1. \A e \in Entity : seq[e] = 0
    OBVIOUS
  <2>2. 0 * RateDown + 0 = 0 /\ 0 * RateUp = 0
    OBVIOUS
  <2> QED BY <2>1, <2>2 DEF WithinRate
<1> QED BY <1>1, <1>2 DEF TypeInv

\* A round of the producer loop keeps the types.
LEMMA TickTyped ==
  ASSUME TypeInv, Tick
  PROVE  TypeInv'
<1>0. /\ ticks.all < MaxTicks /\ ticks' = [all |-> ticks.all + 1, here |-> ticks.here + 1]
      /\ up' = up
      /\ UNCHANGED <<life, link, ing, lines, attempt, delay, failed, topic, late, gaveUp, newest, faults>>
  BY DEF Tick, ingVars, kafka
<1>t. PICK t \in EventsForTick(carry) : \E drawn \in [1 .. t.n -> Entity] :
        /\ carry' = t.carry /\ seq' = NewSeq(drawn)
        /\ out' = out \/ out' = Append(out, NumberedEvents(drawn))
        /\ aired' = aired \/ aired' = aired \o NumberedEvents(drawn)
  BY DEF Tick, NewSeq
<1>1. PICK drawn \in [1 .. t.n -> Entity] :
        /\ carry' = t.carry /\ seq' = NewSeq(drawn)
        /\ out' = out \/ out' = Append(out, NumberedEvents(drawn))
        /\ aired' = aired \/ aired' = aired \o NumberedEvents(drawn)
  BY <1>t
<1>2. /\ t.carry \in 0 .. RateDown
      /\ NewSeq(drawn) \in [Entity -> Nat] /\ NumberedEvents(drawn) \in Seq(Event)
      /\ \A e \in Entity : NewSeq(drawn)[e] * RateDown + t.carry <= (ticks.here + 1) * RateUp
  <2>1. carry \in Nat
    BY RateAssumption DEF TypeInv, TypeOK
  <2>2. t.carry \in 0 .. RateDown
    BY <2>1, TickCarries
  <2> QED BY <1>0, <2>2, TickNumbers
<1>3. out' \in Seq(Seq(Event)) /\ aired' \in Seq(Event)
  <2>1. out \in Seq(Seq(Event)) /\ aired \in Seq(Event)
    BY DEF TypeInv, TypeOK
  <2>2. \A s \in Seq(Seq(Event)), x \in Seq(Event) : Append(s, x) \in Seq(Seq(Event))
    OBVIOUS
  <2>3. \A s, x \in Seq(Event) : s \o x \in Seq(Event)
    OBVIOUS
  <2> QED BY <1>1, <1>2, <2>1, <2>2, <2>3
<1>4. /\ ticks.all \in Nat /\ ticks.here \in Nat /\ ticks.here <= ticks.all
      /\ ticks' \in [all : 0 .. MaxTicks, here : 0 .. MaxTicks]
      /\ ticks'.here = ticks.here + 1 /\ ticks'.all = ticks.all + 1
  BY <1>0, BoundsAssumption, SMTT(30) DEF TypeInv, TypeOK
<1>5. WithinRate'
  <2>1. \A e \in Entity : seq'[e] * RateDown + carry' <= ticks'.here * RateUp
    BY <1>0, <1>1, <1>2, <1>4
  <2> QED BY <2>1 DEF WithinRate
<1>6. TypeOK'
  BY <1>0, <1>1, <1>2, <1>3, <1>4 DEF TypeInv, TypeOK
<1> QED BY <1>0, <1>4, <1>5, <1>6 DEF TypeInv

\* Sleeping keeps the types of the backoff.
LEMMA SleepTyped ==
  ASSUME NEW k \in 0 .. MaxShift, Sleep(k)
  PROVE  /\ ing' = "sleeping" /\ attempt' \in 0 .. MaxShift /\ attempt' <= k + 1
         /\ delay' \in (Base \div 2) .. Least(Base * 2 ^ k, Cap) /\ delay' \in 0 .. Cap
<1>1. /\ Longest(k) = Least(Base * 2 ^ k, Cap) /\ Longest(k) \in 0 .. Cap
      /\ Base \div 2 \in 0 .. Longest(k)
  BY LongestGrows
<1>2. MaxShift \in Nat /\ Cap \in Nat
  BY BackoffAssumption
<1>3. attempt' = Least(k + 1, MaxShift) /\ delay' \in {Base \div 2, Longest(k)} /\ ing' = "sleeping"
  BY DEF Sleep
<1>4. attempt' \in 0 .. MaxShift /\ attempt' <= k + 1
  BY <1>2, <1>3 DEF Least
<1> HIDE DEF Longest
<1> QED BY <1>1, <1>2, <1>3, <1>4

\* The line in hand is an event, and so is what follows it.
LEMMA LineTyped ==
  ASSUME TypeInv, lines # <<>>
  PROVE  /\ lines[1] \in Event /\ Tail(lines) \in Seq(Event)
         /\ lines[1].entity \in Entity
         /\ [newest EXCEPT ![lines[1].entity] = {lines[1]}] \in [Entity -> SUBSET Event]
<1>1. lines \in Seq(Event)
  BY DEF TypeInv, TypeOK
<1>2. lines[1] \in Event /\ Tail(lines) \in Seq(Event)
  BY <1>1
<1>3. lines[1].entity \in Entity
  BY <1>2 DEF Event
<1>4. newest \in [Entity -> SUBSET Event]
  BY DEF TypeInv
<1> QED BY <1>2, <1>3, <1>4

(* What the generator's side of TypeInv is about; and the ingestion's and Kafka's. *)
GenTypes ==
  /\ up \in BOOLEAN /\ life \in Nat /\ carry \in 0 .. RateDown /\ seq \in [Entity -> Nat]
  /\ ticks \in [all : 0 .. MaxTicks, here : 0 .. MaxTicks] /\ faults \in 0 .. MaxFaults
  /\ 1 <= life /\ life <= faults + 1 /\ (up \/ life <= faults)
  /\ WithinRate /\ ticks.here <= ticks.all
LinkTypes ==
  /\ link \in {"none", "accepted", "open", "broken"} /\ out \in Seq(Seq(Event)) /\ aired \in Seq(Event)
IngTypes ==
  /\ ing \in {"connecting", "reading", "sleeping"} /\ lines \in Seq(Event)
  /\ attempt \in 0 .. MaxShift /\ failed \in 0 .. MaxShift /\ delay \in 0 .. Cap
KafkaTypes ==
  /\ topic \in Seq(Event) /\ late \subseteq gaveUp /\ gaveUp \subseteq Event
  /\ newest \in [Entity -> SUBSET Event]

\* The type invariant, part by part.
LEMMA TypeParts == TypeInv <=> GenTypes /\ LinkTypes /\ IngTypes /\ KafkaTypes
  BY DEF TypeInv, TypeOK, GenTypes, LinkTypes, IngTypes, KafkaTypes

\* The generator's types when it does nothing.
LEMMA GenFrame ==
  ASSUME GenTypes, UNCHANGED <<up, life, carry, seq, ticks>>, faults' = faults \/ Fault
  PROVE  GenTypes'
<1>1. faults' \in 0 .. MaxFaults /\ faults <= faults'
  BY BoundsAssumption DEF GenTypes, Fault
<1>2. WithinRate'
  BY DEF GenTypes, WithinRate
<1>3. life \in Nat /\ faults \in Nat /\ faults' \in Nat
  BY <1>1, BoundsAssumption DEF GenTypes
<1>4. /\ up' \in BOOLEAN /\ life' \in Nat /\ carry' \in 0 .. RateDown /\ seq' \in [Entity -> Nat]
      /\ ticks' \in [all : 0 .. MaxTicks, here : 0 .. MaxTicks] /\ ticks'.here <= ticks'.all
  BY DEF GenTypes
<1>5. 1 <= life /\ life <= faults + 1
  BY DEF GenTypes
<1>6. 1 <= life' /\ life' <= faults' + 1 /\ (life <= faults => life' <= faults')
  <2>1. life' = life
    OBVIOUS
  <2>2. \A l, f, g \in Nat : (1 <= l /\ l <= f + 1 /\ f <= g) => (l <= g + 1 /\ (l <= f => l <= g))
    OBVIOUS
  <2>3. faults <= faults'
    BY <1>1
  <2>4. life <= faults' + 1
    BY <1>3, <1>5, <2>2, <2>3
  <2>5. life <= faults => life <= faults'
    BY <1>3, <1>5, <2>2, <2>3
  <2>6. life <= faults => life' <= faults'
    BY <2>1, <2>5
  <2>7. 1 <= life' /\ life' <= faults' + 1
    BY <1>5, <2>1, <2>4
  <2> QED BY <2>6, <2>7
<1>7. up' \/ life' <= faults'
  BY <1>6, Zenon DEF GenTypes
<1> QED BY <1>1, <1>2, <1>4, <1>6, <1>7, Zenon DEF GenTypes

\* Every step keeps the types.
LEMMA TypeStep ==
  ASSUME TypeInv, [Next]_vars
  PROVE  TypeInv'
<1> USE DEF genVars, ingVars, kafka
<1>0. GenTypes /\ LinkTypes /\ IngTypes /\ KafkaTypes
  BY TypeParts
<1>p. ASSUME GenTypes', LinkTypes', IngTypes', KafkaTypes' PROVE TypeInv'
  BY <1>p DEF TypeInv, TypeOK, GenTypes, LinkTypes, IngTypes, KafkaTypes
<1>1. CASE Tick
  BY <1>1, TickTyped
<1>2. CASE Register
  <2>1. link' = "open" /\ UNCHANGED <<genVars, out, ingVars, kafka, ticks, faults, aired>>
    BY <1>2 DEF Register
  <2>2. GenTypes'
    BY <1>0, <2>1, GenFrame
  <2>3. LinkTypes' /\ IngTypes' /\ KafkaTypes'
    BY <1>0, <2>1 DEF LinkTypes, IngTypes, KafkaTypes
  <2> QED BY <2>2, <2>3, <1>p
<1>3. CASE Break
  <2>1. PICK n \in 0 .. Len(out) : out' = SubSeq(out, 1, n)
    BY <1>3 DEF Break
  <2>2. link' = "broken" /\ Fault /\ UNCHANGED <<genVars, ingVars, kafka, ticks, aired>>
    BY <1>3 DEF Break
  <2>3. GenTypes'
    BY <1>0, <2>2, GenFrame
  <2>4. out' \in Seq(Seq(Event))
    BY <1>0, <2>1, SeqTypes DEF LinkTypes
  <2>5. LinkTypes' /\ IngTypes' /\ KafkaTypes'
    BY <1>0, <2>2, <2>4 DEF LinkTypes, IngTypes, KafkaTypes
  <2> QED BY <2>3, <2>5, <1>p
<1>4. CASE GeneratorEnds
  <2>1. PICK n \in 0 .. Len(out) : out' = SubSeq(out, 1, n)
    BY <1>4 DEF GeneratorEnds
  <2>2. /\ up /\ up' = FALSE /\ Fault /\ UNCHANGED <<life, carry, seq, ingVars, kafka, ticks, aired>>
        /\ link' \in {"none", "broken"}
    BY <1>4 DEF GeneratorEnds
  <2>3. GenTypes'
    <3>1. faults' \in 0 .. MaxFaults /\ faults' = faults + 1
      BY <1>0, <2>2, BoundsAssumption DEF GenTypes, Fault
    <3>2. WithinRate'
      BY <1>0, <2>2 DEF GenTypes, WithinRate
    <3>3. life \in Nat /\ faults \in Nat /\ 1 <= life /\ life <= faults + 1
      BY <1>0, <2>2, BoundsAssumption DEF GenTypes
    <3>4. life' \in Nat /\ 1 <= life' /\ life' <= faults' + 1 /\ life' <= faults'
      BY <2>2, <3>1, <3>3
    <3>5. /\ up' \in BOOLEAN /\ carry' \in 0 .. RateDown /\ seq' \in [Entity -> Nat]
          /\ ticks' \in [all : 0 .. MaxTicks, here : 0 .. MaxTicks] /\ ticks'.here <= ticks'.all
      BY <1>0, <2>2 DEF GenTypes
    <3> QED BY <3>1, <3>2, <3>4, <3>5, Zenon DEF GenTypes
  <2>4. out' \in Seq(Seq(Event))
    BY <1>0, <2>1, SeqTypes DEF LinkTypes
  <2>5. LinkTypes' /\ IngTypes' /\ KafkaTypes'
    BY <1>0, <2>2, <2>4 DEF LinkTypes, IngTypes, KafkaTypes
  <2> QED BY <2>3, <2>5, <1>p
<1>5. CASE GeneratorStarts
  <2>1. /\ ~up /\ up' = TRUE /\ life' = life + 1 /\ carry' = 0 /\ seq' = [e \in Entity |-> 0]
        /\ ticks' = [ticks EXCEPT !.here = 0]
        /\ UNCHANGED <<link, out, ingVars, kafka, faults, aired>>
    BY <1>5 DEF GeneratorStarts
  <2>2. GenTypes'
    <3>1. ticks' \in [all : 0 .. MaxTicks, here : 0 .. MaxTicks] /\ ticks'.here = 0 /\ ticks'.here <= ticks'.all
      BY <1>0, <2>1, BoundsAssumption DEF GenTypes
    <3>2. life \in Nat /\ faults \in Nat /\ life + 1 <= faults + 1
      BY <1>0, <2>1, BoundsAssumption DEF GenTypes
    <3>3. WithinRate'
      <4>1. 0 * RateDown + 0 = 0 /\ 0 * RateUp = 0
        BY RateAssumption
      <4> QED BY <2>1, <3>1, <4>1 DEF WithinRate
    <3> QED BY <1>0, <2>1, <3>1, <3>2, <3>3, RateAssumption DEF GenTypes
  <2>3. LinkTypes' /\ IngTypes' /\ KafkaTypes'
    BY <1>0, <2>1 DEF LinkTypes, IngTypes, KafkaTypes
  <2> QED BY <2>2, <2>3, <1>p
<1>6. CASE Connect
  <2>1. /\ ing' = "reading" /\ link' = "accepted" /\ out' = <<>> /\ attempt' = 0 /\ failed' = 0 /\ aired' = <<>>
        /\ UNCHANGED <<genVars, lines, delay, kafka, ticks, faults>>
    BY <1>6 DEF Connect
  <2>2. GenTypes'
    BY <1>0, <2>1, GenFrame
  <2>3. LinkTypes' /\ IngTypes' /\ KafkaTypes'
    BY <1>0, <2>1, BackoffAssumption DEF LinkTypes, IngTypes, KafkaTypes
  <2> QED BY <2>2, <2>3, <1>p
<1>7. CASE ConnectFails
  <2>1. /\ Sleep(attempt) /\ failed' = Least(failed + 1, MaxShift) /\ (faults' = faults \/ Fault)
        /\ UNCHANGED <<genVars, link, out, lines, kafka, ticks, aired>>
    BY <1>7 DEF ConnectFails
  <2>2. GenTypes'
    BY <1>0, <2>1, GenFrame
  <2>3. ing' = "sleeping" /\ attempt' \in 0 .. MaxShift /\ delay' \in 0 .. Cap
    <3>1. attempt \in 0 .. MaxShift
      BY <1>0 DEF IngTypes
    <3>2. Sleep(attempt)
      BY <2>1
    <3> QED BY <3>1, <3>2, SleepTyped
  <2>4. failed' \in 0 .. MaxShift
    <3>1. failed \in 0 .. MaxShift /\ MaxShift \in Nat
      BY <1>0, BackoffAssumption DEF IngTypes
    <3>2. failed' = Least(failed + 1, MaxShift)
      BY <2>1
    <3> QED BY <3>1, <3>2 DEF Least
  <2>5. LinkTypes' /\ IngTypes' /\ KafkaTypes'
    BY <1>0, <2>1, <2>3, <2>4 DEF LinkTypes, IngTypes, KafkaTypes
  <2> QED BY <2>2, <2>5, <1>p
<1>8. CASE Wake
  <2>1. /\ ing' = "connecting"
        /\ UNCHANGED <<genVars, link, out, lines, attempt, delay, failed, kafka, ticks, faults, aired>>
    BY <1>8 DEF Wake
  <2>2. GenTypes'
    BY <1>0, <2>1, GenFrame
  <2>3. LinkTypes' /\ IngTypes' /\ KafkaTypes'
    BY <1>0, <2>1 DEF LinkTypes, IngTypes, KafkaTypes
  <2> QED BY <2>2, <2>3, <1>p
<1>9. CASE SeesClose
  <2>1. /\ link' = "none" /\ out' = <<>> /\ aired' = <<>> /\ Sleep(attempt)
        /\ UNCHANGED <<genVars, lines, failed, kafka, ticks, faults>>
    BY <1>9 DEF SeesClose
  <2>2. GenTypes'
    BY <1>0, <2>1, GenFrame
  <2>3. ing' = "sleeping" /\ attempt' \in 0 .. MaxShift /\ delay' \in 0 .. Cap
    <3>1. attempt \in 0 .. MaxShift
      BY <1>0 DEF IngTypes
    <3> QED BY <2>1, <3>1, SleepTyped
  <2>4. LinkTypes' /\ IngTypes' /\ KafkaTypes'
    BY <1>0, <2>1, <2>3 DEF LinkTypes, IngTypes, KafkaTypes
  <2> QED BY <2>2, <2>4, <1>p
<1>10. CASE IngestionRestarts
  <2>1. /\ Fault /\ ing' = "connecting" /\ lines' = <<>> /\ attempt' = 0 /\ delay' = 0 /\ failed' = 0
        /\ link' = "none" /\ out' = <<>> /\ aired' = <<>> /\ UNCHANGED <<genVars, ticks>>
    BY <1>10 DEF IngestionRestarts
  <2>2. GenTypes'
    BY <1>0, <2>1, GenFrame
  <2>3. LinkTypes' /\ IngTypes'
    BY <2>1, BackoffAssumption DEF LinkTypes, IngTypes
  <2>4. KafkaTypes'
    <3>1. CASE lines = <<>>
      BY <1>0, <1>10, <3>1 DEF IngestionRestarts, KafkaTypes
    <3>2. CASE lines # <<>>
      <4>1. /\ late' = late \cup {lines[1]} /\ gaveUp' = gaveUp \cup {lines[1]} /\ topic' = topic
            /\ newest' = [newest EXCEPT ![lines[1].entity] = {lines[1]}]
        BY <1>10, <3>2 DEF IngestionRestarts
      <4>2. lines[1] \in Event /\ newest' \in [Entity -> SUBSET Event]
        BY <3>2, <4>1, LineTyped
      <4> QED BY <1>0, <4>1, <4>2 DEF KafkaTypes
    <3> QED BY <3>1, <3>2
  <2> QED BY <2>2, <2>3, <2>4, <1>p
<1>11. CASE ReadFrame
  <2>1. /\ out # <<>> /\ lines' = Head(out) /\ out' = Tail(out)
        /\ UNCHANGED <<genVars, link, ing, attempt, delay, failed, kafka, ticks, faults, aired>>
    BY <1>11 DEF ReadFrame
  <2>2. GenTypes'
    BY <1>0, <2>1, GenFrame
  <2>3. Head(out) \in Seq(Event) /\ Tail(out) \in Seq(Seq(Event))
    BY <1>0, <2>1, SeqTypes DEF LinkTypes
  <2>4. LinkTypes' /\ IngTypes' /\ KafkaTypes'
    BY <1>0, <2>1, <2>3 DEF LinkTypes, IngTypes, KafkaTypes
  <2> QED BY <2>2, <2>4, <1>p
<1>12. CASE Sent
  <2>1. /\ lines # <<>> /\ lines' = Tail(lines) /\ newest' = [newest EXCEPT ![lines[1].entity] = {lines[1]}]
        /\ topic' = Append(topic, lines[1]) \/ topic' = topic \o <<lines[1], lines[1]>>
        /\ faults' = faults \/ Fault
        /\ UNCHANGED <<genVars, link, out, ing, attempt, delay, failed, late, gaveUp, ticks, aired>>
    BY <1>12 DEF Sent, LineDone
  <2>2. GenTypes'
    BY <1>0, <2>1, GenFrame
  <2>3. lines[1] \in Event /\ lines' \in Seq(Event) /\ newest' \in [Entity -> SUBSET Event]
    BY <2>1, LineTyped
  <2>4. topic' \in Seq(Event)
    <3>1. \A s \in Seq(Event), x \in Event : Append(s, x) \in Seq(Event) /\ s \o <<x, x>> \in Seq(Event)
      OBVIOUS
    <3> QED BY <1>0, <2>1, <2>3, <3>1 DEF KafkaTypes
  <2>5. LinkTypes' /\ IngTypes' /\ KafkaTypes'
    BY <1>0, <2>1, <2>3, <2>4 DEF LinkTypes, IngTypes, KafkaTypes
  <2> QED BY <2>2, <2>5, <1>p
<1>13. CASE SendFails
  <2>1. /\ lines # <<>> /\ lines' = Tail(lines) /\ newest' = [newest EXCEPT ![lines[1].entity] = {lines[1]}]
        /\ late' = late \cup {lines[1]} /\ gaveUp' = gaveUp \cup {lines[1]} /\ Fault
        /\ UNCHANGED <<genVars, link, out, ing, attempt, delay, failed, topic, ticks, aired>>
    BY <1>13 DEF SendFails, LineDone
  <2>2. GenTypes'
    BY <1>0, <2>1, GenFrame
  <2>3. lines[1] \in Event /\ lines' \in Seq(Event) /\ newest' \in [Entity -> SUBSET Event]
    BY <2>1, LineTyped
  <2>4. LinkTypes' /\ IngTypes' /\ KafkaTypes'
    BY <1>0, <2>1, <2>3 DEF LinkTypes, IngTypes, KafkaTypes
  <2> QED BY <2>2, <2>4, <1>p
<1>14. CASE LateAppend
  <2>1. PICK x \in late : /\ topic' = Append(topic, x) /\ late' = late \ {x}
                          /\ UNCHANGED <<genVars, link, out, ingVars, gaveUp, newest, ticks, faults, aired>>
    BY <1>14 DEF LateAppend
  <2>2. GenTypes'
    BY <1>0, <2>1, GenFrame
  <2>3. x \in Event /\ topic' \in Seq(Event)
    BY <1>0, <2>1, SeqTypes DEF KafkaTypes
  <2>4. LinkTypes' /\ IngTypes' /\ KafkaTypes'
    BY <1>0, <2>1, <2>3 DEF LinkTypes, IngTypes, KafkaTypes
  <2> QED BY <2>2, <2>4, <1>p
<1>15. CASE UNCHANGED vars
  <2>1. UNCHANGED <<genVars, link, out, ingVars, kafka, ticks, faults, aired>>
    BY <1>15 DEF vars
  <2>2. GenTypes'
    BY <1>0, <2>1, GenFrame
  <2>3. LinkTypes' /\ IngTypes' /\ KafkaTypes'
    BY <1>0, <2>1 DEF LinkTypes, IngTypes, KafkaTypes
  <2> QED BY <2>2, <2>3, <1>p
<1> QED
  BY <1>1, <1>2, <1>3, <1>4, <1>5, <1>6, <1>7, <1>8, <1>9, <1>10, <1>11, <1>12, <1>13, <1>14, <1>15
  DEF Next, Generator, Ingestion

\* The types hold always.
LEMMA TypeInvariant == Spec => []TypeInv
<1> QED BY InitTyped, TypeStep, PTL DEF Spec

(* Every variable keeps its type: no number of the generator leaves the rate's
   bound, and no delay of the backoff its cap. *)
THEOREM TypeCorrect == Spec => []TypeOK
<1>1. TypeInv => TypeOK
  BY DEF TypeInv
<1> QED BY <1>1, TypeInvariant, PTL
-----------------------------------------------------------------------------
(* The rate *)

(* What the generator has made and what it carries over are together what the rate
   gives for the ticks of this life. *)
RateInv == Total(seq) * RateDown + carry = ticks.here * RateUp

\* A tick makes as many events as the rate and the carry give, but for the new carry.
LEMMA TickMakes ==
  ASSUME TypeInv, Tick
  PROVE  \E n \in Nat : /\ Total(seq) \in Nat /\ Total(seq') = Total(seq) + n
                        /\ n * RateDown + carry' = carry + RateUp
                        /\ ticks'.here = ticks.here + 1
<1>1. carry \in Nat
  BY RateAssumption DEF TypeInv, TypeOK
<1>t. PICK t \in EventsForTick(carry) : \E drawn \in [1 .. t.n -> Entity] :
        /\ carry' = t.carry
        /\ seq' = [e \in Entity |-> seq[e] + Cardinality({i \in DOMAIN drawn : drawn[i] = e})]
  BY DEF Tick
<1>2. PICK drawn \in [1 .. t.n -> Entity] :
        /\ carry' = t.carry
        /\ seq' = [e \in Entity |-> seq[e] + Cardinality({i \in DOMAIN drawn : drawn[i] = e})]
  BY <1>t
<1>3. PICK n : n = t.n
  OBVIOUS
<1>4. n \in Nat /\ n * RateDown + carry' = carry + RateUp
  BY <1>1, <1>2, <1>3, TickCarries
<1>5. drawn \in [1 .. n -> Entity] /\ DOMAIN drawn = 1 .. n
  BY <1>2, <1>3
<1>6. PICK count : count = [e \in Entity |-> Drawn(drawn, e, n)]
  OBVIOUS
<1>7. Total(count) = n
  BY <1>4, <1>5, <1>6, EntityAssumption, DrawsSum
<1>8. PICK s : s = seq'
  OBVIOUS
<1>9. ASSUME NEW e \in Entity
      PROVE  seq[e] \in Nat /\ count[e] \in Nat /\ s[e] = seq[e] + count[e] /\ s[e] \in Nat
  <2>1. {i \in DOMAIN drawn : drawn[i] = e} = Draws(drawn, e, n)
    BY <1>5 DEF Draws
  <2>2. Drawn(drawn, e, n) \in 0 .. n
    BY <1>4, DrawsCounted DEF Drawn
  <2>3. count[e] \in Nat /\ s[e] = seq[e] + count[e]
    BY <1>2, <1>4, <1>6, <1>8, <2>1, <2>2 DEF Drawn
  <2>4. seq[e] \in Nat
    BY DEF TypeInv, TypeOK
  <2> QED BY <2>3, <2>4
<1>10. seq \in [Entity -> Nat] /\ count \in [Entity -> Nat] /\ s \in [Entity -> Nat]
  <2>1. seq \in [Entity -> Nat]
    BY DEF TypeInv, TypeOK
  <2> QED BY <1>2, <1>6, <1>8, <1>9, <2>1
<1>11. AddsUp(s, seq, count, Entity)
  BY <1>9 DEF AddsUp
<1>12. Total(seq) \in Nat /\ Total(s) = Total(seq) + Total(count)
  <2>1. \A f, g, h \in [Entity -> Nat] : AddsUp(h, f, g, Entity) => Total(f) \in Nat /\ Total(h) = Total(f) + Total(g)
    BY EntityAssumption, SumAdds, ZenonT(30)
  <2> QED BY <1>10, <1>11, <2>1
<1>13. ticks'.here = ticks.here + 1
  BY DEF Tick
<1> QED BY <1>4, <1>7, <1>8, <1>12, <1>13

\* Carrying what is not made loses nothing.
LEMMA CarryExact ==
  ASSUME NEW s \in Nat, NEW c \in Nat, NEW t \in Nat, NEW q \in Nat, NEW r \in Nat,
         q * RateDown + r = c + RateUp, s * RateDown + c = t * RateUp
  PROVE  (s + q) * RateDown + r = (t + 1) * RateUp
<1>1. RateUp \in Nat /\ RateDown \in Nat
  BY RateAssumption
<1>2. (s + q) * RateDown = s * RateDown + q * RateDown /\ (t + 1) * RateUp = t * RateUp + RateUp
  BY <1>1
<1>3. s * RateDown \in Nat /\ q * RateDown \in Nat /\ t * RateUp \in Nat
  BY <1>1
<1>4. s * RateDown + q * RateDown + r = t * RateUp + RateUp
  BY <1>1, <1>3
<1> QED BY <1>2, <1>4

\* Every step keeps the rate.
LEMMA RateStep ==
  ASSUME TypeInv, RateInv, [Next]_vars
  PROVE  RateInv'
<1>1. carry \in Nat /\ ticks.here \in Nat
  BY RateAssumption, BoundsAssumption DEF TypeInv, TypeOK
<1>2. CASE Tick
  <2>1. PICK n \in Nat : /\ Total(seq) \in Nat /\ Total(seq') = Total(seq) + n
                         /\ n * RateDown + carry' = carry + RateUp
                         /\ ticks'.here = ticks.here + 1
    BY <1>2, TickMakes
  <2>2. carry' \in Nat
    BY <1>2, TickTyped, RateAssumption DEF TypeInv, TypeOK
  <2>3. PICK s \in Nat, c \in Nat, t \in Nat, r \in Nat :
          s = Total(seq) /\ c = carry /\ t = ticks.here /\ r = carry'
    BY <1>1, <2>1, <2>2
  <2>4. n * RateDown + r = c + RateUp /\ s * RateDown + c = t * RateUp
    BY <2>1, <2>3 DEF RateInv
  <2>5. (s + n) * RateDown + r = (t + 1) * RateUp
    BY <2>4, CarryExact
  <2> QED BY <2>1, <2>3, <2>5 DEF RateInv
<1>3. CASE GeneratorStarts
  <2>1. PICK s : s = seq'
    OBVIOUS
  <2>2. s \in [Entity -> Nat] /\ \A e \in Entity : s[e] = 0
    BY <1>3, <2>1 DEF GeneratorStarts
  <2>3. Total(s) = 0
    BY <2>2, EntityAssumption, SumOfZeros
  <2>4. carry' = 0 /\ ticks'.here = 0
    BY <1>3 DEF GeneratorStarts, TypeInv, TypeOK
  <2> QED BY <2>1, <2>3, <2>4, RateAssumption DEF RateInv
<1>4. CASE Register \/ Break \/ GeneratorEnds \/ Ingestion \/ LateAppend \/ UNCHANGED vars
  <2>1. seq' = seq /\ carry' = carry /\ ticks' = ticks
    BY <1>4 DEF Register, Break, GeneratorEnds, Ingestion, Connect, ConnectFails, Wake, SeesClose,
                IngestionRestarts, ReadFrame, Sent, SendFails, LateAppend, vars, genVars
  <2> QED BY <2>1 DEF RateInv
<1> QED BY <1>2, <1>3, <1>4 DEF Next, Generator

(* In each life of the generator the events of all entities together are at most
   what the rate gives for its ticks, and at most one event short of it, wherever
   the float of the carry falls short. *)
THEOREM RateIsHeld == Spec => []RateHeld
<1>1. Init => RateInv
  <2> SUFFICES ASSUME Init PROVE RateInv
    OBVIOUS
  <2>1. seq \in [Entity -> Nat] /\ \A e \in Entity : seq[e] = 0
    BY DEF Init
  <2>2. Total(seq) = 0
    BY <2>1, EntityAssumption, SumOfZeros
  <2> QED BY <2>2, RateAssumption DEF Init, RateInv
<1>2. TypeInv /\ RateInv => RateHeld
  <2> SUFFICES ASSUME TypeInv, RateInv PROVE RateHeld
    OBVIOUS
  <2>1. seq \in [Entity -> Nat] /\ carry \in 0 .. RateDown /\ ticks.here \in Nat
    BY BoundsAssumption DEF TypeInv, TypeOK
  <2>2. Total(seq) \in Nat
    <3>1. PICK h : IsFold(h, seq, Entity) /\ Total(seq) = h[Entity]
      BY <2>1, EntityAssumption, FoldUnfolds
    <3> QED BY <3>1 DEF IsFold
  <2>3. PICK s \in Nat, c \in Nat, t \in Nat : s = Total(seq) /\ c = carry /\ t = ticks.here * RateUp
    BY <2>1, <2>2, RateAssumption
  <2>4. s * RateDown + c = t /\ c <= RateDown
    BY <2>1, <2>3, RateAssumption DEF RateInv
  <2>5. \A a, r, d \in Nat : r <= d => a * d <= a * d + r /\ a * d + r <= (a + 1) * d
    OBVIOUS
  <2>6. s * RateDown <= t /\ t <= (s + 1) * RateDown
    BY <2>4, <2>5, RateAssumption
  <2> QED BY <2>3, <2>6 DEF RateHeld, Total
<1> QED BY <1>1, <1>2, RateStep, TypeInvariant, PTL DEF Spec
-----------------------------------------------------------------------------
(* Order *)

\* Later is a strict order on the events of an entity.
LEMMA LaterOrders ==
  /\ \A x \in Event : /\ x.entity \in Entity /\ x.life \in Nat /\ x.seq \in Nat /\ ~Later(x, x)
  /\ \A x, y \in Event : Later(x, y) => ~Later(y, x)
  /\ \A x, y, z \in Event : (Later(x, y) /\ Later(y, z)) => Later(x, z)
<1>1. \A x \in Event : x.entity \in Entity /\ x.life \in Nat /\ x.seq \in Nat
  BY BoundsAssumption DEF Event
<1> QED BY <1>1 DEF Later

\* what is under way is a number of events
LEMMA AheadTyped ==
  ASSUME TypeInv
  PROVE  /\ \A i \in DOMAIN lines : lines[i] \in Event
         /\ \A n \in DOMAIN out : out[n] \in Seq(Event) /\ \A i \in DOMAIN out[n] : out[n][i] \in Event
         /\ \A k \in DOMAIN topic : topic[k] \in Event
         /\ gaveUp \subseteq Event /\ late \subseteq gaveUp
         /\ newest \in [Entity -> SUBSET Event]
  BY DEF TypeInv, TypeOK

\* What remains of an ordered sequence is in order.
LEMMA RestInOrder ==
  ASSUME NEW s \in Seq(Event), s # <<>>, Sorted(s)
  PROVE  /\ Sorted(Tail(s))
         /\ \A t : Before(s, t) => Before(Tail(s), t)
         /\ \A i \in DOMAIN Tail(s) : Tail(s)[i].entity = s[1].entity => Later(Tail(s)[i], s[1])
<1>1. \A i \in DOMAIN Tail(s) : i \in Nat /\ i + 1 \in DOMAIN s /\ Tail(s)[i] = s[i + 1] /\ 1 \in DOMAIN s /\ 1 < i + 1
  OBVIOUS
<1>2. Sorted(Tail(s))
  BY <1>1 DEF Sorted
<1>3. \A t : Before(s, t) => Before(Tail(s), t)
  BY <1>1 DEF Before
<1>4. \A i \in DOMAIN Tail(s) : Tail(s)[i].entity = s[1].entity => Later(Tail(s)[i], s[1])
  BY <1>1 DEF Sorted
<1> QED BY <1>2, <1>3, <1>4

(* The ingestion is done with the first line: what is left ahead is later than it,
   what lies behind is earlier. *)
LEMMA LineHandled ==
  ASSUME TypeInv, OrderInv, lines # <<>>, lines' \in {Tail(lines), <<>>}, out' \in {out, <<>>},
         newest' = [newest EXCEPT ![lines[1].entity] = {lines[1]}], UNCHANGED <<life, seq>>
  PROVE  /\ AheadInOrder' /\ AheadIsNew'
         /\ \A e \in Entity : \A y, z \in newest'[e] : y = z /\ y.entity = e /\ Made(y)'
         /\ \A x \in Event : DoneWith(x) => DoneWith(x)'
         /\ \A x \in Event : x = lines[1] => DoneWith(x)'
         /\ \A x \in Event : DoneWith(x) => /\ x # lines[1]
                                            /\ x.entity = lines[1].entity => Later(lines[1], x)
<1>1. PICK ev \in Event : ev = lines[1] /\ ev.entity \in Entity
  BY LineTyped
<1>2. /\ lines \in Seq(Event) /\ 1 \in DOMAIN lines
      /\ \A i \in DOMAIN Tail(lines) : i + 1 \in DOMAIN lines /\ Tail(lines)[i] = lines[i + 1]
  <2>1. lines \in Seq(Event)
    BY DEF TypeInv, TypeOK
  <2> QED BY <2>1, SeqTypes
<1>3. Sorted(lines) /\ \A n \in DOMAIN out : Sorted(out[n]) /\ Before(lines, out[n])
  BY DEF OrderInv, AheadInOrder
<1>4. /\ Sorted(Tail(lines)) /\ \A n \in DOMAIN out : Before(Tail(lines), out[n])
      /\ \A i \in DOMAIN Tail(lines) : Tail(lines)[i].entity = ev.entity => Later(Tail(lines)[i], ev)
  BY <1>1, <1>2, <1>3, RestInOrder
<1>5. AheadInOrder'
  <2>1. Sorted(<<>>) /\ (\A t : Before(<<>>, t)) /\ DOMAIN <<>> = {}
    BY DEF Sorted, Before
  <2>2. PICK l, o : l = lines' /\ o = out' /\ l \in {Tail(lines), <<>>} /\ o \in {out, <<>>}
    OBVIOUS
  <2>3. Sorted(l) /\ \A n \in DOMAIN o : Before(l, o[n])
    <3>1. CASE o = <<>>
      BY <1>4, <2>1, <2>2, <3>1
    <3>2. CASE o = out
      BY <1>4, <2>1, <2>2, <3>2
    <3> QED BY <2>2, <3>1, <3>2
  <2>4. /\ \A n \in DOMAIN o : Sorted(o[n])
        /\ \A n, m \in DOMAIN o : n < m => Before(o[n], o[m])
    BY <1>3, <2>1, <2>2 DEF OrderInv, AheadInOrder
  <2> QED BY <2>2, <2>3, <2>4 DEF AheadInOrder, Sorted, Before
<1>6. \A e \in Entity : newest'[e] = IF e = ev.entity THEN {ev} ELSE newest[e]
  BY <1>1 DEF TypeInv
<1>7. ASSUME NEW x \in Event, Awaited(x), x.entity = ev.entity => Later(x, ev) PROVE Awaited(x)'
  <2>1. x.entity \in Entity
    BY LaterOrders
  <2>2. Made(x)'
    BY <1>7 DEF Awaited, Made
  <2>3. \A y \in newest'[x.entity] : Later(x, y)
    BY <1>6, <1>7, <2>1, SMTT(30) DEF Awaited
  <2> QED BY <2>2, <2>3 DEF Awaited, Later
<1>8. AheadIsNew'
  <2>1. ASSUME NEW i \in DOMAIN lines', NEW x, x = lines'[i] PROVE Awaited(x)'
    <3>1. lines' = Tail(lines) /\ i \in DOMAIN Tail(lines) /\ x = Tail(lines)[i] /\ x = lines[i + 1]
          /\ i + 1 \in DOMAIN lines
      BY <1>2, <2>1
    <3>2. x \in Event /\ Awaited(x)
      BY <3>1, AheadTyped DEF OrderInv, AheadIsNew
    <3> QED BY <1>4, <1>7, <3>1, <3>2
  <2>2. ASSUME NEW n \in DOMAIN out', NEW i \in DOMAIN out'[n], NEW x, x = out'[n][i] PROVE Awaited(x)'
    <3>1. out' = out
      BY <2>2
    <3>2. x \in Event /\ Awaited(x)
      BY <2>2, <3>1, AheadTyped DEF OrderInv, AheadIsNew
    <3>3. x.entity = ev.entity => Later(x, ev)
      BY <1>1, <1>2, <1>3, <2>2, <3>1, <3>2 DEF Before
    <3> QED BY <1>7, <3>2, <3>3
  <2> QED BY <2>1, <2>2 DEF AheadIsNew, Awaited, Made, Later
<1>9. Awaited(ev)
  BY <1>1, <1>2 DEF OrderInv, AheadIsNew
<1>10. \A e \in Entity : \A y, z \in newest'[e] : y = z /\ y.entity = e /\ Made(y)'
  <2>1. \A e \in Entity : \A y, z \in newest[e] : y = z /\ y.entity = e /\ Made(y)
    BY DEF OrderInv, NewestIsLast
  <2>2. \A e \in Entity : \A y, z \in newest'[e] : y = z /\ y.entity = e /\ Made(y)
    BY <1>6, <1>9, <2>1 DEF Awaited
  <2> QED BY <2>2 DEF Made
<1>11. ASSUME NEW x \in Event, DoneWith(x)
       PROVE  DoneWith(x)' /\ x # ev /\ (x.entity = ev.entity => Later(ev, x))
  <2>1. x.entity \in Entity
    BY LaterOrders
  <2>2. PICK y \in newest[x.entity] : x = y \/ Later(y, x)
    BY <1>11 DEF DoneWith
  <2>3. CASE x.entity = ev.entity
    <3>1. Later(ev, y) /\ y \in Event
      BY <1>9, <2>1, <2>2, <2>3, AheadTyped DEF Awaited
    <3>2. Later(ev, x)
      BY <2>2, <3>1, LaterOrders
    <3>3. ev \in newest'[x.entity]
      BY <1>6, <2>1, <2>3
    <3> QED BY <3>2, <3>3, LaterOrders DEF DoneWith, Later
  <2>4. CASE x.entity # ev.entity
    <3>1. newest'[x.entity] = newest[x.entity]
      BY <1>6, <2>1, <2>4
    <3> QED BY <2>2, <2>4, <3>1 DEF DoneWith, Later
  <2> QED BY <2>3, <2>4
<1>12. DoneWith(ev)'
  BY <1>1, <1>6 DEF DoneWith
<1>13. \A x \in Event : x = lines[1] => DoneWith(x)'
  BY <1>1, <1>12
<1>14. ASSUME NEW x \in Event, DoneWith(x)
       PROVE  x # lines[1] /\ (x.entity = lines[1].entity => Later(lines[1], x))
  <2>1. x # ev /\ (x.entity = ev.entity => Later(ev, x))
    BY <1>11, <1>14
  <2> QED BY <1>1, <2>1
<1>15. \A x \in Event : DoneWith(x) => DoneWith(x)'
  BY <1>11
<1>16. \A x \in Event : DoneWith(x) => /\ x # lines[1]
                                       /\ x.entity = lines[1].entity => Later(lines[1], x)
  BY <1>14
<1> QED BY <1>5, <1>8, <1>10, <1>13, <1>15, <1>16

(* The generator only ever makes more. *)
MoreMade == \A x \in Event : Made(x) => Made(x)'

\* What was made stays made.
LEMMA MadeKept ==
  ASSUME TypeInv
  PROVE  /\ UNCHANGED <<life, seq>> => MoreMade
         /\ (life' = life /\ \A e \in Entity : seq[e] <= seq'[e] /\ seq'[e] \in Nat) => MoreMade
         /\ life' = life + 1 => MoreMade
<1>1. life \in Nat /\ \A e \in Entity : seq[e] \in Nat
  BY DEF TypeInv, TypeOK
<1>2. ASSUME UNCHANGED <<life, seq>> PROVE MoreMade
  BY <1>2 DEF MoreMade, Made
<1>3. ASSUME life' = life, \A e \in Entity : seq[e] <= seq'[e] /\ seq'[e] \in Nat PROVE MoreMade
  <2> SUFFICES ASSUME NEW x \in Event, Made(x) PROVE Made(x)'
    BY DEF MoreMade
  <2>1. x.entity \in Entity /\ x.seq \in Nat
    BY LaterOrders
  <2>2. seq[x.entity] \in Nat /\ seq'[x.entity] \in Nat /\ seq[x.entity] <= seq'[x.entity]
    BY <1>1, <1>3, <2>1
  <2> QED BY <1>3, <2>1, <2>2 DEF Made
<1>4. ASSUME life' = life + 1 PROVE MoreMade
  <2> SUFFICES ASSUME NEW x \in Event, Made(x) PROVE Made(x)'
    BY DEF MoreMade
  <2>1. x.life \in Nat
    BY LaterOrders
  <2>2. x.life < life'
    BY <1>1, <1>4, <2>1 DEF Made
  <2> QED BY <2>2 DEF Made
<1> QED BY <1>2, <1>3, <1>4

\* what lies behind, when nothing more is done with
Past == /\ NewestIsLast /\ TopicInOrder
        /\ \A x \in late : \A k \in DOMAIN topic : topic[k] # x

\* The past keeps its order when Kafka does nothing.
LEMMA PastKept ==
  ASSUME TypeInv, OrderInv, MoreMade, UNCHANGED kafka
  PROVE  Past'
<1>1. topic' = topic /\ late' = late /\ gaveUp' = gaveUp /\ newest' = newest
  BY DEF kafka
<1>2. TopicInOrder' /\ (\A x \in late : \A k \in DOMAIN topic : topic[k] # x)'
  BY <1>1 DEF OrderInv, TopicInOrder, Later
<1>3. \A e \in Entity : \A y, z \in newest'[e] : y = z /\ y.entity = e /\ Made(y)'
  <2>1. \A e \in Entity : \A y, z \in newest[e] : y = z /\ y.entity = e /\ Made(y) /\ y \in Event
    BY AheadTyped DEF OrderInv, NewestIsLast
  <2> QED BY <1>1, <2>1 DEF MoreMade
<1>4. \A x : DoneWith(x) => DoneWith(x)'
  BY <1>1 DEF DoneWith, Later
<1>5. (\A k \in DOMAIN topic : DoneWith(topic[k]))' /\ (\A x \in gaveUp : DoneWith(x))'
  <2>1. (\A k \in DOMAIN topic : DoneWith(topic[k])) /\ (\A x \in gaveUp : DoneWith(x))
    BY DEF OrderInv, NewestIsLast
  <2> QED BY <1>1, <2>1 DEF DoneWith, Later
<1>6. NewestIsLast'
  BY <1>3, <1>5 DEF NewestIsLast, Made
<1> QED BY <1>2, <1>6 DEF Past

\* What is ahead keeps its order when frames only vanish from the end.
LEMMA AheadKept ==
  ASSUME TypeInv, OrderInv, MoreMade, UNCHANGED <<lines, newest>>,
         DOMAIN out' \subseteq DOMAIN out, \A n \in DOMAIN out' : out'[n] = out[n]
  PROVE  AheadInOrder' /\ AheadIsNew'
<1>1. AheadInOrder'
  BY DEF OrderInv, AheadInOrder, Sorted, Before, Later
<1>2. ASSUME NEW x \in Event, Awaited(x) PROVE Awaited(x)'
  BY <1>2 DEF Awaited, MoreMade, Later
<1>3. /\ \A i \in DOMAIN lines : lines[i] \in Event /\ Awaited(lines[i])
      /\ \A n \in DOMAIN out : \A i \in DOMAIN out[n] : out[n][i] \in Event /\ Awaited(out[n][i])
  BY AheadTyped DEF OrderInv, AheadIsNew
<1>4. ASSUME NEW i \in DOMAIN lines', NEW x, x = lines'[i] PROVE Awaited(x)'
  BY <1>2, <1>3, <1>4
<1>5. ASSUME NEW n \in DOMAIN out', NEW i \in DOMAIN out'[n], NEW x, x = out'[n][i] PROVE Awaited(x)'
  BY <1>2, <1>3, <1>5
<1>6. AheadIsNew'
  BY <1>4, <1>5 DEF AheadIsNew, Awaited, Made, Later
<1> QED BY <1>1, <1>6

(* The topic takes up one event, once or twice in a row, that it does not hold. *)
Taken(x) == topic' = Append(topic, x) \/ topic' = topic \o <<x, x>>

\* What the topic holds after an append.
LEMMA TakenIn ==
  ASSUME TypeInv, NEW x \in Event, Taken(x)
  PROVE  \A k \in DOMAIN topic' : \/ k \in DOMAIN topic /\ topic'[k] = topic[k]
                                  \/ k \in {Len(topic) + 1, Len(topic) + 2} /\ topic'[k] = x
<1>1. \A t \in Seq(Event) :
        /\ \A k \in DOMAIN Append(t, x) : \/ k \in DOMAIN t /\ Append(t, x)[k] = t[k]
                                          \/ k = Len(t) + 1 /\ Append(t, x)[k] = x
        /\ \A k \in DOMAIN (t \o <<x, x>>) :
             \/ k \in DOMAIN t /\ (t \o <<x, x>>)[k] = t[k]
             \/ k \in {Len(t) + 1, Len(t) + 2} /\ (t \o <<x, x>>)[k] = x
  OBVIOUS
<1>2. topic \in Seq(Event)
  BY DEF TypeInv, TypeOK
<1> QED BY <1>1, <1>2 DEF Taken

\* The topic stays in order when it takes an event later than all done with.
LEMMA TopicTakes ==
  ASSUME TypeInv, TopicInOrder, gaveUp' = gaveUp, NEW x \in Event, Taken(x),
         \A k \in DOMAIN topic : topic[k] # x,
         \/ x \notin gaveUp /\ \A k \in DOMAIN topic : topic[k].entity = x.entity => Later(x, topic[k])
         \/ x \in gaveUp /\ topic' = Append(topic, x)
  PROVE  TopicInOrder'
<1>1. topic \in Seq(Event) /\ DOMAIN topic = 1 .. Len(topic) /\ Len(topic) \in Nat
  BY DEF TypeInv, TypeOK
<1> SUFFICES ASSUME NEW i \in DOMAIN topic', NEW j \in DOMAIN topic', i < j,
                    topic'[i].entity = topic'[j].entity
             PROVE  /\ Later(topic'[i], topic'[j]) => topic'[j] \in gaveUp
                    /\ topic'[i] = topic'[j] => topic'[i] \notin gaveUp /\ j = i + 1
  BY DEF TopicInOrder, Later
<1>2. CASE i \in DOMAIN topic /\ topic'[i] = topic[i] /\ j \in DOMAIN topic /\ topic'[j] = topic[j]
  BY <1>2 DEF TopicInOrder
<1>3. CASE i \in DOMAIN topic /\ topic'[i] = topic[i] /\ topic'[j] = x
  <2>1. topic[i] # x /\ topic[i] \in Event
    BY <1>1, <1>3
  <2>2. Later(topic[i], x) => x \in gaveUp
    BY <1>3, <2>1, LaterOrders
  <2> QED BY <1>3, <2>1, <2>2
<1>4. CASE /\ i \in {Len(topic) + 1, Len(topic) + 2} /\ topic'[i] = x
           /\ j \in {Len(topic) + 1, Len(topic) + 2} /\ topic'[j] = x
  <2>1. i = Len(topic) + 1 /\ j = Len(topic) + 2
    BY <1>1, <1>4
  <2>2. topic' # Append(topic, x)
    <3>1. \A t \in Seq(Event) : Len(t) + 2 \notin DOMAIN Append(t, x)
      OBVIOUS
    <3> QED BY <1>1, <2>1, <3>1
  <2>3. ~Later(x, x)
    BY LaterOrders
  <2> QED BY <1>1, <1>4, <2>1, <2>2, <2>3
<1>5. i \in DOMAIN topic \/ j \notin DOMAIN topic
  BY <1>1, TakenIn
<1> QED BY <1>1, <1>2, <1>3, <1>4, <1>5, TakenIn

(* The first line is done with: it goes to the topic, or is given up and may
   still turn up there. *)
LEMMA PastHandled ==
  ASSUME TypeInv, OrderInv, lines # <<>>, lines' \in {Tail(lines), <<>>}, out' \in {out, <<>>},
         newest' = [newest EXCEPT ![lines[1].entity] = {lines[1]}], UNCHANGED <<life, seq>>,
         \/ Taken(lines[1]) /\ UNCHANGED <<late, gaveUp>>
         \/ /\ late' = late \cup {lines[1]} /\ gaveUp' = gaveUp \cup {lines[1]}
            /\ topic' = topic
  PROVE  Past'
<1>1. PICK ev \in Event : ev = lines[1]
  BY LineTyped
<1>2. /\ \A e \in Entity : \A y, z \in newest'[e] : y = z /\ y.entity = e /\ Made(y)'
      /\ \A x \in Event : DoneWith(x) => DoneWith(x)'
      /\ DoneWith(ev)'
      /\ \A x \in Event : DoneWith(x) => x # ev /\ (x.entity = ev.entity => Later(ev, x))
  BY <1>1, LineHandled
<1>3. /\ \A k \in DOMAIN topic : topic[k] \in Event /\ DoneWith(topic[k])
      /\ \A x \in gaveUp : x \in Event /\ DoneWith(x)
      /\ late \subseteq gaveUp
  BY AheadTyped DEF OrderInv, NewestIsLast
<1>4. /\ \A k \in DOMAIN topic : topic[k] # ev /\ (topic[k].entity = ev.entity => Later(ev, topic[k]))
      /\ ev \notin gaveUp /\ ev \notin late
  BY <1>2, <1>3
<1>5. TopicInOrder /\ \A x \in late : \A k \in DOMAIN topic : topic[k] # x
  BY DEF OrderInv
<1>6. CASE Taken(ev) /\ UNCHANGED <<late, gaveUp>>
  <2>1. TopicInOrder'
    BY <1>4, <1>5, <1>6, TopicTakes
  <2>2. ASSUME NEW k \in DOMAIN topic' PROVE \E x \in Event : x = topic'[k] /\ DoneWith(x)' /\ x \notin late
    BY <1>2, <1>3, <1>4, <1>5, <1>6, TakenIn
  <2>3. NewestIsLast'
    <3>1. \A k \in DOMAIN topic' : \A x : x = topic'[k] => DoneWith(x)'
      BY <2>2
    <3>2. \A x \in gaveUp' : DoneWith(x)'
      BY <1>2, <1>3, <1>6
    <3> QED BY <1>2, <3>1, <3>2 DEF NewestIsLast, Made, DoneWith, Later
  <2>4. \A x \in late' : \A k \in DOMAIN topic' : topic'[k] # x
    BY <1>6, <2>2
  <2> QED BY <2>1, <2>3, <2>4 DEF Past
<1>7. CASE late' = late \cup {ev} /\ gaveUp' = gaveUp \cup {ev} /\ topic' = topic
  <2>1. TopicInOrder'
    BY <1>4, <1>5, <1>7 DEF TopicInOrder, Later
  <2>2. NewestIsLast'
    <3>1. \A k \in DOMAIN topic' : \A x : x = topic'[k] => DoneWith(x)'
      BY <1>2, <1>3, <1>7
    <3>2. \A x \in gaveUp' : DoneWith(x)'
      BY <1>2, <1>3, <1>7
    <3> QED BY <1>2, <3>1, <3>2 DEF NewestIsLast, Made, DoneWith, Later
  <2>3. \A x \in late' : \A k \in DOMAIN topic' : topic'[k] # x
    BY <1>4, <1>5, <1>7
  <2> QED BY <2>1, <2>2, <2>3 DEF Past
<1> QED BY <1>1, <1>6, <1>7

\* A late append of an event that was given up keeps the order of the past.
LEMMA PastLate ==
  ASSUME TypeInv, OrderInv, LateAppend
  PROVE  Past'
<1>1. PICK x \in late : /\ topic' = Append(topic, x) /\ late' = late \ {x}
                        /\ UNCHANGED <<genVars, link, out, ingVars, gaveUp, newest, ticks, faults, aired>>
  BY DEF LateAppend
<1>2. /\ \A k \in DOMAIN topic : topic[k] \in Event /\ DoneWith(topic[k])
      /\ \A y \in gaveUp : y \in Event /\ DoneWith(y)
      /\ late \subseteq gaveUp
  BY AheadTyped DEF OrderInv, NewestIsLast
<1>3. TopicInOrder /\ \A y \in late : \A k \in DOMAIN topic : topic[k] # y
  BY DEF OrderInv
<1>4. x \in Event /\ x \in gaveUp /\ Taken(x) /\ gaveUp' = gaveUp /\ newest' = newest /\ UNCHANGED <<life, seq>>
  BY <1>1, <1>2 DEF Taken, genVars
<1>5. TopicInOrder'
  BY <1>1, <1>3, <1>4, TopicTakes
<1>6. \A k \in DOMAIN topic' : \/ k \in DOMAIN topic /\ topic'[k] = topic[k]
                               \/ topic'[k] = x
  BY <1>4, TakenIn
<1>7. \A y \in Event : DoneWith(y) => DoneWith(y)'
  BY <1>4 DEF DoneWith, Later
<1>8. \A e \in Entity : \A y, z \in newest'[e] : y = z /\ y.entity = e /\ Made(y)'
  BY <1>4 DEF OrderInv, NewestIsLast, Made
<1>9. NewestIsLast'
  <2>1. \A k \in DOMAIN topic' : \A y : y = topic'[k] => DoneWith(y)'
    BY <1>2, <1>4, <1>6, <1>7
  <2>2. \A y \in gaveUp' : DoneWith(y)'
    BY <1>2, <1>4, <1>7
  <2> QED BY <1>8, <2>1, <2>2 DEF NewestIsLast, Made, DoneWith, Later
<1>10. \A y \in late' : \A k \in DOMAIN topic' : topic'[k] # y
  BY <1>1, <1>3, <1>6
<1> QED BY <1>5, <1>9, <1>10 DEF Past

(* What a tick broadcasts follows everything that is under way. *)
LEMMA TickAhead ==
  ASSUME TypeInv, OrderInv, Tick
  PROVE  MoreMade /\ AheadInOrder' /\ AheadIsNew'
<1>t. PICK t \in EventsForTick(carry) : \E drawn \in [1 .. t.n -> Entity] :
        /\ seq' = NewSeq(drawn)
        /\ out' = out \/ out' = Append(out, NumberedEvents(drawn))
  BY DEF Tick, NewSeq
<1>0. PICK drawn \in [1 .. t.n -> Entity] :
        /\ seq' = NewSeq(drawn)
        /\ out' = out \/ out' = Append(out, NumberedEvents(drawn))
  BY <1>t
<1>1. PICK events :
        /\ events = NumberedEvents(drawn) /\ seq' = NewSeq(drawn)
        /\ out' = out \/ out' = Append(out, events)
  BY <1>0
<1>2. ticks.all < MaxTicks /\ life' = life /\ UNCHANGED <<ingVars, kafka>>
  BY DEF Tick
<1>3. /\ seq' \in [Entity -> Nat] /\ \A e \in Entity : seq[e] <= seq'[e]
      /\ events \in Seq(Event) /\ Sorted(events)
      /\ \A i \in DOMAIN events : /\ events[i].entity \in Entity /\ events[i].life = life
                                  /\ events[i].seq > seq[events[i].entity]
                                  /\ events[i].seq <= seq'[events[i].entity]
  BY <1>1, <1>2, TickNumbers
<1>4. MoreMade
  <2>1. \A e \in Entity : seq[e] <= seq'[e] /\ seq'[e] \in Nat
    BY <1>3
  <2> QED BY <1>2, <2>1, MadeKept
<1>5. lines' = lines /\ newest' = newest
  BY <1>2 DEF ingVars, kafka
<1>6. CASE out' = out
  BY <1>4, <1>5, <1>6, AheadKept
<1>7. CASE out' = Append(out, events)
  <2>1. out \in Seq(Seq(Event)) /\ lines \in Seq(Event) /\ newest \in [Entity -> SUBSET Event]
        /\ seq \in [Entity -> Nat] /\ life \in Nat
    BY DEF TypeInv, TypeOK
  <2>2. PICK N \in Nat : N = Len(out) /\ DOMAIN out = 1 .. N
    BY <2>1
  <2>3. \A n \in DOMAIN out' : \/ n \in DOMAIN out /\ n <= N /\ out'[n] = out[n]
                               \/ n = N + 1 /\ out'[n] = events
    BY <1>3, <1>7, <2>1, <2>2
  <2>4. ASSUME NEW x \in Event, Made(x), NEW i \in DOMAIN events, x.entity = events[i].entity
        PROVE  Later(events[i], x)
    <3>1. x.life \in Nat /\ x.seq \in Nat /\ x.entity \in Entity /\ seq[x.entity] \in Nat
      BY <2>1, LaterOrders
    <3>2. events[i] \in Event /\ events[i].life \in Nat /\ events[i].seq \in Nat
      BY <1>3, LaterOrders
    <3> QED BY <1>3, <2>1, <2>4, <3>1, <3>2 DEF Made, Later
  <2>5. /\ \A i \in DOMAIN lines : lines[i] \in Event /\ Awaited(lines[i])
        /\ \A n \in DOMAIN out : \A i \in DOMAIN out[n] : out[n][i] \in Event /\ Awaited(out[n][i])
    BY AheadTyped DEF OrderInv, AheadIsNew
  <2>6. Before(lines, events) /\ \A n \in DOMAIN out : Before(out[n], events)
    BY <2>4, <2>5 DEF Before, Awaited
  <2>7. PICK o : o = out'
    OBVIOUS
  <2>8. /\ Sorted(lines) /\ \A n \in DOMAIN o : Sorted(o[n]) /\ Before(lines, o[n])
    BY <1>3, <2>3, <2>6, <2>7 DEF OrderInv, AheadInOrder
  <2>9. ASSUME NEW n \in DOMAIN o, NEW m \in DOMAIN o, n < m PROVE Before(o[n], o[m])
    <3>1. n \in DOMAIN out /\ o[n] = out[n]
      BY <2>2, <2>3, <2>7, <2>9
    <3>2. CASE m \in DOMAIN out /\ o[m] = out[m]
      BY <2>9, <3>1, <3>2 DEF OrderInv, AheadInOrder
    <3>3. CASE o[m] = events
      BY <2>6, <3>1, <3>3
    <3> QED BY <2>3, <2>7, <3>2, <3>3
  <2>10. AheadInOrder'
    BY <1>5, <2>7, <2>8, <2>9 DEF AheadInOrder, Sorted, Before, Later
  <2>11. ASSUME NEW x \in Event, Awaited(x) PROVE Awaited(x)'
    BY <1>4, <1>5, <2>11 DEF Awaited, MoreMade, Later
  <2>12. ASSUME NEW i \in DOMAIN events, NEW x, x = events[i] PROVE Awaited(x)'
    <3>1. x \in Event /\ x.entity \in Entity /\ x.life = life /\ x.seq <= seq'[x.entity]
      BY <1>3, <2>12
    <3>2. Made(x)'
      BY <1>2, <3>1 DEF Made
    <3>3. \A y \in newest[x.entity] : y \in Event /\ Made(y) /\ y.entity = x.entity
      BY <2>1, <3>1 DEF OrderInv, NewestIsLast
    <3>4. \A y \in newest'[x.entity] : Later(x, y)
      BY <1>5, <2>4, <2>12, <3>3
    <3> QED BY <3>2, <3>4 DEF Awaited, Later
  <2>13. ASSUME NEW i \in DOMAIN lines', NEW x, x = lines'[i] PROVE Awaited(x)'
    BY <1>5, <2>5, <2>11, <2>13
  <2>14. ASSUME NEW n \in DOMAIN out', NEW i \in DOMAIN out'[n], NEW x, x = out'[n][i] PROVE Awaited(x)'
    <3>1. CASE n \in DOMAIN out /\ out'[n] = out[n]
      BY <2>5, <2>11, <2>14, <3>1
    <3>2. CASE out'[n] = events
      BY <2>12, <2>14, <3>2
    <3> QED BY <2>3, <3>1, <3>2
  <2>15. AheadIsNew'
    BY <2>13, <2>14 DEF AheadIsNew, Awaited, Made, Later
  <2> QED BY <1>4, <2>10, <2>15
<1> QED BY <1>1, <1>6, <1>7

\* Taking a frame apart keeps the order of what is ahead.
LEMMA FrameAhead ==
  ASSUME TypeInv, OrderInv, ReadFrame
  PROVE  AheadInOrder' /\ AheadIsNew'
<1>1. /\ out # <<>> /\ lines' = Head(out) /\ out' = Tail(out)
      /\ life' = life /\ seq' = seq /\ newest' = newest
  BY DEF ReadFrame, genVars, kafka
<1>2. out \in Seq(Seq(Event))
  BY DEF TypeInv, TypeOK
<1>3. \A s \in Seq(Seq(Event)) : s # <<>> => /\ 1 \in DOMAIN s /\ Head(s) = s[1]
                                             /\ \A n \in DOMAIN Tail(s) : /\ n \in Nat \ {0} /\ n + 1 \in DOMAIN s
                                                                          /\ Tail(s)[n] = s[n + 1]
  OBVIOUS
<1>4. PICK l, o : l = lines' /\ o = out'
  OBVIOUS
<1>5. /\ 1 \in DOMAIN out /\ l = out[1]
      /\ \A n \in DOMAIN o : n \in Nat /\ 1 < n + 1 /\ n + 1 \in DOMAIN out /\ o[n] = out[n + 1]
  BY <1>1, <1>2, <1>3, <1>4
<1>6. Sorted(l) /\ \A n \in DOMAIN o : Sorted(o[n]) /\ Before(l, o[n])
  BY <1>5 DEF OrderInv, AheadInOrder
<1>7. ASSUME NEW n \in DOMAIN o, NEW m \in DOMAIN o, n < m PROVE Before(o[n], o[m])
  <2>1. n + 1 < m + 1
    BY <1>5, <1>7
  <2> QED BY <1>5, <2>1 DEF OrderInv, AheadInOrder
<1>8. AheadInOrder'
  BY <1>4, <1>6, <1>7 DEF AheadInOrder, Sorted, Before, Later
<1>9. \A n \in DOMAIN out : \A i \in DOMAIN out[n] : Awaited(out[n][i])
  BY DEF OrderInv, AheadIsNew
<1>10. \A x : Awaited(x) => Awaited(x)'
  BY <1>1 DEF Awaited, Made, Later
<1>11. ASSUME NEW i \in DOMAIN lines', NEW x, x = lines'[i] PROVE Awaited(x)'
  BY <1>4, <1>5, <1>9, <1>10, <1>11
<1>12. ASSUME NEW n \in DOMAIN out', NEW i \in DOMAIN out'[n], NEW x, x = out'[n][i] PROVE Awaited(x)'
  BY <1>4, <1>5, <1>9, <1>10, <1>12
<1>13. AheadIsNew'
  BY <1>11, <1>12 DEF AheadIsNew, Awaited, Made, Later
<1> QED BY <1>8, <1>13

\* Every step keeps the order.
LEMMA OrderStep ==
  ASSUME TypeInv, OrderInv, [Next]_vars
  PROVE  OrderInv'
<1>1. ASSUME AheadInOrder', AheadIsNew', Past' PROVE OrderInv'
  BY <1>1 DEF OrderInv, Past
<1>2. UNCHANGED <<life, seq>> => MoreMade
  BY MadeKept
<1>3. CASE Tick
  <2>1. MoreMade /\ AheadInOrder' /\ AheadIsNew'
    BY <1>3, TickAhead
  <2>2. UNCHANGED kafka
    BY <1>3 DEF Tick
  <2> QED BY <1>1, <2>1, <2>2, PastKept
<1>4. CASE Register \/ Break \/ GeneratorEnds \/ GeneratorStarts \/ Connect \/ ConnectFails \/ Wake
           \/ SeesClose \/ (IngestionRestarts /\ lines = <<>>) \/ UNCHANGED vars
  <2>1. MoreMade
    <3>1. UNCHANGED <<life, seq>> \/ life' = life + 1
      BY <1>4 DEF Register, Break, GeneratorEnds, GeneratorStarts, Connect, ConnectFails, Wake,
                  SeesClose, IngestionRestarts, vars, genVars
    <3> QED BY <3>1, MadeKept
  <2>2. UNCHANGED kafka
    BY <1>4 DEF Register, Break, GeneratorEnds, GeneratorStarts, Connect, ConnectFails, Wake,
                SeesClose, IngestionRestarts, vars
  <2>3. UNCHANGED <<lines, newest>>
    BY <1>4, <2>2 DEF Register, Break, GeneratorEnds, GeneratorStarts, Connect, ConnectFails, Wake,
                      SeesClose, IngestionRestarts, vars, ingVars, kafka
  <2>4. out' = out \/ out' = <<>> \/ \E n \in 0 .. Len(out) : out' = SubSeq(out, 1, n)
    BY <1>4 DEF Register, Break, GeneratorEnds, GeneratorStarts, Connect, ConnectFails, Wake,
                SeesClose, IngestionRestarts, vars
  <2>5. DOMAIN out' \subseteq DOMAIN out /\ \A n \in DOMAIN out' : out'[n] = out[n]
    <3>1. \A s \in Seq(Seq(Event)) : \A n \in 0 .. Len(s) :
            /\ DOMAIN SubSeq(s, 1, n) \subseteq DOMAIN s
            /\ \A i \in DOMAIN SubSeq(s, 1, n) : SubSeq(s, 1, n)[i] = s[i]
      OBVIOUS
    <3>2. out \in Seq(Seq(Event))
      BY DEF TypeInv, TypeOK
    <3> QED BY <2>4, <3>1, <3>2
  <2> QED BY <1>1, <2>1, <2>2, <2>3, <2>5, PastKept, AheadKept
<1>5. CASE ReadFrame
  <2>1. UNCHANGED kafka /\ UNCHANGED <<life, seq>>
    BY <1>5 DEF ReadFrame, genVars
  <2> QED BY <1>1, <1>2, <1>5, <2>1, FrameAhead, PastKept
<1>6. CASE Sent \/ SendFails \/ (IngestionRestarts /\ lines # <<>>)
  <2>1. /\ lines # <<>> /\ lines' \in {Tail(lines), <<>>} /\ out' \in {out, <<>>}
        /\ newest' = [newest EXCEPT ![lines[1].entity] = {lines[1]}]
        /\ UNCHANGED <<life, seq>>
    BY <1>6 DEF Sent, SendFails, IngestionRestarts, LineDone, genVars
  <2>2. \/ Taken(lines[1]) /\ UNCHANGED <<late, gaveUp>>
        \/ /\ late' = late \cup {lines[1]} /\ gaveUp' = gaveUp \cup {lines[1]}
           /\ topic' = topic
    BY <1>6 DEF Sent, SendFails, IngestionRestarts, Taken
  <2> QED BY <1>1, <2>1, <2>2, LineHandled, PastHandled
<1>7. CASE LateAppend
  <2>1. UNCHANGED <<lines, newest, out>> /\ UNCHANGED <<life, seq>>
    BY <1>7 DEF LateAppend, genVars, ingVars
  <2> QED BY <1>1, <1>2, <1>7, <2>1, AheadKept, PastLate
<1> QED BY <1>3, <1>4, <1>5, <1>6, <1>7 DEF Next, Generator, Ingestion

\* The order at the start.
LEMMA OrderInit ==
  ASSUME Init
  PROVE  OrderInv
<1>1. lines = <<>> /\ out = <<>> /\ topic = <<>> /\ late = {} /\ gaveUp = {} /\ newest = [e \in Entity |-> {}]
  BY DEF Init
<1>2. DOMAIN <<>> = {}
  OBVIOUS
<1> QED BY <1>1, <1>2 DEF OrderInv, AheadInOrder, AheadIsNew, NewestIsLast, TopicInOrder, Sorted, Before

\* The order holds always.
LEMMA OrderInvariant == Spec => []OrderInv
<1> QED BY OrderInit, OrderStep, TypeInvariant, PTL DEF Spec

(* Of one entity the topic holds what was acknowledged in the order the generator
   made it, over reconnects and restarts of both sides. *)
THEOREM TopicOrdered == Spec => []TopicInOrder
<1>1. OrderInv => TopicInOrder
  BY DEF OrderInv
<1> QED BY <1>1, OrderInvariant, PTL
-----------------------------------------------------------------------------
(* Nothing is skipped *)

Handled(x) == x \in gaveUp \/ \E k \in DOMAIN topic : topic[k] = x
Ahead == lines \o FlattenSeq(out)
DoneThen(d) == d \in Seq(Event) /\ aired = d \o Ahead /\ \A i \in DOMAIN d : Handled(d[i])

(* What was broadcast on this connection is what has been handled and then what is
   ahead; only a reader has lines in hand. *)
AiredInv ==
  /\ ing # "reading" => lines = <<>>
  /\ link \in {"accepted", "open"} => \E d : DoneThen(d)

\* What is handled stays so: the topic and the given-up events only grow.
LEMMA HandledKept ==
  ASSUME TypeInv, [Next]_vars, NEW x, Handled(x)
  PROVE  Handled(x)'
<1>1. gaveUp \subseteq gaveUp'
  BY DEF Next, Generator, Ingestion, Tick, Register, Break, GeneratorEnds, GeneratorStarts, Connect, ConnectFails,
         Wake, SeesClose, IngestionRestarts, ReadFrame, Sent, SendFails, LateAppend, vars, kafka
<1>2. topic' = topic \/ (\E y : topic' = Append(topic, y)) \/ (\E y, z : topic' = topic \o <<y, z>>)
  BY DEF Next, Generator, Ingestion, Tick, Register, Break, GeneratorEnds, GeneratorStarts, Connect, ConnectFails,
         Wake, SeesClose, IngestionRestarts, ReadFrame, Sent, SendFails, LateAppend, vars, kafka
<1>3. \A k \in DOMAIN topic : k \in DOMAIN topic' /\ topic'[k] = topic[k]
  <2>1. topic \in Seq(Event)
    BY DEF TypeInv, TypeOK
  <2>2. \A s \in Seq(Event) : \A k \in DOMAIN s :
          /\ \A y : k \in DOMAIN Append(s, y) /\ Append(s, y)[k] = s[k]
          /\ \A y, z : k \in DOMAIN (s \o <<y, z>>) /\ (s \o <<y, z>>)[k] = s[k]
    OBVIOUS
  <2>3. PICK o : o = topic'
    OBVIOUS
  <2>4. CASE \E y : o = Append(topic, y)
    BY <2>1, <2>2, <2>3, <2>4
  <2>5. CASE \E y, z : o = topic \o <<y, z>>
    BY <2>1, <2>2, <2>3, <2>5
  <2> QED BY <1>2, <2>3, <2>4, <2>5
<1> QED BY <1>1, <1>3 DEF Handled

\* Which of two concatenations comes first does not matter.
LEMMA EventsConcat == \A a, b, c \in Seq(Event) : (a \o b) \o c = a \o (b \o c)
  BY ConcatsAgree DEF Regroups

\* The parts keep their types.
LEMMA AheadTypes ==
  ASSUME TypeInv
  PROVE  /\ lines \in Seq(Event) /\ out \in Seq(Seq(Event)) /\ aired \in Seq(Event)
         /\ FlattenSeq(out) \in Seq(Event) /\ Ahead \in Seq(Event)
<1>1. lines \in Seq(Event) /\ out \in Seq(Seq(Event)) /\ aired \in Seq(Event)
  BY DEF TypeInv, TypeOK
<1>2. FlattenSeq(out) \in Seq(Event)
  BY <1>1, FlatType
<1> QED BY <1>1, <1>2, ConcatProperties DEF Ahead

\* A tick puts the same events at the end of what was broadcast and of what is ahead.
LEMMA TickAired ==
  ASSUME TypeInv, AiredInv, Tick, link \in {"accepted", "open"}
  PROVE  \E d : d \in Seq(Event) /\ aired' = d \o Ahead' /\ \A i \in DOMAIN d : Handled(d[i])
<1>1. PICK d : DoneThen(d)
  BY DEF AiredInv
<1>2. ticks.all < MaxTicks /\ lines' = lines
  BY DEF Tick, ingVars
<1>t. PICK t \in EventsForTick(carry) : \E drawn \in [1 .. t.n -> Entity] :
        \/ out' = out /\ aired' = aired
        \/ out' = Append(out, NumberedEvents(drawn)) /\ aired' = aired \o NumberedEvents(drawn)
  BY DEF Tick
<1>3. PICK drawn \in [1 .. t.n -> Entity] :
        \/ out' = out /\ aired' = aired
        \/ out' = Append(out, NumberedEvents(drawn)) /\ aired' = aired \o NumberedEvents(drawn)
  BY <1>t
<1>4. PICK events \in Seq(Event) : events = NumberedEvents(drawn)
  BY <1>2, <1>3, TickNumbers
<1>5. PICK f \in Seq(Event) : f = FlattenSeq(out)
  BY AheadTypes
<1>6. CASE out' = out /\ aired' = aired
  BY <1>1, <1>2, <1>6 DEF DoneThen, Ahead
<1>7. CASE out' = Append(out, events) /\ aired' = aired \o events
  <2>1. FlattenSeq(out') = f \o events
    BY <1>4, <1>5, <1>7, AheadTypes, FlatAppend
  <2>2. PICK l \in Seq(Event), a \in Seq(Event) : l = lines /\ a = l \o f /\ a = Ahead
    BY <1>5, AheadTypes DEF Ahead
  <2>3. l \o (f \o events) = a \o events
    <3>1. (l \o f) \o events = l \o (f \o events)
      BY <1>4, EventsConcat, ZenonT(30)
    <3> QED BY <2>2, <3>1
  <2>4. Ahead' = a \o events
    BY <1>2, <2>1, <2>2, <2>3 DEF Ahead
  <2>5. d \in Seq(Event) /\ aired = d \o a
    BY <1>1, <2>2 DEF DoneThen
  <2>6. (d \o a) \o events = d \o (a \o events)
    BY <1>4, <2>2, <2>5, EventsConcat, ZenonT(30)
  <2> QED BY <1>1, <1>7, <2>4, <2>5, <2>6 DEF DoneThen
<1> QED BY <1>3, <1>4, <1>6, <1>7

\* Taking a frame in hand moves it from the frames to the lines.
LEMMA FrameAired ==
  ASSUME TypeInv, ReadFrame
  PROVE  Ahead' = Ahead
<1>1. lines = <<>> /\ out # <<>> /\ lines' = Head(out) /\ out' = Tail(out)
  BY DEF ReadFrame
<1>2. FlattenSeq(out) = Head(out) \o FlattenSeq(Tail(out))
  BY <1>1, AheadTypes, FlatHead
<1>3. <<>> \o FlattenSeq(out) = FlattenSeq(out)
  BY AheadTypes, ConcatEmptySeq
<1> QED BY <1>1, <1>2, <1>3 DEF Ahead

\* A line that is done with goes from what is ahead to what has been handled.
LEMMA LineAired ==
  ASSUME TypeInv, AiredInv, Sent \/ SendFails, link \in {"accepted", "open"}
  PROVE  \E d : d \in Seq(Event) /\ aired' = d \o Ahead' /\ \A i \in DOMAIN d : Handled(d[i])'
<1>1. PICK d : DoneThen(d)
  BY DEF AiredInv
<1>2. PICK x \in Event, l \in Seq(Event), f \in Seq(Event), t \in Seq(Event) :
        x = lines[1] /\ l = lines /\ l # <<>> /\ f = FlattenSeq(out) /\ t = Tail(l) /\ x = Head(l)
  <2>1. lines # <<>>
    BY DEF Sent, SendFails
  <2>2. Head(lines) = lines[1] /\ Head(lines) \in Event /\ Tail(lines) \in Seq(Event)
    BY <2>1, AheadTypes, HeadTailProperties
  <2> QED BY <2>1, <2>2, AheadTypes
<1>3. lines' = t /\ out' = out /\ aired' = aired
  BY <1>2 DEF Sent, SendFails, LineDone
<1>4. l = <<x>> \o t
  <2>1. \A s \in Seq(Event) : s # <<>> => s = <<Head(s)>> \o Tail(s)
    OBVIOUS
  <2> QED BY <1>2, <2>1
<1>5. Handled(x)'
  <2>1. CASE Sent
    <3>1. \A s \in Seq(Event) : /\ Len(s) + 1 \in DOMAIN Append(s, x) /\ Append(s, x)[Len(s) + 1] = x
                                /\ Len(s) + 1 \in DOMAIN (s \o <<x, x>>) /\ (s \o <<x, x>>)[Len(s) + 1] = x
      OBVIOUS
    <3>2. topic \in Seq(Event)
      BY DEF TypeInv, TypeOK
    <3>3. topic' = Append(topic, x) \/ topic' = topic \o <<x, x>>
      BY <1>2, <2>1 DEF Sent
    <3> QED BY <3>1, <3>2, <3>3 DEF Handled
  <2>2. CASE SendFails
    BY <1>2, <2>2 DEF SendFails, Handled
  <2> QED BY <2>1, <2>2
<1>6. PICK c \in Seq(Event) : c = d \o <<x>>
  <2>1. d \in Seq(Event) /\ <<x>> \in Seq(Event)
    BY <1>1 DEF DoneThen
  <2> QED BY <2>1, ConcatProperties
<1>7. aired = c \o (t \o f)
  <2>1. d \in Seq(Event) /\ <<x>> \in Seq(Event) /\ aired = d \o (l \o f)
    BY <1>1, <1>2 DEF DoneThen, Ahead
  <2>2. PICK one \in Seq(Event), u \in Seq(Event) : one = <<x>> /\ u = t \o f
    BY <2>1, ConcatProperties
  <2>3. l \o f = one \o u
    BY <1>4, <2>2, EventsConcat
  <2>4. d \o (one \o u) = (d \o one) \o u
    <3>1. PICK e \in Seq(Event) : e = d
      BY <2>1
    <3>2. (e \o one) \o u = e \o (one \o u)
      BY EventsConcat, ZenonT(30)
    <3> QED BY <3>1, <3>2
  <2> QED BY <1>6, <2>1, <2>2, <2>3, <2>4
<1>8. ASSUME NEW i \in DOMAIN c PROVE Handled(c[i])'
  <2>1. d \in Seq(Event) /\ \A j \in DOMAIN d : Handled(d[j])
    BY <1>1 DEF DoneThen
  <2>2. (i \in DOMAIN d /\ c[i] = d[i]) \/ c[i] = x
    BY <1>6, <2>1
  <2>3. [Next]_vars
    BY DEF Next, Ingestion
  <2>4. \A y : Handled(y) => Handled(y)'
    BY <2>3, HandledKept
  <2>5. CASE i \in DOMAIN d /\ c[i] = d[i]
    BY <2>1, <2>4, <2>5
  <2>6. CASE c[i] = x
    BY <1>5, <2>6
  <2> QED BY <2>2, <2>5, <2>6
<1>9. aired' = c \o Ahead'
  BY <1>2, <1>3, <1>7 DEF Ahead
<1> QED BY <1>8, <1>9

\* Every step keeps what was broadcast accounted for.
LEMMA AiredStep ==
  ASSUME TypeInv, AiredInv, [Next]_vars
  PROVE  AiredInv'
<1>1. \A x : Handled(x) => Handled(x)'
  BY HandledKept
<1>2. ASSUME link \in {"accepted", "open"}, UNCHANGED <<aired, Ahead>>
      PROVE  \E d : d \in Seq(Event) /\ aired' = d \o Ahead' /\ \A i \in DOMAIN d : Handled(d[i])'
  <2>1. PICK d : DoneThen(d)
    BY <1>2 DEF AiredInv
  <2>2. \A i \in DOMAIN d : Handled(d[i])'
    BY <1>1, <2>1 DEF DoneThen
  <2> QED BY <1>2, <2>1, <2>2 DEF DoneThen
<1>3. ASSUME link' \in {"accepted", "open"} =>
               \E d : d \in Seq(Event) /\ aired' = d \o Ahead' /\ \A i \in DOMAIN d : Handled(d[i])',
             ing' # "reading" => lines' = <<>>
      PROVE  AiredInv'
  BY <1>3 DEF AiredInv, DoneThen, Handled
<1>4. CASE Tick
  <2>1. link' = link /\ ing' = ing /\ lines' = lines
    BY <1>4 DEF Tick, ingVars
  <2>2. ASSUME link \in {"accepted", "open"}
        PROVE  \E d : d \in Seq(Event) /\ aired' = d \o Ahead' /\ \A i \in DOMAIN d : Handled(d[i])'
    <3>1. PICK d : d \in Seq(Event) /\ aired' = d \o Ahead' /\ \A i \in DOMAIN d : Handled(d[i])
      BY <1>4, <2>2, TickAired
    <3>2. \A i \in DOMAIN d : Handled(d[i])'
      BY <1>1, <3>1
    <3> QED BY <3>1, <3>2
  <2>3. ing' # "reading" => lines' = <<>>
    BY <2>1 DEF AiredInv
  <2> QED BY <1>3, <2>1, <2>2, <2>3
<1>5. CASE Break \/ GeneratorEnds \/ SeesClose \/ IngestionRestarts
  <2>1. link' \notin {"accepted", "open"}
    BY <1>5 DEF Break, GeneratorEnds, SeesClose, IngestionRestarts
  <2>2. ing' # "reading" => lines' = <<>>
    BY <1>5 DEF Break, GeneratorEnds, SeesClose, IngestionRestarts, ingVars, AiredInv
  <2> QED BY <1>3, <2>1, <2>2
<1>6. CASE Connect
  <2>1. ing = "connecting" /\ ing' = "reading" /\ lines' = lines /\ out' = <<>> /\ aired' = <<>>
    BY <1>6 DEF Connect
  <2>2. lines' = <<>>
    BY <2>1 DEF AiredInv
  <2>3. <<>> \in Seq(Event) /\ <<>> \in Seq(Seq(Event)) /\ DOMAIN <<>> = {}
    OBVIOUS
  <2>4. FlattenSeq(<<>>) = <<>> /\ <<>> \o <<>> = <<>>
    BY <2>3, FlatType, ConcatEmptySeq
  <2>5. Ahead' = <<>> /\ aired' = <<>> \o <<>>
    BY <2>1, <2>2, <2>4 DEF Ahead
  <2>6. <<>> \in Seq(Event) /\ aired' = <<>> \o Ahead' /\ \A i \in DOMAIN <<>> : Handled(<<>>[i])'
    BY <2>3, <2>5
  <2> QED BY <1>3, <2>1, <2>6
<1>7. CASE ReadFrame
  <2>1. link' = link /\ aired' = aired /\ ing' = "reading"
    BY <1>7 DEF ReadFrame
  <2>2. Ahead' = Ahead
    BY <1>7, FrameAired
  <2> QED BY <1>2, <1>3, <2>1, <2>2
<1>8. CASE Sent \/ SendFails
  <2>1. link' = link /\ ing' = ing /\ lines # <<>>
    BY <1>8 DEF Sent, SendFails
  <2>2. ing = "reading"
    BY <2>1 DEF AiredInv
  <2> QED BY <1>3, <1>8, <2>1, <2>2, LineAired
<1>9. CASE Register \/ GeneratorStarts \/ ConnectFails \/ Wake \/ LateAppend \/ UNCHANGED vars
  <2>1. UNCHANGED <<out, lines, aired>>
    BY <1>9 DEF Register, GeneratorStarts, ConnectFails, Wake, LateAppend, vars, ingVars
  <2>2. link' = link \/ link = "accepted"
    BY <1>9 DEF Register, GeneratorStarts, ConnectFails, Wake, LateAppend, vars
  <2>3. ing # "reading" \/ ing' = ing
    BY <1>9 DEF Register, GeneratorStarts, ConnectFails, Wake, LateAppend, vars, ingVars
  <2>4. UNCHANGED <<aired, Ahead>>
    BY <2>1 DEF Ahead
  <2>5. ing' # "reading" => lines' = <<>>
    BY <2>1, <2>3 DEF AiredInv
  <2> QED BY <1>2, <1>3, <2>2, <2>4, <2>5
<1> QED BY <1>4, <1>5, <1>6, <1>7, <1>8, <1>9 DEF Next, Generator, Ingestion

(* What was broadcast on the open connection is, in that order and without a gap, done
   with, in hand, or on the wire. *)
THEOREM NothingIsSkipped == Spec => []NothingSkipped
<1>1. Init => AiredInv
  BY DEF Init, AiredInv
<1>2. TypeInv /\ AiredInv => NothingSkipped
  <2> SUFFICES ASSUME TypeInv, AiredInv, link \in {"accepted", "open"}
               PROVE  LET done == Len(aired) - Len(Ahead)
                      IN  /\ done >= 0 /\ SubSeq(aired, done + 1, Len(aired)) = Ahead
                          /\ \A i \in 1 .. done : aired[i] \in gaveUp \/ \E k \in DOMAIN topic : topic[k] = aired[i]
    BY DEF NothingSkipped, Ahead
  <2>1. PICK d : DoneThen(d)
    BY DEF AiredInv
  <2>2. PICK a \in Seq(Event) : a = Ahead /\ aired = d \o a /\ d \in Seq(Event)
    BY <2>1, AheadTypes DEF DoneThen
  <2>3. PICK m, n \in Nat : m = Len(d) /\ n = Len(a) /\ Len(d \o a) = m + n /\ DOMAIN d = 1 .. m
    BY <2>2
  <2>4. SubSeq(d \o a, m + 1, m + n) = a
    <3>1. CASE n = 0
      <4>1. m + 1 \in Int /\ m + n \in Int /\ m + n < m + 1
        BY <3>1
      <4>2. SubSeq(d \o a, m + 1, m + n) = <<>>
        BY <4>1, SubSeqEmpty
      <4>3. a = <<>>
        BY <2>3, <3>1
      <4> QED BY <4>2, <4>3
    <3>2. CASE n # 0
      <4>1. PICK e \in Seq(Event) : e = d /\ Len(e) = m
        BY <2>2, <2>3
      <4>2. /\ m + 1 \in Len(e) + 1 .. Len(e) + Len(a) /\ m + n \in Len(e) + 1 .. Len(e) + Len(a)
            /\ m + 1 - Len(e) = 1 /\ m + n - Len(e) = Len(a)
        BY <2>3, <3>2, <4>1
      <4>3. SubSeq(e \o a, m + 1, m + n) = SubSeq(a, m + 1 - Len(e), m + n - Len(e))
        BY <4>2, SubSeqOfConcat2
      <4>4. SubSeq(a, 1, Len(a)) = a
        BY SubSeqFull
      <4> QED BY <4>1, <4>2, <4>3, <4>4
    <3> QED BY <3>1, <3>2
  <2>5. \A i \in 1 .. m : (d \o a)[i] = d[i] /\ Handled(d[i])
    BY <2>1, <2>2, <2>3 DEF DoneThen
  <2>6. PICK done : done = Len(aired) - Len(Ahead)
    OBVIOUS
  <2>7. done = m /\ Len(aired) = m + n
    BY <2>2, <2>3, <2>6
  <2>8. done >= 0 /\ SubSeq(aired, done + 1, Len(aired)) = Ahead
    BY <2>2, <2>4, <2>7
  <2>9. \A i \in 1 .. done : Handled(aired[i])
    BY <2>2, <2>5, <2>7
  <2> QED BY <2>6, <2>8, <2>9 DEF Handled
<1> QED BY <1>1, <1>2, AiredStep, TypeInvariant, PTL DEF Spec
-----------------------------------------------------------------------------
(* Backoff *)

\* The bounds of one sleep.
LEMMA SleepBounded ==
  ASSUME TypeInv, attempt <= failed', failed' \in 0 .. MaxShift, Sleep(attempt)
  PROVE  BackoffFollowsOutage' /\ attempt' <= failed' + 1 /\ ing' = "sleeping"
<1>1. /\ attempt \in 0 .. MaxShift /\ MaxShift \in Nat /\ Cap \in Nat /\ Base \div 2 \in Nat
      /\ ing' = "sleeping" /\ delay' \in {Base \div 2, Longest(attempt)}
      /\ attempt' = Least(attempt + 1, MaxShift)
  <2>1. \A b \in Nat : b \div 2 \in Nat
    OBVIOUS
  <2> QED BY <2>1, BackoffAssumption DEF TypeInv, TypeOK, Sleep
<1>2. /\ Longest(failed') = Least(Base * 2 ^ failed', Cap) /\ Longest(failed') \in 0 .. Cap
      /\ Longest(attempt) \in 0 .. Cap /\ Base \div 2 \in 0 .. Longest(attempt)
      /\ Longest(attempt) <= Longest(failed')
  BY <1>1, LongestGrows
<1>3. PICK top \in Nat : top = Longest(failed')
  BY <1>1, <1>2
<1>4. delay' \in (Base \div 2) .. top
  BY <1>1, <1>2, <1>3
<1>5. attempt' <= failed' + 1
  <2>1. \A a, f, m \in Nat : a <= f => Least(a + 1, m) <= f + 1
    BY DEF Least
  <2>2. attempt \in Nat /\ failed' \in Nat
    BY <1>1
  <2> QED BY <1>1, <2>1, <2>2
<1> QED BY <1>1, <1>2, <1>3, <1>4, <1>5 DEF BackoffFollowsOutage

\* Every step keeps the backoff bounded.
LEMMA BackoffStep ==
  ASSUME TypeInv, BackoffInv, [Next]_vars
  PROVE  BackoffInv'
<1>1. attempt \in 0 .. MaxShift /\ failed \in 0 .. MaxShift /\ MaxShift \in Nat
  BY BackoffAssumption DEF TypeInv, TypeOK
<1>2. attempt <= failed + 1 /\ (ing = "reading" => attempt = 0)
  BY DEF BackoffInv
<1>3. CASE ConnectFails
  <2>1. Sleep(attempt) /\ failed' = Least(failed + 1, MaxShift)
    BY <1>3 DEF ConnectFails
  <2>2. failed' \in 0 .. MaxShift /\ attempt <= failed'
    BY <1>1, <1>2, <2>1 DEF Least
  <2> QED BY <2>1, <2>2, SleepBounded DEF BackoffInv
<1>4. CASE SeesClose
  <2>1. Sleep(attempt) /\ failed' = failed /\ attempt = 0
    BY <1>2, <1>4 DEF SeesClose
  <2>2. attempt <= failed'
    BY <1>1, <2>1
  <2> QED BY <1>1, <2>1, <2>2, SleepBounded DEF BackoffInv
<1>5. CASE Connect \/ IngestionRestarts
  <2>1. ing' # "sleeping" /\ attempt' = 0 /\ failed' = 0
    BY <1>5 DEF Connect, IngestionRestarts
  <2> QED BY <2>1 DEF BackoffInv, BackoffFollowsOutage
<1>6. CASE Wake
  <2>1. ing' = "connecting" /\ attempt' = attempt /\ failed' = failed
    BY <1>6 DEF Wake
  <2> QED BY <1>2, <2>1 DEF BackoffInv, BackoffFollowsOutage
<1>7. CASE Tick \/ Register \/ GeneratorEnds \/ GeneratorStarts \/ ReadFrame \/ Sent \/ SendFails \/ Break
           \/ LateAppend \/ UNCHANGED vars
  <2>1. ing' = ing /\ attempt' = attempt /\ failed' = failed /\ delay' = delay
    BY <1>7 DEF Tick, Register, GeneratorEnds, GeneratorStarts, ReadFrame, Sent, SendFails, Break,
                LateAppend, vars, ingVars
  <2> QED BY <2>1 DEF BackoffInv, BackoffFollowsOutage
<1> QED BY <1>3, <1>4, <1>5, <1>6, <1>7 DEF Next, Generator, Ingestion

(* A sleep is at least half of BASE_MS and at most MAX_MS, or BASE_MS doubled once
   per connect that failed since a connection last worked. *)
THEOREM BackoffBounded == Spec => []BackoffFollowsOutage
<1>1. Init => BackoffInv
  BY DEF Init, BackoffInv, BackoffFollowsOutage
<1>2. BackoffInv => BackoffFollowsOutage
  BY DEF BackoffInv
<1> QED BY <1>1, <1>2, BackoffStep, TypeInvariant, PTL DEF Spec
-----------------------------------------------------------------------------
(* Refinement: raw-events is an ordered lossy feed. *)

\* The line in hand is one the abstract feed may accept.
LEMMA LineFollows ==
  ASSUME TypeInv, OrderInv, lines # <<>>
  PROVE  \E x \in Event : x = lines[1] /\ Feed!Follows(x)
<1>1. lines[1] \in Event /\ 1 \in DOMAIN lines
  <2>1. lines \in Seq(Event)
    BY DEF TypeInv, TypeOK
  <2> QED BY <2>1
<1>2. Awaited(lines[1])
  BY <1>1 DEF OrderInv, AheadIsNew
<1> QED BY <1>1, <1>2 DEF Awaited, Later, Feed!Follows, Feed!Later

\* Every step is a step of the abstract feed or a stutter.
LEMMA FeedStep ==
  ASSUME TypeInv, OrderInv, [Next]_vars
  PROVE  [Feed!FeedNext]_(Feed!feedVars)
<1>1. CASE Sent
  <2>1. PICK x \in Event : x = lines[1] /\ Feed!Follows(x)
    BY <1>1, LineFollows DEF Sent
  <2>2. topic' = topic \o <<x>> \/ topic' = topic \o <<x, x>>
    <3>1. \A s \in Seq(Event) : Append(s, x) = s \o <<x>>
      OBVIOUS
    <3>2. topic \in Seq(Event)
      BY DEF TypeInv, TypeOK
    <3> QED BY <1>1, <2>1, <3>1, <3>2 DEF Sent
  <2>3. newest' = [newest EXCEPT ![x.entity] = {x}] /\ late' = late
    BY <1>1, <2>1 DEF Sent, LineDone
  <2>4. Feed!Accept(x)
    BY <2>1, <2>2, <2>3 DEF Feed!Accept, Feed!Done
  <2> QED BY <2>4 DEF Feed!FeedNext
<1>2. CASE SendFails \/ (IngestionRestarts /\ lines # <<>>)
  <2>1. PICK x \in Event : x = lines[1] /\ Feed!Follows(x)
    BY <1>2, LineFollows DEF SendFails
  <2>2. newest' = [newest EXCEPT ![x.entity] = {x}] /\ late' = late \cup {x} /\ topic' = topic
    BY <1>2, <2>1 DEF SendFails, IngestionRestarts, LineDone
  <2>3. Feed!GiveUp(x)
    BY <2>1, <2>2 DEF Feed!GiveUp, Feed!Done
  <2> QED BY <2>3 DEF Feed!FeedNext
<1>3. CASE LateAppend
  <2>1. PICK x \in late : topic' = Append(topic, x) /\ late' = late \ {x} /\ newest' = newest
    BY <1>3 DEF LateAppend
  <2>2. x \in Event
    BY AheadTyped
  <2>3. Feed!TurnUp(x)
    BY <2>1 DEF Feed!TurnUp
  <2> QED BY <2>2, <2>3 DEF Feed!FeedNext
<1>4. CASE Tick \/ Register \/ Break \/ GeneratorEnds \/ GeneratorStarts \/ Connect \/ ConnectFails \/ Wake
           \/ SeesClose \/ ReadFrame \/ (IngestionRestarts /\ lines = <<>>) \/ UNCHANGED vars
  <2>1. topic' = topic /\ newest' = newest /\ late' = late
    BY <1>4 DEF Tick, Register, Break, GeneratorEnds, GeneratorStarts, Connect, ConnectFails, Wake,
                SeesClose, ReadFrame, IngestionRestarts, vars, kafka
  <2> QED BY <2>1 DEF Feed!feedVars
<1> QED BY <1>1, <1>2, <1>3, <1>4 DEF Next, Generator, Ingestion

(* What the generator and the ingestion do with raw-events together is a behaviour
   of the ordered lossy feed the services behind it rely on. *)
THEOREM ImplementsOrderedFeed == Spec => FeedIsOrdered
<1>1. Init => Feed!FeedInit
  BY DEF Init, Feed!FeedInit
<1> QED BY <1>1, FeedStep, TypeInvariant, OrderInvariant, PTL DEF Spec, FeedIsOrdered, Feed!FeedSpec
=============================================================================
