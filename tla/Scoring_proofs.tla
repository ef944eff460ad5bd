--------------------------- MODULE Scoring_proofs ---------------------------
(***************************************************************************)
(* Theorems about Scoring: the detectors of an entity as functions of its own *)
(* history, for histories of any length, any entities, windows and settings,  *)
(* and the artefacts of XGBoost over trainings and restarts.                 *)
(***************************************************************************)
EXTENDS Scoring, InductionLemmas

-----------------------------------------------------------------------------
(* Deques and histories *)

\* The last n of a sequence.
LEMMA LastNFacts ==
  ASSUME NEW S, NEW s \in Seq(S), NEW n \in Nat
  PROVE  /\ LastN(s, n) \in Seq(S)
         /\ Len(LastN(s, n)) = IF Len(s) <= n THEN Len(s) ELSE n
         /\ \A i \in 1 .. Len(LastN(s, n)) :
              LastN(s, n)[i] = s[i + Len(s) - Len(LastN(s, n))]
<1>1. Len(s) \in Nat /\ \A i \in 1 .. Len(s) : s[i] \in S
  OBVIOUS
<1>2. CASE Len(s) <= n
  BY <1>1, <1>2 DEF LastN
<1>3. CASE ~(Len(s) <= n)
  <2>1. PICK a, b : a = Len(s) - n + 1 /\ b = Len(s)
    OBVIOUS
  <2>2. a \in Int /\ b \in Int /\ a >= 1 /\ b - a + 1 = n /\ \A i \in a .. b : s[i] \in S
    BY <1>1, <1>3, <2>1
  <2>3. /\ SubSeq(s, a, b) \in Seq(S)
        /\ Len(SubSeq(s, a, b)) = IF a <= b THEN b - a + 1 ELSE 0
        /\ \A i \in 1 .. b - a + 1 : SubSeq(s, a, b)[i] = s[a + i - 1]
    BY <2>2, SubSeqProperties
  <2>4. LastN(s, n) = SubSeq(s, a, b)
    BY <1>3, <2>1 DEF LastN
  <2>5. Len(LastN(s, n)) = n
    BY <1>1, <2>1, <2>2, <2>3, <2>4
  <2>6. \A i \in 1 .. n : a + i - 1 = i + Len(s) - n
    BY <1>1, <2>1
  <2> QED
    BY <1>3, <2>2, <2>3, <2>4, <2>5, <2>6, ZenonT(30)
<1> QED
  BY <1>2, <1>3

\* A deque of length n holds the last n of all that was ever pushed.
LEMMA PushedIsLastN ==
  ASSUME NEW S, NEW s \in Seq(S), NEW n \in Nat, NEW x \in S
  PROVE  Pushed(LastN(s, n), x, n) = LastN(Append(s, x), n)
<1> DEFINE q == LastN(s, n)
           a == Append(q, x)
           b == Append(s, x)
<1>1. /\ q \in Seq(S) /\ Len(q) = IF Len(s) <= n THEN Len(s) ELSE n
      /\ \A i \in 1 .. Len(q) : q[i] = s[i + Len(s) - Len(q)]
  BY LastNFacts
<1>2. /\ a \in Seq(S) /\ Len(a) = Len(q) + 1 /\ \A i \in 1 .. Len(q) : a[i] = q[i]
      /\ a[Len(q) + 1] = x
  BY <1>1, AppendProperties
<1>3. /\ b \in Seq(S) /\ Len(b) = Len(s) + 1 /\ \A i \in 1 .. Len(s) : b[i] = s[i]
      /\ b[Len(s) + 1] = x
  BY AppendProperties
<1>4. /\ LastN(a, n) \in Seq(S) /\ Len(LastN(a, n)) = IF Len(a) <= n THEN Len(a) ELSE n
      /\ \A i \in 1 .. Len(LastN(a, n)) : LastN(a, n)[i] = a[i + Len(a) - Len(LastN(a, n))]
  BY <1>2, LastNFacts
<1>5. /\ LastN(b, n) \in Seq(S) /\ Len(LastN(b, n)) = IF Len(b) <= n THEN Len(b) ELSE n
      /\ \A i \in 1 .. Len(LastN(b, n)) : LastN(b, n)[i] = b[i + Len(b) - Len(LastN(b, n))]
  BY <1>3, LastNFacts
<1> HIDE DEF q, a, b
<1>6. PICK k, l : k = Len(s) /\ l = Len(q)
  OBVIOUS
<1>7. k \in Nat /\ l \in Nat /\ n \in Nat /\ Len(a) = l + 1 /\ Len(b) = k + 1 /\ l <= k
  BY <1>1, <1>2, <1>3, <1>6
<1>8. PICK m : m = Len(LastN(b, n))
  OBVIOUS
<1>9. m \in Nat /\ Len(LastN(a, n)) = m /\ m <= l + 1
  BY <1>1, <1>4, <1>5, <1>6, <1>7, <1>8
<1>10. ASSUME NEW i \in 1 .. m PROVE LastN(a, n)[i] = LastN(b, n)[i]
  <2>1. i \in Nat /\ i + (l + 1) - m \in 1 .. l + 1
    BY <1>7, <1>9
  <2>2. LastN(a, n)[i] = a[i + (l + 1) - m] /\ LastN(b, n)[i] = b[i + (k + 1) - m]
    BY <1>4, <1>5, <1>7, <1>8, <1>9
  <2>3. CASE i = m
    <3>1. i + (l + 1) - m = l + 1 /\ i + (k + 1) - m = k + 1
      BY <1>7, <1>9, <2>3
    <3> QED
      BY <1>2, <1>3, <1>6, <2>2, <3>1
  <2>4. CASE i # m
    <3>1. PICK j : j = i + (l + 1) - m
      OBVIOUS
    <3>2. j \in 1 .. l /\ j + k - l \in 1 .. k /\ j + k - l = i + (k + 1) - m
      BY <1>7, <1>9, <2>1, <2>4, <3>1
    <3>3. a[j] = q[j] /\ q[j] = s[j + k - l] /\ b[j + k - l] = s[j + k - l]
      BY <1>1, <1>2, <1>3, <1>6, <3>2
    <3> QED
      BY <2>2, <3>1, <3>2, <3>3
  <2> QED
    BY <2>3, <2>4
<1>11. LastN(a, n) = LastN(b, n)
  BY <1>4, <1>5, <1>8, <1>9, <1>10, SeqEqual
<1> QED
  BY <1>11 DEF Pushed, a, b, q

\* The last m of the last n are the last m.
LEMMA LastNOfLastN ==
  ASSUME NEW S, NEW s \in Seq(S), NEW n \in Nat, NEW m \in 0 .. n
  PROVE  LastN(LastN(s, n), m) = LastN(s, m)
<1> DEFINE q == LastN(s, n)
<1>1. /\ q \in Seq(S) /\ Len(q) = IF Len(s) <= n THEN Len(s) ELSE n
      /\ \A i \in 1 .. Len(q) : q[i] = s[i + Len(s) - Len(q)]
  BY LastNFacts
<1>2. /\ LastN(q, m) \in Seq(S) /\ Len(LastN(q, m)) = IF Len(q) <= m THEN Len(q) ELSE m
      /\ \A i \in 1 .. Len(LastN(q, m)) : LastN(q, m)[i] = q[i + Len(q) - Len(LastN(q, m))]
  BY <1>1, LastNFacts, SMTT(30)
<1>3. /\ LastN(s, m) \in Seq(S) /\ Len(LastN(s, m)) = IF Len(s) <= m THEN Len(s) ELSE m
      /\ \A i \in 1 .. Len(LastN(s, m)) : LastN(s, m)[i] = s[i + Len(s) - Len(LastN(s, m))]
  BY LastNFacts
<1> HIDE DEF q
<1>4. PICK k, l, r : k = Len(s) /\ l = Len(q) /\ r = Len(LastN(s, m))
  OBVIOUS
<1>5. k \in Nat /\ l \in Nat /\ r \in Nat /\ r <= l /\ l <= k /\ Len(LastN(q, m)) = r
  BY <1>1, <1>2, <1>3, <1>4
<1>6. ASSUME NEW i \in 1 .. r PROVE LastN(q, m)[i] = LastN(s, m)[i]
  <2>1. PICK j : j = i + l - r
    OBVIOUS
  <2>2. j \in 1 .. l /\ j + k - l = i + k - r
    BY <1>5, <2>1
  <2>3. LastN(q, m)[i] = q[j] /\ q[j] = s[j + k - l] /\ LastN(s, m)[i] = s[i + k - r]
    BY <1>1, <1>2, <1>3, <1>4, <1>5, <2>1, <2>2
  <2> QED
    BY <2>2, <2>3
<1>7. LastN(q, m) = LastN(s, m)
  BY <1>2, <1>3, <1>4, <1>5, <1>6, SeqEqual
<1> QED
  BY <1>7 DEF q
-----------------------------------------------------------------------------
(* CUSUM.  PartialSums is a recursive function: every history has one, and only
   one, by induction on its length. *)

Sums(s, f) == f = [i \in 0 .. Len(s) |-> IF i = 0 THEN 0 ELSE f[i - 1] + s[i]]

Determined(s) ==
  \E f \in [0 .. Len(s) -> Int] : Sums(s, f) /\ \A g : Sums(s, g) => g = f

\* Where there is exactly one function of partial sums, PartialSums is it.
LEMMA PartialSumsAre ==
  ASSUME NEW s, Determined(s)
  PROVE  /\ PartialSums(s) \in [0 .. Len(s) -> Int] /\ Sums(s, PartialSums(s))
         /\ \A g : Sums(s, g) => g = PartialSums(s)
<1>1. PICK f \in [0 .. Len(s) -> Int] : Sums(s, f) /\ \A g : Sums(s, g) => g = f
  BY DEF Determined
<1>2. PartialSums(s) = CHOOSE g : Sums(s, g)
  BY DEF PartialSums, Sums
<1>3. Sums(s, CHOOSE g : Sums(s, g))
  BY <1>1
<1> QED
  BY <1>1, <1>2, <1>3

\* The empty history has exactly one.
LEMMA EmptyDetermined == Determined(<<>>)
<1> DEFINE f == [i \in {0} |-> 0]
<1>1. 0 .. Len(<<>>) = {0}
  OBVIOUS
<1>2. f \in [0 .. Len(<<>>) -> Int]
  BY <1>1
<1>3. \A g : Sums(<<>>, g) <=> g = f
  BY <1>1 DEF Sums
<1> QED
  BY <1>2, <1>3 DEF Determined

\* A history with one more value has exactly one, which extends the other.
LEMMA SumsGrow ==
  ASSUME NEW s \in Seq(Int), NEW x \in Int, Determined(s)
  PROVE  /\ Determined(Append(s, x))
         /\ \A i \in 0 .. Len(s) : PartialSums(Append(s, x))[i] = PartialSums(s)[i]
         /\ PartialSums(Append(s, x))[Len(s) + 1] = PartialSums(s)[Len(s)] + x
<1>1. PICK n, t : n = Len(s) /\ t = Append(s, x)
  OBVIOUS
<1>2. n \in Nat /\ Len(t) = n + 1 /\ (\A i \in 1 .. n : t[i] = s[i]) /\ t[n + 1] = x
  BY <1>1, AppendProperties
<1>3. PICK f : /\ f = PartialSums(s) /\ f \in [0 .. n -> Int] /\ Sums(s, f)
               /\ \A g : Sums(s, g) => g = f
  BY <1>1, PartialSumsAre
<1>4. f[0] = 0 /\ \A i \in 1 .. n : f[i] = f[i - 1] + s[i]
  <2>1. f = [i \in 0 .. n |-> IF i = 0 THEN 0 ELSE f[i - 1] + s[i]]
    BY <1>1, <1>3 DEF Sums
  <2>2. \A i \in 0 .. n : f[i] = IF i = 0 THEN 0 ELSE f[i - 1] + s[i]
    BY <2>1
  <2> QED
    BY <1>2, <2>2
<1>5. PICK h : h = [i \in 0 .. n + 1 |-> IF i = n + 1 THEN f[n] + x ELSE f[i]]
  OBVIOUS
<1>6. h \in [0 .. n + 1 -> Int] /\ (\A i \in 0 .. n : h[i] = f[i]) /\ h[n + 1] = f[n] + x
  BY <1>2, <1>3, <1>5
<1>7. Sums(t, h)
  <2>1. ASSUME NEW i \in 0 .. n + 1
        PROVE  h[i] = IF i = 0 THEN 0 ELSE h[i - 1] + t[i]
    <3>1. CASE i = 0
      BY <1>2, <1>4, <1>6, <3>1
    <3>2. CASE i = n + 1
      BY <1>2, <1>6, <3>2
    <3>3. CASE i \in 1 .. n
      BY <1>2, <1>4, <1>6, <3>3
    <3> QED
      BY <1>2, <3>1, <3>2, <3>3
  <2> QED
    BY <1>2, <1>6, <2>1 DEF Sums
<1>8. ASSUME NEW g, Sums(t, g) PROVE g = h
  <2>1. g = [i \in 0 .. n + 1 |-> IF i = 0 THEN 0 ELSE g[i - 1] + t[i]]
    BY <1>2, <1>8 DEF Sums
  <2>2. \A i \in 0 .. n + 1 : g[i] = IF i = 0 THEN 0 ELSE g[i - 1] + t[i]
    BY <2>1
  <2>3. PICK r : r = [i \in 0 .. n |-> g[i]]
    OBVIOUS
  <2>4. \A i \in 0 .. n : r[i] = IF i = 0 THEN 0 ELSE r[i - 1] + s[i]
    BY <1>2, <2>2, <2>3
  <2>5. Sums(s, r)
    BY <1>1, <2>3, <2>4 DEF Sums
  <2>6. r = f
    BY <1>3, <2>5
  <2>7. \A i \in 0 .. n : g[i] = f[i]
    BY <2>3, <2>6
  <2>8. g[n + 1] = f[n] + x
    BY <1>2, <2>2, <2>7
  <2>9. \A i \in 0 .. n + 1 : g[i] = h[i]
    BY <1>2, <1>6, <2>7, <2>8
  <2>10. g = [i \in 0 .. n + 1 |-> g[i]] /\ h = [i \in 0 .. n + 1 |-> h[i]]
    BY <1>6, <2>1
  <2> QED
    BY <2>9, <2>10
<1>9. Determined(t)
  BY <1>2, <1>6, <1>7, <1>8 DEF Determined
<1>10. PartialSums(t) = h
  BY <1>7, <1>9, PartialSumsAre
<1> QED
  BY <1>1, <1>3, <1>6, <1>9, <1>10

\* So every history has exactly one.
LEMMA HistoriesDetermined == \A s \in Seq(Int) : Determined(s)
<1> DEFINE S == {n \in Nat : \A s \in Seq(Int) : Len(s) = n => Determined(s)}
<1>1. 0 \in S
  <2>1. ASSUME NEW s \in Seq(Int), Len(s) = 0 PROVE Determined(s)
    <3>1. s = <<>>
      BY <2>1, EmptySeq
    <3> QED
      BY <3>1, EmptyDetermined
  <2> QED
    BY <2>1
<1>2. ASSUME NEW n \in Nat, n \in S PROVE n + 1 \in S
  <2>1. ASSUME NEW s \in Seq(Int), Len(s) = n + 1 PROVE Determined(s)
    <3>1. PICK r \in Seq(Int), x \in Int : s = Append(r, x) /\ Len(r) = n
      <4>1. \A i \in 1 .. n + 1 : s[i] \in Int
        BY <2>1
      <4>2. PICK r, x : r = [i \in 1 .. n |-> s[i]] /\ x = s[n + 1]
        OBVIOUS
      <4>3. r \in Seq(Int) /\ Len(r) = n /\ x \in Int
        BY <4>1, <4>2
      <4>4. /\ Append(r, x) \in Seq(Int) /\ Len(Append(r, x)) = n + 1
            /\ \A i \in 1 .. n : Append(r, x)[i] = r[i]
            /\ Append(r, x)[n + 1] = x
        BY <4>3, AppendProperties
      <4>5. ASSUME NEW i \in 1 .. n + 1 PROVE s[i] = Append(r, x)[i]
        BY <4>2, <4>4
      <4>6. s = Append(r, x)
        BY <2>1, <4>4, <4>5, SeqEqual
      <4> QED
        BY <4>3, <4>6
    <3>2. Determined(r)
      BY <1>2, <3>1
    <3> QED
      BY <3>1, <3>2, SumsGrow
  <2> QED
    BY <2>1
<1>3. \A n \in Nat : n \in S
  <2> HIDE DEF S
  <2> QED
    BY <1>1, <1>2, Inductive
<1> QED
  BY <1>3

(* v is the largest shift of history h, said without CHOOSE. *)
Largest(h, v) ==
  /\ v \in Int
  /\ \E i \in 0 .. Len(h) : v = PartialSums(h)[Len(h)] - PartialSums(h)[i] - (Len(h) - i)
  /\ \A i \in 0 .. Len(h) : PartialSums(h)[Len(h)] - PartialSums(h)[i] - (Len(h) - i) <= v

\* A largest shift is what LargestShift chooses.
LEMMA LargestIs ==
  ASSUME NEW h \in Seq(Int), NEW v, Largest(h, v)
  PROVE  LargestShift(h) = v
<1>1. PICK n, p, S : /\ n = Len(h) /\ p = PartialSums(h)
                     /\ S = {p[n] - p[i] - (n - i) : i \in 0 .. n}
  OBVIOUS
<1>2. n \in Nat /\ p \in [0 .. n -> Int] /\ v \in Int
  BY <1>1, HistoriesDetermined, PartialSumsAre DEF Largest
<1>3. v \in S /\ \A t \in S : t <= v
  BY <1>1 DEF Largest
<1>4. \A s \in S : s \in Int
  <2>1. ASSUME NEW i \in 0 .. n PROVE p[n] - p[i] - (n - i) \in Int
    <3>1. p[n] \in Int /\ p[i] \in Int /\ i \in Int
      BY <1>2
    <3> QED
      BY <1>2, <3>1
  <2> QED
    BY <1>1, <2>1
<1>5. \A s \in S : (\A t \in S : t <= s) => s = v
  BY <1>2, <1>3, <1>4
<1>6. LargestShift(h) = CHOOSE s \in S : \A t \in S : t <= s
  BY <1>1 DEF LargestShift
<1> QED
  BY <1>3, <1>5, <1>6

\* One step of CUSUM: the best stretch goes on with x, or starts anew.
LEMMA ShiftGrows ==
  ASSUME NEW h \in Seq(Int), NEW v, Largest(h, v), NEW x \in Int
  PROVE  Largest(Append(h, x), AtLeast(0, v + x - 1))
<1>1. PICK n, p, t, q, w : /\ n = Len(h) /\ p = PartialSums(h) /\ t = Append(h, x)
                           /\ q = PartialSums(t) /\ w = AtLeast(0, v + x - 1)
  OBVIOUS
<1>2. Determined(h)
  BY HistoriesDetermined
<1>3. n \in Nat /\ p \in [0 .. n -> Int] /\ v \in Int /\ w \in Int
  BY <1>1, <1>2, PartialSumsAre DEF Largest, AtLeast
<1>4. /\ Len(t) = n + 1 /\ Determined(t) /\ (\A i \in 0 .. n : q[i] = p[i])
      /\ q[n + 1] = p[n] + x
  BY <1>1, <1>2, SumsGrow, AppendProperties
<1>5. PICK k \in 0 .. n : v = p[n] - p[k] - (n - k)
  BY <1>1 DEF Largest
<1>6. \A i \in 0 .. n : p[n] - p[i] - (n - i) <= v
  BY <1>1 DEF Largest
<1>7. \A i \in 0 .. n : q[n + 1] - q[i] - (n + 1 - i) = p[n] - p[i] - (n - i) + x - 1
  <2>1. ASSUME NEW i \in 0 .. n
        PROVE  q[n + 1] - q[i] - (n + 1 - i) = p[n] - p[i] - (n - i) + x - 1
    <3>1. PICK a, b : a = p[n] /\ b = p[i]
      OBVIOUS
    <3>2. a \in Int /\ b \in Int /\ i \in Int /\ q[n + 1] = a + x /\ q[i] = b
      BY <1>3, <1>4, <3>1
    <3>3. (a + x) - b - (n + 1 - i) = a - b - (n - i) + x - 1
      BY <1>3, <3>2
    <3> QED
      BY <3>1, <3>2, <3>3
  <2> QED
    BY <2>1
<1>8. q[n + 1] - q[n + 1] - (n + 1 - (n + 1)) = 0
  BY <1>3, <1>4
<1>9. \E i \in 0 .. n + 1 : w = q[n + 1] - q[i] - (n + 1 - i)
  <2>1. CASE w = 0
    BY <1>3, <1>8, <2>1
  <2>2. CASE w = v + x - 1
    <3>1. w = q[n + 1] - q[k] - (n + 1 - k)
      BY <1>3, <1>5, <1>7, <2>2
    <3> QED
      BY <1>3, <3>1
  <2> QED
    BY <1>1, <2>1, <2>2 DEF AtLeast
<1>10. \A i \in 0 .. n + 1 : q[n + 1] - q[i] - (n + 1 - i) <= w
  <2>1. 0 <= w /\ v + x - 1 <= w
    BY <1>1, <1>3 DEF AtLeast
  <2>2. ASSUME NEW i \in 0 .. n PROVE q[n + 1] - q[i] - (n + 1 - i) <= w
    <3>1. PICK d : d = p[n] - p[i] - (n - i)
      OBVIOUS
    <3>2. d <= v /\ q[n + 1] - q[i] - (n + 1 - i) = d + x - 1
      BY <1>6, <1>7, <3>1
    <3>3. d \in Int
      <4>1. p[n] \in Int /\ p[i] \in Int /\ i \in Int
        BY <1>3
      <4> QED
        BY <1>3, <3>1, <4>1
    <3> QED
      BY <1>3, <2>1, <3>2, <3>3
  <2>3. q[n + 1] - q[n + 1] - (n + 1 - (n + 1)) <= w
    BY <1>8, <2>1
  <2> QED
    BY <1>3, <2>2, <2>3
<1>11. Largest(t, w)
  <2>1. \E i \in 0 .. Len(t) : w = q[Len(t)] - q[i] - (Len(t) - i)
    BY <1>3, <1>4, <1>9
  <2>2. \A i \in 0 .. Len(t) : q[Len(t)] - q[i] - (Len(t) - i) <= w
    BY <1>3, <1>4, <1>10
  <2>3. q = PartialSums(t)
    BY <1>1
  <2> QED
    BY <1>3, <1>4, <2>1, <2>2, <2>3 DEF Largest
<1> QED
  BY <1>1, <1>11

\* The mirror of a history with one more value.
LEMMA MirrorGrows ==
  ASSUME NEW h \in Seq(Int), NEW x \in Int
  PROVE  Mirror(h) \in Seq(Int) /\ Mirror(Append(h, x)) = Append(Mirror(h), -x)
<1>1. PICK n, t : n = Len(h) /\ t = Append(h, x)
  OBVIOUS
<1>2. /\ n \in Nat /\ t \in Seq(Int) /\ Len(t) = n + 1 /\ (\A i \in 1 .. n : t[i] = h[i])
      /\ t[n + 1] = x
  BY <1>1, AppendProperties
<1>3. DOMAIN h = 1 .. n /\ DOMAIN t = 1 .. n + 1 /\ \A i \in 1 .. n : h[i] \in Int
  BY <1>1, <1>2
<1>4. PICK m, u : m = Mirror(h) /\ u = Mirror(t)
  OBVIOUS
<1>5. m = [i \in 1 .. n |-> -h[i]] /\ u = [i \in 1 .. n + 1 |-> -t[i]]
  BY <1>3, <1>4 DEF Mirror
<1>6. m \in Seq(Int) /\ Len(m) = n
  BY <1>2, <1>3, <1>5
<1>7. u \in Seq(Int) /\ Len(u) = n + 1
  <2>1. \A i \in 1 .. n + 1 : -t[i] \in Int
    BY <1>2
  <2> QED
    BY <1>2, <1>5, <2>1
<1>8. /\ Append(m, -x) \in Seq(Int) /\ Len(Append(m, -x)) = n + 1
      /\ (\A i \in 1 .. n : Append(m, -x)[i] = m[i]) /\ Append(m, -x)[n + 1] = -x
  <2>1. PICK y : y = -x /\ y \in Int
    OBVIOUS
  <2> QED
    BY <1>6, <2>1, AppendProperties
<1>9. \A i \in 1 .. n + 1 : u[i] = Append(m, -x)[i]
  BY <1>2, <1>5, <1>8
<1>10. u = Append(m, -x)
  BY <1>2, <1>7, <1>8, <1>9, SeqEqual
<1> QED
  BY <1>1, <1>4, <1>6, <1>10
-----------------------------------------------------------------------------
(* The run rules *)

\* Two sets that are a shift of each other have as many elements.
LEMMA SameCount ==
  ASSUME NEW a \in Int, NEW b \in Int, NEW d \in Int, NEW A \in SUBSET (a .. b),
         NEW B \in SUBSET (a + d .. b + d), \A i \in a .. b : i \in A <=> i + d \in B
  PROVE  Cardinality(A) = Cardinality(B) /\ Cardinality(A) \in Nat
<1>1. IsFiniteSet(A) /\ Cardinality(A) \in Nat
  BY FS_Interval, FS_Subset, FS_CardinalityType
<1>2. PICK f : f = [i \in A |-> i + d]
  OBVIOUS
<1>3. f \in [A -> B]
  BY <1>2
<1>4. \A i, j \in A : f[i] = f[j] => i = j
  BY <1>2
<1>5. \A k \in B : \E i \in A : f[i] = k
  <2>1. ASSUME NEW k \in B PROVE k - d \in A /\ f[k - d] = k
    <3>1. k - d \in a .. b /\ (k - d) + d = k
      OBVIOUS
    <3> QED
      BY <1>2, <3>1
  <2> QED
    BY <2>1
<1>6. ExistsBijection(A, B)
  BY <1>3, <1>4, <1>5 DEF ExistsBijection, Bijection, Injection, Surjection, IsInjective
<1> QED
  BY <1>1, <1>6, FS_Bijection

\* How many of the last k windows are beyond a limit, in the deque and in the history.
LEMMA TailCounts ==
  ASSUME NEW h \in Seq(ZScores), NEW k \in 1 .. Len(h), NEW limit \in Int
  PROVE  LET above == Cardinality({i \in Len(h) - k + 1 .. Len(h) : h[i] > limit})
             below == Cardinality({i \in Len(h) - k + 1 .. Len(h) : h[i] < -limit})
         IN  /\ above \in Nat /\ below \in Nat
             /\ SameSignBeyond(LastN(h, k), limit) = IF above > below THEN above ELSE below
<1>1. PICK n, q : n = Len(h) /\ q = LastN(h, k)
  OBVIOUS
<1>2. n \in Nat /\ k \in Nat /\ k <= n
  BY <1>1
<1>3. q \in Seq(ZScores) /\ Len(q) = k /\ \A i \in 1 .. k : q[i] = h[i + n - k]
  <2>1. /\ LastN(h, k) \in Seq(ZScores)
        /\ Len(LastN(h, k)) = IF Len(h) <= k THEN Len(h) ELSE k
        /\ \A i \in 1 .. Len(LastN(h, k)) :
             LastN(h, k)[i] = h[i + Len(h) - Len(LastN(h, k))]
    BY <1>2, LastNFacts
  <2>2. Len(q) = k
    BY <1>1, <1>2, <2>1
  <2> QED
    BY <1>1, <2>1, <2>2
<1>4. DOMAIN q = 1 .. k
  BY <1>3
<1>5. PICK d : d = n - k
  OBVIOUS
<1>6. d \in Int /\ 1 + d = n - k + 1 /\ k + d = n /\ \A i \in 1 .. k : i + n - k = i + d
  BY <1>2, <1>5
<1>7. PICK A, B : /\ A = {i \in DOMAIN q : q[i] > limit}
                  /\ B = {i \in n - k + 1 .. n : h[i] > limit}
  OBVIOUS
<1>8. Cardinality(A) = Cardinality(B) /\ Cardinality(A) \in Nat
  <2>1. A \in SUBSET (1 .. k) /\ B \in SUBSET (1 + d .. k + d)
    BY <1>4, <1>6, <1>7
  <2>2. ASSUME NEW i \in 1 .. k PROVE i \in A <=> i + d \in B
    <3>1. q[i] = h[i + d] /\ i + d \in n - k + 1 .. n
      BY <1>2, <1>3, <1>5, <1>6
    <3> QED
      BY <1>4, <1>7, <3>1
  <2>3. 1 \in Int /\ k \in Int /\ d \in Int
    BY <1>2, <1>6
  <2> QED
    BY <2>1, <2>2, <2>3, SameCount
<1>9. PICK C, D : /\ C = {i \in DOMAIN q : q[i] < -limit}
                  /\ D = {i \in n - k + 1 .. n : h[i] < -limit}
  OBVIOUS
<1>10. Cardinality(C) = Cardinality(D) /\ Cardinality(C) \in Nat
  <2>1. C \in SUBSET (1 .. k) /\ D \in SUBSET (1 + d .. k + d)
    BY <1>4, <1>6, <1>9
  <2>2. ASSUME NEW i \in 1 .. k PROVE i \in C <=> i + d \in D
    <3>1. q[i] = h[i + d] /\ i + d \in n - k + 1 .. n
      BY <1>2, <1>3, <1>5, <1>6
    <3> QED
      BY <1>4, <1>9, <3>1
  <2>3. 1 \in Int /\ k \in Int /\ d \in Int
    BY <1>2, <1>6
  <2> QED
    BY <2>1, <2>2, <2>3, SameCount
<1>11. SameSignBeyond(q, limit) = IF Cardinality(A) > Cardinality(C) THEN Cardinality(A) ELSE Cardinality(C)
  BY <1>7, <1>9 DEF SameSignBeyond
<1> QED
  BY <1>1, <1>7, <1>8, <1>9, <1>10, <1>11

\* RunRulesSeeOwnHistory for one history and the score of its last window.
Judged(h, score) ==
  LET n == Len(h)
      Beyond(k, limit) ==
        LET last == n - k + 1 .. n
        IN  {Cardinality({i \in last : h[i] > limit}), Cardinality({i \in last : h[i] < -limit})}
  IN  /\ (score = 1000) <=> h[n] > 6 \/ h[n] < -6
      /\ (score = 800) <=>
           /\ h[n] \in -6 .. 6 /\ n >= 3 /\ \E c \in Beyond(3, 4) : c >= 2
      /\ (score = 600) <=>
           /\ h[n] \in -6 .. 6 /\ n >= 5 /\ \A c \in Beyond(3, 4) : c < 2
           /\ \E c \in Beyond(5, 2) : c >= 4

\* The table of half the squash, below three sigma.
LEMMA HalfSquashed ==
  ASSUME NEW a \in 0 .. 6
  PROVE  HalfSquashTable[a + 1] \in 0 .. 197
<1>1. a \in {0, 1, 2, 3, 4, 5, 6}
  OBVIOUS
<1> QED
  BY <1>1 DEF HalfSquashTable

\* The run rules on the deque are the run rules on the whole history.
LEMMA RunRulesJudge ==
  ASSUME NEW h \in Seq(ZScores), Len(h) >= 1
  PROVE  LET score == RunRules(LastN(h, HistoryLen))
         IN  score \in 0 .. 1000 /\ Judged(h, score)
<1>1. PICK n, pts, z, score : /\ n = Len(h) /\ pts = LastN(h, 5) /\ z = h[n]
                              /\ score = RunRules(pts)
  OBVIOUS
<1>2. n \in Nat /\ n >= 1 /\ z \in ZScores
  BY <1>1
<1>3. z \in Int
  BY <1>2 DEF ZScores, Far
<1>4. pts \in Seq(ZScores) /\ (Len(pts) = IF n <= 5 THEN n ELSE 5) /\ pts[Len(pts)] = z
  <2>1. /\ pts \in Seq(ZScores) /\ Len(pts) = IF n <= 5 THEN n ELSE 5
        /\ \A i \in 1 .. Len(pts) : pts[i] = h[i + n - Len(pts)]
    <3>1. PICK k : k = 5 /\ k \in Nat
      OBVIOUS
    <3>2. /\ LastN(h, k) \in Seq(ZScores)
          /\ Len(LastN(h, k)) = IF Len(h) <= k THEN Len(h) ELSE k
          /\ \A i \in 1 .. Len(LastN(h, k)) :
               LastN(h, k)[i] = h[i + Len(h) - Len(LastN(h, k))]
      BY <3>1, LastNFacts
    <3> QED
      BY <1>1, <3>1, <3>2
  <2>2. PICK l : l = Len(pts)
    OBVIOUS
  <2>3. l \in 1 .. Len(pts) /\ l + n - l = n
    BY <1>2, <2>1, <2>2
  <2>4. pts[l] = h[l + n - l]
    BY <2>1, <2>2, <2>3
  <2> QED
    BY <1>1, <2>1, <2>2, <2>3, <2>4
<1>5. Last(pts) = z
  BY <1>4 DEF Last
<1>6. LastN(pts, 3) = LastN(h, 3)
  BY <1>1, LastNOfLastN
<1>7. PICK a3, b3 : /\ a3 = Cardinality({i \in n - 3 + 1 .. n : h[i] > 4})
                    /\ b3 = Cardinality({i \in n - 3 + 1 .. n : h[i] < -4})
  OBVIOUS
<1>8. PICK a5, b5 : /\ a5 = Cardinality({i \in n - 5 + 1 .. n : h[i] > 2})
                    /\ b5 = Cardinality({i \in n - 5 + 1 .. n : h[i] < -2})
  OBVIOUS
<1>9. n >= 3 => /\ a3 \in Nat /\ b3 \in Nat
                /\ SameSignBeyond(LastN(pts, 3), 4) = IF a3 > b3 THEN a3 ELSE b3
  <2>1. ASSUME n >= 3
        PROVE  /\ a3 \in Nat /\ b3 \in Nat
               /\ SameSignBeyond(LastN(h, 3), 4) = IF a3 > b3 THEN a3 ELSE b3
    <3>1. 3 \in 1 .. Len(h) /\ 4 \in Int
      BY <1>1, <1>2, <2>1
    <3> QED
      BY <1>1, <1>7, <3>1, TailCounts
  <2> QED
    BY <1>6, <2>1
<1>10. n >= 5 => /\ a5 \in Nat /\ b5 \in Nat
                 /\ SameSignBeyond(pts, 2) = IF a5 > b5 THEN a5 ELSE b5
  <2>1. ASSUME n >= 5
        PROVE  /\ a5 \in Nat /\ b5 \in Nat
               /\ SameSignBeyond(LastN(h, 5), 2) = IF a5 > b5 THEN a5 ELSE b5
    <3>1. 5 \in 1 .. Len(h) /\ 2 \in Int
      BY <1>1, <1>2, <2>1
    <3> QED
      BY <1>1, <1>8, <3>1, TailCounts
  <2> QED
    BY <1>1, <2>1
<1> DEFINE two  == Len(pts) >= 3 /\ SameSignBeyond(LastN(pts, 3), 4) >= 2
           four == Len(pts) = 5 /\ SameSignBeyond(pts, 2) >= 4
<1>12. two <=> n >= 3 /\ (a3 >= 2 \/ b3 >= 2)
  <2>1. Len(pts) >= 3 <=> n >= 3
    BY <1>2, <1>4
  <2>2. CASE n >= 3
    <3>1. PICK c : c = SameSignBeyond(LastN(pts, 3), 4)
      OBVIOUS
    <3>2. c = IF a3 > b3 THEN a3 ELSE b3
      BY <1>9, <2>2, <3>1
    <3>3. c >= 2 <=> a3 >= 2 \/ b3 >= 2
      BY <1>9, <2>2, <3>2
    <3> QED
      BY <2>1, <2>2, <3>1, <3>3
  <2>3. CASE ~(n >= 3)
    BY <2>1, <2>3
  <2> QED
    BY <2>2, <2>3
<1>13. four <=> n >= 5 /\ (a5 >= 4 \/ b5 >= 4)
  <2>1. Len(pts) = 5 <=> n >= 5
    BY <1>2, <1>4
  <2>2. CASE n >= 5
    <3>1. PICK c : c = SameSignBeyond(pts, 2)
      OBVIOUS
    <3>2. c = IF a5 > b5 THEN a5 ELSE b5
      BY <1>10, <2>2, <3>1
    <3>3. c >= 4 <=> a5 >= 4 \/ b5 >= 4
      BY <1>10, <2>2, <3>2
    <3> QED
      BY <2>1, <2>2, <3>1, <3>3
  <2>3. CASE ~(n >= 5)
    BY <2>1, <2>3
  <2> QED
    BY <2>2, <2>3
<1>14. PICK a : a = Abs(z)
  OBVIOUS
<1>15. /\ a \in Nat /\ (a > 6 <=> z > 6 \/ z < -6)
       /\ (~(a > 6) <=> z \in -6 .. 6)
  BY <1>3, <1>14 DEF Abs
<1>16. PICK low : low = HalfSquashTable[a + 1]
  OBVIOUS
<1>17. ~(a > 6) => low \in 0 .. 197
  <2>1. ~(a > 6) => a \in 0 .. 6
    BY <1>15
  <2> QED
    BY <1>16, <2>1, HalfSquashed
<1>18. /\ score \in 0 .. 1000
       /\ (score = 1000) <=> z > 6 \/ z < -6
       /\ (score = 800) <=> z \in -6 .. 6 /\ two
       /\ (score = 600) <=> z \in -6 .. 6 /\ ~two /\ four
  <2>1. score = IF a > 6 THEN 1000 ELSE IF two THEN 800 ELSE IF four THEN 600 ELSE low
    BY <1>1, <1>5, <1>14, <1>16 DEF RunRules
  <2> HIDE DEF two, four
  <2>2. /\ score \in 0 .. 1000 /\ (score = 1000 <=> a > 6)
        /\ score = 800 <=> ~(a > 6) /\ two
        /\ score = 600 <=> ~(a > 6) /\ ~two /\ four
    <3>1. CASE a > 6
      BY <2>1, <3>1
    <3>2. CASE ~(a > 6) /\ two
      BY <2>1, <3>2
    <3>3. CASE ~(a > 6) /\ ~two /\ four
      BY <2>1, <3>3
    <3>4. CASE ~(a > 6) /\ ~two /\ ~four
      <4>1. score = low
        BY <2>1, <3>4
      <4>2. low \in 0 .. 1000 /\ low # 1000 /\ low # 800 /\ low # 600
        <5>1. low \in 0 .. 197
          BY <1>17, <3>4
        <5> QED
          BY <5>1
      <4> QED
        BY <3>4, <4>1, <4>2
    <3> QED
      BY <3>1, <3>2, <3>3, <3>4
  <2> QED
    BY <1>15, <2>2
<1>19. n >= 5 /\ ~two <=> n >= 5 /\ a3 < 2 /\ b3 < 2
  BY <1>2, <1>9, <1>12
<1>20. /\ (score = 1000) <=> z > 6 \/ z < -6
       /\ (score = 800) <=> z \in -6 .. 6 /\ n >= 3 /\ \E c \in {a3, b3} : c >= 2
       /\ (score = 600) <=> /\ z \in -6 .. 6 /\ n >= 5 /\ \A c \in {a3, b3} : c < 2
                            /\ \E c \in {a5, b5} : c >= 4
  BY <1>12, <1>13, <1>18, <1>19
<1>21. Judged(h, score)
  BY <1>1, <1>7, <1>8, <1>20 DEF Judged
<1> QED
  BY <1>1, <1>18, <1>21 DEF HistoryLen
-----------------------------------------------------------------------------
(* The inductive invariant *)

Counts(windows) == [i \in DOMAIN windows |-> windows[i].count]

(* What an entity has in memory, of its windows `all` and the z-scores `zs` of
   those the detectors took: velocity v, points p, cusum c. *)
Remembers(v, p, c, all, zs) ==
  /\ all \in Seq([z : ZScores, count : Nat]) /\ zs \in Seq(ZScores)
  /\ c \in [pos : Nat, neg : Int]
  /\ v = LastN(Counts(all), VelocityWindows) /\ p = LastN(zs, HistoryLen)
  /\ Largest(zs, c.pos) /\ Largest(Mirror(zs), -c.neg)

MemoryInv ==
  /\ velocity \in [Entity -> Seq(Nat)] /\ points \in [Entity -> Seq(ZScores)]
  /\ cusum \in [Entity -> [pos : Nat, neg : Int]] /\ taken \in [Entity -> Seq(ZScores)]
  /\ seen \in [Entity -> Seq([z : ZScores, count : Nat])]
  /\ \A e \in Entity : Remembers(velocity[e], points[e], cusum[e], seen[e], taken[e])

InRange(s) ==
  /\ \A x \in {"zscore", "ewma", "cusum", "iso", "ae"} : s[x] \in 0 .. 1000
  /\ s.xgb \in {NoScore} \cup 0 .. 1000

(* The last result is still what the memory of its entity gives. *)
ResultInv ==
  \A r \in result :
    /\ r.entity \in Entity /\ Len(taken[r.entity]) >= 1
    /\ r.scores.ewma = RunRules(points[r.entity])
    /\ r.scores.cusum = CusumScore(cusum[r.entity])
    /\ InRange(r.scores)
    /\ r.tier = Evaluate(DomainOf(r.entity), Combine(r.scores))
    /\ fitted[DomainOf(r.entity)] = {} => r.scores.iso = 0 /\ r.scores.ae = 0

(* Model and calibration on disk belong together unless a training is writing,
   and a start that no training overlaps has read the model that is there. *)
ArtefactInv ==
  /\ \A d \in Domain \ writing : disk[d].calibration = disk[d].model
  /\ phase = "loading" =>
       \A d \in Domain \ torn : d \notin writing /\ loaded[d].model = disk[d].model
  /\ CalibrationOfOwnModel

PlainType ==
  /\ phase \in {"down", "loading", "up"}
  /\ observed \in [Domain -> [Model -> Nat]] /\ fitted \in [Domain -> SUBSET Model]
  /\ disk \in [Domain -> Artefacts] /\ loaded \in [Domain -> Artefacts]
  /\ writing \subseteq Domain /\ torn \subseteq Domain

ScoringInv == PlainType /\ MemoryInv /\ ResultInv /\ ArtefactInv
-----------------------------------------------------------------------------
(* One entity *)

\* z-scores are integers here.
LEMMA ZScoresAreIntegers == ZScores \subseteq Int /\ Seq(ZScores) \subseteq Seq(Int)
<1>1. ZScores \subseteq Int
  BY DEF ZScores, Far
<1> QED
  BY <1>1, SeqMonotonic

\* The fields of a window.
LEMMA WindowFields ==
  ASSUME NEW w \in [z : ZScores, count : Nat]
  PROVE  w.z \in ZScores /\ w.count \in Nat
OBVIOUS

\* The counts of a history with one more window.
LEMMA CountsGrow ==
  ASSUME NEW all \in Seq([z : ZScores, count : Nat]), NEW w \in [z : ZScores, count : Nat]
  PROVE  Counts(all) \in Seq(Nat) /\ Counts(Append(all, w)) = Append(Counts(all), w.count)
<1>1. PICK n, t : n = Len(all) /\ t = Append(all, w)
  OBVIOUS
<1>2. /\ n \in Nat /\ t \in Seq([z : ZScores, count : Nat]) /\ Len(t) = n + 1
      /\ (\A i \in 1 .. n : t[i] = all[i]) /\ t[n + 1] = w
  BY <1>1, AppendProperties
<1>3. DOMAIN all = 1 .. n /\ DOMAIN t = 1 .. n + 1 /\ \A i \in 1 .. n : all[i].count \in Nat
  <2>1. DOMAIN all = 1 .. n /\ DOMAIN t = 1 .. n + 1
    BY <1>1, <1>2
  <2>2. \A i \in 1 .. n : all[i] \in [z : ZScores, count : Nat]
    BY <1>1, ElementOfSeq
  <2> QED
    BY <2>1, <2>2, WindowFields
<1>4. PICK m, u : m = Counts(all) /\ u = Counts(t)
  OBVIOUS
<1>5. m = [i \in 1 .. n |-> all[i].count] /\ u = [i \in 1 .. n + 1 |-> t[i].count]
  BY <1>3, <1>4 DEF Counts
<1>6. m \in Seq(Nat) /\ Len(m) = n /\ w.count \in Nat
  <2>1. w.count \in Nat
    BY WindowFields
  <2>2. m \in Seq(Nat) /\ Len(m) = n
    BY <1>2, <1>3, <1>5
  <2> QED
    BY <2>1, <2>2
<1>7. u \in Seq(Nat) /\ Len(u) = n + 1
  <2>1. \A i \in 1 .. n + 1 : t[i].count \in Nat
    <3>1. \A i \in 1 .. n + 1 : t[i] \in [z : ZScores, count : Nat]
      BY <1>2, ElementOfSeq
    <3> QED
      BY <3>1, WindowFields
  <2> QED
    BY <1>2, <1>5, <2>1
<1>8. PICK y : y = Append(m, w.count)
  OBVIOUS
<1>9. /\ y \in Seq(Nat) /\ Len(y) = n + 1 /\ (\A i \in 1 .. n : y[i] = m[i]) /\ y[n + 1] = w.count
  BY <1>6, <1>8, AppendProperties
<1>10. \A i \in 1 .. n + 1 : u[i] = y[i]
  <2>1. ASSUME NEW i \in 1 .. n PROVE u[i] = y[i]
    <3>1. u[i] = t[i].count /\ t[i] = all[i] /\ m[i] = all[i].count /\ y[i] = m[i]
      BY <1>2, <1>5, <1>9, SMTT(30)
    <3> QED
      BY <3>1
  <2>2. u[n + 1] = y[n + 1]
    <3>1. u[n + 1] = t[n + 1].count
      BY <1>2, <1>5
    <3> QED
      BY <1>2, <1>9, <3>1
  <2> QED
    BY <1>2, <2>1, <2>2
<1>11. u = y
  BY <1>2, <1>7, <1>9, <1>10, SeqEqual
<1> QED
  BY <1>1, <1>4, <1>6, <1>8, <1>11

\* A detector that has seen nothing.
LEMMA NothingRemembered ==
  Remembers(<<>>, <<>>, [pos |-> 0, neg |-> 0], <<>>, <<>>)
<1>1. LastN(<<>>, VelocityWindows) = <<>> /\ LastN(<<>>, HistoryLen) = <<>>
  BY VelocityAssumption DEF LastN, HistoryLen
<1>2. Counts(<<>>) = <<>> /\ Mirror(<<>>) = <<>>
  BY DEF Counts, Mirror
<1>3. Largest(<<>>, 0)
  <2>1. Determined(<<>>) /\ Len(<<>>) = 0
    BY EmptyDetermined
  <2>2. PICK p : p = PartialSums(<<>>) /\ p \in [0 .. 0 -> Int]
    BY <2>1, PartialSumsAre
  <2>3. 0 .. 0 = {0} /\ p[0] - p[0] - (0 - 0) = 0
    BY <2>2
  <2> QED
    BY <2>1, <2>2, <2>3 DEF Largest
<1>4. PICK c : c = [pos |-> 0, neg |-> 0]
  OBVIOUS
<1>5. c \in [pos : Nat, neg : Int] /\ c.pos = 0 /\ -c.neg = 0
  <2>1. c \in [pos : Nat, neg : Int] /\ c.pos = 0 /\ c.neg = 0
    BY <1>4
  <2>2. \A k \in Int : -k \in Int /\ -k + k = 0
    OBVIOUS
  <2>3. PICK j : j = -c.neg
    OBVIOUS
  <2>4. j \in Int /\ j + 0 = 0
    BY <2>1, <2>2, <2>3
  <2>5. j = 0
    BY <2>4
  <2> QED
    BY <2>1, <2>3, <2>5
<1>6. Remembers(<<>>, <<>>, c, <<>>, <<>>)
  BY <1>1, <1>2, <1>3, <1>5 DEF Remembers
<1> QED
  BY <1>4, <1>6

\* A window arrives: the velocity has it, whether or not the detectors take it.
LEMMA WindowRemembered ==
  ASSUME NEW v, NEW p, NEW c, NEW all, NEW zs, Remembers(v, p, c, all, zs),
         NEW w \in [z : ZScores, count : Nat]
  PROVE  /\ Remembers(Pushed(v, w.count, VelocityWindows), p, c, Append(all, w), zs)
         /\ Remembers(Pushed(v, w.count, VelocityWindows), Pushed(p, w.z, HistoryLen),
                      Accumulated(c, w.z), Append(all, w), Append(zs, w.z))
<1>1. w.z \in ZScores /\ w.count \in Nat /\ VelocityWindows \in Nat /\ HistoryLen \in Nat
  BY VelocityAssumption DEF HistoryLen
<1>2. /\ all \in Seq([z : ZScores, count : Nat]) /\ zs \in Seq(ZScores)
      /\ v = LastN(Counts(all), VelocityWindows) /\ p = LastN(zs, HistoryLen)
      /\ Largest(zs, c.pos) /\ Largest(Mirror(zs), -c.neg) /\ c \in [pos : Nat, neg : Int]
  BY DEF Remembers
<1>3. Append(all, w) \in Seq([z : ZScores, count : Nat]) /\ Append(zs, w.z) \in Seq(ZScores)
  BY <1>1, <1>2, AppendProperties
<1>4. Pushed(v, w.count, VelocityWindows) = LastN(Counts(Append(all, w)), VelocityWindows)
  <2>1. Counts(all) \in Seq(Nat) /\ Counts(Append(all, w)) = Append(Counts(all), w.count)
    BY <1>2, CountsGrow
  <2> QED
    BY <1>1, <1>2, <2>1, PushedIsLastN
<1>5. Pushed(p, w.z, HistoryLen) = LastN(Append(zs, w.z), HistoryLen)
  BY <1>1, <1>2, PushedIsLastN
<1>6. zs \in Seq(Int) /\ w.z \in Int
  BY <1>1, <1>2, ZScoresAreIntegers
<1>7. PICK x, a, b, y : x = w.z /\ a = c.pos /\ b = -c.neg /\ y = -x
  OBVIOUS
<1>8. x \in Int /\ a \in Nat /\ b \in Int /\ c.neg \in Int /\ y \in Int
  BY <1>2, <1>6, <1>7
<1>9. /\ Accumulated(c, w.z) \in [pos : Nat, neg : Int]
      /\ Accumulated(c, w.z).pos = AtLeast(0, a + x - 1)
      /\ -Accumulated(c, w.z).neg = AtLeast(0, b + y - 1)
  BY <1>7, <1>8 DEF Accumulated, AtLeast, AtMost
<1>10. Largest(Append(zs, w.z), AtLeast(0, a + x - 1))
  BY <1>2, <1>6, <1>7, ShiftGrows
<1>11. Largest(Mirror(Append(zs, w.z)), AtLeast(0, b + y - 1))
  <2>1. Mirror(zs) \in Seq(Int) /\ Mirror(Append(zs, w.z)) = Append(Mirror(zs), y)
    BY <1>6, <1>7, MirrorGrows
  <2>2. Largest(Mirror(zs), b)
    BY <1>2, <1>7
  <2> QED
    BY <1>8, <2>1, <2>2, ShiftGrows
<1>12. Remembers(Pushed(v, w.count, VelocityWindows), p, c, Append(all, w), zs)
  BY <1>2, <1>3, <1>4 DEF Remembers
<1> QED
  BY <1>3, <1>4, <1>5, <1>9, <1>10, <1>11, <1>12 DEF Remembers

\* The types of what an entity has in memory.
LEMMA RememberedTypes ==
  ASSUME NEW v, NEW p, NEW c, NEW all, NEW zs, Remembers(v, p, c, all, zs)
  PROVE  /\ v \in Seq(Nat) /\ p \in Seq(ZScores) /\ c \in [pos : Nat, neg : Int]
         /\ all \in Seq([z : ZScores, count : Nat]) /\ zs \in Seq(ZScores)
         /\ Len(v) <= VelocityWindows /\ Len(p) <= HistoryLen
<1>1. VelocityWindows \in Nat /\ HistoryLen \in Nat
  BY VelocityAssumption DEF HistoryLen
<1>2. /\ all \in Seq([z : ZScores, count : Nat]) /\ zs \in Seq(ZScores)
      /\ c \in [pos : Nat, neg : Int]
      /\ v = LastN(Counts(all), VelocityWindows) /\ p = LastN(zs, HistoryLen)
  BY DEF Remembers
<1>3. Counts(all) \in Seq(Nat)
  <2>1. [z |-> 0, count |-> 0] \in [z : ZScores, count : Nat]
    BY DEF ZScores
  <2> QED
    BY <1>2, <2>1, CountsGrow
<1>4. v \in Seq(Nat) /\ Len(v) <= VelocityWindows
  <2>1. PICK counts : counts = Counts(all) /\ counts \in Seq(Nat)
    BY <1>3
  <2>2. PICK n : n = VelocityWindows /\ n \in Nat
    BY <1>1
  <2>3. v = LastN(counts, n)
    BY <1>2, <2>1, <2>2
  <2>4. v \in Seq(Nat) /\ Len(v) = IF Len(counts) <= n THEN Len(counts) ELSE n
    BY <2>1, <2>2, <2>3, LastNFacts
  <2> QED
    BY <2>1, <2>2, <2>4
<1>5. p \in Seq(ZScores) /\ Len(p) <= HistoryLen
  BY <1>1, <1>2, LastNFacts
<1> QED
  BY <1>2, <1>4, <1>5
-----------------------------------------------------------------------------
(* The steps *)

\* A window is scored, or its scoring raises.
Handles(e, w) == Process(e, w) \/ RaisesBeforeDetectors(e, w) \/ RaisesAfterDetectors(e, w)

\* Every step keeps each entity's memory the one of its history.
LEMMA MemoryKept ==
  ASSUME MemoryInv, [Next]_vars
  PROVE  MemoryInv'
<1>1. ASSUME UNCHANGED <<velocity, points, cusum, seen, taken>>
      PROVE  MemoryInv'
  BY <1>1 DEF MemoryInv
<1>2. CASE Start \/ LoadCalibration \/ (\E d \in Domain : SaveModel(d) \/ SaveCalibration(d))
           \/ UNCHANGED vars
  BY <1>1, <1>2 DEF Start, LoadCalibration, SaveModel, SaveCalibration, vars, detectorVars, historyVars
<1>3. CASE Crash
  <2>1. /\ velocity' = [e \in Entity |-> <<>>] /\ points' = [e \in Entity |-> <<>>]
        /\ cusum' = [e \in Entity |-> [pos |-> 0, neg |-> 0]]
        /\ seen' = [e \in Entity |-> <<>>] /\ taken' = [e \in Entity |-> <<>>]
    BY <1>3 DEF Crash, EmptyMemory, Fresh
  <2>2. \A e \in Entity : Remembers(velocity'[e], points'[e], cusum'[e], seen'[e], taken'[e])
    BY <2>1, NothingRemembered
  <2> QED
    BY <2>1, <2>2 DEF MemoryInv
<1>4. ASSUME NEW e \in Entity, NEW w \in Window[e], Handles(e, w)
      PROVE  MemoryInv'
  <2>1. w \in [z : ZScores, count : Nat]
    BY WindowAssumption
  <2>2. /\ velocity' = [velocity EXCEPT ![e] = Pushed(velocity[e], w.count, VelocityWindows)]
        /\ seen' = [seen EXCEPT ![e] = Append(seen[e], w)]
    BY <1>4 DEF Handles, Process, Taken, RaisesBeforeDetectors, RaisesAfterDetectors, Arrives
  <2>3. \/ /\ points' = [points EXCEPT ![e] = Pushed(points[e], w.z, HistoryLen)]
           /\ cusum' = [cusum EXCEPT ![e] = Accumulated(cusum[e], w.z)]
           /\ taken' = [taken EXCEPT ![e] = Append(taken[e], w.z)]
        \/ UNCHANGED <<points, cusum, taken>>
    BY <1>4 DEF Handles, Process, Taken, RaisesBeforeDetectors, RaisesAfterDetectors
  <2>4. \A d \in Entity : Remembers(velocity[d], points[d], cusum[d], seen[d], taken[d])
    BY DEF MemoryInv
  <2>5. /\ \A d \in Entity : velocity'[d] = IF d = e THEN Pushed(velocity[e], w.count, VelocityWindows)
                                           ELSE velocity[d]
        /\ \A d \in Entity : seen'[d] = IF d = e THEN Append(seen[e], w) ELSE seen[d]
    BY <2>2 DEF MemoryInv
  <2>6. \/ \A d \in Entity :
             /\ points'[d] = IF d = e THEN Pushed(points[e], w.z, HistoryLen) ELSE points[d]
             /\ cusum'[d] = IF d = e THEN Accumulated(cusum[e], w.z) ELSE cusum[d]
             /\ taken'[d] = IF d = e THEN Append(taken[e], w.z) ELSE taken[d]
        \/ UNCHANGED <<points, cusum, taken>>
    BY <2>3 DEF MemoryInv
  <2>7. ASSUME NEW d \in Entity
        PROVE  Remembers(velocity'[d], points'[d], cusum'[d], seen'[d], taken'[d])
    <3>1. CASE d = e
      BY <2>1, <2>4, <2>5, <2>6, <3>1, WindowRemembered
    <3>2. CASE d # e
      BY <2>4, <2>5, <2>6, <3>2
    <3> QED
      BY <3>1, <3>2
  <2>8. /\ velocity' = [d \in Entity |-> velocity'[d]] /\ seen' = [d \in Entity |-> seen'[d]]
        /\ points' = [d \in Entity |-> points'[d]] /\ cusum' = [d \in Entity |-> cusum'[d]]
        /\ taken' = [d \in Entity |-> taken'[d]]
    BY <2>2, <2>3 DEF MemoryInv
  <2>9. \A d \in Entity :
          /\ velocity'[d] \in Seq(Nat) /\ points'[d] \in Seq(ZScores)
          /\ cusum'[d] \in [pos : Nat, neg : Int] /\ taken'[d] \in Seq(ZScores)
          /\ seen'[d] \in Seq([z : ZScores, count : Nat])
    BY <2>7, RememberedTypes
  <2> QED
    BY <2>7, <2>8, <2>9 DEF MemoryInv
<1> QED
  BY <1>2, <1>3, <1>4 DEF Next, Handles

\* Every step keeps the artefacts matched.
LEMMA ArtefactsKept ==
  ASSUME PlainType, ArtefactInv, [Next]_vars
  PROVE  ArtefactInv'
<1>1. CASE Start
  BY <1>1 DEF Start, PlainType, ArtefactInv, CalibrationOfOwnModel, Artefacts
<1>2. CASE LoadCalibration
  <2>1. \A d \in Domain : /\ loaded'[d].calibration = disk[d].calibration
                          /\ loaded'[d].model = loaded[d].model
    BY <1>2 DEF LoadCalibration, PlainType, Artefacts
  <2> QED
    BY <1>2, <2>1 DEF LoadCalibration, ArtefactInv, CalibrationOfOwnModel
<1>3. CASE Crash
  BY <1>3 DEF Crash, ArtefactInv, CalibrationOfOwnModel
<1>4. ASSUME NEW d \in Domain, SaveModel(d) PROVE ArtefactInv'
  <2>1. \A x \in Domain : x # d => disk'[x] = disk[x]
    BY <1>4 DEF SaveModel, PlainType
  <2> QED
    BY <1>4, <2>1 DEF SaveModel, ArtefactInv, CalibrationOfOwnModel
<1>5. ASSUME NEW d \in Domain, SaveCalibration(d) PROVE ArtefactInv'
  <2>1. disk[d] \in Artefacts /\ disk \in [Domain -> Artefacts]
    BY DEF PlainType
  <2>2. disk' = [disk EXCEPT ![d] = [disk[d] EXCEPT !.calibration = disk[d].model]]
    BY <1>5 DEF SaveCalibration
  <2>3. disk'[d].calibration = disk'[d].model /\ disk'[d].model = disk[d].model
    BY <2>1, <2>2 DEF Artefacts
  <2>4. \A x \in Domain : x # d => disk'[x] = disk[x]
    BY <2>1, <2>2
  <2> QED
    BY <1>5, <2>3, <2>4 DEF SaveCalibration, ArtefactInv, CalibrationOfOwnModel
<1>6. CASE \E e \in Entity : \E w \in Window[e] : Handles(e, w)
  BY <1>6 DEF Handles, Process, Taken, RaisesBeforeDetectors, RaisesAfterDetectors, Arrives, artefactVars, ArtefactInv, CalibrationOfOwnModel
<1>7. CASE UNCHANGED vars
  BY <1>7 DEF vars, artefactVars, ArtefactInv, CalibrationOfOwnModel
<1> QED
  BY <1>1, <1>2, <1>3, <1>4, <1>5, <1>6, <1>7 DEF Next, Handles

\* Every step keeps the types of the rest.
LEMMA PlainTypeKept ==
  ASSUME PlainType, [Next]_vars
  PROVE  PlainType'
<1>1. CASE Start
  <2>1. loaded' \in [Domain -> Artefacts]
    BY <1>1 DEF Start, PlainType, Artefacts
  <2> QED
    BY <1>1, <2>1 DEF Start, PlainType, detectorVars
<1>2. CASE LoadCalibration
  <2>1. loaded' \in [Domain -> Artefacts]
    BY <1>2 DEF LoadCalibration, PlainType, Artefacts
  <2> QED
    BY <1>2, <2>1 DEF LoadCalibration, PlainType, detectorVars
<1>3. CASE Crash
  BY <1>3 DEF Crash, EmptyMemory, PlainType, Artefacts
<1>4. ASSUME NEW d \in Domain, SaveModel(d) PROVE PlainType'
  <2>1. disk' \in [Domain -> Artefacts]
    BY <1>4 DEF SaveModel, PlainType, Artefacts
  <2> QED
    BY <1>4, <2>1 DEF SaveModel, PlainType, detectorVars
<1>5. ASSUME NEW d \in Domain, SaveCalibration(d) PROVE PlainType'
  <2>1. disk' \in [Domain -> Artefacts]
    BY <1>5 DEF SaveCalibration, PlainType, Artefacts
  <2> QED
    BY <1>5, <2>1 DEF SaveCalibration, PlainType, detectorVars
<1>6. ASSUME NEW e \in Entity, NEW w \in Window[e], Handles(e, w)
      PROVE  PlainType'
  <2>1. DomainOf(e) \in Domain
    BY DEF DomainOf, Domain
  <2>2. PICK d \in Domain, by, fits \in SUBSET Model : d = DomainOf(e) /\ Observe(d, by, fits)
    <3>1. {} \in SUBSET Model /\ {"iso"} \in SUBSET Model /\ Model \in SUBSET Model
      BY DEF Model
    <3> QED
      BY <1>6, <2>1, <3>1 DEF Handles, Process, Taken, RaisesBeforeDetectors, RaisesAfterDetectors
  <2>3. observed' \in [Domain -> [Model -> Nat]]
    <3>1. PICK counts : counts = [m \in Model |-> IF m \in by THEN observed[d][m] + 1 ELSE observed[d][m]]
      OBVIOUS
    <3>2. counts \in [Model -> Nat]
      BY <3>1 DEF PlainType
    <3>3. observed' = [observed EXCEPT ![d] = counts]
      BY <2>2, <3>1 DEF Observe
    <3> QED
      BY <3>2, <3>3 DEF PlainType
  <2>4. fitted' \in [Domain -> SUBSET Model]
    <3>1. PICK new \in SUBSET Model : fitted' = [fitted EXCEPT ![d] = fitted[d] \cup new]
      BY <2>2 DEF Observe
    <3> QED
      BY <3>1 DEF PlainType
  <2> QED
    BY <1>6, <2>3, <2>4 DEF Handles, Process, Taken, RaisesBeforeDetectors, RaisesAfterDetectors, Arrives, PlainType, artefactVars
<1>7. CASE UNCHANGED vars
  BY <1>7 DEF vars, detectorVars, artefactVars, PlainType
<1> QED
  BY <1>1, <1>2, <1>3, <1>4, <1>5, <1>6, <1>7 DEF Next, Handles
-----------------------------------------------------------------------------
(* The result of a window *)

\* A z-score's score is within 0 and 1.
LEMMA ZScoreRange ==
  ASSUME NEW z \in ZScores
  PROVE  ZScore(z) \in 0 .. 1000
<1>1. z \in Int
  BY ZScoresAreIntegers
<1>2. CASE Abs(z) = Far
  BY <1>2 DEF ZScore
<1>3. CASE Abs(z) # Far
  <2>1. z \in -20 .. 20
    BY <1>1, <1>3 DEF ZScores, Far, Abs
  <2>2. PICK a : a = Abs(z)
    OBVIOUS
  <2>3. a \in 0 .. 20
    BY <2>1, <2>2 DEF Abs
  <2>4. SquashTable[a + 1] \in 0 .. 1000
    <3>1. CASE a \in 0 .. 6
      <4>1. a \in {0, 1, 2, 3, 4, 5, 6}
        BY <3>1
      <4> QED
        BY <4>1 DEF SquashTable
    <3>2. CASE a \in 7 .. 13
      <4>1. a \in {7, 8, 9, 10, 11, 12, 13}
        BY <3>2
      <4> QED
        BY <4>1 DEF SquashTable
    <3>3. CASE a \in 14 .. 20
      <4>1. a \in {14, 15, 16, 17, 18, 19, 20}
        BY <3>3
      <4> QED
        BY <4>1 DEF SquashTable
    <3>4. a \in 0 .. 6 \/ a \in 7 .. 13 \/ a \in 14 .. 20
      BY <2>3
    <3> QED
      BY <3>1, <3>2, <3>3, <3>4, Zenon
  <2> QED
    BY <1>3, <2>2, <2>4 DEF ZScore
<1> QED
  BY <1>2, <1>3

\* CUSUM's score is within 0 and 1, and past one half only beyond half the threshold.
LEMMA CusumScoreRange ==
  ASSUME NEW c \in [pos : Nat, neg : Int]
  PROVE  CusumScore(c) \in 0 .. 1000 /\ (CusumScore(c) > 500 => c.pos > 5 \/ -c.neg > 5)
<1>1. PICK a, b : a = c.pos /\ b = -c.neg
  OBVIOUS
<1>2. a \in Nat /\ b \in Int
  BY <1>1
<1>3. PICK m : m = AtLeast(a, b)
  OBVIOUS
<1>4. m \in Nat /\ (m = a \/ m = b)
  BY <1>2, <1>3 DEF AtLeast
<1>5. CusumScore(c) = AtMost(m * 100, 1000)
  BY <1>1, <1>3 DEF CusumScore
<1>6. AtMost(m * 100, 1000) \in 0 .. 1000 /\ (AtMost(m * 100, 1000) > 500 => m > 5)
  BY <1>4 DEF AtMost
<1> QED
  BY <1>1, <1>4, <1>5, <1>6

\* What process returns for window w of entity e.
LEMMA NewResult ==
  ASSUME ScoringInv, MemoryInv', NEW e \in Entity, NEW w \in Window[e], Process(e, w)
  PROVE  ResultInv'
<1>1. PICK d : d = DomainOf(e)
  OBVIOUS
<1>2. PICK iso \in ModelScores("iso" \in fitted'[d]), ae \in ModelScores("ae" \in fitted'[d]),
           xgb \in XGBoostScores(d) :
        result' = {[entity |-> e, scores |-> Scores(e, w.z, iso, ae, xgb),
                    tier |-> Evaluate(d, Combine(Scores(e, w.z, iso, ae, xgb)))]}
  BY <1>1 DEF Process, Outcomes
<1>3. PICK s : s = Scores(e, w.z, iso, ae, xgb)
  OBVIOUS
<1>4. PICK zs, ewma, cs : /\ zs = ZScore(w.z) /\ ewma = RunRules(points'[e])
                          /\ cs = CusumScore(cusum'[e])
  OBVIOUS
<1>5. /\ s.zscore = zs /\ s.ewma = ewma /\ s.cusum = cs
      /\ s.iso = iso /\ s.ae = ae /\ s.xgb = xgb
  BY <1>3, <1>4 DEF Scores
<1>6. w \in [z : ZScores, count : Nat]
  BY WindowAssumption
<1>7. zs \in 0 .. 1000
  BY <1>4, <1>6, ZScoreRange
<1>8. taken'[e] \in Seq(ZScores) /\ Len(taken'[e]) >= 1
  <2>1. taken' = [taken EXCEPT ![e] = Append(taken[e], w.z)]
    BY DEF Process, Taken
  <2>2. taken \in [Entity -> Seq(ZScores)] /\ w.z \in ZScores
    BY <1>6 DEF ScoringInv, MemoryInv
  <2>3. taken'[e] = Append(taken[e], w.z) /\ taken[e] \in Seq(ZScores)
    BY <2>1, <2>2
  <2> QED
    BY <2>2, <2>3, AppendProperties
<1>9. ewma \in 0 .. 1000
  <2>1. points'[e] = LastN(taken'[e], HistoryLen)
    BY DEF MemoryInv, Remembers
  <2>2. RunRules(LastN(taken'[e], HistoryLen)) \in 0 .. 1000
    BY <1>8, RunRulesJudge, ZenonT(30)
  <2> QED
    BY <1>4, <2>1, <2>2
<1>10. cs \in 0 .. 1000
  <2>1. cusum'[e] \in [pos : Nat, neg : Int]
    BY DEF MemoryInv
  <2> QED
    BY <1>4, <2>1, CusumScoreRange
<1>11. /\ iso \in 0 .. 1000 /\ ae \in 0 .. 1000 /\ xgb \in {NoScore} \cup 0 .. 1000
       /\ fitted'[d] = {} => iso = 0 /\ ae = 0
  <2>1. iso \in Learned \cup {0} /\ ("iso" \notin fitted'[d] => iso = 0)
    BY DEF ModelScores
  <2>2. ae \in Learned \cup {0} /\ ("ae" \notin fitted'[d] => ae = 0)
    BY DEF ModelScores
  <2>3. xgb \in {NoScore} \cup Learned
    BY DEF XGBoostScores
  <2>4. Learned \subseteq 0 .. 1000 /\ 0 \in 0 .. 1000
    BY LearnedAssumption
  <2>5. iso \in 0 .. 1000 /\ ae \in 0 .. 1000
    <3>1. iso \in Learned \/ iso = 0
      BY <2>1
    <3>2. ae \in Learned \/ ae = 0
      BY <2>2
    <3>3. \A x \in Learned : x \in 0 .. 1000
      BY <2>4
    <3>4. iso \in 0 .. 1000
      <4>1. CASE iso = 0
        BY <4>1
      <4>2. CASE iso \in Learned
        BY <3>3, <4>2
      <4> QED
        BY <3>1, <4>1, <4>2
    <3>5. ae \in 0 .. 1000
      <4>1. CASE ae = 0
        BY <4>1
      <4>2. CASE ae \in Learned
        BY <3>3, <4>2
      <4> QED
        BY <3>2, <4>1, <4>2
    <3> QED
      BY <3>4, <3>5
  <2>6. xgb \in {NoScore} \cup 0 .. 1000
    <3>1. CASE xgb = NoScore
      BY <3>1
    <3>2. CASE xgb \in Learned
      <4>1. xgb \in 0 .. 1000
        BY <2>4, <3>2
      <4> QED
        BY <4>1
    <3> QED
      BY <2>3, <3>1, <3>2
  <2>7. ASSUME fitted'[d] = {} PROVE iso = 0 /\ ae = 0
    BY <2>1, <2>2, <2>7
  <2> QED
    BY <2>5, <2>6, <2>7
<1>12. PICK r : /\ r = [entity |-> e, scores |-> s, tier |-> Evaluate(d, Combine(s))]
                /\ result' = {r}
  BY <1>2, <1>3
<1>13. r.entity = e /\ r.scores = s /\ r.tier = Evaluate(DomainOf(e), Combine(s))
  BY <1>1, <1>12
<1>14. \A x \in {"zscore", "ewma", "cusum", "iso", "ae"} : r.scores[x] \in 0 .. 1000
  <2>1. s["zscore"] \in 0 .. 1000 /\ s["ewma"] \in 0 .. 1000 /\ s["cusum"] \in 0 .. 1000
    BY <1>5, <1>7, <1>9, <1>10, SMTT(30)
  <2>2. s["iso"] \in 0 .. 1000 /\ s["ae"] \in 0 .. 1000
    BY <1>5, <1>11
  <2> QED
    BY <1>13, <2>1, <2>2
<1>15. fitted'[DomainOf(e)] = {} => r.scores.iso = 0 /\ r.scores.ae = 0
  BY <1>1, <1>5, <1>11, <1>13
<1>16. r.scores.ewma = RunRules(points'[e]) /\ r.scores.cusum = CusumScore(cusum'[e])
  BY <1>4, <1>5, <1>13
<1>17. r.scores.xgb \in {NoScore} \cup 0 .. 1000
  BY <1>5, <1>11, <1>13
<1>18. r.tier = Evaluate(DomainOf(e), Combine(r.scores))
  BY <1>13
<1> SUFFICES ASSUME NEW q \in result'
             PROVE  /\ q.entity \in Entity /\ Len(taken'[q.entity]) >= 1
                    /\ q.scores.ewma = RunRules(points'[q.entity])
                    /\ q.scores.cusum = CusumScore(cusum'[q.entity])
                    /\ InRange(q.scores)
                    /\ q.tier = Evaluate(DomainOf(q.entity), Combine(q.scores))
                    /\ fitted'[DomainOf(q.entity)] = {} => q.scores.iso = 0 /\ q.scores.ae = 0
  BY DEF ResultInv
<1>19. q = r
  BY <1>12
<1>20. q.entity = e /\ q.scores = r.scores /\ q.tier = r.tier
  BY <1>13, <1>19
<1>21. q.entity \in Entity /\ Len(taken'[q.entity]) >= 1
  BY <1>8, <1>20
<1>22. /\ q.scores.ewma = RunRules(points'[q.entity])
       /\ q.scores.cusum = CusumScore(cusum'[q.entity])
  BY <1>16, <1>20
<1>23. InRange(q.scores)
  <2>1. InRange(r.scores)
    BY <1>14, <1>17, ZenonT(30) DEF InRange
  <2> QED
    BY <1>20, <2>1
<1>24. q.tier = Evaluate(DomainOf(q.entity), Combine(q.scores))
  BY <1>18, <1>20
<1>25. fitted'[DomainOf(q.entity)] = {} => q.scores.iso = 0 /\ q.scores.ae = 0
  BY <1>15, <1>20
<1> QED
  BY <1>21, <1>22, <1>23, <1>24, <1>25

\* Every step keeps the last result true to the memory.
LEMMA ResultKept ==
  ASSUME ScoringInv, MemoryInv', [Next]_vars
  PROVE  ResultInv'
<1>1. ASSUME UNCHANGED <<points, cusum, taken, result>>,
             \A d \in Domain : fitted'[d] = {} => fitted[d] = {}
      PROVE  ResultInv'
  <2>1. \A e \in Entity : DomainOf(e) \in Domain
    BY DEF DomainOf, Domain
  <2>2. \A e \in Entity : fitted'[DomainOf(e)] = {} => fitted[DomainOf(e)] = {}
    BY <1>1, <2>1
  <2> SUFFICES ASSUME NEW q \in result'
               PROVE  /\ q.entity \in Entity /\ Len(taken'[q.entity]) >= 1
                      /\ q.scores.ewma = RunRules(points'[q.entity])
                      /\ q.scores.cusum = CusumScore(cusum'[q.entity])
                      /\ InRange(q.scores)
                      /\ q.tier = Evaluate(DomainOf(q.entity), Combine(q.scores))
                      /\ fitted'[DomainOf(q.entity)] = {} => q.scores.iso = 0 /\ q.scores.ae = 0
    BY DEF ResultInv
  <2>3. q \in result
    BY <1>1
  <2>4. /\ q.entity \in Entity /\ Len(taken[q.entity]) >= 1
        /\ q.scores.ewma = RunRules(points[q.entity])
        /\ q.scores.cusum = CusumScore(cusum[q.entity])
        /\ InRange(q.scores)
        /\ q.tier = Evaluate(DomainOf(q.entity), Combine(q.scores))
        /\ fitted[DomainOf(q.entity)] = {} => q.scores.iso = 0 /\ q.scores.ae = 0
    BY <2>3 DEF ScoringInv, ResultInv
  <2> QED
    BY <1>1, <2>2, <2>4
<1>2. CASE Start \/ LoadCalibration \/ (\E d \in Domain : SaveModel(d) \/ SaveCalibration(d))
           \/ UNCHANGED vars
  BY <1>1, <1>2 DEF Start, LoadCalibration, SaveModel, SaveCalibration, vars, detectorVars, historyVars
<1>3. CASE Crash
  BY <1>3 DEF Crash, EmptyMemory, ResultInv
<1>4. ASSUME NEW e \in Entity, NEW w \in Window[e], Process(e, w) PROVE ResultInv'
  BY <1>4, NewResult
<1>5. ASSUME NEW e \in Entity, NEW w \in Window[e], RaisesBeforeDetectors(e, w) \/ RaisesAfterDetectors(e, w)
      PROVE  ResultInv'
  BY <1>5 DEF RaisesBeforeDetectors, RaisesAfterDetectors, ResultInv
<1> QED
  BY <1>2, <1>3, <1>4, <1>5 DEF Next, Handles

\* The invariant at the start.
LEMMA ScoringStarts == Init => ScoringInv
<1> SUFFICES ASSUME Init PROVE ScoringInv
  OBVIOUS
<1>1. PlainType
  BY DEF Init, PlainType, Artefacts
<1>2. MemoryInv
  BY NothingRemembered DEF Init, Fresh, MemoryInv
<1>3. ResultInv /\ ArtefactInv
  BY DEF Init, ResultInv, ArtefactInv, CalibrationOfOwnModel
<1> QED
  BY <1>1, <1>2, <1>3 DEF ScoringInv

\* Every step keeps the invariant.
LEMMA ScoringKept == ScoringInv /\ [Next]_vars => ScoringInv'
BY MemoryKept, ArtefactsKept, PlainTypeKept, ResultKept DEF ScoringInv
-----------------------------------------------------------------------------
(* What the invariant says of the properties *)

\* What the invariant says of the types.
LEMMA TypesFollow == ScoringInv => TypeOK
<1> SUFFICES ASSUME ScoringInv PROVE TypeOK
  OBVIOUS
<1>1. PlainType /\ MemoryInv /\ ResultInv
  BY DEF ScoringInv
<1>2. ASSUME NEW e \in Entity
      PROVE  Len(velocity[e]) <= VelocityWindows /\ Len(points[e]) <= HistoryLen
  <2>1. Remembers(velocity[e], points[e], cusum[e], seen[e], taken[e])
    BY <1>1 DEF MemoryInv
  <2>2. /\ seen[e] \in Seq([z : ZScores, count : Nat]) /\ taken[e] \in Seq(ZScores)
        /\ velocity[e] = LastN(Counts(seen[e]), VelocityWindows)
        /\ points[e] = LastN(taken[e], HistoryLen)
    BY <2>1 DEF Remembers
  <2>3. PICK all, w : all = Counts(seen[e]) /\ w = VelocityWindows
    OBVIOUS
  <2>4. all \in Seq(Nat) /\ w \in Nat
    <3>1. PICK any : any = [z |-> Far, count |-> 0]
      OBVIOUS
    <3>2. any \in [z : ZScores, count : Nat]
      BY <3>1 DEF ZScores
    <3> QED
      BY <2>2, <2>3, <3>2, CountsGrow, VelocityAssumption
  <2>5. Len(LastN(all, w)) = (IF Len(all) <= w THEN Len(all) ELSE w) /\ Len(all) \in Nat
    BY <2>4, LastNFacts
  <2>6. PICK k : k = HistoryLen /\ k \in Nat
    BY DEF HistoryLen
  <2>7. Len(LastN(taken[e], k)) = (IF Len(taken[e]) <= k THEN Len(taken[e]) ELSE k)
        /\ Len(taken[e]) \in Nat
    BY <2>2, <2>6, LastNFacts
  <2>8. Len(velocity[e]) <= w
    BY <2>2, <2>3, <2>4, <2>5
  <2>9. Len(points[e]) <= k
    BY <2>2, <2>6, <2>7
  <2> QED
    BY <2>3, <2>6, <2>8, <2>9
<1>3. ASSUME NEW r \in result
      PROVE  /\ r.entity \in Entity
             /\ \A x \in {"zscore", "ewma", "cusum", "iso", "ae"} : r.scores[x] \in 0 .. 1000
             /\ r.scores.xgb \in {NoScore} \cup 0 .. 1000
  <2>1. r.entity \in Entity /\ InRange(r.scores)
    BY <1>1 DEF ResultInv
  <2> QED
    BY <2>1 DEF InRange
<1>4. /\ velocity \in [Entity -> Seq(Nat)] /\ points \in [Entity -> Seq(ZScores)]
      /\ cusum \in [Entity -> [pos : Nat, neg : Int]]
  BY <1>1 DEF MemoryInv
<1> QED
  BY <1>1, <1>2, <1>3, <1>4 DEF TypeOK, PlainType

\* The history of an entity, and its largest shifts, as CUSUM holds them.
LEMMA ShiftsHeld ==
  ASSUME ScoringInv, NEW e \in Entity
  PROVE  /\ cusum[e] \in [pos : Nat, neg : Int] /\ taken[e] \in Seq(ZScores)
         /\ points[e] = LastN(taken[e], HistoryLen)
         /\ cusum[e].pos = LargestShift(taken[e])
         /\ -cusum[e].neg = LargestShift(Mirror(taken[e]))
<1>1. Remembers(velocity[e], points[e], cusum[e], seen[e], taken[e])
  BY DEF ScoringInv, MemoryInv
<1>2. /\ cusum[e] \in [pos : Nat, neg : Int] /\ taken[e] \in Seq(ZScores)
      /\ points[e] = LastN(taken[e], HistoryLen)
      /\ Largest(taken[e], cusum[e].pos) /\ Largest(Mirror(taken[e]), -cusum[e].neg)
  BY <1>1 DEF Remembers
<1>3. taken[e] \in Seq(Int)
  BY <1>2, ZScoresAreIntegers
<1>4. Mirror(taken[e]) \in Seq(Int)
  BY <1>3, MirrorGrows
<1>5. PICK p, n, h, m : /\ p = cusum[e].pos /\ n = -cusum[e].neg /\ h = taken[e]
                        /\ m = Mirror(taken[e])
  OBVIOUS
<1>6. LargestShift(h) = p
  BY <1>2, <1>3, <1>5, LargestIs
<1>7. LargestShift(m) = n
  BY <1>2, <1>4, <1>5, LargestIs
<1> QED
  BY <1>2, <1>5, <1>6, <1>7

\* What the invariant says of the detectors.
LEMMA OwnHistoryFollows == ScoringInv => DetectorsSeeOwnHistory
<1> SUFFICES ASSUME ScoringInv PROVE DetectorsSeeOwnHistory
  OBVIOUS
<1>1. CusumIsLargestShift
  BY ShiftsHeld DEF CusumIsLargestShift
<1>2. ASSUME NEW r \in result PROVE Judged(taken[r.entity], r.scores.ewma)
  <2>1. /\ r.entity \in Entity /\ Len(taken[r.entity]) >= 1
        /\ r.scores.ewma = RunRules(points[r.entity])
    BY DEF ScoringInv, ResultInv
  <2>2. PICK h : h = taken[r.entity]
    OBVIOUS
  <2>3. h \in Seq(ZScores) /\ Len(h) >= 1 /\ points[r.entity] = LastN(h, HistoryLen)
    BY <2>1, <2>2, ShiftsHeld
  <2>4. Judged(h, RunRules(LastN(h, HistoryLen)))
    BY <2>3, RunRulesJudge
  <2> QED
    BY <2>1, <2>2, <2>3, <2>4
<1>3. RunRulesSeeOwnHistory
  BY <1>2 DEF RunRulesSeeOwnHistory, Judged
<1>4. VelocityIsRecentVolume
  <2>1. ASSUME NEW e \in Entity
        PROVE  SumOf(velocity[e]) = SumOf(LastN(Counts(seen[e]), VelocityWindows))
    BY DEF ScoringInv, MemoryInv, Remembers
  <2> QED
    BY <2>1 DEF VelocityIsRecentVolume, Counts
<1> QED
  BY <1>1, <1>3, <1>4, TypesFollow DEF DetectorsSeeOwnHistory

(* What the statistical detectors give when all are saturated: 15, 20 and 20 of the
   100 weights. *)
Saturated == 55 * 100000

\* At or below what the statistical detectors can give, only the lowest tier is reached.
LEMMA WatchOnly ==
  ASSUME NEW domain, NEW score \in Int, score <= Saturated, Evaluate(domain, score) # NoTier
  PROVE  /\ Evaluate(domain, score).severity = "watch"
         /\ domain # "payments" => score >= Saturated
<1>1. PICK t : t = Thresholds(domain)
  OBVIOUS
<1>2. PICK m1, m2, m3 : m1 = t[1].min /\ m2 = t[2].min /\ m3 = t[3].min
  OBVIOUS
<1>3. DOMAIN t = {1, 2, 3} /\ t[3].severity = "watch"
  BY <1>1 DEF Thresholds, Tier
<1>4. /\ m1 \in Int /\ m1 > Saturated /\ m2 \in Int /\ m2 > Saturated
      /\ domain # "payments" => m3 = Saturated
  BY <1>1, <1>2 DEF Thresholds, Tier, Saturated
<1>5. Saturated \in Int
  BY DEF Saturated
<1>6. PICK hit : hit = {i \in DOMAIN t : score >= t[i].min}
  OBVIOUS
<1>7. PICK first : first = CHOOSE i \in hit : \A j \in hit : i <= j
  OBVIOUS
<1>8. Evaluate(domain, score) =
        IF hit = {} THEN NoTier ELSE [severity |-> t[first].severity, action |-> t[first].action]
  BY <1>1, <1>6, <1>7 DEF Evaluate
<1>9. ~(score >= m1) /\ ~(score >= m2)
  BY <1>4, <1>5
<1>10. hit = {3}
  BY <1>2, <1>3, <1>6, <1>8, <1>9
<1>11. first = 3
  BY <1>7, <1>10
<1>12. score >= m3
  BY <1>2, <1>6, <1>10
<1>13. Evaluate(domain, score).severity = "watch"
  BY <1>3, <1>8, <1>10, <1>11
<1> QED
  BY <1>4, <1>12, <1>13

\* Each of the statistical scores in range.
LEMMA RangesOf ==
  ASSUME NEW s, InRange(s)
  PROVE  s.zscore \in 0 .. 1000 /\ s.ewma \in 0 .. 1000 /\ s.cusum \in 0 .. 1000
<1>1. PICK range : range = 0 .. 1000
  OBVIOUS
<1>2. \A x \in {"zscore", "ewma", "cusum", "iso", "ae"} : s[x] \in range
  BY <1>1 DEF InRange
<1>3. s["zscore"] \in range /\ s["ewma"] \in range /\ s["cusum"] \in range
  BY <1>2
<1> QED
  BY <1>1, <1>3

\* What the statistical detectors reach alone: all of it only when all are saturated.
LEMMA StatisticalReach ==
  ASSUME NEW s, InRange(s), s.iso = 0, s.ae = 0, s.xgb = NoScore
  PROVE  /\ Combine(s) \in Int /\ Combine(s) <= Saturated
         /\ Combine(s) >= Saturated => s.zscore = 1000 /\ s.ewma = 1000 /\ s.cusum = 1000
<1>1. PICK z, w, c : z = s.zscore /\ w = s.ewma /\ c = s.cusum
  OBVIOUS
<1>2. z \in 0 .. 1000 /\ w \in 0 .. 1000 /\ c \in 0 .. 1000
  BY <1>1, RangesOf
<1>3. PICK score : score = Combine(s)
  OBVIOUS
<1>4. score = 100 * (15 * z + 20 * w + 20 * c + 20 * 0 + 25 * 0)
  BY <1>1, <1>3 DEF Combine
<1>5. /\ score \in Int /\ score <= Saturated
      /\ score >= Saturated => z = 1000 /\ w = 1000 /\ c = 1000
  BY <1>2, <1>4 DEF Saturated
<1> QED
  BY <1>1, <1>3, <1>5

\* What the invariant says of the warm-up.
LEMMA WarmUpFollows == ScoringInv => WarmUpOnlyWatches
<1> SUFFICES ASSUME ScoringInv, NEW r \in result, fitted[DomainOf(r.entity)] = {},
                    r.scores.xgb = NoScore, r.tier # NoTier
             PROVE  /\ r.tier.severity = "watch"
                    /\ r.entity \in Market =>
                         r.scores.zscore = 1000 /\ r.scores.ewma = 1000 /\ r.scores.cusum = 1000
  BY DEF WarmUpOnlyWatches
<1>1. PICK s, domain, score : s = r.scores /\ domain = DomainOf(r.entity) /\ score = Combine(s)
  OBVIOUS
<1>2. InRange(s) /\ r.tier = Evaluate(domain, score) /\ s.iso = 0 /\ s.ae = 0
  BY <1>1 DEF ScoringInv, ResultInv
<1>3. /\ score \in Int /\ score <= Saturated
      /\ score >= Saturated => s.zscore = 1000 /\ s.ewma = 1000 /\ s.cusum = 1000
  BY <1>1, <1>2, StatisticalReach
<1>4. Evaluate(domain, score).severity = "watch" /\ (domain # "payments" => score >= Saturated)
  BY <1>2, <1>3, WatchOnly
<1>5. r.entity \in Market => domain # "payments"
  BY <1>1 DEF DomainOf
<1> QED
  BY <1>1, <1>2, <1>3, <1>4, <1>5

\* What the invariant says of a regime change.
LEMMA DriftFollows == ScoringInv => RegimeChangeHasDrift
<1> SUFFICES ASSUME ScoringInv, NEW r \in result, "regime_change" \in Causes(r)
             PROVE  \/ LargestShift(taken[r.entity]) > 5
                    \/ LargestShift(Mirror(taken[r.entity])) > 5
  BY DEF RegimeChangeHasDrift
<1>1. r.entity \in Entity /\ r.scores.cusum = CusumScore(cusum[r.entity])
  BY DEF ScoringInv, ResultInv
<1>2. PICK c \in BOOLEAN, top \in FeatureNames(DomainOf(r.entity)) :
        "regime_change" = ProbableCause(DomainOf(r.entity), c, top, r.scores)
  BY DEF Causes
<1>3. Sustained(r.scores)
  BY <1>2 DEF ProbableCause
<1>4. CusumScore(cusum[r.entity]) > 500
  BY <1>1, <1>3 DEF Sustained
<1>5. PICK s : s = cusum[r.entity]
  OBVIOUS
<1>6. s \in [pos : Nat, neg : Int]
  BY <1>1, <1>5, ShiftsHeld
<1>7. s.pos > 5 \/ -s.neg > 5
  BY <1>4, <1>5, <1>6, CusumScoreRange
<1>8. s.pos = LargestShift(taken[r.entity]) /\ -s.neg = LargestShift(Mirror(taken[r.entity]))
  BY <1>1, <1>5, ShiftsHeld
<1> QED
  BY <1>7, <1>8
-----------------------------------------------------------------------------
(* The theorems *)

(* The inductive invariant: what each entity's detectors hold is a function of the
   windows it was given, the last result is still what that memory gives, and model
   and calibration belong together wherever no training is at work. *)
THEOREM ScoringInvariant == Spec => []ScoringInv
<1>1. Init => ScoringInv
  BY ScoringStarts
<1>2. ScoringInv /\ [Next]_vars => ScoringInv'
  BY ScoringKept
<1> QED
  BY <1>1, <1>2, PTL DEF Spec

(* statistical.py, velocity.py: the detectors of an entity judge exactly its own
   windows, of any number of entities and windows and whatever raised in between:
   each CUSUM side is the largest drift over any stretch of them that ends now, the
   run rules count the last windows of the whole history, and the velocity is the
   volume of the last windows. *)
THEOREM DetectorsRememberOwnHistory == Spec => []DetectorsSeeOwnHistory
<1>1. ScoringInv => DetectorsSeeOwnHistory
  BY OwnHistoryFollows
<1> QED
  BY <1>1, ScoringInvariant, PTL

(* rules.yaml against ensemble.py: until the rolling models are fitted, without
   XGBoost, nothing above a watch is raised, and on the market side only when the
   three statistical detectors are saturated. *)
THEOREM WarmUpRaisesOnlyWatches == Spec => []WarmUpOnlyWatches
<1>1. ScoringInv => WarmUpOnlyWatches
  BY WarmUpFollows
<1> QED
  BY <1>1, ScoringInvariant, PTL

(* explain.py: an alert that names a regime change has a drift of more than half the
   CUSUM threshold in the windows of its entity. *)
THEOREM RegimeChangesDrift == Spec => []RegimeChangeHasDrift
<1>1. ScoringInv => RegimeChangeHasDrift
  BY DriftFollows
<1> QED
  BY <1>1, ScoringInvariant, PTL

(* detectors/xgboost_detector.py and train_xgboost.py: the process scores with the calibration of
   its own model, whatever the order of trainings, crashes and starts, unless a
   training was between its two writes when the process read them. *)
THEOREM CalibrationBelongs == Spec => []CalibrationOfOwnModel
<1>1. ScoringInv => CalibrationOfOwnModel
  BY DEF ScoringInv, ArtefactInv
<1> QED
  BY <1>1, ScoringInvariant, PTL
=============================================================================
