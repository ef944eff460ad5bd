-------------------------- MODULE InductionLemmas --------------------------
(***************************************************************************)
(* Induction, and what two operators defined by recursion give: the sum of a  *)
(* function and a flattened sequence of sequences.  Induction is stated of a   *)
(* set instead of a predicate: the provers instantiate no operator parameter,  *)
(* and a set is enough.                                                       *)
(***************************************************************************)
EXTENDS Naturals, Sequences, FiniteSets, SequencesExt, FiniteSetTheorems, SequenceTheorems, TLAPS

(* A set of naturals that holds zero and the successor of each of its elements
   holds them all: what is missing up to some n could be moved down by one and
   would fit into itself without n. *)
LEMMA Inductive ==
  ASSUME NEW S, 0 \in S, \A n \in Nat : n \in S => n + 1 \in S
  PROVE  \A n \in Nat : n \in S
<1> SUFFICES ASSUME NEW n \in Nat, n \notin S PROVE FALSE
  OBVIOUS
<1> DEFINE T == {k \in 0 .. n : k \notin S}
           f == [k \in T |-> k - 1]
<1>1. IsFiniteSet(T)
  <2>1. IsFiniteSet(0 .. n) /\ T \subseteq 0 .. n
    BY FS_Interval
  <2> QED BY <2>1, FS_Subset
<1>2. IsFiniteSet(T \ {n}) /\ Cardinality(T \ {n}) = Cardinality(T) - 1
  <2>1. n \in T
    OBVIOUS
  <2> QED BY <1>1, <2>1, FS_RemoveElement
<1>3. Cardinality(T) \in Nat
  BY <1>1, FS_CardinalityType
<1>4. f \in [T -> T \ {n}]
  <2>1. ASSUME NEW k \in T PROVE k - 1 \in T /\ k - 1 # n
    <3>1. k \in Nat /\ k # 0 /\ k <= n
      OBVIOUS
    <3>2. k - 1 \in Nat /\ k - 1 + 1 = k /\ k - 1 <= n /\ k - 1 # n
      BY <3>1
    <3> QED BY <3>2
  <2> QED BY <2>1
<1>5. \A x, y \in T : f[x] = f[y] => x = y
  OBVIOUS
<1>6. Cardinality(T \ {n}) < Cardinality(T)
  BY <1>2, <1>3
<1>7. \E x, y \in T : x # y /\ f[x] = f[y]
  <2> HIDE DEF T, f
  <2> QED BY <1>1, <1>2, <1>4, <1>6, FS_PigeonHole
<1> QED BY <1>5, <1>7

(* The same for the subsets of a finite set, one element at a time. *)
LEMMA SubsetsInductive ==
  ASSUME NEW D, IsFiniteSet(D), NEW Q, {} \in Q,
         \A s \in SUBSET D : (\A x \in s : s \ {x} \in Q) => s \in Q
  PROVE  \A s \in SUBSET D : s \in Q
<1> DEFINE S == {n \in Nat : \A s \in SUBSET D : Cardinality(s) = n => s \in Q}
<1>1. \A s \in SUBSET D : IsFiniteSet(s) /\ Cardinality(s) \in Nat
  BY FS_Subset, FS_CardinalityType
<1>2. 0 \in S
  BY <1>1, FS_EmptySet
<1>3. ASSUME NEW n \in Nat, n \in S PROVE n + 1 \in S
  <2> SUFFICES ASSUME NEW s \in SUBSET D, Cardinality(s) = n + 1 PROVE s \in Q
    OBVIOUS
  <2>1. ASSUME NEW x \in s PROVE s \ {x} \in Q
    <3>1. Cardinality(s \ {x}) = n + 1 - 1
      BY <1>1, FS_RemoveElement
    <3> QED BY <1>3, <3>1
  <2> QED BY <2>1
<1>4. \A n \in Nat : n \in S
  <2> HIDE DEF S
  <2> QED BY <1>2, <1>3, Inductive
<1> QED BY <1>1, <1>4

(* h gives, for each subset of D, the sum of f on it, by the recursion of
   FoldFunction. *)
Picked(s) == CHOOSE x \in s : TRUE
IsFold(h, f, D) ==
  /\ h \in [SUBSET D -> Nat] /\ h[{}] = 0
  /\ \A s \in SUBSET D : s # {} => Picked(s) \in s /\ h[s] = f[Picked(s)] + h[s \ {Picked(s)}]
Total(f) == FoldFunction(+, 0, f)

(* The sum of a function on a finite set is what its recursion says. *)
LEMMA FoldUnfolds ==
  ASSUME NEW D, IsFiniteSet(D), NEW f \in [D -> Nat]
  PROVE  \E h : IsFold(h, f, D) /\ Total(f) = h[D]
<1> DEFINE Upto(n) == \E h \in [SUBSET D -> Nat] : \A s \in SUBSET D : Cardinality(s) <= n =>
                        h[s] = IF s = {} THEN 0 ELSE f[Picked(s)] + h[s \ {Picked(s)}]
           S == {n \in Nat : Upto(n)}
<1>1. \A s \in SUBSET D : IsFiniteSet(s) /\ Cardinality(s) \in Nat /\ Cardinality(s) <= Cardinality(D)
                          /\ (Cardinality(s) = 0 <=> s = {})
  BY FS_Subset, FS_CardinalityType, FS_EmptySet
<1>2. \A s \in SUBSET D : s # {} => Picked(s) \in s
  BY DEF Picked
<1>3. \A s \in SUBSET D : s # {} => s \ {Picked(s)} \in SUBSET D /\ f[Picked(s)] \in Nat
                                    /\ Cardinality(s \ {Picked(s)}) + 1 = Cardinality(s)
  <2> SUFFICES ASSUME NEW s \in SUBSET D, s # {}
               PROVE  s \ {Picked(s)} \in SUBSET D /\ f[Picked(s)] \in Nat
                      /\ Cardinality(s \ {Picked(s)}) + 1 = Cardinality(s)
    OBVIOUS
  <2>1. Picked(s) \in s /\ Picked(s) \in D
    BY <1>2
  <2>2. Cardinality(s \ {Picked(s)}) = Cardinality(s) - 1
    BY <1>1, <2>1, FS_RemoveElement
  <2>3. Cardinality(s) \in Nat
    BY <1>1
  <2> QED BY <2>1, <2>2, <2>3
<1>4. 0 \in S
  <2>1. PICK h : h = [s \in SUBSET D |-> 0]
    OBVIOUS
  <2>2. h \in [SUBSET D -> Nat] /\ h[{}] = 0
    BY <2>1
  <2>3. \A s \in SUBSET D : Cardinality(s) <= 0 => s = {}
    BY <1>1
  <2> QED BY <2>2, <2>3
<1>5. ASSUME NEW n \in Nat, n \in S PROVE n + 1 \in S
  <2>1. PICK h \in [SUBSET D -> Nat] : \A s \in SUBSET D : Cardinality(s) <= n =>
          h[s] = IF s = {} THEN 0 ELSE f[Picked(s)] + h[s \ {Picked(s)}]
    BY <1>5
  <2>2. PICK g : g = [s \in SUBSET D |-> IF Cardinality(s) <= n THEN h[s] ELSE f[Picked(s)] + h[s \ {Picked(s)}]]
    OBVIOUS
  <2>3. g \in [SUBSET D -> Nat]
    <3>1. ASSUME NEW s \in SUBSET D PROVE g[s] \in Nat
      <4>1. CASE Cardinality(s) <= n
        BY <2>2, <4>1
      <4>2. CASE ~ (Cardinality(s) <= n)
        <5>1. s # {}
          BY <1>1, <4>2
        <5>2. f[Picked(s)] \in Nat /\ h[s \ {Picked(s)}] \in Nat
          BY <1>3, <5>1
        <5> QED BY <2>2, <4>2, <5>2
      <4> QED BY <4>1, <4>2
    <3> QED BY <2>2, <3>1
  <2>4. ASSUME NEW s \in SUBSET D, Cardinality(s) <= n + 1
        PROVE  g[s] = IF s = {} THEN 0 ELSE f[Picked(s)] + g[s \ {Picked(s)}]
    <3>1. CASE s = {}
      <4>1. Cardinality(s) <= n
        BY <1>1, <3>1
      <4> QED BY <2>1, <2>2, <3>1, <4>1
    <3>2. CASE s # {}
      <4>1. PICK t \in SUBSET D, c \in Nat, d \in Nat :
               t = s \ {Picked(s)} /\ c = Cardinality(s) /\ d = Cardinality(t) /\ d + 1 = c
        <5>1. s \ {Picked(s)} \in SUBSET D /\ Cardinality(s \ {Picked(s)}) + 1 = Cardinality(s)
          BY <1>3, <3>2
        <5>2. Cardinality(s) \in Nat /\ Cardinality(s \ {Picked(s)}) \in Nat
          BY <1>1, <5>1
        <5> QED BY <5>1, <5>2
      <4>2. d <= n
        BY <2>4, <4>1
      <4>3. g[t] = h[t]
        BY <2>2, <4>1, <4>2
      <4>4. g[s] = f[Picked(s)] + h[t]
        BY <2>1, <2>2, <3>2, <4>1
      <4> QED BY <3>2, <4>1, <4>3, <4>4
    <3> QED BY <3>1, <3>2
  <2>5. Upto(n + 1)
    BY <2>3, <2>4
  <2> QED BY <2>5
<1>6. \A n \in Nat : n \in S
  <2> HIDE DEF S
  <2> QED BY <1>4, <1>5, Inductive
<1>7. PICK h \in [SUBSET D -> Nat] : \A s \in SUBSET D : Cardinality(s) <= Cardinality(D) =>
          h[s] = IF s = {} THEN 0 ELSE f[Picked(s)] + h[s \ {Picked(s)}]
  <2>1. Cardinality(D) \in S
    BY <1>1, <1>6
  <2> QED BY <2>1
<1>8. h = [s \in SUBSET D |-> IF s = {} THEN 0 ELSE f[Picked(s)] + h[s \ {Picked(s)}]]
  BY <1>1, <1>7
<1> DEFINE Rec(it) == it = [s \in SUBSET D |-> IF s = {} THEN 0 ELSE f[Picked(s)] + it[s \ {Picked(s)}]]
<1>9. PICK k : k = CHOOSE it : Rec(it)
  OBVIOUS
<1>10. Total(f) = k[D]
  <2>1. DOMAIN f = D
    OBVIOUS
  <2> QED BY <1>9, <2>1 DEF Total, FoldFunction, FoldFunctionOnSet, MapThenFoldSet, Picked
<1>11. Rec(h)
  BY <1>8
<1>12. Rec(k)
  <2> HIDE DEF Rec
  <2> QED BY <1>9, <1>11
<1>13. \A s \in SUBSET D : k[s] = IF s = {} THEN 0 ELSE f[Picked(s)] + k[s \ {Picked(s)}]
  BY <1>12
<1>14. \A s \in SUBSET D : k[s] \in Nat
  <2> DEFINE Q == {s \in SUBSET D : k[s] \in Nat}
  <2>1. {} \in Q
    BY <1>13
  <2>2. ASSUME NEW s \in SUBSET D, \A x \in s : s \ {x} \in Q PROVE s \in Q
    <3>1. CASE s = {}
      <4>1. k[s] = 0
        BY <1>13, <3>1
      <4> QED BY <4>1
    <3>2. CASE s # {}
      <4>1. s \ {Picked(s)} \in SUBSET D /\ f[Picked(s)] \in Nat /\ k[s \ {Picked(s)}] \in Nat
        BY <1>2, <1>3, <2>2, <3>2
      <4> QED BY <1>13, <3>2, <4>1, SMTT(30)
    <3> QED BY <3>1, <3>2
  <2>3. \A s \in SUBSET D : s \in Q
    <3> HIDE DEF Q
    <3> QED BY <2>1, <2>2, SubsetsInductive
  <2> QED BY <2>3
<1>15. k \in [SUBSET D -> Nat]
  BY <1>12, <1>14
<1>16. IsFold(k, f, D)
  BY <1>2, <1>13, <1>15 DEF IsFold
<1> QED BY <1>10, <1>16

AddsUp(h, f, g, D) == \A x \in D : h[x] = f[x] + g[x]

\* The sum of two functions added element by element is the sum of their sums.
LEMMA SumAdds ==
  ASSUME NEW D, IsFiniteSet(D), NEW f \in [D -> Nat], NEW g \in [D -> Nat], NEW h \in [D -> Nat],
         AddsUp(h, f, g, D)
  PROVE  Total(f) \in Nat /\ Total(g) \in Nat /\ Total(h) = Total(f) + Total(g)
<1>1. PICK ff, gg, hh : /\ IsFold(ff, f, D) /\ IsFold(gg, g, D) /\ IsFold(hh, h, D)
                        /\ Total(f) = ff[D] /\ Total(g) = gg[D] /\ Total(h) = hh[D]
  BY FoldUnfolds
<1> DEFINE Q == {s \in SUBSET D : hh[s] = ff[s] + gg[s]}
<1>2. {} \in Q
  BY <1>1 DEF IsFold
<1>3. ASSUME NEW s \in SUBSET D, \A x \in s : s \ {x} \in Q PROVE s \in Q
  <2>1. CASE s = {}
    BY <1>2, <2>1
  <2>2. CASE s # {}
    <3>1. PICK x \in D, t \in SUBSET D :
            /\ x = Picked(s) /\ t = s \ {x} /\ t \in Q
            /\ hh[s] = h[x] + hh[t] /\ ff[s] = f[x] + ff[t] /\ gg[s] = g[x] + gg[t]
      <4>1. PICK x : x = Picked(s)
        OBVIOUS
      <4>2. PICK t : t = s \ {x}
        OBVIOUS
      <4>3. /\ x \in s /\ hh[s] = h[x] + hh[t] /\ ff[s] = f[x] + ff[t] /\ gg[s] = g[x] + gg[t]
        BY <1>1, <2>2, <4>1, <4>2 DEF IsFold
      <4> QED BY <1>3, <4>1, <4>2, <4>3
    <3>2. /\ hh[t] = ff[t] + gg[t] /\ ff[t] \in Nat /\ gg[t] \in Nat
          /\ f[x] \in Nat /\ g[x] \in Nat /\ h[x] = f[x] + g[x]
      BY <1>1, <3>1 DEF IsFold, AddsUp
    <3>3. hh[s] = ff[s] + gg[s]
      BY <3>1, <3>2
    <3> QED BY <3>3
  <2> QED BY <2>1, <2>2
<1>4. \A s \in SUBSET D : s \in Q
  <2> HIDE DEF Q
  <2> QED BY <1>2, <1>3, SubsetsInductive
<1>5. hh[D] = ff[D] + gg[D] /\ ff[D] \in Nat /\ gg[D] \in Nat
  BY <1>1, <1>4 DEF IsFold
<1> QED BY <1>1, <1>5

\* A function that is one on a single element and zero on the others has sum one.
LEMMA SumOfIndicator ==
  ASSUME NEW D, IsFiniteSet(D), NEW d \in D,
         NEW f \in [D -> Nat], \A x \in D : f[x] = IF x = d THEN 1 ELSE 0
  PROVE  Total(f) = 1
<1>1. PICK h : IsFold(h, f, D) /\ Total(f) = h[D]
  BY FoldUnfolds
<1> DEFINE Q == {s \in SUBSET D : h[s] = IF d \in s THEN 1 ELSE 0}
<1>2. {} \in Q
  BY <1>1 DEF IsFold
<1>3. ASSUME NEW s \in SUBSET D, \A x \in s : s \ {x} \in Q PROVE s \in Q
  <2>1. CASE s = {}
    BY <1>2, <2>1
  <2>2. CASE s # {}
    <3>1. PICK x \in D, t \in SUBSET D : x \in s /\ t = s \ {x} /\ t \in Q /\ h[s] = f[x] + h[t]
      BY <1>1, <1>3, <2>2, ZenonT(30) DEF IsFold
    <3>2. CASE x = d
      BY <3>1, <3>2
    <3>3. CASE x # d
      BY <3>1, <3>3
    <3> QED BY <3>2, <3>3
  <2> QED BY <2>1, <2>2
<1>4. \A s \in SUBSET D : s \in Q
  <2> HIDE DEF Q
  <2> QED BY <1>2, <1>3, SubsetsInductive
<1>5. h[D] = 1
  BY <1>4
<1> QED BY <1>1, <1>5

\* A function that is zero everywhere has sum zero.
LEMMA SumOfZeros ==
  ASSUME NEW D, IsFiniteSet(D), NEW f \in [D -> Nat], \A x \in D : f[x] = 0
  PROVE  Total(f) = 0
<1>1. AddsUp(f, f, f, D)
  BY DEF AddsUp
<1>2. PICK s : s = Total(f)
  OBVIOUS
<1>3. s \in Nat /\ s = s + s
  BY <1>1, <1>2, SumAdds
<1>4. s = 0
  BY <1>3
<1> QED BY <1>2, <1>4
-----------------------------------------------------------------------------
(* h gives, for each i, the first i sequences of s one after the other, by the
   recursion of FlattenSeq. *)
IsFlat(h, s, T) ==
  /\ h \in [Nat -> Seq(T)] /\ h[0] = <<>>
  /\ \A i \in Nat : i < Len(s) => h[i + 1] = h[i] \o s[i + 1]

\* FlattenSeq is what its recursion says.
LEMMA FlatUnfolds ==
  ASSUME NEW T, NEW s \in Seq(Seq(T))
  PROVE  \E h : IsFlat(h, s, T) /\ FlattenSeq(s) = h[Len(s)]
<1>1. PICK N \in Nat : N = Len(s) /\ DOMAIN s = 1 .. N /\ \A i \in 1 .. N : s[i] \in Seq(T)
  BY LenProperties, ElementOfSeq
<1> DEFINE Grows(h, i) == h[i + 1] = h[i] \o s[i + 1]
           Upto(n, h) == h \in [Nat -> Seq(T)] /\ h[0] = <<>>
                         /\ \A i \in Nat : i < N /\ i < n => Grows(h, i)
           S == {n \in Nat : \E h : Upto(n, h)}
<1>2. 0 \in S
  <2>1. PICK h : h = [i \in Nat |-> <<>>]
    OBVIOUS
  <2>2. <<>> \in Seq(T)
    BY EmptySeq
  <2>3. Upto(0, h)
    BY <2>1, <2>2
  <2> QED BY <2>3
<1>3. ASSUME NEW n \in Nat, n \in S PROVE n + 1 \in S
  <2>1. PICK h : Upto(n, h)
    BY <1>3
  <2>2. CASE n < N
    <3>1. PICK x : x = h[n] \o s[n + 1]
      OBVIOUS
    <3>2. x \in Seq(T)
      BY <1>1, <2>1, <2>2, <3>1, ConcatProperties
    <3>3. PICK g : g = [h EXCEPT ![n + 1] = x]
      OBVIOUS
    <3>4. g \in [Nat -> Seq(T)] /\ g[n + 1] = x /\ \A i \in Nat : i <= n => g[i] = h[i]
      BY <2>1, <3>2, <3>3
    <3>5. g[n] = h[n]
      BY <3>4
    <3>6. Grows(g, n)
      BY <3>1, <3>4, <3>5
    <3>7. ASSUME NEW i \in Nat, i < n, i < N PROVE Grows(g, i)
      <4>1. g[i] = h[i] /\ g[i + 1] = h[i + 1]
        BY <3>4, <3>7, SMTT(30)
      <4>2. Grows(h, i)
        <5> HIDE DEF Grows
        <5> QED BY <2>1, <3>7
      <4> QED BY <4>1, <4>2
    <3>8. \A i \in Nat : i < N /\ i < n + 1 => Grows(g, i)
      <4> HIDE DEF Grows
      <4>1. \A i \in Nat : i < n + 1 => i < n \/ i = n
        OBVIOUS
      <4> QED BY <3>6, <3>7, <4>1
    <3>9. g[0] = <<>>
      BY <2>1, <3>4
    <3>10. Upto(n + 1, g)
      BY <3>4, <3>8, <3>9
    <3> HIDE DEF Upto
    <3> QED BY <3>10
  <2>3. CASE ~ (n < N)
    <3> HIDE DEF Grows
    <3>1. Upto(n + 1, h)
      BY <2>1, <2>3
    <3> HIDE DEF Upto
    <3> QED BY <3>1
  <2> QED BY <2>2, <2>3
<1>4. \A n \in Nat : n \in S
  <2> HIDE DEF S
  <2> QED BY <1>2, <1>3, Inductive
<1>5. PICK h : Upto(N, h)
  BY <1>1, <1>4
<1>6. IsFlat(h, s, T)
  BY <1>1, <1>5 DEF IsFlat
<1>7. CASE N = 0
  <2>1. FlattenSeq(s) = s /\ s = <<>>
    <3>1. s = <<>>
      BY <1>1, <1>7
    <3>2. FlattenSeq(s) = s
      BY <1>1, <1>7 DEF FlattenSeq
    <3> QED BY <3>1, <3>2
  <2> QED BY <1>1, <1>5, <1>6, <1>7, <2>1
<1>8. CASE N # 0
  <2> DEFINE Rec(it) == it = [i \in 1 .. N |-> IF i = 1 THEN s[i] ELSE it[i - 1] \o s[i]]
  <2>1. PICK k : k = CHOOSE it : Rec(it)
    OBVIOUS
  <2>2. FlattenSeq(s) = k[N]
    BY <1>1, <1>8, <2>1 DEF FlattenSeq
  <2>3. PICK g : g = [i \in 1 .. N |-> h[i]]
    OBVIOUS
  <2>4. ASSUME NEW i \in 1 .. N PROVE g[i] = IF i = 1 THEN s[i] ELSE g[i - 1] \o s[i]
    <3>1. PICK j \in Nat : i = j + 1 /\ j < N /\ j = i - 1
      <4>1. i - 1 \in Nat /\ i = (i - 1) + 1 /\ i - 1 < N
        BY <1>1
      <4> QED BY <4>1
    <3>2. h[i] = h[j] \o s[i]
      BY <1>5, <3>1
    <3>3. CASE j = 0
      <4>1. h[i] = <<>> \o s[i] /\ s[i] \in Seq(T)
        BY <1>1, <1>5, <3>2, <3>3
      <4>2. h[i] = s[i]
        BY <4>1, ConcatEmptySeq
      <4> QED BY <2>3, <3>1, <3>3, <4>2
    <3>4. CASE j # 0
      <4>1. j \in 1 .. N /\ i # 1
        BY <1>1, <3>1, <3>4
      <4> QED BY <2>3, <3>1, <3>2, <4>1
    <3> QED BY <3>3, <3>4
  <2>5. Rec(g)
    BY <2>3, <2>4
  <2>6. Rec(k)
    <3> HIDE DEF Rec
    <3> QED BY <2>1, <2>5
  <2> DEFINE Q == {i \in Nat : i < N => k[i + 1] = g[i + 1]}
  <2>7. 0 \in Q
    BY <1>8, <2>4, <2>6
  <2>8. ASSUME NEW i \in Nat, i \in Q PROVE i + 1 \in Q
    <3> SUFFICES ASSUME i + 1 < N PROVE k[i + 1 + 1] = g[i + 1 + 1]
      OBVIOUS
    <3>1. PICK j \in 1 .. N : j = i + 1 + 1 /\ j # 1 /\ j - 1 = i + 1
      BY <1>1
    <3>2. k[j] = k[i + 1] \o s[j]
      BY <2>6, <3>1
    <3>3. g[j] = g[i + 1] \o s[j]
      BY <2>4, <3>1
    <3>4. k[i + 1] = g[i + 1]
      BY <1>1, <2>8
    <3> QED BY <3>1, <3>2, <3>3, <3>4
  <2>9. \A i \in Nat : i \in Q
    <3> HIDE DEF Q
    <3> QED BY <2>7, <2>8, Inductive
  <2>10. k[N] = g[N]
    <3>1. PICK j \in Nat : j + 1 = N /\ j < N
      <4>1. N - 1 \in Nat /\ N - 1 + 1 = N /\ N - 1 < N
        BY <1>1, <1>8
      <4> QED BY <4>1
    <3> QED BY <2>9, <3>1
  <2>11. g[N] = h[N]
    BY <1>1, <1>8, <2>3
  <2> QED BY <1>1, <1>6, <2>2, <2>10, <2>11
<1> QED BY <1>7, <1>8

Agree(s, t, n) == n <= Len(s) /\ n <= Len(t) /\ \A i \in 1 .. n : s[i] = t[i]

\* Where two sequences agree so do their flattenings.
LEMMA FlatUnique ==
  ASSUME NEW T, NEW s \in Seq(Seq(T)), NEW t \in Seq(Seq(T)), NEW h, NEW k, IsFlat(h, s, T), IsFlat(k, t, T),
         NEW n \in Nat, Agree(s, t, n)
  PROVE  h[n] = k[n]
<1>1. PICK N \in Nat, M \in Nat : N = Len(s) /\ M = Len(t) /\ n <= N /\ n <= M
  BY LenProperties DEF Agree
<1> DEFINE S == {i \in Nat : i <= n => h[i] = k[i]}
<1>2. 0 \in S
  BY DEF IsFlat
<1>3. ASSUME NEW i \in Nat, i \in S PROVE i + 1 \in S
  <2> SUFFICES ASSUME i + 1 <= n PROVE h[i + 1] = k[i + 1]
    OBVIOUS
  <2>1. i < N /\ i < M /\ i <= n /\ i + 1 \in 1 .. n
    BY <1>1
  <2>2. h[i + 1] = h[i] \o s[i + 1] /\ k[i + 1] = k[i] \o t[i + 1]
    BY <1>1, <2>1 DEF IsFlat
  <2>3. h[i] = k[i] /\ s[i + 1] = t[i + 1]
    BY <1>3, <2>1 DEF Agree
  <2> QED BY <2>2, <2>3
<1>4. \A i \in Nat : i \in S
  <2> HIDE DEF S
  <2> QED BY <1>2, <1>3, Inductive
<1> QED BY <1>4

\* A flattened sequence is a sequence, and the empty one flattens to itself.
LEMMA FlatType ==
  ASSUME NEW T, NEW s \in Seq(Seq(T))
  PROVE  FlattenSeq(s) \in Seq(T) /\ (s = <<>> => FlattenSeq(s) = <<>>)
<1>1. PICK h : IsFlat(h, s, T) /\ FlattenSeq(s) = h[Len(s)]
  BY FlatUnfolds
<1>2. Len(s) \in Nat /\ (s = <<>> => Len(s) = 0)
  BY LenProperties, EmptySeq
<1> QED BY <1>1, <1>2 DEF IsFlat

\* One more sequence at the end.
LEMMA FlatAppend ==
  ASSUME NEW T, NEW s \in Seq(Seq(T)), NEW x \in Seq(T)
  PROVE  FlattenSeq(Append(s, x)) = FlattenSeq(s) \o x
<1>1. PICK t \in Seq(Seq(T)), N \in Nat :
        /\ t = Append(s, x) /\ N = Len(s) /\ Len(t) = N + 1 /\ t[N + 1] = x /\ \A i \in 1 .. N : s[i] = t[i]
  <2>1. PICK t : t = Append(s, x)
    OBVIOUS
  <2>2. PICK N \in Nat : N = Len(s)
    BY LenProperties
  <2>3. t \in Seq(Seq(T)) /\ Len(t) = N + 1 /\ t[N + 1] = x /\ \A i \in 1 .. N : s[i] = t[i]
    BY <2>1, <2>2, AppendProperties
  <2> QED BY <2>1, <2>2, <2>3
<1>2. PICK h, k : /\ IsFlat(h, s, T) /\ FlattenSeq(s) = h[N]
                  /\ IsFlat(k, t, T) /\ FlattenSeq(t) = k[N + 1]
  BY <1>1, FlatUnfolds, ZenonT(30)
<1>3. h[N] = k[N]
  <2>1. Agree(s, t, N)
    BY <1>1 DEF Agree
  <2>2. IsFlat(h, s, T) /\ IsFlat(k, t, T)
    BY <1>2
  <2> QED BY <2>1, <2>2, FlatUnique
<1>4. k[N + 1] = k[N] \o x
  <2>1. N < Len(t)
    BY <1>1
  <2> QED BY <1>1, <1>2, <2>1 DEF IsFlat
<1> QED BY <1>1, <1>2, <1>3, <1>4

(* Which of two concatenations comes first does not matter. *)
Regroups(T) == \A a, b, c \in Seq(T) : (a \o b) \o c = a \o (b \o c)

LEMMA ConcatsAgree == \A T : Regroups(T)
  BY ConcatAssociative DEF Regroups

\* The first sequence taken off.
LEMMA FlatHead ==
  ASSUME NEW T, NEW s \in Seq(Seq(T)), s # <<>>
  PROVE  FlattenSeq(s) = Head(s) \o FlattenSeq(Tail(s))
<1>0. Regroups(T)
  BY ConcatsAgree
<1>1. PICK t \in Seq(Seq(T)), x \in Seq(T), M \in Nat :
        /\ t = Tail(s) /\ x = Head(s) /\ s[1] = x /\ M = Len(t) /\ Len(s) = M + 1
        /\ \A i \in 1 .. M : t[i] = s[i + 1] /\ t[i] \in Seq(T)
  <2>1. /\ Head(s) \in Seq(T) /\ Tail(s) \in Seq(Seq(T)) /\ Len(Tail(s)) = Len(s) - 1 /\ Len(s) \in Nat
        /\ Len(Tail(s)) \in Nat /\ \A i \in 1 .. Len(Tail(s)) : Tail(s)[i] = s[i + 1]
    BY HeadTailProperties, LenProperties
  <2>2. \A i \in 1 .. Len(Tail(s)) : Tail(s)[i] \in Seq(T)
    BY <2>1, ElementOfSeq
  <2>3. Head(s) = s[1] /\ Len(s) = Len(Tail(s)) + 1
    BY <2>1
  <2> QED BY <2>1, <2>2, <2>3
<1>2. PICK h, k : /\ IsFlat(h, s, T) /\ FlattenSeq(s) = h[M + 1]
                  /\ IsFlat(k, t, T) /\ FlattenSeq(t) = k[M]
  BY <1>1, FlatUnfolds, ZenonT(30)
<1> DEFINE S == {i \in Nat : i <= M => h[i + 1] = x \o k[i]}
<1>3. 0 \in S
  <2>1. h[0 + 1] = h[0] \o s[0 + 1]
    <3>1. 0 \in Nat /\ 0 < Len(s)
      BY <1>1
    <3> QED BY <1>2, <3>1 DEF IsFlat
  <2>2. h[0 + 1] = <<>> \o x /\ k[0] = <<>>
    <3>1. h[0] = <<>> /\ k[0] = <<>> /\ s[0 + 1] = x
      BY <1>1, <1>2 DEF IsFlat
    <3> QED BY <2>1, <3>1
  <2>3. <<>> \o x = x /\ x \o <<>> = x
    BY ConcatEmptySeq
  <2> QED BY <2>2, <2>3
<1>4. ASSUME NEW i \in Nat, i \in S PROVE i + 1 \in S
  <2> SUFFICES ASSUME i + 1 <= M PROVE h[i + 1 + 1] = x \o k[i + 1]
    OBVIOUS
  <2>1. i + 1 \in Nat /\ i + 1 < Len(s) /\ i < Len(t) /\ i + 1 \in 1 .. M /\ i <= M
    BY <1>1
  <2>2. h[i + 1 + 1] = h[i + 1] \o s[i + 1 + 1] /\ k[i + 1] = k[i] \o t[i + 1]
    BY <1>2, <2>1 DEF IsFlat
  <2>3. PICK y \in Seq(T), z \in Seq(T) : y = k[i] /\ z = t[i + 1] /\ z = s[i + 1 + 1]
    BY <1>1, <1>2, <2>1 DEF IsFlat
  <2>4. h[i + 1] = x \o y
    BY <1>4, <2>1, <2>3
  <2>5. (x \o y) \o z = x \o (y \o z)
    BY <1>0 DEF Regroups
  <2> QED BY <2>2, <2>3, <2>4, <2>5
<1>5. \A i \in Nat : i \in S
  <2> HIDE DEF S
  <2> QED BY <1>3, <1>4, Inductive
<1>6. h[M + 1] = x \o k[M]
  BY <1>5, SMTT(30)
<1> QED BY <1>1, <1>2, <1>6
=============================================================================
