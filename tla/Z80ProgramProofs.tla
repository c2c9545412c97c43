-------------------------- MODULE Z80ProgramProofs --------------------------
(***************************************************************************)
(* The analyser and the program it has looked at, for every ROM, every     *)
(* start address and every set of registers.                               *)
(***************************************************************************)
EXTENDS Z80Program, FiniteSetTheorems, SequenceTheorems,
        WellFoundedInduction, TLAPS

-----------------------------------------------------------------------------
(***************************************************************************)
(* Sorting by counting.                                                    *)
(***************************************************************************)

\* In a chain of subsets of S, one for each element and no two alike, the sizes are the
\* numbers from 1 to that of S: what is sorted by such a count has a place for each.
LEMMA Ranks ==
  ASSUME NEW S, IsFiniteSet(S), NEW f \in [S -> SUBSET S],
         \A a \in S : a \in f[a],
         \A a \in S, b \in S : f[a] \subseteq f[b] \/ f[b] \subseteq f[a],
         \A a \in S, b \in S : f[a] = f[b] => a = b
  PROVE  /\ \A a \in S : Cardinality(f[a]) \in 1..Cardinality(S)
         /\ \A k \in 1..Cardinality(S) : \E a \in S : Cardinality(f[a]) = k
         /\ \A a \in S, b \in S : Cardinality(f[a]) = Cardinality(f[b]) => a = b
         /\ \A a \in S, b \in S :
              f[a] \subseteq f[b] /\ a # b => Cardinality(f[a]) < Cardinality(f[b])
<1> DEFINE N == Cardinality(S)
           g == [a \in S |-> Cardinality(f[a])]
<1>1. N \in Nat
  BY FS_CardinalityType
<1>2. ASSUME NEW a \in S
      PROVE  IsFiniteSet(f[a]) /\ Cardinality(f[a]) \in Nat /\ Cardinality(f[a]) \in 1..N
  <2>1. f[a] \in SUBSET S
    OBVIOUS
  <2>2. IsFiniteSet(f[a]) /\ Cardinality(f[a]) <= N
    BY <2>1, FS_Subset
  <2>3. Cardinality(f[a]) \in Nat
    BY <2>2, FS_CardinalityType
  <2>4. Cardinality(f[a]) # 0
    BY <2>2, FS_EmptySet
  <2> QED
    BY <1>1, <2>2, <2>3, <2>4
<1>3. ASSUME NEW a \in S, NEW b \in S, f[a] \subseteq f[b], a # b
      PROVE  Cardinality(f[a]) < Cardinality(f[b])
  <2>1. f[a] # f[b]
    BY <1>3
  <2>2. Cardinality(f[a]) <= Cardinality(f[b]) /\ Cardinality(f[a]) # Cardinality(f[b])
    BY <1>2, <1>3, <2>1, FS_Subset
  <2> QED
    BY <1>2, <2>2
<1>4. ASSUME NEW a \in S, NEW b \in S, Cardinality(f[a]) = Cardinality(f[b])
      PROVE  a = b
  <2>1. Cardinality(f[a]) \in Nat
    BY <1>2
  <2> QED
    BY <1>3, <1>4, <2>1
<1>5. g \in Injection(S, 1..N)
  <2>1. g \in [S -> 1..N]
    BY <1>2
  <2>2. \A a \in S, b \in S : g[a] = g[b] => a = b
    BY <1>4
  <2> QED
    BY <2>1, <2>2 DEF Injection, IsInjective
<1>6. IsFiniteSet(1..N) /\ Cardinality(1..N) = N
  BY <1>1, FS_Interval
<1>7. g \in Surjection(S, 1..N)
  BY <1>5, <1>6, FS_Injection
<1>8. ASSUME NEW k \in 1..N
      PROVE  \E a \in S : Cardinality(f[a]) = k
  <2>1. \E a \in S : g[a] = k
    BY <1>7 DEF Surjection
  <2> QED
    BY <2>1
<1> QED
  BY <1>2, <1>3, <1>4, <1>8

\* The indices of a list are as many as it is long.
LEMMA Indices ==
  ASSUME NEW n \in Nat
  PROVE  IsFiniteSet(1..n) /\ Cardinality(1..n) = n
BY FS_Interval

\* sort() keeps the entries and puts them in order.
LEMMA SortedIsSorted ==
  ASSUME NEW s \in Seq(Nat)
  PROVE  /\ Sorted(s) \in Seq(Nat) /\ Len(Sorted(s)) = Len(s)
         /\ ToSet(Sorted(s)) = ToSet(s)
         /\ \A i \in 1..Len(s), j \in 1..Len(s) : i < j => Sorted(s)[i] <= Sorted(s)[j]
<1> DEFINE S == DOMAIN s
           f == [i \in S |-> { j \in S : s[j] < s[i] \/ (s[j] = s[i] /\ j <= i) }]
           nth(k) == CHOOSE i \in S : Place(s, i) = k
<1>1. S = 1..Len(s) /\ Len(s) \in Nat /\ \A i \in S : s[i] \in Nat
  OBVIOUS
<1>2. IsFiniteSet(S) /\ Cardinality(S) = Len(s)
  BY <1>1, Indices
<1>3. \A i \in S : i \in f[i]
  BY <1>1
<1>4. \A i \in S, j \in S : f[i] \subseteq f[j] \/ f[j] \subseteq f[i]
  <2>1. SUFFICES ASSUME NEW i \in S, NEW j \in S
                 PROVE  f[i] \subseteq f[j] \/ f[j] \subseteq f[i]
    OBVIOUS
  <2>2. CASE s[i] < s[j] \/ (s[i] = s[j] /\ i <= j)
    BY <1>1, <2>2
  <2>3. CASE s[j] < s[i] \/ (s[i] = s[j] /\ j <= i)
    BY <1>1, <2>3
  <2> QED
    BY <1>1, <2>2, <2>3
<1>5. \A i \in S, j \in S : f[i] = f[j] => i = j
  <2>1. SUFFICES ASSUME NEW i \in S, NEW j \in S, f[i] = f[j]
                 PROVE  i = j
    OBVIOUS
  <2>2. i \in f[j] /\ j \in f[i]
    BY <1>3, <2>1
  <2> QED
    BY <1>1, <2>2
<1>6. f \in [S -> SUBSET S]
  OBVIOUS
<1>7. \A i \in S : Place(s, i) = Cardinality(f[i])
  BY DEF Place
<1> HIDE DEF f, S
<1>8. /\ \A i \in S : Place(s, i) \in 1..Len(s)
      /\ \A k \in 1..Len(s) : \E i \in S : Place(s, i) = k
      /\ \A i \in S, j \in S : f[i] \subseteq f[j] /\ i # j => Place(s, i) < Place(s, j)
  <2>1. /\ \A i \in S : Cardinality(f[i]) \in 1..Cardinality(S)
        /\ \A k \in 1..Cardinality(S) : \E i \in S : Cardinality(f[i]) = k
        /\ \A i \in S, j \in S :
             f[i] \subseteq f[j] /\ i # j => Cardinality(f[i]) < Cardinality(f[j])
    BY <1>2, <1>3, <1>4, <1>5, <1>6, Ranks
  <2> QED
    BY <1>2, <1>7, <2>1
<1>9. \A k \in 1..Len(s) : nth(k) \in S /\ Place(s, nth(k)) = k
  BY <1>8
<1>10. \A i \in S : nth(Place(s, i)) = i
  <2>1. \A i \in S, j \in S : Place(s, i) = Place(s, j) => i = j
    BY <1>2, <1>3, <1>4, <1>5, <1>6, <1>7, Ranks
  <2> QED
    BY <1>8, <1>9, <2>1
<1> HIDE DEF nth
<1>11. /\ Len(Sorted(s)) = Len(s) /\ Sorted(s) \in Seq(Nat)
       /\ \A k \in 1..Len(s) : Sorted(s)[k] = s[nth(k)]
  <2>1. Sorted(s) = [k \in 1..Len(s) |-> s[nth(k)]]
    BY DEF Sorted, nth, S
  <2>2. Sorted(s) \in [1..Len(s) -> Nat] /\ Len(s) \in Nat
    BY <1>1, <1>9, <2>1
  <2>3. Sorted(s) \in Seq(Nat)
    BY <2>2
  <2>4. Len(Sorted(s)) = Len(s)
    BY <1>1, <2>1
  <2>5. \A k \in 1..Len(s) : Sorted(s)[k] = s[nth(k)]
    BY <2>1, Zenon
  <2> QED
    BY <2>3, <2>4, <2>5
<1>12. ToSet(Sorted(s)) = ToSet(s)
  <2>1. ASSUME NEW x \in ToSet(s) PROVE x \in ToSet(Sorted(s))
    <3>1. PICK i \in S : x = s[i]
      BY DEF ToSet, S
    <3>2. /\ Place(s, i) \in 1..Len(s) /\ Place(s, i) \in DOMAIN Sorted(s)
          /\ Sorted(s)[Place(s, i)] = x
      BY <1>8, <1>10, <1>11, <3>1
    <3> QED
      BY <3>2 DEF ToSet
  <2>2. ASSUME NEW x \in ToSet(Sorted(s)) PROVE x \in ToSet(s)
    <3>1. DOMAIN Sorted(s) = 1..Len(s)
      BY <1>11
    <3>2. PICK k \in 1..Len(s) : x = Sorted(s)[k]
      BY <3>1, Zenon DEF ToSet
    <3>3. nth(k) \in S /\ x = s[nth(k)]
      BY <1>9, <1>11, <3>2
    <3> QED
      BY <3>3 DEF ToSet, S
  <2> QED
    BY <2>1, <2>2
<1>13. ASSUME NEW i \in 1..Len(s), NEW j \in 1..Len(s), i < j
       PROVE  Sorted(s)[i] <= Sorted(s)[j]
  <2>1. nth(i) \in S /\ nth(j) \in S /\ Place(s, nth(i)) = i /\ Place(s, nth(j)) = j
    BY <1>9
  <2>2. ~(f[nth(j)] \subseteq f[nth(i)])
    BY <1>8, <1>13, <2>1
  <2>3. f[nth(i)] \subseteq f[nth(j)]
    BY <1>4, <2>1, <2>2
  <2>4. nth(i) \in f[nth(j)]
    BY <1>3, <2>1, <2>3
  <2>5. s[nth(i)] <= s[nth(j)]
    BY <1>1, <2>1, <2>4 DEF f
  <2> QED
    BY <1>11, <2>5
<1> QED
  BY <1>11, <1>12, <1>13

\* Of some numbers one is the least.
LEMMA Least ==
  ASSUME NEW T \in SUBSET Nat, T # {}
  PROVE  \E x \in T : \A y \in T : x <= y
<1> DEFINE R == OpToRel(<, Nat)
<1>1. \A x \in Nat, y \in Nat : <<x, y>> \in R <=> x < y
  BY DEF OpToRel
<1>2. IsWellFoundedOn(R, Nat)
  BY NatLessThanWellFounded
<1> HIDE DEF R
<1>3. PICK x \in T : \A y \in T : ~(<<y, x>> \in R)
  BY <1>2, WFMin
<1>4. \A y \in T : x <= y
  <2>1. SUFFICES ASSUME NEW y \in T PROVE x <= y
    OBVIOUS
  <2>2. x \in Nat /\ y \in Nat /\ ~(<<y, x>> \in R)
    BY <1>3
  <2>3. ~(y < x)
    BY <1>1, <2>2
  <2> QED
    BY <2>2, <2>3
<1> QED
  BY <1>4

\* The loop that follows sort() leaves one entry of each kind.
LEMMA UniqueIsExact ==
  ASSUME NEW s \in Seq(Nat)
  PROVE  /\ Unique(s) \in Seq(Nat)
         /\ ToSet(Unique(s)) = ToSet(s)
         /\ \A k \in 1..Len(Unique(s)), l \in 1..Len(Unique(s)) :
              k < l => Unique(s)[k] < Unique(s)[l]
<1> DEFINE q     == Sorted(s)
           keep  == { i \in DOMAIN s : i = 1 \/ q[i] # q[i - 1] }
           f     == [i \in keep |-> { j \in keep : j <= i }]
           n     == Cardinality(keep)
           nth(k) == CHOOSE i \in keep : Cardinality({ j \in keep : j <= i }) = k
           u     == Unique(s)
<1>1. /\ Len(s) \in Nat /\ DOMAIN s = 1..Len(s)
      /\ q \in Seq(Nat) /\ DOMAIN q = 1..Len(s) /\ \A i \in 1..Len(s) : q[i] \in Nat
      /\ ToSet(q) = ToSet(s)
      /\ \A i \in 1..Len(s), j \in 1..Len(s) : i < j => q[i] <= q[j]
  <2>1. q \in Seq(Nat) /\ Len(q) = Len(s)
    BY SortedIsSorted
  <2> HIDE DEF q
  <2>2. DOMAIN q = 1..Len(s) /\ \A i \in 1..Len(s) : q[i] \in Nat
    BY <2>1
  <2>3. Len(s) \in Nat /\ DOMAIN s = 1..Len(s)
    OBVIOUS
  <2>4. /\ ToSet(q) = ToSet(s)
        /\ \A i \in 1..Len(s), j \in 1..Len(s) : i < j => q[i] <= q[j]
    BY SortedIsSorted DEF q
  <2> QED
    BY <2>1, <2>2, <2>3, <2>4
<1>2. u = [k \in 1..n |-> q[nth(k)]]
  BY DEF Unique
<1> HIDE DEF q, u
<1>3. keep \subseteq 1..Len(s)
  BY <1>1
<1>4. IsFiniteSet(keep) /\ n \in Nat
  <2>1. IsFiniteSet(1..Len(s))
    BY <1>1, Indices
  <2> QED
    BY <1>3, <2>1, FS_Subset, FS_CardinalityType
<1>5. f \in [keep -> SUBSET keep]
  OBVIOUS
<1>6. /\ \A a \in keep : a \in f[a]
      /\ \A a \in keep, b \in keep : f[a] \subseteq f[b] \/ f[b] \subseteq f[a]
      /\ \A a \in keep, b \in keep : f[a] = f[b] => a = b
  <2>1. \A a \in keep, j \in keep : j \in f[a] <=> j <= a
    OBVIOUS
  <2>2. keep \subseteq Int
    BY <1>3
  <2> HIDE DEF f, keep
  <2>3. \A a \in keep : a \in f[a]
    <3>1. \A a \in keep : a <= a
      BY <2>2
    <3> QED
      BY <2>1, <3>1
  <2>4. \A a \in keep, b \in keep : a <= b => f[a] \subseteq f[b]
    BY <1>5, <2>1, <2>2
  <2>5. \A a \in keep, b \in keep : a <= b \/ b <= a
    BY <2>2
  <2>6. \A a \in keep, b \in keep : f[a] = f[b] => a = b
    BY <2>1, <2>2, <2>3
  <2> QED
    BY <2>3, <2>4, <2>5, <2>6
<1>7. /\ \A a \in keep : Cardinality(f[a]) \in 1..n
      /\ \A k \in 1..n : \E a \in keep : Cardinality(f[a]) = k
      /\ \A a \in keep, b \in keep : Cardinality(f[a]) = Cardinality(f[b]) => a = b
      /\ \A a \in keep, b \in keep :
           f[a] \subseteq f[b] /\ a # b => Cardinality(f[a]) < Cardinality(f[b])
  <2> HIDE DEF f, keep
  <2> QED
    BY <1>4, <1>5, <1>6, Ranks
<1>8. \A a \in keep : f[a] = { j \in keep : j <= a }
  OBVIOUS
<1>9. \A k \in 1..n : nth(k) \in keep /\ Cardinality(f[nth(k)]) = k
  <2> HIDE DEF f, keep
  <2> QED
    BY <1>7, <1>8
<1>10. \A a \in keep : Cardinality(f[a]) \in 1..n /\ nth(Cardinality(f[a])) = a
  <2> HIDE DEF f, keep, nth
  <2> QED
    BY <1>7, <1>9
<1> HIDE DEF n, nth
<1>11. \A k \in 1..n, l \in 1..n : k < l => nth(k) < nth(l)
  <2>1. SUFFICES ASSUME NEW k \in 1..n, NEW l \in 1..n, k < l
                 PROVE  nth(k) < nth(l)
    OBVIOUS
  <2>2. /\ nth(k) \in keep /\ nth(l) \in keep
        /\ Cardinality(f[nth(k)]) = k /\ Cardinality(f[nth(l)]) = l
    BY <1>9, <2>1, Zenon
  <2>4. nth(k) \in Int /\ nth(l) \in Int
    <3> HIDE DEF keep
    <3>1. nth(k) \in 1..Len(s) /\ nth(l) \in 1..Len(s)
      BY <1>3, <2>2, Zenon
    <3> QED
      BY <1>1, <3>1
  <2>3. CASE nth(l) <= nth(k)
    <3>1. f[nth(l)] \subseteq f[nth(k)]
      BY <2>2, <2>3, <2>4
    <3> HIDE DEF f, keep
    <3>2. l <= k
      BY <1>4, <1>7, <2>2, <3>1
    <3> QED
      BY <1>4, <2>1, <3>2
  <2> QED
    BY <2>3, <2>4
<1>12. ASSUME NEW a \in keep, NEW b \in keep, a < b
       PROVE  q[a] < q[b]
  <2>1. /\ a \in 1..Len(s) /\ b \in 1..Len(s) /\ b - 1 \in 1..Len(s)
        /\ q[b] # q[b - 1]
    BY <1>1, <1>3, <1>12
  <2>2. q[b - 1] <= q[b] /\ q[a] <= q[b - 1]
    <3>1. CASE a = b - 1
      BY <1>1, <2>1, <3>1
    <3>2. CASE a # b - 1
      <4>1. a < b - 1
        <5>1. \A i \in 1..Len(s), j \in 1..Len(s) : i < j /\ i # j - 1 => i < j - 1
          BY <1>1
        <5> QED
          BY <1>12, <2>1, <3>2, <5>1, Zenon
      <4>2. b - 1 < b
        BY <1>1, <2>1
      <4> QED
        BY <1>1, <2>1, <4>1, <4>2, Zenon
    <3> QED
      BY <3>1, <3>2
  <2>3. q[a] \in Nat /\ q[b] \in Nat /\ q[b - 1] \in Nat
    BY <1>1, <2>1
  <2>4. \A x, y, w \in Nat : x <= w /\ w <= y /\ y # w => x < y
    OBVIOUS
  <2> QED
    BY <2>1, <2>2, <2>3, <2>4
<1>13. \A i \in 1..Len(s) : \E a \in keep : q[a] = q[i]
  <2>1. SUFFICES ASSUME NEW i \in 1..Len(s) PROVE \E a \in keep : q[a] = q[i]
    OBVIOUS
  <2> DEFINE T == { j \in 1..Len(s) : q[j] = q[i] }
  <2>2. i \in T /\ T \in SUBSET Nat
    BY <1>1
  <2>3. PICK a \in T : \A y \in T : a <= y
    BY <2>2, Least
  <2>4. a \in 1..Len(s) /\ q[a] = q[i]
    OBVIOUS
  <2>5. a = 1 \/ q[a] # q[a - 1]
    BY <1>1, <2>3, <2>4
  <2>6. a \in keep
    BY <1>1, <2>4, <2>5
  <2> QED
    BY <2>4, <2>6
<1> HIDE DEF keep, f
<1>14. /\ u \in Seq(Nat) /\ Len(u) = n /\ DOMAIN u = 1..n
       /\ \A k \in 1..n : u[k] = q[nth(k)]
  <2>1. \A k \in 1..n : q[nth(k)] \in Nat
    BY <1>1, <1>3, <1>9
  <2>2. u \in [1..n -> Nat]
    BY <1>2, <2>1
  <2>3. u \in Seq(Nat) /\ Len(u) = n
    BY <1>4, <2>2
  <2>4. \A k \in 1..n : u[k] = q[nth(k)]
    BY <1>2, Zenon
  <2> QED
    BY <2>2, <2>3, <2>4
<1>15. ToSet(u) = ToSet(q)
  <2>1. ASSUME NEW x \in ToSet(u) PROVE x \in ToSet(q)
    <3>1. PICK k \in 1..n : x = u[k]
      BY <1>14, Zenon DEF ToSet
    <3>2. nth(k) \in DOMAIN q /\ x = q[nth(k)]
      BY <1>1, <1>3, <1>9, <1>14, <3>1
    <3> QED
      BY <3>2 DEF ToSet
  <2>2. ASSUME NEW x \in ToSet(q) PROVE x \in ToSet(u)
    <3>1. PICK i \in 1..Len(s) : x = q[i]
      BY <1>1, Zenon DEF ToSet
    <3>2. PICK a \in keep : x = q[a]
      BY <1>13, <3>1
    <3>3. /\ Cardinality(f[a]) \in DOMAIN u
          /\ u[Cardinality(f[a])] = x
      BY <1>10, <1>14, <3>2
    <3> QED
      BY <3>3 DEF ToSet
  <2> QED
    BY <2>1, <2>2
<1>16. ASSUME NEW k \in 1..n, NEW l \in 1..n, k < l
       PROVE  u[k] < u[l]
  <2>1. nth(k) \in keep /\ nth(l) \in keep /\ nth(k) < nth(l)
    BY <1>9, <1>11, <1>16
  <2> QED
    BY <1>12, <1>14, <2>1
<1> QED
  BY <1>1, <1>14, <1>15, <1>16 DEF u

\* What joins two lists has the entries of both.
LEMMA Joined ==
  ASSUME NEW X, NEW s \in Seq(X), NEW t \in Seq(X)
  PROVE  s \o t \in Seq(X) /\ ToSet(s \o t) = ToSet(s) \cup ToSet(t)
<1>1. /\ s \o t \in Seq(X) /\ Len(s \o t) = Len(s) + Len(t)
      /\ \A i \in 1..(Len(s) + Len(t)) :
           (s \o t)[i] = IF i <= Len(s) THEN s[i] ELSE t[i - Len(s)]
  BY ConcatProperties
<1>2. /\ Len(s) \in Nat /\ Len(t) \in Nat
      /\ DOMAIN s = 1..Len(s) /\ DOMAIN t = 1..Len(t)
      /\ DOMAIN (s \o t) = 1..(Len(s) + Len(t))
  BY <1>1
<1>3. ASSUME NEW i \in DOMAIN s PROVE s[i] \in ToSet(s \o t)
  <2>1. i \in DOMAIN (s \o t) /\ (s \o t)[i] = s[i]
    BY <1>1, <1>2
  <2> QED
    BY <2>1 DEF ToSet
<1>4. ASSUME NEW i \in DOMAIN t PROVE t[i] \in ToSet(s \o t)
  <2>1. /\ i + Len(s) \in 1..(Len(s) + Len(t)) /\ ~(i + Len(s) <= Len(s))
        /\ (i + Len(s)) - Len(s) = i
    BY <1>2
  <2>2. i + Len(s) \in DOMAIN (s \o t) /\ (s \o t)[i + Len(s)] = t[i]
    BY <1>1, <1>2, <2>1
  <2> QED
    BY <2>2 DEF ToSet
<1>5. ASSUME NEW i \in DOMAIN (s \o t) PROVE (s \o t)[i] \in ToSet(s) \cup ToSet(t)
  <2>1. CASE i <= Len(s)
    <3>1. i \in DOMAIN s /\ (s \o t)[i] = s[i]
      BY <1>1, <1>2, <2>1
    <3> QED
      BY <3>1 DEF ToSet
  <2>2. CASE ~(i <= Len(s))
    <3>1. i - Len(s) \in DOMAIN t /\ (s \o t)[i] = t[i - Len(s)]
      BY <1>1, <1>2, <2>2
    <3> QED
      BY <3>1 DEF ToSet
  <2> QED
    BY <2>1, <2>2
<1>6. ToSet(s) \subseteq ToSet(s \o t) /\ ToSet(t) \subseteq ToSet(s \o t)
  BY <1>3, <1>4 DEF ToSet
<1>7. ToSet(s \o t) \subseteq ToSet(s) \cup ToSet(t)
  <2>1. ASSUME NEW x \in ToSet(s \o t) PROVE x \in ToSet(s) \cup ToSet(t)
    <3>1. PICK i \in DOMAIN (s \o t) : x = (s \o t)[i]
      BY DEF ToSet
    <3> QED
      BY <1>5, <3>1
  <2> QED
    BY <2>1
<1> QED
  BY <1>1, <1>6, <1>7

\* A list has its first entry and those of the rest.
LEMMA Taken ==
  ASSUME NEW X, NEW s \in Seq(X), s # <<>>
  PROVE  /\ Head(s) \in X /\ Tail(s) \in Seq(X)
         /\ ToSet(s) = {Head(s)} \cup ToSet(Tail(s))
<1>1. /\ Head(s) \in X /\ Tail(s) \in Seq(X) /\ Len(Tail(s)) = Len(s) - 1
      /\ \A i \in 1..Len(Tail(s)) : Tail(s)[i] = s[i + 1]
  BY HeadTailProperties
<1>2. /\ Len(s) \in Nat /\ Len(s) > 0 /\ Head(s) = s[1] /\ DOMAIN s = 1..Len(s)
      /\ DOMAIN Tail(s) = 1..(Len(s) - 1)
  BY <1>1, EmptySeq
<1>3. ASSUME NEW i \in DOMAIN s PROVE s[i] = Head(s) \/ s[i] \in ToSet(Tail(s))
  <2>1. CASE i = 1
    BY <1>2, <2>1
  <2>2. CASE i # 1
    <3>1. i - 1 \in DOMAIN Tail(s) /\ Tail(s)[i - 1] = s[i]
      BY <1>1, <1>2, <2>2
    <3> QED
      BY <3>1 DEF ToSet
  <2> QED
    BY <2>1, <2>2
<1>4. ASSUME NEW i \in DOMAIN Tail(s) PROVE Tail(s)[i] \in ToSet(s)
  <2>1. i + 1 \in DOMAIN s /\ Tail(s)[i] = s[i + 1]
    BY <1>1, <1>2
  <2> QED
    BY <2>1 DEF ToSet
<1>5. Head(s) \in ToSet(s)
  <2>1. 1 \in DOMAIN s
    BY <1>2
  <2> QED
    BY <1>2, <2>1 DEF ToSet
<1>6. ToSet(Tail(s)) \subseteq ToSet(s)
  BY <1>4 DEF ToSet
<1>7. ToSet(s) \subseteq {Head(s)} \cup ToSet(Tail(s))
  <2>1. ASSUME NEW x \in ToSet(s) PROVE x \in {Head(s)} \cup ToSet(Tail(s))
    <3>1. PICK i \in DOMAIN s : x = s[i]
      BY DEF ToSet
    <3> QED
      BY <1>3, <3>1
  <2> QED
    BY <2>1
<1> QED
  BY <1>1, <1>5, <1>6, <1>7

\* Lists of at most one entry.
LEMMA Few ==
  ASSUME NEW X
  PROVE  /\ <<>> \in Seq(X) /\ ToSet(<<>>) = {}
         /\ \A x \in X : <<x>> \in Seq(X) /\ ToSet(<<x>>) = {x}
<1>1. <<>> \in Seq(X) /\ DOMAIN <<>> = {}
  BY EmptySeq
<1>2. ToSet(<<>>) = {}
  BY <1>1 DEF ToSet
<1>3. ASSUME NEW x \in X PROVE <<x>> \in Seq(X) /\ ToSet(<<x>>) = {x}
  <2>1. <<x>> \in Seq(X) /\ DOMAIN <<x>> = {1} /\ <<x>>[1] = x
    OBVIOUS
  <2> QED
    BY <2>1 DEF ToSet
<1> QED
  BY <1>1, <1>2, <1>3

-----------------------------------------------------------------------------
(***************************************************************************)
(* What the disassembler says of four bytes.                               *)
(***************************************************************************)
Quiet      == PlainAtoB \cup PlainCtoD \cup PlainEtoI \cup PlainLoads \cup PlainLtoN
              \cup PlainNtoR \cup PlainRotations \cup PlainStoU
ByAddress  == {"CALL_cc_nn", "CALL_nn", "JP_cc_nn", "JP_nn"}
ByOffset   == {"DJNZ_d", "JR_cc_d", "JR_d"}
ByRegister == {"JP_HLp", "JP_IXYp", "RET", "RETI", "RETN", "RET_cc"}
Known      == Quiet \cup ByAddress \cup ByOffset \cup ByRegister \cup {"RST_y"}
HalfRows   == {"INC_rIXY", "DEC_rIXY"}

StepFlags   == {"NORMAL", "CONST_JUMP", "REL_JUMP", "INDIRECT_JUMP", "CALL", "RETURN"}
Description == [size : Nat, flags : SUBSET StepFlags, immediate : Int,
                address : Nat, address_next : Nat, address_jump : Nat]

\* A call goes to an address; a return goes on, or where the stack says.
Sensible(flags) ==
  /\ "CALL" \in flags => "CONST_JUMP" \in flags
  /\ "RETURN" \in flags => "NORMAL" \in flags \/ "INDIRECT_JUMP" \in flags

\* The functions of the rows of each table are among the names above.
LEMMA NamesUnprefixed == \A r \in Unprefixed : r.f \in Known /\ r.size \in 1..4
BY DEF Unprefixed, Row, Known, Quiet, ByAddress, ByOffset, ByRegister, PlainAtoB, PlainCtoD,
       PlainEtoI, PlainLoads, PlainLtoN, PlainNtoR, PlainRotations, PlainStoU

\* The same for prefix CB and for DD CB.
LEMMA NamesCB == \A r \in RowsCB \cup RowsDDCB : r.f \in Known /\ r.size \in 1..4
BY DEF RowsCB, RowsDDCB, Row, Known, Quiet, PlainAtoB, PlainNtoR, PlainRotations, PlainStoU

\* The same for prefix ED.
LEMMA NamesED == \A r \in RowsED : r.f \in Known /\ r.size \in 1..4
BY DEF RowsED, Row, Known, Quiet, ByRegister, PlainAtoB, PlainCtoD, PlainEtoI, PlainLoads,
       PlainLtoN, PlainNtoR, PlainRotations, PlainStoU

\* The same for prefixes DD and FD, but for two functions, whose bytes are four.
LEMMA NamesDD ==
  \A r \in RowsDD : /\ r.f \in Known \cup HalfRows /\ r.size \in 1..4
                    /\ r.f \in HalfRows => r.bytes \subseteq {36, 37, 44, 45}
<1>1. \A r \in RowsDD : r.f \in Known \cup HalfRows /\ r.size \in 1..4
  BY DEF RowsDD, Row, Known, HalfRows, Quiet, ByRegister, PlainAtoB, PlainCtoD, PlainEtoI,
         PlainLoads, PlainLtoN, PlainNtoR, PlainRotations, PlainStoU
<1>2. \A r \in RowsDD : r.f \in HalfRows =>
        r.bytes = At(0, {4, 5}, {4}) \/ r.bytes = At(0, {4, 5}, {5})
  BY DEF RowsDD, Row, HalfRows
<1>3. At(0, {4, 5}, {4}) = {36, 44} /\ At(0, {4, 5}, {5}) = {37, 45}
  BY DEF At
<1> QED
  BY <1>1, <1>2, <1>3

Byte == { n \in Int : 0 <= n /\ n <= 255 }

\* A byte, as the model writes it.
LEMMA Bytes255 == Byte = 0..255
BY SMT DEF Byte

\* What there is in a place of each table.
LEMMA RowsThere ==
  ASSUME NEW b \in Byte
  PROVE  /\ op_cb[b] \in RowsCB /\ op_ed[b] \in RowsED /\ op_ddcb[b] \in RowsDDCB
         /\ op_unpref[b] \in Unprefixed \cup {NoEntry}
         /\ op_dd[b] \in RowsDD \cup {NoEntry}
         /\ op_dd[b] # NoEntry => b \in op_dd[b].bytes
<1> DEFINE S == 0..255
<1>1. b \in S
  BY SMT DEF Byte
<1> HIDE DEF S
<1>2. /\ op_cb \in [S -> RowsCB] /\ op_ed \in [S -> RowsED] /\ op_ddcb \in [S -> RowsDDCB]
      /\ op_unpref \in [S -> Unprefixed \cup {NoEntry}]
      /\ op_dd \in [S -> RowsDD \cup {NoEntry}]
      /\ \A c \in S : op_dd[c] # NoEntry => c \in op_dd[c].bytes
  BY TablesAreComplete, Zenon DEF S
<1> QED
  BY <1>1, <1>2

\* The tables of the disassembler.
LEMMA Tables ==
  ASSUME NEW b \in 0..255
  PROVE  /\ \A e \in {od_unpref[b], od_dd[b], od_ed[b], od_cb[b], od_ddcb[b]} :
              /\ e.size \in 0..4
              /\ e = NoEntry \/ e.f \in Known
<1>0. /\ op_cb[b] \in RowsCB /\ op_ed[b] \in RowsED /\ op_ddcb[b] \in RowsDDCB
      /\ op_unpref[b] \in Unprefixed \cup {NoEntry}
      /\ op_dd[b] \in RowsDD \cup {NoEntry}
      /\ op_dd[b] # NoEntry => b \in op_dd[b].bytes
  <2>1. b \in Byte
    BY Bytes255, Zenon
  <2> QED
    BY <2>1, RowsThere, Zenon
<1>1. NoEntry.size = 0
  BY Zenon DEF NoEntry, Row
<1>2. od_cb[b] \in RowsCB /\ od_ed[b] \in RowsED /\ od_ddcb[b] \in RowsDDCB
  BY <1>0, Zenon DEF od_cb, od_ed, od_ddcb
<1>3. od_unpref[b] \in Unprefixed \cup {NoEntry}
  BY <1>0, Zenon DEF od_unpref
<1>4. od_dd[b] = NoEntry \/ (od_dd[b] \in RowsDD /\ od_dd[b].f \in Known)
  <2>1. CASE b \in {36, 37, 44, 45}
    BY <2>1 DEF od_dd
  <2>2. CASE b \notin {36, 37, 44, 45}
    <3>1. od_dd[b] = op_dd[b]
      BY <2>2 DEF od_dd
    <3>2. op_dd[b] = NoEntry \/ (op_dd[b] \in RowsDD /\ b \in op_dd[b].bytes)
      BY <1>0, Zenon
    <3>3. op_dd[b] \in RowsDD => op_dd[b].f \in Known 
                                       \/ op_dd[b].bytes \subseteq {36, 37, 44, 45}
      BY NamesDD, Zenon
    <3> QED
      BY <2>2, <3>1, <3>2, <3>3, Zenon
  <2> QED
    BY <2>1, <2>2
<1>5. ASSUME NEW e \in {od_unpref[b], od_dd[b], od_ed[b], od_cb[b], od_ddcb[b]}
      PROVE  e.size \in 0..4 /\ (e = NoEntry \/ e.f \in Known)
  <2>1. CASE e = NoEntry
    BY <1>1, <2>1
  <2>2. CASE e # NoEntry
    <3>1. e \in Unprefixed \cup RowsCB \cup RowsDDCB \cup RowsED
          \/ (e \in RowsDD /\ e.f \in Known)
      BY <1>2, <1>3, <1>4, <2>2
    <3>2. e.size \in 1..4 /\ e.f \in Known
      BY <3>1, NamesUnprefixed, NamesCB, NamesED, NamesDD
    <3> QED
      BY <3>2
  <2> QED
    BY <2>1, <2>2
<1> QED
  BY <1>5

\* The tables the row of four bytes may come from.
LEMMA TableOf ==
  ASSUME NEW o
  PROVE  /\ Decoded(o) \in {od_unpref[o[0]], od_dd[o[1]], od_ed[o[1]], od_cb[o[1]],
                            od_ddcb[o[3]]}
         /\ opcode_size(o) \in {4, 2, od_dd[o[1]].size, od_unpref[o[0]].size}
<1>1. Decoded(o) \in {od_unpref[o[0]], od_dd[o[1]], od_ed[o[1]], od_cb[o[1]], od_ddcb[o[3]]}
  BY SMT DEF Decoded, CB, DD, ED, FD
<1>2. opcode_size(o) \in {4, 2, od_dd[o[1]].size, od_unpref[o[0]].size}
  BY SMT DEF opcode_size, CB, DD, ED, FD
<1> QED
  BY <1>1, <1>2

\* The row of four bytes.
LEMMA RowOfBytes ==
  ASSUME NEW o \in [0..3 -> 0..255]
  PROVE  /\ Decoded(o) = NoEntry \/ Decoded(o).f \in Known
         /\ opcode_size(o) \in 0..4
<1> DEFINE S == 0..255
<1>1. o[0] \in S /\ o[1] \in S /\ o[3] \in S
  <2>1. o \in [0..3 -> S]
    BY Zenon
  <2> HIDE DEF S
  <2> QED
    BY <2>1
<1>2. /\ Decoded(o) \in {od_unpref[o[0]], od_dd[o[1]], od_ed[o[1]], od_cb[o[1]],
                         od_ddcb[o[3]]}
      /\ opcode_size(o) \in {4, 2, od_dd[o[1]].size, od_unpref[o[0]].size}
  <2> HIDE DEF S
  <2> QED
    BY TableOf
<1> DEFINE fine(e) == e = NoEntry \/ e.f \in Known
<1>4. \A b \in S :
        /\ fine(od_unpref[b]) /\ fine(od_dd[b]) /\ fine(od_ed[b])
        /\ fine(od_cb[b]) /\ fine(od_ddcb[b])
        /\ od_dd[b].size \in 0..4 /\ od_unpref[b].size \in 0..4
  BY Tables, Zenon
<1> HIDE DEF fine, S
<1>5. fine(Decoded(o))
  <2>1. /\ fine(od_unpref[o[0]]) /\ fine(od_dd[o[1]]) /\ fine(od_ed[o[1]])
        /\ fine(od_cb[o[1]]) /\ fine(od_ddcb[o[3]])
    BY <1>1, <1>4
  <2> QED
    BY <1>2, <2>1
<1>6. opcode_size(o) \in 0..4
  <2>1. od_dd[o[1]].size \in 0..4 /\ od_unpref[o[0]].size \in 0..4
    BY <1>1, <1>4
  <2> QED
    BY <1>2, <2>1
<1> QED
  BY <1>5, <1>6 DEF fine

\* The flags of the rows that jump.
LEMMA BranchFlags ==
  ASSUME NEW f \in ByAddress \cup ByOffset \cup ByRegister \cup {"RST_y"}
  PROVE  Branches(f) \in SUBSET StepFlags /\ Sensible(Branches(f))
BY DEF Branches, ByAddress, ByOffset, ByRegister, StepFlags, Sensible

\* Each function is of one kind.
LEMMA Kinds ==
  /\ \A f \in ByAddress : f \notin Quiet /\ f \notin ByOffset /\ f # "RST_y"
  /\ \A f \in ByOffset : f \notin Quiet /\ f \notin ByAddress /\ f # "RST_y"
  /\ \A f \in ByRegister : f \notin Quiet /\ f \notin ByAddress /\ f \notin ByOffset
                         /\ f # "RST_y"
  /\ \A f \in Quiet : f \notin ByAddress /\ f \notin ByOffset /\ f # "RST_y"
  /\ "RST_y" \notin Quiet \cup ByAddress \cup ByOffset
BY DEF Quiet, ByAddress, ByOffset, ByRegister, PlainAtoB, PlainCtoD, PlainEtoI,
       PlainLoads, PlainLtoN, PlainNtoR, PlainRotations, PlainStoU

\* What a row says has the shape of a description.
LEMMA Described ==
  ASSUME NEW o \in [0..3 -> 0..255], NEW f \in Known
  PROVE  Describe(f, o) \in Description /\ Sensible(Describe(f, o).flags)
<1> DEFINE d == [defaultOpcode EXCEPT !.size = opcode_size(o)]
           b == [d EXCEPT !.flags = Branches(f)]
<1>1. /\ o[0] \in 0..255 /\ o[1] \in 0..255 /\ o[2] \in 0..255
      /\ opcode_size(o) \in Nat
  BY RowOfBytes
<1>2. d = [size |-> opcode_size(o), flags |-> {"NORMAL"}, immediate |-> 0,
           address |-> 0, address_next |-> 0, address_jump |-> 0]
  BY DEF defaultOpcode
<1>3. d \in Description /\ d.flags = {"NORMAL"}
  BY <1>1, <1>2 DEF Description, StepFlags
<1> HIDE DEF d
<1>4. CASE f \in Quiet
  <2>1. Describe(f, o) = d
    BY <1>4, Kinds DEF Describe, Quiet, ByAddress, ByOffset, d
  <2> QED
    BY <1>3, <2>1 DEF Sensible
<1>5. CASE f \notin Quiet
  <2>1. Branches(f) \in SUBSET StepFlags /\ Sensible(Branches(f))
    BY <1>5, BranchFlags DEF Known
  <2>2. b \in Description /\ b.flags = Branches(f)
    BY <1>3, <2>1 DEF Description
  <2> HIDE DEF b
  <2>3. \A n \in Nat : /\ [b EXCEPT !.address_jump = n] \in Description
                       /\ [b EXCEPT !.address_jump = n].flags = Branches(f)
    BY <2>2 DEF Description
  <2>4. CASE f \in ByAddress
    <3>1. Describe(f, o) = [d EXCEPT !.flags = Branches(f),
                                     !.address_jump = o[1] + 256 * o[2]]
      BY <2>4, Kinds DEF Describe, Quiet, ByAddress, ByOffset, d
    <3>2. [d EXCEPT !.flags = Branches(f), !.address_jump = o[1] + 256 * o[2]]
            = [b EXCEPT !.address_jump = o[1] + 256 * o[2]]
      BY DEF b
    <3>3. o[1] + 256 * o[2] \in Nat
      <4>1. \A l \in 0..255, h \in 0..255 : l + 256 * h \in Nat
        OBVIOUS
      <4> QED
        BY <1>1, <4>1
    <3>4. Describe(f, o) \in Description /\ Describe(f, o).flags = Branches(f)
      <4> DEFINE n == o[1] + 256 * o[2]
      <4>1. n \in Nat /\ Describe(f, o) = [b EXCEPT !.address_jump = n]
        BY <3>1, <3>2, <3>3, Zenon
      <4> HIDE DEF n
      <4> QED
        BY <2>3, <4>1, Zenon
    <3> QED
      BY <2>1, <3>4
  <2>5. CASE f = "RST_y"
    <3>1. Describe(f, o) = [d EXCEPT !.flags = Branches(f), !.address_jump = 8 * Y(o[0])]
      BY <2>5, Kinds DEF Describe, Quiet, ByAddress, ByOffset, d
    <3>2. [d EXCEPT !.flags = Branches(f), !.address_jump = 8 * Y(o[0])]
            = [b EXCEPT !.address_jump = 8 * Y(o[0])]
      BY DEF b
    <3>3. 8 * Y(o[0]) \in Nat
      BY <1>1 DEF Y
    <3>4. Describe(f, o) \in Description /\ Describe(f, o).flags = Branches(f)
      <4> DEFINE n == 8 * Y(o[0])
      <4>1. n \in Nat /\ Describe(f, o) = [b EXCEPT !.address_jump = n]
        BY <3>1, <3>2, <3>3, Zenon
      <4> HIDE DEF n
      <4> QED
        BY <2>3, <4>1, Zenon
    <3> QED
      BY <2>1, <3>4
  <2>6. CASE f \in ByOffset
    <3>1. Describe(f, o) = [d EXCEPT !.flags = Branches(f), !.immediate = Signed8(o[1])]
      BY <2>6, Kinds DEF Describe, Quiet, ByAddress, ByOffset, d
    <3>2. [d EXCEPT !.flags = Branches(f), !.immediate = Signed8(o[1])]
            = [b EXCEPT !.immediate = Signed8(o[1])]
      BY DEF b
    <3>3. Signed8(o[1]) \in Int
      BY <1>1 DEF Signed8
    <3>5. \A n \in Int : /\ [b EXCEPT !.immediate = n] \in Description
                         /\ [b EXCEPT !.immediate = n].flags = Branches(f)
      BY <2>2 DEF Description
    <3>4. Describe(f, o) \in Description /\ Describe(f, o).flags = Branches(f)
      <4> DEFINE n == Signed8(o[1])
      <4>1. n \in Int /\ Describe(f, o) = [b EXCEPT !.immediate = n]
        BY <3>1, <3>2, <3>3, Zenon
      <4> HIDE DEF n
      <4> QED
        BY <3>5, <4>1, Zenon
    <3> QED
      BY <2>1, <3>4
  <2>7. CASE f \in ByRegister
    <3>1. Describe(f, o) = b
      BY <2>7, Kinds DEF Describe, Quiet, ByAddress, ByOffset, b, d
    <3> QED
      BY <2>1, <2>2, <3>1
  <2> QED
    BY <1>5, <2>4, <2>5, <2>6, <2>7 DEF Known
<1> QED
  BY <1>4, <1>5

\* And so does what is said of any four bytes at any place, but for an address that is
\* taken round 64 KB.
LEMMA DecodedOps ==
  ASSUME NEW o \in [0..3 -> 0..255], NEW pc \in Nat
  PROVE  /\ z80d_decode_op(o, pc).flags \in SUBSET StepFlags
         /\ Sensible(z80d_decode_op(o, pc).flags)
         /\ z80d_decode_op(o, pc).address = pc
         /\ z80d_decode_op(o, pc).address_next \in Nat
         /\ z80d_decode_op(o, pc).address_jump \in Nat
<1> DEFINE e == Decoded(o)
           d == IF e = NoEntry THEN unknown_decode ELSE Describe(e.f, o)
           j == IF "REL_JUMP" \in d.flags THEN Plus(pc, d.immediate + d.size)
                ELSE d.address_jump
<1>1. unknown_decode \in Description /\ Sensible(unknown_decode.flags)
  BY DEF unknown_decode, defaultOpcode, Description, StepFlags, Sensible
<1>2. d \in Description /\ Sensible(d.flags)
  BY <1>1, RowOfBytes, Described
<1>3. z80d_decode_op(o, pc) = [d EXCEPT !.address = pc, !.address_next = Plus(pc, d.size),
                                        !.address_jump = j]
  BY DEF z80d_decode_op
<1>4. Plus(pc, d.size) \in Nat /\ j \in Nat
  BY <1>2 DEF Plus, Word16, Description
<1> HIDE DEF d, j
<1>5. \A x \in Description, a \in Nat, n \in Nat, k \in Nat :
        LET y == [x EXCEPT !.address = a, !.address_next = n, !.address_jump = k]
        IN y.flags = x.flags /\ y.address = a /\ y.address_next = n /\ y.address_jump = k
  BY DEF Description
<1> QED
  BY <1>2, <1>3, <1>4, <1>5 DEF Description

-----------------------------------------------------------------------------
(***************************************************************************)
(* The walk. Its definitions are repeated here over a ROM and a set of     *)
(* addresses, so that they do not change as it goes on.                    *)
(***************************************************************************)
OpOf(r, a)  == z80d_decode_op([i \in 0..3 |-> IF a + i \in DOMAIN r THEN r[a + i] ELSE 0], a)
Nexts(r, h) == {start_addr} \cup UNION { Successors(OpOf(r, a)) : a \in h }
Within(r)   == 0..(Cardinality(DOMAIN r) - 4)
Unsafe(r, h) == { a \in h : "INDIRECT_JUMP" \in OpOf(r, a).flags }
Targets(r, h) ==
  { OpOf(r, a).address_jump : a \in { b \in h : "CALL" \in OpOf(r, b).flags } }
Returning(r, h) == { a \in h : "RETURN" \in OpOf(r, a).flags }

Ascending(s) == \A i \in 1..Len(s), j \in 1..Len(s) : i < j => s[i] < s[j]

\* What the walk keeps: what may follow an address that was looked at has been looked at,
\* waits, or is out of range; nothing else has been; and the lists have what they should.
ZedType ==
  /\ IsFiniteSet(DOMAIN rom) /\ rom \in [DOMAIN rom -> 0..255]
  /\ phase \in {"walk", "print", "done"}
  /\ hit_address \subseteq Nat
  /\ frontier \in Seq(Nat) /\ call_entry \in Seq(Nat) /\ call_return \in Seq(Nat)
ZedWalk ==
  /\ hit_address \cup ToSet(frontier) \subseteq Nexts(rom, hit_address)
  /\ Nexts(rom, hit_address) \cap Within(rom) \subseteq hit_address \cup ToSet(frontier)
  /\ phase # "walk" => frontier = <<>>
  /\ unsafe_jumps = Unsafe(rom, hit_address)
ZedLists ==
  /\ phase # "done" => /\ ToSet(call_entry) = Targets(rom, hit_address)
                       /\ ToSet(call_return) = Returning(rom, hit_address)
  /\ phase = "print" => Ascending(call_entry) /\ Ascending(call_return)
ZedInv == ZedType /\ ZedWalk /\ ZedLists

\* What is said of the bytes at an address of the ROM.
LEMMA OpsOfRom ==
  ASSUME NEW r, r \in [DOMAIN r -> 0..255], NEW a \in Nat
  PROVE  /\ OpOf(r, a).flags \in SUBSET StepFlags /\ Sensible(OpOf(r, a).flags)
         /\ OpOf(r, a).address = a
         /\ OpOf(r, a).address_next \in Nat /\ OpOf(r, a).address_jump \in Nat
<1> DEFINE o == [i \in 0..3 |-> IF a + i \in DOMAIN r THEN r[a + i] ELSE 0]
<1>1. o \in [0..3 -> 0..255]
  OBVIOUS
<1>2. OpOf(r, a) = z80d_decode_op(o, a)
  BY DEF OpOf
<1> HIDE DEF o
<1> QED
  BY <1>1, <1>2, DecodedOps

\* What an operation adds to the three lists.
LEMMA Additions ==
  ASSUME NEW op, Sensible(op.flags),
         op.address \in Nat, op.address_next \in Nat, op.address_jump \in Nat
  PROVE  /\ Followed(op) \in Seq(Nat) /\ ToSet(Followed(op)) = Successors(op)
         /\ Entries(op) \in Seq(Nat)
         /\ ToSet(Entries(op)) = IF "CALL" \in op.flags THEN {op.address_jump} ELSE {}
         /\ Returned(op) \in Seq(Nat)
         /\ ToSet(Returned(op)) = IF "RETURN" \in op.flags THEN {op.address} ELSE {}
<1> DEFINE one(c, x) == IF c THEN <<x>> ELSE <<>>
           set(c, x) == IF c THEN {x} ELSE {}
           n == "NORMAL" \in op.flags
           c == "CONST_JUMP" \in op.flags
           l == "REL_JUMP" \in op.flags
           i == "INDIRECT_JUMP" \in op.flags
<1>1. \A b \in BOOLEAN : \A x \in Nat :
        one(b, x) \in Seq(Nat) /\ ToSet(one(b, x)) = set(b, x)
  BY Few
<1>2. /\ Followed(op) = (one(n, op.address_next) \o one(c, op.address_jump))
                        \o one(l, op.address_jump)
      /\ Returned(op) = IF "RETURN" \in op.flags
                          THEN one(n, op.address) \o one(i, op.address) ELSE <<>>
  BY DEF Followed, Returned
<1>3. n \in BOOLEAN /\ c \in BOOLEAN /\ l \in BOOLEAN /\ i \in BOOLEAN
  OBVIOUS
<1> HIDE DEF one
<1>4. /\ Followed(op) \in Seq(Nat)
      /\ ToSet(Followed(op)) = (set(n, op.address_next) \cup set(c, op.address_jump))
                               \cup set(l, op.address_jump)
  <2> DEFINE s == one(n, op.address_next)
             t == one(c, op.address_jump)
             v == one(l, op.address_jump)
  <2>1. /\ s \in Seq(Nat) /\ t \in Seq(Nat) /\ v \in Seq(Nat)
        /\ ToSet(s) = set(n, op.address_next) /\ ToSet(t) = set(c, op.address_jump)
        /\ ToSet(v) = set(l, op.address_jump)
    BY <1>1, <1>3
  <2> HIDE DEF s, t, v, set
  <2> DEFINE w == s \o t
  <2>0. s \in Seq(Nat) /\ t \in Seq(Nat)
    BY <2>1
  <2>2. w \in Seq(Nat) /\ ToSet(w) = ToSet(s) \cup ToSet(t)
    BY <2>0, Joined
  <2>3. Followed(op) = w \o v
    BY <1>2 DEF s, t, v
  <2> HIDE DEF w
  <2>4. w \o v \in Seq(Nat) /\ ToSet(w \o v) = ToSet(w) \cup ToSet(v)
    BY <2>1, <2>2, Joined
  <2> QED
    BY <2>1, <2>2, <2>3, <2>4
<1>5. ToSet(Followed(op)) = Successors(op)
  BY <1>4 DEF Successors
<1>6. /\ Entries(op) \in Seq(Nat)
      /\ ToSet(Entries(op)) = IF "CALL" \in op.flags THEN {op.address_jump} ELSE {}
  BY Few DEF Entries, Sensible
<1>7. /\ Returned(op) \in Seq(Nat)
      /\ ToSet(Returned(op)) = IF "RETURN" \in op.flags THEN {op.address} ELSE {}
  <2>1. CASE "RETURN" \notin op.flags
    BY <1>2, <2>1, Few
  <2>2. CASE "RETURN" \in op.flags
    <3> DEFINE s == one(n, op.address)
               t == one(i, op.address)
    <3>1. /\ s \in Seq(Nat) /\ t \in Seq(Nat)
          /\ ToSet(s) = set(n, op.address) /\ ToSet(t) = set(i, op.address)
      BY <1>1, <1>3
    <3> HIDE DEF s, t
    <3>2. s \o t \in Seq(Nat) /\ ToSet(s \o t) = ToSet(s) \cup ToSet(t)
      BY <3>1, Joined
    <3>3. Returned(op) = s \o t
      BY <1>2, <2>2 DEF s, t
    <3>4. n \/ i
      BY <2>2 DEF Sensible
    <3>5. ToSet(s) \cup ToSet(t) = {op.address}
      BY <3>1, <3>4
    <3> QED
      BY <2>2, <3>2, <3>3, <3>5
  <2> QED
    BY <2>1, <2>2
<1> QED
  BY <1>4, <1>5, <1>6, <1>7

\* What the analyser's step leaves as it was, and how its names read here.
LEMMA Readings ==
  /\ \A a : Op(a) = OpOf(rom, a)
  /\ InRange = Within(rom) /\ end_addr = Cardinality(DOMAIN rom) - 4
  /\ ZedType => end_addr \in Int
<1>1. \A a : Op(a) = OpOf(rom, a)
  BY DEF Op, OpOf, Bytes
<1>2. InRange = Within(rom) /\ end_addr = Cardinality(DOMAIN rom) - 4
  BY DEF InRange, Within, end_addr
<1>3. ZedType => Cardinality(DOMAIN rom) \in Nat
  BY FS_CardinalityType DEF ZedType
<1> QED
  BY <1>1, <1>2, <1>3

\* When the walk begins its start waits, and nothing has been looked at.
LEMMA ZedStarts ==
  ASSUME ZedInit, IsFiniteSet(DOMAIN rom), rom \in [DOMAIN rom -> 0..255]
  PROVE  ZedInv
<1>1. start_addr \in Nat
  BY StartAssumption
<1>2. /\ frontier = <<start_addr>> /\ hit_address = {} /\ unsafe_jumps = {}
      /\ call_entry = <<>> /\ call_return = <<>> /\ phase = "walk"
  BY DEF ZedInit
<1>3. /\ frontier \in Seq(Nat) /\ ToSet(frontier) = {start_addr}
      /\ call_entry \in Seq(Nat) /\ call_return \in Seq(Nat)
      /\ ToSet(call_entry) = {} /\ ToSet(call_return) = {}
  BY <1>1, <1>2, Few
<1>4. ZedType
  BY <1>2, <1>3 DEF ZedType
<1>5. ZedWalk
  BY <1>2, <1>3 DEF ZedWalk, Nexts, Unsafe
<1>6. ZedLists
  BY <1>2, <1>3 DEF ZedLists, Targets, Returning
<1> QED
  BY <1>4, <1>5, <1>6 DEF ZedInv

\* An address that is dropped needs no look.
LEMMA SkipKeeps ==
  ASSUME ZedInv, Skip
  PROVE  ZedInv'
<1> DEFINE h == Head(frontier)
<1>1. /\ phase = "walk" /\ frontier # <<>> /\ frontier' = Tail(frontier)
      /\ rom' = rom /\ hit_address' = hit_address /\ unsafe_jumps' = unsafe_jumps
      /\ call_entry' = call_entry /\ call_return' = call_return /\ phase' = phase
      /\ h > end_addr \/ h \in hit_address
  BY DEF Skip
<1>2. /\ h \in Nat /\ Tail(frontier) \in Seq(Nat)
      /\ ToSet(frontier) = {h} \cup ToSet(Tail(frontier))
  BY <1>1, Taken DEF ZedInv, ZedType
<1>3. h \in hit_address \/ h \notin Within(rom)
  BY <1>1, <1>2, Readings DEF Within, ZedInv
<1>4. ZedType'
  BY <1>1, <1>2 DEF ZedInv, ZedType
<1> HIDE DEF h
<1>5. ZedWalk'
  BY <1>1, <1>2, <1>3 DEF ZedInv, ZedWalk
<1>6. ZedLists'
  BY <1>1 DEF ZedInv, ZedLists
<1> QED
  BY <1>4, <1>5, <1>6 DEF ZedInv

\* What follows an address that is looked at waits from then on.
LEMMA VisitKeeps ==
  ASSUME ZedInv, Visit
  PROVE  ZedInv'
<1> DEFINE h  == Head(frontier)
           op == OpOf(rom, h)
<1>1. /\ phase = "walk" /\ frontier # <<>> /\ rom' = rom /\ phase' = phase
      /\ hit_address' = hit_address \cup {op.address}
      /\ frontier' = Tail(frontier) \o Followed(op)
      /\ unsafe_jumps' = unsafe_jumps
                         \cup IF "INDIRECT_JUMP" \in op.flags THEN {op.address} ELSE {}
      /\ call_entry' = call_entry \o Entries(op)
      /\ call_return' = call_return \o Returned(op)
  <2>1. Op(h) = op
    BY Readings
  <2> HIDE DEF op
  <2> QED
    BY <2>1 DEF Visit
<1>2. /\ rom \in [DOMAIN rom -> 0..255] /\ frontier \in Seq(Nat) /\ hit_address \subseteq Nat
      /\ call_entry \in Seq(Nat) /\ call_return \in Seq(Nat)
  BY DEF ZedInv, ZedType
<1>3. /\ h \in Nat /\ Tail(frontier) \in Seq(Nat)
      /\ ToSet(frontier) = {h} \cup ToSet(Tail(frontier))
  BY <1>1, <1>2, Taken
<1>4. /\ op.address = h /\ op.address_next \in Nat /\ op.address_jump \in Nat
      /\ Sensible(op.flags)
  BY <1>2, <1>3, OpsOfRom
<1> HIDE DEF h, op
<1>5. /\ Followed(op) \in Seq(Nat) /\ ToSet(Followed(op)) = Successors(op)
      /\ Entries(op) \in Seq(Nat)
      /\ ToSet(Entries(op)) = IF "CALL" \in op.flags THEN {op.address_jump} ELSE {}
      /\ Returned(op) \in Seq(Nat)
      /\ ToSet(Returned(op)) = IF "RETURN" \in op.flags THEN {h} ELSE {}
  BY <1>3, <1>4, Additions
<1>6. /\ frontier' \in Seq(Nat)
      /\ ToSet(frontier') = ToSet(Tail(frontier)) \cup Successors(op)
      /\ call_entry' \in Seq(Nat)
      /\ ToSet(call_entry') = ToSet(call_entry) \cup ToSet(Entries(op))
      /\ call_return' \in Seq(Nat)
      /\ ToSet(call_return') = ToSet(call_return) \cup ToSet(Returned(op))
  <2>1. /\ frontier' \in Seq(Nat)
        /\ ToSet(frontier') = ToSet(Tail(frontier)) \cup ToSet(Followed(op))
    <3> DEFINE rest   == Tail(frontier)
               follow == Followed(op)
    <3>1. rest \in Seq(Nat) /\ follow \in Seq(Nat) /\ frontier' = rest \o follow
      BY <1>1, <1>3, <1>5
    <3> HIDE DEF rest, follow
    <3>2. frontier' \in Seq(Nat) /\ ToSet(frontier') = ToSet(rest) \cup ToSet(follow)
      BY <3>1, Joined
    <3> QED
      BY <3>2 DEF rest, follow
  <2>2. /\ call_entry' \in Seq(Nat)
        /\ ToSet(call_entry') = ToSet(call_entry) \cup ToSet(Entries(op))
    BY <1>1, <1>2, <1>5, Joined
  <2>3. /\ call_return' \in Seq(Nat)
        /\ ToSet(call_return') = ToSet(call_return) \cup ToSet(Returned(op))
    BY <1>1, <1>2, <1>5, Joined
  <2> QED
    BY <1>5, <2>1, <2>2, <2>3
<1>7. hit_address' = hit_address \cup {h}
  BY <1>1, <1>4
<1>8. ZedType'
  BY <1>1, <1>2, <1>3, <1>6, <1>7 DEF ZedInv, ZedType
<1>9. Nexts(rom, hit_address') = Nexts(rom, hit_address) \cup Successors(op)
  BY <1>7 DEF Nexts, op
<1>10. ZedWalk'
  <2>1. unsafe_jumps' = Unsafe(rom, hit_address')
    BY <1>1, <1>4, <1>7 DEF ZedInv, ZedWalk, Unsafe, op
  <2>2. hit_address' \cup ToSet(frontier') \subseteq Nexts(rom, hit_address')
    BY <1>3, <1>6, <1>7, <1>9 DEF ZedInv, ZedWalk
  <2>3. Nexts(rom, hit_address') \cap Within(rom)
          \subseteq hit_address' \cup ToSet(frontier')
    BY <1>3, <1>6, <1>7, <1>9 DEF ZedInv, ZedWalk
  <2> QED
    BY <1>1, <2>1, <2>2, <2>3 DEF ZedWalk
<1>11. ZedLists'
  <2>1. Targets(rom, hit_address')
          = Targets(rom, hit_address)
            \cup IF "CALL" \in op.flags THEN {op.address_jump} ELSE {}
    BY <1>7 DEF Targets, op
  <2>2. Returning(rom, hit_address')
          = Returning(rom, hit_address) \cup IF "RETURN" \in op.flags THEN {h} ELSE {}
    BY <1>7 DEF Returning, op
  <2> QED
    BY <1>1, <1>5, <1>6, <2>1, <2>2 DEF ZedInv, ZedLists
<1> QED
  BY <1>8, <1>10, <1>11 DEF ZedInv

\* Sorting the lists leaves what they have in them.
LEMMA SortListsKeeps ==
  ASSUME ZedInv, SortLists
  PROVE  ZedInv'
<1>1. /\ phase = "walk" /\ frontier = <<>> /\ phase' = "print"
      /\ call_entry' = Unique(call_entry) /\ call_return' = Unique(call_return)
      /\ rom' = rom /\ frontier' = frontier /\ hit_address' = hit_address
      /\ unsafe_jumps' = unsafe_jumps
  BY DEF SortLists
<1>2. /\ call_entry' \in Seq(Nat) /\ ToSet(call_entry') = ToSet(call_entry)
      /\ Ascending(call_entry')
  BY <1>1, UniqueIsExact DEF ZedInv, ZedType, Ascending
<1>3. /\ call_return' \in Seq(Nat) /\ ToSet(call_return') = ToSet(call_return)
      /\ Ascending(call_return')
  BY <1>1, UniqueIsExact DEF ZedInv, ZedType, Ascending
<1>4. ZedType' /\ ZedWalk'
  BY <1>1, <1>2, <1>3 DEF ZedInv, ZedType, ZedWalk
<1>5. ZedLists'
  BY <1>1, <1>2, <1>3 DEF ZedInv, ZedLists
<1> QED
  BY <1>4, <1>5 DEF ZedInv

\* Printing shortens the lists.
LEMMA PrintListsKeeps ==
  ASSUME ZedInv, PrintLists
  PROVE  ZedInv'
<1>1. /\ phase = "print" /\ phase' = "done"
      /\ call_entry' = RestOf(call_entry) /\ call_return' = RestOf(call_return)
      /\ rom' = rom /\ frontier' = frontier /\ hit_address' = hit_address
      /\ unsafe_jumps' = unsafe_jumps
  BY DEF PrintLists
<1>2. \A s \in Seq(Nat) : RestOf(s) \in Seq(Nat)
  <2>1. SUFFICES ASSUME NEW s \in Seq(Nat) PROVE RestOf(s) \in Seq(Nat)
    OBVIOUS
  <2>2. (Len(s) + 1) \div 2 + 1 \in Nat \ {0} /\ Len(s) \in Nat
    OBVIOUS
  <2> QED
    BY <2>2 DEF RestOf
<1>3. ZedType'
  BY <1>1, <1>2 DEF ZedInv, ZedType
<1>4. ZedWalk' /\ ZedLists'
  BY <1>1 DEF ZedInv, ZedWalk, ZedLists
<1> QED
  BY <1>3, <1>4 DEF ZedInv

\* A step of the analyser keeps what the walk keeps, and so does anything that leaves it.
LEMMA ZedKeeps ==
  ASSUME ZedInv, ZedNext \/ UNCHANGED zedVars
  PROVE  ZedInv'
<1>1. CASE UNCHANGED zedVars
  BY <1>1 DEF zedVars, ZedInv, ZedType, ZedWalk, ZedLists
<1> QED
  BY <1>1, SkipKeeps, VisitKeeps, SortListsKeeps, PrintListsKeeps DEF ZedNext

\* With the program under it, too: only the analyser's own steps change anything of it.
LEMMA WalkNext == ZedInv /\ [Next]_vars => ZedInv'
<1>1. ASSUME [Next]_vars PROVE ZedNext \/ UNCHANGED zedVars
  BY <1>1 DEF Next, vars, Analyze, Tick, z80_stage_m1, z80_stage_m2, z80_stage_m3,
     z80_stage_refresh
<1> QED
  BY <1>1, ZedKeeps

\* The images are ROMs to begin with.
LEMMA WalkInit == Init => ZedInv
<1>1. SUFFICES ASSUME Init PROVE ZedInv
  OBVIOUS
<1>0. PICK image \in Images : rom = image.rom
  BY <1>1 DEF Init
<1> DEFINE S == 0..255
<1>2. PICK size \in 0..MemSize : rom \in [0..(size - 1) -> S]
  BY <1>0, ImagesAssumption, Zenon
<1> HIDE DEF S
<1>3. size - 1 \in Int /\ 0 \in Int
  BY MemSizeAssumption
<1>4. IsFiniteSet(DOMAIN rom) /\ rom \in [DOMAIN rom -> 0..255]
  <2>1. IsFiniteSet(0..(size - 1))
    BY <1>3, FS_Interval
  <2>2. DOMAIN rom = 0..(size - 1) /\ rom \in [DOMAIN rom -> S]
    BY <1>2, Zenon
  <2>3. IsFiniteSet(DOMAIN rom)
    BY <2>1, <2>2, Zenon
  <2> QED
    BY <2>2, <2>3, Zenon DEF S
<1> QED
  BY <1>1, <1>4, ZedStarts DEF Init

\* The walk keeps what it keeps.
THEOREM WalkInvariance == Spec => []ZedInv
BY WalkInit, WalkNext, PTL DEF Spec

\* For every ROM and every start: while the walk lasts nothing that may follow is lost, and
\* nothing else is looked at (zedeighty.cxx:33).
THEOREM WalkClosed == Spec => []WalkIsClosed
<1>1. ZedInv => WalkIsClosed
  <2>1. SUFFICES ASSUME ZedInv, phase = "walk"
                 PROVE  /\ ({start_addr} \cup UNION { Successors(Op(a)) : a \in hit_address })
                             \cap InRange \subseteq hit_address \cup ToSet(frontier)
                        /\ hit_address \cup ToSet(frontier)
                             \subseteq {start_addr}
                                       \cup UNION { Successors(Op(a)) : a \in hit_address }
    BY DEF WalkIsClosed
  <2>2. {start_addr} \cup UNION { Successors(Op(a)) : a \in hit_address }
          = Nexts(rom, hit_address)
    BY Readings DEF Nexts
  <2> QED
    BY <2>1, <2>2, Readings DEF ZedInv, ZedWalk
<1> QED
  BY <1>1, WalkInvariance, PTL

\* For every ROM: the lists that are printed name every call and every return that was
\* looked at, each once and in order (zedeighty.cxx:88-138).
THEOREM ListsExact == Spec => []ListsAreExact
<1>1. ZedInv => ListsAreExact
  <2>1. SUFFICES ASSUME ZedInv, phase = "print"
                 PROVE  ListsAreExact
    BY DEF ListsAreExact
  <2>2. /\ { Op(a).address_jump : a \in { b \in hit_address : "CALL" \in Op(b).flags } }
             = Targets(rom, hit_address)
        /\ { a \in hit_address : "RETURN" \in Op(a).flags } = Returning(rom, hit_address)
    BY Readings DEF Targets, Returning
  <2>3. \A list \in {call_entry, call_return} :
          \A i \in 1..(Len(list) - 1) : list[i] < list[i + 1]
    <3>1. SUFFICES ASSUME NEW s \in Seq(Nat), Ascending(s), NEW i \in 1..(Len(s) - 1)
                   PROVE  s[i] < s[i + 1]
      BY <2>1 DEF ZedInv, ZedType, ZedLists
    <3>2. i \in 1..Len(s) /\ i + 1 \in 1..Len(s) /\ i < i + 1
      BY <3>1
    <3> QED
      BY <3>1, <3>2 DEF Ascending
  <2> QED
    BY <2>1, <2>2, <2>3 DEF ListsAreExact, ZedInv, ZedLists
<1> QED
  BY <1>1, WalkInvariance, PTL

\* The program runs only when the analysis is over.
Behind == at # None => phase = "done"

\* The analysis stays over.
LEMMA StaysBehind == Spec => []Behind
<1>1. Init => Behind
  BY DEF Init, Behind
<1>2. Behind /\ [Next]_vars => Behind'
  BY DEF Behind, Next, vars, zedVars, programVars, Analyze, ZedNext, Skip, Visit, SortLists,
     PrintLists, Tick, z80_stage_m1, z80_stage_m2, z80_stage_m3, z80_stage_refresh
<1> QED
  BY <1>1, <1>2, PTL DEF Spec

\* Only addresses in range are looked at.
Looked == hit_address \subseteq Within(rom)

\* They stay what they were.
LEMMA LooksWithin == Spec => []Looked
<1>1. Init => Looked
  BY DEF Init, ZedInit, Looked
<1>2. ZedInv /\ Looked /\ [Next]_vars => Looked'
  <2>1. SUFFICES ASSUME ZedInv, Looked, [Next]_vars PROVE Looked'
    OBVIOUS
  <2>2. ASSUME ~Visit PROVE hit_address' = hit_address /\ rom' = rom
    BY <2>1, <2>2 DEF Next, vars, zedVars, Analyze, ZedNext, Skip, SortLists, PrintLists,
       Tick, z80_stage_m1, z80_stage_m2, z80_stage_m3, z80_stage_refresh
  <2>3. ASSUME Visit PROVE hit_address' \subseteq Within(rom) /\ rom' = rom
    <3> DEFINE a == Head(frontier)
    <3>1. /\ a <= end_addr /\ rom' = rom
          /\ hit_address' = hit_address \cup {Op(a).address}
      BY <2>3 DEF Visit
    <3>2. a \in Nat
      BY <2>1, <2>3, HeadTailProperties DEF ZedInv, ZedType, Visit
    <3>3. Op(a).address = a
      BY <2>1, <3>2, Readings, OpsOfRom DEF ZedInv, ZedType
    <3>4. a \in Within(rom)
      BY <2>1, <3>1, <3>2, Readings DEF Within, ZedInv
    <3> QED
      BY <2>1, <3>1, <3>3, <3>4 DEF Looked
  <2> QED
    BY <2>1, <2>2, <2>3 DEF Looked
<1> QED
  BY <1>1, <1>2, WalkInvariance, PTL DEF Spec

-----------------------------------------------------------------------------
(***************************************************************************)
(* The opcode functions: what all of them leave alone.                     *)
(***************************************************************************)
Address == { n \in Int : 0 <= n /\ n <= 65535 }

FieldNames ==
  {"r", "opcode", "opcode_index", "read_index", "write_index", "read_is_io", "write_is_io",
   "read_address", "write_address", "read_buffer", "write_buffer", "iff1", "iff2",
   "int_mode", "stage"}

\* The types of struct z80_s.
Sane(w) ==
  /\ DOMAIN w = FieldNames
  /\ w.r \in [Registers -> Byte]
  /\ w.opcode \in [0..3 -> Byte] /\ w.opcode_index \in 0..4
  /\ w.read_buffer \in [0..1 -> Byte] /\ w.read_index \in 0..2
  /\ w.write_buffer \in [0..1 -> Byte] /\ w.write_index \in 0..2
  /\ w.read_address \in Address /\ w.write_address \in Address

\* w comes from y by a function that has not looked at its bytes again.
Steady(w, y) ==
  /\ Sane(w) /\ w.opcode = y.opcode /\ w.opcode_index = y.opcode_index
  /\ w.read_buffer = y.read_buffer /\ w.read_index = y.read_index
  /\ w.write_index = y.write_index

\* And goes on where y would.
Kept(w, y) == Steady(w, y) /\ w.stage = y.stage /\ Word(w, "PC") = Word(y, "PC")

\* A function asks for a byte there is room for, is finished and goes on somewhere in T,
\* or is one that ends the program.
Asks(w, y) ==
  /\ \/ w.stage = "M2" /\ w.read_index \in 0..1
     \/ w.stage = "M3" /\ w.write_index \in 0..1
  /\ Word(w, "PC") = Word(y, "PC")
Finishes(w, T)   == w.stage \in {"RESET", "REFRESH"} /\ Word(w, "PC") \in T
Outcome(w, y, T) == Steady(w, y) /\ (Asks(w, y) \/ Finishes(w, T) \/ w.stage = "ABORTED")

\* The pairs, and the names of their halves.
Pairs16 == {"AF", "BC", "DE", "HL", "IX", "IY", "SP", "PC", "AFp", "BCp", "DEp", "HLp"}

\* All of them are in Registers, and only PC has those of PC.
LEMMA Names ==
  /\ DOMAIN Halves = Pairs16
  /\ \A rp \in Pairs16 : Halves[rp][1] \in Registers /\ Halves[rp][2] \in Registers
  /\ \A rp \in Pairs16 \ {"PC"} :
       Halves[rp][1] \notin {"PCH", "PCL"} /\ Halves[rp][2] \notin {"PCH", "PCL"}
  /\ {"A", "F", "B", "C", "D", "E", "H", "L", "I", "R", "PCH", "PCL"} \subseteq Registers
  /\ Halves["PC"][1] = "PCH" /\ Halves["PC"][2] = "PCL"
<1>1. DOMAIN Halves = Pairs16
  BY DEF Halves, Pairs16
<1>2. ASSUME NEW rp \in Pairs16
      PROVE  Halves[rp][1] \in Registers /\ Halves[rp][2] \in Registers
  <2> DEFINE both == {Halves[rp][1], Halves[rp][2]}
  <2>1. both \in { {Halves[q][1], Halves[q][2]} : q \in DOMAIN Halves }
    BY <1>1
  <2>2. both \subseteq UNION { {Halves[q][1], Halves[q][2]} : q \in DOMAIN Halves }
    <3> HIDE DEF both
    <3> QED
      BY <2>1
  <2> QED
    BY <2>2 DEF Registers
<1>3. ASSUME NEW rp \in Pairs16 \ {"PC"}
      PROVE  Halves[rp][1] \notin {"PCH", "PCL"} /\ Halves[rp][2] \notin {"PCH", "PCL"}
  BY DEF Halves, Pairs16
<1>4. /\ Halves["PC"][1] = "PCH" /\ Halves["PC"][2] = "PCL"
      /\ Halves["AF"][1] = "A" /\ Halves["AF"][2] = "F"
      /\ Halves["BC"][1] = "B" /\ Halves["BC"][2] = "C"
      /\ Halves["DE"][1] = "D" /\ Halves["DE"][2] = "E"
      /\ Halves["HL"][1] = "H" /\ Halves["HL"][2] = "L"
  BY DEF Halves
<1>5. "I" \in Registers /\ "R" \in Registers
  <2>1. \A S : "I" \in S \cup {"I", "R"} /\ "R" \in S \cup {"I", "R"}
    OBVIOUS
  <2> QED
    BY <2>1, Zenon DEF Registers
<1>6. "PC" \in Pairs16 /\ "AF" \in Pairs16 /\ "BC" \in Pairs16 /\ "DE" \in Pairs16
      /\ "HL" \in Pairs16
  BY DEF Pairs16
<1>7. {"A", "F", "B", "C", "D", "E", "H", "L", "I", "R", "PCH", "PCL"} \subseteq Registers
  BY <1>2, <1>4, <1>5, <1>6
<1> QED
  BY <1>1, <1>2, <1>3, <1>4, <1>7

\* A pair is a word.
LEMMA Words ==
  ASSUME NEW w, Sane(w), NEW rp \in Pairs16
  PROVE  /\ w.r[Halves[rp][1]] \in Byte /\ w.r[Halves[rp][2]] \in Byte
         /\ Word(w, rp) \in Address
<1>1. w.r[Halves[rp][1]] \in Byte /\ w.r[Halves[rp][2]] \in Byte
  BY Names DEF Sane
<1>2. \A h \in Byte, l \in Byte : 256 * h + l \in Address
  BY SMT DEF Byte, Address
<1>3. 256 * w.r[Halves[rp][1]] + w.r[Halves[rp][2]] \in Address
  BY <1>1, <1>2, Zenon
<1> QED
  BY <1>1, <1>3 DEF Word

\* A word has two bytes, which make it up.
LEMMA BytesOfWord ==
  ASSUME NEW n \in Address
  PROVE  /\ Hi(n) \in Byte /\ Lo(n) \in Byte
         /\ Byte8(Hi(n)) = Hi(n) /\ Byte8(Lo(n)) = Lo(n)
         /\ 256 * Hi(n) + Lo(n) = n
BY SMT DEF Hi, Lo, Byte, Byte8, Address

\* Conversions give what they say.
LEMMA Conversions ==
  ASSUME NEW n \in Int
  PROVE  Byte8(n) \in Byte /\ Word16(n) \in Address
BY SMT DEF Byte8, Byte, Word16, Address

\* The flag register is a number, whatever the flags.
LEMMA FlagsAreNumbers ==
  ASSUME NEW bs
  PROVE  Value(bs) \in Int
<1> DEFINE bit(i) == IF i \in bs THEN Weight[i + 1] ELSE 0
<1>1. /\ bit(0) \in Int /\ bit(1) \in Int /\ bit(2) \in Int /\ bit(3) \in Int
      /\ bit(4) \in Int /\ bit(5) \in Int /\ bit(6) \in Int /\ bit(7) \in Int
  BY DEF Weight
<1> HIDE DEF bit
<1>2. bit(0) + bit(1) + bit(2) + bit(3) + bit(4) + bit(5) + bit(6) + bit(7) \in Int
  BY <1>1
<1> QED
  BY <1>2 DEF Value, bit

\* A register is set.
LEMMA SetSteady ==
  ASSUME NEW y, NEW w, Steady(w, y), NEW r \in Registers, NEW b \in Int
  PROVE  /\ Steady(Set(w, r, b), y) /\ Set(w, r, b).stage = w.stage
         /\ Set(w, r, b).r = [w.r EXCEPT ![r] = Byte8(b)]
<1> DEFINE v == Set(w, r, b)
<1>1. DOMAIN w = FieldNames /\ w.r \in [Registers -> Byte]
  BY DEF Steady, Sane
<1>2. /\ DOMAIN v = FieldNames /\ v.r = [w.r EXCEPT ![r] = Byte8(b)]
      /\ v.opcode = w.opcode /\ v.opcode_index = w.opcode_index
      /\ v.read_buffer = w.read_buffer /\ v.read_index = w.read_index
      /\ v.write_buffer = w.write_buffer /\ v.write_index = w.write_index
      /\ v.read_address = w.read_address /\ v.write_address = w.write_address
      /\ v.stage = w.stage
  BY <1>1 DEF Set, FieldNames
<1>3. v.r \in [Registers -> Byte]
  BY <1>1, <1>2, Conversions
<1> HIDE DEF v
<1>4. Steady(v, y)
  BY <1>2, <1>3 DEF Steady, Sane
<1> QED
  BY <1>2, <1>4 DEF v

\* A register other than PC is set.
LEMMA SetKeeps ==
  ASSUME NEW y, NEW w, Kept(w, y), NEW r \in Registers \ {"PCH", "PCL"}, NEW b \in Int
  PROVE  Kept(Set(w, r, b), y)
<1> DEFINE v == Set(w, r, b)
<1>1. Steady(v, y) /\ v.stage = w.stage /\ v.r = [w.r EXCEPT ![r] = Byte8(b)]
  BY SetSteady DEF Kept
<1>2. w.r \in [Registers -> Byte]
  BY DEF Kept, Steady, Sane
<1> HIDE DEF v
<1>3. Word(v, "PC") = Word(w, "PC")
  BY <1>1, <1>2, Names DEF Word
<1>4. Kept(v, y)
  BY <1>1, <1>3 DEF Kept
<1> QED
  BY <1>4 DEF v

\* So is a pair, or the flags.
LEMMA SetWordKeeps ==
  ASSUME NEW y, NEW w, Kept(w, y), NEW rp \in Pairs16 \ {"PC"}, NEW n \in Int
  PROVE  Kept(SetWord(w, rp, n), y)
<1>1. Hi(Word16(n)) \in Int /\ Lo(Word16(n)) \in Int
  BY Conversions, BytesOfWord DEF Byte
<1>2. /\ Halves[rp][1] \in Registers \ {"PCH", "PCL"}
      /\ Halves[rp][2] \in Registers \ {"PCH", "PCL"}
  BY Names
<1>3. Kept(Set(w, Halves[rp][1], Hi(Word16(n))), y)
  BY <1>1, <1>2, SetKeeps
<1>4. Kept(Set(Set(w, Halves[rp][1], Hi(Word16(n))), Halves[rp][2], Lo(Word16(n))), y)
  BY <1>1, <1>2, <1>3, SetKeeps
<1> QED
  BY <1>4 DEF SetWord

\* The flags.
LEMMA SetFKeeps ==
  ASSUME NEW y, NEW w, Kept(w, y), NEW fs
  PROVE  Kept(SetF(w, fs), y)
<1>1. FlagByte(fs) \in Int
  BY FlagsAreNumbers DEF FlagByte
<1>2. "F" \in Registers \ {"PCH", "PCL"}
  BY Names
<1> QED
  BY <1>1, <1>2, SetKeeps DEF SetF

\* A jump.
LEMMA JumpGoes ==
  ASSUME NEW y, NEW w, Steady(w, y), NEW n \in Int
  PROVE  /\ Steady(SetWord(w, "PC", n), y) /\ SetWord(w, "PC", n).stage = w.stage
         /\ Word(SetWord(w, "PC", n), "PC") = Word16(n)
<1> DEFINE m == Word16(n)
           u == Set(w, "PCH", Hi(m))
           v == Set(u, "PCL", Lo(m))
<1>1. m \in Address
  BY Conversions
<1>2. SetWord(w, "PC", n) = v
  BY Names DEF SetWord
<1>3. w.r \in [Registers -> Byte]
  BY DEF Steady, Sane
<1> HIDE DEF m
<1>4. /\ Hi(m) \in Byte /\ Lo(m) \in Byte /\ Byte8(Hi(m)) = Hi(m) /\ Byte8(Lo(m)) = Lo(m)
      /\ 256 * Hi(m) + Lo(m) = m
  BY <1>1, BytesOfWord
<1>5. Hi(m) \in Int /\ Lo(m) \in Int /\ "PCH" \in Registers /\ "PCL" \in Registers
  BY <1>4, Names DEF Byte
<1>6. Steady(u, y) /\ u.stage = w.stage /\ u.r = [w.r EXCEPT !["PCH"] = Hi(m)]
  BY <1>4, <1>5, SetSteady
<1> HIDE DEF u
<1>7. Steady(v, y) /\ v.stage = u.stage /\ v.r = [u.r EXCEPT !["PCL"] = Byte8(Lo(m))]
  BY <1>5, <1>6, SetSteady
<1> HIDE DEF v
<1>7a. v.r = [u.r EXCEPT !["PCL"] = Lo(m)]
  BY <1>4, <1>7
<1>8. v.r["PCH"] = Hi(m) /\ v.r["PCL"] = Lo(m)
  BY <1>3, <1>5, <1>6, <1>7a
<1>9. Word(v, "PC") = m
  BY <1>4, <1>8, Names DEF Word
<1> QED
  BY <1>2, <1>6, <1>7, <1>9 DEF m

-----------------------------------------------------------------------------
(***************************************************************************)
(* What the macros make of an outcome.                                     *)
(***************************************************************************)
\* A function starts.
Starts(y) == Sane(y) /\ y.stage = "RESET"

\* What is started has kept everything.
LEMMA StartKeeps ==
  ASSUME NEW y, Starts(y)
  PROVE  Kept(y, y) /\ Steady(y, y)
BY DEF Starts, Kept, Steady

\* To keep PC is one way to finish.
LEMMA KeptFinishes ==
  ASSUME NEW y, Starts(y), NEW T, Word(y, "PC") \in T, NEW w, Kept(w, y)
  PROVE  Outcome(w, y, T)
BY DEF Outcome, Kept, Finishes, Starts

\* To jump is another.
LEMMA JumpFinishes ==
  ASSUME NEW y, Starts(y), NEW T, NEW n \in Int, Word16(n) \in T, NEW w, Steady(w, y),
         w.stage = y.stage
  PROVE  Outcome(SetWord(w, "PC", n), y, T)
BY JumpGoes DEF Outcome, Finishes, Starts

\* The fields no other function looks at.
LEMMA IffKeeps ==
  ASSUME NEW y, NEW w, Kept(w, y), NEW b
  PROVE  Kept([w EXCEPT !.iff1 = b], y) /\ Kept([w EXCEPT !.int_mode = b], y)
<1>1. DOMAIN w = FieldNames
  BY DEF Kept, Steady, Sane
<1>2. ASSUME NEW v \in {[w EXCEPT !.iff1 = b], [w EXCEPT !.int_mode = b]}
      PROVE  Kept(v, y)
  <2>1. /\ DOMAIN v = FieldNames /\ v.r = w.r
        /\ v.opcode = w.opcode /\ v.opcode_index = w.opcode_index
        /\ v.read_buffer = w.read_buffer /\ v.read_index = w.read_index
        /\ v.write_buffer = w.write_buffer /\ v.write_index = w.write_index
        /\ v.read_address = w.read_address /\ v.write_address = w.write_address
        /\ v.stage = w.stage
    BY <1>1 DEF FieldNames
  <2> QED
    BY <2>1 DEF Kept, Steady, Sane, Word
<1> QED
  BY <1>2

\* What a function returns.
LEMMA ReturnKeeps ==
  ASSUME NEW y, NEW w, Steady(w, y), NEW s
  PROVE  Steady(Return(w, s), y) /\ Return(w, s).r = w.r /\ Return(w, s).stage = s
<1> DEFINE v == Return(w, s)
<1>1. DOMAIN w = FieldNames
  BY DEF Steady, Sane
<1>2. /\ DOMAIN v = FieldNames /\ v.r = w.r
      /\ v.opcode = w.opcode /\ v.opcode_index = w.opcode_index
      /\ v.read_buffer = w.read_buffer /\ v.read_index = w.read_index
      /\ v.write_buffer = w.write_buffer /\ v.write_index = w.write_index
      /\ v.read_address = w.read_address /\ v.write_address = w.write_address
      /\ v.stage = s
  BY <1>1 DEF Return, FieldNames
<1> HIDE DEF v
<1>3. Steady(v, y)
  BY <1>2 DEF Steady, Sane
<1> QED
  BY <1>2, <1>3 DEF v

\* An assert(0) ends the program.
LEMMA AbortEnds ==
  ASSUME NEW y, Starts(y), NEW T
  PROVE  Outcome(Abort(y), y, T)
<1>1. Steady(y, y)
  BY StartKeeps
<1>2. Steady(Abort(y), y) /\ Abort(y).stage = "ABORTED"
  BY <1>1, ReturnKeeps DEF Abort
<1> QED
  BY <1>2 DEF Outcome

\* The four macros.
LEMMA Reads8 ==
  ASSUME NEW y, Starts(y), NEW T, NEW a \in Address, NEW io, NEW then, Outcome(then, y, T)
  PROVE  Outcome(Z80_8BIT_READ(y, a, io, then), y, T)
<1> DEFINE v == [y EXCEPT !.read_is_io = io, !.read_address = a, !.stage = "M2"]
<1>1. DOMAIN y = FieldNames /\ Sane(y)
  BY DEF Starts, Sane
<1>2. /\ DOMAIN v = FieldNames /\ v.r = y.r
      /\ v.opcode = y.opcode /\ v.opcode_index = y.opcode_index
      /\ v.read_buffer = y.read_buffer /\ v.read_index = y.read_index
      /\ v.write_buffer = y.write_buffer /\ v.write_index = y.write_index
      /\ v.read_address = a /\ v.write_address = y.write_address
      /\ v.stage = "M2"
  BY <1>1 DEF FieldNames
<1> HIDE DEF v
<1>3. Steady(v, y) /\ Word(v, "PC") = Word(y, "PC")
  BY <1>1, <1>2 DEF Steady, Sane, Word
<1>4. y.read_index = 0 => Outcome(v, y, T)
  BY <1>2, <1>3 DEF Outcome, Asks
<1> QED
  BY <1>4 DEF Z80_8BIT_READ, v

\* The second byte is asked for at the next address.
LEMMA Reads16 ==
  ASSUME NEW y, Starts(y), NEW T, NEW a \in Address, NEW io, NEW then, Outcome(then, y, T)
  PROVE  Outcome(Z80_16BIT_READ(y, a, io, then), y, T)
<1> DEFINE v == [y EXCEPT !.read_address = Plus(@, 1), !.stage = "M2"]
<1>1. DOMAIN y = FieldNames /\ Sane(y)
  BY DEF Starts, Sane
<1>2. /\ DOMAIN v = FieldNames /\ v.r = y.r
      /\ v.opcode = y.opcode /\ v.opcode_index = y.opcode_index
      /\ v.read_buffer = y.read_buffer /\ v.read_index = y.read_index
      /\ v.write_buffer = y.write_buffer /\ v.write_index = y.write_index
      /\ v.read_address = Plus(y.read_address, 1) /\ v.write_address = y.write_address
      /\ v.stage = "M2"
  BY <1>1 DEF FieldNames
<1>3. Plus(y.read_address, 1) \in Address
  <2>1. y.read_address + 1 \in Int
    BY <1>1 DEF Sane, Address
  <2> QED
    BY <2>1, Conversions DEF Plus
<1> HIDE DEF v
<1>4. Steady(v, y) /\ Word(v, "PC") = Word(y, "PC")
  BY <1>1, <1>2, <1>3 DEF Steady, Sane, Word
<1>5. y.read_index = 1 => Outcome(v, y, T)
  BY <1>2, <1>4 DEF Outcome, Asks
<1> QED
  BY <1>5, Reads8 DEF Z80_16BIT_READ, v

\* A byte is written.
LEMMA Writes8 ==
  ASSUME NEW y, Starts(y), NEW T, NEW a \in Address, NEW io, NEW b \in Int,
         NEW then, Outcome(then, y, T)
  PROVE  Outcome(Z80_8BIT_WRITE(y, a, io, b, then), y, T)
<1> DEFINE v == [y EXCEPT !.write_is_io = io, !.write_address = a,
                          !.write_buffer[0] = Byte8(b), !.stage = "M3"]
<1>1. DOMAIN y = FieldNames /\ Sane(y) /\ y.write_buffer \in [0..1 -> Byte]
  BY DEF Starts, Sane
<1>2. /\ DOMAIN v = FieldNames /\ v.r = y.r
      /\ v.opcode = y.opcode /\ v.opcode_index = y.opcode_index
      /\ v.read_buffer = y.read_buffer /\ v.read_index = y.read_index
      /\ v.write_buffer = [y.write_buffer EXCEPT ![0] = Byte8(b)]
      /\ v.write_index = y.write_index
      /\ v.read_address = y.read_address /\ v.write_address = a
      /\ v.stage = "M3"
  BY <1>1 DEF FieldNames
<1>3. [y.write_buffer EXCEPT ![0] = Byte8(b)] \in [0..1 -> Byte]
  BY <1>1, Conversions
<1> HIDE DEF v
<1>4. Steady(v, y) /\ Word(v, "PC") = Word(y, "PC")
  BY <1>1, <1>2, <1>3 DEF Steady, Sane, Word
<1>5. y.write_index = 0 => Outcome(v, y, T)
  BY <1>2, <1>4 DEF Outcome, Asks
<1> QED
  BY <1>5 DEF Z80_8BIT_WRITE, v

\* Two bytes are written.
LEMMA Writes16 ==
  ASSUME NEW y, Starts(y), NEW T, NEW a \in Address, NEW io, NEW b0 \in Byte,
         NEW b1 \in Byte, NEW then, Outcome(then, y, T)
  PROVE  Outcome(Z80_16BIT_WRITE(y, a, io, b0, b1, then), y, T)
<1> DEFINE both == [i \in 0..1 |-> IF i = 0 THEN b0 ELSE b1]
           v == [y EXCEPT !.write_is_io = io, !.write_address = a,
                          !.write_buffer = both, !.stage = "M3"]
           u == [y EXCEPT !.write_address = Plus(@, 1), !.stage = "M3"]
<1>1. DOMAIN y = FieldNames /\ Sane(y) /\ y.write_address \in Address
  BY DEF Starts, Sane
<1>2. both \in [0..1 -> Byte]
  OBVIOUS
<1> HIDE DEF both
<1>3. /\ DOMAIN v = FieldNames /\ v.r = y.r
      /\ v.opcode = y.opcode /\ v.opcode_index = y.opcode_index
      /\ v.read_buffer = y.read_buffer /\ v.read_index = y.read_index
      /\ v.write_buffer = both /\ v.write_index = y.write_index
      /\ v.read_address = y.read_address /\ v.write_address = a
      /\ v.stage = "M3"
  BY <1>1 DEF FieldNames
<1>4. /\ DOMAIN u = FieldNames /\ u.r = y.r
      /\ u.opcode = y.opcode /\ u.opcode_index = y.opcode_index
      /\ u.read_buffer = y.read_buffer /\ u.read_index = y.read_index
      /\ u.write_buffer = y.write_buffer /\ u.write_index = y.write_index
      /\ u.read_address = y.read_address /\ u.write_address = Plus(y.write_address, 1)
      /\ u.stage = "M3"
  BY <1>1 DEF FieldNames
<1>5. Plus(y.write_address, 1) \in Address
  <2>1. y.write_address + 1 \in Int
    BY <1>1 DEF Address
  <2> QED
    BY <2>1, Conversions DEF Plus
<1> HIDE DEF v, u
<1>6. Steady(v, y) /\ Word(v, "PC") = Word(y, "PC")
  BY <1>1, <1>2, <1>3 DEF Steady, Sane, Word
<1>7. Steady(u, y) /\ Word(u, "PC") = Word(y, "PC")
  BY <1>1, <1>4, <1>5 DEF Steady, Sane, Word
<1>8. y.write_index = 0 => Outcome(v, y, T)
  BY <1>3, <1>6 DEF Outcome, Asks
<1>9. y.write_index = 1 => Outcome(u, y, T)
  BY <1>4, <1>7 DEF Outcome, Asks
<1> QED
  BY <1>8, <1>9 DEF Z80_16BIT_WRITE, v, u, both

\* Flags may be changed, and the end be given back as REFRESH, whatever came out.
LEMMA FlagsAfter ==
  ASSUME NEW y, NEW T, NEW w, Outcome(w, y, T), NEW fs
  PROVE  Outcome(SetF(w, fs), y, T)
<1>1. Kept(w, w)
  BY DEF Outcome, Kept, Steady
<1>2. Kept(SetF(w, fs), w)
  BY <1>1, SetFKeeps
<1> QED
  BY <1>2 DEF Outcome, Kept, Steady, Asks, Finishes

\* The end of a repeated function.
LEMMA RepeatedAfter ==
  ASSUME NEW y, NEW T, NEW w, Outcome(w, y, T)
  PROVE  Outcome(Repeated(w), y, T)
<1> DEFINE v == Return(w, "REFRESH")
<1>1. Steady(w, y)
  BY DEF Outcome
<1>2. Steady(v, y) /\ v.stage = "REFRESH" /\ v.r = w.r
  BY <1>1, ReturnKeeps
<1> HIDE DEF v
<1>3. Word(v, "PC") = Word(w, "PC")
  BY <1>2 DEF Word
<1>4. w.stage = "RESET" => Outcome(v, y, T)
  BY <1>2, <1>3 DEF Outcome, Finishes, Asks
<1> QED
  BY <1>4 DEF Repeated, v

\* So may the flip-flop of the interrupts.
LEMMA IffAfter ==
  ASSUME NEW y, NEW T, NEW w, Outcome(w, y, T), NEW b
  PROVE  Outcome([w EXCEPT !.iff1 = b], y, T)
<1> DEFINE v == [w EXCEPT !.iff1 = b]
<1>1. Kept(w, w)
  BY DEF Outcome, Kept, Steady
<1>2. Kept(v, w)
  BY <1>1, IffKeeps
<1> HIDE DEF v
<1>3. Outcome(v, y, T)
  BY <1>2 DEF Outcome, Kept, Steady, Asks, Finishes
<1> QED
  BY <1>3 DEF v

-----------------------------------------------------------------------------
(***************************************************************************)
(* The operands of the functions.                                          *)
(***************************************************************************)
Plain == Registers \ {"PCH", "PCL"}

\* Registers by name.
LEMMA PlainNames ==
  {"A", "F", "B", "C", "D", "E", "H", "L", "I", "R"} \subseteq Plain
BY Names DEF Plain

\* The fields of a byte.
LEMMA FieldsOf ==
  ASSUME NEW b \in Byte
  PROVE  Y(b) \in 0..7 /\ Z(b) \in 0..7 /\ P(b) \in 0..3 /\ Signed8(b) \in Int /\ b \in Int
BY SMT DEF Y, Z, P, Signed8, Byte

\* The registers the fields name.
LEMMA RegistersNamed ==
  /\ \A i \in 0..7 : i # 6 => z80_r(i) \in Plain
  /\ \A i \in 0..3 : z80_rp(i) \in Pairs16 \ {"PC"} /\ z80_rp2(i) \in Pairs16 \ {"PC"}
<1>1. \A i \in 0..7 : i # 6 => z80_r(i) \in {"A", "B", "C", "D", "E", "H", "L"}
  <2>1. /\ z80_r(0) = "B" /\ z80_r(1) = "C" /\ z80_r(2) = "D" /\ z80_r(3) = "E"
        /\ z80_r(4) = "H" /\ z80_r(5) = "L" /\ z80_r(7) = "A"
    BY DEF z80_r
  <2>2. \A i \in 0..7 : i # 6 => i \in {0, 1, 2, 3, 4, 5, 7}
    OBVIOUS
  <2> QED
    BY <2>1, <2>2
<1>2. \A i \in 0..3 : z80_rp(i) \in Pairs16 \ {"PC"} /\ z80_rp2(i) \in Pairs16 \ {"PC"}
  <2>1. \A i \in 0..3 : i \in {0, 1, 2, 3}
    OBVIOUS
  <2> QED
    BY <2>1 DEF z80_rp, z80_rp2, Pairs16
<1> QED
  BY <1>1, <1>2, PlainNames

\* The bytes a function works on.
LEMMA Operands ==
  ASSUME NEW y, Starts(y)
  PROVE  /\ \A i \in 0..3 : y.opcode[i] \in Byte
         /\ \A i \in 0..1 : y.read_buffer[i] \in Byte
         /\ \A rp \in Pairs16 : Word(y, rp) \in Address
         /\ \A r \in Plain : y.r[r] \in Byte
         /\ Pair(y) \in Address
         /\ \A i \in 0..2 : nn(y, i) \in Address
         /\ IXY(y) \in {"IX", "IY"}
         /\ Indexed(y) \in Address
<1>1. Sane(y)
  BY DEF Starts
<1>2. /\ \A i \in 0..3 : y.opcode[i] \in Byte
      /\ \A i \in 0..1 : y.read_buffer[i] \in Byte
      /\ \A r \in Plain : y.r[r] \in Byte
  BY <1>1 DEF Sane, Plain
<1>3. \A rp \in Pairs16 : Word(y, rp) \in Address
  BY <1>1, Words
<1>4. \A l \in Byte, h \in Byte : l + 256 * h \in Address
  BY SMT DEF Byte, Address
<1>5. Pair(y) \in Address
  <2>1. y.read_buffer[0] \in Byte /\ y.read_buffer[1] \in Byte
    BY <1>2
  <2> QED
    BY <1>4, <2>1 DEF Pair
<1>6. ASSUME NEW i \in 0..2 PROVE nn(y, i) \in Address
  <2>1. y.opcode[i] \in Byte /\ y.opcode[i + 1] \in Byte
    <3>1. i \in 0..3 /\ i + 1 \in 0..3
      OBVIOUS
    <3> QED
      BY <1>2, <3>1
  <2> QED
    BY <1>4, <2>1 DEF nn
<1>7. IXY(y) \in {"IX", "IY"}
  BY DEF IXY
<1>8. Indexed(y) \in Address
  <2>1. Word(y, IXY(y)) \in Address
    BY <1>3, <1>7 DEF Pairs16
  <2>2. Signed8(y.opcode[2]) \in Int
    BY <1>2, FieldsOf
  <2>3. Word(y, IXY(y)) + Signed8(y.opcode[2]) \in Int
    BY <2>1, <2>2 DEF Address
  <2> QED
    BY <2>3, Conversions DEF Indexed, Plus
<1> QED
  BY <1>2, <1>3, <1>5, <1>6, <1>7, <1>8

\* Half an index register, or a register.
LEMMA HalvesNamed ==
  ASSUME NEW y, Starts(y), NEW i \in 0..7, i # 6
  PROVE  z80_r_ixy(y, i) \in Plain
<1>1. IXY(y) \in {"IX", "IY"}
  BY Operands
<1>2. \A ix \in {"IX", "IY"} : Halves[ix][1] \in Plain /\ Halves[ix][2] \in Plain
  BY Names DEF Pairs16, Plain
<1>3. CASE i = 4
  BY <1>1, <1>2, <1>3 DEF z80_r_ixy
<1>4. CASE i = 5
  BY <1>1, <1>2, <1>4 DEF z80_r_ixy
<1>5. CASE i \notin {4, 5}
  BY <1>5, RegistersNamed DEF z80_r_ixy
<1> QED
  BY <1>3, <1>4, <1>5

\* What the arithmetic gives is a number.
LEMMA AluNumbers ==
  ASSUME NEW a \in Int, NEW b \in Int, NEW fs
  PROVE  /\ \A i \in 0..7 : alu8_op(AluOps[i + 1], a, b, fs).result \in Int
         /\ alu8_inc(b, fs).result \in Int /\ alu8_dec(b, fs).result \in Int
<1>1. \A n \in Int : Byte8(n) \in Int
  BY DEF Byte8
<1>2. /\ Adc(a, b).result \in Int /\ Add(a, b).result \in Int /\ Sub(a, b).result \in Int
      /\ Sbc(a, b).result \in Int /\ Compare(a, b).result \in Int
  BY <1>1 DEF Adc, Add, Sub, Sbc, Compare, Result
<1>3. \A bs, gs : Logic(Value(bs), gs).result \in Int
  BY FlagsAreNumbers DEF Logic, Result
<1>4. ASSUME NEW i \in 0..7 PROVE alu8_op(AluOps[i + 1], a, b, fs).result \in Int
  <2>1. AluOps[i + 1] \in {"ADD", "ADC", "SUB", "SBC", "AND", "XOR", "OR", "CP"}
    <3>1. i \in {0, 1, 2, 3, 4, 5, 6, 7}
      OBVIOUS
    <3> QED
      BY <3>1 DEF AluOps
  <2> DEFINE op == AluOps[i + 1]
  <2> HIDE DEF op
  <2>2. /\ alu8_op("ADD", a, b, fs) = Add(a, b)
        /\ alu8_op("ADC", a, b, fs) = IF "C" \in fs THEN Adc(a, b) ELSE Add(a, b)
        /\ alu8_op("SUB", a, b, fs) = Sub(a, b)
        /\ alu8_op("SBC", a, b, fs) = IF "C" \in fs THEN Sbc(a, b) ELSE Sub(a, b)
        /\ alu8_op("CP", a, b, fs) = Compare(a, b)
    BY DEF alu8_op
  <2>3. \E bs, gs : alu8_op("AND", a, b, fs) = Logic(Value(bs), gs)
    BY DEF alu8_op
  <2>4. \E bs, gs : alu8_op("XOR", a, b, fs) = Logic(Value(bs), gs)
    BY DEF alu8_op
  <2>5. \E bs, gs : alu8_op("OR", a, b, fs) = Logic(Value(bs), gs)
    BY DEF alu8_op
  <2>6. /\ alu8_op("ADD", a, b, fs).result \in Int /\ alu8_op("ADC", a, b, fs).result \in Int
        /\ alu8_op("SUB", a, b, fs).result \in Int /\ alu8_op("SBC", a, b, fs).result \in Int
        /\ alu8_op("CP", a, b, fs).result \in Int
    BY <1>2, <2>2
  <2>7. /\ alu8_op("AND", a, b, fs).result \in Int /\ alu8_op("XOR", a, b, fs).result \in Int
        /\ alu8_op("OR", a, b, fs).result \in Int
    BY <1>3, <2>3, <2>4, <2>5
  <2>8. op \in {"ADD", "ADC", "SUB", "SBC", "AND", "XOR", "OR", "CP"}
    BY <2>1 DEF op
  <2>9. alu8_op(op, a, b, fs).result \in Int
    BY <2>6, <2>7, <2>8, Zenon
  <2> QED
    BY <2>9 DEF op
<1>5. alu8_inc(b, fs).result \in Int /\ alu8_dec(b, fs).result \in Int
  BY <1>1 DEF alu8_inc, alu8_dec, Result
<1> QED
  BY <1>4, <1>5

\* So are a rotated byte and a byte with one bit changed.
LEMMA BitNumbers ==
  ASSUME NEW b \in Int
  PROVE  /\ \A op, fs : op_rotate_shift(op, b, fs).result \in Int
         /\ \A kind \in {"BIT", "SET", "RES"} : \A i, v : BitOp(v, kind, b, i).result \in Int
<1>1. ASSUME NEW op, NEW fs PROVE op_rotate_shift(op, b, fs).result \in Int
  <2>1. Byte8(2 * b) \in Int /\ b \div 2 \in Int
    BY DEF Byte8
  <2> QED
    BY <2>1 DEF op_rotate_shift, Result
<1>2. ASSUME NEW kind \in {"BIT", "SET", "RES"}, NEW i, NEW v
      PROVE  BitOp(v, kind, b, i).result \in Int
  BY FlagsAreNumbers DEF BitOp, bit_op, set_op, res_op, Result
<1> QED
  BY <1>1, <1>2

-----------------------------------------------------------------------------
(***************************************************************************)
(* The functions, one group of the source files after the other: what each *)
(* of them comes to.                                                       *)
(***************************************************************************)
Here(y) == {Word(y, "PC")}

\* To keep PC is to finish here.
LEMMA Stays ==
  ASSUME NEW y, Starts(y), NEW w, Kept(w, y)
  PROVE  Outcome(w, y, Here(y))
BY KeptFinishes DEF Here

\* A pair is counted, SP taken elsewhere.
LEMMA CountKeeps ==
  ASSUME NEW y, NEW w, Kept(w, y), NEW rp \in Pairs16 \ {"PC"}, NEW n \in Int
  PROVE  Kept(Count(w, rp, n), y) /\ Kept(Drop(w, n), y)
<1>1. Sane(w)
  BY DEF Kept, Steady
<1>2. Word(w, rp) + n \in Int /\ Word(w, "SP") + n \in Int
  <2>1. Word(w, rp) \in Int /\ Word(w, "SP") \in Int
    BY <1>1, Words DEF Address, Pairs16
  <2> QED
    BY <2>1
<1>3. Kept(SetWord(w, rp, Word(w, rp) + n), y)
  BY <1>2, SetWordKeeps
<1>4. Kept(SetWord(w, "SP", Word(w, "SP") + n), y)
  BY <1>2, SetWordKeeps DEF Pairs16
<1> QED
  BY <1>3, <1>4 DEF Count, Drop

\* Two pairs are exchanged.
LEMMA SwapKeeps ==
  ASSUME NEW y, NEW w, Kept(w, y), NEW rp \in Pairs16 \ {"PC"}, NEW rq \in Pairs16 \ {"PC"}
  PROVE  Kept(Swap(w, rp, rq), y)
<1>1. Sane(w)
  BY DEF Kept, Steady
<1>2. Word(w, rp) \in Int /\ Word(w, rq) \in Int
  BY <1>1, Words DEF Address
<1>3. Kept(SetWord(w, rp, Word(w, rq)), y)
  BY <1>2, SetWordKeeps
<1>4. Kept(SetWord(SetWord(w, rp, Word(w, rq)), rq, Word(w, rp)), y)
  BY <1>2, <1>3, SetWordKeeps
<1> QED
  BY <1>4 DEF Swap

\* A result and its flags are given to a register.
LEMMA GiveKeeps ==
  ASSUME NEW y, NEW w, Kept(w, y), NEW r \in Plain, NEW res, res.result \in Int
  PROVE  Kept(Give(w, r, res), y)
<1>1. Kept(Set(w, r, res.result), y)
  BY SetKeeps DEF Plain
<1>2. Kept(SetF(Set(w, r, res.result), res.flags), y)
  BY <1>1, SetFKeeps
<1> QED
  BY <1>2 DEF Give

\* A byte of memory is modified.
LEMMA ModifyStays ==
  ASSUME NEW y, Starts(y), NEW a \in Address, NEW res, res.result \in Int
  PROVE  Outcome(Modify(y, a, res), y, Here(y))
<1>1. Outcome(SetF(y, res.flags), y, Here(y))
  BY StartKeeps, SetFKeeps, Stays
<1>2. Outcome(Z80_8BIT_WRITE(y, a, 0, res.result, SetF(y, res.flags)), y, Here(y))
  BY <1>1, Writes8
<1> QED
  BY <1>2, Reads8 DEF Modify

\* The stack.
LEMMA StackMoves ==
  ASSUME NEW y, Starts(y), NEW T, NEW then, Outcome(then, y, T), NEW n \in Address
  PROVE  Outcome(Push(y, n, then), y, T) /\ Outcome(Pop(y, then), y, T)
<1>1. Word(y, "SP") \in Address
  BY Operands DEF Pairs16
<1>2. Plus(Word(y, "SP"), -2) \in Address
  <2>1. Word(y, "SP") + (-2) \in Int
    BY <1>1 DEF Address
  <2> QED
    BY <2>1, Conversions DEF Plus
<1>3. Lo(n) \in Byte /\ Hi(n) \in Byte
  BY BytesOfWord
<1>4. Outcome(Push(y, n, then), y, T)
  BY <1>2, <1>3, Writes16 DEF Push
<1>5. Outcome(Pop(y, then), y, T)
  BY <1>1, Reads16 DEF Pop
<1> QED
  BY <1>4, <1>5

\* z80_opcodes.c.
GeneralNames == {"CCF", "CPL", "DAA", "DI", "EI", "EX", "EX_DE_HL", "EX_SPp_HL", "EXX", "HALT",
                 "IM", "NOP"}

\* None of these asks for more than there is room for, or goes elsewhere.
LEMMA GeneralEnds ==
  ASSUME NEW y, Starts(y), NEW f \in GeneralNames
  PROVE  Outcome(General(f, y), y, Here(y))
<1> DEFINE fine(g) == Outcome(General(g, y), y, Here(y))
<1>1. Kept(y, y)
  BY StartKeeps
<1>2. fine("CCF")
  BY <1>1, SetFKeeps, Stays DEF General
<1>3. fine("CPL")
  <2>1. 255 - y.r["A"] \in Int /\ "A" \in Registers \ {"PCH", "PCL"}
    BY Operands, PlainNames DEF Plain, Byte
  <2>2. Kept(Set(y, "A", 255 - y.r["A"]), y)
    BY <1>1, <2>1, SetKeeps
  <2> QED
    BY <2>2, SetFKeeps, Stays DEF General
<1>4. fine("DAA")
  BY <1>1, Stays DEF General
<1>5. fine("DI") /\ fine("EI") /\ fine("IM")
  BY <1>1, IffKeeps, Stays DEF General
<1>6. fine("EX") /\ fine("EX_DE_HL")
  <2>1. Kept(Swap(y, "AF", "AFp"), y) /\ Kept(Swap(y, "DE", "HL"), y)
    BY <1>1, SwapKeeps DEF Pairs16
  <2> QED
    BY <2>1, Stays DEF General
<1>7. fine("EXX")
  <2>1. Kept(Swap(y, "BC", "BCp"), y)
    BY <1>1, SwapKeeps DEF Pairs16
  <2>2. Kept(Swap(Swap(y, "BC", "BCp"), "DE", "DEp"), y)
    BY <2>1, SwapKeeps DEF Pairs16
  <2>3. Kept(Swap(Swap(Swap(y, "BC", "BCp"), "DE", "DEp"), "HL", "HLp"), y)
    BY <2>2, SwapKeeps DEF Pairs16
  <2> QED
    BY <2>3, Stays DEF General
<1>8. fine("EX_SPp_HL")
  <2>1. /\ Word(y, "SP") \in Address /\ Pair(y) \in Address /\ Pair(y) \in Int
        /\ y.r["L"] \in Byte /\ y.r["H"] \in Byte
    BY Operands, PlainNames DEF Pairs16, Address
  <2> DEFINE v == SetWord(y, "HL", Pair(y))
             u == Z80_16BIT_WRITE(y, Word(y, "SP"), 0, y.r["L"], y.r["H"], v)
  <2>2. Kept(v, y)
    BY <1>1, <2>1, SetWordKeeps DEF Pairs16
  <2>3. Outcome(v, y, Here(y))
    BY <2>2, Stays
  <2>4. Outcome(u, y, Here(y))
    BY <2>1, <2>3, Writes16
  <2>5. Outcome(Pop(y, u), y, Here(y))
    BY <2>1, <2>4, StackMoves
  <2> QED
    BY <2>5 DEF General
<1>9. fine("HALT") /\ fine("NOP")
  BY <1>1, Stays, AbortEnds DEF General
<1> HIDE DEF fine
<1>10. fine(f)
  BY <1>2, <1>3, <1>4, <1>5, <1>6, <1>7, <1>8, <1>9, Zenon DEF GeneralNames
<1> QED
  BY <1>10 DEF fine

\* Rotations of A, SCF, NEG, RRD and RLD.
LEMMA AccumulatorEnds ==
  ASSUME NEW y, Starts(y)
  PROVE  /\ \A op : Outcome(RotateA(y, op), y, Here(y))
         /\ Outcome(SCF(y), y, Here(y)) /\ Outcome(NEG(y), y, Here(y))
         /\ Outcome(RRD(y), y, Here(y)) /\ Outcome(RLD(y), y, Here(y))
<1>1. Kept(y, y) /\ y.r["A"] \in Int /\ "A" \in Plain
  BY StartKeeps, Operands, PlainNames DEF Byte
<1>2. ASSUME NEW op PROVE Outcome(RotateA(y, op), y, Here(y))
  <2> DEFINE res == op_rotate_shift(op, y.r["A"], F(y))
             v == Set(y, "A", res.result)
  <2>1. res.result \in Int
    BY <1>1, BitNumbers
  <2> HIDE DEF res
  <2>2. Kept(v, y)
    BY <1>1, <2>1, SetKeeps DEF Plain
  <2> HIDE DEF v
  <2>3. \A fs : Outcome(SetF(v, fs), y, Here(y))
    BY <2>2, SetFKeeps, Stays
  <2> QED
    BY <2>3 DEF RotateA, v, res
<1>3. \A fs : Outcome(SetF(y, fs), y, Here(y))
  BY <1>1, SetFKeeps, Stays
<1>4. Outcome(NEG(y), y, Here(y))
  <2> DEFINE res == alu8_op("SUB", 0, y.r["A"], F(y))
  <2>1. res.result \in Int
    <3>1. AluOps[2 + 1] = "SUB"
      BY DEF AluOps
    <3> QED
      BY <1>1, <3>1, AluNumbers
  <2> HIDE DEF res
  <2>2. Outcome(Give(y, "A", res), y, Here(y))
    BY <1>1, <2>1, GiveKeeps, Stays
  <2> QED
    BY <2>2 DEF NEG, res
<1> QED
  BY <1>2, <1>3, <1>4 DEF SCF, RRD, RLD, DigitFlags

\* z80_r has a null entry: the operands that pass it by, where o are the bytes.
ByY0 == {"INC_r", "DEC_r", "LD_r_n", "LD_r_r", "LD_r_HLp"}
ByZ0 == {"alu8_r", "LD_r_r", "LD_HLp_r"}
ByZ1 == {"BIT_b_r", "RES_b_r", "SET_b_r", "shift_rot_r"}
HalfByY1 == {"INC_rIXY", "DEC_rIXY", "LD_r_r_undoc", "LD_r_IXYp"}
HalfByZ1 == {"alu8_r_undoc", "LD_r_r_undoc", "LD_IXYp_r"}
Avoids(f, o) ==
  /\ f \in ByY0 => Y(o[0]) # 6
  /\ f \in ByZ0 => Z(o[0]) # 6
  /\ f \in ByZ1 \cup HalfByZ1 => Z(o[1]) # 6
  /\ f \in HalfByY1 => Y(o[1]) # 6

\* The operands of a function that are not null.
LEMMA NoNull ==
  ASSUME NEW y, Starts(y), NEW f, Avoids(f, y.opcode)
  PROVE  /\ f \in ByY0 => z80_r(Y(y.opcode[0])) \in Plain
         /\ f \in ByZ0 => z80_r(Z(y.opcode[0])) \in Plain
         /\ f \in ByZ1 \cup HalfByZ1 =>
              z80_r(Z(y.opcode[1])) \in Plain /\ z80_r_ixy(y, Z(y.opcode[1])) \in Plain
         /\ f \in HalfByY1 =>
              z80_r(Y(y.opcode[1])) \in Plain /\ z80_r_ixy(y, Y(y.opcode[1])) \in Plain
<1>1. /\ Y(y.opcode[0]) \in 0..7 /\ Z(y.opcode[0]) \in 0..7
      /\ Y(y.opcode[1]) \in 0..7 /\ Z(y.opcode[1]) \in 0..7
  BY Operands, FieldsOf
<1> QED
  BY <1>1, RegistersNamed, HalvesNamed DEF Avoids

\* z80_opcodes_alu8.c
Alu8Names == {"alu8_HLp", "alu8_n", "alu8_r", "alu8_r_undoc", "alu8_IXYp"}

\* The arithmetic of bytes stays here, whatever its operand.
LEMMA Alu8Ends ==
  ASSUME NEW y, Starts(y), NEW f \in Alu8Names, Avoids(f, y.opcode)
  PROVE  Outcome(Alu8(f, y), y, Here(y))
<1>1. /\ Kept(y, y) /\ "A" \in Plain /\ y.r["A"] \in Int
      /\ y.opcode[0] \in Byte /\ y.opcode[1] \in Byte /\ y.opcode[1] \in Int
      /\ y.read_buffer[0] \in Int
      /\ \A r \in Plain : y.r[r] \in Int
      /\ Word(y, "HL") \in Address /\ Indexed(y) \in Address
  BY StartKeeps, Operands, PlainNames DEF Byte, Pairs16
<1>2. ASSUME NEW b \in Byte, NEW n \in Int
      PROVE  Outcome(Arithmetic(y, Y(b), n), y, Here(y))
  <2> DEFINE res == alu8_op(AluOps[Y(b) + 1], y.r["A"], n, F(y))
  <2>1. res.result \in Int
    BY <1>1, AluNumbers, FieldsOf
  <2> HIDE DEF res
  <2>2. Outcome(Give(y, "A", res), y, Here(y))
    BY <1>1, <2>1, GiveKeeps, Stays
  <2> QED
    BY <2>2 DEF Arithmetic, res
<1>3. CASE f = "alu8_HLp"
  BY <1>1, <1>2, <1>3, Reads8 DEF Alu8
<1>4. CASE f = "alu8_n"
  BY <1>1, <1>2, <1>4 DEF Alu8
<1>5. CASE f = "alu8_r"
  <2>1. z80_r(Z(y.opcode[0])) \in Plain
    BY <1>5, NoNull DEF ByZ0
  <2> QED
    BY <1>1, <1>2, <1>5, <2>1 DEF Alu8
<1>6. CASE f = "alu8_r_undoc"
  <2>1. z80_r_ixy(y, Z(y.opcode[1])) \in Plain
    BY <1>6, NoNull DEF HalfByZ1
  <2> QED
    BY <1>1, <1>2, <1>6, <2>1 DEF Alu8
<1>7. CASE f = "alu8_IXYp"
  BY <1>1, <1>2, <1>7, Reads8 DEF Alu8
<1> QED
  BY <1>3, <1>4, <1>5, <1>6, <1>7 DEF Alu8Names

\* INC and DEC of a byte.
IncDecNames == {"INC_r", "INC_rIXY", "INC_HLp", "INC_IXYp",
                "DEC_r", "DEC_rIXY", "DEC_HLp", "DEC_IXYp"}

\* So do INC and DEC of a byte.
LEMMA IncDecEnds ==
  ASSUME NEW y, Starts(y), NEW f \in IncDecNames, Avoids(f, y.opcode)
  PROVE  Outcome(IncDec(f, y), y, Here(y))
<1> DEFINE step(b) == IF f \in {"INC_r", "INC_rIXY", "INC_HLp", "INC_IXYp"}
                        THEN alu8_inc(b, F(y)) ELSE alu8_dec(b, F(y))
           reg == IF f \in {"INC_r", "DEC_r"} THEN z80_r(Y(y.opcode[0]))
                  ELSE z80_r_ixy(y, Y(y.opcode[1]))
<1>1. /\ Kept(y, y) /\ y.read_buffer[0] \in Int /\ \A r \in Plain : y.r[r] \in Int
      /\ Word(y, "HL") \in Address /\ Indexed(y) \in Address
  BY StartKeeps, Operands DEF Byte, Pairs16
<1>2. \A b \in Int : step(b).result \in Int
  BY AluNumbers
<1>3. f \in {"INC_r", "DEC_r", "INC_rIXY", "DEC_rIXY"} => reg \in Plain
  BY NoNull DEF ByY0, HalfByY1
<1>4. CASE f \in {"INC_HLp", "DEC_HLp"}
  <2>1. IncDec(f, y) = Modify(y, Word(y, "HL"), step(y.read_buffer[0]))
    BY <1>4 DEF IncDec
  <2> HIDE DEF step
  <2> QED
    BY <1>1, <1>2, <2>1, ModifyStays
<1>5. CASE f \in {"INC_IXYp", "DEC_IXYp"}
  <2>1. IncDec(f, y) = Modify(y, Indexed(y), step(y.read_buffer[0]))
    BY <1>5 DEF IncDec
  <2> HIDE DEF step
  <2> QED
    BY <1>1, <1>2, <2>1, ModifyStays
<1>6. CASE f \in {"INC_r", "DEC_r", "INC_rIXY", "DEC_rIXY"}
  <2>1. IncDec(f, y) = Give(y, reg, step(y.r[reg]))
    BY <1>6 DEF IncDec
  <2> HIDE DEF step, reg
  <2>2. Kept(Give(y, reg, step(y.r[reg])), y)
    BY <1>1, <1>2, <1>3, <1>6, GiveKeeps
  <2> QED
    BY <2>1, <2>2, Stays
<1> QED
  BY <1>4, <1>5, <1>6 DEF IncDecNames

\* z80_opcodes_alu16.c
LEMMA Alu16Ends ==
  ASSUME NEW y, Starts(y)
  PROVE  /\ Outcome(ADC_HL_rp(y), y, Here(y)) /\ Outcome(ADD_HL_rp(y), y, Here(y))
         /\ Outcome(SBC_HL_rp(y), y, Here(y)) /\ Outcome(ADD_IXY_rp(y), y, Here(y))
         /\ \A rp \in {z80_rp(P(y.opcode[0])), IXY(y)}, n \in Int :
              Outcome(Count(y, rp, n), y, Here(y))
<1>1. /\ Kept(y, y)
      /\ z80_rp(P(y.opcode[0])) \in Pairs16 \ {"PC"}
      /\ z80_rp(P(y.opcode[1])) \in Pairs16 \ {"PC"}
      /\ IXY(y) \in Pairs16 \ {"PC"} /\ "HL" \in Pairs16 \ {"PC"}
      /\ \A rp \in Pairs16 : Word(y, rp) \in Int
  BY StartKeeps, Operands, FieldsOf, RegistersNamed DEF Pairs16, Address
<1>2. \A rp \in Pairs16 \ {"PC"}, n \in Int : \A fs :
        Outcome(SetF(SetWord(y, rp, n), fs), y, Here(y))
  BY <1>1, SetWordKeeps, SetFKeeps, Stays
<1>3. \A a \in Int, b \in Int : Plus(a, b) \in Int
  BY Conversions DEF Plus, Address
<1>4. Outcome(ADC_HL_rp(y), y, Here(y))
  <2> DEFINE c == IF "C" \in F(y) THEN 1 ELSE 0
             w == Word(y, z80_rp(P(y.opcode[1])))
             n == Plus(Word(y, "HL"), w + c)
  <2>1. n \in Int
    <3>1. c \in Int /\ w \in Int /\ Word(y, "HL") \in Int
      BY <1>1
    <3> HIDE DEF c, w
    <3>2. w + c \in Int
      BY <3>1
    <3> QED
      BY <1>3, <3>1, <3>2
  <2>2. \E fs : ADC_HL_rp(y) = SetF(SetWord(y, "HL", n), fs)
    BY DEF ADC_HL_rp
  <2> HIDE DEF n
  <2> QED
    BY <1>1, <1>2, <2>1, <2>2
<1>5. Outcome(ADD_HL_rp(y), y, Here(y))
  <2> DEFINE n == Plus(Word(y, "HL"), Word(y, z80_rp(P(y.opcode[0]))))
  <2>1. n \in Int
    BY <1>1, <1>3
  <2>2. \E fs : ADD_HL_rp(y) = SetF(SetWord(y, "HL", n), fs)
    BY DEF ADD_HL_rp
  <2> HIDE DEF n
  <2> QED
    BY <1>1, <1>2, <2>1, <2>2
<1>6. Outcome(SBC_HL_rp(y), y, Here(y))
  <2> DEFINE c == IF "C" \in F(y) THEN 1 ELSE 0
             w == Word(y, z80_rp(P(y.opcode[1])))
             n == Plus(Word(y, "HL"), -w - c)
  <2>1. n \in Int
    <3>1. c \in Int /\ w \in Int /\ Word(y, "HL") \in Int
      BY <1>1
    <3> HIDE DEF c, w
    <3>2. -w - c \in Int
      BY <3>1
    <3> QED
      BY <1>3, <3>1, <3>2
  <2>2. \E fs : SBC_HL_rp(y) = SetF(SetWord(y, "HL", n), fs)
    BY DEF SBC_HL_rp
  <2> HIDE DEF n
  <2> QED
    BY <1>1, <1>2, <2>1, <2>2
<1>7. Outcome(ADD_IXY_rp(y), y, Here(y))
  <2> DEFINE n == Plus(Word(y, IXY(y)), Word(y, z80_rp(P(y.opcode[1]))))
  <2>1. n \in Int
    BY <1>1, <1>3
  <2>2. \E fs : ADD_IXY_rp(y) = SetF(SetWord(y, IXY(y), n), fs)
    BY DEF ADD_IXY_rp
  <2> HIDE DEF n
  <2> QED
    BY <1>1, <1>2, <2>1, <2>2
<1>8. \A rp \in {z80_rp(P(y.opcode[0])), IXY(y)}, n \in Int :
        Outcome(Count(y, rp, n), y, Here(y))
  BY <1>1, CountKeeps, Stays
<1> QED
  BY <1>4, <1>5, <1>6, <1>7, <1>8

\* z80_opcodes_bit.c
Kinds3 == {"BIT", "SET", "RES"}

\* So do BIT, SET and RES, of a register that is not null.
LEMMA BitEnds ==
  ASSUME NEW y, Starts(y), NEW kind \in Kinds3
  PROVE  /\ Outcome(BitHLp(y, kind), y, Here(y)) /\ Outcome(BitIXYp(y, kind), y, Here(y))
         /\ z80_r(Z(y.opcode[1])) \in Plain => Outcome(BitR(y, kind), y, Here(y))
<1>1. /\ Kept(y, y) /\ y.read_buffer[0] \in Int /\ \A r \in Plain : y.r[r] \in Int
      /\ Word(y, "HL") \in Address /\ Indexed(y) \in Address
  BY StartKeeps, Operands DEF Byte, Pairs16
<1>2. \A b \in Int : \A i : BitOp(y, kind, b, i).result \in Int
  BY BitNumbers DEF Kinds3
<1>3. \A fs : Outcome(SetF(y, fs), y, Here(y))
  BY <1>1, SetFKeeps, Stays
<1>4. ASSUME NEW a \in Address, NEW i
      PROVE  LET res == BitOp(y, kind, y.read_buffer[0], i)
             IN /\ Outcome(Z80_8BIT_READ(y, a, 0, SetF(y, res.flags)), y, Here(y))
                /\ Outcome(Modify(y, a, res), y, Here(y))
  <2> DEFINE res == BitOp(y, kind, y.read_buffer[0], i)
  <2>1. res.result \in Int
    BY <1>1, <1>2
  <2> HIDE DEF res
  <2>2. Outcome(Z80_8BIT_READ(y, a, 0, SetF(y, res.flags)), y, Here(y))
    BY <1>3, Reads8
  <2>3. Outcome(Modify(y, a, res), y, Here(y))
    BY <2>1, ModifyStays
  <2> QED
    BY <2>2, <2>3 DEF res
<1>5. Outcome(BitHLp(y, kind), y, Here(y)) /\ Outcome(BitIXYp(y, kind), y, Here(y))
  BY <1>1, <1>4 DEF BitHLp, BitIXYp
<1>6. ASSUME NEW r \in Plain, r = z80_r(Z(y.opcode[1]))
      PROVE  Outcome(BitR(y, kind), y, Here(y))
  <2> DEFINE res == BitOp(y, kind, y.r[r], Y(y.opcode[1]))
  <2>1. res.result \in Int
    BY <1>1, <1>2
  <2> HIDE DEF res
  <2>2. Outcome(Give(y, r, res), y, Here(y))
    BY <1>1, <2>1, GiveKeeps, Stays
  <2> QED
    BY <1>6, <2>2 DEF BitR, res
<1> QED
  BY <1>5, <1>6

\* z80_opcodes_rotshift.c
LEMMA RotateEnds ==
  ASSUME NEW y, Starts(y)
  PROVE  /\ Outcome(shift_rot_HLp(y), y, Here(y)) /\ Outcome(shift_rot_IXYp(y), y, Here(y))
         /\ z80_r(Z(y.opcode[1])) \in Plain => Outcome(shift_rot_r(y), y, Here(y))
<1>1. /\ Kept(y, y) /\ y.read_buffer[0] \in Int /\ \A r \in Plain : y.r[r] \in Int
      /\ Word(y, "HL") \in Address /\ Indexed(y) \in Address
  BY StartKeeps, Operands DEF Byte, Pairs16
<1>2. \A b \in Int : \A i : Rotate(y, i, b).result \in Int
  BY BitNumbers DEF Rotate
<1>3. \A a \in Address :
        Outcome(Modify(y, a, Rotate(y, Y(y.opcode[3]), y.read_buffer[0])), y, Here(y))
  BY <1>1, <1>2, ModifyStays
<1>4. ASSUME NEW r \in Plain, r = z80_r(Z(y.opcode[1]))
      PROVE  Outcome(shift_rot_r(y), y, Here(y))
  <2>1. Outcome(Give(y, r, Rotate(y, Y(y.opcode[1]), y.r[r])), y, Here(y))
    BY <1>1, <1>2, GiveKeeps, Stays
  <2> QED
    BY <1>4, <2>1 DEF shift_rot_r
<1> QED
  BY <1>1, <1>3, <1>4 DEF shift_rot_HLp, shift_rot_IXYp

\* z80_opcodes_jumps.c. Where a jump may go: on, or to its target.
JumpNames   == {"CALL_cc_nn", "CALL_nn", "DJNZ_d", "JP_nn", "JP_cc_nn", "JP_HLp", "JR_cc_d",
                "JR_d"}
ReturnNames == {"RET", "RETI", "RET_cc", "RETN", "RST_y", "JP_IXYp"}
BlockNames  == {"CPD", "CPI", "CPDR", "CPIR", "LDD", "LDI", "LDDR", "LDIR", "OUTD", "OUTI",
                "OTDR", "OTIR"}
After(f, y) ==
  CASE f \in {"CALL_nn", "CALL_cc_nn", "JP_cc_nn"} -> Here(y) \cup {nn(y, 1)}
    [] f = "JP_nn" -> {nn(y, 1)}
    [] f = "RST_y" -> {8 * Y(y.opcode[0])}
    [] f = "JR_d"  -> {Plus(Word(y, "PC"), Signed8(y.opcode[1]))}
    [] f \in {"DJNZ_d", "JR_cc_d"} ->
         Here(y) \cup {Plus(Word(y, "PC"), Signed8(y.opcode[1]))}
    [] f \in ByRegister -> Address
    [] f \in BlockNames -> Here(y) \cup {Plus(Word(y, "PC"), -2)}
    [] OTHER -> Here(y)

\* More places to finish do no harm.
LEMMA Wider ==
  ASSUME NEW y, NEW w, NEW T, NEW S, Outcome(w, y, T), T \subseteq S
  PROVE  Outcome(w, y, S)
BY DEF Outcome, Finishes

\* The words a jump takes.
LEMMA JumpWords ==
  ASSUME NEW y, Starts(y)
  PROVE  /\ Word(y, "PC") \in Address
         /\ nn(y, 1) \in Int /\ Word16(nn(y, 1)) = nn(y, 1)
         /\ Word(y, "HL") \in Int /\ Pair(y) \in Int
         /\ Y(y.opcode[0]) \in 0..7
         /\ 8 * Y(y.opcode[0]) \in Int /\ Word16(8 * Y(y.opcode[0])) = 8 * Y(y.opcode[0])
         /\ Signed8(y.opcode[1]) \in Int
<1>1. \A a \in Address : Word16(a) = a /\ a \in Int
  BY SMT DEF Word16, Address
<1>2. /\ nn(y, 1) \in Address /\ Word(y, "HL") \in Address /\ Pair(y) \in Address
      /\ Word(y, "PC") \in Address
  BY Operands DEF Pairs16
<1>3. Y(y.opcode[0]) \in 0..7 /\ Signed8(y.opcode[1]) \in Int
  BY Operands, FieldsOf
<1>4. \A i \in 0..7 : 8 * i \in Address
  BY SMT DEF Address
<1> QED
  BY <1>1, <1>2, <1>3, <1>4

\* A relative jump, a call.
LEMMA JumpsEnd ==
  ASSUME NEW y, Starts(y), NEW T
  PROVE  /\ \A w : \A e \in Int :
              (Kept(w, y) /\ Plus(Word(y, "PC"), Signed8(e)) \in T /\ Signed8(e) \in Int)
                => Outcome(Relative(w, e), y, T)
         /\ \A n \in Int : Word16(n) \in T => /\ Outcome(Jump(y, n), y, T)
                                            /\ Outcome(Call(y, n), y, T)
         /\ Address \subseteq T => Outcome(Return16(y), y, T)
<1>1. Kept(y, y) /\ "SP" \in Pairs16 \ {"PC"}
  BY StartKeeps DEF Pairs16
<1>2. Kept(Drop(y, 2), y) /\ Kept(Drop(y, -2), y)
  BY <1>1, CountKeeps
<1>3. Word(y, "PC") \in Address /\ Word(y, "PC") \in Int /\ Pair(y) \in Int
  BY JumpWords DEF Address
<1>4. ASSUME NEW w, NEW e \in Int, Kept(w, y), Plus(Word(y, "PC"), Signed8(e)) \in T,
             Signed8(e) \in Int
      PROVE  Outcome(Relative(w, e), y, T)
  <2>1. Word(w, "PC") = Word(y, "PC") /\ Steady(w, y) /\ w.stage = y.stage
    BY <1>4 DEF Kept
  <2>2. Word(y, "PC") + Signed8(e) \in Int
    BY <1>3, <1>4
  <2>3. Outcome(SetWord(w, "PC", Word(y, "PC") + Signed8(e)), y, T)
    BY <1>4, <2>1, <2>2, JumpFinishes DEF Plus
  <2> QED
    BY <2>1, <2>3 DEF Relative, Jump
<1>5. ASSUME NEW n \in Int, Word16(n) \in T
      PROVE  Outcome(Jump(y, n), y, T) /\ Outcome(Call(y, n), y, T)
  <2>1. Outcome(Jump(y, n), y, T)
    BY <1>1, <1>5, JumpFinishes DEF Jump, Kept
  <2>2. Outcome(Jump(Drop(y, -2), n), y, T)
    BY <1>2, <1>5, JumpFinishes DEF Jump, Kept
  <2>3. Outcome(Push(y, Word(y, "PC"), Jump(Drop(y, -2), n)), y, T)
    BY <1>3, <2>2, StackMoves
  <2> QED
    BY <2>1, <2>3 DEF Call
<1>6. ASSUME Address \subseteq T PROVE Outcome(Return16(y), y, T)
  <2>1. Word16(Pair(y)) \in T
    BY <1>3, <1>6, Conversions
  <2>2. Outcome(Jump(Drop(y, 2), Pair(y)), y, T)
    BY <1>2, <1>3, <2>1, JumpFinishes DEF Jump, Kept
  <2>3. Outcome(Pop(y, Jump(Drop(y, 2), Pair(y))), y, T)
    BY <1>3, <2>2, StackMoves
  <2> QED
    BY <2>3 DEF Return16
<1> QED
  BY <1>4, <1>5, <1>6

\* Jumps and calls.
LEMMA JumpsGo ==
  ASSUME NEW y, Starts(y), NEW f \in JumpNames
  PROVE  Outcome(Jumps(f, y), y, After(f, y))
<1> SUFFICES ASSUME NEW T, T = After(f, y)
             PROVE  Outcome(Jumps(f, y), y, T)
  OBVIOUS
<1> DEFINE there == Plus(Word(y, "PC"), Signed8(y.opcode[1]))
<1>1. Kept(y, y) /\ y.opcode[1] \in Int /\ "B" \in Registers \ {"PCH", "PCL"}
  BY StartKeeps, Operands, PlainNames DEF Byte, Plain
<1>2. /\ Word(y, "PC") \in Address
      /\ nn(y, 1) \in Int /\ Word16(nn(y, 1)) = nn(y, 1) /\ Word(y, "HL") \in Int
      /\ Signed8(y.opcode[1]) \in Int
  BY JumpWords
<1>3. Word(y, "PC") \in T => Outcome(y, y, T)
  BY <1>1, KeptFinishes
<1>4. nn(y, 1) \in T => Outcome(Jump(y, nn(y, 1)), y, T) /\ Outcome(Call(y, nn(y, 1)), y, T)
  BY <1>2, JumpsEnd
<1>5. there \in T => \A w : Kept(w, y) => Outcome(Relative(w, y.opcode[1]), y, T)
  BY <1>1, <1>2, JumpsEnd
<1>6. CASE f \in {"CALL_cc_nn", "CALL_nn", "JP_cc_nn"}
  <2>1. Word(y, "PC") \in T /\ nn(y, 1) \in T
    BY <1>6 DEF After, Here, ByRegister, BlockNames
  <2> QED
    BY <1>3, <1>4, <1>6, <2>1 DEF Jumps
<1>7. CASE f = "JP_nn"
  <2>1. nn(y, 1) \in T
    BY <1>7 DEF After, ByRegister, BlockNames
  <2> QED
    BY <1>4, <1>7, <2>1 DEF Jumps
<1>8. CASE f = "JR_d"
  <2>1. there \in T
    BY <1>8 DEF After, ByRegister, BlockNames
  <2> QED
    BY <1>1, <1>5, <1>8, <2>1 DEF Jumps
<1>9. CASE f = "JR_cc_d"
  <2>1. Word(y, "PC") \in T /\ there \in T
    BY <1>9 DEF After, Here, ByRegister, BlockNames
  <2> QED
    BY <1>1, <1>3, <1>5, <1>9, <2>1 DEF Jumps
<1>10. CASE f = "DJNZ_d"
  <2>1. Word(y, "PC") \in T /\ there \in T
    BY <1>10 DEF After, Here, ByRegister, BlockNames
  <2>2. Byte8(y.r["B"] - 1) \in Int
    <3>1. y.r["B"] - 1 \in Int
      BY Operands, PlainNames DEF Byte
    <3> QED
      BY <3>1, Conversions DEF Byte
  <2> DEFINE w == Set(y, "B", Byte8(y.r["B"] - 1))
  <2>3. Kept(w, y)
    BY <1>1, <2>2, SetKeeps
  <2> HIDE DEF w
  <2>4. Outcome(w, y, T) /\ Outcome(Relative(w, y.opcode[1]), y, T)
    BY <1>5, <2>1, <2>3, KeptFinishes
  <2> QED
    BY <1>10, <2>4 DEF Jumps, w
<1>11. CASE f = "JP_HLp"
  <2>1. Word16(Word(y, "HL")) \in T
    BY <1>2, <1>11, Conversions DEF After, ByRegister, BlockNames
  <2>2. Outcome(Jump(y, Word(y, "HL")), y, T)
    BY <1>2, <2>1, JumpsEnd
  <2> QED
    BY <1>11, <2>2 DEF Jumps
<1> QED
  BY <1>6, <1>7, <1>8, <1>9, <1>10, <1>11 DEF JumpNames

\* Returns and restarts.
LEMMA ReturnsGo ==
  ASSUME NEW y, Starts(y), NEW f \in ReturnNames
  PROVE  Outcome(Returns(f, y), y, After(f, y))
<1> SUFFICES ASSUME NEW T, T = After(f, y)
             PROVE  Outcome(Returns(f, y), y, T)
  OBVIOUS
<1>1. Kept(y, y)
  BY StartKeeps
<1>2. /\ Word(y, "PC") \in Address /\ Pair(y) \in Int
      /\ 8 * Y(y.opcode[0]) \in Int /\ Word16(8 * Y(y.opcode[0])) = 8 * Y(y.opcode[0])
  BY JumpWords
<1>3. f \in {"RET", "RETI", "RET_cc", "RETN"} => T = Address
  BY DEF After, ByRegister, BlockNames
<1>4. CASE f \in {"RET", "RETI", "RET_cc"}
  <2>1. Outcome(Return16(y), y, T) /\ Outcome(y, y, T)
    BY <1>1, <1>2, <1>3, <1>4, JumpsEnd, KeptFinishes
  <2> QED
    BY <1>4, <2>1 DEF Returns
<1>5. CASE f = "RETN"
  <2> DEFINE w == Jump(Drop(y, 2), Pair(y))
  <2>1. Kept(Drop(y, 2), y)
    BY <1>1, CountKeeps DEF Pairs16
  <2>2. Word16(Pair(y)) \in T
    BY <1>2, <1>3, <1>5, Conversions
  <2>3. Outcome(w, y, T)
    BY <1>2, <2>1, <2>2, JumpFinishes DEF Jump, Kept
  <2> HIDE DEF w
  <2>4. Outcome([w EXCEPT !.iff1 = y.iff2], y, T)
    BY <2>3, IffAfter
  <2>5. Outcome(Pop(y, [w EXCEPT !.iff1 = y.iff2]), y, T)
    BY <1>2, <2>4, StackMoves
  <2> QED
    BY <1>5, <2>5 DEF Returns, w
<1>6. CASE f = "RST_y"
  <2>1. 8 * Y(y.opcode[0]) \in T
    BY <1>6 DEF After, ByRegister, BlockNames
  <2>2. Outcome(Call(y, 8 * Y(y.opcode[0])), y, T)
    BY <1>2, <2>1, JumpsEnd
  <2> QED
    BY <1>6, <2>2 DEF Returns
<1>7. CASE f = "JP_IXYp"
  <2>1. Outcome(Abort(y), y, T)
    BY AbortEnds
  <2> QED
    BY <1>7, <2>1 DEF Returns
<1> QED
  BY <1>4, <1>5, <1>6, <1>7 DEF ReturnNames

\* z80_opcodes_ld.c: a byte or a word is loaded or stored.
LEMMA Moves ==
  ASSUME NEW y, Starts(y)
  PROVE  /\ \A a \in Address :
              /\ Outcome(LoadA(y, a), y, Here(y))
              /\ \A r \in Plain :
                   Outcome(Z80_8BIT_READ(y, a, 0, Set(y, r, y.read_buffer[0])), y, Here(y))
              /\ \A b \in Int : Outcome(StoreByte(y, a, b), y, Here(y))
              /\ \A rp \in Pairs16 \ {"PC"} : /\ Outcome(LoadPair(y, a, rp), y, Here(y))
                                             /\ Outcome(StorePair(y, a, rp), y, Here(y))
         /\ \A r \in Plain, b \in Int : Outcome(Set(y, r, b), y, Here(y))
         /\ \A rp \in Pairs16 \ {"PC"}, n \in Int : Outcome(SetWord(y, rp, n), y, Here(y))
<1>1. Kept(y, y) /\ y.read_buffer[0] \in Int /\ Pair(y) \in Int /\ "A" \in Plain
  BY StartKeeps, Operands, JumpWords, PlainNames DEF Byte
<1>2. \A r \in Plain, b \in Int : Outcome(Set(y, r, b), y, Here(y))
  BY <1>1, SetKeeps, Stays DEF Plain
<1>3. \A rp \in Pairs16 \ {"PC"}, n \in Int : Outcome(SetWord(y, rp, n), y, Here(y))
  BY <1>1, SetWordKeeps, Stays
<1>4. ASSUME NEW a \in Address, NEW r \in Plain
      PROVE  Outcome(Z80_8BIT_READ(y, a, 0, Set(y, r, y.read_buffer[0])), y, Here(y))
  BY <1>1, <1>2, Reads8
<1>5. ASSUME NEW a \in Address PROVE Outcome(LoadA(y, a), y, Here(y))
  BY <1>1, <1>4 DEF LoadA
<1>6. ASSUME NEW a \in Address, NEW b \in Int PROVE Outcome(StoreByte(y, a, b), y, Here(y))
  BY <1>1, Stays, Writes8 DEF StoreByte
<1>7. ASSUME NEW a \in Address, NEW rp \in Pairs16 \ {"PC"}
      PROVE  /\ Outcome(LoadPair(y, a, rp), y, Here(y))
             /\ Outcome(StorePair(y, a, rp), y, Here(y))
  <2>1. Outcome(SetWord(y, rp, Pair(y)), y, Here(y))
    BY <1>1, <1>3
  <2>2. Outcome(LoadPair(y, a, rp), y, Here(y))
    BY <2>1, Reads16 DEF LoadPair
  <2>3. Lo(Word(y, rp)) \in Byte /\ Hi(Word(y, rp)) \in Byte
    BY Operands, BytesOfWord
  <2>4. Outcome(StorePair(y, a, rp), y, Here(y))
    BY <1>1, <2>3, Stays, Writes16 DEF StorePair
  <2> QED
    BY <2>2, <2>4
<1> QED
  BY <1>2, <1>3, <1>4, <1>5, <1>6, <1>7

LoadNames == {"LD_A_BCp", "LD_A_DEp", "LD_A_nnp", "LD_BCp_A", "LD_DEp_A", "LD_nnp_A",
              "LD_HLp_n", "LD_HLp_r", "LD_HL_nnp", "LD_nnp_HL", "LD_rp_nnp", "LD_nnp_rp",
              "LD_rp_nn", "LD_r_HLp", "LD_r_n", "LD_r_r", "LD_r_r_undoc", "LD_SP_HL",
              "LD_I_A", "LD_R_A"}
\* What the operands of the loads are.
LEMMA LoadOperands ==
  ASSUME NEW y, Starts(y)
  PROVE  /\ \A rp \in Pairs16 : Word(y, rp) \in Address /\ Word(y, rp) \in Int
         /\ \A i \in 0..2 : nn(y, i) \in Address /\ nn(y, i) \in Int
         /\ \A i \in 0..3 : y.opcode[i] \in Int
         /\ \A r \in Plain : y.r[r] \in Int
         /\ z80_rp(P(y.opcode[0])) \in Pairs16 \ {"PC"}
         /\ z80_rp2(P(y.opcode[0])) \in Pairs16 \ {"PC"}
         /\ z80_rp(P(y.opcode[1])) \in Pairs16 \ {"PC"}
         /\ IXY(y) \in {"IX", "IY"} /\ IXY(y) \in Pairs16 \ {"PC"}
         /\ Halves[IXY(y)][1] \in Plain /\ Halves[IXY(y)][2] \in Plain
         /\ Indexed(y) \in Address
<1>1. /\ z80_rp(P(y.opcode[0])) \in Pairs16 \ {"PC"}
      /\ z80_rp2(P(y.opcode[0])) \in Pairs16 \ {"PC"}
      /\ z80_rp(P(y.opcode[1])) \in Pairs16 \ {"PC"}
  BY Operands, FieldsOf, RegistersNamed
<1>2. IXY(y) \in {"IX", "IY"} /\ IXY(y) \in Pairs16 \ {"PC"}
  BY Operands DEF Pairs16
<1>3. Halves[IXY(y)][1] \in Plain /\ Halves[IXY(y)][2] \in Plain
  BY <1>2, Names DEF Plain
<1> QED
  BY <1>1, <1>2, <1>3, Operands DEF Address, Byte

\* So do the loads,
LEMMA LoadsEnd ==
  ASSUME NEW y, Starts(y), NEW f \in LoadNames, Avoids(f, y.opcode)
  PROVE  Outcome(Loads(f, y), y, Here(y))
<1>1. {"BC", "DE", "HL", "SP"} \subseteq Pairs16 \ {"PC"}
  BY DEF Pairs16
<1>2. CASE f = "LD_A_BCp"
  BY <1>1, <1>2, LoadOperands, Moves DEF Loads
<1>3. CASE f = "LD_A_DEp"
  BY <1>1, <1>3, LoadOperands, Moves DEF Loads
<1>4. CASE f = "LD_A_nnp"
  BY <1>4, LoadOperands, Moves DEF Loads
<1>5. CASE f \in {"LD_BCp_A", "LD_DEp_A", "LD_nnp_A"}
  <2>1. y.r["A"] \in Int
    BY LoadOperands, PlainNames
  <2> QED
    BY <1>1, <1>5, <2>1, LoadOperands, Moves DEF Loads
<1>6. CASE f = "LD_HLp_n"
  BY <1>1, <1>6, LoadOperands, Moves DEF Loads
<1>7. CASE f = "LD_HLp_r"
  <2>1. z80_r(Z(y.opcode[0])) \in Plain
    BY <1>7, NoNull DEF ByZ0
  <2> QED
    BY <1>1, <1>7, <2>1, LoadOperands, Moves DEF Loads
<1>8. CASE f \in {"LD_HL_nnp", "LD_nnp_HL"}
  BY <1>1, <1>8, LoadOperands, Moves DEF Loads
<1>9. CASE f \in {"LD_rp_nnp", "LD_nnp_rp"}
  BY <1>9, LoadOperands, Moves DEF Loads
<1>10. CASE f = "LD_rp_nn"
  BY <1>10, LoadOperands, Moves DEF Loads
<1>11. CASE f \in {"LD_r_HLp", "LD_r_n", "LD_r_r"}
  <2>1. z80_r(Y(y.opcode[0])) \in Plain
    BY <1>11, NoNull DEF ByY0
  <2>2. f = "LD_r_r" => z80_r(Z(y.opcode[0])) \in Plain
    BY NoNull DEF ByZ0
  <2>3. CASE f = "LD_r_HLp"
    BY <1>1, <2>1, <2>3, LoadOperands, Moves DEF Loads
  <2>4. CASE f = "LD_r_n"
    BY <2>1, <2>4, LoadOperands, Moves DEF Loads
  <2>5. CASE f = "LD_r_r"
    BY <2>1, <2>2, <2>5, LoadOperands, Moves DEF Loads
  <2> QED
    BY <1>11, <2>3, <2>4, <2>5
<1>12. CASE f = "LD_r_r_undoc"
  <2>1. z80_r_ixy(y, Y(y.opcode[1])) \in Plain /\ z80_r_ixy(y, Z(y.opcode[1])) \in Plain
    BY <1>12, NoNull DEF HalfByY1, HalfByZ1
  <2> QED
    BY <1>12, <2>1, LoadOperands, Moves DEF Loads
<1>13. CASE f = "LD_SP_HL"
  BY <1>1, <1>13, LoadOperands, Moves DEF Loads
<1>14. CASE f \in {"LD_I_A", "LD_R_A"}
  BY <1>14, LoadOperands, PlainNames, Moves DEF Loads
<1> QED
  BY <1>2, <1>3, <1>4, <1>5, <1>6, <1>7, <1>8, <1>9, <1>10, <1>11, <1>12, <1>13, <1>14
     DEF LoadNames

IndexNames == {"LD_IXY_nn", "LD_IXYH_n", "LD_IXYL_n", "LD_nnp_IXY", "LD_IXY_nnp",
               "LD_IXYp_n", "LD_IXYp_r", "LD_r_IXYp", "LD_SP_IXY"}

\* those of the index registers,
LEMMA LoadsIXYEnd ==
  ASSUME NEW y, Starts(y), NEW f \in IndexNames, Avoids(f, y.opcode)
  PROVE  Outcome(LoadsIXY(f, y), y, Here(y))
<1>1. CASE f \in {"LD_IXY_nn", "LD_nnp_IXY", "LD_IXY_nnp"}
  BY <1>1, LoadOperands, Moves DEF LoadsIXY
<1>2. CASE f \in {"LD_IXYH_n", "LD_IXYL_n"}
  BY <1>2, LoadOperands, Moves DEF LoadsIXY
<1>3. CASE f = "LD_IXYp_n"
  BY <1>3, LoadOperands, Moves DEF LoadsIXY
<1>4. CASE f = "LD_IXYp_r"
  <2>1. z80_r(Z(y.opcode[1])) \in Plain
    BY <1>4, NoNull DEF HalfByZ1
  <2> QED
    BY <1>4, <2>1, LoadOperands, Moves DEF LoadsIXY
<1>5. CASE f = "LD_r_IXYp"
  <2>1. z80_r(Y(y.opcode[1])) \in Plain
    BY <1>5, NoNull DEF HalfByY1
  <2> QED
    BY <1>5, <2>1, LoadOperands, Moves DEF LoadsIXY
<1>6. CASE f = "LD_SP_IXY"
  BY <1>6, LoadOperands, Moves DEF LoadsIXY, Pairs16
<1> QED
  BY <1>1, <1>2, <1>3, <1>4, <1>5, <1>6 DEF IndexNames

StackNames == {"PUSH_rp2", "PUSH_IXY", "POP_rp2", "POP_IXY"}

\* and PUSH and POP.
LEMMA StackEnds ==
  ASSUME NEW y, Starts(y), NEW f \in StackNames
  PROVE  Outcome(Stack(f, y), y, Here(y))
<1>1. Kept(y, y) /\ Kept(Drop(y, -2), y) /\ Kept(Drop(y, 2), y) /\ Pair(y) \in Int
  BY StartKeeps, CountKeeps, JumpWords DEF Pairs16
<1>2. ASSUME NEW rp \in Pairs16 \ {"PC"}
      PROVE  /\ Outcome(Push(y, Word(y, rp), Drop(y, -2)), y, Here(y))
             /\ Outcome(Pop(y, SetWord(Drop(y, 2), rp, Pair(y))), y, Here(y))
  <2>1. Word(y, rp) \in Address
    BY LoadOperands
  <2>2. /\ Outcome(Drop(y, -2), y, Here(y))
        /\ Outcome(SetWord(Drop(y, 2), rp, Pair(y)), y, Here(y))
    BY <1>1, SetWordKeeps, Stays
  <2> QED
    BY <2>1, <2>2, StackMoves
<1>3. CASE f \in {"PUSH_rp2", "POP_rp2"}
  BY <1>2, <1>3, LoadOperands DEF Stack
<1>4. CASE f \in {"PUSH_IXY", "POP_IXY"}
  BY <1>2, <1>4, LoadOperands DEF Stack
<1> QED
  BY <1>3, <1>4 DEF StackNames

\* The block instructions go on, or two bytes back.
LEMMA BlocksEnd ==
  ASSUME NEW y, Starts(y), NEW f \in BlockNames
  PROVE  Outcome(Blocks(f, y), y, Here(y) \cup {Plus(Word(y, "PC"), -2)})
<1> DEFINE T == Here(y) \cup {Plus(Word(y, "PC"), -2)}
<1>0. Word(y, "PC") \in T /\ Plus(Word(y, "PC"), -2) \in T
  BY DEF Here
<1> HIDE DEF T
<1>1. /\ Kept(y, y) /\ "B" \in Plain /\ "C" \in Plain
      /\ Word(y, "PC") \in Int /\ Word(y, "HL") \in Address /\ Word(y, "DE") \in Address
      /\ y.r["B"] \in Int /\ y.r["C"] \in Byte /\ y.read_buffer[0] \in Int
  BY StartKeeps, LoadOperands, Operands, PlainNames DEF Pairs16, Byte
<1>2. ASSUME NEW w, Kept(w, y), NEW more PROVE Outcome(Again(w, more), y, T)
  <2>1. Outcome(w, y, T)
    BY <1>0, <1>2, KeptFinishes
  <2>2. Word(w, "PC") = Word(y, "PC") /\ Steady(w, y) /\ w.stage = y.stage
    BY <1>2 DEF Kept
  <2>3. Word(y, "PC") + (-2) \in Int
    BY <1>1
  <2>4. Outcome(SetWord(w, "PC", Word(y, "PC") + (-2)), y, T)
    BY <1>0, <2>2, <2>3, JumpFinishes DEF Plus
  <2> QED
    BY <2>1, <2>2, <2>4 DEF Again, Count
<1>3. ASSUME NEW d \in {-1, 1} PROVE Outcome(Search(y, d), y, T)
  <2> DEFINE v == Count(Count(y, "BC", -1), "HL", d)
  <2>1. Kept(Count(y, "BC", -1), y)
    BY <1>1, CountKeeps DEF Pairs16
  <2>2. Kept(v, y)
    BY <2>1, CountKeeps DEF Pairs16
  <2> HIDE DEF v
  <2>3. \A fs : Outcome(SetF(v, fs), y, T)
    BY <1>0, <2>2, SetFKeeps, KeptFinishes
  <2>4. \A fs : Outcome(Z80_8BIT_READ(y, Word(y, "HL"), 0, SetF(v, fs)), y, T)
    BY <1>1, <2>3, Reads8
  <2> QED
    BY <2>4 DEF Search, v
<1>4. ASSUME NEW d \in {-1, 1}, NEW clear PROVE Outcome(Copy(y, d, clear), y, T)
  <2> DEFINE v == Count(Count(Count(y, "BC", -1), "HL", d), "DE", d)
             more == Word(v, "BC") # 0
             w(fs) == Again(SetF(v, fs), more)
             u(fs) == Z80_8BIT_WRITE(y, Word(y, "DE"), 0, y.read_buffer[0], w(fs))
  <2>1. Kept(Count(y, "BC", -1), y)
    BY <1>1, CountKeeps DEF Pairs16
  <2>2. Kept(Count(Count(y, "BC", -1), "HL", d), y)
    BY <2>1, CountKeeps DEF Pairs16
  <2>3. Kept(v, y)
    BY <2>2, CountKeeps DEF Pairs16
  <2> HIDE DEF v
  <2>4. \A fs : Outcome(w(fs), y, T)
    BY <1>2, <2>3, SetFKeeps
  <2> HIDE DEF w
  <2>5. \A fs : Outcome(u(fs), y, T)
    BY <1>1, <2>4, Writes8
  <2> HIDE DEF u
  <2>6. \A fs : Outcome(Z80_8BIT_READ(y, Word(y, "HL"), 0, u(fs)), y, T)
    BY <1>1, <2>5, Reads8
  <2> QED
    BY <2>6 DEF Copy, u, w, v
<1>5. ASSUME NEW d \in {-1, 1}, NEW fs PROVE Outcome(Send(y, d, fs), y, T)
  <2> DEFINE a == y.r["C"] + 256 * LeftToSend(y)
             v == SetF(Set(Count(y, "HL", d), "B", LeftToSend(y)), fs)
             w == Again(v, LeftToSend(y) # 0)
             u == Z80_8BIT_WRITE(y, a, 1, y.read_buffer[0], w)
  <2>1. LeftToSend(y) \in Byte /\ LeftToSend(y) \in Int
    <3>1. y.r["B"] - 1 \in Int
      BY <1>1
    <3> QED
      BY <3>1, Conversions DEF LeftToSend, Byte
  <2>2. a \in Address
    BY <1>1, <2>1, SMT DEF Byte, Address
  <2>3. Kept(Count(y, "HL", d), y)
    BY <1>1, CountKeeps DEF Pairs16
  <2>4. Kept(Set(Count(y, "HL", d), "B", LeftToSend(y)), y)
    BY <1>1, <2>1, <2>3, SetKeeps DEF Plain
  <2>5. Kept(v, y)
    BY <2>4, SetFKeeps
  <2> HIDE DEF v, a
  <2>6. Outcome(w, y, T)
    BY <1>2, <2>5
  <2> HIDE DEF w
  <2>7. Outcome(u, y, T)
    BY <1>1, <2>2, <2>6, Writes8
  <2> HIDE DEF u
  <2>8. Outcome(Z80_8BIT_READ(y, Word(y, "HL"), 0, u), y, T)
    BY <1>1, <2>7, Reads8
  <2> QED
    BY <2>8 DEF Send, u, w, v, a
<1>6. /\ Outcome(LDD(y), y, T) /\ Outcome(LDI(y), y, T) /\ Outcome(OTIR(y), y, T)
      /\ Outcome(OUTD(y, -1), y, T) /\ Outcome(OUTD(y, 1), y, T)
  BY <1>4, <1>5 DEF LDD, LDI, OTIR, OUTD
<1>7. Outcome(ClearParity(LDD(y)), y, T) /\ Outcome(ClearParity(LDI(y)), y, T)
  BY <1>6, FlagsAfter DEF ClearParity
<1>8. CASE f \in {"CPD", "CPI", "LDD", "LDI", "OUTD", "OUTI", "OTIR"}
  BY <1>3, <1>6, <1>8 DEF Blocks, T
<1>9. CASE f \in {"CPDR", "CPIR"}
  <2>1. Outcome(Repeated(Search(y, -1)), y, T) /\ Outcome(Repeated(Search(y, 1)), y, T)
    BY <1>3, RepeatedAfter
  <2> QED
    BY <1>9, <2>1 DEF Blocks, T
<1>10. CASE f \in {"LDDR", "LDIR", "OTDR"}
  <2>1. /\ Outcome(Repeated(ClearParity(LDD(y))), y, T)
        /\ Outcome(Repeated(ClearParity(LDI(y))), y, T) /\ Outcome(Repeated(OUTD(y, -1)), y, T)
    BY <1>6, <1>7, RepeatedAfter
  <2> QED
    BY <1>10, <2>1 DEF Blocks, T
<1> QED
  BY <1>8, <1>9, <1>10 DEF BlockNames

\* Ports: an address on 16 lines.
PortNames == {"IN_A_np", "OUT_np_A", "OUT_Cp_r"}

\* So do the transfers to and from ports, or they end the program.
LEMMA PortsEnd ==
  ASSUME NEW y, Starts(y), NEW f \in PortNames
  PROVE  Outcome(Ports(f, y), y, Here(y))
<1> DEFINE a == 256 * y.r["A"]
           r == z80_r(Y(y.opcode[1]))
<1>1. /\ Kept(y, y) /\ "A" \in Plain /\ y.read_buffer[0] \in Int
      /\ y.r["A"] \in Byte /\ y.r["C"] \in Byte /\ y.opcode[1] \in Byte
      /\ Y(y.opcode[1]) \in 0..7
  BY StartKeeps, Operands, PlainNames, FieldsOf DEF Byte
<1>2. /\ y.opcode[1] + a \in Address /\ y.r["C"] + a \in Address /\ y.r["A"] \in Int
  BY <1>1, SMT DEF Byte, Address
<1>3. Outcome(y, y, Here(y)) /\ Outcome(Set(y, "A", y.read_buffer[0]), y, Here(y))
  BY <1>1, Moves, Stays
<1> HIDE DEF a
<1>4. CASE f = "IN_A_np"
  <2>1. Outcome(Z80_8BIT_READ(y, y.opcode[1] + a, 1, Set(y, "A", y.read_buffer[0])), y,
                Here(y))
    BY <1>2, <1>3, Reads8
  <2> QED
    BY <1>4, <2>1 DEF Ports, a
<1>5. CASE f = "OUT_np_A"
  <2>1. Outcome(Z80_8BIT_WRITE(y, y.opcode[1] + a, 1, y.r["A"], y), y, Here(y))
    BY <1>2, <1>3, Writes8
  <2> QED
    BY <1>5, <2>1 DEF Ports, a
<1>6. CASE f = "OUT_Cp_r"
  <2>1. r # "" => r \in Plain
    <3>1. z80_r(6) = ""
      BY DEF z80_r
    <3> QED
      BY <1>1, <3>1, RegistersNamed
  <2> HIDE DEF r
  <2>2. CASE r = ""
    <3>1. Outcome(Abort(y), y, Here(y))
      BY AbortEnds
    <3> QED
      BY <1>6, <2>2, <3>1 DEF Ports, r
  <2>3. CASE r # ""
    <3>1. y.r[r] \in Int
      BY <2>1, <2>3, LoadOperands
    <3>2. Outcome(Z80_8BIT_WRITE(y, y.r["C"] + a, 1, y.r[r], y), y, Here(y))
      BY <1>2, <1>3, <3>1, Writes8
    <3> QED
      BY <1>6, <2>3, <3>2 DEF Ports, a, r
  <2> QED
    BY <2>2, <2>3
<1> QED
  BY <1>4, <1>5, <1>6 DEF PortNames

-----------------------------------------------------------------------------
(***************************************************************************)
(* All of them together, and the decoder that calls them.                  *)
(***************************************************************************)
RotateNames == {"RLA", "RLCA", "RRA", "RRCA"}
DigitNames  == {"SCF", "NEG", "RRD", "RLD"}
PairNames   == {"ADC_HL_rp", "ADD_HL_rp", "SBC_HL_rp", "ADD_IXY_rp", "INC_rp", "INC_IXY",
                "DEC_rp", "DEC_IXY"}
BitNames    == {"BIT_b_r", "RES_b_r", "SET_b_r", "BIT_b_HLp", "RES_b_HLp", "SET_b_HLp",
                "BIT_b_IXYp", "RES_b_IXYp", "SET_b_IXYp"}
ShiftNames  == {"shift_rot_r", "shift_rot_HLp", "shift_rot_IXYp"}
StayNames   == GeneralNames \cup RotateNames \cup DigitNames \cup Alu8Names \cup IncDecNames
               \cup PairNames \cup BitNames \cup ShiftNames \cup IndexNames \cup StackNames
               \cup PortNames \cup LoadNames
AbortNames  == Unimplemented \cup {"UNDOC"}
GoNames     == JumpNames \cup ReturnNames \cup BlockNames

\* The rows name no other function.
LEMMA NamesKnown == Known \cup HalfRows \subseteq StayNames \cup GoNames \cup AbortNames
BY DEF Known, HalfRows, Quiet, ByAddress, ByOffset, ByRegister, PlainAtoB, PlainCtoD,
       PlainEtoI, PlainLoads, PlainLtoN, PlainNtoR, PlainRotations, PlainStoU,
       StayNames, GoNames, AbortNames, GeneralNames, RotateNames, DigitNames, Alu8Names,
       IncDecNames, PairNames, BitNames, ShiftNames, IndexNames, StackNames, PortNames,
       LoadNames, JumpNames, ReturnNames, BlockNames, Unimplemented

\* Those that do not jump.
LEMMA StaysHere ==
  ASSUME NEW w, Starts(w), NEW f \in StayNames, Avoids(f, w.opcode), NEW v,
         w = Return(v, "RESET")
  PROVE  Outcome(Execute(f, v), w, Here(w))
<1>1. CASE f \in GeneralNames
  <2>1. Execute(f, v) = General(f, w)
    BY <1>1 DEF Execute, GeneralNames, Unimplemented
  <2> QED
    BY <1>1, <2>1, GeneralEnds
<1>2. CASE f \in RotateNames
  <2>1. \E op : Execute(f, v) = RotateA(w, op)
    BY <1>2 DEF Execute, RotateNames, Unimplemented
  <2> QED
    BY <2>1, AccumulatorEnds
<1>3. CASE f \in DigitNames
  <2>1. Execute(f, v) \in {SCF(w), NEG(w), RRD(w), RLD(w)}
    BY <1>3 DEF Execute, DigitNames, Unimplemented
  <2> QED
    BY <2>1, AccumulatorEnds
<1>4. CASE f \in Alu8Names
  <2>1. Execute(f, v) = Alu8(f, w)
    BY <1>4 DEF Execute, Alu8Names, Unimplemented
  <2> QED
    BY <1>4, <2>1, Alu8Ends
<1>5. CASE f \in IncDecNames
  <2>1. Execute(f, v) = IncDec(f, w)
    BY <1>5 DEF Execute, IncDecNames, Unimplemented
  <2> QED
    BY <1>5, <2>1, IncDecEnds
<1>6. CASE f \in PairNames
  <2>1. /\ f = "ADC_HL_rp" => Execute(f, v) = ADC_HL_rp(w)
        /\ f = "ADD_HL_rp" => Execute(f, v) = ADD_HL_rp(w)
        /\ f = "SBC_HL_rp" => Execute(f, v) = SBC_HL_rp(w)
        /\ f = "ADD_IXY_rp" => Execute(f, v) = ADD_IXY_rp(w)
        /\ f = "INC_rp" => Execute(f, v) = Count(w, z80_rp(P(w.opcode[0])), 1)
        /\ f = "DEC_rp" => Execute(f, v) = Count(w, z80_rp(P(w.opcode[0])), -1)
        /\ f = "INC_IXY" => Execute(f, v) = Count(w, IXY(w), 1)
        /\ f = "DEC_IXY" => Execute(f, v) = Count(w, IXY(w), -1)
    BY Zenon DEF Execute, Unimplemented
  <2> DEFINE sums   == {"ADC_HL_rp", "ADD_HL_rp", "SBC_HL_rp", "ADD_IXY_rp"}
             counts == {"INC_rp", "DEC_rp", "INC_IXY", "DEC_IXY"}
  <2>3. CASE f \in sums
    BY <2>1, <2>3, Alu16Ends
  <2>4. CASE f \in counts
    <3>1. /\ \A n \in Int : Outcome(Count(w, z80_rp(P(w.opcode[0])), n), w, Here(w))
          /\ \A n \in Int : Outcome(Count(w, IXY(w), n), w, Here(w))
      BY Alu16Ends
    <3>2. 1 \in Int /\ -1 \in Int
      OBVIOUS
    <3> QED
      BY <2>1, <2>4, <3>1, <3>2, Zenon
  <2>5. f \in sums \/ f \in counts
    BY <1>6 DEF PairNames
  <2> HIDE DEF sums, counts
  <2> QED
    BY <2>3, <2>4, <2>5, Zenon
<1>7. CASE f \in BitNames
  <2>1. "BIT" \in Kinds3 /\ "RES" \in Kinds3 /\ "SET" \in Kinds3
    BY DEF Kinds3
  <2>2. CASE f \in {"BIT_b_r", "RES_b_r", "SET_b_r"}
    <3>1. /\ f = "BIT_b_r" => Execute(f, v) = BitR(w, "BIT")
          /\ f = "RES_b_r" => Execute(f, v) = BitR(w, "RES")
          /\ f = "SET_b_r" => Execute(f, v) = BitR(w, "SET")
      BY DEF Execute, Unimplemented
    <3>2. z80_r(Z(w.opcode[1])) \in Plain
      BY <2>2, NoNull DEF ByZ1
    <3> QED
      BY <2>1, <2>2, <3>1, <3>2, BitEnds
  <2>3. CASE f \in {"BIT_b_HLp", "RES_b_HLp", "SET_b_HLp"}
    <3>1. /\ f = "BIT_b_HLp" => Execute(f, v) = BitHLp(w, "BIT")
          /\ f = "RES_b_HLp" => Execute(f, v) = BitHLp(w, "RES")
          /\ f = "SET_b_HLp" => Execute(f, v) = BitHLp(w, "SET")
      BY DEF Execute, Unimplemented
    <3> QED
      BY <2>1, <2>3, <3>1, BitEnds
  <2>4. CASE f \in {"BIT_b_IXYp", "RES_b_IXYp", "SET_b_IXYp"}
    <3>1. /\ f = "BIT_b_IXYp" => Execute(f, v) = BitIXYp(w, "BIT")
          /\ f = "RES_b_IXYp" => Execute(f, v) = BitIXYp(w, "RES")
          /\ f = "SET_b_IXYp" => Execute(f, v) = BitIXYp(w, "SET")
      BY DEF Execute, Unimplemented
    <3> QED
      BY <2>1, <2>4, <3>1, BitEnds
  <2> QED
    BY <1>7, <2>2, <2>3, <2>4 DEF BitNames
<1>8. CASE f \in ShiftNames
  <2>1. /\ f = "shift_rot_r" => Execute(f, v) = shift_rot_r(w)
        /\ f = "shift_rot_HLp" => Execute(f, v) = shift_rot_HLp(w)
        /\ f = "shift_rot_IXYp" => Execute(f, v) = shift_rot_IXYp(w)
    BY DEF Execute, Unimplemented
  <2>2. f = "shift_rot_r" => z80_r(Z(w.opcode[1])) \in Plain
    BY NoNull DEF ByZ1
  <2> QED
    BY <1>8, <2>1, <2>2, RotateEnds DEF ShiftNames
<1>9. CASE f \in IndexNames
  <2>1. Execute(f, v) = LoadsIXY(f, w)
    BY <1>9 DEF Execute, IndexNames, Unimplemented
  <2> QED
    BY <1>9, <2>1, LoadsIXYEnd
<1>10. CASE f \in StackNames
  <2>1. Execute(f, v) = Stack(f, w)
    BY <1>10 DEF Execute, StackNames, Unimplemented
  <2> QED
    BY <1>10, <2>1, StackEnds
<1>11. CASE f \in PortNames
  <2>1. Execute(f, v) = Ports(f, w)
    BY <1>11 DEF Execute, PortNames, Unimplemented
  <2> QED
    BY <1>11, <2>1, PortsEnd
<1>12. CASE f \in LoadNames
  <2>1. Execute(f, v) = Loads(f, w)
    BY <1>12 DEF Execute, LoadNames, Unimplemented
  <2> QED
    BY <1>12, <2>1, LoadsEnd
<1> QED
  BY <1>1, <1>2, <1>3, <1>4, <1>5, <1>6, <1>7, <1>8, <1>9, <1>10, <1>11, <1>12 DEF StayNames

\* Whatever the function: it asks for a byte there is room for, goes on where it says, or
\* ends the program.
LEMMA Executed ==
  ASSUME NEW v, Sane(v), NEW f \in StayNames \cup GoNames \cup AbortNames,
         Avoids(f, v.opcode)
  PROVE  Outcome(Execute(f, v), v, After(f, v))
<1> DEFINE w == Return(v, "RESET")
<1>1. Steady(w, v) /\ w.r = v.r /\ w.stage = "RESET"
  <2>1. Steady(v, v)
    BY DEF Steady
  <2> QED
    BY <2>1, ReturnKeeps
<1> HIDE DEF w
<1>2. Starts(w) /\ Avoids(f, w.opcode)
  BY <1>1 DEF Starts, Steady
<1>3. Here(w) = Here(v) /\ Word(w, "PC") = Word(v, "PC") /\ After(f, w) = After(f, v)
  <2>1. Word(w, "PC") = Word(v, "PC") /\ nn(w, 1) = nn(v, 1) /\ w.opcode = v.opcode
    BY <1>1 DEF Word, nn, Steady
  <2> QED
    BY <2>1 DEF Here, After
<1>4. \A u, T : Outcome(u, w, T) => Outcome(u, v, T)
  BY <1>1, <1>3 DEF Outcome, Steady, Asks
<1>5. CASE f \in StayNames
  <2>1. Outcome(Execute(f, v), w, Here(w))
    BY <1>2, <1>5, StaysHere DEF w
  <2>2. Here(w) \subseteq After(f, w)
    BY <1>5 DEF After, ByRegister, StayNames, BlockNames, GeneralNames, RotateNames,
       DigitNames,
       Alu8Names, IncDecNames, PairNames, BitNames, ShiftNames, IndexNames, StackNames,
       PortNames, LoadNames
  <2> QED
    BY <1>3, <1>4, <2>1, <2>2, Wider
<1>6. CASE f \in JumpNames
  <2>1. Execute(f, v) = Jumps(f, w)
    BY <1>6 DEF Execute, JumpNames, Unimplemented, w
  <2> QED
    BY <1>2, <1>3, <1>4, <1>6, <2>1, JumpsGo
<1>7. CASE f \in ReturnNames
  <2>1. Execute(f, v) = Returns(f, w)
    BY <1>7 DEF Execute, ReturnNames, Unimplemented, w
  <2> QED
    BY <1>2, <1>3, <1>4, <1>7, <2>1, ReturnsGo
<1>8. CASE f \in BlockNames
  <2>1. Execute(f, v) = Blocks(f, w)
    BY <1>8 DEF Execute, BlockNames, Unimplemented, w
  <2>2. After(f, w) = Here(w) \cup {Plus(Word(w, "PC"), -2)}
    BY <1>8 DEF After, BlockNames, ByRegister
  <2>3. Outcome(Execute(f, v), w, After(f, w))
    BY <1>2, <1>8, <2>1, <2>2, BlocksEnd
  <2> QED
    BY <1>3, <1>4, <2>3
<1>9. CASE f \in AbortNames
  <2>1. Execute(f, v) = Abort(w)
    BY <1>9 DEF Execute, AbortNames, Unimplemented, w
  <2>2. Outcome(Abort(w), w, After(f, w))
    BY <1>2, AbortEnds
  <2> QED
    BY <1>3, <1>4, <2>1, <2>2
<1> QED
  BY <1>5, <1>6, <1>7, <1>8, <1>9 DEF GoNames
-----------------------------------------------------------------------------
(***************************************************************************)
(* The decoder that calls them.                                            *)
(***************************************************************************)

\* What the tables have: rows whose function is known, goes through no null entry, and is
\* as long as its prefix and its operands take.
Lengths(e, first) ==
  /\ e.f \in Known \cup HalfRows /\ e.size \in first..4
  /\ e.f \in ByAddress => e.size = 3
  /\ e.f \in ByOffset \cup BlockNames => e.size = 2

\* The rows without a prefix.
LEMMA LengthsUnprefixed == \A e \in Unprefixed : Lengths(e, 1)
BY DEF Lengths, Unprefixed, Row, Known, Quiet, ByAddress, ByOffset, ByRegister, PlainAtoB,
       PlainCtoD, PlainEtoI, PlainLoads, PlainLtoN, PlainNtoR, PlainRotations, PlainStoU,
       BlockNames

\* Those of prefix CB, all of two bytes, and of DD CB, all of four.
LEMMA LengthsCB ==
  /\ \A e \in RowsCB : Lengths(e, 2) /\ e.size = 2
  /\ \A e \in RowsDDCB : Lengths(e, 4)
BY DEF Lengths, RowsCB, RowsDDCB, Row, Known, Quiet, ByAddress, ByOffset, PlainAtoB,
       PlainNtoR, PlainRotations, PlainStoU, BlockNames

\* Those of prefix ED: of two bytes, but two of them.
LEMMA LengthsED ==
  \A e \in RowsED : /\ Lengths(e, 2)
                    /\ e.f \notin {"LD_nnp_rp", "LD_rp_nnp"} => e.size = 2
BY DEF Lengths, RowsED, Row, Known, Quiet, ByAddress, ByOffset, ByRegister, PlainAtoB,
       PlainCtoD, PlainEtoI, PlainLoads, PlainLtoN, PlainNtoR, PlainRotations, PlainStoU,
       BlockNames

\* Those of prefixes DD and FD. None is for a prefix.
LEMMA LengthsDD ==
  /\ \A e \in RowsDD : Lengths(e, 2)
  /\ \A e \in RowsDD : DD \notin e.bytes /\ ED \notin e.bytes /\ FD \notin e.bytes
<1>1. \A e \in RowsDD : Lengths(e, 2)
  BY DEF Lengths, RowsDD, Row, Known, HalfRows, Quiet, ByAddress, ByOffset, ByRegister,
         PlainAtoB, PlainCtoD, PlainEtoI, PlainLoads, PlainLtoN, PlainNtoR, PlainRotations,
         PlainStoU, BlockNames
<1>2. ASSUME NEW e \in RowsDD, NEW b \in {DD, ED, FD} PROVE b \notin e.bytes
  <2>1. \/ e.bytes \in { {0}, At(1, {6}, {6}), At(1, Fields, Fields), At(1, Fields, {6}),
                        At(1, {6}, Fields), At(0, {6}, {6}), At(0, {4}, {6}) }
        \/ e.bytes \in { At(0, {5}, {6}), At(0, {4}, {1}), At(0, {5}, {2}), At(0, {4}, {2}),
                        At(0, Odd, {1}), At(0, {4}, {3}), At(0, {5}, {3}),
                        At(0, {4, 5}, {4}), At(0, {4, 5}, {5}), At(0, {6}, {4}) }
        \/ e.bytes \in { At(0, {6}, {5}), At(2, Fields, Fields), At(2, Fields, {6}) }
        \/ e.bytes \in { At(3, {4}, {1}), At(3, {4}, {5}), At(3, {4}, {3}), At(3, {5}, {1}),
                        At(3, {7}, {1}) }
    BY DEF RowsDD, Row
  <2>2. ASSUME NEW x \in 0..2, NEW ys \in SUBSET Fields, NEW zs \in SUBSET Fields
        PROVE  b \notin At(x, ys, zs)
    BY SMT DEF At, Fields, DD, ED, FD
  <2>3. ASSUME NEW y \in {4, 5, 7}, NEW zz \in {1, 3, 5}, y = 4 \/ zz = 1
        PROVE  b \notin At(3, {y}, {zz})
    <3>1. At(3, {y}, {zz}) = {192 + 8 * y + zz}
      BY SMT DEF At
    <3>2. b # 192 + 8 * y + zz
      BY <2>3, SMT DEF DD, ED, FD
    <3> QED
      BY <3>1, <3>2
  <2>4. b # 0
    BY DEF DD, ED, FD
  <2>5. /\ {4} \subseteq Fields /\ {5} \subseteq Fields /\ {6} \subseteq Fields
        /\ {1} \subseteq Fields /\ {2} \subseteq Fields /\ {3} \subseteq Fields
        /\ {4, 5} \subseteq Fields /\ Odd \subseteq Fields
    BY DEF Fields, Odd
  <2> QED
    BY <2>1, <2>2, <2>3, <2>4, <2>5
<1> QED
  BY <1>1, <1>2

\* Which tables have the functions that go through z80_r.
LEMMA ByTable ==
  /\ \A e \in Unprefixed : e.f \notin ByZ1 \cup HalfByZ1 \cup HalfByY1
  /\ \A e \in RowsCB : e.f \notin ByY0 \cup ByZ0 \cup HalfByZ1 \cup HalfByY1
  /\ \A e \in RowsED \cup RowsDDCB :
       e.f \notin ByY0 \cup ByZ0 \cup ByZ1 \cup HalfByZ1 \cup HalfByY1
  /\ \A e \in RowsDD : e.f \notin ByY0 \cup ByZ0 \cup ByZ1
BY DEF Unprefixed, RowsCB, RowsED, RowsDDCB, RowsDD, Row, ByY0, ByZ0, ByZ1, HalfByZ1, HalfByY1

\* No row of them goes through a null entry.
LEMMA RowsAvoid ==
  ASSUME NEW o \in [0..3 -> Byte]
  PROVE  /\ op_unpref[o[0]] # NoEntry => Avoids(op_unpref[o[0]].f, o)
         /\ op_cb[o[1]] # NoEntry => Avoids(op_cb[o[1]].f, o)
         /\ op_ed[o[1]] # NoEntry => Avoids(op_ed[o[1]].f, o)
         /\ op_dd[o[1]] # NoEntry => Avoids(op_dd[o[1]].f, o)
         /\ op_ddcb[o[3]] # NoEntry => Avoids(op_ddcb[o[3]].f, o)
<1> DEFINE S == 0..255
<1>1. o[0] \in Byte /\ o[1] \in Byte /\ o[3] \in Byte
  OBVIOUS
<1>2. o[0] \in S /\ o[1] \in S
  BY <1>1, SMT DEF Byte
<1> HIDE DEF S
<1>3. \A b \in S :
        /\ op_unpref[b].f \in ByY0 => Y(b) # 6
        /\ op_unpref[b].f \in ByZ0 => Z(b) # 6
        /\ op_cb[b].f \in ByZ1 => Z(b) # 6
        /\ op_dd[b].f \in HalfByY1 => Y(b) # 6
        /\ op_dd[b].f \in HalfByZ1 => Z(b) # 6
  BY NullEntryAvoided, Zenon DEF S, ByY0, ByZ0, ByZ1, HalfByY1, HalfByZ1
<1>4. CASE op_unpref[o[0]] # NoEntry
  BY <1>1, <1>2, <1>3, <1>4, RowsThere, ByTable DEF Avoids
<1> QED
  BY <1>1, <1>2, <1>3, RowsThere, ByTable DEF Avoids

\* The row of what has been fetched.
LEMMA EntryKnown ==
  ASSUME NEW w, Sane(w), Entry(w) # NoEntry
  PROVE  /\ Entry(w).f \in Known \cup HalfRows
         /\ Lengths(Entry(w), IF Prefixed(w) THEN 2 ELSE 1)
         /\ (w.opcode[0] \in {DD, FD} /\ w.opcode[1] = CB) => Entry(w).size = 4
         /\ Avoids(Entry(w).f, w.opcode)
<1>1. w.opcode \in [0..3 -> Byte] /\ CB # DD /\ CB # FD /\ CB # ED /\ ED # DD /\ ED # FD
  BY DEF Sane, CB, DD, ED, FD
<1>2. w.opcode[0] \in Byte /\ w.opcode[1] \in Byte /\ w.opcode[3] \in Byte
  BY <1>1
<1>3. \A e : Lengths(e, 4) => Lengths(e, 2) /\ e.size = 4
  BY DEF Lengths
<1>4. CASE w.opcode[0] = CB
  <2>1. Entry(w) = op_cb[w.opcode[1]] /\ Prefixed(w)
    BY <1>1, <1>4 DEF Entry, Prefixed
  <2> QED
    BY <1>1, <1>2, <1>4, <2>1, RowsThere, LengthsCB, RowsAvoid DEF Lengths
<1>5. CASE w.opcode[0] = ED
  <2>1. Entry(w) = op_ed[w.opcode[1]] /\ Prefixed(w)
    BY <1>1, <1>5 DEF Entry, Prefixed
  <2> QED
    BY <1>1, <1>2, <1>5, <2>1, RowsThere, LengthsED, RowsAvoid DEF Lengths
<1>6. CASE w.opcode[0] \in {DD, FD} /\ w.opcode[1] = CB
  <2>1. Entry(w) = op_ddcb[w.opcode[3]] /\ Prefixed(w)
    BY <1>1, <1>6 DEF Entry, Prefixed
  <2>2. Lengths(Entry(w), 4)
    BY <1>2, <2>1, RowsThere, LengthsCB
  <2> QED
    BY <1>1, <1>2, <1>3, <1>6, <2>1, <2>2, RowsAvoid DEF Lengths
<1>7. CASE w.opcode[0] \in {DD, FD} /\ w.opcode[1] # CB
  <2>1. Entry(w) = op_dd[w.opcode[1]] /\ Prefixed(w)
    BY <1>1, <1>7 DEF Entry, Prefixed
  <2> QED
    BY <1>1, <1>2, <1>7, <2>1, RowsThere, LengthsDD, RowsAvoid DEF Lengths
<1>8. CASE w.opcode[0] \notin {CB, DD, ED, FD}
  <2>1. Entry(w) = op_unpref[w.opcode[0]] /\ ~Prefixed(w)
    BY <1>8 DEF Entry, Prefixed
  <2> QED
    BY <1>1, <1>2, <1>8, <2>1, RowsThere, LengthsUnprefixed, RowsAvoid DEF Lengths
<1> QED
  BY <1>4, <1>5, <1>6, <1>7, <1>8

\* What has been fetched: two prefixes in a row, of which one is dropped; part of an
\* instruction; all of one.
Doubled(w) ==
  w.opcode_index >= 2 /\ w.opcode[0] \in {DD, FD} /\ w.opcode[1] \in {DD, ED, FD}
Short(w) ==
  /\ w.opcode_index \in 1..3 /\ ~Doubled(w)
  /\ Enough(w) => Entry(w) # NoEntry /\ Entry(w).size > w.opcode_index
Ready(w) ==
  ~Doubled(w) /\ Enough(w) /\ Entry(w) # NoEntry /\ Entry(w).size = w.opcode_index

\* All that only the bytes decide.
LEMMA SameBytes ==
  ASSUME NEW w, NEW v, w.opcode = v.opcode, w.opcode_index = v.opcode_index
  PROVE  /\ Entry(w) = Entry(v) /\ (Doubled(w) <=> Doubled(v))
         /\ (Short(w) <=> Short(v)) /\ (Ready(w) <=> Ready(v))
<1>1. Entry(w) = Entry(v) /\ (Prefixed(w) <=> Prefixed(v))
  BY DEF Entry, Prefixed
<1>2. (Enough(w) <=> Enough(v)) /\ (Doubled(w) <=> Doubled(v))
  BY <1>1 DEF Enough, Doubled
<1> QED
  BY <1>1, <1>2 DEF Short, Ready

\* A prefix that is dropped leaves one byte.
LEMMA Dropped ==
  ASSUME NEW v, Sane(v), v.opcode_index \in 1..4, v.opcode_index > 2 => ~Doubled(v)
  PROVE  /\ Sane(Unprefix(v)) /\ ~Doubled(Unprefix(v)) /\ Unprefix(v).r = v.r
         /\ Doubled(v) => Unprefix(v).opcode_index = 1 /\ ~Enough(Unprefix(v))
         /\ ~Doubled(v) => Unprefix(v) = v
<1>1. CASE ~Doubled(v)
  <2>1. Unprefix(v) = v
    BY <1>1 DEF Unprefix, Doubled
  <2> QED
    BY <1>1, <2>1
<1>2. CASE Doubled(v)
  <2> DEFINE o == [i \in 0..3 |-> v.opcode[IF i < 3 THEN i + 1 ELSE 3]]
             u == z80_instruction_unprefix(v)
  <2>1. Unprefix(v) = u
    BY <1>2 DEF Unprefix, Doubled
  <2>2. v.opcode_index = 2 /\ v.opcode \in [0..3 -> Byte] /\ DOMAIN v = FieldNames
    BY <1>2 DEF Sane, Doubled
  <2>3. o \in [0..3 -> Byte] /\ o[0] = v.opcode[1]
    BY <2>2
  <2>4. /\ DOMAIN u = FieldNames /\ u.r = v.r /\ u.opcode = o /\ u.opcode_index = 1
        /\ u.read_buffer = v.read_buffer /\ u.read_index = v.read_index
        /\ u.write_buffer = v.write_buffer /\ u.write_index = v.write_index
        /\ u.read_address = v.read_address /\ u.write_address = v.write_address
    BY <2>2 DEF FieldNames, z80_instruction_unprefix
  <2> HIDE DEF o, u
  <2>5. Sane(u)
    BY <2>3, <2>4 DEF Sane
  <2>6. ~Doubled(u)
    BY <2>4 DEF Doubled
  <2>7. ~Enough(u)
    BY <1>2, <2>3, <2>4 DEF Enough, Prefixed, Doubled
  <2> QED
    BY <1>2, <2>1, <2>4, <2>5, <2>6, <2>7
<1> QED
  BY <1>1, <1>2

\* The decoder does nothing but call the function of what is ready.
LEMMA DecodeCalls ==
  ASSUME NEW v, Sane(v), Ready(v)
  PROVE  /\ z80_instruction_decode(v) = Execute(Entry(v).f, v)
         /\ Outcome(Execute(Entry(v).f, v), v, After(Entry(v).f, v))
<1>1. Unprefix(v) = v
  BY DEF Ready, Doubled, Unprefix
<1>2. z80_instruction_decode(v) = Execute(Entry(v).f, v)
  BY <1>1 DEF z80_instruction_decode, Ready
<1>3. Entry(v).f \in StayNames \cup GoNames \cup AbortNames /\ Avoids(Entry(v).f, v.opcode)
  BY EntryKnown, NamesKnown DEF Ready
<1> QED
  BY <1>2, <1>3, Executed

\* It asks for more of what is short, and ends the program at a byte without a row.
LEMMA DecodeAsks ==
  ASSUME NEW v, NEW u, u = Unprefix(v), Sane(u), ~Doubled(u), u.opcode_index \in 1..4,
         Enough(u) /\ Entry(u) # NoEntry => Entry(u).size >= u.opcode_index
  PROVE  \/ z80_instruction_decode(v) = Return(u, "M1") /\ Short(u)
         \/ z80_instruction_decode(v) = Abort(u)
         \/ z80_instruction_decode(v) = z80_instruction_decode(u) /\ Ready(u)
<1>1. Unprefix(u) = u
  BY DEF Doubled, Unprefix
<1>2. CASE ~Enough(u)
  <2>1. z80_instruction_decode(v) = Return(u, "M1")
    BY <1>2 DEF z80_instruction_decode
  <2>2. u.opcode_index # 4
    BY <1>2 DEF Enough
  <2> QED
    BY <1>2, <2>1, <2>2 DEF Short
<1>3. CASE Enough(u) /\ Entry(u) = NoEntry
  BY <1>3 DEF z80_instruction_decode
<1>4. CASE Enough(u) /\ Entry(u) # NoEntry /\ Entry(u).size = u.opcode_index
  BY <1>1, <1>4 DEF z80_instruction_decode, Ready
<1>5. CASE Enough(u) /\ Entry(u) # NoEntry /\ Entry(u).size # u.opcode_index
  <2>1. z80_instruction_decode(v) = Return(u, "M1")
    BY <1>5 DEF z80_instruction_decode
  <2>2. Entry(u).size \in 1..4
    BY <1>5, EntryKnown DEF Lengths
  <2> QED
    BY <1>5, <2>1, <2>2 DEF Short
<1> QED
  BY <1>2, <1>3, <1>4, <1>5

\* One byte more of what is short is not too much of it.
LEMMA OneMore ==
  ASSUME NEW s, Sane(s), s.opcode_index = 0 \/ Short(s), NEW b \in Byte,
         NEW v, Sane(v), v.opcode = [s.opcode EXCEPT ![s.opcode_index] = b],
         v.opcode_index = s.opcode_index + 1
  PROVE  /\ v.opcode_index \in 1..4 /\ (v.opcode_index > 2 => ~Doubled(v))
         /\ Enough(v) /\ Entry(v) # NoEntry => Entry(v).size >= v.opcode_index
<1> DEFINE n == s.opcode_index
<1>1. n \in 0..3 /\ s.opcode \in [0..3 -> Byte] /\ v.opcode_index = n + 1
  BY DEF Sane, Short
<1>2. \A i \in 0..3 : v.opcode[i] = IF i = n THEN b ELSE s.opcode[i]
  BY <1>1
<1>3. v.opcode_index \in 1..4
  BY <1>1
<1>4. ASSUME v.opcode_index > 2 PROVE ~Doubled(v)
  <2>1. n >= 2
    BY <1>1, <1>4
  <2>2. v.opcode[0] = s.opcode[0] /\ v.opcode[1] = s.opcode[1] /\ ~Doubled(s)
    BY <1>1, <1>2, <2>1 DEF Short
  <2> QED
    BY <2>1, <2>2 DEF Doubled
<1>5. ASSUME Enough(v), Entry(v) # NoEntry PROVE Entry(v).size >= v.opcode_index
  <2>1. Entry(v).size \in 1..4 /\ (Prefixed(v) => Entry(v).size \in 2..4)
    <3>1. Lengths(Entry(v), IF Prefixed(v) THEN 2 ELSE 1)
      BY <1>5, EntryKnown
    <3>2. Lengths(Entry(v), 2) \/ (~Prefixed(v) /\ Lengths(Entry(v), 1))
      BY <3>1
    <3>3. \A e : /\ Lengths(e, 2) => e.size \in 1..4 /\ e.size \in 2..4
                 /\ Lengths(e, 1) => e.size \in 1..4
      BY DEF Lengths
    <3> QED
      BY <3>2, <3>3
  <2>2. CASE v.opcode[0] \in {DD, FD} /\ v.opcode[1] = CB
    <3>1. Entry(v).size = 4
      BY <1>5, <2>2, EntryKnown
    <3> QED
      BY <1>3, <3>1
  <2>3. CASE Prefixed(v) /\ n <= 1
    BY <1>1, <2>1, <2>3
  <2>4. CASE ~Prefixed(v) /\ n = 0
    BY <1>1, <2>1, <2>4
  <2>5. CASE ~Prefixed(v) /\ n >= 1
    <3>1. v.opcode[0] = s.opcode[0]
      BY <1>1, <1>2, <2>5
    <3>2. ~Prefixed(s) /\ Entry(v) = Entry(s)
      BY <2>5, <3>1 DEF Prefixed, Entry
    <3>3. Enough(s)
      BY <3>2 DEF Prefixed, Enough
    <3>4. Entry(s).size > n
      BY <2>5, <3>3 DEF Short
    <3> QED
      BY <1>1, <2>1, <3>2, <3>4
  <2>6. CASE Prefixed(v) /\ n > 1 /\ ~(v.opcode[0] \in {DD, FD} /\ v.opcode[1] = CB)
    <3>1. v.opcode[0] = s.opcode[0] /\ v.opcode[1] = s.opcode[1]
      BY <1>1, <1>2, <2>6
    <3>2. Prefixed(s) /\ Entry(v) = Entry(s)
      BY <2>6, <3>1 DEF Prefixed, Entry
    <3>3. Enough(s)
      BY <2>6, <3>1, <3>2 DEF Enough
    <3>4. Entry(s).size > n
      BY <2>6, <3>3 DEF Short
    <3> QED
      BY <1>1, <2>1, <3>2, <3>4
  <2> QED
    BY <1>1, <2>2, <2>3, <2>4, <2>5, <2>6
<1> QED
  BY <1>3, <1>4, <1>5

\* What the next stage is, and what it finds.
Going(w) ==
  /\ Sane(w) /\ w.stage \in {"RESET", "REFRESH", "M1", "M2", "M3", "ABORTED"}
  /\ w.stage = "M1" => Short(w)
  /\ w.stage \in {"M2", "M3"} => Ready(w)
  /\ w.stage = "M2" => w.read_index \in 0..1
  /\ w.stage = "M3" => w.write_index \in 0..1

\* How the decoder's result d comes from the bytes of u.
Comes(d, u) ==
  /\ d.opcode = u.opcode /\ d.opcode_index = u.opcode_index
  /\ d.stage \in {"M1", "M2", "M3"} => Word(d, "PC") = Word(u, "PC")
  /\ d.stage \in {"RESET", "REFRESH"} => Ready(u) /\ Word(d, "PC") \in After(Entry(u).f, u)

\* A byte has been moved.
LEMMA MoveGoes ==
  ASSUME NEW v, Sane(v), Ready(v)
  PROVE  Going(z80_instruction_decode(v)) /\ Comes(z80_instruction_decode(v), v)
<1> DEFINE d == z80_instruction_decode(v)
<1>1. Outcome(d, v, After(Entry(v).f, v))
  BY DecodeCalls
<1> HIDE DEF d
<1>2. Sane(d) /\ d.opcode = v.opcode /\ d.opcode_index = v.opcode_index /\ Ready(d)
  BY <1>1, SameBytes DEF Outcome, Steady
<1>3. \/ Asks(d, v) \/ Finishes(d, After(Entry(v).f, v)) \/ d.stage = "ABORTED"
  BY <1>1 DEF Outcome
<1>4. Going(d)
  BY <1>2, <1>3 DEF Going, Asks, Finishes
<1>5. Comes(d, v)
  BY <1>2, <1>3 DEF Comes, Asks, Finishes
<1> QED
  BY <1>4, <1>5 DEF d

\* What becomes of the bytes there are when there is one more.
LEMMA Fetched ==
  ASSUME NEW s, Sane(s), s.opcode_index = 0 \/ Short(s), NEW b \in Byte,
         NEW v, Sane(v), v.opcode = [s.opcode EXCEPT ![s.opcode_index] = b],
         v.opcode_index = s.opcode_index + 1
  PROVE  LET u == Unprefix(v)
             d == z80_instruction_decode(v)
         IN /\ Sane(u)
            /\ \/ d = Return(u, "M1") /\ Short(u)
               \/ d = Abort(u)
               \/ d = z80_instruction_decode(u) /\ Ready(u)
<1> DEFINE u == Unprefix(v)
           d == z80_instruction_decode(v)
<1>1. /\ v.opcode_index \in 1..4 /\ (v.opcode_index > 2 => ~Doubled(v))
      /\ Enough(v) /\ Entry(v) # NoEntry => Entry(v).size >= v.opcode_index
  BY OneMore
<1>2. /\ Sane(u) /\ ~Doubled(u) /\ u.opcode_index \in 1..4
      /\ Enough(u) /\ Entry(u) # NoEntry => Entry(u).size >= u.opcode_index
  BY <1>1, Dropped
<1>3. \/ d = Return(u, "M1") /\ Short(u)
      \/ d = Abort(u)
      \/ d = z80_instruction_decode(u) /\ Ready(u)
  BY <1>2, DecodeAsks
<1> QED
  BY <1>2, <1>3

\* A byte has been fetched.
LEMMA FetchGoes ==
  ASSUME NEW s, Sane(s), s.opcode_index = 0 \/ Short(s), NEW b \in Byte,
         NEW v, Sane(v), v.opcode = [s.opcode EXCEPT ![s.opcode_index] = b],
         v.opcode_index = s.opcode_index + 1
  PROVE  /\ Going(z80_instruction_decode(v))
         /\ Comes(z80_instruction_decode(v), Unprefix(v))
<1> DEFINE u == Unprefix(v)
           d == z80_instruction_decode(v)
<1>2. Sane(u)
  BY Fetched
<1>3. \/ d = Return(u, "M1") /\ Short(u)
      \/ d = Abort(u)
      \/ d = z80_instruction_decode(u) /\ Ready(u)
  BY Fetched
<1>4. Steady(u, u)
  BY <1>2 DEF Steady
<1> HIDE DEF u, d
<1>5. Going(d) /\ Comes(d, u)
  <2>1. CASE d = Return(u, "M1") /\ Short(u)
    <3>1. Steady(d, u) /\ d.r = u.r /\ d.stage = "M1"
      BY <1>4, <2>1, ReturnKeeps
    <3>2. Sane(d) /\ d.opcode = u.opcode /\ d.opcode_index = u.opcode_index /\ Short(d)
      BY <2>1, <3>1, SameBytes DEF Steady
    <3> QED
      BY <3>1, <3>2 DEF Going, Comes, Word
  <2>2. CASE d = Abort(u)
    <3>1. Steady(d, u) /\ d.stage = "ABORTED"
      BY <1>4, <2>2, ReturnKeeps DEF Abort
    <3> QED
      BY <3>1 DEF Going, Comes, Steady
  <2>3. CASE d = z80_instruction_decode(u) /\ Ready(u)
    BY <1>2, <2>3, MoveGoes
  <2> QED
    BY <1>3, <2>1, <2>2, <2>3
<1> QED
  BY <1>5 DEF d, u

-----------------------------------------------------------------------------
(***************************************************************************)
(* The same instruction as the disassembler reads it.                      *)
(***************************************************************************)

\* w has fetched what there is at a, whose four bytes are o.
Reads(w, o, a) ==
  /\ Word(w, "PC") = Plus(a, w.opcode_index)
  /\ \A i \in 0..3 : i < w.opcode_index => w.opcode[i] = o[i]

\* The disassembler said so.
Foretold(pc, o, a) ==
  \/ "INDIRECT_JUMP" \in z80d_decode_op(o, a).flags
  \/ pc \in Successors(z80d_decode_op(o, a)) \cup {a}

\* Two prefixes in a row are misjudged.
LEMMA DoubledMisjudged ==
  ASSUME NEW o \in [0..3 -> Byte], o[0] \in {DD, FD}, o[1] \in {DD, ED, FD}
  PROVE  Misjudged(o)
<1>1. o[1] \in Byte /\ o[0] # CB /\ o[0] # ED /\ o[1] # CB /\ DD # CB
  BY DEF CB, DD, ED, FD
<1>2. op_dd[o[1]] = NoEntry
  BY <1>1, RowsThere, LengthsDD
<1>3. od_dd[o[1]] = NoEntry
  <2>1. o[1] \in 0..255
    BY <1>1, SMT DEF Byte
  <2> QED
    BY <1>2, <2>1 DEF od_dd
<1>4. Decoded(o) = NoEntry
  BY <1>1, <1>3 DEF Decoded
<1> QED
  BY <1>4 DEF Misjudged

\* Both have the same row for the same bytes, and the same length.
LEMMA SameRow ==
  ASSUME NEW o \in [0..3 -> Byte], ~Misjudged(o), NEW u, Sane(u), Ready(u),
         \A i \in 0..3 : i < u.opcode_index => u.opcode[i] = o[i]
  PROVE  /\ Entry(u) = Decoded(o) /\ Entry(u).size = opcode_size(o)
         /\ Entry(u).f \in Known /\ Lengths(Entry(u), 1)
<1> DEFINE e == Entry(u)
           n == u.opcode_index
<1>1. /\ CB # DD /\ CB # FD /\ CB # ED /\ ED # DD /\ ED # FD
      /\ o[0] \in Byte /\ o[1] \in Byte /\ o[3] \in Byte
  BY DEF CB, DD, ED, FD
<1>2. /\ e # NoEntry /\ e.size = n /\ Lengths(e, IF Prefixed(u) THEN 2 ELSE 1)
      /\ Decoded(o) # NoEntry /\ Decoded(o).f \notin {"LD_nnp_rp", "LD_rp_nnp"}
      /\ (u.opcode[0] \in {DD, FD} /\ u.opcode[1] = CB) => e.size = 4
  BY EntryKnown DEF Ready, Misjudged
<1>3. Lengths(e, 1) /\ (Prefixed(u) => Lengths(e, 2))
  <2>1. \A x : Lengths(x, 2) => Lengths(x, 1)
    BY DEF Lengths
  <2> QED
    BY <1>2, <2>1
<1>4. n \in 1..4 /\ (Prefixed(u) => n \in 2..4)
  BY <1>2, <1>3 DEF Lengths
<1> HIDE DEF n
<1>5. u.opcode[0] = o[0] /\ (Prefixed(u) => u.opcode[1] = o[1])
  BY <1>4 DEF n
<1>6. e = Decoded(o) /\ e.size = opcode_size(o)
  <2>1. CASE o[0] = CB
    <3>1. e = op_cb[o[1]] /\ Decoded(o) = op_cb[o[1]] /\ opcode_size(o) = 2
      BY <1>1, <1>5, <2>1 DEF Prefixed, Entry, Decoded, od_cb, opcode_size
    <3>2. e.size = 2
      BY <1>1, <3>1, RowsThere, LengthsCB
    <3> QED
      BY <3>1, <3>2
  <2>2. CASE o[0] = ED
    <3>1. e = op_ed[o[1]] /\ Decoded(o) = op_ed[o[1]] /\ opcode_size(o) = 2
      BY <1>1, <1>5, <2>2 DEF Prefixed, Entry, Decoded, od_ed, opcode_size
    <3>2. e.size = 2
      BY <1>1, <1>2, <3>1, RowsThere, LengthsED
    <3> QED
      BY <3>1, <3>2
  <2>3. CASE o[0] \in {DD, FD} /\ o[1] = CB
    <3>1. u.opcode[0] \in {DD, FD} /\ u.opcode[1] = CB
      BY <1>5, <2>3 DEF Prefixed
    <3>2. n = 4
      BY <1>2, <3>1 DEF n
    <3>3. u.opcode[3] = o[3]
      BY <3>2 DEF n
    <3>4. e = op_ddcb[o[3]] /\ Decoded(o) = op_ddcb[o[3]] /\ opcode_size(o) = 4
      BY <1>1, <2>3, <3>1, <3>3 DEF Entry, Decoded, od_ddcb, opcode_size
    <3> QED
      BY <1>2, <3>1, <3>4
  <2>4. CASE o[0] \in {DD, FD} /\ o[1] # CB
    <3>1. u.opcode[0] \in {DD, FD} /\ u.opcode[1] = o[1]
      BY <1>5, <2>4 DEF Prefixed
    <3>2. e = op_dd[o[1]] /\ Decoded(o) = od_dd[o[1]] /\ opcode_size(o) = od_dd[o[1]].size
      BY <1>1, <2>4, <3>1 DEF Entry, Decoded, opcode_size
    <3>3. od_dd[o[1]] \in {NoEntry, op_dd[o[1]]}
      <4>1. o[1] \in 0..255
        BY <1>1, SMT DEF Byte
      <4> QED
        BY <4>1 DEF od_dd
    <3> QED
      BY <1>2, <3>2, <3>3
  <2>5. CASE o[0] \notin {CB, DD, ED, FD}
    <3>1. /\ e = op_unpref[o[0]] /\ Decoded(o) = op_unpref[o[0]]
          /\ opcode_size(o) = op_unpref[o[0]].size
      BY <1>5, <2>5 DEF Entry, Decoded, od_unpref, opcode_size
    <3> QED
      BY <3>1
  <2> QED
    BY <2>1, <2>2, <2>3, <2>4, <2>5
<1>7. e.f \in Known
  <2>1. o \in [0..3 -> 0..255]
    BY Bytes255
  <2> QED
    BY <1>2, <1>6, <2>1, RowOfBytes
<1> QED
  BY <1>3, <1>6, <1>7

\* What a row says.
LEMMA RowSays ==
  ASSUME NEW o, NEW f
  PROVE  /\ f \in Quiet => /\ Describe(f, o).size = opcode_size(o)
                           /\ Describe(f, o).flags = {"NORMAL"}
         /\ f \in ByAddress => /\ Describe(f, o).size = opcode_size(o)
                               /\ Describe(f, o).flags = Branches(f)
                               /\ Describe(f, o).address_jump = o[1] + 256 * o[2]
         /\ f = "RST_y" => /\ Describe(f, o).size = opcode_size(o)
                           /\ Describe(f, o).flags = Branches(f)
                           /\ Describe(f, o).address_jump = 8 * Y(o[0])
         /\ f \in ByOffset => /\ Describe(f, o).size = opcode_size(o)
                              /\ Describe(f, o).flags = Branches(f)
                              /\ Describe(f, o).immediate = Signed8(o[1])
         /\ f \in ByRegister => Describe(f, o).flags = Branches(f)
         /\ f \in Known => DOMAIN Describe(f, o) = DOMAIN defaultOpcode
<1> DEFINE d == [defaultOpcode EXCEPT !.size = opcode_size(o)]
           x == Describe(f, o)
<1>1. /\ d = [size |-> opcode_size(o), flags |-> {"NORMAL"}, immediate |-> 0,
              address |-> 0, address_next |-> 0, address_jump |-> 0]
      /\ DOMAIN d = DOMAIN defaultOpcode
  BY DEF defaultOpcode
<1> HIDE DEF d
<1>2. ASSUME f \in Quiet PROVE x = d
  <2>1. f \notin ByAddress /\ f \notin ByOffset /\ f \notin ByRegister /\ f # "RST_y"
    BY <1>2, Kinds, Zenon
  <2>2. f \notin {"CALL_cc_nn", "CALL_nn", "JP_cc_nn", "JP_nn", "DJNZ_d", "JR_cc_d", "JR_d"}
    BY <2>1 DEF ByAddress, ByOffset
  <2>3. f \in PlainAtoB \cup PlainCtoD \cup PlainEtoI \cup PlainLoads \cup PlainLtoN
              \cup PlainNtoR \cup PlainRotations \cup PlainStoU
    BY <1>2, Zenon DEF Quiet
  <2> QED
    BY <2>1, <2>2, <2>3 DEF Describe, d
<1>3. ASSUME f \in ByAddress
      PROVE  x = [d EXCEPT !.flags = Branches(f), !.address_jump = o[1] + 256 * o[2]]
  BY <1>3, Kinds DEF Describe, Quiet, ByAddress, ByOffset, d
<1>4. ASSUME f = "RST_y"
      PROVE  x = [d EXCEPT !.flags = Branches(f), !.address_jump = 8 * Y(o[0])]
  BY <1>4, Kinds DEF Describe, Quiet, ByAddress, ByOffset, d
<1>5. ASSUME f \in ByOffset
      PROVE  x = [d EXCEPT !.flags = Branches(f), !.immediate = Signed8(o[1])]
  BY <1>5, Kinds DEF Describe, Quiet, ByAddress, ByOffset, d
<1>6. ASSUME f \in ByRegister PROVE x = [d EXCEPT !.flags = Branches(f)]
  BY <1>6, Kinds DEF Describe, Quiet, ByAddress, ByOffset, d
<1> HIDE DEF x
<1>7. f \in Quiet => x.size = opcode_size(o) /\ x.flags = {"NORMAL"} /\ DOMAIN x = DOMAIN d
  BY <1>1, <1>2
<1>8. f \in ByAddress => /\ x.size = opcode_size(o) /\ x.flags = Branches(f)
                         /\ x.address_jump = o[1] + 256 * o[2] /\ DOMAIN x = DOMAIN d
  BY <1>1, <1>3
<1>9. f = "RST_y" => /\ x.size = opcode_size(o) /\ x.flags = Branches(f)
                     /\ x.address_jump = 8 * Y(o[0]) /\ DOMAIN x = DOMAIN d
  BY <1>1, <1>4
<1>10. f \in ByOffset => /\ x.size = opcode_size(o) /\ x.flags = Branches(f)
                         /\ x.immediate = Signed8(o[1]) /\ DOMAIN x = DOMAIN d
  BY <1>1, <1>5
<1>11. f \in ByRegister => x.flags = Branches(f) /\ DOMAIN x = DOMAIN d
  BY <1>1, <1>6
<1>12. f \in Known => DOMAIN x = DOMAIN defaultOpcode
  BY <1>1, <1>7, <1>8, <1>9, <1>10, <1>11 DEF Known
<1> QED
  BY <1>7, <1>8, <1>9, <1>10, <1>11, <1>12 DEF x

\* Where a row of each kind says that the program may go on.
LEMMA RowLeads ==
  ASSUME NEW o, NEW a, Decoded(o) # NoEntry, Decoded(o).f \in Known,
         NEW f, f = Decoded(o).f, NEW op, op = z80d_decode_op(o, a)
  PROVE  /\ f \in Quiet \cup {"CALL_cc_nn", "CALL_nn", "JP_cc_nn", "DJNZ_d", "JR_cc_d"}
              => Plus(a, opcode_size(o)) \in Successors(op)
         /\ f \in ByAddress => o[1] + 256 * o[2] \in Successors(op)
         /\ f = "RST_y" => 8 * Y(o[0]) \in Successors(op)
         /\ f \in ByOffset
              => Plus(a, Signed8(o[1]) + opcode_size(o)) \in Successors(op)
         /\ f \in ByRegister => "INDIRECT_JUMP" \in op.flags
<1> DEFINE x == Describe(f, o)
           j == IF "REL_JUMP" \in x.flags THEN Plus(a, x.immediate + x.size)
                ELSE x.address_jump
<1>1. op = [x EXCEPT !.address = a, !.address_next = Plus(a, x.size), !.address_jump = j]
  BY DEF z80d_decode_op
<1>2. DOMAIN x = {"size", "flags", "immediate", "address", "address_next", "address_jump"}
  BY RowSays DEF defaultOpcode
<1>3. f \in Quiet => x.size = opcode_size(o) /\ x.flags = {"NORMAL"}
  BY RowSays
<1>4. f \in ByAddress => /\ x.size = opcode_size(o) /\ x.flags = Branches(f)
                         /\ x.address_jump = o[1] + 256 * o[2]
  BY RowSays
<1>5. f = "RST_y" => x.flags = Branches(f) /\ x.address_jump = 8 * Y(o[0])
  BY RowSays
<1>6. f \in ByOffset => /\ x.size = opcode_size(o) /\ x.flags = Branches(f)
                        /\ x.immediate = Signed8(o[1])
  BY RowSays
<1>7. f \in ByRegister => x.flags = Branches(f)
  BY RowSays
<1> HIDE DEF x
<1>8. op.flags = x.flags /\ op.address_next = Plus(a, x.size) /\ op.address_jump = j
  <2> HIDE DEF j
  <2> QED
    BY <1>1, <1>2
<1>9. ASSUME f \in Quiet PROVE Plus(a, opcode_size(o)) \in Successors(op)
  BY <1>3, <1>8, <1>9 DEF Successors
<1>10. /\ f \in {"CALL_cc_nn", "CALL_nn", "JP_cc_nn", "DJNZ_d", "JR_cc_d"}
            => "NORMAL" \in Branches(f)
       /\ f \in ByAddress \cup {"RST_y"} => "CONST_JUMP" \in Branches(f)
                                         /\ "REL_JUMP" \notin Branches(f)
       /\ f \in ByOffset => "REL_JUMP" \in Branches(f)
       /\ f \in ByRegister => "INDIRECT_JUMP" \in Branches(f)
  BY DEF Branches, ByAddress, ByOffset, ByRegister
<1>11. ASSUME f \in {"CALL_cc_nn", "CALL_nn", "JP_cc_nn", "DJNZ_d", "JR_cc_d"}
       PROVE Plus(a, opcode_size(o)) \in Successors(op)
  <2>1. x.size = opcode_size(o) /\ x.flags = Branches(f)
    BY <1>4, <1>6, <1>11 DEF ByAddress, ByOffset
  <2> QED
    BY <1>8, <1>10, <1>11, <2>1 DEF Successors
<1>12. ASSUME f \in ByAddress PROVE o[1] + 256 * o[2] \in Successors(op)
  BY <1>4, <1>8, <1>10, <1>12 DEF Successors
<1>13. ASSUME f = "RST_y" PROVE 8 * Y(o[0]) \in Successors(op)
  BY <1>5, <1>8, <1>10, <1>13 DEF Successors
<1>14. ASSUME f \in ByOffset PROVE Plus(a, Signed8(o[1]) + opcode_size(o)) \in Successors(op)
  BY <1>6, <1>8, <1>10, <1>14 DEF Successors
<1>15. ASSUME f \in ByRegister PROVE "INDIRECT_JUMP" \in op.flags
  BY <1>7, <1>8, <1>10, <1>15
<1> QED
  BY <1>9, <1>11, <1>12, <1>13, <1>14, <1>15

\* Going round 64 KB.
LEMMA Rounds ==
  ASSUME NEW a \in Address, NEW n \in Int, NEW k \in Int
  PROVE  /\ Plus(Plus(a, n), k) = Plus(a, k + n)
         /\ Plus(Plus(a, 2), -2) = a
<1>1. /\ Plus(Plus(a, n), k) = Word16(Word16(a + n) + k)
      /\ Plus(a, k + n) = Word16(a + (k + n))
      /\ Plus(Plus(a, 2), -2) = Word16(Word16(a + 2) + -2)
  BY DEF Plus
<1>2. Word16(Word16(a + n) + k) = Word16(a + (k + n))
  BY SMT DEF Word16, Address
<1>3. Word16(Word16(a + 2) + -2) = a
  BY SMT DEF Word16, Address
<1> QED
  BY <1>1, <1>2, <1>3

\* So wherever the core goes on, the disassembler said that it might, or it is the same
\* instruction again.
LEMMA Foretells ==
  ASSUME NEW o \in [0..3 -> Byte], ~Misjudged(o), NEW a \in Address,
         NEW u, Sane(u), Ready(u), Reads(u, o, a), NEW pc \in After(Entry(u).f, u)
  PROVE  Foretold(pc, o, a)
<1> DEFINE f == Entry(u).f
           n == u.opcode_index
           op == z80d_decode_op(o, a)
<1>1. /\ Entry(u) = Decoded(o) /\ Entry(u).size = opcode_size(o) /\ f \in Known
      /\ Lengths(Entry(u), 1)
  BY SameRow DEF Reads
<1>2. n = opcode_size(o) /\ Word(u, "PC") = Plus(a, n) /\ Decoded(o) # NoEntry
  BY <1>1 DEF Reads, Ready
<1>3. n \in 1..4 /\ (f \in ByAddress => n = 3) /\ (f \in ByOffset \cup BlockNames => n = 2)
  BY <1>1, <1>2 DEF Lengths
<1> HIDE DEF f, n, op
<1>4. /\ f \in Quiet \cup {"CALL_cc_nn", "CALL_nn", "JP_cc_nn", "DJNZ_d", "JR_cc_d"}
           => Plus(a, opcode_size(o)) \in Successors(op)
      /\ f \in ByAddress => o[1] + 256 * o[2] \in Successors(op)
      /\ f = "RST_y" => 8 * Y(o[0]) \in Successors(op)
      /\ f \in ByOffset => Plus(a, Signed8(o[1]) + opcode_size(o)) \in Successors(op)
      /\ f \in ByRegister => "INDIRECT_JUMP" \in op.flags
  BY <1>1, <1>2, RowLeads DEF f, op
<1>5. Here(u) = {Plus(a, n)}
  BY <1>2 DEF Here
<1>6. /\ u.opcode[0] = o[0] /\ (n >= 2 => u.opcode[1] = o[1])
      /\ (n >= 3 => u.opcode[2] = o[2])
  BY <1>3 DEF Reads, n
<1>7. pc \in After(f, u)
  BY DEF f
<1>8. CASE f \in ByAddress
  <2>1. nn(u, 1) = o[1] + 256 * o[2]
    BY <1>3, <1>6, <1>8 DEF nn
  <2>2. \/ f = "JP_nn" /\ pc = nn(u, 1)
        \/ f \in {"CALL_cc_nn", "CALL_nn", "JP_cc_nn"} /\ pc \in {Plus(a, n), nn(u, 1)}
    BY <1>5, <1>7, <1>8 DEF After, ByAddress, ByRegister, BlockNames
  <2> QED
    BY <1>2, <1>4, <1>8, <2>1, <2>2 DEF Foretold, op
<1>9. CASE f \in ByOffset
  <2> DEFINE k == Signed8(o[1])
  <2>1. k \in Int
    BY SMT DEF Signed8, Byte
  <2>2. n = 2 /\ u.opcode[1] = o[1]
    BY <1>3, <1>6, <1>9
  <2>3. \/ f = "JR_d" /\ pc = Plus(Word(u, "PC"), k)
        \/ f \in {"DJNZ_d", "JR_cc_d"} /\ pc \in {Plus(a, n), Plus(Word(u, "PC"), k)}
    BY <1>5, <1>7, <1>9, <2>2 DEF After, ByOffset, ByRegister, BlockNames
  <2>5. Plus(a, k + n) \in Successors(op)
    BY <1>2, <1>4, <1>9
  <2>6. f \in {"DJNZ_d", "JR_cc_d"} => Plus(a, n) \in Successors(op)
    BY <1>2, <1>4
  <2> HIDE DEF k
  <2>4. Plus(Word(u, "PC"), k) = Plus(a, k + n)
    BY <1>2, <2>1, <2>2, Rounds
  <2> QED
    BY <2>3, <2>4, <2>5, <2>6 DEF Foretold, op
<1>10. CASE f = "RST_y"
  <2>1. pc = 8 * Y(o[0])
    BY <1>6, <1>7, <1>10 DEF After, ByRegister, BlockNames
  <2> QED
    BY <1>4, <1>10, <2>1 DEF Foretold, op
<1>11. CASE f \in ByRegister
  BY <1>4, <1>11 DEF Foretold, op
<1>12. CASE f \in Quiet
  <2>1. f \notin ByAddress \cup ByOffset \cup ByRegister \cup {"RST_y"}
    BY <1>12, Kinds
  <2>2. \/ pc = Plus(a, n)
        \/ f \in BlockNames /\ pc = Plus(Word(u, "PC"), -2)
    BY <1>5, <1>7, <2>1 DEF After, ByAddress, ByOffset
  <2>3. f \in BlockNames => Plus(Word(u, "PC"), -2) = a
    BY <1>2, <1>3, Rounds
  <2> QED
    BY <1>2, <1>4, <1>12, <2>2, <2>3 DEF Foretold, op
<1> QED
  BY <1>1, <1>8, <1>9, <1>10, <1>11, <1>12 DEF Known, f

-----------------------------------------------------------------------------
(***************************************************************************)
(* The program under the core.                                             *)
(***************************************************************************)
BytesOf(r, a) == [i \in 0..3 |-> IF a + i \in DOMAIN r THEN r[a + i] ELSE 0]

\* A ROM of bytes from address 0, and RAM above it.
Bytewise(r, m) ==
  /\ \E size \in 0..MemSize : DOMAIN r = 0..(size - 1)
  /\ r \in [DOMAIN r -> Byte]
  /\ m \in [(0..(MemSize - 1)) \ DOMAIN r -> Byte]

\* Next to the bytes at a, when the disassembler does not misjudge them, the core has read
\* as many of them as it has fetched, and goes on where it was foretold to.
Tracks(w, r, a) ==
  (a \in Within(r) /\ ~Misjudged(BytesOf(r, a))) =>
    /\ w.stage \in {"M1", "M2", "M3"} => Reads(w, BytesOf(r, a), a)
    /\ w.stage \in {"RESET", "REFRESH"} => Foretold(Word(w, "PC"), BytesOf(r, a), a)

CoreInv == Bytewise(rom, ram) /\ Going(z) /\ Tracks(z, rom, at)

\* The size of the memory, without its bound.
LEMMA Sizes == MemSize \in Nat /\ MemSize > 0 /\ MemSize <= 65536
BY MemSizeAssumption, SMT

\* Mirrored addresses.
LEMMA Mirrors ==
  ASSUME NEW a \in Nat
  PROVE  a % MemSize \in 0..(MemSize - 1) /\ (a < MemSize => a % MemSize = a)
BY Sizes, SMT

\* What is read from memory is a byte; where there is ROM, its own.
LEMMA MemoryGives ==
  ASSUME Bytewise(rom, ram), NEW a \in Nat
  PROVE  /\ Memory(a) \in Byte
         /\ a \in DOMAIN rom => Memory(a) = rom[a]
<1> DEFINE m == a % MemSize
<1>1. m \in 0..(MemSize - 1) /\ (a < MemSize => m = a)
  BY Mirrors
<1>2. PICK size \in 0..MemSize : DOMAIN rom = 0..(size - 1)
  BY DEF Bytewise
<1>3. a \in DOMAIN rom => a < MemSize
  BY <1>2, Sizes
<1>4. Memory(a) = IF m \in DOMAIN rom THEN rom[m] ELSE ram[m]
  BY DEF Memory
<1> HIDE DEF m
<1>5. Memory(a) \in Byte
  BY <1>1, <1>4 DEF Bytewise
<1> QED
  BY <1>1, <1>3, <1>4, <1>5

\* What is stored keeps its shape.
LEMMA StoreKeeps ==
  ASSUME Bytewise(rom, ram), NEW a, NEW b \in Byte
  PROVE  Bytewise(rom, Stored(a, b))
<1> DEFINE m == a % MemSize
<1>1. Stored(a, b) = IF m \in DOMAIN ram THEN [ram EXCEPT ![m] = b] ELSE ram
  BY DEF Stored
<1> HIDE DEF m
<1>2. Stored(a, b) \in [(0..(MemSize - 1)) \ DOMAIN rom -> Byte]
  BY <1>1 DEF Bytewise
<1> QED
  BY <1>2 DEF Bytewise

\* A port gives a byte.
LEMMA PortGives ==
  ASSUME NEW a \in Address
  PROVE  PortByte(a) \in Byte
<1>1. Hi(a) \in Byte /\ Lo(a) \in Byte /\ 256 * Hi(a) + Lo(a) = a
  BY BytesOfWord
<1>2. \A h \in Byte, l \in Byte : PortByte(256 * h + l) \in Byte
  <2> DEFINE S == 0..255
  <2>1. \A h \in S, l \in S : PortByte(256 * h + l) \in S
    BY PortAssumption, Zenon
  <2>2. Byte = S
    BY Bytes255, Zenon
  <2> HIDE DEF S
  <2>3. ASSUME NEW h \in Byte, NEW l \in Byte PROVE PortByte(256 * h + l) \in Byte
    <3>1. h \in S /\ l \in S
      BY <2>2, Zenon
    <3>2. PortByte(256 * h + l) \in S
      BY <2>1, <3>1, Zenon
    <3> QED
      BY <2>2, <3>2, Zenon
  <2> QED
    BY <2>3
<1> QED
  BY <1>1, <1>2

\* Where the analysis was there are four bytes of ROM.
LEMMA FourBytes ==
  ASSUME NEW r, NEW m, Bytewise(r, m), NEW a \in Within(r)
  PROVE  /\ a \in Address /\ BytesOf(r, a) \in [0..3 -> Byte]
         /\ \A i \in 0..3 : a + i \in DOMAIN r /\ BytesOf(r, a)[i] = r[a + i]
<1>1. PICK size \in 0..MemSize : DOMAIN r = 0..(size - 1)
  BY DEF Bytewise
<1>2. size \in Int /\ Cardinality(DOMAIN r) = size
  <2>1. size \in Int /\ Cardinality(0..(size - 1)) = size
    BY Sizes, FS_Interval
  <2> QED
    BY <1>1, <2>1
<1>3. a \in Nat /\ a <= size - 4
  BY <1>2 DEF Within
<1>4. \A i \in 0..3 : a + i \in DOMAIN r
  BY <1>1, <1>2, <1>3
<1>5. a \in Address
  BY <1>2, <1>3, Sizes, SMT DEF Address
<1>6. \A i \in 0..3 : BytesOf(r, a)[i] = r[a + i] /\ r[a + i] \in Byte
  BY <1>4 DEF BytesOf, Bytewise
<1>7. BytesOf(r, a) \in [0..3 -> Byte]
  BY <1>6 DEF BytesOf
<1> QED
  BY <1>4, <1>5, <1>6, <1>7

\* Latching a byte.
LEMMA LatchedIs ==
  ASSUME NEW s, Sane(s), s.opcode_index \in 0..3, NEW b \in Byte, b = Memory(Word(s, "PC"))
  PROVE  /\ Sane(Latched(s)) /\ Latched(s).opcode = [s.opcode EXCEPT ![s.opcode_index] = b]
         /\ Latched(s).opcode_index = s.opcode_index + 1
         /\ Word(Latched(s), "PC") = Plus(Word(s, "PC"), 1)
<1> DEFINE x == [s EXCEPT !.opcode[s.opcode_index] = b, !.opcode_index = @ + 1]
           q == s.r["R"]
           n == (128 * (q \div 128)) + ((q + 1) % 128)
           y == Set(x, "R", n)
           pc == Word(s, "PC")
<1>1. Latched(s) = SetWord(y, "PC", pc + 1)
  BY DEF Latched
<1>2. DOMAIN s = FieldNames /\ s.r \in [Registers -> Byte] /\ s.opcode \in [0..3 -> Byte]
  BY DEF Sane
<1>3. /\ DOMAIN x = FieldNames /\ x.r = s.r /\ x.stage = s.stage
      /\ x.opcode = [s.opcode EXCEPT ![s.opcode_index] = b]
      /\ x.opcode_index = s.opcode_index + 1
      /\ x.read_buffer = s.read_buffer /\ x.read_index = s.read_index
      /\ x.write_buffer = s.write_buffer /\ x.write_index = s.write_index
      /\ x.read_address = s.read_address /\ x.write_address = s.write_address
  BY <1>2 DEF FieldNames
<1> HIDE DEF x
<1>4. x.opcode \in [0..3 -> Byte] /\ x.opcode_index \in 0..4
  BY <1>2, <1>3
<1>5. Sane(x) /\ Steady(x, x)
  BY <1>3, <1>4 DEF Sane, Steady
<1>6. "R" \in Registers /\ n \in Int
  <2>1. "R" \in Registers /\ q \in Byte
    BY <1>2, Names
  <2> HIDE DEF q
  <2> QED
    BY <2>1, SMT DEF Byte
<1> HIDE DEF n
<1>7. Steady(y, x)
  BY <1>5, <1>6, SetSteady
<1>8. pc + 1 \in Int
  BY Words DEF Pairs16, Address
<1> HIDE DEF y
<1>9. /\ Steady(SetWord(y, "PC", pc + 1), x)
      /\ Word(SetWord(y, "PC", pc + 1), "PC") = Word16(pc + 1)
  BY <1>7, <1>8, JumpGoes
<1> QED
  BY <1>1, <1>3, <1>9 DEF Steady, Plus

\* What comes from bytes that have been tracked is tracked, too.
LEMMA ComesTracks ==
  ASSUME NEW o \in [0..3 -> Byte], ~Misjudged(o), NEW a \in Address,
         NEW u, Sane(u), Reads(u, o, a), NEW d, Comes(d, u)
  PROVE  /\ d.stage \in {"M1", "M2", "M3"} => Reads(d, o, a)
         /\ d.stage \in {"RESET", "REFRESH"} => Foretold(Word(d, "PC"), o, a)
<1>1. d.stage \in {"M1", "M2", "M3"} => Reads(d, o, a)
  BY DEF Comes, Reads
<1>2. d.stage \in {"RESET", "REFRESH"} => Foretold(Word(d, "PC"), o, a)
  BY Foretells DEF Comes
<1> QED
  BY <1>1, <1>2

\* One byte more has been read.
LEMMA FetchReads ==
  ASSUME Bytewise(rom, ram), NEW a \in Within(rom), ~Misjudged(BytesOf(rom, a)),
         NEW s, Sane(s), s.opcode_index \in 0..3, Reads(s, BytesOf(rom, a), a)
  PROVE  Reads(Latched(s), BytesOf(rom, a), a) /\ ~Doubled(Latched(s))
<1> DEFINE o == BytesOf(rom, a)
           n == s.opcode_index
           b == Memory(Word(s, "PC"))
           v == Latched(s)
<1>1. /\ a \in Address /\ o \in [0..3 -> Byte]
      /\ \A i \in 0..3 : a + i \in DOMAIN rom /\ o[i] = rom[a + i]
  BY FourBytes
<1>2. Word(s, "PC") = a + n
  <2>1. Word(s, "PC") = Plus(a, n)
    BY DEF Reads
  <2>2. a + n \in DOMAIN rom
    BY <1>1
  <2>3. a + n <= 65535
    <3>1. PICK size \in 0..MemSize : DOMAIN rom = 0..(size - 1)
      BY DEF Bytewise
    <3> QED
      BY <2>2, <3>1, Sizes, SMT
  <2> HIDE DEF n
  <2>4. n \in Nat
    BY DEF n
  <2>5. Plus(a, n) = a + n
    BY <1>1, <2>3, <2>4, SMT DEF Plus, Word16, Address
  <2> QED
    BY <2>1, <2>5 DEF n
<1>3. b = o[n] /\ b \in Byte
  <2>1. a + n \in DOMAIN rom /\ o[n] = rom[a + n] /\ a + n \in Nat /\ o[n] \in Byte
    BY <1>1 DEF Address
  <2> QED
    BY <1>2, <2>1, MemoryGives
<1>4. /\ v.opcode = [s.opcode EXCEPT ![n] = b] /\ v.opcode_index = n + 1
      /\ Word(v, "PC") = Plus(Word(s, "PC"), 1)
  BY <1>3, LatchedIs
<1>5. Word(v, "PC") = Plus(a, n + 1)
  <2>1. \A x : Plus(a + n, 1) = Plus(a, n + 1)
    <3>1. a \in Int /\ n \in Int
      BY <1>1 DEF Address
    <3>2. (a + n) + 1 = a + (n + 1)
      BY <3>1
    <3> QED
      BY <3>2 DEF Plus
  <2> QED
    BY <1>2, <1>4, <2>1
<1>6. s.opcode \in [0..3 -> Byte] /\ (\A i \in 0..3 : i < n => s.opcode[i] = o[i])
  BY DEF Sane, Reads
<1> HIDE DEF v, b, o
<1>7. \A i \in 0..3 : i < n + 1 => v.opcode[i] = o[i]
  BY <1>3, <1>4, <1>6
<1>8. Reads(v, o, a)
  BY <1>4, <1>5, <1>7 DEF Reads
<1>9. ~Doubled(v)
  <2>1. SUFFICES ASSUME Doubled(v) PROVE FALSE
    OBVIOUS
  <2>2. v.opcode[0] = o[0] /\ v.opcode[1] = o[1]
    BY <1>4, <1>7, <2>1 DEF Doubled
  <2>3. Misjudged(o)
    BY <1>1, <2>1, <2>2, DoubledMisjudged DEF Doubled
  <2> QED
    BY <2>3 DEF o
<1> QED
  BY <1>8, <1>9 DEF v, o

\* The program starts between two instructions.
LEMMA CoreInit == Init => CoreInv
<1>1. SUFFICES ASSUME Init PROVE CoreInv
  OBVIOUS
<1>2. PICK image \in Images :
        /\ rom = image.rom /\ z = Started(image.r)
        /\ ram = [a \in (0..(MemSize - 1)) \ DOMAIN image.rom |-> a % 256]
  BY <1>1 DEF Init
<1> DEFINE S == 0..255
<1>0. S = Byte
  BY Bytes255, Zenon
<1>3. PICK size \in 0..MemSize : image.rom \in [0..(size - 1) -> Byte]
  <2>1. \E size \in 0..MemSize : image.rom \in [0..(size - 1) -> S]
    BY ImagesAssumption, Zenon
  <2> HIDE DEF S
  <2> QED
    BY <1>0, <2>1, Zenon
<1>4. image.r \in [Registers -> Byte]
  <2>1. image.r \in [Registers -> S]
    BY ImagesAssumption, Zenon
  <2> HIDE DEF S
  <2> QED
    BY <1>0, <2>1, Zenon
<1> HIDE DEF S
<1>5. Bytewise(rom, ram)
  <2>1. DOMAIN rom = 0..(size - 1) /\ rom \in [DOMAIN rom -> Byte]
    BY <1>2, <1>3
  <2>2. \A a \in (0..(MemSize - 1)) \ DOMAIN image.rom : a % 256 \in Byte
    BY SMT DEF Byte
  <2>3. ram \in [(0..(MemSize - 1)) \ DOMAIN rom -> Byte]
    BY <1>2, <2>2
  <2> QED
    BY <2>1, <2>3 DEF Bytewise
<1>6. Going(z)
  <2>1. /\ DOMAIN z = FieldNames /\ z.r \in [Registers -> Byte]
        /\ z.opcode = [i \in 0..3 |-> <<DD, 54, 2, 255>>[i + 1]] /\ z.opcode_index = 0
        /\ z.read_index = 0 /\ z.write_index = 0 /\ z.read_address = 0 /\ z.write_address = 0
        /\ z.read_buffer = [i \in 0..1 |-> 0] /\ z.write_buffer = [i \in 0..1 |-> 0]
        /\ z.stage = "RESET"
    BY <1>2, <1>4 DEF Started, FieldNames
  <2>2. 0 \in Byte /\ 0 \in Address
    BY SMT DEF Byte, Address
  <2>3. z.opcode \in [0..3 -> Byte]
    <3>1. \A i \in 0..3 : <<DD, 54, 2, 255>>[i + 1] \in Byte
      BY SMT DEF DD, Byte
    <3> QED
      BY <2>1, <3>1
  <2>4. Sane(z)
    BY <2>1, <2>2, <2>3 DEF Sane
  <2> QED
    BY <2>1, <2>4 DEF Going
<1>7. Tracks(z, rom, at)
  <2>1. at \notin Within(rom)
    BY <1>1 DEF Init, None, Within
  <2> QED
    BY <2>1 DEF Tracks
<1> QED
  BY <1>5, <1>6, <1>7 DEF CoreInv

\* What is fetched.
LEMMA Fetches ==
  ASSUME CoreInv, z.stage \in {"RESET", "M1"}
  PROVE  LET s == IF z.stage = "RESET" THEN z80_reset_pipeline(z) ELSE z
             b == Memory(Word(s, "PC"))
             v == Latched(s)
         IN /\ Sane(s) /\ (s.opcode_index = 0 \/ Short(s)) /\ Word(s, "PC") = Word(z, "PC")
            /\ z.stage = "RESET" => s.opcode_index = 0
            /\ s.opcode_index \in 0..3 /\ b \in Byte
            /\ Sane(v) /\ v.opcode = [s.opcode EXCEPT ![s.opcode_index] = b]
            /\ v.opcode_index = s.opcode_index + 1
<1> DEFINE s == IF z.stage = "RESET" THEN z80_reset_pipeline(z) ELSE z
           v == Latched(s)
           b == Memory(Word(s, "PC"))
<1>1. /\ Sane(s) /\ (s.opcode_index = 0 \/ Short(s)) /\ Word(s, "PC") = Word(z, "PC")
      /\ z.stage = "RESET" => s.opcode_index = 0
  <2>1. CASE z.stage = "RESET"
    <3> DEFINE x == z80_reset_pipeline(z)
    <3>1. DOMAIN z = FieldNames /\ Sane(z)
      BY DEF CoreInv, Going, Sane
    <3>2. /\ DOMAIN x = FieldNames /\ x.r = z.r /\ x.opcode = z.opcode
          /\ x.opcode_index = 0 /\ x.read_index = 0 /\ x.write_index = 0
          /\ x.read_buffer = z.read_buffer /\ x.write_buffer = z.write_buffer
          /\ x.read_address = z.read_address /\ x.write_address = z.write_address
      BY <3>1 DEF z80_reset_pipeline, FieldNames
    <3> HIDE DEF x
    <3>3. Sane(x) /\ Word(x, "PC") = Word(z, "PC")
      BY <3>1, <3>2 DEF Sane, Word
    <3>4. s = x
      BY <2>1 DEF x
    <3> HIDE DEF s
    <3> QED
      BY <3>2, <3>3, <3>4
  <2>2. CASE z.stage = "M1"
    BY <2>2 DEF CoreInv, Going
  <2> QED
    BY <2>1, <2>2
<1> HIDE DEF s
<1>2. b \in Byte
  <2>1. Word(s, "PC") \in Nat
    BY <1>1, Words DEF Pairs16, Address
  <2> QED
    BY <2>1, MemoryGives DEF CoreInv
<1>3. s.opcode_index \in 0..3
  BY <1>1 DEF Short
<1>4. /\ Sane(v) /\ v.opcode = [s.opcode EXCEPT ![s.opcode_index] = b]
      /\ v.opcode_index = s.opcode_index + 1
  BY <1>1, <1>2, <1>3, LatchedIs
<1> QED
  BY <1>1, <1>2, <1>3, <1>4 DEF s

\* The next byte of an instruction, or the first of one.
LEMMA M1Keeps ==
  ASSUME CoreInv, z80_stage_m1
  PROVE  CoreInv'
<1> DEFINE s == IF z.stage = "RESET" THEN z80_reset_pipeline(z) ELSE z
           v == Latched(s)
           b == Memory(Word(s, "PC"))
           a == IF z.stage = "RESET" THEN Word(z, "PC") ELSE at
<1>1. /\ z.stage \in {"RESET", "M1"} /\ z' = z80_instruction_decode(v) /\ at' = a
      /\ rom' = rom /\ ram' = ram
  BY DEF z80_stage_m1, zedVars
<1>2. /\ Sane(s) /\ (s.opcode_index = 0 \/ Short(s)) /\ Word(s, "PC") = Word(z, "PC")
      /\ z.stage = "RESET" => s.opcode_index = 0
      /\ s.opcode_index \in 0..3 /\ b \in Byte
      /\ Sane(v) /\ v.opcode = [s.opcode EXCEPT ![s.opcode_index] = b]
      /\ v.opcode_index = s.opcode_index + 1
  BY <1>1, Fetches
<1> HIDE DEF s
<1> HIDE DEF v, b, a
<1>6. Going(z') /\ Comes(z', Unprefix(v))
  BY <1>1, <1>2, FetchGoes
<1>7. Bytewise(rom', ram')
  BY <1>1 DEF CoreInv
<1>8. Tracks(z', rom, a)
  <2>1. SUFFICES ASSUME a \in Within(rom), ~Misjudged(BytesOf(rom, a))
                 PROVE  /\ z'.stage \in {"M1", "M2", "M3"} => Reads(z', BytesOf(rom, a), a)
                        /\ z'.stage \in {"RESET", "REFRESH"}
                             => Foretold(Word(z', "PC"), BytesOf(rom, a), a)
    BY DEF Tracks
  <2> DEFINE o == BytesOf(rom, a)
  <2>2. a \in Address /\ o \in [0..3 -> Byte]
    BY <2>1, FourBytes DEF CoreInv
  <2> HIDE DEF o
  <2>3. Reads(s, o, a)
    <3>1. CASE z.stage = "RESET"
      <4>1. s.opcode_index = 0 /\ Word(s, "PC") = a
        BY <1>2, <3>1 DEF a
      <4>2. Plus(a, 0) = a
        BY <2>2, SMT DEF Plus, Word16, Address
      <4> QED
        BY <4>1, <4>2 DEF Reads
    <3>2. CASE z.stage = "M1"
      <4>1. s = z /\ a = at
        BY <3>2 DEF s, a
      <4> QED
        BY <2>1, <3>2, <4>1 DEF CoreInv, Tracks, o
    <3> QED
      BY <1>1, <3>1, <3>2
  <2>4. Reads(v, o, a) /\ ~Doubled(v)
    BY <1>2, <2>1, <2>3, FetchReads DEF CoreInv, v, o
  <2>5. Unprefix(v) = v
    BY <2>4 DEF Unprefix, Doubled
  <2> QED
    BY <1>2, <1>6, <2>1, <2>2, <2>4, <2>5, ComesTracks DEF o
<1> QED
  BY <1>1, <1>6, <1>7, <1>8 DEF CoreInv

\* A byte is moved: the function called again finds its own bytes.
LEMMA MoveKeeps ==
  ASSUME Going(z), Tracks(z, rom, at), Bytewise(rom, ram), z.stage \in {"M2", "M3"},
         NEW v, Sane(v), v.r = z.r, v.opcode = z.opcode, v.opcode_index = z.opcode_index
  PROVE  /\ Going(z80_instruction_decode(v))
         /\ Tracks(z80_instruction_decode(v), rom, at)
<1> DEFINE d == z80_instruction_decode(v)
<1>1. Ready(v)
  BY SameBytes DEF Going
<1>2. Going(d) /\ Comes(d, v)
  BY <1>1, MoveGoes
<1> HIDE DEF d
<1>3. Tracks(d, rom, at)
  <2>1. SUFFICES ASSUME at \in Within(rom), ~Misjudged(BytesOf(rom, at))
                 PROVE  /\ d.stage \in {"M1", "M2", "M3"} => Reads(d, BytesOf(rom, at), at)
                        /\ d.stage \in {"RESET", "REFRESH"}
                             => Foretold(Word(d, "PC"), BytesOf(rom, at), at)
    BY DEF Tracks
  <2> DEFINE o == BytesOf(rom, at)
  <2>2. at \in Address /\ o \in [0..3 -> Byte]
    BY <2>1, FourBytes
  <2>3. Reads(z, o, at)
    BY <2>1 DEF Tracks
  <2> HIDE DEF o
  <2>4. Reads(v, o, at)
    BY <2>3 DEF Reads, Word
  <2> QED
    BY <1>2, <2>1, <2>2, <2>4, ComesTracks DEF o
<1> QED
  BY <1>2, <1>3 DEF d

\* A byte is read.
LEMMA M2Keeps ==
  ASSUME CoreInv, z80_stage_m2
  PROVE  CoreInv'
<1> DEFINE b == IF z.read_is_io = 1 THEN PortByte(z.read_address) ELSE Memory(z.read_address)
           v == [z EXCEPT !.read_buffer[z.read_index] = b, !.read_index = @ + 1]
<1>1. /\ z.stage = "M2" /\ z' = z80_instruction_decode(v) /\ at' = at
      /\ rom' = rom /\ ram' = ram
  BY DEF z80_stage_m2, zedVars
<1>2. Sane(z) /\ z.read_index \in 0..1 /\ z.read_address \in Address /\ z.read_address \in Nat
  BY <1>1 DEF CoreInv, Going, Sane, Address
<1>3. b \in Byte
  BY <1>2, PortGives, MemoryGives DEF CoreInv
<1> HIDE DEF b
<1>4. DOMAIN z = FieldNames /\ z.read_buffer \in [0..1 -> Byte]
  BY <1>2 DEF Sane
<1>5. /\ DOMAIN v = FieldNames /\ v.r = z.r /\ v.opcode = z.opcode
      /\ v.opcode_index = z.opcode_index
      /\ v.read_buffer = [z.read_buffer EXCEPT ![z.read_index] = b]
      /\ v.read_index = z.read_index + 1
      /\ v.write_buffer = z.write_buffer /\ v.write_index = z.write_index
      /\ v.read_address = z.read_address /\ v.write_address = z.write_address
  BY <1>4 DEF FieldNames
<1> HIDE DEF v
<1>6. v.read_buffer \in [0..1 -> Byte] /\ v.read_index \in 0..2
  BY <1>2, <1>3, <1>4, <1>5
<1>7. Sane(v)
  BY <1>2, <1>5, <1>6 DEF Sane
<1>8. Going(z') /\ Tracks(z', rom, at)
  BY <1>1, <1>5, <1>7, MoveKeeps DEF CoreInv
<1> QED
  BY <1>1, <1>8 DEF CoreInv

\* A byte is written.
LEMMA M3Keeps ==
  ASSUME CoreInv, z80_stage_m3
  PROVE  CoreInv'
<1> DEFINE v == [z EXCEPT !.write_index = @ + 1]
           m == IF z.write_is_io = 1 THEN ram
                ELSE Stored(z.write_address, z.write_buffer[z.write_index])
<1>1. /\ z.stage = "M3" /\ z' = z80_instruction_decode(v) /\ at' = at
      /\ rom' = rom /\ ram' = m
  BY DEF z80_stage_m3, zedVars
<1>2. Sane(z) /\ z.write_index \in 0..1 /\ z.write_buffer[z.write_index] \in Byte
  BY <1>1 DEF CoreInv, Going, Sane
<1>3. Bytewise(rom, m)
  BY <1>2, StoreKeeps DEF CoreInv
<1> HIDE DEF m
<1>4. DOMAIN z = FieldNames
  BY <1>2 DEF Sane
<1>5. /\ DOMAIN v = FieldNames /\ v.r = z.r /\ v.opcode = z.opcode
      /\ v.opcode_index = z.opcode_index
      /\ v.read_buffer = z.read_buffer /\ v.read_index = z.read_index
      /\ v.write_buffer = z.write_buffer /\ v.write_index = z.write_index + 1
      /\ v.read_address = z.read_address /\ v.write_address = z.write_address
  BY <1>4 DEF FieldNames
<1> HIDE DEF v
<1>6. Sane(v)
  BY <1>2, <1>5 DEF Sane
<1>7. Going(z') /\ Tracks(z', rom, at)
  BY <1>1, <1>5, <1>6, MoveKeeps DEF CoreInv
<1> QED
  BY <1>1, <1>3, <1>7 DEF CoreInv

\* A refresh, after a block instruction that repeats.
LEMMA RefreshKeeps ==
  ASSUME CoreInv, z80_stage_refresh
  PROVE  CoreInv'
<1> DEFINE v == [z EXCEPT !.stage = "RESET"]
<1>1. z.stage = "REFRESH" /\ z' = v /\ at' = at /\ rom' = rom /\ ram' = ram
  BY DEF z80_stage_refresh, zedVars
<1>2. Sane(z) /\ DOMAIN z = FieldNames /\ Tracks(z, rom, at) /\ Bytewise(rom, ram)
  BY DEF CoreInv, Going, Sane
<1>3. /\ DOMAIN v = FieldNames /\ v.r = z.r /\ v.opcode = z.opcode
      /\ v.opcode_index = z.opcode_index
      /\ v.read_buffer = z.read_buffer /\ v.read_index = z.read_index
      /\ v.write_buffer = z.write_buffer /\ v.write_index = z.write_index
      /\ v.read_address = z.read_address /\ v.write_address = z.write_address
      /\ v.stage = "RESET"
  BY <1>2 DEF FieldNames
<1> HIDE DEF v
<1>4. Going(v)
  <2>1. Sane(v)
    BY <1>2, <1>3 DEF Sane
  <2> QED
    BY <1>3, <2>1 DEF Going
<1>5. Tracks(v, rom, at)
  BY <1>1, <1>2, <1>3 DEF Tracks, Word
<1> QED
  BY <1>1, <1>2, <1>4, <1>5 DEF CoreInv

\* The core's invariant; the analysis does not touch what it is about.
LEMMA CoreNext == CoreInv /\ [Next]_vars => CoreInv'
<1>1. SUFFICES ASSUME CoreInv, [Next]_vars PROVE CoreInv'
  OBVIOUS
<1>2. ASSUME Analyze \/ UNCHANGED vars PROVE CoreInv'
  <2>1. z' = z /\ at' = at /\ rom' = rom /\ ram' = ram
    BY <1>2 DEF Analyze, vars, programVars, zedVars, ZedNext, Skip, Visit, SortLists,
       PrintLists
  <2> QED
    BY <1>1, <2>1 DEF CoreInv
<1> QED
  BY <1>1, <1>2, M1Keeps, M2Keeps, M3Keeps, RefreshKeeps DEF Next, Tick

\* What the core keeps.
THEOREM CoreInvariance == Spec => []CoreInv
BY CoreInit, CoreNext, PTL DEF Spec

\* For every program: no function asks for more bytes than the buffers hold, and no
\* instruction is longer than opcode[] (the asserts of z80.c:355, 430 and 545, and of
\* z80_decoder.c:48).
THEOREM BuffersAreEnough == Spec => []BuffersSuffice
<1>1. CoreInv => BuffersSuffice
  BY DEF CoreInv, Going, Short, BuffersSuffice
<1> QED
  BY <1>1, CoreInvariance, PTL

\* For every program: after an instruction that neither a register nor the stack takes
\* elsewhere, the core is where the disassembler said (z80_dasm.h:52-54).
THEOREM StepsPredicted == Spec => []StepsArePredicted
<1>1. CoreInv => StepsArePredicted
  <2>1. SUFFICES ASSUME CoreInv, Ended, at \in InRange, ~Misjudged(Bytes(at))
                 PROVE  \/ "INDIRECT_JUMP" \in Op(at).flags
                        \/ Word(z, "PC") \in Successors(Op(at)) \cup {at}
    BY DEF StepsArePredicted
  <2>2. Bytes(at) = BytesOf(rom, at) /\ InRange = Within(rom)
    BY DEF Bytes, BytesOf, InRange, Within, end_addr
  <2>3. Foretold(Word(z, "PC"), BytesOf(rom, at), at)
    BY <2>1, <2>2 DEF CoreInv, Tracks, Ended
  <2> QED
    BY <2>2, <2>3 DEF Foretold, Op
<1> QED
  BY <1>1, CoreInvariance, PTL

\* For every program: it stays where the analysis has been, until a jump that a register or
\* the stack decides.
THEOREM StaysWhereAnalysed == Spec => []StaysAnalysed
<1>1. ZedInv /\ Behind /\ Looked /\ StepsArePredicted => StaysAnalysed
  <2>1. SUFFICES ASSUME ZedInv, Behind, Looked, StepsArePredicted, Ended, at \in hit_address,
                        at \notin unsafe_jumps, ~Misjudged(Bytes(at))
                 PROVE  Word(z, "PC") \in hit_address \/ Word(z, "PC") > end_addr
    BY DEF StaysAnalysed
  <2> DEFINE pc == Word(z, "PC")
  <2>2. Op(at) = OpOf(rom, at)
    BY Readings
  <2>3. "INDIRECT_JUMP" \notin Op(at).flags
    BY <2>1, <2>2 DEF ZedInv, ZedWalk, Unsafe
  <2>4. pc \in Successors(Op(at)) \cup {at}
    BY <2>1, <2>3, Readings DEF StepsArePredicted, Looked
  <2> HIDE DEF pc
  <2>5. /\ at \in Nat /\ rom \in [DOMAIN rom -> 0..255]
        /\ OpOf(rom, at).address_next \in Nat /\ OpOf(rom, at).address_jump \in Nat
    BY <2>1, OpsOfRom DEF ZedInv, ZedType
  <2>6. CASE pc = at
    BY <2>1, <2>6 DEF pc
  <2>7. CASE pc \in Successors(Op(at))
    <3>1. pc \in Nat /\ pc \in Nexts(rom, hit_address)
      BY <2>1, <2>2, <2>5, <2>7 DEF Successors, Nexts
    <3>2. ToSet(frontier) = {}
      BY <2>1, Few DEF Behind, Ended, ZedInv, ZedWalk
    <3>3. pc \in Within(rom) => pc \in hit_address
      BY <2>1, <3>1, <3>2 DEF ZedInv, ZedWalk
    <3>4. end_addr \in Int /\ InRange = Within(rom)
      BY <2>1, Readings DEF ZedInv
    <3> QED
      BY <3>1, <3>3, <3>4 DEF InRange, pc
  <2> QED
    BY <2>4, <2>6, <2>7
<1> QED
  BY <1>1, WalkInvariance, StaysBehind, LooksWithin, StepsPredicted, PTL

-----------------------------------------------------------------------------
(***************************************************************************)
(* A function called again. y is what it is called with, v what it is      *)
(* called with when all its bytes have been moved.                         *)
(***************************************************************************)

\* Registers and interrupt state: all that lasts from one instruction to the next.
Same(w, u) ==
  /\ DOMAIN w = FieldNames /\ DOMAIN u = FieldNames
  /\ w.r = u.r /\ w.iff1 = u.iff1 /\ w.iff2 = u.iff2 /\ w.int_mode = u.int_mode

\* Neither asks for a byte.
Joint(w, u) == Same(w, u) /\ w.stage = u.stage /\ w.stage \notin {"M2", "M3"}

\* A call that asks for a byte has changed nothing, one that does not has done all.
Matches(w, u, y) == IF w.stage \in {"M2", "M3"} THEN Same(w, y) ELSE Same(w, u)

\* The first k bytes of the instruction are the same.
Twins(y, v, k) ==
  /\ Joint(y, v) /\ y.stage = "RESET" /\ y.opcode_index = v.opcode_index
  /\ \A i \in 0..3 : i < k => y.opcode[i] = v.opcode[i]
  /\ y.read_buffer = v.read_buffer
  /\ v.read_index = 2 /\ v.write_index = 2

\* Not to ask is to match.
LEMMA JointMatches ==
  ASSUME NEW w, NEW u, Joint(w, u), NEW y
  PROVE  Matches(w, u, y)
BY DEF Joint, Matches

\* The ways to change a register, done to both.
LEMMA JointSets ==
  ASSUME NEW w, NEW u, Joint(w, u)
  PROVE  /\ \A r, b : Joint(Set(w, r, b), Set(u, r, b))
         /\ \A rp, n : Joint(SetWord(w, rp, n), SetWord(u, rp, n))
         /\ \A fs : Joint(SetF(w, fs), SetF(u, fs))
         /\ \A r, res : Joint(Give(w, r, res), Give(u, r, res))
         /\ \A b : Joint([w EXCEPT !.iff1 = b], [u EXCEPT !.iff1 = b])
         /\ \A b : Joint([w EXCEPT !.int_mode = b], [u EXCEPT !.int_mode = b])
         /\ Joint(Abort(w), Abort(u))
<1>1. DOMAIN w = FieldNames /\ DOMAIN u = FieldNames
  BY DEF Joint, Same
<1>2. ASSUME NEW x, NEW t, Joint(x, t), NEW r, NEW b PROVE Joint(Set(x, r, b), Set(t, r, b))
  <2> DEFINE c == Byte8(b)
             p == [x EXCEPT !.r[r] = c]
             q == [t EXCEPT !.r[r] = c]
  <2> HIDE DEF c
  <2>1. DOMAIN x = FieldNames /\ DOMAIN t = FieldNames
    BY <1>2 DEF Joint, Same
  <2>2. /\ DOMAIN p = FieldNames /\ p.r = [x.r EXCEPT ![r] = c] /\ p.iff1 = x.iff1
        /\ p.iff2 = x.iff2 /\ p.int_mode = x.int_mode /\ p.stage = x.stage
    BY <2>1 DEF FieldNames
  <2>3. /\ DOMAIN q = FieldNames /\ q.r = [t.r EXCEPT ![r] = c] /\ q.iff1 = t.iff1
        /\ q.iff2 = t.iff2 /\ q.int_mode = t.int_mode /\ q.stage = t.stage
    BY <2>1 DEF FieldNames
  <2> HIDE DEF p, q
  <2>4. Joint(p, q)
    BY <1>2, <2>2, <2>3 DEF Joint, Same
  <2> QED
    BY <2>4 DEF Set, p, q, c
<1>3. ASSUME NEW rp, NEW n PROVE Joint(SetWord(w, rp, n), SetWord(u, rp, n))
  <2>1. \A r, b : Joint(Set(w, r, b), Set(u, r, b))
    BY <1>2
  <2>2. \A r, b, q, c : Joint(Set(Set(w, r, b), q, c), Set(Set(u, r, b), q, c))
    BY <1>2, <2>1
  <2> QED
    BY <2>2 DEF SetWord
<1>4. \A fs : Joint(SetF(w, fs), SetF(u, fs))
  BY <1>2 DEF SetF
<1>5. ASSUME NEW r, NEW res PROVE Joint(Give(w, r, res), Give(u, r, res))
  <2>1. Joint(Set(w, r, res.result), Set(u, r, res.result))
    BY <1>2
  <2> QED
    BY <1>2, <2>1 DEF Give, SetF
<1>6. ASSUME NEW b
      PROVE  /\ Joint([w EXCEPT !.iff1 = b], [u EXCEPT !.iff1 = b])
             /\ Joint([w EXCEPT !.int_mode = b], [u EXCEPT !.int_mode = b])
  BY <1>1 DEF Joint, Same, FieldNames
<1>7. Joint(Abort(w), Abort(u))
  BY <1>1 DEF Joint, Same, FieldNames, Abort, Return
<1> QED
  BY <1>2, <1>3, <1>4, <1>5, <1>6, <1>7

\* What two alike make of their registers.
LEMMA SameWords ==
  ASSUME NEW w, NEW u, Same(w, u)
  PROVE  F(w) = F(u) /\ \A rp : Word(w, rp) = Word(u, rp)
BY DEF Same, F, Word

\* The operands that both find.
LEMMA TwinOperands ==
  ASSUME NEW k, NEW y, NEW v, Twins(y, v, k), k \in 1..4
  PROVE  /\ F(y) = F(v) /\ y.r = v.r /\ y.read_buffer = v.read_buffer /\ Pair(y) = Pair(v)
         /\ y.iff2 = v.iff2 /\ y.opcode_index = v.opcode_index
         /\ \A rp : Word(y, rp) = Word(v, rp)
         /\ \A i : Condition(y, i) <=> Condition(v, i)
         /\ y.opcode[0] = v.opcode[0] /\ IXY(y) = IXY(v)
         /\ \A i : z80_r_ixy(y, i) = z80_r_ixy(v, i)
         /\ k > 1 => y.opcode[1] = v.opcode[1]
         /\ k > 2 => /\ y.opcode[2] = v.opcode[2] /\ nn(y, 1) = nn(v, 1)
                     /\ Indexed(y) = Indexed(v)
         /\ k > 3 => y.opcode[3] = v.opcode[3] /\ nn(y, 2) = nn(v, 2)
<1>1. /\ Same(y, v) /\ y.r = v.r /\ y.read_buffer = v.read_buffer /\ y.iff2 = v.iff2
      /\ y.opcode_index = v.opcode_index
  BY DEF Twins, Joint, Same
<1>2. F(y) = F(v) /\ \A rp : Word(y, rp) = Word(v, rp)
  BY <1>1, SameWords
<1>3. Pair(y) = Pair(v)
  BY <1>1 DEF Pair
<1>4. \A i : Condition(y, i) <=> Condition(v, i)
  BY <1>2 DEF Condition
<1>5. y.opcode[0] = v.opcode[0] /\ (k > 1 => y.opcode[1] = v.opcode[1])
      /\ (k > 2 => y.opcode[2] = v.opcode[2]) /\ (k > 3 => y.opcode[3] = v.opcode[3])
  BY DEF Twins
<1>6. IXY(y) = IXY(v) /\ \A i : z80_r_ixy(y, i) = z80_r_ixy(v, i)
  BY <1>5 DEF IXY, z80_r_ixy
<1>7. k > 2 => nn(y, 1) = nn(v, 1) /\ Indexed(y) = Indexed(v)
  BY <1>2, <1>5, <1>6 DEF nn, Indexed
<1>8. k > 3 => nn(y, 2) = nn(v, 2)
  BY <1>5 DEF nn
<1> QED
  BY <1>1, <1>2, <1>3, <1>4, <1>5, <1>6, <1>7, <1>8

\* The macros: the call that finds all its bytes there goes through them.
LEMMA MacrosGoThrough ==
  ASSUME NEW y, DOMAIN y = FieldNames, NEW v, v.read_index = 2, v.write_index = 2,
         NEW w, NEW u, Matches(w, u, y)
  PROVE  /\ \A a, io : Matches(Z80_8BIT_READ(y, a, io, w), Z80_8BIT_READ(v, a, io, u), y)
         /\ \A a, io : Matches(Z80_16BIT_READ(y, a, io, w), Z80_16BIT_READ(v, a, io, u), y)
         /\ \A a, io, b :
              Matches(Z80_8BIT_WRITE(y, a, io, b, w), Z80_8BIT_WRITE(v, a, io, b, u), y)
         /\ \A a, io, b, c : Matches(Z80_16BIT_WRITE(y, a, io, b, c, w),
                                     Z80_16BIT_WRITE(v, a, io, b, c, u), y)
<1>1. DOMAIN y = FieldNames /\ v.read_index = 2 /\ v.write_index = 2
  OBVIOUS
<1>2. /\ \A a, io : Z80_8BIT_READ(v, a, io, u) = u
      /\ \A a, io : Z80_16BIT_READ(v, a, io, u) = u
      /\ \A a, io, b : Z80_8BIT_WRITE(v, a, io, b, u) = u
      /\ \A a, io, b, c : Z80_16BIT_WRITE(v, a, io, b, c, u) = u
  BY <1>1 DEF Z80_8BIT_READ, Z80_16BIT_READ, Z80_8BIT_WRITE, Z80_16BIT_WRITE
<1>3. ASSUME NEW a, NEW io
      PROVE  /\ \/ Z80_8BIT_READ(y, a, io, w) = w
                \/ Z80_8BIT_READ(y, a, io, w).stage = "M2" /\ Same(Z80_8BIT_READ(y, a, io, w), y)
             /\ \/ Z80_16BIT_READ(y, a, io, w) = w
                \/ /\ Z80_16BIT_READ(y, a, io, w).stage = "M2"
                   /\ Same(Z80_16BIT_READ(y, a, io, w), y)
  <2> DEFINE p == [y EXCEPT !.read_is_io = io, !.read_address = a, !.stage = "M2"]
             q == [y EXCEPT !.read_address = Plus(@, 1), !.stage = "M2"]
  <2>1. Same(p, y) /\ p.stage = "M2" /\ Same(q, y) /\ q.stage = "M2"
    BY <1>1 DEF Same, FieldNames
  <2> HIDE DEF p, q
  <2> QED
    BY <2>1 DEF Z80_8BIT_READ, Z80_16BIT_READ, p, q
<1>4. ASSUME NEW a, NEW io, NEW b, NEW c
      PROVE  /\ \/ Z80_8BIT_WRITE(y, a, io, b, w) = w
                \/ /\ Z80_8BIT_WRITE(y, a, io, b, w).stage = "M3"
                   /\ Same(Z80_8BIT_WRITE(y, a, io, b, w), y)
             /\ \/ Z80_16BIT_WRITE(y, a, io, b, c, w) = w
                \/ /\ Z80_16BIT_WRITE(y, a, io, b, c, w).stage = "M3"
                   /\ Same(Z80_16BIT_WRITE(y, a, io, b, c, w), y)
  <2> DEFINE both == [i \in 0..1 |-> IF i = 0 THEN b ELSE c]
             low == Byte8(b)
             p == [y EXCEPT !.write_is_io = io, !.write_address = a,
                            !.write_buffer[0] = low, !.stage = "M3"]
             q == [y EXCEPT !.write_is_io = io, !.write_address = a,
                            !.write_buffer = both, !.stage = "M3"]
             s == [y EXCEPT !.write_address = Plus(@, 1), !.stage = "M3"]
  <2> HIDE DEF both, low
  <2>1. Same(p, y) /\ p.stage = "M3" /\ Same(q, y) /\ q.stage = "M3"
        /\ Same(s, y) /\ s.stage = "M3"
    BY <1>1 DEF Same, FieldNames
  <2> HIDE DEF p, q, s
  <2>2. Z80_8BIT_WRITE(y, a, io, b, w) \in {w, p}
    BY DEF Z80_8BIT_WRITE, p, low
  <2>3. Z80_16BIT_WRITE(y, a, io, b, c, w) \in {w, q, s}
    BY DEF Z80_16BIT_WRITE, q, s, both
  <2> QED
    BY <2>1, <2>2, <2>3
<1> QED
  BY <1>2, <1>3, <1>4 DEF Matches

\* So they do for two that agree on their operands.
LEMMA MacrosMatch ==
  ASSUME NEW k, NEW y, NEW v, Twins(y, v, k), NEW w, NEW u, Matches(w, u, y)
  PROVE  /\ \A a, io : Matches(Z80_8BIT_READ(y, a, io, w), Z80_8BIT_READ(v, a, io, u), y)
         /\ \A a, io : Matches(Z80_16BIT_READ(y, a, io, w), Z80_16BIT_READ(v, a, io, u), y)
         /\ \A a, io, b :
              Matches(Z80_8BIT_WRITE(y, a, io, b, w), Z80_8BIT_WRITE(v, a, io, b, u), y)
         /\ \A a, io, b, c : Matches(Z80_16BIT_WRITE(y, a, io, b, c, w),
                                     Z80_16BIT_WRITE(v, a, io, b, c, u), y)
BY MacrosGoThrough DEF Twins, Joint, Same

\* How many bytes of the instruction a function looks at: one, if it is in none of these.
LookTwo   == {"IM", "alu8_n", "alu8_r_undoc", "INC_rIXY", "DEC_rIXY", "ADC_HL_rp", "SBC_HL_rp",
              "ADD_IXY_rp", "BIT_b_r", "RES_b_r", "SET_b_r", "BIT_b_HLp", "RES_b_HLp",
              "SET_b_HLp", "shift_rot_r", "DJNZ_d", "JR_cc_d", "JR_d", "LD_HLp_n", "LD_r_n",
              "LD_r_r_undoc", "IN_A_np", "OUT_np_A", "OUT_Cp_r"}
LookThree == {"CALL_cc_nn", "CALL_nn", "JP_nn", "JP_cc_nn", "LD_A_nnp", "LD_nnp_A",
              "LD_HL_nnp", "LD_nnp_HL", "LD_rp_nn", "LD_IXYH_n", "LD_IXYL_n", "LD_IXYp_r",
              "LD_r_IXYp", "alu8_IXYp", "INC_IXYp", "DEC_IXYp"}
LookFour  == {"LD_rp_nnp", "LD_nnp_rp", "LD_IXY_nn", "LD_nnp_IXY", "LD_IXY_nnp", "LD_IXYp_n",
              "BIT_b_IXYp", "RES_b_IXYp", "SET_b_IXYp", "shift_rot_IXYp", "shift_rot_HLp"}
Looks(f) == IF f \in LookFour THEN 4
            ELSE IF f \in LookThree THEN 3 ELSE IF f \in LookTwo THEN 2 ELSE 1

\* So many are at least one.
LEMMA LooksAt ==
  ASSUME NEW f
  PROVE  /\ Looks(f) \in 1..4 /\ (f \in LookFour => Looks(f) = 4)
         /\ (f \in LookThree => Looks(f) > 2) /\ (f \in LookTwo => Looks(f) > 1)
BY DEF Looks

\* z80_opcodes.c, but the functions of A.
LEMMA GeneralMatch ==
  ASSUME NEW f \in GeneralNames, NEW y, NEW v, Twins(y, v, Looks(f))
  PROVE  Matches(General(f, y), General(f, v), y)
<1>1. Joint(y, v) /\ Looks(f) \in 1..4
  BY LooksAt DEF Twins
<1>2. /\ F(y) = F(v) /\ y.r = v.r /\ Pair(y) = Pair(v) /\ y.opcode_index = v.opcode_index
      /\ \A rp : Word(y, rp) = Word(v, rp)
  BY <1>1, TwinOperands
<1>3. /\ \A r, b : Joint(Set(y, r, b), Set(v, r, b))
      /\ \A rp, n : Joint(SetWord(y, rp, n), SetWord(v, rp, n))
      /\ \A fs : Joint(SetF(y, fs), SetF(v, fs))
      /\ \A b : Joint([y EXCEPT !.iff1 = b], [v EXCEPT !.iff1 = b])
      /\ \A b : Joint([y EXCEPT !.int_mode = b], [v EXCEPT !.int_mode = b])
      /\ Joint(Abort(y), Abort(v))
  BY <1>1, JointSets
<1>4. CASE f = "CCF"
  <2> DEFINE fs == (IF "C" \in F(y) THEN F(y) \ {"C"} ELSE F(y) \cup {"C"}) \ {"N"}
  <2>1. General(f, y) = SetF(y, fs) /\ General(f, v) = SetF(v, fs)
    BY <1>2, <1>4 DEF General
  <2> QED
    BY <1>3, <2>1, JointMatches
<1>5. CASE f = "CPL"
  <2> DEFINE a == 255 - y.r["A"]
             fs == F(y) \cup {"H", "N"}
  <2>1. /\ General(f, y) = SetF(Set(y, "A", a), fs)
        /\ General(f, v) = SetF(Set(v, "A", a), fs)
    BY <1>2, <1>5 DEF General
  <2> HIDE DEF a, fs
  <2>2. Joint(SetF(Set(y, "A", a), fs), SetF(Set(v, "A", a), fs))
    BY <1>3, JointSets
  <2> QED
    BY <2>1, <2>2, JointMatches
<1>6. CASE f = "DAA" \/ f = "HALT" \/ f = "NOP"
  <2>1. \/ General(f, y) = y /\ General(f, v) = v
        \/ General(f, y) = Abort(y) /\ General(f, v) = Abort(v)
    BY <1>2, <1>6 DEF General
  <2> QED
    BY <1>1, <1>3, <2>1, JointMatches
<1>7. CASE f = "DI" \/ f = "EI"
  <2>1. \E b : /\ General(f, y) = [y EXCEPT !.iff1 = b]
               /\ General(f, v) = [v EXCEPT !.iff1 = b]
    BY <1>7 DEF General
  <2> QED
    BY <1>3, <2>1, JointMatches
<1>8. CASE f = "IM"
  <2>1. y.opcode[1] = v.opcode[1]
    BY <1>1, <1>8, LooksAt, TwinOperands DEF LookTwo
  <2>2. \E b : /\ General(f, y) = [y EXCEPT !.int_mode = b]
               /\ General(f, v) = [v EXCEPT !.int_mode = b]
    BY <1>8, <2>1 DEF General
  <2> QED
    BY <1>3, <2>2, JointMatches
<1>9. CASE f = "EX" \/ f = "EX_DE_HL" \/ f = "EXX"
  <2>1. ASSUME NEW w, NEW u, Joint(w, u), NEW rp, NEW rq
        PROVE  Joint(Swap(w, rp, rq), Swap(u, rp, rq))
    <3>1. Word(w, rq) = Word(u, rq) /\ Word(w, rp) = Word(u, rp)
      BY <2>1, SameWords DEF Joint
    <3>2. Joint(SetWord(w, rp, Word(w, rq)), SetWord(u, rp, Word(w, rq)))
      BY <2>1, JointSets
    <3> QED
      BY <3>1, <3>2, JointSets DEF Swap
  <2>2. Joint(General(f, y), General(f, v))
    BY <1>1, <1>9, <2>1 DEF General
  <2> QED
    BY <2>2, JointMatches
<1>10. CASE f = "EX_SPp_HL"
  <2>1. Joint(SetWord(y, "HL", Pair(y)), SetWord(v, "HL", Pair(v)))
    BY <1>2, <1>3
  <2>2. \A a, b, c : Matches(Z80_16BIT_WRITE(y, a, 0, b, c, SetWord(y, "HL", Pair(y))),
                             Z80_16BIT_WRITE(v, a, 0, b, c, SetWord(v, "HL", Pair(v))), y)
    BY <2>1, JointMatches, MacrosMatch
  <2> DEFINE sp == Word(y, "SP")
             l == y.r["L"]
             h == y.r["H"]
             w == Z80_16BIT_WRITE(y, sp, 0, l, h, SetWord(y, "HL", Pair(y)))
             u == Z80_16BIT_WRITE(v, sp, 0, l, h, SetWord(v, "HL", Pair(v)))
  <2>3. /\ General(f, y) = Z80_16BIT_READ(y, sp, 0, w)
        /\ General(f, v) = Z80_16BIT_READ(v, sp, 0, u)
    BY <1>2, <1>10 DEF General, Pop
  <2>4. Matches(w, u, y)
    BY <2>2
  <2> HIDE DEF w, u
  <2> QED
    BY <2>3, <2>4, MacrosMatch
<1> QED
  BY <1>4, <1>5, <1>6, <1>7, <1>8, <1>9, <1>10 DEF GeneralNames

\* The functions of A alone, and NEG.
LEMMA AccumulatorMatch ==
  ASSUME NEW y, NEW v, Twins(y, v, 1)
  PROVE  /\ \A op : Matches(RotateA(y, op), RotateA(v, op), y)
         /\ Matches(SCF(y), SCF(v), y) /\ Matches(NEG(y), NEG(v), y)
         /\ Matches(RRD(y), RRD(v), y) /\ Matches(RLD(y), RLD(v), y)
<1>1. Joint(y, v) /\ F(y) = F(v) /\ y.r = v.r
  BY TwinOperands DEF Twins
<1>2. /\ \A fs : Joint(SetF(y, fs), SetF(v, fs))
      /\ \A r, res : Joint(Give(y, r, res), Give(v, r, res))
      /\ \A r, b, fs : Joint(SetF(Set(y, r, b), fs), SetF(Set(v, r, b), fs))
  BY <1>1, JointSets
<1>3. ASSUME NEW op PROVE Matches(RotateA(y, op), RotateA(v, op), y)
  BY <1>1, <1>2, JointMatches DEF RotateA
<1>4. Matches(SCF(y), SCF(v), y)
  BY <1>1, <1>2, JointMatches DEF SCF
<1>5. Matches(NEG(y), NEG(v), y)
  BY <1>1, <1>2, JointMatches DEF NEG
<1>6. \A n : Matches(DigitFlags(y, n), DigitFlags(v, n), y)
  BY <1>1, <1>2, JointMatches DEF DigitFlags
<1>7. Matches(RRD(y), RRD(v), y) /\ Matches(RLD(y), RLD(v), y)
  BY <1>1, <1>6 DEF RRD, RLD
<1> QED
  BY <1>3, <1>4, <1>5, <1>7

\* To read a byte and write back what becomes of it.
LEMMA ModifyMatch ==
  ASSUME NEW k, NEW y, NEW v, Twins(y, v, k), NEW a, NEW res
  PROVE  Matches(Modify(y, a, res), Modify(v, a, res), y)
<1>1. Matches(SetF(y, res.flags), SetF(v, res.flags), y)
  BY JointSets, JointMatches DEF Twins
<1>2. \A b : Matches(Z80_8BIT_WRITE(y, a, 0, b, SetF(y, res.flags)),
                     Z80_8BIT_WRITE(v, a, 0, b, SetF(v, res.flags)), y)
  BY <1>1, MacrosMatch
<1> QED
  BY <1>2, MacrosMatch DEF Modify

\* z80_opcodes_alu8.c.
LEMMA Alu8Match ==
  ASSUME NEW f \in Alu8Names, NEW y, NEW v, Twins(y, v, Looks(f))
  PROVE  Matches(Alu8(f, y), Alu8(f, v), y)
<1>1. Joint(y, v) /\ Looks(f) \in 1..4
  BY LooksAt DEF Twins
<1>2. /\ F(y) = F(v) /\ y.r = v.r /\ y.read_buffer = v.read_buffer
      /\ y.opcode[0] = v.opcode[0] /\ \A i : z80_r_ixy(y, i) = z80_r_ixy(v, i)
      /\ \A rp : Word(y, rp) = Word(v, rp)
  BY <1>1, TwinOperands
<1>3. \A i, b : Matches(Arithmetic(y, i, b), Arithmetic(v, i, b), y)
  <2>1. \A r, res : Joint(Give(y, r, res), Give(v, r, res))
    BY <1>1, JointSets
  <2> QED
    BY <1>2, <2>1, JointMatches DEF Arithmetic
<1>4. \A i, b, a : Matches(Z80_8BIT_READ(y, a, 0, Arithmetic(y, i, b)),
                           Z80_8BIT_READ(v, a, 0, Arithmetic(v, i, b)), y)
  BY <1>3, MacrosMatch
<1>5. CASE f = "alu8_HLp"
  BY <1>2, <1>4, <1>5 DEF Alu8
<1>6. CASE f = "alu8_r"
  BY <1>2, <1>3, <1>6 DEF Alu8
<1>7. CASE f = "alu8_n" \/ f = "alu8_r_undoc"
  <2>1. y.opcode[1] = v.opcode[1]
    BY <1>1, <1>7, LooksAt, TwinOperands DEF LookTwo
  <2> QED
    BY <1>2, <1>3, <1>7, <2>1 DEF Alu8
<1>8. CASE f = "alu8_IXYp"
  <2>1. y.opcode[1] = v.opcode[1] /\ Indexed(y) = Indexed(v)
    BY <1>1, <1>8, LooksAt, TwinOperands DEF LookThree
  <2> QED
    BY <1>2, <1>4, <1>8, <2>1 DEF Alu8
<1> QED
  BY <1>5, <1>6, <1>7, <1>8 DEF Alu8Names

\* INC and DEC of a byte.
LEMMA IncDecMatch ==
  ASSUME NEW f \in IncDecNames, NEW y, NEW v, Twins(y, v, Looks(f))
  PROVE  Matches(IncDec(f, y), IncDec(f, v), y)
<1> DEFINE step(b) == IF f \in {"INC_r", "INC_rIXY", "INC_HLp", "INC_IXYp"}
                        THEN alu8_inc(b, F(y)) ELSE alu8_dec(b, F(y))
           reg == IF f \in {"INC_r", "DEC_r"} THEN z80_r(Y(y.opcode[0]))
                  ELSE z80_r_ixy(y, Y(y.opcode[1]))
           b0  == y.read_buffer[0]
<1>1. Joint(y, v) /\ Looks(f) \in 1..4
  BY LooksAt DEF Twins
<1>2. /\ F(y) = F(v) /\ y.r = v.r /\ y.read_buffer = v.read_buffer
      /\ y.opcode[0] = v.opcode[0] /\ \A i : z80_r_ixy(y, i) = z80_r_ixy(v, i)
      /\ \A rp : Word(y, rp) = Word(v, rp)
  BY <1>1, TwinOperands
<1>3. \A a, res : Matches(Modify(y, a, res), Modify(v, a, res), y)
  BY ModifyMatch
<1>4. \A r, res : Matches(Give(y, r, res), Give(v, r, res), y)
  BY <1>1, JointSets, JointMatches
<1>5. CASE f \in {"INC_HLp", "DEC_HLp"}
  <2>1. /\ IncDec(f, y) = Modify(y, Word(y, "HL"), step(b0))
        /\ IncDec(f, v) = Modify(v, Word(y, "HL"), step(b0))
    BY <1>2, <1>5 DEF IncDec
  <2> HIDE DEF step
  <2> QED
    BY <1>3, <2>1
<1>6. CASE f \in {"INC_IXYp", "DEC_IXYp"}
  <2>1. Indexed(y) = Indexed(v)
    BY <1>1, <1>6, LooksAt, TwinOperands DEF LookThree
  <2>2. /\ IncDec(f, y) = Modify(y, Indexed(y), step(b0))
        /\ IncDec(f, v) = Modify(v, Indexed(y), step(b0))
    BY <1>2, <1>6, <2>1 DEF IncDec
  <2> HIDE DEF step
  <2> QED
    BY <1>3, <2>2
<1>7. CASE f \in {"INC_r", "DEC_r", "INC_rIXY", "DEC_rIXY"}
  <2>1. f \in {"INC_r", "DEC_r"} \/ y.opcode[1] = v.opcode[1]
    BY <1>1, <1>7, LooksAt, TwinOperands DEF LookTwo
  <2>2. /\ IncDec(f, y) = Give(y, reg, step(y.r[reg]))
        /\ IncDec(f, v) = Give(v, reg, step(y.r[reg]))
    BY <1>2, <1>7, <2>1 DEF IncDec
  <2> HIDE DEF step, reg
  <2> QED
    BY <1>4, <2>2
<1> QED
  BY <1>5, <1>6, <1>7 DEF IncDecNames

\* z80_opcodes_alu16.c.
LEMMA Alu16Match ==
  ASSUME NEW k \in 1..4, NEW y, NEW v, Twins(y, v, k)
  PROVE  /\ k > 1 => /\ Matches(ADC_HL_rp(y), ADC_HL_rp(v), y)
                     /\ Matches(SBC_HL_rp(y), SBC_HL_rp(v), y)
                     /\ Matches(ADD_IXY_rp(y), ADD_IXY_rp(v), y)
         /\ Matches(ADD_HL_rp(y), ADD_HL_rp(v), y)
         /\ \A rp, n : Matches(Count(y, rp, n), Count(v, rp, n), y)
<1>1. /\ Joint(y, v) /\ F(y) = F(v) /\ y.opcode[0] = v.opcode[0] /\ IXY(y) = IXY(v)
      /\ \A rp : Word(y, rp) = Word(v, rp)
      /\ k > 1 => y.opcode[1] = v.opcode[1]
  BY TwinOperands DEF Twins
<1>2. \A rp, n, fs : Matches(SetF(SetWord(y, rp, n), fs), SetF(SetWord(v, rp, n), fs), y)
  BY <1>1, JointSets, JointMatches
<1>3. k > 1 => Matches(ADC_HL_rp(y), ADC_HL_rp(v), y)
  BY <1>1, <1>2 DEF ADC_HL_rp
<1>4. k > 1 => Matches(SBC_HL_rp(y), SBC_HL_rp(v), y)
  BY <1>1, <1>2 DEF SBC_HL_rp
<1>5. k > 1 => Matches(ADD_IXY_rp(y), ADD_IXY_rp(v), y)
  BY <1>1, <1>2 DEF ADD_IXY_rp
<1>6. Matches(ADD_HL_rp(y), ADD_HL_rp(v), y)
  BY <1>1, <1>2 DEF ADD_HL_rp
<1>7. \A rp, n : Matches(Count(y, rp, n), Count(v, rp, n), y)
  BY <1>1, JointSets, JointMatches DEF Count
<1> QED
  BY <1>3, <1>4, <1>5, <1>6, <1>7

\* z80_opcodes_bit.c and z80_opcodes_rotshift.c.
LEMMA BitMatch ==
  ASSUME NEW k \in 2..4, NEW y, NEW v, Twins(y, v, k)
  PROVE  /\ \A kind : Matches(BitR(y, kind), BitR(v, kind), y)
         /\ \A kind : Matches(BitHLp(y, kind), BitHLp(v, kind), y)
         /\ k > 3 => \A kind : Matches(BitIXYp(y, kind), BitIXYp(v, kind), y)
         /\ Matches(shift_rot_r(y), shift_rot_r(v), y)
         /\ k > 3 => /\ Matches(shift_rot_HLp(y), shift_rot_HLp(v), y)
                     /\ Matches(shift_rot_IXYp(y), shift_rot_IXYp(v), y)
<1>1. /\ Joint(y, v) /\ F(y) = F(v) /\ y.opcode[1] = v.opcode[1] /\ y.r = v.r
      /\ y.read_buffer = v.read_buffer /\ \A rp : Word(y, rp) = Word(v, rp)
      /\ k > 3 => Indexed(y) = Indexed(v) /\ y.opcode[3] = v.opcode[3]
  BY TwinOperands DEF Twins
<1>2. /\ \A kind, b, i : BitOp(y, kind, b, i) = BitOp(v, kind, b, i)
      /\ \A i, b : Rotate(y, i, b) = Rotate(v, i, b)
  BY <1>1 DEF BitOp, Rotate
<1>3. \A a, res : Matches(Modify(y, a, res), Modify(v, a, res), y)
  BY ModifyMatch
<1>4. \A r, res : Matches(Give(y, r, res), Give(v, r, res), y)
  BY <1>1, JointSets, JointMatches
<1>5. \A a, fs : Matches(Z80_8BIT_READ(y, a, 0, SetF(y, fs)),
                         Z80_8BIT_READ(v, a, 0, SetF(v, fs)), y)
  BY <1>1, JointSets, JointMatches, MacrosMatch
<1>6. \A kind : Matches(BitR(y, kind), BitR(v, kind), y)
  BY <1>1, <1>2, <1>4 DEF BitR
<1>7. \A kind : Matches(BitHLp(y, kind), BitHLp(v, kind), y)
  BY <1>1, <1>2, <1>3, <1>5 DEF BitHLp
<1>8. k > 3 => \A kind : Matches(BitIXYp(y, kind), BitIXYp(v, kind), y)
  BY <1>1, <1>2, <1>3, <1>5 DEF BitIXYp
<1>9. Matches(shift_rot_r(y), shift_rot_r(v), y)
  BY <1>1, <1>2, <1>4 DEF shift_rot_r
<1>10. k > 3 => /\ Matches(shift_rot_HLp(y), shift_rot_HLp(v), y)
                /\ Matches(shift_rot_IXYp(y), shift_rot_IXYp(v), y)
  BY <1>1, <1>2, <1>3 DEF shift_rot_HLp, shift_rot_IXYp
<1> QED
  BY <1>6, <1>7, <1>8, <1>9, <1>10

\* Calls and returns.
LEMMA CallMatch ==
  ASSUME NEW k \in 1..4, NEW y, NEW v, Twins(y, v, k)
  PROVE  /\ Joint(y, v)
         /\ \A w, u : Joint(w, u) => /\ \A n : Joint(Drop(w, n), Drop(u, n))
                                     /\ \A a : Joint(Jump(w, a), Jump(u, a))
                                     /\ \A e : Joint(Relative(w, e), Relative(u, e))
         /\ \A a, w, u : Matches(w, u, y) => Matches(Push(y, a, w), Push(v, a, u), y)
         /\ \A w, u : Matches(w, u, y) => Matches(Pop(y, w), Pop(v, u), y)
         /\ \A a : Matches(Call(y, a), Call(v, a), y)
         /\ Matches(Return16(y), Return16(v), y)
<1>1. Joint(y, v) /\ Pair(y) = Pair(v) /\ \A rp : Word(y, rp) = Word(v, rp)
  BY TwinOperands DEF Twins
<1>2. ASSUME NEW w, NEW u, Joint(w, u)
      PROVE  /\ \A n : Joint(Drop(w, n), Drop(u, n)) /\ \A a : Joint(Jump(w, a), Jump(u, a))
             /\ \A e : Joint(Relative(w, e), Relative(u, e))
  <2>1. \A rp : Word(w, rp) = Word(u, rp)
    BY <1>2, SameWords DEF Joint
  <2> QED
    BY <1>2, <2>1, JointSets DEF Drop, Jump, Relative
<1>3. \A a, w, u : Matches(w, u, y) => Matches(Push(y, a, w), Push(v, a, u), y)
  BY <1>1, MacrosMatch DEF Push
<1>4. \A w, u : Matches(w, u, y) => Matches(Pop(y, w), Pop(v, u), y)
  BY <1>1, MacrosMatch DEF Pop
<1>5. ASSUME NEW a PROVE Matches(Call(y, a), Call(v, a), y)
  <2>1. Matches(Jump(Drop(y, -2), a), Jump(Drop(v, -2), a), y)
    BY <1>1, <1>2, JointMatches
  <2> QED
    BY <1>1, <1>3, <2>1 DEF Call
<1>6. Matches(Return16(y), Return16(v), y)
  <2>1. Matches(Jump(Drop(y, 2), Pair(y)), Jump(Drop(v, 2), Pair(v)), y)
    BY <1>1, <1>2, JointMatches
  <2> QED
    BY <1>4, <2>1 DEF Return16
<1> QED
  BY <1>1, <1>2, <1>3, <1>4, <1>5, <1>6

\* z80_opcodes_jumps.c.
LEMMA JumpsMatch ==
  ASSUME NEW f \in JumpNames, NEW y, NEW v, Twins(y, v, Looks(f))
  PROVE  Matches(Jumps(f, y), Jumps(f, v), y)
<1>1. Joint(y, v) /\ Looks(f) \in 1..4
  BY LooksAt DEF Twins
<1>2. /\ y.r = v.r /\ y.opcode[0] = v.opcode[0] /\ \A rp : Word(y, rp) = Word(v, rp)
      /\ \A i : Condition(y, i) <=> Condition(v, i)
  BY <1>1, TwinOperands
<1>3. /\ \A a : Matches(Call(y, a), Call(v, a), y)
      /\ \A a : Matches(Jump(y, a), Jump(v, a), y)
      /\ \A e : Matches(Relative(y, e), Relative(v, e), y)
      /\ Matches(y, v, y)
  BY <1>1, CallMatch, JointMatches
<1>4. CASE f \in {"CALL_cc_nn", "CALL_nn", "JP_nn", "JP_cc_nn"}
  <2>1. nn(y, 1) = nn(v, 1)
    BY <1>1, <1>4, LooksAt, TwinOperands DEF LookThree
  <2> DEFINE a == nn(y, 1)
  <2>2. \/ Jumps(f, y) = Call(y, a) /\ Jumps(f, v) = Call(v, a)
        \/ Jumps(f, y) = Jump(y, a) /\ Jumps(f, v) = Jump(v, a)
        \/ Jumps(f, y) = y /\ Jumps(f, v) = v
    BY <1>2, <1>4, <2>1 DEF Jumps
  <2> QED
    BY <1>3, <2>2
<1>5. CASE f = "JP_HLp"
  BY <1>2, <1>3, <1>5 DEF Jumps
<1>6. CASE f \in {"JR_cc_d", "JR_d"}
  <2>1. y.opcode[1] = v.opcode[1]
    BY <1>1, <1>6, LooksAt, TwinOperands DEF LookTwo
  <2> DEFINE e == y.opcode[1]
  <2>2. \/ Jumps(f, y) = Relative(y, e) /\ Jumps(f, v) = Relative(v, e)
        \/ Jumps(f, y) = y /\ Jumps(f, v) = v
    BY <1>2, <1>6, <2>1 DEF Jumps
  <2> QED
    BY <1>3, <2>2
<1>7. CASE f = "DJNZ_d"
  <2>1. y.opcode[1] = v.opcode[1]
    BY <1>1, <1>7, LooksAt, TwinOperands DEF LookTwo
  <2> DEFINE b == Byte8(y.r["B"] - 1)
             e == y.opcode[1]
  <2>2. \/ Jumps(f, y) = Set(y, "B", b) /\ Jumps(f, v) = Set(v, "B", b)
        \/ /\ Jumps(f, y) = Relative(Set(y, "B", b), e)
           /\ Jumps(f, v) = Relative(Set(v, "B", b), e)
    BY <1>2, <1>7, <2>1 DEF Jumps
  <2> HIDE DEF b, e
  <2>3. Joint(Set(y, "B", b), Set(v, "B", b))
    BY <1>1, JointSets
  <2> QED
    BY <1>1, <2>2, <2>3, CallMatch, JointMatches
<1> QED
  BY <1>4, <1>5, <1>6, <1>7 DEF JumpNames

\* Returns and restarts.
LEMMA ReturnsMatch ==
  ASSUME NEW f \in ReturnNames, NEW y, NEW v, Twins(y, v, 1)
  PROVE  Matches(Returns(f, y), Returns(f, v), y)
<1>1. /\ Joint(y, v) /\ Pair(y) = Pair(v) /\ y.opcode[0] = v.opcode[0] /\ y.iff2 = v.iff2
      /\ \A i : Condition(y, i) <=> Condition(v, i)
  BY TwinOperands DEF Twins
<1>2. /\ \A a : Matches(Call(y, a), Call(v, a), y)
      /\ Matches(Return16(y), Return16(v), y)
      /\ Matches(y, v, y) /\ Matches(Abort(y), Abort(v), y)
  BY <1>1, CallMatch, JointMatches, JointSets
<1>3. CASE f = "RETN"
  <2> DEFINE w == Jump(Drop(y, 2), Pair(y))
             u == Jump(Drop(v, 2), Pair(y))
             p == [w EXCEPT !.iff1 = y.iff2]
             q == [u EXCEPT !.iff1 = y.iff2]
  <2>1. Joint(w, u)
    BY <1>1, CallMatch
  <2>2. Returns(f, y) = Pop(y, p) /\ Returns(f, v) = Pop(v, q)
    BY <1>1, <1>3 DEF Returns
  <2> HIDE DEF w, u
  <2>3. Matches(p, q, y)
    BY <2>1, JointSets, JointMatches
  <2> HIDE DEF p, q
  <2> QED
    BY <2>2, <2>3, CallMatch
<1>4. CASE f \in {"RET", "RETI", "RET_cc", "RST_y", "JP_IXYp"}
  BY <1>1, <1>2, <1>4 DEF Returns
<1> QED
  BY <1>3, <1>4 DEF ReturnNames

\* z80_opcodes_ld.c: what the loads are made of.
LEMMA MovesMatch ==
  ASSUME NEW k \in 1..4, NEW y, NEW v, Twins(y, v, k)
  PROVE  /\ \A a, r : Matches(Z80_8BIT_READ(y, a, 0, Set(y, r, y.read_buffer[0])),
                              Z80_8BIT_READ(v, a, 0, Set(v, r, v.read_buffer[0])), y)
         /\ \A a : Matches(LoadA(y, a), LoadA(v, a), y)
         /\ \A a, b : Matches(StoreByte(y, a, b), StoreByte(v, a, b), y)
         /\ \A a, rp : Matches(LoadPair(y, a, rp), LoadPair(v, a, rp), y)
         /\ \A a, rp : Matches(StorePair(y, a, rp), StorePair(v, a, rp), y)
         /\ \A r, b : Matches(Set(y, r, b), Set(v, r, b), y)
         /\ \A rp, n : Matches(SetWord(y, rp, n), SetWord(v, rp, n), y)
<1>1. /\ Joint(y, v) /\ Pair(y) = Pair(v) /\ y.read_buffer = v.read_buffer
      /\ \A rp : Word(y, rp) = Word(v, rp)
  BY TwinOperands DEF Twins
<1>2. /\ \A r, b : Matches(Set(y, r, b), Set(v, r, b), y)
      /\ \A rp, n : Matches(SetWord(y, rp, n), SetWord(v, rp, n), y)
      /\ Matches(y, v, y)
  BY <1>1, JointSets, JointMatches
<1>3. \A a, r : Matches(Z80_8BIT_READ(y, a, 0, Set(y, r, y.read_buffer[0])),
                        Z80_8BIT_READ(v, a, 0, Set(v, r, v.read_buffer[0])), y)
  BY <1>1, <1>2, MacrosMatch
<1>4. \A a : Matches(LoadA(y, a), LoadA(v, a), y)
  BY <1>3 DEF LoadA
<1>5. \A a, b : Matches(StoreByte(y, a, b), StoreByte(v, a, b), y)
  BY <1>2, MacrosMatch DEF StoreByte
<1>6. \A a, rp : Matches(LoadPair(y, a, rp), LoadPair(v, a, rp), y)
  BY <1>1, <1>2, MacrosMatch DEF LoadPair
<1>7. \A a, rp : Matches(StorePair(y, a, rp), StorePair(v, a, rp), y)
  BY <1>1, <1>2, MacrosMatch DEF StorePair
<1> QED
  BY <1>2, <1>3, <1>4, <1>5, <1>6, <1>7

\* The loads.
LEMMA LoadsMatch ==
  ASSUME NEW f \in LoadNames, NEW y, NEW v, Twins(y, v, Looks(f))
  PROVE  Matches(Loads(f, y), Loads(f, v), y)
<1>1. Looks(f) \in 1..4
  BY LooksAt
<1>2. /\ y.r = v.r /\ y.opcode[0] = v.opcode[0] /\ \A i : z80_r_ixy(y, i) = z80_r_ixy(v, i)
      /\ \A rp : Word(y, rp) = Word(v, rp)
  BY <1>1, TwinOperands
<1>3. /\ \A a, r : Matches(Z80_8BIT_READ(y, a, 0, Set(y, r, y.read_buffer[0])),
                           Z80_8BIT_READ(v, a, 0, Set(v, r, v.read_buffer[0])), y)
      /\ \A a : Matches(LoadA(y, a), LoadA(v, a), y)
      /\ \A a, b : Matches(StoreByte(y, a, b), StoreByte(v, a, b), y)
      /\ \A a, rp : Matches(LoadPair(y, a, rp), LoadPair(v, a, rp), y)
      /\ \A a, rp : Matches(StorePair(y, a, rp), StorePair(v, a, rp), y)
      /\ \A r, b : Matches(Set(y, r, b), Set(v, r, b), y)
      /\ \A rp, n : Matches(SetWord(y, rp, n), SetWord(v, rp, n), y)
  BY <1>1, MovesMatch
<1>4. CASE f \in {"LD_A_BCp", "LD_A_DEp", "LD_BCp_A", "LD_DEp_A"}
  BY <1>2, <1>3, <1>4 DEF Loads
<1>5. CASE f \in {"LD_HLp_r", "LD_r_HLp", "LD_r_r", "LD_SP_HL", "LD_I_A", "LD_R_A"}
  BY <1>2, <1>3, <1>5 DEF Loads
<1>6. CASE f \in {"LD_HLp_n", "LD_r_n", "LD_r_r_undoc"}
  <2>1. y.opcode[1] = v.opcode[1]
    BY <1>1, <1>6, LooksAt, TwinOperands DEF LookTwo
  <2> QED
    BY <1>2, <1>3, <1>6, <2>1 DEF Loads
<1>7. CASE f \in {"LD_A_nnp", "LD_nnp_A", "LD_HL_nnp", "LD_nnp_HL", "LD_rp_nn"}
  <2>1. nn(y, 1) = nn(v, 1)
    BY <1>1, <1>7, LooksAt, TwinOperands DEF LookThree
  <2> QED
    BY <1>2, <1>3, <1>7, <2>1 DEF Loads
<1>8. CASE f \in {"LD_rp_nnp", "LD_nnp_rp"}
  <2>1. nn(y, 2) = nn(v, 2) /\ y.opcode[1] = v.opcode[1]
    BY <1>1, <1>8, LooksAt, TwinOperands DEF LookFour
  <2> QED
    BY <1>3, <1>8, <2>1 DEF Loads
<1> QED
  BY <1>4, <1>5, <1>6, <1>7, <1>8 DEF LoadNames

\* Those of IX and IY.
LEMMA LoadsIXYMatch ==
  ASSUME NEW f \in IndexNames, NEW y, NEW v, Twins(y, v, Looks(f))
  PROVE  Matches(LoadsIXY(f, y), LoadsIXY(f, v), y)
<1>1. Looks(f) \in 1..4
  BY LooksAt
<1>2. /\ y.r = v.r /\ IXY(y) = IXY(v) /\ \A rp : Word(y, rp) = Word(v, rp)
  BY <1>1, TwinOperands
<1>3. /\ \A a, r : Matches(Z80_8BIT_READ(y, a, 0, Set(y, r, y.read_buffer[0])),
                           Z80_8BIT_READ(v, a, 0, Set(v, r, v.read_buffer[0])), y)
      /\ \A a, b : Matches(StoreByte(y, a, b), StoreByte(v, a, b), y)
      /\ \A a, rp : Matches(LoadPair(y, a, rp), LoadPair(v, a, rp), y)
      /\ \A a, rp : Matches(StorePair(y, a, rp), StorePair(v, a, rp), y)
      /\ \A r, b : Matches(Set(y, r, b), Set(v, r, b), y)
      /\ \A rp, n : Matches(SetWord(y, rp, n), SetWord(v, rp, n), y)
  BY <1>1, MovesMatch
<1>4. CASE f \in {"LD_IXYH_n", "LD_IXYL_n", "LD_IXYp_r", "LD_r_IXYp"}
  <2>1. /\ y.opcode[1] = v.opcode[1] /\ y.opcode[2] = v.opcode[2]
        /\ Indexed(y) = Indexed(v)
    BY <1>1, <1>4, LooksAt, TwinOperands DEF LookThree
  <2> QED
    BY <1>2, <1>3, <1>4, <2>1 DEF LoadsIXY
<1>5. CASE f \in {"LD_IXY_nn", "LD_nnp_IXY", "LD_IXY_nnp", "LD_IXYp_n"}
  <2>1. nn(y, 2) = nn(v, 2) /\ y.opcode[3] = v.opcode[3] /\ Indexed(y) = Indexed(v)
    BY <1>1, <1>5, LooksAt, TwinOperands DEF LookFour
  <2> QED
    BY <1>2, <1>3, <1>5, <2>1 DEF LoadsIXY
<1>6. CASE f = "LD_SP_IXY"
  BY <1>2, <1>3, <1>6 DEF LoadsIXY
<1> QED
  BY <1>4, <1>5, <1>6 DEF IndexNames

\* The stack.
LEMMA StackMatch ==
  ASSUME NEW f \in StackNames, NEW y, NEW v, Twins(y, v, 1)
  PROVE  Matches(Stack(f, y), Stack(f, v), y)
<1>1. /\ Joint(y, v) /\ Pair(y) = Pair(v) /\ y.opcode[0] = v.opcode[0] /\ IXY(y) = IXY(v)
      /\ \A rp : Word(y, rp) = Word(v, rp)
  BY TwinOperands DEF Twins
<1>2. Joint(Drop(y, 2), Drop(v, 2)) /\ Joint(Drop(y, -2), Drop(v, -2))
  BY <1>1, CallMatch
<1>3. \A a : Matches(Push(y, a, Drop(y, -2)), Push(v, a, Drop(v, -2)), y)
  BY <1>2, JointMatches, CallMatch
<1>4. ASSUME NEW rp, NEW n
      PROVE  Matches(Pop(y, SetWord(Drop(y, 2), rp, n)), Pop(v, SetWord(Drop(v, 2), rp, n)), y)
  <2>1. Joint(SetWord(Drop(y, 2), rp, n), SetWord(Drop(v, 2), rp, n))
    BY <1>2, JointSets
  <2>2. Matches(SetWord(Drop(y, 2), rp, n), SetWord(Drop(v, 2), rp, n), y)
    BY <2>1, JointMatches
  <2> QED
    BY <2>2, CallMatch
<1>5. CASE f \in {"PUSH_rp2", "PUSH_IXY"}
  BY <1>1, <1>3, <1>5 DEF Stack
<1>6. CASE f \in {"POP_rp2", "POP_IXY"}
  BY <1>1, <1>4, <1>6 DEF Stack
<1> QED
  BY <1>5, <1>6 DEF StackNames

\* Ports.
LEMMA PortsMatch ==
  ASSUME NEW f \in PortNames, NEW y, NEW v, Twins(y, v, Looks(f))
  PROVE  Matches(Ports(f, y), Ports(f, v), y)
<1>1. Joint(y, v) /\ Looks(f) \in 1..4 /\ Looks(f) > 1
  BY LooksAt DEF Twins, PortNames, LookTwo
<1>2. y.r = v.r /\ y.opcode[1] = v.opcode[1] /\ y.read_buffer = v.read_buffer
  BY <1>1, TwinOperands
<1>3. /\ \A r, b : Matches(Set(y, r, b), Set(v, r, b), y)
      /\ Matches(y, v, y) /\ Matches(Abort(y), Abort(v), y)
  BY <1>1, JointSets, JointMatches
<1>4. /\ \A a, r, b : Matches(Z80_8BIT_READ(y, a, 1, Set(y, r, b)),
                              Z80_8BIT_READ(v, a, 1, Set(v, r, b)), y)
      /\ \A a, b : Matches(Z80_8BIT_WRITE(y, a, 1, b, y), Z80_8BIT_WRITE(v, a, 1, b, v), y)
  BY <1>3, MacrosMatch
<1>5. CASE f = "IN_A_np"
  BY <1>2, <1>4, <1>5 DEF Ports
<1>6. CASE f = "OUT_np_A"
  BY <1>2, <1>4, <1>6 DEF Ports
<1>7. CASE f = "OUT_Cp_r"
  <2>1. \/ Ports(f, y) = Abort(y) /\ Ports(f, v) = Abort(v)
        \/ \E a, b : /\ Ports(f, y) = Z80_8BIT_WRITE(y, a, 1, b, y)
                     /\ Ports(f, v) = Z80_8BIT_WRITE(v, a, 1, b, v)
    <3> DEFINE r == z80_r(Y(y.opcode[1]))
               a == y.r["C"] + 256 * y.r["A"]
    <3>1. /\ Ports(f, y) = IF r = "" THEN Abort(y) ELSE Z80_8BIT_WRITE(y, a, 1, y.r[r], y)
          /\ Ports(f, v) = IF r = "" THEN Abort(v) ELSE Z80_8BIT_WRITE(v, a, 1, y.r[r], v)
      BY <1>2, <1>7 DEF Ports
    <3> HIDE DEF r, a
    <3> QED
      BY <3>1
  <2> QED
    BY <1>3, <1>4, <2>1
<1> QED
  BY <1>5, <1>6, <1>7 DEF PortNames

\* What two alike count and repeat.
LEMMA RoundMatch ==
  ASSUME NEW w, NEW u, Joint(w, u)
  PROVE  /\ \A rp, n : Joint(Count(w, rp, n), Count(u, rp, n))
         /\ \A more : Joint(Again(w, more), Again(u, more))
<1>1. \A rp, n : Joint(Count(w, rp, n), Count(u, rp, n))
  BY SameWords, JointSets DEF Joint, Count
<1> QED
  BY <1>1 DEF Again

\* The end of a function given back as REFRESH.
LEMMA RepeatedMatch ==
  ASSUME NEW w, NEW u, NEW y, Matches(w, u, y)
  PROVE  Matches(Repeated(w), Repeated(u), y)
<1>1. DOMAIN w = FieldNames
  BY DEF Matches, Same
<1>2. ASSUME NEW x, DOMAIN x = FieldNames
      PROVE  /\ Same(Repeated(x), x)
             /\ Repeated(x).stage = IF x.stage = "RESET" THEN "REFRESH" ELSE x.stage
  BY <1>2 DEF Same, Repeated, Return, FieldNames
<1>3. Same(Repeated(w), w) /\ (Repeated(w).stage \in {"M2", "M3"} <=> w.stage \in {"M2", "M3"})
  BY <1>1, <1>2
<1>4. CASE w.stage \in {"M2", "M3"}
  BY <1>3, <1>4 DEF Matches, Same
<1>5. CASE w.stage \notin {"M2", "M3"}
  <2>1. Same(w, u) /\ DOMAIN u = FieldNames
    BY <1>5 DEF Matches, Same
  <2>2. Same(Repeated(u), u)
    BY <1>2, <2>1
  <2> QED
    BY <1>3, <1>5, <2>1, <2>2 DEF Matches, Same
<1> QED
  BY <1>4, <1>5

\* The block instructions that search and send, and the copies that keep P.
LEMMA BlocksMatch ==
  ASSUME NEW y, NEW v, Twins(y, v, 1)
  PROVE  /\ \A d : Matches(Search(y, d), Search(v, d), y)
         /\ \A d, clear : Matches(Copy(y, d, clear), Copy(v, d, clear), y)
         /\ \A d : Matches(OUTD(y, d), OUTD(v, d), y)
         /\ Matches(OTIR(y), OTIR(v), y)
<1>1. /\ Joint(y, v) /\ F(y) = F(v) /\ y.r = v.r /\ y.read_buffer = v.read_buffer
      /\ \A rp : Word(y, rp) = Word(v, rp)
  BY TwinOperands DEF Twins
<1>2. Undocumented(y) = Undocumented(v) /\ LeftToSend(y) = LeftToSend(v)
  BY <1>1 DEF Undocumented, LeftToSend
<1>3. ASSUME NEW d PROVE Matches(Search(y, d), Search(v, d), y)
  <2> DEFINE w == Count(Count(y, "BC", -1), "HL", d)
             u == Count(Count(v, "BC", -1), "HL", d)
             n == Byte8(y.r["A"] - y.read_buffer[0])
             fs == (F(y) \cap {"C"}) \cup Sign(n) \cup Zero(n) \cup {"N"}
                   \cup HalfBorrow(y.r["A"], y.read_buffer[0])
                   \cup Flag("P", Word(w, "BC") = 0)
             hl == Word(y, "HL")
  <2>1. Joint(w, u)
    BY <1>1, RoundMatch
  <2>2. Word(w, "BC") = Word(u, "BC")
    BY <2>1, SameWords DEF Joint
  <2>3. /\ Search(y, d) = Z80_8BIT_READ(y, hl, 0, SetF(w, fs))
        /\ Search(v, d) = Z80_8BIT_READ(v, hl, 0, SetF(u, fs))
    <3> HIDE DEF w, u
    <3> QED
      BY <1>1, <2>2 DEF Search, w, u
  <2> HIDE DEF w, u, fs
  <2>4. Matches(SetF(w, fs), SetF(u, fs), y)
    BY <2>1, JointSets, JointMatches
  <2> QED
    BY <2>3, <2>4, MacrosMatch
<1>4. ASSUME NEW d, NEW clear PROVE Matches(Copy(y, d, clear), Copy(v, d, clear), y)
  <2> DEFINE w == Count(Count(Count(y, "BC", -1), "HL", d), "DE", d)
             u == Count(Count(Count(v, "BC", -1), "HL", d), "DE", d)
             more == Word(w, "BC") # 0
             fs == (F(y) \ clear) \cup Flag("P", more) \cup Undocumented(y)
             hl == Word(y, "HL")
             de == Word(y, "DE")
             b  == y.read_buffer[0]
             p  == Z80_8BIT_WRITE(y, de, 0, b, Again(SetF(w, fs), more))
             q  == Z80_8BIT_WRITE(v, de, 0, b, Again(SetF(u, fs), more))
  <2>1. Joint(w, u)
    BY <1>1, RoundMatch
  <2>2. Word(w, "BC") = Word(u, "BC")
    BY <2>1, SameWords DEF Joint
  <2>3. Copy(y, d, clear) = Z80_8BIT_READ(y, hl, 0, p)
    BY DEF Copy
  <2>4. Copy(v, d, clear) = Z80_8BIT_READ(v, hl, 0, q)
    <3> HIDE DEF w, u
    <3> QED
      BY <1>1, <1>2, <2>2 DEF Copy, u
  <2> HIDE DEF w, u, fs, more
  <2>5. Joint(Again(SetF(w, fs), more), Again(SetF(u, fs), more))
    BY <2>1, JointSets, RoundMatch
  <2>6. Matches(p, q, y)
    BY <2>5, JointMatches, MacrosMatch
  <2> HIDE DEF p, q
  <2> QED
    BY <2>3, <2>4, <2>6, MacrosMatch
<1>5. ASSUME NEW d, NEW fs PROVE Matches(Send(y, d, fs), Send(v, d, fs), y)
  <2> DEFINE rest == LeftToSend(y)
             w == Again(SetF(Set(Count(y, "HL", d), "B", rest), fs), rest # 0)
             u == Again(SetF(Set(Count(v, "HL", d), "B", rest), fs), rest # 0)
             hl == Word(y, "HL")
             a  == y.r["C"] + 256 * rest
             b  == y.read_buffer[0]
             p  == Z80_8BIT_WRITE(y, a, 1, b, w)
             q  == Z80_8BIT_WRITE(v, a, 1, b, u)
  <2>1. /\ Send(y, d, fs) = Z80_8BIT_READ(y, hl, 0, p)
        /\ Send(v, d, fs) = Z80_8BIT_READ(v, hl, 0, q)
    BY <1>1, <1>2 DEF Send
  <2> HIDE DEF rest
  <2>2. Joint(w, u)
    <3>1. Joint(Set(Count(y, "HL", d), "B", rest), Set(Count(v, "HL", d), "B", rest))
      BY <1>1, RoundMatch, JointSets
    <3> QED
      BY <3>1, JointSets, RoundMatch
  <2> HIDE DEF w, u
  <2>3. Matches(p, q, y)
    BY <2>2, JointMatches, MacrosMatch
  <2> HIDE DEF p, q
  <2> QED
    BY <2>1, <2>3, MacrosMatch
<1>6. \A d : Matches(OUTD(y, d), OUTD(v, d), y)
  BY <1>1, <1>2, <1>5 DEF OUTD
<1>7. Matches(OTIR(y), OTIR(v), y)
  BY <1>1, <1>5 DEF OTIR
<1> QED
  BY <1>3, <1>4, <1>6, <1>7
-----------------------------------------------------------------------------
(***************************************************************************)
(* The flags in their register.                                            *)
(***************************************************************************)

\* The number made of bits is a byte that has them.
LEMMA BitsOfValue ==
  ASSUME NEW bs
  PROVE  /\ Byte8(Value(bs)) = Value(bs)
         /\ \A i \in {0, 1, 2, 3, 4, 5, 6, 7} : Bit(Value(bs), i) <=> i \in bs
<1> DEFINE x(i) == IF i \in bs THEN 1 ELSE 0
           n == Value(bs)
           x0 == x(0)
           x1 == x(1)
           x2 == x(2)
           x3 == x(3)
           x4 == x(4)
           x5 == x(5)
           x6 == x(6)
           x7 == x(7)
<1>1. \A i : x(i) \in {0, 1} /\ (x(i) = 1 <=> i \in bs)
  OBVIOUS
<1>2. /\ Weight[1] = 1 /\ Weight[2] = 2 /\ Weight[3] = 4 /\ Weight[4] = 8
      /\ Weight[5] = 16 /\ Weight[6] = 32 /\ Weight[7] = 64 /\ Weight[8] = 128
  BY DEF Weight
<1>3. n = x0 + 2*x1 + 4*x2 + 8*x3 + 16*x4 + 32*x5 + 64*x6 + 128*x7
  BY <1>2, SMT DEF Value
<1> HIDE DEF x, n
<1>4. /\ n \in Byte
      /\ n % 2 = x(0) /\ (n \div 2) % 2 = x(1) /\ (n \div 4) % 2 = x(2)
      /\ (n \div 8) % 2 = x(3) /\ (n \div 16) % 2 = x(4) /\ (n \div 32) % 2 = x(5)
      /\ (n \div 64) % 2 = x(6) /\ (n \div 128) % 2 = x(7)
  <2>0. /\ x0 \in {0, 1} /\ x1 \in {0, 1} /\ x2 \in {0, 1} /\ x3 \in {0, 1}
        /\ x4 \in {0, 1} /\ x5 \in {0, 1} /\ x6 \in {0, 1} /\ x7 \in {0, 1}
    BY <1>1
  <2> HIDE DEF x0, x1, x2, x3, x4, x5, x6, x7
  <2>1. n % 2 = x0
    BY <1>3, <2>0, SMT
  <2>2. (n \div 2) % 2 = x1
    BY <1>3, <2>0, SMT
  <2>3. (n \div 4) % 2 = x2
    BY <1>3, <2>0, SMT
  <2>4. (n \div 8) % 2 = x3
    BY <1>3, <2>0, SMT
  <2>5. (n \div 16) % 2 = x4
    BY <1>3, <2>0, SMT
  <2>6. (n \div 32) % 2 = x5
    BY <1>3, <2>0, SMT
  <2>7. (n \div 64) % 2 = x6
    BY <1>3, <2>0, SMT
  <2>8. (n \div 128) % 2 = x7
    BY <1>3, <2>0, SMT
  <2>9. n \in Byte
    BY <1>3, <2>0, SMT DEF Byte
  <2> QED
    BY <2>1, <2>2, <2>3, <2>4, <2>5, <2>6, <2>7, <2>8, <2>9
       DEF x0, x1, x2, x3, x4, x5, x6, x7
<1>5. Byte8(n) = n
  BY <1>4, SMT DEF Byte8, Byte
<1>6. n \div 1 = n
  BY <1>4, SMT DEF Byte
<1>7. ASSUME NEW i \in {0, 1, 2, 3, 4, 5, 6, 7} PROVE Bit(n, i) <=> i \in bs
  <2>1. (n \div Weight[i + 1]) % 2 = x(i)
    BY <1>2, <1>4, <1>6
  <2> QED
    BY <1>1, <2>1 DEF Bit
<1> QED
  BY <1>5, <1>7 DEF n

\* Each flag has a bit of its own.
LEMMA Positions ==
  /\ \A f \in Flags : Position(f) \in {0, 1, 2, 3, 4, 5, 6, 7}
  /\ \A f \in Flags, g \in Flags : Position(f) = Position(g) => f = g
BY DEF Flags, Position, FlagBit

\* Flags that have been put into the register are the flags found there.
LEMMA FlagsReturn ==
  ASSUME NEW fs \in SUBSET Flags
  PROVE  FlagsOf(Byte8(FlagByte(fs))) = fs
<1> DEFINE bs == { Position(f) : f \in fs }
<1>1. FlagByte(fs) = Value(bs)
  BY DEF FlagByte
<1>2. \A f \in Flags : Position(f) \in bs <=> f \in fs
  BY Positions
<1> HIDE DEF bs
<1>3. \A f \in Flags : Bit(Value(bs), Position(f)) <=> f \in fs
  BY <1>2, BitsOfValue, Positions
<1>4. Byte8(FlagByte(fs)) = Value(bs)
  BY <1>1, BitsOfValue
<1> QED
  BY <1>3, <1>4 DEF FlagsOf

\* So it is with SetF.
LEMMA FlagsSet ==
  ASSUME NEW w, DOMAIN w = FieldNames, DOMAIN w.r = Registers, NEW fs \in SUBSET Flags
  PROVE  F(SetF(w, fs)) = fs
<1> DEFINE c == Byte8(FlagByte(fs))
<1> HIDE DEF c
<1>1. "r" \in DOMAIN w /\ "F" \in DOMAIN w.r
  BY Names DEF FieldNames
<1>2. [w EXCEPT !.r["F"] = c].r["F"] = c
  BY <1>1
<1>3. SetF(w, fs) = [w EXCEPT !.r["F"] = c]
  BY DEF SetF, Set, c
<1>4. FlagsOf(c) = fs
  BY FlagsReturn DEF c
<1> QED
  BY <1>2, <1>3, <1>4 DEF F

-----------------------------------------------------------------------------
(***************************************************************************)
(* LDDR and LDIR clear P even when all they do is ask for a byte: P, which *)
(* they set from BC in the end, may differ from one call to the next.      *)
(***************************************************************************)
Others(w, u) ==
  /\ DOMAIN w = FieldNames /\ DOMAIN u = FieldNames
  /\ DOMAIN w.r = Registers /\ DOMAIN u.r = Registers
  /\ \A q \in Registers \ {"F"} : w.r[q] = u.r[q]
  /\ w.iff1 = u.iff1 /\ w.iff2 = u.iff2 /\ w.int_mode = u.int_mode
Near(w, u) == Others(w, u) /\ F(w) \ {"P"} = F(u) \ {"P"}

\* All but the flags, while neither asks for a byte.
Almost(w, u) == Others(w, u) /\ w.stage = u.stage /\ w.stage \notin {"M2", "M3"}

\* Setting the flags makes them alike.
LEMMA AlmostSets ==
  ASSUME NEW w, NEW u, Almost(w, u)
  PROVE  /\ \A r, b : Almost(Set(w, r, b), Set(u, r, b))
         /\ \A fs : Joint(SetF(w, fs), SetF(u, fs))
<1>1. ASSUME NEW r, NEW c
      PROVE  LET p == [w EXCEPT !.r[r] = c]
                 q == [u EXCEPT !.r[r] = c]
             IN Almost(p, q) /\ (r = "F" => Joint(p, q))
  <2> DEFINE p == [w EXCEPT !.r[r] = c]
             q == [u EXCEPT !.r[r] = c]
  <2>1. DOMAIN w = FieldNames /\ DOMAIN u = FieldNames
    BY DEF Almost, Others
  <2>2. /\ DOMAIN p = FieldNames /\ p.r = [w.r EXCEPT ![r] = c] /\ p.iff1 = w.iff1
        /\ p.iff2 = w.iff2 /\ p.int_mode = w.int_mode /\ p.stage = w.stage
    BY <2>1 DEF FieldNames
  <2>3. /\ DOMAIN q = FieldNames /\ q.r = [u.r EXCEPT ![r] = c] /\ q.iff1 = u.iff1
        /\ q.iff2 = u.iff2 /\ q.int_mode = u.int_mode /\ q.stage = u.stage
    BY <2>1 DEF FieldNames
  <2>4. /\ DOMAIN w.r = Registers /\ DOMAIN u.r = Registers
        /\ \A s \in Registers \ {"F"} : w.r[s] = u.r[s]
    BY DEF Almost, Others
  <2>5. /\ DOMAIN [w.r EXCEPT ![r] = c] = Registers /\ DOMAIN [u.r EXCEPT ![r] = c] = Registers
        /\ \A s \in Registers : [w.r EXCEPT ![r] = c][s] = IF s = r THEN c ELSE w.r[s]
        /\ \A s \in Registers : [u.r EXCEPT ![r] = c][s] = IF s = r THEN c ELSE u.r[s]
    BY <2>4
  <2>6. r = "F" => [w.r EXCEPT ![r] = c] = [u.r EXCEPT ![r] = c]
    BY <2>4
  <2> HIDE DEF p, q
  <2>7. Almost(p, q)
    BY <2>2, <2>3, <2>4, <2>5 DEF Almost, Others
  <2>8. r = "F" => Joint(p, q)
    BY <2>2, <2>3, <2>6 DEF Joint, Same, Almost, Others
  <2> QED
    BY <2>7, <2>8 DEF p, q
<1>2. ASSUME NEW r, NEW b PROVE Almost(Set(w, r, b), Set(u, r, b))
  BY <1>1 DEF Set
<1>3. ASSUME NEW fs PROVE Joint(SetF(w, fs), SetF(u, fs))
  BY <1>1 DEF Set, SetF
<1> QED
  BY <1>2, <1>3

\* Counting leaves them as they are.
LEMMA AlmostCounts ==
  ASSUME NEW w, NEW u, Almost(w, u), NEW rp \in {"BC", "DE", "HL"}
  PROVE  /\ Word(w, rp) = Word(u, rp)
         /\ \A n : Almost(Count(w, rp, n), Count(u, rp, n))
<1>1. /\ Halves[rp][1] \in Registers \ {"F"} /\ Halves[rp][2] \in Registers \ {"F"}
  BY Names DEF Halves, Pairs16
<1>2. Word(w, rp) = Word(u, rp)
  BY <1>1 DEF Almost, Others, Word
<1>3. \A r, b, q, c : Almost(Set(Set(w, r, b), q, c), Set(Set(u, r, b), q, c))
  BY AlmostSets
<1> QED
  BY <1>2, <1>3 DEF Count, SetWord

\* A copy by two that are nearly alike.
LEMMA CopyNear ==
  ASSUME NEW y, NEW v, Near(y, v), y.stage = "RESET", v.stage = "RESET",
         y.read_buffer = v.read_buffer, v.read_index = 2, v.write_index = 2,
         NEW d, NEW clear, "P" \in clear
  PROVE  Matches(Copy(y, d, clear), Copy(v, d, clear), y)
<1> DEFINE w == Count(Count(Count(y, "BC", -1), "HL", d), "DE", d)
           u == Count(Count(Count(v, "BC", -1), "HL", d), "DE", d)
           more == Word(w, "BC") # 0
           fs == (F(y) \ clear) \cup Flag("P", more) \cup Undocumented(y)
           hl == Word(y, "HL")
           de == Word(y, "DE")
           b  == y.read_buffer[0]
           p  == Z80_8BIT_WRITE(y, de, 0, b, Again(SetF(w, fs), more))
           q  == Z80_8BIT_WRITE(v, de, 0, b, Again(SetF(u, fs), more))
<1>1. Almost(y, v) /\ DOMAIN y = FieldNames
  BY DEF Near, Almost, Others
<1>2. /\ Word(y, "HL") = Word(v, "HL") /\ Word(y, "DE") = Word(v, "DE")
      /\ Undocumented(y) = Undocumented(v) /\ F(y) \ clear = F(v) \ clear
  <2>1. y.r["A"] = v.r["A"]
    BY <1>1, Names DEF Almost, Others
  <2> QED
    BY <1>1, <2>1, AlmostCounts DEF Undocumented, Near
<1>3. Almost(w, u)
  <2>1. Almost(Count(y, "BC", -1), Count(v, "BC", -1))
    BY <1>1, AlmostCounts
  <2>2. Almost(Count(Count(y, "BC", -1), "HL", d), Count(Count(v, "BC", -1), "HL", d))
    BY <2>1, AlmostCounts
  <2> QED
    BY <2>2, AlmostCounts
<1>4. Word(w, "BC") = Word(u, "BC")
  BY <1>3, AlmostCounts
<1>5. Copy(y, d, clear) = Z80_8BIT_READ(y, hl, 0, p)
  BY DEF Copy
<1>6. Copy(v, d, clear) = Z80_8BIT_READ(v, hl, 0, q)
  <2> HIDE DEF w, u
  <2> QED
    BY <1>2, <1>4 DEF Copy, u
<1> HIDE DEF w, u, fs, more
<1>7. Joint(Again(SetF(w, fs), more), Again(SetF(u, fs), more))
  BY <1>3, AlmostSets, RoundMatch
<1>8. Matches(p, q, y)
  BY <1>1, <1>7, JointMatches, MacrosGoThrough
<1> HIDE DEF p, q
<1> QED
  BY <1>1, <1>5, <1>6, <1>8, MacrosGoThrough

\* What a function that is LDDR or LDIR does with P.
Lax == {"LDDR", "LDIR"}
Like(f, w, u)       == IF f \in Lax THEN Near(w, u) ELSE Same(w, u)
Follows(f, w, u, y) == IF w.stage \in {"M2", "M3"} THEN Like(f, w, y) ELSE Same(w, u)

\* P is cleared.
LEMMA ClearNear ==
  ASSUME NEW w, NEW u, NEW y, Matches(w, u, y), DOMAIN y.r = Registers
  PROVE  LET p == Repeated(ClearParity(w))
             q == Repeated(ClearParity(u))
         IN IF p.stage \in {"M2", "M3"} THEN Near(p, y) ELSE Same(p, q)
<1>1. DOMAIN w = FieldNames
  BY DEF Matches, Same
<1>2. ASSUME NEW x, DOMAIN x = FieldNames
      PROVE  /\ Same(Repeated(x), x)
             /\ Repeated(x).stage = IF x.stage = "RESET" THEN "REFRESH" ELSE x.stage
  BY <1>2 DEF Same, Repeated, Return, FieldNames
<1>3. ASSUME NEW x, DOMAIN x = FieldNames
      PROVE  /\ DOMAIN ClearParity(x) = FieldNames /\ ClearParity(x).stage = x.stage
             /\ ClearParity(x).iff1 = x.iff1 /\ ClearParity(x).iff2 = x.iff2
             /\ ClearParity(x).int_mode = x.int_mode
             /\ ClearParity(x).r
                  = [x.r EXCEPT !["F"] = Byte8(FlagByte(FlagsOf(x.r["F"]) \ {"P"}))]
  <2> DEFINE c == Byte8(FlagByte(FlagsOf(x.r["F"]) \ {"P"}))
             t == [x EXCEPT !.r["F"] = c]
  <2>1. ClearParity(x) = t
    BY DEF ClearParity, SetF, Set, F
  <2> HIDE DEF c
  <2>2. /\ DOMAIN t = FieldNames /\ t.stage = x.stage /\ t.iff1 = x.iff1 /\ t.iff2 = x.iff2
        /\ t.int_mode = x.int_mode /\ t.r = [x.r EXCEPT !["F"] = c]
    BY <1>3 DEF FieldNames
  <2> QED
    BY <2>1, <2>2 DEF c
<1>4. CASE w.stage \in {"M2", "M3"}
  <2> DEFINE p == ClearParity(w)
  <2>1. Same(w, y) /\ DOMAIN w.r = Registers
    BY <1>4 DEF Matches, Same
  <2>2. Near(p, y)
    <3>1. F(p) = F(w) \ {"P"}
      <4>1. F(w) \ {"P"} \in SUBSET Flags
        BY DEF F, FlagsOf
      <4> QED
        BY <1>1, <2>1, <4>1, FlagsSet DEF ClearParity
    <3>2. F(w) = F(y)
      BY <2>1, SameWords
    <3>3. Others(p, y)
      <4> DEFINE c == Byte8(FlagByte(FlagsOf(w.r["F"]) \ {"P"}))
      <4>1. /\ DOMAIN p = FieldNames /\ p.iff1 = w.iff1 /\ p.iff2 = w.iff2
            /\ p.int_mode = w.int_mode /\ p.r = [w.r EXCEPT !["F"] = c]
        BY <1>1, <1>3
      <4> HIDE DEF c, p
      <4>2. DOMAIN p.r = Registers /\ \A q \in Registers \ {"F"} : p.r[q] = w.r[q]
        BY <2>1, <4>1
      <4> QED
        BY <2>1, <4>1, <4>2 DEF Others, Same
    <3> HIDE DEF p
    <3> QED
      BY <3>1, <3>2, <3>3 DEF Near
  <2>3. DOMAIN p = FieldNames /\ p.stage \in {"M2", "M3"}
    BY <1>1, <1>3, <1>4
  <2> HIDE DEF p
  <2>4. Same(Repeated(p), p) /\ Repeated(p).stage \in {"M2", "M3"}
    BY <1>2, <2>3
  <2>5. F(Repeated(p)) = F(p)
    BY <2>4, SameWords
  <2>6. Near(Repeated(p), y)
    BY <2>2, <2>4, <2>5 DEF Near, Others, Same
  <2> QED
    BY <2>4, <2>6 DEF p
<1>5. CASE w.stage \notin {"M2", "M3"}
  <2> DEFINE p == ClearParity(w)
             q == ClearParity(u)
  <2>1. Same(w, u) /\ DOMAIN u = FieldNames
    BY <1>5 DEF Matches, Same
  <2>2. Same(p, q)
    <3>1. w.r = u.r /\ w.iff1 = u.iff1 /\ w.iff2 = u.iff2 /\ w.int_mode = u.int_mode
      BY <2>1 DEF Same
    <3>2. p.r = q.r /\ DOMAIN p = FieldNames /\ DOMAIN q = FieldNames
      <4>1. DOMAIN p = FieldNames /\ DOMAIN q = FieldNames
        BY <1>1, <1>3, <2>1
      <4>2. p.r = [w.r EXCEPT !["F"] = Byte8(FlagByte(FlagsOf(w.r["F"]) \ {"P"}))]
        BY <1>1, <1>3, Zenon
      <4>3. q.r = [u.r EXCEPT !["F"] = Byte8(FlagByte(FlagsOf(u.r["F"]) \ {"P"}))]
        BY <1>3, <2>1, Zenon
      <4> QED
        BY <3>1, <4>1, <4>2, <4>3, Zenon
    <3>3. p.iff1 = q.iff1 /\ p.iff2 = q.iff2 /\ p.int_mode = q.int_mode
      BY <1>1, <1>3, <2>1, <3>1
    <3> HIDE DEF p, q
    <3> QED
      BY <3>2, <3>3 DEF Same
  <2>3. p.stage = w.stage
    BY <1>1, <1>3
  <2> HIDE DEF p, q
  <2>4. Same(Repeated(p), p) /\ Same(Repeated(q), q) /\ Repeated(p).stage \notin {"M2", "M3"}
    BY <1>2, <1>5, <2>2, <2>3 DEF Same
  <2> QED
    BY <2>2, <2>4 DEF Same, p, q
<1> QED
  BY <1>4, <1>5

-----------------------------------------------------------------------------
(***************************************************************************)
(* All of them together.                                                   *)
(***************************************************************************)

\* All but LDDR and LDIR.
LEMMA AllMatch ==
  ASSUME NEW f \in (StayNames \cup GoNames \cup AbortNames) \ Lax,
         NEW y, NEW v, Twins(y, v, Looks(f)),
         NEW y0, y = Return(y0, "RESET"), NEW v0, v = Return(v0, "RESET")
  PROVE  Matches(Execute(f, y0), Execute(f, v0), y)
<1>1. Joint(y, v) /\ Looks(f) \in 1..4 /\ Twins(y, v, 1)
  BY LooksAt DEF Twins
<1>2. CASE f \in GeneralNames
  <2>1. Execute(f, y0) = General(f, y) /\ Execute(f, v0) = General(f, v)
    BY <1>2 DEF Execute, GeneralNames, Unimplemented
  <2> QED
    BY <1>2, <2>1, GeneralMatch
<1>3. CASE f \in RotateNames
  <2>1. \A x, x0 : x = Return(x0, "RESET") =>
          /\ f = "RLA" => Execute(f, x0) = RotateA(x, "RL")
          /\ f = "RLCA" => Execute(f, x0) = RotateA(x, "RLC")
          /\ f = "RRA" => Execute(f, x0) = RotateA(x, "RR")
          /\ f = "RRCA" => Execute(f, x0) = RotateA(x, "RRC")
    BY DEF Execute, Unimplemented
  <2>2. \A op : Matches(RotateA(y, op), RotateA(v, op), y)
    BY <1>1, AccumulatorMatch
  <2>3. /\ f = "RLA" => Matches(Execute(f, y0), Execute(f, v0), y)
        /\ f = "RLCA" => Matches(Execute(f, y0), Execute(f, v0), y)
        /\ f = "RRA" => Matches(Execute(f, y0), Execute(f, v0), y)
        /\ f = "RRCA" => Matches(Execute(f, y0), Execute(f, v0), y)
    BY <2>1, <2>2, Zenon
  <2> QED
    BY <1>3, <2>3 DEF RotateNames
<1>4. CASE f \in DigitNames
  <2>1. \A x, x0 : x = Return(x0, "RESET") =>
          /\ f = "SCF" => Execute(f, x0) = SCF(x)
          /\ f = "NEG" => Execute(f, x0) = NEG(x)
          /\ f = "RRD" => Execute(f, x0) = RRD(x)
          /\ f = "RLD" => Execute(f, x0) = RLD(x)
    BY DEF Execute, Unimplemented
  <2>2. /\ Matches(SCF(y), SCF(v), y) /\ Matches(NEG(y), NEG(v), y)
        /\ Matches(RRD(y), RRD(v), y) /\ Matches(RLD(y), RLD(v), y)
    BY <1>1, AccumulatorMatch
  <2>3. /\ f = "SCF" => Matches(Execute(f, y0), Execute(f, v0), y)
        /\ f = "NEG" => Matches(Execute(f, y0), Execute(f, v0), y)
        /\ f = "RRD" => Matches(Execute(f, y0), Execute(f, v0), y)
        /\ f = "RLD" => Matches(Execute(f, y0), Execute(f, v0), y)
    BY <2>1, <2>2, Zenon
  <2> QED
    BY <1>4, <2>3 DEF DigitNames
<1>5. CASE f \in Alu8Names
  <2>1. Execute(f, y0) = Alu8(f, y) /\ Execute(f, v0) = Alu8(f, v)
    BY <1>5 DEF Execute, Alu8Names, Unimplemented
  <2> QED
    BY <1>5, <2>1, Alu8Match
<1>6. CASE f \in IncDecNames
  <2>1. Execute(f, y0) = IncDec(f, y) /\ Execute(f, v0) = IncDec(f, v)
    BY <1>6 DEF Execute, IncDecNames, Unimplemented
  <2> QED
    BY <1>6, <2>1, IncDecMatch
<1>7. CASE f \in PairNames
  <2>1. z80_rp(P(y.opcode[0])) = z80_rp(P(v.opcode[0])) /\ IXY(y) = IXY(v)
    BY <1>1, TwinOperands
  <2>2. CASE f \in {"ADC_HL_rp", "SBC_HL_rp", "ADD_IXY_rp"}
    <3>1. Looks(f) > 1
      <4>1. f \in LookTwo
        BY <2>2, Zenon DEF LookTwo
      <4> QED
        BY <4>1, LooksAt
    <3>2. \/ Execute(f, y0) = ADC_HL_rp(y) /\ Execute(f, v0) = ADC_HL_rp(v)
          \/ Execute(f, y0) = SBC_HL_rp(y) /\ Execute(f, v0) = SBC_HL_rp(v)
          \/ Execute(f, y0) = ADD_IXY_rp(y) /\ Execute(f, v0) = ADD_IXY_rp(v)
      BY <2>2 DEF Execute, Unimplemented
    <3> QED
      BY <1>1, <3>1, <3>2, Alu16Match
  <2>3. CASE f = "ADD_HL_rp"
    <3>1. Execute(f, y0) = ADD_HL_rp(y) /\ Execute(f, v0) = ADD_HL_rp(v)
      BY <2>3 DEF Execute, Unimplemented
    <3> QED
      BY <1>1, <3>1, Alu16Match
  <2>4. CASE f \in {"INC_rp", "INC_IXY", "DEC_rp", "DEC_IXY"}
    <3>1. \E rp, n : Execute(f, y0) = Count(y, rp, n) /\ Execute(f, v0) = Count(v, rp, n)
      BY <2>1, <2>4 DEF Execute, Unimplemented
    <3> QED
      BY <1>1, <3>1, Alu16Match
  <2> QED
    BY <1>7, <2>2, <2>3, <2>4 DEF PairNames
<1>8. CASE f \in BitNames
  <2>1. CASE f \in {"BIT_b_r", "RES_b_r", "SET_b_r"}
    <3>1. \E kind : Execute(f, y0) = BitR(y, kind) /\ Execute(f, v0) = BitR(v, kind)
      BY <2>1 DEF Execute, Unimplemented
    <3>2. Looks(f) \in 2..4
      BY <1>1, <2>1, LooksAt DEF LookTwo
    <3> QED
      BY <3>1, <3>2, BitMatch
  <2>2. CASE f \in {"BIT_b_HLp", "RES_b_HLp", "SET_b_HLp"}
    <3>1. \E kind : Execute(f, y0) = BitHLp(y, kind) /\ Execute(f, v0) = BitHLp(v, kind)
      BY <2>2 DEF Execute, Unimplemented
    <3>2. Looks(f) \in 2..4
      BY <1>1, <2>2, LooksAt DEF LookTwo
    <3> QED
      BY <3>1, <3>2, BitMatch
  <2>3. CASE f \in {"BIT_b_IXYp", "RES_b_IXYp", "SET_b_IXYp"}
    <3>1. \E kind : Execute(f, y0) = BitIXYp(y, kind) /\ Execute(f, v0) = BitIXYp(v, kind)
      BY <2>3 DEF Execute, Unimplemented
    <3>2. Looks(f) = 4 /\ Twins(y, v, 4)
      BY <2>3, LooksAt DEF LookFour
    <3>3. Matches(BitIXYp(y, "BIT"), BitIXYp(v, "BIT"), y)
          /\ \A kind : Matches(BitIXYp(y, kind), BitIXYp(v, kind), y)
      BY <3>2, BitMatch
    <3> QED
      BY <3>1, <3>3
  <2> QED
    BY <1>8, <2>1, <2>2, <2>3 DEF BitNames
<1>9. CASE f \in ShiftNames
  <2>1. /\ f = "shift_rot_r" =>
             Execute(f, y0) = shift_rot_r(y) /\ Execute(f, v0) = shift_rot_r(v)
        /\ f = "shift_rot_HLp" =>
             Execute(f, y0) = shift_rot_HLp(y) /\ Execute(f, v0) = shift_rot_HLp(v)
        /\ f = "shift_rot_IXYp" =>
             Execute(f, y0) = shift_rot_IXYp(y) /\ Execute(f, v0) = shift_rot_IXYp(v)
    BY Zenon DEF Execute, Unimplemented
  <2>2. Looks(f) \in 2..4 /\ (f # "shift_rot_r" => Looks(f) > 3)
    <3>1. CASE f = "shift_rot_r"
      <4>1. f \in LookTwo
        BY <3>1, Zenon DEF LookTwo
      <4> QED
        BY <1>1, <3>1, <4>1, LooksAt
    <3>2. CASE f # "shift_rot_r"
      <4>1. f \in LookFour
        BY <1>9, <3>2 DEF ShiftNames, LookFour
      <4> QED
        BY <4>1, LooksAt
    <3> QED
      BY <3>1, <3>2
  <2> QED
    BY <1>9, <2>1, <2>2, BitMatch DEF ShiftNames
<1>10. CASE f \in IndexNames
  <2>1. Execute(f, y0) = LoadsIXY(f, y) /\ Execute(f, v0) = LoadsIXY(f, v)
    BY <1>10 DEF Execute, IndexNames, Unimplemented
  <2> QED
    BY <1>10, <2>1, LoadsIXYMatch
<1>11. CASE f \in StackNames
  <2>1. Execute(f, y0) = Stack(f, y) /\ Execute(f, v0) = Stack(f, v)
    BY <1>11 DEF Execute, StackNames, Unimplemented
  <2> QED
    BY <1>1, <1>11, <2>1, StackMatch
<1>12. CASE f \in PortNames
  <2>1. Execute(f, y0) = Ports(f, y) /\ Execute(f, v0) = Ports(f, v)
    BY <1>12 DEF Execute, PortNames, Unimplemented
  <2> QED
    BY <1>12, <2>1, PortsMatch
<1>13. CASE f \in LoadNames
  <2>1. Execute(f, y0) = Loads(f, y) /\ Execute(f, v0) = Loads(f, v)
    BY <1>13 DEF Execute, LoadNames, Unimplemented
  <2> QED
    BY <1>13, <2>1, LoadsMatch
<1>14. CASE f \in JumpNames
  <2>1. Execute(f, y0) = Jumps(f, y) /\ Execute(f, v0) = Jumps(f, v)
    BY <1>14 DEF Execute, JumpNames, Unimplemented
  <2> QED
    BY <1>14, <2>1, JumpsMatch
<1>15. CASE f \in ReturnNames
  <2>1. Execute(f, y0) = Returns(f, y) /\ Execute(f, v0) = Returns(f, v)
    BY <1>15 DEF Execute, ReturnNames, Unimplemented
  <2> QED
    BY <1>1, <1>15, <2>1, ReturnsMatch
<1>16. CASE f \in BlockNames
  <2>1. Execute(f, y0) = Blocks(f, y) /\ Execute(f, v0) = Blocks(f, v)
    BY <1>16 DEF Execute, BlockNames, Unimplemented
  <2>2. /\ \A d : Matches(Search(y, d), Search(v, d), y)
        /\ \A d, clear : Matches(Copy(y, d, clear), Copy(v, d, clear), y)
        /\ \A d : Matches(OUTD(y, d), OUTD(v, d), y)
        /\ Matches(OTIR(y), OTIR(v), y)
    BY <1>1, BlocksMatch
  <2>3. /\ \A d : Matches(Repeated(Search(y, d)), Repeated(Search(v, d)), y)
        /\ \A d : Matches(Repeated(OUTD(y, d)), Repeated(OUTD(v, d)), y)
    BY <2>2, RepeatedMatch
  <2>4. CASE f \in {"LDD", "LDI"}
    <3>1. CASE f = "LDD"
      <4>1. /\ Blocks(f, y) = Copy(y, -1, {"H", "P", "N", "3", "5"})
            /\ Blocks(f, v) = Copy(v, -1, {"H", "P", "N", "3", "5"})
        BY <3>1 DEF Blocks, LDD, LDI
      <4>2. Matches(Copy(y, -1, {"H", "P", "N", "3", "5"}),
                    Copy(v, -1, {"H", "P", "N", "3", "5"}), y)
        BY <2>2
      <4> QED
        BY <2>1, <4>1, <4>2
    <3>2. CASE f = "LDI"
      <4>1. /\ Blocks(f, y) = Copy(y, 1, {"H", "P", "N"})
            /\ Blocks(f, v) = Copy(v, 1, {"H", "P", "N"})
        BY <3>2 DEF Blocks, LDD, LDI
      <4>2. Matches(Copy(y, 1, {"H", "P", "N"}),
                    Copy(v, 1, {"H", "P", "N"}), y)
        BY <2>2
      <4> QED
        BY <2>1, <4>1, <4>2
    <3> QED
      BY <2>4, <3>1, <3>2
  <2>5. CASE f \in {"CPD", "CPI", "OUTD", "OUTI", "OTIR"}
    <3>1. CASE f = "CPD"
      <4>1. /\ Blocks(f, y) = Search(y, -1)
            /\ Blocks(f, v) = Search(v, -1)
        BY <3>1 DEF Blocks, LDD, LDI
      <4>2. Matches(Search(y, -1),
                    Search(v, -1), y)
        BY <2>2
      <4> QED
        BY <2>1, <4>1, <4>2
    <3>2. CASE f = "CPI"
      <4>1. /\ Blocks(f, y) = Search(y, 1)
            /\ Blocks(f, v) = Search(v, 1)
        BY <3>2 DEF Blocks, LDD, LDI
      <4>2. Matches(Search(y, 1),
                    Search(v, 1), y)
        BY <2>2
      <4> QED
        BY <2>1, <4>1, <4>2
    <3>3. CASE f = "OUTD"
      <4>1. /\ Blocks(f, y) = OUTD(y, -1)
            /\ Blocks(f, v) = OUTD(v, -1)
        BY <3>3 DEF Blocks, LDD, LDI
      <4>2. Matches(OUTD(y, -1),
                    OUTD(v, -1), y)
        BY <2>2
      <4> QED
        BY <2>1, <4>1, <4>2
    <3>4. CASE f = "OUTI"
      <4>1. /\ Blocks(f, y) = OUTD(y, 1)
            /\ Blocks(f, v) = OUTD(v, 1)
        BY <3>4 DEF Blocks, LDD, LDI
      <4>2. Matches(OUTD(y, 1),
                    OUTD(v, 1), y)
        BY <2>2
      <4> QED
        BY <2>1, <4>1, <4>2
    <3>5. CASE f = "OTIR"
      <4>1. /\ Blocks(f, y) = OTIR(y)
            /\ Blocks(f, v) = OTIR(v)
        BY <3>5 DEF Blocks, LDD, LDI
      <4>2. Matches(OTIR(y),
                    OTIR(v), y)
        BY <2>2
      <4> QED
        BY <2>1, <4>1, <4>2
    <3> QED
      BY <2>5, <3>1, <3>2, <3>3, <3>4, <3>5
  <2>6. CASE f \in {"CPDR", "CPIR", "OTDR"}
    <3>1. CASE f = "CPDR"
      <4>1. /\ Blocks(f, y) = Repeated(Search(y, -1))
            /\ Blocks(f, v) = Repeated(Search(v, -1))
        BY <3>1 DEF Blocks, LDD, LDI
      <4>2. Matches(Repeated(Search(y, -1)),
                    Repeated(Search(v, -1)), y)
        BY <2>3
      <4> QED
        BY <2>1, <4>1, <4>2
    <3>2. CASE f = "CPIR"
      <4>1. /\ Blocks(f, y) = Repeated(Search(y, 1))
            /\ Blocks(f, v) = Repeated(Search(v, 1))
        BY <3>2 DEF Blocks, LDD, LDI
      <4>2. Matches(Repeated(Search(y, 1)),
                    Repeated(Search(v, 1)), y)
        BY <2>3
      <4> QED
        BY <2>1, <4>1, <4>2
    <3>3. CASE f = "OTDR"
      <4>1. /\ Blocks(f, y) = Repeated(OUTD(y, -1))
            /\ Blocks(f, v) = Repeated(OUTD(v, -1))
        BY <3>3 DEF Blocks, LDD, LDI
      <4>2. Matches(Repeated(OUTD(y, -1)),
                    Repeated(OUTD(v, -1)), y)
        BY <2>3
      <4> QED
        BY <2>1, <4>1, <4>2
    <3> QED
      BY <2>6, <3>1, <3>2, <3>3
  <2> QED
    BY <1>16, <2>4, <2>5, <2>6 DEF BlockNames, Lax
<1>17. CASE f \in AbortNames
  <2>1. Execute(f, y0) = Abort(y) /\ Execute(f, v0) = Abort(v)
    BY <1>17 DEF Execute, AbortNames, Unimplemented
  <2> QED
    BY <1>1, <2>1, JointSets, JointMatches
<1> QED
  BY <1>2, <1>3, <1>4, <1>5, <1>6, <1>7, <1>8, <1>9, <1>10, <1>11, <1>12, <1>13, <1>14,
     <1>15, <1>16, <1>17 DEF StayNames, GoNames

\* What every function does when it is called again: y0 is what it is called with, v0 what
\* it is called with when its bytes have been moved and its first bytes are the same.
LEMMA CalledAgain ==
  ASSUME NEW f \in StayNames \cup GoNames \cup AbortNames,
         NEW y0, Sane(y0), NEW v0, Sane(v0), Like(f, y0, v0),
         y0.opcode_index = v0.opcode_index,
         \A i \in 0..3 : i < Looks(f) => y0.opcode[i] = v0.opcode[i],
         y0.read_buffer = v0.read_buffer, v0.read_index = 2, v0.write_index = 2
  PROVE  Follows(f, Execute(f, y0), Execute(f, v0), y0)
<1> DEFINE y == Return(y0, "RESET")
           v == Return(v0, "RESET")
<1>1. ASSUME NEW x, Sane(x)
      PROVE  /\ Same(Return(x, "RESET"), x) /\ Return(x, "RESET").stage = "RESET"
             /\ Return(x, "RESET").opcode = x.opcode
             /\ Return(x, "RESET").opcode_index = x.opcode_index
             /\ Return(x, "RESET").read_buffer = x.read_buffer
             /\ Return(x, "RESET").read_index = x.read_index
             /\ Return(x, "RESET").write_index = x.write_index
  BY <1>1 DEF Sane, Same, Return, FieldNames
<1>2. Same(y, y0) /\ Same(v, v0) /\ y.stage = "RESET" /\ v.stage = "RESET"
  BY <1>1
<1>3. /\ y.opcode = y0.opcode /\ y.opcode_index = y0.opcode_index
      /\ y.read_buffer = y0.read_buffer
      /\ v.opcode = v0.opcode /\ v.opcode_index = v0.opcode_index
      /\ v.read_buffer = v0.read_buffer
      /\ v.read_index = v0.read_index /\ v.write_index = v0.write_index
  BY <1>1
<1>4. CASE f \in Lax
  <2> DEFINE w == Execute(f, y0)
             u == Execute(f, v0)
             d == IF f = "LDDR" THEN -1 ELSE 1
             clear == IF f = "LDDR" THEN {"H", "P", "N", "3", "5"} ELSE {"H", "P", "N"}
  <2>1. /\ w = Repeated(ClearParity(Copy(y, d, clear)))
        /\ u = Repeated(ClearParity(Copy(v, d, clear)))
    <3>1. Execute(f, y0) = Blocks(f, y) /\ Execute(f, v0) = Blocks(f, v)
      BY <1>4 DEF Execute, Lax, Unimplemented
    <3> HIDE DEF y, v
    <3> QED
      BY <1>4, <3>1 DEF Blocks, Lax, LDD, LDI
  <2> HIDE DEF y, v, w, u
  <2>2. "P" \in clear
    OBVIOUS
  <2> HIDE DEF clear, d
  <2>3. F(y) = F(y0) /\ F(v) = F(v0)
    BY <1>2, SameWords
  <2>4. Near(y, v)
    BY <1>2, <1>4, <2>3 DEF Like, Near, Others, Same
  <2>5. Matches(Copy(y, d, clear), Copy(v, d, clear), y)
    BY <1>2, <1>3, <2>2, <2>4, CopyNear
  <2>6. DOMAIN y.r = Registers
    BY <2>4 DEF Near, Others
  <2>7. IF w.stage \in {"M2", "M3"} THEN Near(w, y) ELSE Same(w, u)
    BY <2>1, <2>5, <2>6, ClearNear
  <2>8. Near(w, y) => Near(w, y0)
    BY <1>2, <2>3 DEF Near, Others, Same
  <2> QED
    BY <1>4, <2>7, <2>8 DEF Follows, Like, w, u
<1>5. CASE f \notin Lax
  <2> HIDE DEF y, v
  <2>1. Same(y0, v0)
    BY <1>5 DEF Like
  <2>2. Joint(y, v)
    BY <1>2, <2>1 DEF Joint, Same
  <2>3. Twins(y, v, Looks(f))
    BY <1>2, <1>3, <2>2 DEF Twins
  <2>4. Matches(Execute(f, y0), Execute(f, v0), y)
    BY <1>5, <2>3, AllMatch DEF y, v
  <2> QED
    BY <1>2, <1>5, <2>4 DEF Matches, Follows, Like, Same
<1> QED
  BY <1>4, <1>5
-----------------------------------------------------------------------------
(***************************************************************************)
(* How long the instructions are.                                          *)
(***************************************************************************)

\* No function looks beyond its instruction, but that which rotates (HL).
LEMMA LooksWithinUnprefixed == \A e \in Unprefixed : Looks(e.f) <= e.size
BY DEF Unprefixed, Row, Looks, LookTwo, LookThree, LookFour

\* Those after a prefix.
LEMMA LooksWithinOthers ==
  /\ \A e \in RowsCB : e.f # "shift_rot_HLp" => Looks(e.f) <= e.size
  /\ \A e \in RowsDDCB : Looks(e.f) <= e.size
  /\ \A e \in RowsED : Looks(e.f) <= e.size
  /\ \A e \in RowsDD : Looks(e.f) <= e.size
<1>1. \A e \in RowsCB : e.f # "shift_rot_HLp" => Looks(e.f) <= e.size
  BY DEF RowsCB, Row, Looks, LookTwo, LookThree, LookFour
<1>2. \A e \in RowsDDCB : Looks(e.f) <= e.size
  BY LengthsCB, LooksAt DEF Lengths
<1>3. \A e \in RowsED : Looks(e.f) <= e.size
  BY DEF RowsED, Row, Looks, LookTwo, LookThree, LookFour
<1>4. \A e \in RowsDD : Looks(e.f) <= e.size
  BY DEF RowsDD, Row, Looks, LookTwo, LookThree, LookFour
<1> QED
  BY <1>1, <1>2, <1>3, <1>4

\* The row of what is ready.
LEMMA LooksAtOwn ==
  ASSUME NEW w, Sane(w), Ready(w), Entry(w).f # "shift_rot_HLp"
  PROVE  Looks(Entry(w).f) <= w.opcode_index
<1> DEFINE e == Entry(w)
<1>1. w.opcode[0] \in Byte /\ w.opcode[1] \in Byte /\ w.opcode[3] \in Byte
  BY DEF Sane
<1>2. CB # DD /\ CB # FD /\ CB # ED /\ ED # DD /\ ED # FD
  BY DEF CB, DD, ED, FD
<1>3. e \in {op_cb[w.opcode[1]], op_ed[w.opcode[1]], op_ddcb[w.opcode[3]],
             op_dd[w.opcode[1]], op_unpref[w.opcode[0]]}
  <2>1. CASE w.opcode[0] = CB
    BY <1>2, <2>1 DEF Entry
  <2>2. CASE w.opcode[0] = ED
    BY <1>2, <2>2 DEF Entry
  <2>3. CASE w.opcode[0] \in {DD, FD}
    BY <1>2, <2>3 DEF Entry
  <2>4. CASE w.opcode[0] \notin {CB, DD, ED, FD}
    BY <2>4 DEF Entry
  <2> QED
    BY <2>1, <2>2, <2>3, <2>4
<1>4. e # NoEntry /\ e.size = w.opcode_index
  BY DEF Ready
<1> HIDE DEF e
<1>5. e \in RowsCB \cup RowsED \cup RowsDDCB \cup RowsDD \cup Unprefixed
  BY <1>1, <1>3, <1>4, RowsThere
<1>6. Looks(e.f) <= e.size
  BY <1>5, LooksWithinOthers, LooksWithinUnprefixed DEF e
<1> QED
  BY <1>4, <1>6 DEF e

-----------------------------------------------------------------------------
(***************************************************************************)
(* The instruction under way, called again after every byte.               *)
(***************************************************************************)

\* What has been called, with all its bytes moved.
Moved(c, buffer) ==
  [c EXCEPT !.read_index = 2, !.read_buffer = buffer, !.write_index = 2]

\* While a byte is asked for, all there was when the function was first called is there;
\* after that, all that one call makes of it.
CallInv ==
  /\ z.stage \in {"M2", "M3"} =>
       /\ Sane(called) /\ called.opcode = z.opcode /\ called.opcode_index = z.opcode_index
       /\ Like(Entry(called).f, z, called)
  /\ (z.stage \in {"RESET", "REFRESH"} /\ at # None) =>
       /\ Sane(called) /\ Ready(called)
       /\ Same(z, Execute(Entry(called).f, Moved(called, z.read_buffer)))

\* What is moved is as it should be.
LEMMA MovedIs ==
  ASSUME NEW c, Sane(c), NEW buffer \in [0..1 -> Byte]
  PROVE  LET m == Moved(c, buffer)
         IN /\ Sane(m) /\ Same(m, c) /\ m.opcode = c.opcode
            /\ m.opcode_index = c.opcode_index /\ m.stage = c.stage
            /\ m.read_index = 2 /\ m.write_index = 2 /\ m.read_buffer = buffer
<1> DEFINE m == Moved(c, buffer)
<1>1. /\ DOMAIN m = FieldNames /\ m.r = c.r /\ m.opcode = c.opcode /\ m.stage = c.stage
      /\ m.opcode_index = c.opcode_index /\ m.read_index = 2 /\ m.write_index = 2
      /\ m.read_buffer = buffer /\ m.write_buffer = c.write_buffer
      /\ m.read_address = c.read_address /\ m.write_address = c.write_address
      /\ m.iff1 = c.iff1 /\ m.iff2 = c.iff2 /\ m.int_mode = c.int_mode
  BY DEF Sane, Moved, FieldNames
<1> HIDE DEF m
<1>2. Sane(m)
  BY <1>1 DEF Sane
<1>3. Same(m, c)
  BY <1>1 DEF Same, Sane
<1> QED
  BY <1>1, <1>2, <1>3 DEF m

\* A function is called again, with as much of its bytes as v has.
LEMMA CallsAgain ==
  ASSUME NEW c, Sane(c), Ready(c), NEW v, Sane(v), v.opcode = c.opcode,
         v.opcode_index = c.opcode_index, Like(Entry(c).f, v, c)
  PROVE  LET d == z80_instruction_decode(v)
         IN /\ d.stage \in {"M2", "M3"} => Like(Entry(c).f, d, c)
            /\ d.stage \notin {"M2", "M3"} =>
                 Same(d, Execute(Entry(c).f, Moved(c, d.read_buffer)))
            /\ d.opcode = c.opcode /\ d.opcode_index = c.opcode_index
            /\ d.stage \in {"M2", "M3", "RESET", "REFRESH", "ABORTED"}
<1> DEFINE f == Entry(c).f
           d == z80_instruction_decode(v)
           m == Moved(c, v.read_buffer)
<1>1. Ready(v) /\ Entry(v) = Entry(c)
  BY SameBytes
<1>2. d = Execute(f, v) /\ Outcome(d, v, After(f, v))
  BY <1>1, DecodeCalls
<1>3. f \in StayNames \cup GoNames \cup AbortNames
  BY EntryKnown, NamesKnown DEF Ready
<1>4. v.read_buffer \in [0..1 -> Byte]
  BY DEF Sane
<1>5. /\ Sane(m) /\ Same(m, c) /\ m.opcode = c.opcode
      /\ m.opcode_index = c.opcode_index
      /\ m.read_index = 2 /\ m.write_index = 2 /\ m.read_buffer = v.read_buffer
  BY <1>4, MovedIs
<1> HIDE DEF m, f, d
<1>6. Like(f, v, m)
  <2>1. F(m) = F(c)
    BY <1>5, SameWords
  <2>2. Like(f, v, c)
    BY DEF f
  <2> QED
    BY <1>5, <2>1, <2>2 DEF Like, Near, Others, Same
<1>7. Follows(f, Execute(f, v), Execute(f, m), v)
  BY <1>3, <1>5, <1>6, CalledAgain
<1>8. /\ d.opcode = v.opcode /\ d.opcode_index = v.opcode_index
      /\ d.read_buffer = v.read_buffer
      /\ d.stage \in {"M2", "M3", "RESET", "REFRESH", "ABORTED"}
  BY <1>2 DEF Outcome, Steady, Asks, Finishes
<1>9. Like(f, d, v) /\ Like(f, v, c) => Like(f, d, c)
  BY DEF Like, Near, Others, Same
<1>10. Like(f, v, c)
  BY DEF f
<1>11. d.stage \in {"M2", "M3"} => Like(f, d, c)
  BY <1>2, <1>7, <1>9, <1>10 DEF Follows
<1>12. d.stage \notin {"M2", "M3"} => Same(d, Execute(f, Moved(c, d.read_buffer)))
  BY <1>2, <1>7, <1>8 DEF Follows, m
<1> QED
  BY <1>8, <1>11, <1>12 DEF d, f

\* Nothing is unlike itself.
LEMMA LikeItself ==
  ASSUME NEW f, NEW c, Sane(c)
  PROVE  Like(f, c, c)
<1>1. DOMAIN c = FieldNames /\ DOMAIN c.r = Registers
  BY DEF Sane
<1> QED
  BY <1>1 DEF Like, Near, Others, Same

\* The next byte of an instruction, or its first.
LEMMA M1Calls ==
  ASSUME CoreInv, CallInv, z80_stage_m1
  PROVE  CallInv'
<1> DEFINE s == IF z.stage = "RESET" THEN z80_reset_pipeline(z) ELSE z
           v == Latched(s)
           u == Unprefix(v)
           b == Memory(Word(s, "PC"))
<1>1. /\ z.stage \in {"RESET", "M1"} /\ z' = z80_instruction_decode(v)
      /\ called' = IF z'.stage = "M1" THEN called ELSE u
  BY DEF z80_stage_m1
<1>2. /\ Sane(s) /\ (s.opcode_index = 0 \/ Short(s)) /\ b \in Byte
      /\ Sane(v) /\ v.opcode = [s.opcode EXCEPT ![s.opcode_index] = b]
      /\ v.opcode_index = s.opcode_index + 1
  BY <1>1, Fetches
<1> HIDE DEF v, s, b
<1>3. Sane(u)
  BY <1>2, Fetched
<1>4. \/ z' = Return(u, "M1") /\ Short(u)
      \/ z' = Abort(u)
      \/ z' = z80_instruction_decode(u) /\ Ready(u)
  BY <1>1, <1>2, Fetched
<1> HIDE DEF u
<1>5. CASE z' = Return(u, "M1") \/ z' = Abort(u)
  <2>1. z'.stage \in {"M1", "ABORTED"}
    <3>1. DOMAIN u = FieldNames
      BY <1>3 DEF Sane
    <3> QED
      BY <1>5, <3>1 DEF Return, Abort, FieldNames
  <2> QED
    BY <2>1 DEF CallInv
<1>6. CASE z' = z80_instruction_decode(u) /\ Ready(u)
  <2> DEFINE d == z80_instruction_decode(u)
             f == Entry(u).f
  <2>1. Like(f, u, u)
    BY <1>3, LikeItself
  <2>2. /\ d.stage \in {"M2", "M3"} => Like(f, d, u)
        /\ d.stage \notin {"M2", "M3"} => Same(d, Execute(f, Moved(u, d.read_buffer)))
        /\ d.opcode = u.opcode /\ d.opcode_index = u.opcode_index
        /\ d.stage \in {"M2", "M3", "RESET", "REFRESH", "ABORTED"}
    BY <1>3, <1>6, <2>1, CallsAgain
  <2>3. z' = d
    BY <1>6
  <2> HIDE DEF d
  <2>4. called' = u
    BY <1>1, <2>2, <2>3
  <2>5. (z.stage \in {"M2", "M3"})' =>
          (/\ Sane(called) /\ called.opcode = z.opcode /\ called.opcode_index = z.opcode_index
           /\ Like(Entry(called).f, z, called))'
    BY <1>3, <2>2, <2>3, <2>4
  <2>6. (z.stage \in {"RESET", "REFRESH"})' =>
          (/\ Sane(called) /\ Ready(called)
           /\ Same(z, Execute(Entry(called).f, Moved(called, z.read_buffer))))'
    BY <1>3, <1>6, <2>2, <2>3, <2>4
  <2> QED
    BY <2>5, <2>6 DEF CallInv
<1> QED
  BY <1>4, <1>5, <1>6

\* A byte has been moved.
LEMMA MoveCalls ==
  ASSUME Going(z), CallInv, z.stage \in {"M2", "M3"},
         NEW v, Sane(v), Same(v, z), v.opcode = z.opcode, v.opcode_index = z.opcode_index,
         z' = z80_instruction_decode(v), called' = called
  PROVE  CallInv'
<1> DEFINE d == z80_instruction_decode(v)
           f == Entry(called).f
<1>1. /\ Sane(called) /\ called.opcode = z.opcode /\ called.opcode_index = z.opcode_index
      /\ Like(f, z, called)
  BY DEF CallInv
<1>2. Ready(called)
  BY <1>1, SameBytes DEF Going
<1> HIDE DEF f
<1>3. Like(f, v, called)
  <2>1. F(v) = F(z)
    BY SameWords
  <2> QED
    BY <1>1, <2>1 DEF Like, Near, Others, Same
<1>4. /\ d.stage \in {"M2", "M3"} => Like(f, d, called)
      /\ d.stage \notin {"M2", "M3"} => Same(d, Execute(f, Moved(called, d.read_buffer)))
      /\ d.opcode = called.opcode /\ d.opcode_index = called.opcode_index
  BY <1>1, <1>2, <1>3, CallsAgain DEF f
<1>5. z' = d
  OBVIOUS
<1> HIDE DEF d
<1>6. (z.stage \in {"M2", "M3"})' =>
        (/\ Sane(called) /\ called.opcode = z.opcode /\ called.opcode_index = z.opcode_index
         /\ Like(Entry(called).f, z, called))'
  BY <1>1, <1>4, <1>5 DEF f
<1>7. (z.stage \in {"RESET", "REFRESH"})' =>
        (/\ Sane(called) /\ Ready(called)
         /\ Same(z, Execute(Entry(called).f, Moved(called, z.read_buffer))))'
  BY <1>1, <1>2, <1>4, <1>5 DEF f
<1> QED
  BY <1>6, <1>7 DEF CallInv

\* A byte is read.
LEMMA M2Calls ==
  ASSUME CoreInv, CallInv, z80_stage_m2
  PROVE  CallInv'
<1> DEFINE b == IF z.read_is_io = 1 THEN PortByte(z.read_address) ELSE Memory(z.read_address)
           v == [z EXCEPT !.read_buffer[z.read_index] = b, !.read_index = @ + 1]
<1>1. z.stage = "M2" /\ z' = z80_instruction_decode(v) /\ called' = called
  BY DEF z80_stage_m2
<1>2. Going(z) /\ Sane(z) /\ z.read_index \in 0..1 /\ z.read_address \in Nat
      /\ z.read_address \in Address
  BY <1>1 DEF CoreInv, Going, Sane, Address
<1>3. b \in Byte
  BY <1>2, PortGives, MemoryGives DEF CoreInv
<1> HIDE DEF b
<1>4. DOMAIN z = FieldNames /\ z.read_buffer \in [0..1 -> Byte]
  BY <1>2 DEF Sane
<1>5. /\ DOMAIN v = FieldNames /\ v.r = z.r /\ v.opcode = z.opcode
      /\ v.opcode_index = z.opcode_index
      /\ v.read_buffer = [z.read_buffer EXCEPT ![z.read_index] = b]
      /\ v.read_index = z.read_index + 1
      /\ v.write_buffer = z.write_buffer /\ v.write_index = z.write_index
      /\ v.read_address = z.read_address /\ v.write_address = z.write_address
      /\ v.iff1 = z.iff1 /\ v.iff2 = z.iff2 /\ v.int_mode = z.int_mode
  BY <1>4 DEF FieldNames
<1> HIDE DEF v
<1>6. v.read_buffer \in [0..1 -> Byte] /\ v.read_index \in 0..2
  BY <1>2, <1>3, <1>4, <1>5
<1>7. Sane(v) /\ Same(v, z)
  BY <1>2, <1>4, <1>5, <1>6 DEF Sane, Same
<1> QED
  BY <1>1, <1>2, <1>5, <1>7, MoveCalls

\* A byte is written.
LEMMA M3Calls ==
  ASSUME CoreInv, CallInv, z80_stage_m3
  PROVE  CallInv'
<1> DEFINE v == [z EXCEPT !.write_index = @ + 1]
<1>1. z.stage = "M3" /\ z' = z80_instruction_decode(v) /\ called' = called
  BY DEF z80_stage_m3
<1>2. Going(z) /\ Sane(z) /\ z.write_index \in 0..1 /\ DOMAIN z = FieldNames
  BY <1>1 DEF CoreInv, Going, Sane
<1>3. /\ DOMAIN v = FieldNames /\ v.r = z.r /\ v.opcode = z.opcode
      /\ v.opcode_index = z.opcode_index
      /\ v.read_buffer = z.read_buffer /\ v.read_index = z.read_index
      /\ v.write_buffer = z.write_buffer /\ v.write_index = z.write_index + 1
      /\ v.read_address = z.read_address /\ v.write_address = z.write_address
      /\ v.iff1 = z.iff1 /\ v.iff2 = z.iff2 /\ v.int_mode = z.int_mode
  BY <1>2 DEF FieldNames
<1> HIDE DEF v
<1>4. Sane(v) /\ Same(v, z)
  BY <1>2, <1>3 DEF Sane, Same
<1> QED
  BY <1>1, <1>2, <1>3, <1>4, MoveCalls

\* A refresh changes nothing that lasts.
LEMMA RefreshCalls ==
  ASSUME CoreInv, CallInv, z80_stage_refresh
  PROVE  CallInv'
<1> DEFINE v == [z EXCEPT !.stage = "RESET"]
<1>1. z.stage = "REFRESH" /\ z' = v /\ at' = at /\ called' = called
  BY DEF z80_stage_refresh
<1>2. DOMAIN z = FieldNames
  BY DEF CoreInv, Going, Sane
<1>3. Same(v, z) /\ v.read_buffer = z.read_buffer /\ v.stage = "RESET"
  BY <1>2 DEF Same, FieldNames
<1> HIDE DEF v
<1>4. ASSUME at # None
      PROVE  /\ Sane(called) /\ Ready(called)
             /\ Same(v, Execute(Entry(called).f, Moved(called, v.read_buffer)))
  BY <1>1, <1>3, <1>4 DEF CallInv, Same
<1> QED
  BY <1>1, <1>3, <1>4 DEF CallInv

\* Nothing has been called yet.
LEMMA CallInit == Init => CallInv
<1>1. SUFFICES ASSUME Init PROVE CallInv
  OBVIOUS
<1>2. z.stage = "RESET" /\ at = None
  BY <1>1 DEF Init, Started
<1> QED
  BY <1>2 DEF CallInv

\* Every step keeps it.
LEMMA CallNext == CoreInv /\ CallInv /\ [Next]_vars => CallInv'
<1>1. SUFFICES ASSUME CoreInv, CallInv, [Next]_vars PROVE CallInv'
  OBVIOUS
<1>2. ASSUME Analyze \/ UNCHANGED vars PROVE CallInv'
  <2>1. z' = z /\ at' = at /\ called' = called
    BY <1>2 DEF Analyze, vars, programVars
  <2> QED
    BY <1>1, <2>1 DEF CallInv
<1> QED
  BY <1>1, <1>2, M1Calls, M2Calls, M3Calls, RefreshCalls DEF Next, Tick

\* What the core keeps of an instruction under way.
THEOREM CallInvariance == Spec => []CallInv
BY CallInit, CallNext, CoreInvariance, PTL DEF Spec

\* For every program: the calls of an opcode function do together what one call does that
\* finds all its bytes there (z80_opcodes.h:28).
THEOREM ReplayHarmless == Spec => []ReplayIsHarmless
<1>1. CallInv => ReplayIsHarmless
  <2>1. SUFFICES ASSUME CallInv, Ended PROVE ReplayIsHarmless
    BY DEF ReplayIsHarmless
  <2>2. Same(z, Execute(Entry(called).f, Moved(called, z.read_buffer)))
    BY <2>1 DEF CallInv, Ended
  <2> QED
    BY <2>2 DEF ReplayIsHarmless, Moved, Same
<1> QED
  BY <1>1, CallInvariance, PTL

\* For every program: what earlier instructions left in opcode[] (z80.c:217) decides nothing,
\* unless (HL) is rotated (z80_opcodes_rotshift.c:128).
THEOREM OwnBytes == Spec => []OwnBytesOnly
<1>1. CoreInv /\ CallInv => OwnBytesOnly
  <2>1. SUFFICES ASSUME CoreInv, CallInv, Ended, Entry(called).f # "shift_rot_HLp"
                 PROVE  OwnBytesOnly
    BY DEF OwnBytesOnly
  <2> DEFINE f == Entry(called).f
             ready == Moved(called, z.read_buffer)
             own == [i \in 0..3 |-> IF i < called.opcode_index THEN called.opcode[i] ELSE 0]
             v == [ready EXCEPT !.opcode = own]
  <2>2. Sane(called) /\ Ready(called) /\ z.read_buffer \in [0..1 -> Byte]
    BY <2>1 DEF CallInv, CoreInv, Going, Sane, Ended
  <2>3. /\ f \in StayNames \cup GoNames \cup AbortNames /\ Avoids(f, called.opcode)
        /\ Looks(f) <= called.opcode_index
    BY <2>1, <2>2, EntryKnown, NamesKnown, LooksAtOwn DEF Ready
  <2>4. /\ Sane(ready) /\ ready.opcode = called.opcode
        /\ ready.opcode_index = called.opcode_index
        /\ ready.read_index = 2 /\ ready.write_index = 2
    BY <2>2, MovedIs
  <2>5. Outcome(Execute(f, ready), ready, After(f, ready))
    BY <2>3, <2>4, Executed
  <2>6. own \in [0..3 -> Byte] /\ \A i \in 0..3 : i < Looks(f) => own[i] = called.opcode[i]
    <3>1. 0 \in Byte
      BY SMT DEF Byte
    <3>2. called.opcode \in [0..3 -> Byte] /\ called.opcode_index \in Int /\ Looks(f) \in Int
      BY <2>2, LooksAt DEF Sane
    <3> HIDE DEF f
    <3> QED
      BY <2>3, <3>1, <3>2
  <2> HIDE DEF f, ready, own
  <2>7. /\ Sane(v) /\ Same(ready, v) /\ v.opcode_index = ready.opcode_index /\ v.opcode = own
        /\ v.read_index = 2 /\ v.write_index = 2 /\ v.read_buffer = ready.read_buffer
    <3>1. DOMAIN ready = FieldNames
      BY <2>4 DEF Sane
    <3>2. /\ DOMAIN v = FieldNames /\ v.r = ready.r /\ v.opcode = own
          /\ v.opcode_index = ready.opcode_index /\ v.read_buffer = ready.read_buffer
          /\ v.read_index = ready.read_index /\ v.write_index = ready.write_index
          /\ v.write_buffer = ready.write_buffer
          /\ v.read_address = ready.read_address /\ v.write_address = ready.write_address
          /\ v.iff1 = ready.iff1 /\ v.iff2 = ready.iff2 /\ v.int_mode = ready.int_mode
      BY <3>1 DEF FieldNames
    <3> HIDE DEF v
    <3>3. Sane(v)
      BY <2>4, <2>6, <3>2 DEF Sane
    <3> QED
      BY <2>4, <3>1, <3>2, <3>3 DEF Same
  <2> HIDE DEF v
  <2>8. Like(f, ready, v)
    <3>1. Like(f, ready, ready)
      BY <2>4, LikeItself
    <3>2. F(ready) = F(v)
      BY <2>7, SameWords
    <3> QED
      BY <2>7, <3>1, <3>2 DEF Like, Near, Others, Same
  <2>9. Follows(f, Execute(f, ready), Execute(f, v), ready)
    BY <2>3, <2>4, <2>6, <2>7, <2>8, CalledAgain
  <2>10. Execute(f, ready).stage \notin {"M2", "M3"}
    <3>1. /\ Execute(f, ready).read_index = 2 /\ Execute(f, ready).write_index = 2
          /\ \/ Asks(Execute(f, ready), ready)
             \/ Execute(f, ready).stage \in {"RESET", "REFRESH", "ABORTED"}
      BY <2>4, <2>5 DEF Outcome, Steady, Finishes
    <3> QED
      BY <3>1 DEF Asks
  <2>11. Execute(f, ready).r = Execute(f, v).r
    BY <2>9, <2>10 DEF Follows, Same
  <2> QED
    BY <2>11 DEF OwnBytesOnly, f, ready, own, v, Moved
<1> QED
  BY <1>1, CoreInvariance, CallInvariance, PTL

-----------------------------------------------------------------------------
(***************************************************************************)
(* Eight-bit arithmetic.                                                   *)
(***************************************************************************)
Sums == {"ADD", "ADC", "SUB", "SBC", "CP"}

\* Each macro is about its own flags.
LEMMA OwnFlags ==
  /\ \A n : Sign(n) \subseteq {"S"} /\ Zero(n) \subseteq {"Z"} /\ Undoc(n) \subseteq {"3", "5"}
  /\ \A m, n : Carry(m, n) \subseteq {"C"} /\ Borrow(m, n) \subseteq {"C"}
  /\ \A a, b : /\ HalfCarry(a, b) \subseteq {"H"} /\ HalfCarryWithCarry(a, b) \subseteq {"H"}
               /\ HalfBorrow(a, b) \subseteq {"H"} /\ HalfBorrowWithCarry(a, b) \subseteq {"H"}
  /\ \A a, b, n : Overflow(a, b, n) \subseteq {"P"} /\ Underflow(a, b, n) \subseteq {"P"}
BY DEF Sign, Zero, Undoc, Carry, Borrow, HalfCarry, HalfCarryWithCarry, HalfBorrow,
       HalfBorrowWithCarry, Overflow, Underflow, Flag

\* A number that fits into a byte, a half of one, a signed one.
Fits8(n) == 0 <= n /\ n <= 255
Fits4(n) == 0 <= n /\ n <= 15
FitsSigned(n) == -128 <= n /\ n <= 127

\* Additions: the flags are those of the sum without a width.
LEMMA AddAnswers ==
  ASSUME NEW a \in Byte, NEW b \in Byte
  PROVE  /\ Byte8(Byte8(a + b)) = (a + b) % 256
         /\ ("C" \in Carry(a, Byte8(a + b))) <=> ~Fits8(a + b)
         /\ ("H" \in HalfCarry(a, b)) <=> ~Fits4(Low4(a) + Low4(b))
         /\ ("P" \in Overflow(a, b, Byte8(a + b)))
              <=> ~FitsSigned(Signed8(a) + Signed8(b))
<1>1. Byte8(Byte8(a + b)) = (a + b) % 256
  BY SMT DEF Byte8, Byte
<1>2. (a > Byte8(a + b)) <=> ~Fits8(a + b)
  BY SMT DEF Byte8, Byte, Fits8
<1>3. (Low4(a) + Low4(b) > 15) <=> ~Fits4(Low4(a) + Low4(b))
  BY SMT DEF Low4, Byte8, Byte, Fits4
<1>4. (\/ Signed8(a) >= 0 /\ Signed8(b) >= 0 /\ Signed8(Byte8(a + b)) < 0
       \/ Signed8(a) < 0  /\ Signed8(b) < 0  /\ Signed8(Byte8(a + b)) >= 0)
        <=> ~FitsSigned(Signed8(a) + Signed8(b))
  BY SMT DEF Byte8, Byte, Signed8, FitsSigned
<1>5. ("C" \in Carry(a, Byte8(a + b))) <=> ~Fits8(a + b)
  BY <1>2 DEF Carry, Flag
<1>6. ("H" \in HalfCarry(a, b)) <=> ~Fits4(Low4(a) + Low4(b))
  BY <1>3 DEF HalfCarry, Flag
<1>7. ("P" \in Overflow(a, b, Byte8(a + b)))
        <=> ~FitsSigned(Signed8(a) + Signed8(b))
  BY <1>4 DEF Overflow, Flag
<1> QED
  BY <1>1, <1>5, <1>6, <1>7

\* With a carry.
LEMMA AdcAnswers ==
  ASSUME NEW a \in Byte, NEW b \in Byte
  PROVE  /\ Byte8(Byte8(a + b + 1)) = (a + b + 1) % 256
         /\ ("C" \in Carry(a + 1, Byte8(a + b + 1))) <=> ~Fits8(a + b + 1)
         /\ ("H" \in HalfCarryWithCarry(a, b)) <=> ~Fits4(Low4(a) + Low4(b) + 1)
         /\ ("P" \in Overflow(a, b, Byte8(a + b + 1)))
              <=> ~FitsSigned(Signed8(a) + Signed8(b) + 1)
<1>1. Byte8(Byte8(a + b + 1)) = (a + b + 1) % 256
  BY SMT DEF Byte8, Byte
<1>2. (a + 1 > Byte8(a + b + 1)) <=> ~Fits8(a + b + 1)
  BY SMT DEF Byte8, Byte, Fits8
<1>3. (Low4(a) + Low4(b) + 1 > 15) <=> ~Fits4(Low4(a) + Low4(b) + 1)
  BY SMT DEF Low4, Byte8, Byte, Fits4
<1>4. (\/ Signed8(a) >= 0 /\ Signed8(b) >= 0 /\ Signed8(Byte8(a + b + 1)) < 0
       \/ Signed8(a) < 0  /\ Signed8(b) < 0  /\ Signed8(Byte8(a + b + 1)) >= 0)
        <=> ~FitsSigned(Signed8(a) + Signed8(b) + 1)
  BY SMT DEF Byte8, Byte, Signed8, FitsSigned
<1>5. ("C" \in Carry(a + 1, Byte8(a + b + 1))) <=> ~Fits8(a + b + 1)
  BY <1>2 DEF Carry, Flag
<1>6. ("H" \in HalfCarryWithCarry(a, b)) <=> ~Fits4(Low4(a) + Low4(b) + 1)
  BY <1>3 DEF HalfCarryWithCarry, Flag
<1>7. ("P" \in Overflow(a, b, Byte8(a + b + 1)))
        <=> ~FitsSigned(Signed8(a) + Signed8(b) + 1)
  BY <1>4 DEF Overflow, Flag
<1> QED
  BY <1>1, <1>5, <1>6, <1>7

\* Subtractions.
LEMMA SubAnswers ==
  ASSUME NEW a \in Byte, NEW b \in Byte
  PROVE  /\ Byte8(Byte8(a - b)) = (a - b) % 256
         /\ ("C" \in Borrow(a, Byte8(a - b))) <=> ~Fits8(a - b)
         /\ ("H" \in HalfBorrow(a, b)) <=> ~Fits4(Low4(a) - Low4(b))
         /\ ("P" \in Underflow(a, b, Byte8(a - b)))
              <=> ~FitsSigned(Signed8(a) - Signed8(b))
<1>1. Byte8(Byte8(a - b)) = (a - b) % 256
  BY SMT DEF Byte8, Byte
<1>2. (a < Byte8(a - b)) <=> ~Fits8(a - b)
  BY SMT DEF Byte8, Byte, Fits8
<1>3. (Byte8(Low4(a) - Low4(b)) > 15) <=> ~Fits4(Low4(a) - Low4(b))
  BY SMT DEF Low4, Byte8, Byte, Fits4
<1>4. (\/ Signed8(a) >= 0 /\ Signed8(b) < 0  /\ Signed8(Byte8(a - b)) < 0
       \/ Signed8(a) < 0  /\ Signed8(b) >= 0 /\ Signed8(Byte8(a - b)) >= 0)
        <=> ~FitsSigned(Signed8(a) - Signed8(b))
  BY SMT DEF Byte8, Byte, Signed8, FitsSigned
<1>5. ("C" \in Borrow(a, Byte8(a - b))) <=> ~Fits8(a - b)
  BY <1>2 DEF Borrow, Flag
<1>6. ("H" \in HalfBorrow(a, b)) <=> ~Fits4(Low4(a) - Low4(b))
  BY <1>3 DEF HalfBorrow, Flag
<1>7. ("P" \in Underflow(a, b, Byte8(a - b)))
        <=> ~FitsSigned(Signed8(a) - Signed8(b))
  BY <1>4 DEF Underflow, Flag
<1> QED
  BY <1>1, <1>5, <1>6, <1>7

\* With a borrow.
LEMMA SbcAnswers ==
  ASSUME NEW a \in Byte, NEW b \in Byte
  PROVE  /\ Byte8(Byte8(a - b - 1)) = (a - b - 1) % 256
         /\ ("C" \in Borrow(a - 1, Byte8(a - b - 1))) <=> ~Fits8(a - b - 1)
         /\ ("H" \in HalfBorrowWithCarry(a, b)) <=> ~Fits4(Low4(a) - Low4(b) - 1)
         /\ ("P" \in Underflow(a, b, Byte8(a - b - 1)))
              <=> ~FitsSigned(Signed8(a) - Signed8(b) - 1)
<1>1. Byte8(Byte8(a - b - 1)) = (a - b - 1) % 256
  BY SMT DEF Byte8, Byte
<1>2. (a - 1 < Byte8(a - b - 1)) <=> ~Fits8(a - b - 1)
  BY SMT DEF Byte8, Byte, Fits8
<1>3. (Byte8(Low4(a) - Low4(b) - 1) > 15) <=> ~Fits4(Low4(a) - Low4(b) - 1)
  BY SMT DEF Low4, Byte8, Byte, Fits4
<1>4. (\/ Signed8(a) >= 0 /\ Signed8(b) < 0  /\ Signed8(Byte8(a - b - 1)) < 0
       \/ Signed8(a) < 0  /\ Signed8(b) >= 0 /\ Signed8(Byte8(a - b - 1)) >= 0)
        <=> ~FitsSigned(Signed8(a) - Signed8(b) - 1)
  BY SMT DEF Byte8, Byte, Signed8, FitsSigned
<1>5. ("C" \in Borrow(a - 1, Byte8(a - b - 1))) <=> ~Fits8(a - b - 1)
  BY <1>2 DEF Borrow, Flag
<1>6. ("H" \in HalfBorrowWithCarry(a, b)) <=> ~Fits4(Low4(a) - Low4(b) - 1)
  BY <1>3 DEF HalfBorrowWithCarry, Flag
<1>7. ("P" \in Underflow(a, b, Byte8(a - b - 1)))
        <=> ~FitsSigned(Signed8(a) - Signed8(b) - 1)
  BY <1>4 DEF Underflow, Flag
<1> QED
  BY <1>1, <1>5, <1>6, <1>7

\* The result and four flags of a sum n, of signed operands s, of low halves h.
Right(op, res, n, s, h) ==
  /\ res.flags \in SUBSET Flags
  /\ op # "CP" => Byte8(res.result) = n % 256
  /\ ("C" \in res.flags) <=> ~Fits8(n)
  /\ ("H" \in res.flags) <=> ~Fits4(h)
  /\ ("P" \in res.flags) <=> ~FitsSigned(s)
  /\ ("N" \in res.flags) <=> op \notin {"ADD", "ADC"}

\* The four operations.
LEMMA SumsRight ==
  ASSUME NEW a \in Byte, NEW b \in Byte
  PROVE  /\ Right("ADD", Add(a, b), a + b, Signed8(a) + Signed8(b), Low4(a) + Low4(b))
         /\ Right("ADC", Adc(a, b), a + b + 1, Signed8(a) + Signed8(b) + 1,
                  Low4(a) + Low4(b) + 1)
         /\ Right("SUB", Sub(a, b), a - b, Signed8(a) - Signed8(b), Low4(a) - Low4(b))
         /\ Right("SBC", Sbc(a, b), a - b - 1, Signed8(a) - Signed8(b) - 1,
                  Low4(a) - Low4(b) - 1)
<1>1. Right("ADD", Add(a, b), a + b, Signed8(a) + Signed8(b), Low4(a) + Low4(b))
  <2> DEFINE n == Byte8(a + b)
             N0 == {}
             p0 == Overflow(a, b, n)
             c0 == Carry(a, n)
             h0 == HalfCarry(a, b)
             u0 == Undoc(n)
             z0 == Zero(n)
             s0 == Sign(n)
             fs == N0 \cup p0 \cup c0 \cup h0 \cup u0 \cup z0 \cup s0
             res == Add(a, b)
  <2>1. res.result = n /\ res.flags = fs
    BY DEF Add, Result
  <2>2. /\ Byte8(n) = (a + b) % 256
        /\ ("C" \in c0) <=> ~Fits8(a + b)
        /\ ("H" \in h0) <=> ~Fits4(Low4(a) + Low4(b))
        /\ ("P" \in p0) <=> ~FitsSigned(Signed8(a) + Signed8(b))
    BY AddAnswers
  <2>3. N0 \subseteq {"N"} /\ ("N" \in N0 <=> "ADD" \notin {"ADD", "ADC"})
    OBVIOUS
  <2>4. /\ p0 \subseteq {"P"} /\ c0 \subseteq {"C"} /\ h0 \subseteq {"H"}
        /\ u0 \subseteq {"3", "5"} /\ z0 \subseteq {"Z"} /\ s0 \subseteq {"S"}
    BY OwnFlags, Zenon
  <2> HIDE DEF N0, p0, c0, h0, u0, z0, s0, res, n
  <2>5. /\ fs \in SUBSET Flags /\ ("N" \in fs <=> "N" \in N0) /\ ("P" \in fs <=> "P" \in p0)
        /\ ("C" \in fs <=> "C" \in c0) /\ ("H" \in fs <=> "H" \in h0)
    BY <2>3, <2>4 DEF Flags
  <2> HIDE DEF fs
  <2>6. Right("ADD", res, a + b, Signed8(a) + Signed8(b),
              Low4(a) + Low4(b))
    BY <2>1, <2>2, <2>3, <2>5 DEF Right
  <2> QED
    BY <2>6 DEF res
<1>2. Right("ADC", Adc(a, b), a + b + 1, Signed8(a) + Signed8(b) + 1, Low4(a) + Low4(b) + 1)
  <2> DEFINE n == Byte8(a + b + 1)
             N0 == {}
             p0 == Overflow(a, b, n)
             c0 == Carry(a + 1, n)
             h0 == HalfCarryWithCarry(a, b)
             u0 == Undoc(n)
             z0 == Zero(n)
             s0 == Sign(n)
             fs == N0 \cup p0 \cup c0 \cup h0 \cup u0 \cup z0 \cup s0
             res == Adc(a, b)
  <2>1. res.result = n /\ res.flags = fs
    BY DEF Adc, Result
  <2>2. /\ Byte8(n) = (a + b + 1) % 256
        /\ ("C" \in c0) <=> ~Fits8(a + b + 1)
        /\ ("H" \in h0) <=> ~Fits4(Low4(a) + Low4(b) + 1)
        /\ ("P" \in p0) <=> ~FitsSigned(Signed8(a) + Signed8(b) + 1)
    BY AdcAnswers
  <2>3. N0 \subseteq {"N"} /\ ("N" \in N0 <=> "ADC" \notin {"ADD", "ADC"})
    OBVIOUS
  <2>4. /\ p0 \subseteq {"P"} /\ c0 \subseteq {"C"} /\ h0 \subseteq {"H"}
        /\ u0 \subseteq {"3", "5"} /\ z0 \subseteq {"Z"} /\ s0 \subseteq {"S"}
    BY OwnFlags, Zenon
  <2> HIDE DEF N0, p0, c0, h0, u0, z0, s0, res, n
  <2>5. /\ fs \in SUBSET Flags /\ ("N" \in fs <=> "N" \in N0) /\ ("P" \in fs <=> "P" \in p0)
        /\ ("C" \in fs <=> "C" \in c0) /\ ("H" \in fs <=> "H" \in h0)
    BY <2>3, <2>4 DEF Flags
  <2> HIDE DEF fs
  <2>6. Right("ADC", res, a + b + 1, Signed8(a) + Signed8(b) + 1,
              Low4(a) + Low4(b) + 1)
    BY <2>1, <2>2, <2>3, <2>5 DEF Right
  <2> QED
    BY <2>6 DEF res
<1>3. Right("SUB", Sub(a, b), a - b, Signed8(a) - Signed8(b), Low4(a) - Low4(b))
  <2> DEFINE n == Byte8(a - b)
             N0 == {"N"}
             p0 == Underflow(a, b, n)
             c0 == Borrow(a, n)
             h0 == HalfBorrow(a, b)
             u0 == Undoc(n)
             z0 == Zero(n)
             s0 == Sign(n)
             fs == N0 \cup p0 \cup c0 \cup h0 \cup u0 \cup z0 \cup s0
             res == Sub(a, b)
  <2>1. res.result = n /\ res.flags = fs
    BY DEF Sub, Result
  <2>2. /\ Byte8(n) = (a - b) % 256
        /\ ("C" \in c0) <=> ~Fits8(a - b)
        /\ ("H" \in h0) <=> ~Fits4(Low4(a) - Low4(b))
        /\ ("P" \in p0) <=> ~FitsSigned(Signed8(a) - Signed8(b))
    BY SubAnswers
  <2>3. N0 \subseteq {"N"} /\ ("N" \in N0 <=> "SUB" \notin {"ADD", "ADC"})
    OBVIOUS
  <2>4. /\ p0 \subseteq {"P"} /\ c0 \subseteq {"C"} /\ h0 \subseteq {"H"}
        /\ u0 \subseteq {"3", "5"} /\ z0 \subseteq {"Z"} /\ s0 \subseteq {"S"}
    BY OwnFlags, Zenon
  <2> HIDE DEF N0, p0, c0, h0, u0, z0, s0, res, n
  <2>5. /\ fs \in SUBSET Flags /\ ("N" \in fs <=> "N" \in N0) /\ ("P" \in fs <=> "P" \in p0)
        /\ ("C" \in fs <=> "C" \in c0) /\ ("H" \in fs <=> "H" \in h0)
    BY <2>3, <2>4 DEF Flags
  <2> HIDE DEF fs
  <2>6. Right("SUB", res, a - b, Signed8(a) - Signed8(b),
              Low4(a) - Low4(b))
    BY <2>1, <2>2, <2>3, <2>5 DEF Right
  <2> QED
    BY <2>6 DEF res
<1>4. Right("SBC", Sbc(a, b), a - b - 1, Signed8(a) - Signed8(b) - 1, Low4(a) - Low4(b) - 1)
  <2> DEFINE n == Byte8(a - b - 1)
             N0 == {"N"}
             p0 == Underflow(a, b, n)
             c0 == Borrow(a - 1, n)
             h0 == HalfBorrowWithCarry(a, b)
             u0 == Undoc(n)
             z0 == Zero(n)
             s0 == Sign(n)
             fs == N0 \cup p0 \cup c0 \cup h0 \cup u0 \cup z0 \cup s0
             res == Sbc(a, b)
  <2>1. res.result = n /\ res.flags = fs
    BY DEF Sbc, Result
  <2>2. /\ Byte8(n) = (a - b - 1) % 256
        /\ ("C" \in c0) <=> ~Fits8(a - b - 1)
        /\ ("H" \in h0) <=> ~Fits4(Low4(a) - Low4(b) - 1)
        /\ ("P" \in p0) <=> ~FitsSigned(Signed8(a) - Signed8(b) - 1)
    BY SbcAnswers
  <2>3. N0 \subseteq {"N"} /\ ("N" \in N0 <=> "SBC" \notin {"ADD", "ADC"})
    OBVIOUS
  <2>4. /\ p0 \subseteq {"P"} /\ c0 \subseteq {"C"} /\ h0 \subseteq {"H"}
        /\ u0 \subseteq {"3", "5"} /\ z0 \subseteq {"Z"} /\ s0 \subseteq {"S"}
    BY OwnFlags, Zenon
  <2> HIDE DEF N0, p0, c0, h0, u0, z0, s0, res, n
  <2>5. /\ fs \in SUBSET Flags /\ ("N" \in fs <=> "N" \in N0) /\ ("P" \in fs <=> "P" \in p0)
        /\ ("C" \in fs <=> "C" \in c0) /\ ("H" \in fs <=> "H" \in h0)
    BY <2>3, <2>4 DEF Flags
  <2> HIDE DEF fs
  <2>6. Right("SBC", res, a - b - 1, Signed8(a) - Signed8(b) - 1,
              Low4(a) - Low4(b) - 1)
    BY <2>1, <2>2, <2>3, <2>5 DEF Right
  <2> QED
    BY <2>6 DEF res
<1> QED
  BY <1>1, <1>2, <1>3, <1>4

\* alu8_op is right about sums and differences.
LEMMA AluAnswers ==
  ASSUME NEW op \in Sums, NEW a \in Byte, NEW b \in Byte, NEW fs,
         NEW c, c = IF op \in {"ADC", "SBC"} /\ "C" \in fs THEN 1 ELSE 0
  PROVE  Right(op, alu8_op(op, a, b, fs), Unsigned(op, a, b, c),
               Unsigned(op, Signed8(a), Signed8(b), c), Unsigned(op, Low4(a), Low4(b), c))
<1> DEFINE res == alu8_op(op, a, b, fs)
<1>1. /\ Signed8(a) \in Int /\ Signed8(b) \in Int /\ Low4(a) \in Int /\ Low4(b) \in Int
      /\ a \in Int /\ b \in Int
  BY SMT DEF Signed8, Low4, Byte
<1>2. \A m \in Int, n \in Int :
        /\ op \in {"ADD", "ADC"} => Unsigned(op, m, n, c) = IF c = 1 THEN m + n + 1 ELSE m + n
        /\ op \notin {"ADD", "ADC"} =>
             Unsigned(op, m, n, c) = IF c = 1 THEN m - n - 1 ELSE m - n
  BY DEF Unsigned
<1>3. CASE op \in {"ADD", "ADC"} /\ c = 0
  <2>1. res = Add(a, b)
    BY <1>3 DEF alu8_op
  <2>2. \A m, n, s, h : Right("ADD", Add(a, b), n, s, h) => Right(op, Add(a, b), n, s, h)
    BY <1>3 DEF Right
  <2> QED
    BY <1>1, <1>2, <1>3, <2>1, <2>2, SumsRight
<1>4. CASE op \in {"ADD", "ADC"} /\ c # 0
  <2>1. res = Adc(a, b) /\ c = 1 /\ op = "ADC"
    BY <1>4 DEF alu8_op
  <2>2. /\ Unsigned(op, a, b, c) = a + b + 1
        /\ Unsigned(op, Signed8(a), Signed8(b), c) = Signed8(a) + Signed8(b) + 1
        /\ Unsigned(op, Low4(a), Low4(b), c) = Low4(a) + Low4(b) + 1
    BY <1>1, <1>2, <2>1
  <2>3. Right("ADC", Adc(a, b), a + b + 1, Signed8(a) + Signed8(b) + 1,
              Low4(a) + Low4(b) + 1)
    BY SumsRight, Zenon
  <2> QED
    BY <2>1, <2>2, <2>3, Zenon
<1>5. CASE op \in {"SUB", "SBC"} /\ c = 0
  <2>1. res = Sub(a, b)
    BY <1>5 DEF alu8_op
  <2>2. \A n, s, h : Right("SUB", Sub(a, b), n, s, h) => Right(op, Sub(a, b), n, s, h)
    BY <1>5 DEF Right
  <2> QED
    BY <1>1, <1>2, <1>5, <2>1, <2>2, SumsRight
<1>6. CASE op \in {"SUB", "SBC"} /\ c # 0
  <2>1. res = Sbc(a, b) /\ c = 1 /\ op = "SBC"
    BY <1>6 DEF alu8_op
  <2>2. /\ Unsigned(op, a, b, c) = a - b - 1
        /\ Unsigned(op, Signed8(a), Signed8(b), c) = Signed8(a) - Signed8(b) - 1
        /\ Unsigned(op, Low4(a), Low4(b), c) = Low4(a) - Low4(b) - 1
    BY <1>1, <1>2, <2>1
  <2>3. Right("SBC", Sbc(a, b), a - b - 1, Signed8(a) - Signed8(b) - 1,
              Low4(a) - Low4(b) - 1)
    BY SumsRight, Zenon
  <2> QED
    BY <2>1, <2>2, <2>3, Zenon
<1>7. CASE op = "CP"
  <2> DEFINE n == a - b
             s == Signed8(a) - Signed8(b)
             h == Low4(a) - Low4(b)
  <2>1. res.flags = (Sub(a, b).flags \ {"3", "5"}) \cup Undoc(b)
    BY <1>7 DEF alu8_op, Compare, Result
  <2>2. c # 1
    BY <1>7
  <2>3. /\ Unsigned(op, a, b, c) = n /\ Unsigned(op, Signed8(a), Signed8(b), c) = s
        /\ Unsigned(op, Low4(a), Low4(b), c) = h
    BY <1>1, <1>2, <1>7, <2>2
  <2>4. Right("SUB", Sub(a, b), n, s, h)
    BY SumsRight
  <2> HIDE DEF n, s, h, res
  <2>5. Undoc(b) \subseteq {"3", "5"} /\ {"3", "5"} \subseteq Flags
    BY OwnFlags DEF Flags
  <2>6. Right("CP", res, n, s, h)
    BY <2>1, <2>4, <2>5 DEF Right
  <2> QED
    BY <1>7, <2>3, <2>6 DEF res
<1> QED
  BY <1>3, <1>4, <1>5, <1>6, <1>7 DEF Sums

\* For every program and every two bytes: what alu8_n leaves in A and in C, H, P and N is what
\* arithmetic without a width says (z80_opcodes_alu8.c:21-146).
THEOREM AluRight == Spec => []AluIsRight
<1>1. CoreInv /\ CallInv => AluIsRight
  <2> DEFINE op == AluOps[Y(called.opcode[0]) + 1]
             a  == called.r["A"]
             b  == called.opcode[1]
             c  == IF op \in {"ADC", "SBC"} /\ "C" \in F(called) THEN 1 ELSE 0
             n  == Unsigned(op, a, b, c)
             s  == Unsigned(op, Signed8(a), Signed8(b), c)
             h  == Unsigned(op, Low4(a), Low4(b), c)
  <2>1. SUFFICES ASSUME CoreInv, CallInv, Ended, Entry(called).f = "alu8_n", op \in Sums
                 PROVE  /\ op # "CP" => z.r["A"] = n % 256
                        /\ ("C" \in F(z)) <=> n \notin 0..255
                        /\ ("H" \in F(z)) <=> h \notin 0..15
                        /\ ("P" \in F(z)) <=> s \notin -128..127
                        /\ ("N" \in F(z)) <=> op \notin {"ADD", "ADC"}
    BY Zenon DEF AluIsRight, Sums
  <2> DEFINE m == Moved(called, z.read_buffer)
             y == Return(m, "RESET")
             res == alu8_op(op, a, b, F(called))
  <2>2. Sane(called) /\ z.read_buffer \in [0..1 -> Byte] /\ Same(z, Execute("alu8_n", m))
    BY <2>1 DEF CallInv, CoreInv, Going, Sane, Ended
  <2>3. Sane(m) /\ Same(m, called) /\ m.opcode = called.opcode
    BY <2>2, MovedIs
  <2>4. DOMAIN y = FieldNames /\ y.r = called.r /\ y.opcode = called.opcode
    <3> HIDE DEF m
    <3> QED
      BY <2>3 DEF Sane, Same, Return, FieldNames
  <2>5. Execute("alu8_n", m) = Give(y, "A", res)
    <3>1. Execute("alu8_n", m) = Alu8("alu8_n", y)
      BY DEF Execute, Unimplemented
    <3> HIDE DEF y
    <3>2. F(y) = F(called)
      BY <2>4 DEF F
    <3> QED
      BY <2>4, <3>1, <3>2 DEF Alu8, Arithmetic
  <2> HIDE DEF m, y
  <2>6. a \in Byte /\ b \in Byte /\ DOMAIN called.r = Registers
    BY <2>2, Names DEF Sane
  <2>7. Right(op, res, n, s, h)
    <3> HIDE DEF op, a, b
    <3> QED
      BY <2>1, <2>6, AluAnswers
  <2> HIDE DEF res, op, a, b
  <2>8. F(z) = res.flags /\ z.r["A"] = Byte8(res.result)
    <3> DEFINE x == Set(y, "A", res.result)
               k == Byte8(res.result)
    <3>1. z.r = SetF(x, res.flags).r
      BY <2>2, <2>5 DEF Same, Give
    <3>2. DOMAIN x = FieldNames /\ x.r = [y.r EXCEPT !["A"] = k]
      <4> HIDE DEF k
      <4>1. x = [y EXCEPT !.r["A"] = k]
        BY DEF Set, k
      <4> HIDE DEF x
      <4> QED
        BY <2>4, <4>1 DEF FieldNames
    <3> HIDE DEF x, k
    <3>3. DOMAIN x.r = Registers /\ x.r["A"] = k
      BY <2>4, <2>6, <3>2, Names
    <3>4. F(SetF(x, res.flags)) = res.flags
      BY <2>7, <3>2, <3>3, FlagsSet DEF Right
    <3>5. SetF(x, res.flags).r["A"] = x.r["A"]
      <4> DEFINE g == Byte8(FlagByte(res.flags))
      <4> HIDE DEF g
      <4>1. SetF(x, res.flags) = [x EXCEPT !.r["F"] = g]
        BY DEF SetF, Set, g
      <4> QED
        BY <3>2, <3>3, <4>1, Names DEF FieldNames
    <3> QED
      BY <3>1, <3>3, <3>4, <3>5 DEF F, k
  <2>9. n \in Int /\ s \in Int /\ h \in Int
    <3>1. /\ Signed8(a) \in Int /\ Signed8(b) \in Int /\ Low4(a) \in Int /\ Low4(b) \in Int
          /\ a \in Int /\ b \in Int
      BY <2>6, SMT DEF Signed8, Low4, Byte
    <3> QED
      BY <3>1 DEF Unsigned
  <2>10. (n \in 0..255 <=> Fits8(n)) /\ (h \in 0..15 <=> Fits4(h))
         /\ (s \in -128..127 <=> FitsSigned(s))
    <3> HIDE DEF n, s, h
    <3>1. n \in 0..255 <=> Fits8(n)
      BY <2>9, SMT DEF Fits8
    <3>2. h \in 0..15 <=> Fits4(h)
      BY <2>9, SMT DEF Fits4
    <3>3. s \in -128..127 <=> FitsSigned(s)
      BY <2>9, SMT DEF FitsSigned
    <3> QED
      BY <3>1, <3>2, <3>3, Zenon
  <2> HIDE DEF n, s, h
  <2> QED
    BY <2>7, <2>8, <2>10 DEF Right
<1> QED
  BY <1>1, CoreInvariance, CallInvariance, PTL

-----------------------------------------------------------------------------
(***************************************************************************)
(* Block copies.                                                           *)
(***************************************************************************)

\* Induction, for a property given as the set of the numbers that have it.
LEMMA Inductive ==
  ASSUME NEW N \in Nat, NEW H, 0 \in H,
         \A n \in 0..(N - 1) : n \in H => n + 1 \in H
  PROVE  0..N \subseteq H
<1> DEFINE C == {n \in 0..N : n \notin H}
<1>1. SUFFICES ASSUME C # {} PROVE FALSE
  OBVIOUS
<1>2. PICK x \in C : \A y \in C : x <= y
  <2>1. C \in SUBSET Nat
    OBVIOUS
  <2> QED
    BY <1>1, <2>1, Least
<1>3. x \in 1..N
  BY <1>2
<1>4. x - 1 \in 0..(N-1) /\ (x - 1) \in H /\ x - 1 + 1 = x
  BY <1>2, <1>3
<1> QED
  BY <1>2, <1>3, <1>4

\* One byte more is copied.
OneCopy(m, d, hl, de, k) == [m EXCEPT ![de + (d * k)] = m[hl + (d * k)]]

\* The recursion of Copied has a solution.
Copying(f, m, d, hl, de, N) ==
  f = [i \in 0..N |-> IF i = 0 THEN m
                      ELSE [f[i - 1] EXCEPT ![de + (d * (i - 1))] = f[i - 1][hl + (d * (i - 1))]]]

LEMMA CopiedSolved ==
  ASSUME NEW m, NEW d, NEW hl, NEW de, NEW N \in Nat
  PROVE  \E f : Copying(f, m, d, hl, de, N)
<1> DEFINE Of(x, i) == [x EXCEPT ![de + (d * (i - 1))] = x[hl + (d * (i - 1))]]
           Solves(f, n) == f = [i \in 0..n |-> IF i = 0 THEN m ELSE Of(f[i - 1], i)]
           H == {n \in Nat : \E f : Solves(f, n)}
<1> SUFFICES \E f : Solves(f, N)
  BY DEF Copying
<1> HIDE DEF Of
<1>1. 0 \in H
  <2>1. Solves([i \in 0..0 |-> m], 0)
    OBVIOUS
  <2> QED
    BY <2>1
<1>2. ASSUME NEW n \in 0..(N - 1), n \in H
      PROVE  n + 1 \in H
  <2>1. PICK f : Solves(f, n)
    BY <1>2
  <2> DEFINE g == [i \in 0..(n + 1) |-> IF i <= n THEN f[i] ELSE Of(f[i - 1], i)]
  <2>2. ASSUME NEW i \in 0..(n + 1)
        PROVE  g[i] = IF i = 0 THEN m ELSE Of(g[i - 1], i)
    <3>1. CASE i = 0
      BY <2>1, <3>1
    <3>2. CASE i # 0
      <4>1. g[i - 1] = f[i - 1]
        BY <3>2
      <4>2. i <= n => f[i] = Of(f[i - 1], i)
        BY <2>1, <3>2
      <4> QED
        BY <3>2, <4>1, <4>2
    <3> QED
      BY <3>1, <3>2
  <2>3. DOMAIN g = 0..(n + 1) /\ g = [i \in 0..(n + 1) |-> g[i]]
    OBVIOUS
  <2> HIDE DEF g
  <2>4. Solves(g, n + 1)
    BY <2>2, <2>3, Zenon
  <2> HIDE DEF Solves
  <2> QED
    BY <2>4
<1> HIDE DEF H
<1>3. N \in H
  BY <1>1, <1>2, Inductive
<1> QED
  BY <1>3 DEF H

\* Byte after byte.
LEMMA CopiedIs ==
  ASSUME NEW m, NEW d, NEW hl, NEW de, NEW N \in Nat
  PROVE  /\ Copied(m, d, hl, de, N)[0] = m
         /\ \A k \in 0..(N - 1) :
              Copied(m, d, hl, de, N)[k + 1] = OneCopy(Copied(m, d, hl, de, N)[k], d, hl, de, k)
<1> DEFINE copied[i \in 0..N] ==
             IF i = 0 THEN m
             ELSE [copied[i - 1] EXCEPT ![de + (d * (i - 1))] = copied[i - 1][hl + (d * (i - 1))]]
<1>1. Copied(m, d, hl, de, N) = copied
  BY DEF Copied
<1>2. copied = [i \in 0..N |-> IF i = 0 THEN m
                               ELSE [copied[i - 1] EXCEPT ![de + (d * (i - 1))]
                                                       = copied[i - 1][hl + (d * (i - 1))]]]
  <2> DEFINE Is(f) == Copying(f, m, d, hl, de, N)
  <2>1. \E f : Is(f)
    BY CopiedSolved
  <2>2. copied = CHOOSE f : Is(f)
    BY DEF Copying
  <2> HIDE DEF Is, copied
  <2>3. Is(copied)
    BY <2>1, <2>2
  <2> QED
    BY <2>3 DEF Is, Copying
<1> HIDE DEF copied
<1>3. copied[0] = m
  BY <1>2
<1>4. ASSUME NEW k \in 0..(N - 1) PROVE copied[k + 1] = OneCopy(copied[k], d, hl, de, k)
  <2>1. k + 1 \in 0..N /\ k + 1 # 0 /\ (k + 1) - 1 = k
    OBVIOUS
  <2>2. copied[k + 1] = [copied[(k + 1) - 1] EXCEPT ![de + (d * ((k + 1) - 1))]
                                                = copied[(k + 1) - 1][hl + (d * ((k + 1) - 1))]]
    BY <1>2, <2>1, Zenon
  <2> QED
    BY <2>1, <2>2 DEF OneCopy
<1> QED
  BY <1>1, <1>3, <1>4

\* The pairs a copy counts.
CopyPairs == {"BC", "DE", "HL", "PC"}

\* A pair is set: the others stay.
LEMMA WordIsSet ==
  ASSUME NEW y, NEW w, Steady(w, y), NEW rp \in CopyPairs, NEW n \in Int
  PROVE  /\ Steady(SetWord(w, rp, n), y) /\ SetWord(w, rp, n).stage = w.stage
         /\ Word(SetWord(w, rp, n), rp) = Word16(n)
         /\ \A rq \in CopyPairs : rq # rp => Word(SetWord(w, rp, n), rq) = Word(w, rq)
<1> DEFINE m == Word16(n)
           h == Halves[rp][1]
           l == Halves[rp][2]
           u == Set(w, h, Hi(m))
           v == Set(u, l, Lo(m))
<1>1. m \in Address
  BY Conversions
<1>2. SetWord(w, rp, n) = v
  BY DEF SetWord
<1>3. w.r \in [Registers -> Byte]
  BY DEF Steady, Sane
<1> HIDE DEF m
<1>4. /\ Hi(m) \in Byte /\ Lo(m) \in Byte /\ Byte8(Hi(m)) = Hi(m) /\ Byte8(Lo(m)) = Lo(m)
      /\ 256 * Hi(m) + Lo(m) = m
  BY <1>1, BytesOfWord
<1>5. Hi(m) \in Int /\ Lo(m) \in Int
  BY <1>4 DEF Byte
<1>5a. h \in Registers /\ l \in Registers /\ h # l
  BY Names DEF Halves, Pairs16, CopyPairs
<1>5b. \A rq \in CopyPairs : rq # rp =>
         /\ Halves[rq][1] \in Registers /\ Halves[rq][2] \in Registers
         /\ Halves[rq][1] \notin {h, l} /\ Halves[rq][2] \notin {h, l}
  BY Names DEF Halves, Pairs16, CopyPairs
<1>5c. Word(v, rp) = 256 * v.r[h] + v.r[l]
  BY DEF Word
<1> HIDE DEF h, l
<1>6. Steady(u, y) /\ u.stage = w.stage /\ u.r = [w.r EXCEPT ![h] = Hi(m)]
  BY <1>4, <1>5, <1>5a, SetSteady
<1> HIDE DEF u
<1>7. Steady(v, y) /\ v.stage = u.stage /\ v.r = [u.r EXCEPT ![l] = Byte8(Lo(m))]
  BY <1>5, <1>5a, <1>6, SetSteady
<1> HIDE DEF v
<1>7a. v.r = [u.r EXCEPT ![l] = Lo(m)]
  BY <1>4, <1>7
<1>8. v.r[h] = Hi(m) /\ v.r[l] = Lo(m)
  BY <1>3, <1>5a, <1>6, <1>7a
<1>9. Word(v, rp) = m
  BY <1>4, <1>5c, <1>8
<1>10. ASSUME NEW rq \in CopyPairs, rq # rp PROVE Word(v, rq) = Word(w, rq)
  <2>1. /\ Halves[rq][1] \in Registers /\ Halves[rq][2] \in Registers
        /\ Halves[rq][1] \notin {h, l} /\ Halves[rq][2] \notin {h, l}
    BY <1>5b, <1>10
  <2>2. v.r[Halves[rq][1]] = w.r[Halves[rq][1]] /\ v.r[Halves[rq][2]] = w.r[Halves[rq][2]]
    BY <1>3, <1>6, <1>7a, <2>1
  <2> QED
    BY <2>2 DEF Word
<1> QED
  BY <1>2, <1>6, <1>7, <1>9, <1>10 DEF m

\* A pair is counted.
LEMMA CountIs ==
  ASSUME NEW y, NEW w, Steady(w, y), NEW rp \in CopyPairs, NEW n \in Int
  PROVE  /\ Steady(Count(w, rp, n), y) /\ Count(w, rp, n).stage = w.stage
         /\ \A rq \in CopyPairs :
              Word(Count(w, rp, n), rq) = IF rq = rp THEN Plus(Word(w, rq), n) ELSE Word(w, rq)
<1>1. Word(w, rp) + n \in Int
  <2>1. rp \in Pairs16 /\ Sane(w)
    BY DEF Pairs16, CopyPairs, Steady
  <2>2. Word(w, rp) \in Address
    BY <2>1, Words
  <2> QED
    BY <2>2, SMT DEF Address
<1> DEFINE m == Word(w, rp) + n
<1>2. Count(w, rp, n) = SetWord(w, rp, m) /\ Plus(Word(w, rp), n) = Word16(m)
  BY DEF Count, Plus
<1>3. m \in Int
  BY <1>1
<1> HIDE DEF m
<1>4. /\ Steady(SetWord(w, rp, m), y) /\ SetWord(w, rp, m).stage = w.stage
      /\ Word(SetWord(w, rp, m), rp) = Word16(m)
      /\ \A rq \in CopyPairs : rq # rp => Word(SetWord(w, rp, m), rq) = Word(w, rq)
  BY <1>3, WordIsSet
<1> QED
  BY <1>2, <1>4

\* The flags are set: the pairs stay.
LEMMA FlagsAreSet ==
  ASSUME NEW y, NEW w, Steady(w, y), NEW fs
  PROVE  /\ Steady(SetF(w, fs), y) /\ SetF(w, fs).stage = w.stage
         /\ \A rq \in CopyPairs : Word(SetF(w, fs), rq) = Word(w, rq)
<1>1. FlagByte(fs) \in Int
  BY FlagsAreNumbers DEF FlagByte
<1>2. "F" \in Registers /\ w.r \in [Registers -> Byte]
  BY Names DEF Steady, Sane
<1>3. /\ Steady(SetF(w, fs), y) /\ SetF(w, fs).stage = w.stage
      /\ SetF(w, fs).r = [w.r EXCEPT !["F"] = Byte8(FlagByte(fs))]
  BY <1>1, <1>2, SetSteady DEF SetF
<1>4. \A rq \in CopyPairs :
         /\ Halves[rq][1] \in Registers /\ Halves[rq][2] \in Registers
         /\ Halves[rq][1] # "F" /\ Halves[rq][2] # "F"
  BY Names DEF Halves, Pairs16, CopyPairs
<1> QED
  BY <1>2, <1>3, <1>4 DEF Word

\* e has the bytes and the pairs of v.
Alike(e, v) == Steady(e, v) /\ \A rq \in CopyPairs : Word(e, rq) = Word(v, rq)

\* What one call of a copy does: it asks for the byte at HL, has it written to DE, or counts.
AsksByte(e, v)  ==
  e.stage = "M2" /\ e.read_is_io = 0 /\ e.read_address = Word(v, "HL") /\ Alike(e, v)
GivesByte(e, v) ==
  /\ e.stage = "M3" /\ e.write_is_io = 0 /\ e.write_address = Word(v, "DE")
  /\ e.write_buffer[0] = v.read_buffer[0] /\ Alike(e, v)
Counts(e, v, d) ==
  /\ Steady(e, v) /\ Word(e, "BC") = Plus(Word(v, "BC"), -1)
  /\ Word(e, "HL") = Plus(Word(v, "HL"), d) /\ Word(e, "DE") = Plus(Word(v, "DE"), d)
  /\ Word(e, "PC") = IF Word(e, "BC") # 0 THEN Plus(Word(v, "PC"), -2) ELSE Word(v, "PC")
Round(e, v, d) ==
  CASE v.read_index = 0 -> AsksByte(e, v)
    [] v.read_index # 0 /\ v.write_index = 0 -> GivesByte(e, v)
    [] OTHER -> e.stage \in {"RESET", "REFRESH"} /\ Counts(e, v, d)

\* The three pairs are counted.
LEMMA CopyCounts ==
  ASSUME NEW v, Steady(v, v), NEW d \in Int
  PROVE  LET x == Count(Count(Count(v, "BC", -1), "HL", d), "DE", d)
         IN /\ Steady(x, v) /\ x.stage = v.stage
            /\ Word(x, "BC") = Plus(Word(v, "BC"), -1) /\ Word(x, "HL") = Plus(Word(v, "HL"), d)
            /\ Word(x, "DE") = Plus(Word(v, "DE"), d) /\ Word(x, "PC") = Word(v, "PC")
<1> DEFINE x1 == Count(v, "BC", -1)
<1>1. "BC" \in CopyPairs /\ "HL" \in CopyPairs /\ "DE" \in CopyPairs /\ "PC" \in CopyPairs
  BY DEF CopyPairs
<1>2. -1 \in Int
  OBVIOUS
<1>3. /\ Steady(x1, v) /\ x1.stage = v.stage
      /\ \A rq \in CopyPairs :
           Word(x1, rq) = IF rq = "BC" THEN Plus(Word(v, rq), -1) ELSE Word(v, rq)
  BY <1>1, <1>2, CountIs
<1> HIDE DEF x1
<1> DEFINE x2 == Count(x1, "HL", d)
<1>4. /\ Steady(x2, v) /\ x2.stage = x1.stage
      /\ \A rq \in CopyPairs :
           Word(x2, rq) = IF rq = "HL" THEN Plus(Word(x1, rq), d) ELSE Word(x1, rq)
  <2>1. Steady(x1, v)
    BY <1>3
  <2> QED
    BY <1>1, <2>1, CountIs
<1> HIDE DEF x2
<1> DEFINE x3 == Count(x2, "DE", d)
<1>5. /\ Steady(x3, v) /\ x3.stage = x2.stage
      /\ \A rq \in CopyPairs :
           Word(x3, rq) = IF rq = "DE" THEN Plus(Word(x2, rq), d) ELSE Word(x2, rq)
  <2>1. Steady(x2, v)
    BY <1>4
  <2> QED
    BY <1>1, <2>1, CountIs
<1> HIDE DEF x3
<1> QED
  BY <1>1, <1>3, <1>4, <1>5 DEF x1, x2, x3

\* LDD and LDI.
LEMMA CopyCalled ==
  ASSUME NEW v, Sane(v), v.stage = "RESET", NEW d \in {1, -1}, NEW clear
  PROVE  Round(Copy(v, d, clear), v, d)
<1> DEFINE x1 == Count(v, "BC", -1)
           x2 == Count(x1, "HL", d)
           x3 == Count(x2, "DE", d)
           more == Word(x3, "BC") # 0
           fs == (F(v) \ clear) \cup Flag("P", more) \cup Undocumented(v)
           x4 == SetF(x3, fs)
           x5 == Again(x4, more)
           hl == Word(v, "HL")
           de == Word(v, "DE")
           b  == v.read_buffer[0]
           p  == Z80_8BIT_WRITE(v, de, 0, b, x5)
           c  == Z80_8BIT_READ(v, hl, 0, p)
<1>1. Copy(v, d, clear) = c
  BY DEF Copy
<1>2. Steady(v, v) /\ DOMAIN v = FieldNames /\ v.read_buffer \in [0..1 -> Byte]
      /\ v.write_buffer \in [0..1 -> Byte]
  BY DEF Steady, Sane
<1>3. hl \in Address /\ de \in Address /\ Word(v, "BC") \in Address /\ Word(v, "PC") \in Address
  BY Words DEF Pairs16
<1>4. d \in Int /\ -1 \in Int /\ -2 \in Int
  OBVIOUS
<1>4a. "BC" \in CopyPairs /\ "HL" \in CopyPairs /\ "DE" \in CopyPairs /\ "PC" \in CopyPairs
  BY DEF CopyPairs
<1>7. /\ Steady(x3, v) /\ x3.stage = "RESET" /\ Word(x3, "DE") = Plus(de, d)
      /\ Word(x3, "BC") = Plus(Word(v, "BC"), -1)
      /\ Word(x3, "HL") = Plus(hl, d) /\ Word(x3, "PC") = Word(v, "PC")
  BY <1>2, <1>4, CopyCounts
<1> HIDE DEF x3, fs
<1>8. /\ Steady(x4, v) /\ x4.stage = "RESET"
      /\ \A rq \in CopyPairs : Word(x4, rq) = Word(x3, rq)
  BY <1>7, FlagsAreSet
<1> HIDE DEF x4
<1>9. x5.stage = "RESET" /\ Counts(x5, v, d)
  <2>1. CASE ~more
    <3>1. x5 = x4
      BY <2>1 DEF Again
    <3> QED
      BY <1>7, <1>8, <2>1, <3>1 DEF Counts, CopyPairs
  <2>2. CASE more
    <3>1. x5 = Count(x4, "PC", -2)
      BY <2>2 DEF Again
    <3> HIDE DEF x5
    <3>2. /\ Steady(x5, v) /\ x5.stage = x4.stage
          /\ \A rq \in CopyPairs :
               Word(x5, rq) = IF rq = "PC" THEN Plus(Word(x4, rq), -2) ELSE Word(x4, rq)
      BY <1>4, <1>4a, <1>8, <3>1, CountIs
    <3> QED
      BY <1>7, <1>8, <2>2, <3>2 DEF Counts, CopyPairs
  <2> QED
    BY <2>1, <2>2
<1> HIDE DEF x5
<1>10. CASE v.read_index = 0
  <2> DEFINE w == [v EXCEPT !.read_is_io = 0, !.read_address = hl, !.stage = "M2"]
  <2>1. c = w
    BY <1>10 DEF Z80_8BIT_READ
  <2>2. /\ DOMAIN w = FieldNames /\ w.r = v.r
        /\ w.opcode = v.opcode /\ w.opcode_index = v.opcode_index
        /\ w.read_buffer = v.read_buffer /\ w.read_index = v.read_index
        /\ w.write_buffer = v.write_buffer /\ w.write_index = v.write_index
        /\ w.read_address = hl /\ w.write_address = v.write_address
        /\ w.stage = "M2" /\ w.read_is_io = 0
    BY <1>2 DEF FieldNames
  <2> HIDE DEF w, c
  <2>3. Alike(w, v)
    BY <1>3, <2>2 DEF Alike, Steady, Sane, Word
  <2> QED
    BY <1>1, <1>10, <2>1, <2>2, <2>3 DEF Round, AsksByte
<1>11. CASE v.read_index # 0 /\ v.write_index = 0
  <2> DEFINE w == [v EXCEPT !.write_is_io = 0, !.write_address = de,
                            !.write_buffer[0] = Byte8(b), !.stage = "M3"]
  <2>1. c = w
    BY <1>11 DEF Z80_8BIT_READ, Z80_8BIT_WRITE
  <2>2. b \in Byte /\ Byte8(b) = b
    <3>1. b \in Byte
      BY <1>2
    <3> HIDE DEF b
    <3> QED
      BY <3>1, SMT DEF Byte, Byte8
  <2> HIDE DEF b
  <2>3. /\ DOMAIN w = FieldNames /\ w.r = v.r
        /\ w.opcode = v.opcode /\ w.opcode_index = v.opcode_index
        /\ w.read_buffer = v.read_buffer /\ w.read_index = v.read_index
        /\ w.write_buffer = [v.write_buffer EXCEPT ![0] = b] /\ w.write_index = v.write_index
        /\ w.read_address = v.read_address /\ w.write_address = de
        /\ w.stage = "M3" /\ w.write_is_io = 0
    BY <1>2, <2>2 DEF FieldNames
  <2> HIDE DEF w, c
  <2>4. w.write_buffer \in [0..1 -> Byte] /\ w.write_buffer[0] = b
    BY <1>2, <2>2, <2>3
  <2>5. Alike(w, v)
    BY <1>3, <2>3, <2>4 DEF Alike, Steady, Sane, Word
  <2> QED
    BY <1>1, <1>11, <2>1, <2>3, <2>4, <2>5 DEF Round, GivesByte, b
<1>12. CASE v.read_index # 0 /\ v.write_index # 0
  <2>1. c = x5
    BY <1>12 DEF Z80_8BIT_READ, Z80_8BIT_WRITE
  <2> HIDE DEF c
  <2> QED
    BY <1>1, <1>9, <1>12, <2>1 DEF Round
<1> QED
  BY <1>10, <1>11, <1>12

\* All four.
LEMMA CopyExecuted ==
  ASSUME NEW f \in Copies, NEW v0, Sane(v0)
  PROVE  Round(Execute(f, v0), v0, Direction(f))
<1> DEFINE v == Return(v0, "RESET")
           d == Direction(f)
           clear == IF d = 1 THEN {"H", "P", "N"} ELSE {"H", "P", "N", "3", "5"}
           c == Copy(v, d, clear)
           e == Execute(f, v0)
<1>1. /\ DOMAIN v = FieldNames /\ v.r = v0.r
      /\ v.opcode = v0.opcode /\ v.opcode_index = v0.opcode_index
      /\ v.read_buffer = v0.read_buffer /\ v.read_index = v0.read_index
      /\ v.write_buffer = v0.write_buffer /\ v.write_index = v0.write_index
      /\ v.read_address = v0.read_address /\ v.write_address = v0.write_address
      /\ v.stage = "RESET"
  BY DEF Return, Sane, FieldNames
<1>2. d \in {1, -1}
  BY DEF Direction
<1>3. \/ e = c
      \/ e = Repeated(ClearParity(c))
  <2>1. e = Blocks(f, v)
    BY DEF Execute, Copies, Unimplemented
  <2>2. /\ f = "LDI" => e = LDI(v) /\ d = 1
        /\ f = "LDD" => e = LDD(v) /\ d = -1
        /\ f = "LDIR" => e = Repeated(ClearParity(LDI(v))) /\ d = 1
        /\ f = "LDDR" => e = Repeated(ClearParity(LDD(v))) /\ d = -1
    <3> HIDE DEF e, v
    <3> QED
      BY <2>1 DEF Blocks, Direction
  <2> HIDE DEF e, d, v
  <2> QED
    BY <2>2 DEF Copies, LDI, LDD
<1> HIDE DEF v, d, clear, e
<1>4. Sane(v)
  BY <1>1 DEF Sane
<1>5. Round(c, v, d)
  BY <1>1, <1>2, <1>4, CopyCalled
<1> HIDE DEF c
<1>6. Round(c, v0, d)
  <2>1. \A rq : Word(v, rq) = Word(v0, rq)
    BY <1>1 DEF Word
  <2>2. \A w : (Steady(w, v) <=> Steady(w, v0)) /\ (Alike(w, v) <=> Alike(w, v0))
    BY <1>1, <2>1 DEF Steady, Alike
  <2> QED
    BY <1>1, <1>5, <2>1, <2>2 DEF Round, AsksByte, GivesByte, Counts
<1>7. CASE e = Repeated(ClearParity(c))
  <2> DEFINE x == ClearParity(c)
             w == Repeated(x)
  <2>1. Steady(c, v0) /\ c.stage \in {"M2", "M3", "RESET", "REFRESH"}
    BY <1>6 DEF Round, AsksByte, GivesByte, Counts, Alike
  <2>2. /\ Steady(x, v0) /\ x.stage = c.stage
        /\ \A rq \in CopyPairs : Word(x, rq) = Word(c, rq)
    BY <2>1, FlagsAreSet DEF ClearParity
  <2>3. /\ x.read_is_io = c.read_is_io /\ x.write_is_io = c.write_is_io
        /\ x.read_address = c.read_address /\ x.write_address = c.write_address
        /\ x.write_buffer = c.write_buffer
    <3> DEFINE k == Byte8(FlagByte(F(c) \ {"P"}))
    <3>1. x = [c EXCEPT !.r["F"] = k]
      BY DEF ClearParity, SetF, Set
    <3> HIDE DEF k, x
    <3>2. DOMAIN c = FieldNames
      BY <2>1 DEF Steady, Sane
    <3> QED
      BY <3>1, <3>2 DEF FieldNames
  <2> HIDE DEF x
  <2>4. DOMAIN x = FieldNames
    BY <2>2 DEF Steady, Sane
  <2>5. /\ DOMAIN w = FieldNames /\ w.r = x.r
        /\ w.opcode = x.opcode /\ w.opcode_index = x.opcode_index
        /\ w.read_buffer = x.read_buffer /\ w.read_index = x.read_index
        /\ w.write_buffer = x.write_buffer /\ w.write_index = x.write_index
        /\ w.read_address = x.read_address /\ w.write_address = x.write_address
        /\ w.read_is_io = x.read_is_io /\ w.write_is_io = x.write_is_io
        /\ w.stage = IF x.stage = "RESET" THEN "REFRESH" ELSE x.stage
    BY <2>4 DEF Repeated, Return, FieldNames
  <2> HIDE DEF w
  <2>6. Steady(w, v0)
    BY <2>2, <2>5 DEF Steady, Sane
  <2>7. \A rq \in CopyPairs : Word(w, rq) = Word(c, rq)
    BY <2>2, <2>5 DEF Word
  <2>8. Alike(c, v0) => Alike(w, v0)
    BY <2>6, <2>7 DEF Alike
  <2>9. w.stage = IF c.stage = "RESET" THEN "REFRESH" ELSE c.stage
    BY <2>2, <2>5
  <2>10. Round(w, v0, d)
    <3>1. CASE v0.read_index = 0
      BY <1>6, <2>3, <2>5, <2>8, <2>9, <3>1 DEF Round, AsksByte
    <3>2. CASE v0.read_index # 0 /\ v0.write_index = 0
      BY <1>6, <2>3, <2>5, <2>8, <2>9, <3>2 DEF Round, GivesByte
    <3>3. CASE v0.read_index # 0 /\ v0.write_index # 0
      BY <1>6, <2>6, <2>7, <2>9, <3>3 DEF Round, Counts, CopyPairs
    <3> QED
      BY <3>1, <3>2, <3>3
  <2> QED
    BY <1>7, <2>10 DEF e, d, w, x
<1> QED
  BY <1>3, <1>6, <1>7 DEF e, d

\* Latching a byte leaves the pairs and the counters of the pipeline.
LEMMA LatchedKeeps ==
  ASSUME NEW s, Sane(s), s.opcode_index \in 0..3, NEW b \in Byte, b = Memory(Word(s, "PC"))
  PROVE  /\ Latched(s).read_index = s.read_index /\ Latched(s).write_index = s.write_index
         /\ \A rq \in CopyPairs : rq # "PC" => Word(Latched(s), rq) = Word(s, rq)
<1> DEFINE x == [s EXCEPT !.opcode[s.opcode_index] = b, !.opcode_index = @ + 1]
           q == s.r["R"]
           n == (128 * (q \div 128)) + ((q + 1) % 128)
           y == Set(x, "R", n)
           pc == Word(s, "PC")
<1>1. Latched(s) = SetWord(y, "PC", pc + 1)
  BY DEF Latched
<1>2. DOMAIN s = FieldNames /\ s.r \in [Registers -> Byte] /\ s.opcode \in [0..3 -> Byte]
  BY DEF Sane
<1>3. /\ DOMAIN x = FieldNames /\ x.r = s.r /\ x.stage = s.stage
      /\ x.opcode = [s.opcode EXCEPT ![s.opcode_index] = b]
      /\ x.opcode_index = s.opcode_index + 1
      /\ x.read_buffer = s.read_buffer /\ x.read_index = s.read_index
      /\ x.write_buffer = s.write_buffer /\ x.write_index = s.write_index
      /\ x.read_address = s.read_address /\ x.write_address = s.write_address
  BY <1>2 DEF FieldNames
<1> HIDE DEF x
<1>4. x.opcode \in [0..3 -> Byte] /\ x.opcode_index \in 0..4
  BY <1>2, <1>3
<1>5. Sane(x) /\ Steady(x, x)
  BY <1>3, <1>4 DEF Sane, Steady
<1>6. "R" \in Registers /\ n \in Int
  <2>1. "R" \in Registers /\ q \in Byte
    BY <1>2, Names
  <2> HIDE DEF q
  <2> QED
    BY <2>1, SMT DEF Byte
<1> HIDE DEF n
<1>7. Steady(y, x) /\ y.r = [x.r EXCEPT !["R"] = Byte8(n)]
  BY <1>5, <1>6, SetSteady
<1>8. pc + 1 \in Int
  BY Words DEF Pairs16, Address
<1> HIDE DEF y, pc
<1>9. ASSUME NEW rq \in CopyPairs PROVE Word(y, rq) = Word(s, rq)
  <2>1. Halves[rq][1] \in Registers \ {"R"} /\ Halves[rq][2] \in Registers \ {"R"}
    BY Names DEF CopyPairs, Halves, Pairs16
  <2>2. y.r[Halves[rq][1]] = s.r[Halves[rq][1]] /\ y.r[Halves[rq][2]] = s.r[Halves[rq][2]]
    BY <1>2, <1>3, <1>7, <2>1
  <2> QED
    BY <2>2 DEF Word
<1>10. "PC" \in CopyPairs
  BY DEF CopyPairs
<1>11. /\ Steady(SetWord(y, "PC", pc + 1), x)
       /\ \A rq \in CopyPairs : rq # "PC" => Word(SetWord(y, "PC", pc + 1), rq) = Word(y, rq)
  BY <1>7, <1>8, <1>10, WordIsSet
<1> QED
  BY <1>1, <1>3, <1>9, <1>11 DEF Steady

-----------------------------------------------------------------------------
(***************************************************************************)
(* Programs that begin with an instruction other than a copy.              *)
(***************************************************************************)

\* Only prefix ED has copies.
CopyBytes(o) == o[0] = ED /\ op_ed[o[1]].f \in Copies

\* An opcode whose function is a copy has these two bytes.
LEMMA OnlyED ==
  ASSUME NEW w, w.opcode \in [0..3 -> Byte], Entry(w).f \in Copies
  PROVE  CopyBytes(w.opcode)
<1>1. w.opcode[0] \in Byte /\ w.opcode[1] \in Byte /\ w.opcode[3] \in Byte
  OBVIOUS
<1>2. /\ op_cb[w.opcode[1]] \in RowsCB /\ op_ddcb[w.opcode[3]] \in RowsDDCB
      /\ op_unpref[w.opcode[0]] \in Unprefixed \cup {NoEntry}
      /\ op_dd[w.opcode[1]] \in RowsDD \cup {NoEntry}
  BY <1>1, RowsThere
<1>3. \A e \in Unprefixed : e.f \notin Copies
  BY DEF Unprefixed, Row, Copies
<1>4. \A e \in RowsCB \cup RowsDDCB : e.f \notin Copies
  BY DEF RowsCB, RowsDDCB, Row, Copies
<1>5. \A e \in RowsDD : e.f \notin Copies
  BY DEF RowsDD, Row, Copies
<1>6. NoEntry.f \notin Copies
  BY DEF NoEntry, Row, Copies
<1>7. CB # ED /\ DD # ED /\ FD # ED /\ CB # DD /\ CB # FD
  BY DEF CB, DD, ED, FD
<1>8. w.opcode[0] = ED
  BY <1>2, <1>3, <1>4, <1>5, <1>6, <1>7 DEF Entry
<1>9. Entry(w) = op_ed[w.opcode[1]]
  BY <1>7, <1>8 DEF Entry
<1> QED
  BY <1>8, <1>9 DEF CopyBytes

\* Byte i of the ROM r is the first that is not a prefix; the second of two bytes is there.
First(r, i) ==
  /\ i \in DOMAIN r
  /\ \A j \in 0..i : (j < i) <=> (r[j] \in {DD, FD})
  /\ r[i] = ED => i + 1 \in DOMAIN r
Leads(r, i) == r[i] = ED /\ op_ed[r[i + 1]].f \in Copies

\* What has been fetched from address 0 on is prefixes, one more byte of the ROM, or an
\* instruction that is not a copy.
Fetching(w, r, i) ==
  \/ w.opcode_index >= 2 /\ ~CopyBytes(w.opcode)
  \/ w.opcode_index = 1 /\ \E q \in 0..i : w.opcode[0] = r[q] /\ Word(w, "PC") = Plus(q, 1)
NoCopy(w, c, a, r, i) ==
  a = 0 => IF w.stage = "M1" THEN Fetching(w, r, i) ELSE ~CopyBytes(c.opcode)

\* A byte is fetched.
LEMMA OtherFetches ==
  ASSUME CoreInv, NEW i, First(rom, i), ~Leads(rom, i), NoCopy(z, called, at, rom, i),
         z80_stage_m1
  PROVE  NoCopy(z', called', at', rom, i)
<1> DEFINE s == IF z.stage = "RESET" THEN z80_reset_pipeline(z) ELSE z
           v == Latched(s)
           b == Memory(Word(s, "PC"))
           a == IF z.stage = "RESET" THEN Word(z, "PC") ELSE at
           u == Unprefix(v)
<1>1. /\ z.stage \in {"RESET", "M1"} /\ z' = z80_instruction_decode(v) /\ at' = a
      /\ rom' = rom /\ ram' = ram
      /\ called' = IF z'.stage = "M1" THEN called ELSE u
  BY DEF z80_stage_m1, zedVars
<1>2. /\ Sane(s) /\ (s.opcode_index = 0 \/ Short(s)) /\ Word(s, "PC") = Word(z, "PC")
      /\ z.stage = "RESET" => s.opcode_index = 0
      /\ s.opcode_index \in 0..3 /\ b \in Byte
      /\ Sane(v) /\ v.opcode = [s.opcode EXCEPT ![s.opcode_index] = b]
      /\ v.opcode_index = s.opcode_index + 1
  BY <1>1, Fetches
<1>3. z.stage = "M1" => s = z
  OBVIOUS
<1> HIDE DEF s
<1>4. Word(v, "PC") = Plus(Word(s, "PC"), 1)
  BY <1>2, LatchedIs
<1>4a. (z.stage = "RESET" => a = Word(s, "PC")) /\ (z.stage = "M1" => a = at)
  BY <1>2, <1>1 
<1>5. i \in DOMAIN rom /\ i \in Nat /\ i <= 65535 /\ (rom[i] = ED => i + 1 <= 65535)
      /\ \A j \in 0..i : j \in DOMAIN rom
  <2>1. PICK size \in 0..MemSize : DOMAIN rom = 0..(size - 1)
    BY DEF CoreInv, Bytewise
  <2> QED
    BY <2>1, Sizes, SMT DEF First
<1>6. \A j \in Nat : j \in DOMAIN rom => Memory(j) = rom[j]
  BY MemoryGives DEF CoreInv
<1> HIDE DEF v, b, a
<1>7. SUFFICES ASSUME a = 0
               PROVE  IF z'.stage = "M1" THEN Fetching(z', rom, i) ELSE ~CopyBytes(called'.opcode)
  BY <1>1 DEF NoCopy
<1>8. s.opcode \in [0..3 -> Byte] /\ v.opcode[s.opcode_index] = b
      /\ (s.opcode_index > 0 => v.opcode[0] = s.opcode[0])
      /\ (s.opcode_index > 1 => v.opcode[1] = s.opcode[1])
  BY <1>2 DEF Sane
<1>9. Fetching(u, rom, i)
  <2>1. CASE z.stage = "RESET"
    <3>1. Word(s, "PC") = 0 /\ s.opcode_index = 0
      BY <1>2, <1>4a, <1>7, <2>1
    <3>2. 0 \in 0..i /\ 0 \in Nat /\ b = rom[0]
      BY <1>5, <1>6, <3>1 DEF b
    <3>3. v.opcode_index = 1 /\ v.opcode[0] = rom[0] /\ Word(v, "PC") = Plus(0, 1)
      BY <1>2, <1>4, <1>8, <3>1, <3>2
    <3>4. u = v
      BY <3>3 DEF Unprefix
    <3> HIDE DEF u
    <3> QED
      BY <3>2, <3>3, <3>4 DEF Fetching
  <2>2. CASE z.stage = "M1" /\ s.opcode_index >= 2
    <3>1. ~CopyBytes(s.opcode)
      BY <1>3, <1>4a, <1>7, <2>2 DEF NoCopy, Fetching
    <3>2. v.opcode_index >= 3 /\ v.opcode[0] = s.opcode[0] /\ v.opcode[1] = s.opcode[1]
      BY <1>2, <1>8, <2>2
    <3>3. ~Doubled(v)
      BY <1>2, <2>2, <3>2 DEF Short, Doubled
    <3>4. u = v
      BY <3>3 DEF Unprefix, Doubled
    <3>5. u.opcode_index >= 2
      BY <1>2, <2>2, <3>4
    <3> HIDE DEF u
    <3> QED
      BY <2>2, <3>1, <3>2, <3>4, <3>5 DEF Fetching, CopyBytes
  <2>3. CASE z.stage = "M1" /\ s.opcode_index = 1
    <3>1. PICK q \in 0..i : s.opcode[0] = rom[q] /\ Word(s, "PC") = Plus(q, 1)
      BY <1>3, <1>4a, <1>7, <2>3 DEF NoCopy, Fetching
    <3>2. v.opcode_index = 2 /\ v.opcode[0] = rom[q] /\ v.opcode[1] = b
      BY <1>2, <1>8, <2>3, <3>1
    <3>3. q + 1 \in DOMAIN rom => b = rom[q + 1]
      <4>1. SUFFICES ASSUME q + 1 \in DOMAIN rom PROVE b = rom[q + 1]
        OBVIOUS
      <4>2. q + 1 \in Nat /\ q + 1 <= 65535
        <5>1. PICK size \in 0..MemSize : DOMAIN rom = 0..(size - 1)
          BY DEF CoreInv, Bytewise
        <5> QED
          BY <1>5, <4>1, <5>1, Sizes, SMT
      <4>3. Plus(q, 1) = q + 1
        BY <4>2, SMT DEF Plus, Word16
      <4> QED
        BY <1>6, <3>1, <4>1, <4>2, <4>3 DEF b
    <3>4. CASE Doubled(v)
      <4>1. rom[q] \in {DD, FD}
        BY <3>2, <3>4 DEF Doubled
      <4>2. q < i
        BY <4>1 DEF First
      <4>3. q + 1 \in 0..i /\ b = rom[q + 1]
        BY <1>5, <3>3, <4>2
      <4>4. u = z80_instruction_unprefix(v)
        BY <3>4 DEF Unprefix, Doubled
      <4>5. DOMAIN v = FieldNames
        BY <1>2 DEF Sane
      <4>6. u.opcode[0] = v.opcode[1] /\ u.opcode_index = 1 /\ u.r = v.r
        BY <3>2, <4>4, <4>5 DEF z80_instruction_unprefix, FieldNames
      <4>7. Word(u, "PC") = Word(v, "PC")
        BY <4>6 DEF Word
      <4>8. Word(v, "PC") = Plus(q + 1, 1)
        <5>1. Plus(q, 1) = q + 1
          BY <1>5, <4>2, SMT DEF Plus, Word16
        <5> QED
          BY <1>4, <3>1, <5>1
      <4> HIDE DEF u
      <4> QED
        BY <3>2, <4>3, <4>6, <4>7, <4>8 DEF Fetching
    <3>5. CASE ~Doubled(v)
      <4>1. u = v
        BY <3>5 DEF Unprefix, Doubled
      <4>2. ~CopyBytes(v.opcode)
        <5>1. SUFFICES ASSUME rom[q] = ED, op_ed[b].f \in Copies PROVE FALSE
          BY <3>2 DEF CopyBytes
        <5>2. q = i
          <6>1. ED \notin {DD, FD}
            BY DEF DD, ED, FD
          <6> QED
            BY <1>5, <5>1, <6>1 DEF First
        <5>3. b = rom[i + 1]
          BY <3>3, <5>1, <5>2 DEF First
        <5> QED
          BY <5>1, <5>2, <5>3 DEF Leads
      <4> HIDE DEF u
      <4> QED
        BY <3>2, <4>1, <4>2 DEF Fetching
    <3> QED
      BY <3>4, <3>5
  <2>4. z.stage = "M1" => s.opcode_index \in 1..3
    BY <1>3 DEF CoreInv, Going, Short
  <2> QED
    BY <1>1, <1>2, <2>1, <2>2, <2>3, <2>4
<1>10. /\ Sane(u)
       /\ \/ z' = Return(u, "M1") /\ Short(u)
          \/ z' = Abort(u)
          \/ z' = z80_instruction_decode(u) /\ Ready(u)
  BY <1>1, <1>2, Fetched
<1>11. CopyBytes(u.opcode) => z' = Return(u, "M1")
  <2>1. SUFFICES ASSUME CopyBytes(u.opcode) PROVE z' = Return(u, "M1")
    OBVIOUS
  <2>2. u.opcode_index = 1
    BY <1>9, <2>1 DEF Fetching
  <2>3. ~Enough(u)
    BY <2>1, <2>2 DEF Enough, Prefixed, CopyBytes
  <2> QED
    BY <1>1, <2>3 DEF z80_instruction_decode
<1> HIDE DEF u
<1>12. DOMAIN u = FieldNames
  BY <1>10 DEF Sane
<1>13. CASE z' = Return(u, "M1")
  <2>1. /\ z'.stage = "M1" /\ z'.r = u.r /\ z'.opcode = u.opcode
        /\ z'.opcode_index = u.opcode_index
    BY <1>12, <1>13 DEF Return, FieldNames
  <2> QED
    BY <1>9, <2>1 DEF Fetching, Word
<1>14. CASE z' # Return(u, "M1")
  <2>1. z'.stage # "M1"
    <3>1. CASE z' = Abort(u)
      BY <1>12, <3>1 DEF Abort, Return, FieldNames
    <3>2. CASE z' = z80_instruction_decode(u) /\ Ready(u)
      <4>1. Outcome(z', u, After(Entry(u).f, u))
        BY <1>10, <3>2, DecodeCalls
      <4> QED
        BY <4>1 DEF Outcome, Asks, Finishes
    <3> QED
      BY <1>10, <1>14, <3>1, <3>2
  <2> QED
    BY <1>1, <1>11, <1>14, <2>1
<1> QED
  BY <1>13, <1>14

\* The bytes that are read and written, and what the function is called with.
ByteRead    == IF z.read_is_io = 1 THEN PortByte(z.read_address) ELSE Memory(z.read_address)
ByteWritten == IF z.write_is_io = 1 THEN ram
               ELSE Stored(z.write_address, z.write_buffer[z.write_index])

\* M2 calls the function of the opcode again, with the byte in read_buffer.
LEMMA M2Moved ==
  ASSUME CoreInv, z80_stage_m2
  PROVE  \E v : /\ z' = z80_instruction_decode(v) /\ Sane(v) /\ Ready(v)
                /\ v.r = z.r /\ v.opcode = z.opcode /\ v.opcode_index = z.opcode_index
                /\ v.read_buffer = [z.read_buffer EXCEPT ![z.read_index] = ByteRead]
                /\ v.read_index = z.read_index + 1 /\ v.write_index = z.write_index
<1> DEFINE b == ByteRead
           v == [z EXCEPT !.read_buffer[z.read_index] = b, !.read_index = @ + 1]
<1>1. z.stage = "M2" /\ z' = z80_instruction_decode(v)
  BY DEF z80_stage_m2, ByteRead
<1>2. Sane(z) /\ z.read_index \in 0..1 /\ z.read_address \in Address /\ z.read_address \in Nat
  BY <1>1 DEF CoreInv, Going, Sane, Address
<1>3. b \in Byte
  BY <1>2, PortGives, MemoryGives DEF CoreInv, ByteRead
<1> HIDE DEF b
<1>4. DOMAIN z = FieldNames /\ z.read_buffer \in [0..1 -> Byte]
  BY <1>2 DEF Sane
<1>5. /\ DOMAIN v = FieldNames /\ v.r = z.r /\ v.opcode = z.opcode
      /\ v.opcode_index = z.opcode_index
      /\ v.read_buffer = [z.read_buffer EXCEPT ![z.read_index] = b]
      /\ v.read_index = z.read_index + 1
      /\ v.write_buffer = z.write_buffer /\ v.write_index = z.write_index
      /\ v.read_address = z.read_address /\ v.write_address = z.write_address
  BY <1>4 DEF FieldNames
<1> HIDE DEF v
<1>6. v.read_buffer \in [0..1 -> Byte] /\ v.read_index \in 0..2
  BY <1>2, <1>3, <1>4, <1>5
<1>7. Sane(v)
  BY <1>2, <1>5, <1>6 DEF Sane
<1>8. Ready(v)
  BY <1>1, <1>5, SameBytes DEF CoreInv, Going
<1> QED
  BY <1>1, <1>5, <1>7, <1>8 DEF b

\* M3 calls it again with the byte written.
LEMMA M3Moved ==
  ASSUME CoreInv, z80_stage_m3
  PROVE  \E v : /\ z' = z80_instruction_decode(v) /\ Sane(v) /\ Ready(v)
                /\ v.r = z.r /\ v.opcode = z.opcode /\ v.opcode_index = z.opcode_index
                /\ v.read_buffer = z.read_buffer /\ v.read_index = z.read_index
                /\ v.write_index = z.write_index + 1
<1> DEFINE v == [z EXCEPT !.write_index = @ + 1]
<1>1. z.stage = "M3" /\ z' = z80_instruction_decode(v)
  BY DEF z80_stage_m3
<1>2. Sane(z) /\ z.write_index \in 0..1 /\ DOMAIN z = FieldNames
  BY <1>1 DEF CoreInv, Going, Sane
<1>3. /\ DOMAIN v = FieldNames /\ v.r = z.r /\ v.opcode = z.opcode
      /\ v.opcode_index = z.opcode_index
      /\ v.read_buffer = z.read_buffer /\ v.read_index = z.read_index
      /\ v.write_buffer = z.write_buffer /\ v.write_index = z.write_index + 1
      /\ v.read_address = z.read_address /\ v.write_address = z.write_address
  BY <1>2 DEF FieldNames
<1> HIDE DEF v
<1>4. Sane(v)
  BY <1>2, <1>3 DEF Sane
<1>5. Ready(v)
  BY <1>1, <1>3, SameBytes DEF CoreInv, Going
<1> QED
  BY <1>1, <1>3, <1>4, <1>5

\* A byte is moved, or the instruction is over.
LEMMA OtherMoves ==
  ASSUME CoreInv, NEW i, NoCopy(z, called, at, rom, i),
         z80_stage_m2 \/ z80_stage_m3 \/ z80_stage_refresh
  PROVE  NoCopy(z', called', at', rom, i)
<1>1. z.stage # "M1" /\ called' = called /\ at' = at
  BY DEF z80_stage_m2, z80_stage_m3, z80_stage_refresh
<1>2. SUFFICES z'.stage # "M1"
  BY <1>1 DEF NoCopy
<1>3. Sane(z) /\ DOMAIN z = FieldNames
  BY DEF CoreInv, Going, Sane
<1>4. CASE z80_stage_refresh
  BY <1>3, <1>4 DEF z80_stage_refresh, FieldNames
<1>5. CASE z80_stage_m2 \/ z80_stage_m3
  <2>1. PICK v : z' = z80_instruction_decode(v) /\ Sane(v) /\ Ready(v)
    BY <1>5, M2Moved, M3Moved
  <2>2. Outcome(z', v, After(Entry(v).f, v))
    BY <2>1, DecodeCalls
  <2> QED
    BY <2>2 DEF Outcome, Asks, Finishes
<1> QED
  BY <1>4, <1>5

-----------------------------------------------------------------------------
(***************************************************************************)
(* Programs that begin with a copy.                                        *)
(***************************************************************************)

\* j is the copy that ROM r begins with, for the registers in o: j.n bytes from j.hl to j.de,
\* in direction j.d, of which a run of j.l instructions makes all or some.
Job(j, r, o) ==
  /\ r[0] = ED /\ op_ed[r[1]].f \in Copies /\ 0 \in DOMAIN r /\ 1 \in DOMAIN r
  /\ j.d = Direction(op_ed[r[1]].f)
  /\ j.n \in Address /\ j.n > 0 /\ j.hl \in Address /\ j.de \in Address
  /\ j.l \in 0..(j.n + 1)
  /\ \A k \in 0..(j.n - 1) : k < j.l =>
       {j.hl + (j.d * k), j.de + (j.d * k)} \subseteq (0..(MemSize - 1)) \ DOMAIN r

\* The counters after k rounds, and the memory.
Source(j, k) == Plus(j.hl, j.d * k)
Target(j, k) == Plus(j.de, j.d * k)
Counted(w, j, k) ==
  Word(w, "BC") = j.n - k /\ Word(w, "HL") = Source(j, k) /\ Word(w, "DE") = Target(j, k)
CopiedBy(j, m) == Copied(m, j.d, j.hl, j.de, j.n)

\* c has the two bytes of the copy.
Tells(c, r) == c.opcode[0] = ED /\ c.opcode[1] = r[1] /\ c.opcode_index = 2

\* After k rounds, between two of them (c was called at a; l instructions are left) or in a
\* stage of the next one.
Between(w, c, a, l, r, j, k) ==
  /\ w.stage \in {"RESET", "REFRESH"} /\ l \in Nat /\ l + k <= j.l
  /\ \/ a = None /\ k = 0
     \/ a = 0 /\ Tells(c, r)
  /\ Word(w, "PC") = IF k < j.n THEN 0 ELSE 2
Inside(w, c, a, l, r, j, k) ==
  /\ a = 0 /\ l \in Nat /\ k < j.n /\ l + (k + 1) <= j.l
  /\ \/ /\ w.stage = "M1" /\ w.opcode_index = 1 /\ w.opcode[0] = ED /\ Word(w, "PC") = 1
        /\ w.read_index = 0 /\ w.write_index = 0
     \/ /\ w.stage = "M2" /\ Tells(c, r) /\ Tells(w, r) /\ Word(w, "PC") = 2
        /\ w.read_index = 0 /\ w.write_index = 0
        /\ w.read_is_io = 0 /\ w.read_address = Source(j, k)
     \/ /\ w.stage = "M3" /\ Tells(c, r) /\ Tells(w, r) /\ Word(w, "PC") = 2
        /\ w.read_index = 1 /\ w.write_index = 0
        /\ w.write_is_io = 0 /\ w.write_address = Target(j, k)
\* Either way the pairs and the memory mem are those of k rounds begun with m.
Stands(w, c, a, l, r, j, k, m, mem) ==
  /\ Counted(w, j, k) /\ mem = CopiedBy(j, m)[k]
  /\ Between(w, c, a, l, r, j, k) \/ Inside(w, c, a, l, r, j, k)
  /\ w.stage = "M3" => w.write_buffer[0] = mem[Source(j, k)]
\* A run is somewhere in its copy, or in the instruction after it, at 2, which is its last.
Runs(w, c, a, l, r, j, m, mem) ==
  \/ a = 2 /\ l = 0
  \/ \E k \in 0..j.n : Stands(w, c, a, l, r, j, k, m, mem)

\* Where round k reads and writes.
LEMMA RoundPlaces ==
  ASSUME NEW r, NEW o, NEW mm, Bytewise(r, mm), NEW j, Job(j, r, o), NEW k \in 0..(j.n - 1),
         k < j.l
  PROVE  /\ Source(j, k) = j.hl + (j.d * k) /\ Source(j, k) \in DOMAIN mm
         /\ Target(j, k) = j.de + (j.d * k) /\ Target(j, k) \in DOMAIN mm
         /\ Source(j, k) \in 0..(MemSize - 1) /\ Source(j, k) \notin DOMAIN r
         /\ Target(j, k) \in 0..(MemSize - 1)
<1> DEFINE s == j.hl + (j.d * k)
           t == j.de + (j.d * k)
<1>1. {s, t} \subseteq (0..(MemSize - 1)) \ DOMAIN r
  BY DEF Job
<1> HIDE DEF s, t
<1>2. s \in 0..(MemSize - 1) /\ t \in 0..(MemSize - 1) /\ s \notin DOMAIN r /\ t \notin DOMAIN r
  BY <1>1
<1>3. Word16(s) = s /\ Word16(t) = t
  BY <1>2, Sizes, SMT DEF Word16
<1>4. Source(j, k) = s /\ Target(j, k) = t
  BY <1>3 DEF s, t, Source, Target, Plus
<1>5. DOMAIN mm = (0..(MemSize - 1)) \ DOMAIN r
  BY DEF Bytewise
<1> QED
  BY <1>2, <1>4, <1>5 DEF s, t

\* The next round.
LEMMA NextRound ==
  ASSUME NEW j, NEW r, NEW o, Job(j, r, o), NEW k \in 0..(j.n - 1)
  PROVE  /\ Plus(j.n - k, -1) = j.n - (k + 1)
         /\ Plus(Source(j, k), j.d) = Source(j, k + 1)
         /\ Plus(Target(j, k), j.d) = Target(j, k + 1)
<1>1. j.n \in Address /\ j.hl \in Address /\ j.de \in Address /\ j.d \in {1, -1}
  BY DEF Job, Direction
<1>2. Plus(j.n - k, -1) = j.n - (k + 1)
  <2> DEFINE n == j.n
  <2>1. n \in Address /\ k \in 0..(n - 1)
    BY <1>1
  <2> HIDE DEF n
  <2>2. Word16((n - k) + -1) = n - (k + 1)
    BY <2>1, SMT DEF Word16, Address
  <2> QED
    BY <2>2 DEF n, Plus
<1>3. j.d * k \in Int /\ j.d \in Int /\ j.d + (j.d * k) = j.d * (k + 1)
  BY <1>1
<1> DEFINE x == j.d * k
           e == j.d
<1>4. \A b \in Address : Plus(Plus(b, x), e) = Plus(b, e + x)
  <2> HIDE DEF x, e
  <2> QED
    BY <1>3, Rounds DEF x, e
<1> QED
  BY <1>1, <1>2, <1>3, <1>4 DEF Source, Target

\* The first byte of a round is fetched, and the second; a program that has done with its
\* copy has one instruction left.
LEMMA RunsM1 ==
  ASSUME CoreInv, NEW j, Job(j, rom, origin),
         Runs(z, called, at, left, rom, j, origin.ram, ram), z80_stage_m1
  PROVE  Runs(z', called', at', left', rom, j, origin.ram, ram')
<1> DEFINE s == IF z.stage = "RESET" THEN z80_reset_pipeline(z) ELSE z
           v == Latched(s)
           b == Memory(Word(s, "PC"))
           u == Unprefix(v)
<1>1. /\ z.stage \in {"RESET", "M1"} /\ z' = z80_instruction_decode(v)
      /\ (z.stage = "RESET" => left > 0 /\ left' = left - 1 /\ at' = Word(z, "PC"))
      /\ (z.stage = "M1" => left' = left /\ at' = at)
      /\ rom' = rom /\ ram' = ram
      /\ called' = IF z'.stage = "M1" THEN called ELSE u
  BY DEF z80_stage_m1, zedVars
<1>2. /\ Sane(s) /\ (s.opcode_index = 0 \/ Short(s)) /\ Word(s, "PC") = Word(z, "PC")
      /\ z.stage = "RESET" => s.opcode_index = 0
      /\ s.opcode_index \in 0..3 /\ b \in Byte
      /\ Sane(v) /\ v.opcode = [s.opcode EXCEPT ![s.opcode_index] = b]
      /\ v.opcode_index = s.opcode_index + 1
  BY <1>1, Fetches
<1>3. /\ z.stage = "RESET" => s.read_index = 0 /\ s.write_index = 0
      /\ z.stage = "M1" => s = z
      /\ s.r = z.r
  <2>1. DOMAIN z = FieldNames
    BY DEF CoreInv, Going, Sane
  <2>2. LET x == z80_reset_pipeline(z) IN x.read_index = 0 /\ x.write_index = 0 /\ x.r = z.r
    BY <2>1 DEF z80_reset_pipeline, FieldNames
  <2> QED
    BY <1>1, <2>2
<1> HIDE DEF s
<1>4. /\ v.read_index = s.read_index /\ v.write_index = s.write_index
      /\ Word(v, "PC") = Plus(Word(s, "PC"), 1)
      /\ \A rq \in CopyPairs : rq # "PC" => Word(v, rq) = Word(z, rq)
  <2>1. \A rq : Word(s, rq) = Word(z, rq)
    BY <1>3 DEF Word
  <2> QED
    BY <1>2, <2>1, LatchedIs, LatchedKeeps
<1>5. Word(v, "BC") = Word(z, "BC") /\ Word(v, "HL") = Word(z, "HL") /\ Word(v, "DE") = Word(z, "DE")
  BY <1>4 DEF CopyPairs
<1>6. \A q \in {0, 1} : Memory(q) = rom[q]
  <2>1. 0 \in DOMAIN rom /\ 1 \in DOMAIN rom
    BY DEF Job
  <2> QED
    BY <2>1, MemoryGives DEF CoreInv
<1>7. s.opcode \in [0..3 -> Byte]
  BY <1>2 DEF Sane
<1>8. CASE at = 2 /\ left = 0
  BY <1>1, <1>8 DEF Runs
<1>9. ASSUME NEW k \in 0..j.n, Stands(z, called, at, left, rom, j, k, origin.ram, ram)
      PROVE  Runs(z', called', at', left', rom, j, origin.ram, ram')
  <2>0. j.n \in Nat /\ j.l <= j.n + 1 /\ k \in Nat /\ k <= j.n /\ j.l \in Nat
    BY <1>9 DEF Job, Address
  <2>1. CASE z.stage = "RESET"
    <3>1. Between(z, called, at, left, rom, j, k)
      BY <1>9, <2>1 DEF Stands, Inside
    <3>2. CASE k = j.n
      <4>1. Word(z, "PC") = 2 /\ left + k <= j.l /\ left \in Nat
        BY <2>0, <3>1, <3>2 DEF Between
      <4>2. at' = 2 /\ left' = 0
        BY <1>1, <2>0, <2>1, <3>2, <4>1
      <4> QED
        BY <4>2 DEF Runs
    <3>3. CASE k # j.n
      <4>1. k < j.n /\ Word(z, "PC") = 0 /\ left + k <= j.l /\ left \in Nat
        BY <2>0, <3>1, <3>3 DEF Between
      <4>2. b = ED /\ s.opcode_index = 0
        BY <1>2, <1>6, <2>1, <4>1 DEF Job
      <4>3. v.opcode_index = 1 /\ v.opcode[0] = ED /\ Word(v, "PC") = 1
            /\ v.read_index = 0 /\ v.write_index = 0
        <5>1. Plus(0, 1) = 1
          BY SMT DEF Plus, Word16
        <5> QED
          BY <1>2, <1>3, <1>4, <1>7, <2>1, <4>1, <4>2, <5>1
      <4> HIDE DEF v
      <4>4. u = v
        BY <4>3 DEF Unprefix
      <4>5. ~Enough(u)
        BY <4>3, <4>4 DEF Enough, Prefixed
      <4>6. z' = Return(v, "M1")
        BY <1>1, <4>4, <4>5 DEF z80_instruction_decode
      <4>7. DOMAIN v = FieldNames
        BY <1>2 DEF Sane
      <4>8. /\ z'.stage = "M1" /\ z'.r = v.r /\ z'.opcode = v.opcode
            /\ z'.opcode_index = v.opcode_index
            /\ z'.read_index = v.read_index /\ z'.write_index = v.write_index
        BY <4>6, <4>7 DEF Return, FieldNames
      <4>9. \A rq : Word(z', rq) = Word(v, rq)
        BY <4>8 DEF Word
      <4>10. left' \in Nat /\ left' + (k + 1) <= j.l /\ at' = 0
        BY <1>1, <2>0, <2>1, <4>1
      <4>11. Inside(z', called', at', left', rom, j, k)
        BY <4>1, <4>3, <4>8, <4>9, <4>10 DEF Inside
      <4>12. Stands(z', called', at', left', rom, j, k, origin.ram, ram')
        BY <1>1, <1>5, <1>9, <4>8, <4>9, <4>11 DEF Stands, Counted
      <4> QED
        BY <4>12 DEF Runs
    <3> QED
      BY <3>2, <3>3
  <2>2. CASE z.stage = "M1"
    <3>1. Inside(z, called, at, left, rom, j, k)
      BY <1>9, <2>2 DEF Stands, Between
    <3>2. /\ at = 0 /\ left \in Nat /\ k < j.n /\ left + (k + 1) <= j.l
          /\ z.opcode_index = 1 /\ z.opcode[0] = ED /\ Word(z, "PC") = 1
          /\ z.read_index = 0 /\ z.write_index = 0
      BY <2>2, <3>1 DEF Inside
    <3>3. b = rom[1]
      BY <1>2, <1>6, <3>2
    <3>4. v.opcode_index = 2 /\ v.opcode[0] = ED /\ v.opcode[1] = rom[1] /\ Word(v, "PC") = 2
            /\ v.read_index = 0 /\ v.write_index = 0
      <4>1. Plus(1, 1) = 2
        BY SMT DEF Plus, Word16
      <4> HIDE DEF v
      <4> QED
        BY <1>2, <1>3, <1>4, <1>7, <2>2, <3>2, <3>3, <4>1
    <3>5. ED # CB /\ ED # DD /\ ED # FD
      BY DEF CB, DD, ED, FD
    <3> DEFINE f == op_ed[rom[1]].f
    <3>6. Entry(v) = op_ed[rom[1]] /\ f \in Copies
      BY <3>4, <3>5 DEF Entry, Job
    <3>7. Entry(v) # NoEntry /\ Entry(v).size = 2
      <4>1. v.opcode \in [0..3 -> Byte]
        BY <1>2 DEF Sane
      <4>2. rom[1] \in Byte
        BY <3>4, <4>1
      <4>3. op_ed[rom[1]] \in RowsED
        BY <4>2, RowsThere
      <4>4. Lengths(op_ed[rom[1]], 2)
        BY <4>3, LengthsED
      <4>5. f \in BlockNames
        BY <3>6 DEF Copies, BlockNames
      <4>6. NoEntry.size = 0
        BY DEF NoEntry, Row
      <4> QED
        BY <3>6, <4>4, <4>5, <4>6 DEF Lengths
    <3> HIDE DEF v
    <3>8. u = v /\ ~Doubled(v) /\ Enough(v) /\ Ready(v)
      <4>1. ~Doubled(v)
        BY <3>4, <3>5 DEF Doubled
      <4>2. Enough(v)
        BY <3>4, <3>5 DEF Enough
      <4> QED
        BY <3>4, <3>7, <4>1, <4>2 DEF Unprefix, Doubled, Ready
    <3>9. z' = Execute(f, v)
      BY <1>1, <1>2, <3>6, <3>8, DecodeCalls
    <3> HIDE DEF f
    <3>10. Round(z', v, j.d)
      BY <1>2, <3>6, <3>9, CopyExecuted DEF Job, f
    <3>11. AsksByte(z', v)
      BY <3>4, <3>10 DEF Round
    <3>12. /\ z'.stage = "M2" /\ z'.read_is_io = 0 /\ z'.read_address = Word(v, "HL")
           /\ z'.opcode = v.opcode /\ z'.opcode_index = v.opcode_index
           /\ z'.read_index = 0 /\ z'.write_index = 0
           /\ \A rq \in CopyPairs : Word(z', rq) = Word(v, rq)
      BY <3>4, <3>11 DEF AsksByte, Alike, Steady
    <3>13. called' = v
      BY <1>1, <3>8, <3>12
    <3>14. Counted(z', j, k)
      BY <1>5, <1>9, <3>12 DEF Stands, Counted, CopyPairs
    <3>15. Word(z', "PC") = 2
      BY <3>4, <3>12 DEF CopyPairs
    <3>16. z'.read_address = Source(j, k)
      BY <1>5, <1>9, <3>12 DEF Stands, Counted
    <3>17. Inside(z', called', at', left', rom, j, k)
      BY <1>1, <2>2, <3>2, <3>4, <3>12, <3>13, <3>15, <3>16 DEF Inside, Tells
    <3>18. Stands(z', called', at', left', rom, j, k, origin.ram, ram')
      BY <1>1, <1>9, <3>12, <3>14, <3>17 DEF Stands
    <3> QED
      BY <3>18 DEF Runs
  <2> QED
    BY <1>1, <2>1, <2>2
<1> QED
  BY <1>8, <1>9 DEF Runs

\* What a function called with v is, in the middle of a round.
LEMMA CopyGoesOn ==
  ASSUME NEW j, Job(j, rom, origin), NEW w, Tells(w, rom),
         NEW v, Sane(v), Ready(v), v.opcode = w.opcode, v.opcode_index = w.opcode_index
  PROVE  Round(z80_instruction_decode(v), v, j.d)
<1> DEFINE f == op_ed[rom[1]].f
<1>1. v.opcode[0] = ED /\ v.opcode[1] = rom[1]
  BY DEF Tells
<1>2. Entry(v) = op_ed[rom[1]] /\ f \in Copies /\ j.d = Direction(f)
  <2>1. ED # CB /\ ED # DD /\ ED # FD
    BY DEF CB, DD, ED, FD
  <2>2. Entry(v) = op_ed[rom[1]]
    BY <1>1, <2>1 DEF Entry
  <2>3. f \in Copies /\ j.d = Direction(f)
    BY DEF Job
  <2> QED
    BY <2>2, <2>3
<1>3. z80_instruction_decode(v) = Execute(f, v)
  BY <1>2, DecodeCalls
<1> HIDE DEF f
<1> QED
  BY <1>2, <1>3, CopyExecuted

\* The byte of a round is read.
LEMMA RunsM2 ==
  ASSUME CoreInv, NEW j, Job(j, rom, origin),
         Runs(z, called, at, left, rom, j, origin.ram, ram), z80_stage_m2
  PROVE  Runs(z', called', at', left', rom, j, origin.ram, ram')
<1>1. z.stage = "M2" /\ ram' = ram /\ at' = at /\ called' = called /\ left' = left
  BY DEF z80_stage_m2
<1>2. CASE at = 2 /\ left = 0
  BY <1>1, <1>2 DEF Runs
<1>3. ASSUME NEW k \in 0..j.n, Stands(z, called, at, left, rom, j, k, origin.ram, ram)
      PROVE  Runs(z', called', at', left', rom, j, origin.ram, ram')
  <2>1. /\ Inside(z, called, at, left, rom, j, k)
        /\ Tells(called, rom) /\ Tells(z, rom) /\ Word(z, "PC") = 2
        /\ z.read_index = 0 /\ z.write_index = 0
        /\ z.read_is_io = 0 /\ z.read_address = Source(j, k)
        /\ at = 0 /\ left \in Nat /\ k < j.n /\ left + (k + 1) <= j.l
    BY <1>1, <1>3 DEF Stands, Between, Inside
  <2>2. k \in 0..(j.n - 1) /\ k < j.l
    BY <2>1 DEF Job, Address
  <2>3. PICK v : /\ z' = z80_instruction_decode(v) /\ Sane(v) /\ Ready(v)
                 /\ v.r = z.r /\ v.opcode = z.opcode /\ v.opcode_index = z.opcode_index
                 /\ v.read_buffer = [z.read_buffer EXCEPT ![z.read_index] = ByteRead]
                 /\ v.read_index = z.read_index + 1 /\ v.write_index = z.write_index
    BY M2Moved
  <2>4. Round(z', v, j.d)
    BY <2>1, <2>3, CopyGoesOn
  <2>5. GivesByte(z', v)
    BY <2>1, <2>3, <2>4 DEF Round
  <2>6. \A rq : Word(v, rq) = Word(z, rq)
    BY <2>3 DEF Word
  <2>7. v.read_buffer[0] = ram[Source(j, k)]
    <3>1. z.read_buffer \in [0..1 -> Byte]
      BY DEF CoreInv, Going, Sane
    <3>2. ByteRead = Memory(Source(j, k))
      BY <2>1 DEF ByteRead
    <3>3. /\ Source(j, k) \in DOMAIN ram /\ Source(j, k) \notin DOMAIN rom
          /\ Source(j, k) \in 0..(MemSize - 1)
      BY <2>2, RoundPlaces DEF CoreInv
    <3>4. Source(j, k) % MemSize = Source(j, k)
      BY <3>3, Sizes, Mirrors
    <3>5. ByteRead = ram[Source(j, k)]
      BY <3>2, <3>3, <3>4 DEF Memory
    <3> QED
      BY <2>1, <2>3, <3>1, <3>5
  <2>8. /\ z'.stage = "M3" /\ z'.write_is_io = 0 /\ z'.write_address = Word(z, "DE")
        /\ z'.write_buffer[0] = ram[Source(j, k)]
        /\ z'.opcode = z.opcode /\ z'.opcode_index = z.opcode_index
        /\ z'.read_index = 1 /\ z'.write_index = 0
        /\ \A rq \in CopyPairs : Word(z', rq) = Word(z, rq)
    BY <2>1, <2>3, <2>5, <2>6, <2>7 DEF GivesByte, Alike, Steady
  <2>9. Counted(z', j, k) /\ Word(z', "PC") = 2 /\ z'.write_address = Target(j, k)
    BY <1>3, <2>1, <2>8 DEF Stands, Counted, CopyPairs
  <2>10. Inside(z', called', at', left', rom, j, k)
    BY <1>1, <2>1, <2>8, <2>9 DEF Inside, Tells
  <2>11. Stands(z', called', at', left', rom, j, k, origin.ram, ram')
    BY <1>1, <1>3, <2>8, <2>9, <2>10 DEF Stands
  <2> QED
    BY <2>11 DEF Runs
<1> QED
  BY <1>2, <1>3 DEF Runs

\* It is written, and the round is over.
LEMMA RunsM3 ==
  ASSUME CoreInv, NEW j, Job(j, rom, origin),
         Runs(z, called, at, left, rom, j, origin.ram, ram), z80_stage_m3
  PROVE  Runs(z', called', at', left', rom, j, origin.ram, ram')
<1>1. z.stage = "M3" /\ ram' = ByteWritten /\ at' = at /\ called' = called /\ left' = left
  BY DEF z80_stage_m3, ByteWritten
<1>2. CASE at = 2 /\ left = 0
  BY <1>1, <1>2 DEF Runs
<1>3. ASSUME NEW k \in 0..j.n, Stands(z, called, at, left, rom, j, k, origin.ram, ram)
      PROVE  Runs(z', called', at', left', rom, j, origin.ram, ram')
  <2>1. /\ Inside(z, called, at, left, rom, j, k)
        /\ Tells(called, rom) /\ Tells(z, rom) /\ Word(z, "PC") = 2
        /\ z.read_index = 1 /\ z.write_index = 0
        /\ z.write_is_io = 0 /\ z.write_address = Target(j, k)
        /\ at = 0 /\ left \in Nat /\ k < j.n /\ left + (k + 1) <= j.l
        /\ z.write_buffer[0] = ram[Source(j, k)]
    BY <1>1, <1>3 DEF Stands, Between, Inside
  <2>2. k \in 0..(j.n - 1) /\ k < j.l /\ k + 1 \in 0..j.n /\ j.n \in Nat
    BY <2>1 DEF Job, Address
  <2>3. PICK v : /\ z' = z80_instruction_decode(v) /\ Sane(v) /\ Ready(v)
                 /\ v.r = z.r /\ v.opcode = z.opcode /\ v.opcode_index = z.opcode_index
                 /\ v.read_buffer = z.read_buffer /\ v.read_index = z.read_index
                 /\ v.write_index = z.write_index + 1
    BY M3Moved
  <2>4. Round(z', v, j.d)
    BY <2>1, <2>3, CopyGoesOn
  <2>5. z'.stage \in {"RESET", "REFRESH"} /\ Counts(z', v, j.d)
    BY <2>1, <2>3, <2>4 DEF Round
  <2>6. \A rq : Word(v, rq) = Word(z, rq)
    BY <2>3 DEF Word
  <2>7. Counted(z', j, k + 1)
    BY <1>3, <2>2, <2>5, <2>6, NextRound DEF Stands, Counted, Counts
  <2>8. Word(z', "PC") = IF k + 1 < j.n THEN 0 ELSE 2
    <3>1. Plus(2, -2) = 0
      BY SMT DEF Plus, Word16
    <3>2. Word(z', "BC") = j.n - (k + 1)
      BY <2>7 DEF Counted
    <3>3. Word(z', "BC") # 0 <=> k + 1 < j.n
      BY <2>2, <3>2
    <3> QED
      BY <2>1, <2>5, <2>6, <3>1, <3>3 DEF Counts
  <2>9. ram' = CopiedBy(j, origin.ram)[k + 1]
    <3>1. /\ Source(j, k) = j.hl + (j.d * k) /\ Target(j, k) = j.de + (j.d * k)
          /\ Target(j, k) \in DOMAIN ram /\ Target(j, k) \in 0..(MemSize - 1)
      BY <2>2, RoundPlaces DEF CoreInv
    <3>2. Target(j, k) % MemSize = Target(j, k)
      BY <3>1, Sizes, Mirrors
    <3>3. ram' = [ram EXCEPT ![Target(j, k)] = ram[Source(j, k)]]
      <4> DEFINE a == Target(j, k)
                 x == ram[Source(j, k)]
      <4>1. z.write_is_io = 0 /\ z.write_address = a /\ z.write_buffer[0] = x
        BY <2>1
      <4>2. a % MemSize = a /\ a \in DOMAIN ram
        BY <3>1, <3>2
      <4> HIDE DEF a, x
      <4>3. ByteWritten = Stored(a, x)
        BY <2>1, <4>1 DEF ByteWritten
      <4>4. Stored(a, x) = [ram EXCEPT ![a] = x]
        BY <4>2 DEF Stored
      <4>5. ram' = [ram EXCEPT ![a] = x]
        BY <1>1, <4>3, <4>4
      <4> QED
        BY <4>5 DEF a, x
    <3>4. ram = CopiedBy(j, origin.ram)[k]
      BY <1>3 DEF Stands
    <3>5. CopiedBy(j, origin.ram)[k + 1]
            = OneCopy(CopiedBy(j, origin.ram)[k], j.d, j.hl, j.de, k)
      BY <2>2, CopiedIs DEF CopiedBy
    <3> QED
      BY <3>1, <3>3, <3>4, <3>5 DEF OneCopy
  <2>10. Between(z', called', at', left', rom, j, k + 1)
    BY <1>1, <2>1, <2>5, <2>8 DEF Between
  <2>11. Stands(z', called', at', left', rom, j, k + 1, origin.ram, ram')
    BY <1>1, <2>5, <2>7, <2>9, <2>10 DEF Stands
  <2> QED
    BY <2>2, <2>11 DEF Runs
<1> QED
  BY <1>2, <1>3 DEF Runs

\* The refresh after LDIR and LDDR.
LEMMA RunsRefresh ==
  ASSUME CoreInv, NEW j, Job(j, rom, origin),
         Runs(z, called, at, left, rom, j, origin.ram, ram), z80_stage_refresh
  PROVE  Runs(z', called', at', left', rom, j, origin.ram, ram')
<1>1. /\ z.stage = "REFRESH" /\ z' = [z EXCEPT !.stage = "RESET"]
      /\ ram' = ram /\ at' = at /\ called' = called /\ left' = left
  BY DEF z80_stage_refresh
<1>2. DOMAIN z = FieldNames
  BY DEF CoreInv, Going, Sane
<1>3. z'.stage = "RESET" /\ z'.r = z.r
  BY <1>1, <1>2 DEF FieldNames
<1>4. \A rq : Word(z', rq) = Word(z, rq)
  BY <1>3 DEF Word
<1>5. ASSUME NEW k \in 0..j.n, Stands(z, called, at, left, rom, j, k, origin.ram, ram)
      PROVE  Stands(z', called', at', left', rom, j, k, origin.ram, ram')
  <2>1. Between(z, called, at, left, rom, j, k)
    BY <1>1, <1>5 DEF Stands, Inside
  <2>2. Between(z', called', at', left', rom, j, k)
    BY <1>1, <1>3, <1>4, <2>1 DEF Between
  <2> QED
    BY <1>1, <1>3, <1>4, <1>5, <2>2 DEF Stands, Counted
<1> QED
  BY <1>1, <1>5 DEF Runs

-----------------------------------------------------------------------------
\* Either the program does not begin with a copy, or it is where its copy is.
BlockInv ==
  \E i \in DOMAIN rom :
    /\ First(rom, i)
    /\ \/ ~Leads(rom, i) /\ NoCopy(z, called, at, rom, i)
       \/ Leads(rom, i) /\ i = 0
            /\ \E j : /\ Job(j, rom, origin)
                      /\ LET g == [r |-> origin.r]
                         IN j.n = Word(g, "BC") /\ j.hl = Word(g, "HL") /\ j.de = Word(g, "DE")
                      /\ Runs(z, called, at, left, rom, j, origin.ram, ram)

\* No step leaves it.
LEMMA BlockNext == CoreInv /\ BlockInv /\ [Next]_vars => BlockInv'
<1>1. SUFFICES ASSUME CoreInv, BlockInv, [Next]_vars PROVE BlockInv'
  OBVIOUS
<1>2. CASE Analyze \/ UNCHANGED vars
  <2>1. UNCHANGED <<z, called, at, left, rom, origin, ram>>
    BY <1>2 DEF Analyze, vars, programVars, zedVars, ZedNext, Skip, Visit, SortLists,
       PrintLists
  <2> QED
    BY <1>1, <2>1 DEF BlockInv
<1>3. CASE Tick
  <2>1. rom' = rom /\ origin' = origin
    BY <1>3 DEF Tick, z80_stage_m1, z80_stage_m2, z80_stage_m3, z80_stage_refresh, zedVars
  <2>2. PICK i \in DOMAIN rom :
    /\ First(rom, i)
    /\ \/ ~Leads(rom, i) /\ NoCopy(z, called, at, rom, i)
       \/ Leads(rom, i) /\ i = 0
            /\ \E j : /\ Job(j, rom, origin)
                      /\ LET g == [r |-> origin.r]
                         IN j.n = Word(g, "BC") /\ j.hl = Word(g, "HL") /\ j.de = Word(g, "DE")
                      /\ Runs(z, called, at, left, rom, j, origin.ram, ram)
    BY <1>1 DEF BlockInv
  <2>3. CASE ~Leads(rom, i) /\ NoCopy(z, called, at, rom, i)
    <3>1. NoCopy(z', called', at', rom, i)
      BY <1>1, <1>3, <2>2, <2>3, OtherFetches, OtherMoves DEF Tick
    <3> QED
      BY <2>1, <2>2, <2>3, <3>1 DEF BlockInv
  <2>4. ASSUME Leads(rom, i), i = 0,
               NEW j, Job(j, rom, origin), Runs(z, called, at, left, rom, j, origin.ram, ram),
               j.n = Word([r |-> origin.r], "BC"), j.hl = Word([r |-> origin.r], "HL"),
               j.de = Word([r |-> origin.r], "DE")
        PROVE  BlockInv'
    <3>1. Runs(z', called', at', left', rom, j, origin.ram, ram')
      BY <1>1, <1>3, <2>4, RunsM1, RunsM2, RunsM3, RunsRefresh DEF Tick
    <3> QED
      BY <2>1, <2>2, <2>4, <3>1 DEF BlockInv
  <2> QED
    BY <2>2, <2>3, <2>4
<1> QED
  BY <1>1, <1>2, <1>3 DEF Next

\* The programs that fit begin with it.
LEMMA BlockInit == Init /\ CopiesFit => BlockInv
<1>1. SUFFICES ASSUME Init, CopiesFit PROVE BlockInv
  OBVIOUS
<1>2. PICK image \in Images :
        /\ rom = image.rom /\ z = Started(image.r) /\ left = image.steps
        /\ origin = [r |-> image.r, ram |-> ram]
  BY <1>1 DEF Init
<1>3. at = None /\ z.r = origin.r /\ origin.r = image.r /\ origin.ram = ram /\ CoreInv
      /\ z.stage = "RESET"
  BY <1>1, <1>2, CoreInit DEF Init, Started
<1> DEFINE g == [r |-> image.r]
           n == Word(g, "BC")
<1>4. PICK i \in DOMAIN rom :
    /\ \A j \in 0..i : (j < i) <=> (rom[j] \in {DD, FD})
    /\ rom[i] = ED => i + 1 \in DOMAIN rom
    /\ (rom[i] = ED /\ op_ed[rom[i + 1]].f \in Copies) =>
         /\ i = 0 /\ Word(g, "PC") = 0
         /\ n > 0 /\ image.steps \in 0..(n + 1)
         /\ \A k \in 0..(n - 1) : k < image.steps =>
              {Word(g, "HL") + (Direction(op_ed[rom[i + 1]].f) * k),
               Word(g, "DE") + (Direction(op_ed[rom[i + 1]].f) * k)}
                   \subseteq (0..(MemSize - 1)) \ DOMAIN rom
  BY <1>1, <1>2, Zenon DEF CopiesFit
<1>5. First(rom, i)
  BY <1>4 DEF First
<1>6. CASE ~Leads(rom, i)
  <2>1. NoCopy(z, called, at, rom, i)
    BY <1>3 DEF NoCopy, None
  <2> QED
    BY <1>5, <1>6, <2>1 DEF BlockInv
<1>7. CASE Leads(rom, i)
  <2> DEFINE j == [d |-> Direction(op_ed[rom[1]].f), n |-> n, hl |-> Word(g, "HL"),
                   de |-> Word(g, "DE"), l |-> image.steps]
  <2>1. /\ i = 0 /\ Word(g, "PC") = 0 /\ n > 0 /\ image.steps \in 0..(n + 1)
        /\ rom[0] = ED /\ 1 \in DOMAIN rom /\ op_ed[rom[1]].f \in Copies
        /\ \A k \in 0..(n - 1) : k < image.steps =>
              {Word(g, "HL") + (Direction(op_ed[rom[1]].f) * k),
               Word(g, "DE") + (Direction(op_ed[rom[1]].f) * k)}
                   \subseteq (0..(MemSize - 1)) \ DOMAIN rom
    <3>1. i = 0 /\ i + 1 = 1
      BY <1>4, <1>7 DEF Leads
    <3> QED
      BY <1>4, <1>7, <3>1 DEF Leads
  <2>2. \A rq : Word(g, rq) = Word(z, rq)
    BY <1>3 DEF Word
  <2>3. n \in Address /\ Word(g, "HL") \in Address /\ Word(g, "DE") \in Address
    <3>1. Sane(z)
      BY <1>3 DEF CoreInv, Going
    <3> QED
      BY <2>2, <3>1, Words DEF Pairs16
  <2> HIDE DEF n, g
  <2>4. Job(j, rom, origin)
    BY <1>4, <2>1, <2>3 DEF Job
  <2>5. /\ j.n = n /\ j.hl = Word(g, "HL") /\ j.de = Word(g, "DE") /\ j.l = image.steps
        /\ j.d \in {1, -1}
    BY DEF Direction
  <2> HIDE DEF j
  <2>6. Stands(z, called, at, left, rom, j, 0, origin.ram, ram)
    <3>1. Counted(z, j, 0)
      <4>1. j.d * 0 = 0
        BY <2>5
      <4>2. Plus(j.hl, 0) = j.hl /\ Plus(j.de, 0) = j.de
        BY <2>3, <2>5, SMT DEF Plus, Word16, Address
      <4>3. j.n - 0 = j.n
        BY <2>3, <2>5 DEF Address
      <4> QED
        BY <2>2, <2>5, <4>1, <4>2, <4>3 DEF Counted, Source, Target, n
    <3>2. ram = CopiedBy(j, origin.ram)[0]
      <4>1. j.n \in Nat
        BY <2>3, <2>5 DEF Address
      <4> QED
        BY <1>3, <4>1, CopiedIs DEF CopiedBy
    <3>3. Between(z, called, at, left, rom, j, 0)
      <4>1. 0 < j.n /\ Word(z, "PC") = 0 /\ left \in Nat /\ left + 0 <= j.l
        BY <1>2, <2>1, <2>2, <2>3, <2>5 DEF Address
      <4> QED
        BY <1>3, <4>1 DEF Between
    <3> QED
      BY <1>3, <3>1, <3>2, <3>3 DEF Stands
  <2>7. Runs(z, called, at, left, rom, j, origin.ram, ram)
    <3>1. 0 \in 0..j.n
      BY <2>3, <2>5 DEF Address
    <3> QED
      BY <2>6, <3>1 DEF Runs
  <2> QED
    BY <1>3, <1>5, <1>7, <2>1, <2>4, <2>5, <2>7 DEF BlockInv, n, g
<1> QED
  BY <1>6, <1>7

\* Where the program has ended after a copy, n rounds are behind it.
LEMMA ExactAfterwards == CoreInv /\ CallInv /\ BlockInv => BlockCopyIsExact
<1>1. SUFFICES ASSUME CoreInv, CallInv, BlockInv, Ended, at = 0, Entry(called).f \in Copies,
                      Word(z, "PC") # at
               PROVE  LET g == [r |-> origin.r]
                          n == Word(g, "BC")
                      IN /\ Word(z, "BC") = 0
                         /\ ram = Copied(origin.ram, Direction(Entry(called).f), Word(g, "HL"),
                                         Word(g, "DE"), n)[n]
  BY DEF BlockCopyIsExact
<1>2. z.stage = "RESET"
  BY <1>1 DEF Ended
<1>3. called.opcode \in [0..3 -> Byte]
  BY <1>1, <1>2 DEF CallInv, None, Sane
<1>4. CopyBytes(called.opcode)
  BY <1>1, <1>3, OnlyED
<1>5. PICK i \in DOMAIN rom :
            /\ Leads(rom, i) /\ i = 0
            /\ \E j : /\ Job(j, rom, origin)
                      /\ LET g == [r |-> origin.r]
                         IN j.n = Word(g, "BC") /\ j.hl = Word(g, "HL") /\ j.de = Word(g, "DE")
                      /\ Runs(z, called, at, left, rom, j, origin.ram, ram)
  BY <1>1, <1>2, <1>4 DEF BlockInv, NoCopy
<1>6. PICK j : /\ Job(j, rom, origin)
                      /\ LET g == [r |-> origin.r]
                         IN j.n = Word(g, "BC") /\ j.hl = Word(g, "HL") /\ j.de = Word(g, "DE")
                      /\ Runs(z, called, at, left, rom, j, origin.ram, ram)
  BY <1>5
<1>7. PICK k \in 0..j.n : Stands(z, called, at, left, rom, j, k, origin.ram, ram)
  BY <1>1, <1>6 DEF Runs
<1>8. Between(z, called, at, left, rom, j, k)
  BY <1>2, <1>7 DEF Stands, Inside
<1>9. Tells(called, rom) /\ ~(k < j.n)
  BY <1>1, <1>8 DEF Between, None
<1>10. k = j.n /\ j.n - k = 0
  BY <1>6, <1>9 DEF Job, Address
<1>11. Word(z, "BC") = 0 /\ ram = CopiedBy(j, origin.ram)[j.n]
  BY <1>7, <1>10 DEF Stands, Counted
<1>12. Direction(Entry(called).f) = j.d
  <2>1. ED # CB /\ ED # DD /\ ED # FD
    BY DEF CB, DD, ED, FD
  <2>2. called.opcode[0] = ED /\ called.opcode[1] = rom[1]
    BY <1>9 DEF Tells
  <2>3. Entry(called) = op_ed[rom[1]]
    BY <2>1, <2>2 DEF Entry
  <2>4. Direction(op_ed[rom[1]].f) = j.d
    BY <1>6 DEF Job
  <2> QED
    BY <2>3, <2>4
<1> QED
  BY <1>6, <1>11, <1>12 DEF CopiedBy

\* A program that begins with LDIR, LDDR, LDI or LDD and ends with that instruction over, not
\* to be run again, has copied BC bytes, one after the other in the direction of the
\* instruction, the ones an earlier round wrote included, and nothing else in RAM has changed;
\* BC is 0 (z80_opcodes_ld.c:316-388, one round of M2 and M3 at a time, each of them fetched
\* again, z80.c:391-541). It holds of any programs whose copies stay in RAM.
THEOREM BlockCopies == CopiesFit => (Spec => []BlockCopyIsExact)
<1>1. SUFFICES ASSUME CopiesFit PROVE Spec => []BlockCopyIsExact
  OBVIOUS
<1>2. Init => BlockInv
  BY <1>1, BlockInit
<1>3. Spec => []BlockInv
  BY <1>2, BlockNext, CoreInvariance, PTL DEF Spec
<1> QED
  BY <1>3, ExactAfterwards, CoreInvariance, CallInvariance, PTL
=============================================================================
