--------------------------- MODULE QueueOpsProofs ---------------------------
(***************************************************************************)
(* Facts about the operators of QueueOps, and induction over the naturals  *)
(* in a first-order form: a statement about a set instead of a predicate.  *)
(***************************************************************************)
EXTENDS QueueOps, FiniteSetTheorems, WellFoundedInduction, TLAPS

\* A non-empty set of naturals has a least member.
LEMMA LeastNatural ==
    ASSUME NEW T \in SUBSET Nat, T # {}
    PROVE  \E x \in T : \A y \in T : x <= y
<1> DEFINE R == OpToRel(<, Nat)
<1>1. IsWellFoundedOn(R, Nat)
  BY NatLessThanWellFounded
<1>2. \E x \in T : \A y \in T : ~ (<<y, x>> \in R)
  <2> HIDE DEF R
  <2> QED BY <1>1, WFMin
<1>3. PICK x \in T : \A y \in T : ~ (<<y, x>> \in R)
  BY <1>2
<1>4. \A y \in T : ~ (y < x)
  BY <1>3 DEF OpToRel
<1> QED BY <1>4

\* A set that holds 0 and the successor of each member holds every natural.
LEMMA SetInduction ==
    ASSUME NEW S \in SUBSET Nat, 0 \in S, \A n \in S : n + 1 \in S
    PROVE  S = Nat
<1> DEFINE T == Nat \ S
<1>1. SUFFICES ASSUME T # {} PROVE FALSE
  OBVIOUS
<1>2. PICK x \in T : \A y \in T : x <= y
  <2> HIDE DEF T
  <2>1. T \in SUBSET Nat
    BY DEF T
  <2> QED BY <1>1, <2>1, LeastNatural
<1>3. x # 0 /\ x \in Nat
  OBVIOUS
<1>4. x - 1 \in Nat /\ x - 1 \notin T
  BY <1>2, <1>3
<1> QED BY <1>3, <1>4

\* Every rank of a finite set of naturals is taken by some member.
LEMMA RankTaken ==
    ASSUME NEW K \in SUBSET Nat, IsFiniteSet(K), NEW n \in 1..Cardinality(K)
    PROVE  \E i \in K : Cardinality({j \in K : j <= i}) = n
<1> DEFINE Below(i) == {j \in K : j <= i}
           c == Cardinality(K)
           f == [i \in K |-> Cardinality(Below(i))]
<1>1. c \in Nat
  BY FS_CardinalityType
<1>2. \A i \in K : IsFiniteSet(Below(i)) /\ Cardinality(Below(i)) \in 1..c
  <2> SUFFICES ASSUME NEW i \in K
               PROVE  IsFiniteSet(Below(i)) /\ Cardinality(Below(i)) \in 1..c
    OBVIOUS
  <2>1. Below(i) \subseteq K
    OBVIOUS
  <2>2. IsFiniteSet(Below(i)) /\ Cardinality(Below(i)) \in Nat /\ Cardinality(Below(i)) <= c
    <3> HIDE DEF Below
    <3> QED BY <2>1, FS_Subset, FS_CardinalityType
  <2>3. i \in Below(i)
    OBVIOUS
  <2>4. Cardinality(Below(i)) # 0
    <3> HIDE DEF Below
    <3> QED BY <2>2, <2>3, FS_EmptySet
  <2> QED BY <2>2, <2>4, <1>1
<1>3. \A i, k \in K : i < k => f[i] < f[k]
  <2> SUFFICES ASSUME NEW i \in K, NEW k \in K, i < k
               PROVE  f[i] < f[k]
    OBVIOUS
  <2>1. Below(i) \subseteq Below(k) /\ k \in Below(k) /\ k \notin Below(i)
    <3>1. i \in Nat /\ k \in Nat /\ \A j \in K : j \in Nat
      OBVIOUS
    <3>2. \A j \in K : j <= i => j <= k
      BY <3>1
    <3>3. k <= k /\ ~(k <= i)
      BY <3>1
    <3> QED BY <3>2, <3>3
  <2>2. Cardinality(Below(i)) <= Cardinality(Below(k)) /\ Cardinality(Below(i)) # Cardinality(Below(k))
    <3>1. IsFiniteSet(Below(k))
      BY <1>2
    <3> HIDE DEF Below
    <3> QED BY <2>1, <3>1, FS_Subset
  <2> QED BY <2>2, <1>2
<1>4. SUFFICES ASSUME \A i \in K : f[i] # n PROVE FALSE
  OBVIOUS
<1> DEFINE T == 1..c \ {n}
<1>5. f \in [K -> T]
  BY <1>2, <1>4
<1>6. IsFiniteSet(T) /\ Cardinality(T) = c - 1
  <2>1. IsFiniteSet(1..c) /\ Cardinality(1..c) = c
    BY <1>1, FS_Interval
  <2> QED BY <2>1, FS_RemoveElement
<1>7. Cardinality(T) < Cardinality(K)
  BY <1>1, <1>6
<1>8. \E i, k \in K : i # k /\ f[i] = f[k]
  <2> HIDE DEF f, T, c
  <2> QED BY <1>5, <1>6, <1>7, FS_PigeonHole
<1>9. \A i, k \in K : i # k => f[i] # f[k]
  <2> SUFFICES ASSUME NEW i \in K, NEW k \in K, i # k PROVE f[i] # f[k]
    OBVIOUS
  <2>1. i < k \/ k < i
    OBVIOUS
  <2>2. f[i] \in Nat /\ f[k] \in Nat
    BY <1>2
  <2> HIDE DEF f
  <2> QED BY <1>3, <2>1, <2>2
<1> QED BY <1>8, <1>9

\* NthOf enumerates K: into K, onto K, in increasing order.
LEMMA NthOfProperties ==
    ASSUME NEW K \in SUBSET Nat, IsFiniteSet(K)
    PROVE  /\ Cardinality(K) \in Nat
           /\ \A n \in 1..Cardinality(K) : NthOf(K, n) \in K
           /\ \A m, n \in 1..Cardinality(K) : NthOf(K, m) = NthOf(K, n) => m = n
           /\ \A i \in K : \E n \in 1..Cardinality(K) : NthOf(K, n) = i
<1> DEFINE c == Cardinality(K)
           rank(i) == Cardinality({j \in K : j <= i})
<1>1. c \in Nat
  BY FS_CardinalityType
<1>2. ASSUME NEW n \in 1..c
      PROVE  NthOf(K, n) \in K /\ rank(NthOf(K, n)) = n
  BY RankTaken DEF NthOf
<1>3. \A m, n \in 1..c : NthOf(K, m) = NthOf(K, n) => m = n
  BY <1>2
<1>4. ASSUME NEW i \in K PROVE \E n \in 1..c : NthOf(K, n) = i
  <2> DEFINE g == [n \in 1..c |-> NthOf(K, n)]
  <2>1. g \in [1..c -> K]
    BY <1>2
  <2>2. IsFiniteSet(1..c) /\ Cardinality(1..c) = c
    BY <1>1, FS_Interval
  <2>3. g \in Injection(1..c, K)
    BY <2>1, <1>3 DEF Injection, IsInjective
  <2>4. g \in Surjection(1..c, K)
    <3> HIDE DEF g
    <3> QED BY <2>2, <2>3, FS_Injection
  <2>5. \E n \in 1..c : g[n] = i
    BY <2>4 DEF Surjection
  <2> QED BY <2>5
<1> QED BY <1>1, <1>2, <1>3, <1>4

\* KeptAt is a sequence of members of q: those at the positions in K, once each.
LEMMA KeptAtProperties ==
    ASSUME NEW S, NEW q \in Seq(S), NEW K \in SUBSET DOMAIN q
    PROVE  /\ KeptAt(q, K) \in Seq(S)
           /\ RangeOf(KeptAt(q, K)) = {q[i] : i \in K}
           /\ Len(KeptAt(q, K)) = Cardinality(K)
           /\ IsFiniteSet(K) /\ Cardinality(K) \in Nat /\ Cardinality(K) <= Len(q)
<1>1. DOMAIN q = 1..Len(q) /\ Len(q) \in Nat
  OBVIOUS
<1>2. IsFiniteSet(1..Len(q)) /\ Cardinality(1..Len(q)) = Len(q)
  <2> DEFINE n == Len(q)
  <2>1. n \in Nat
    OBVIOUS
  <2> HIDE DEF n
  <2>2. IsFiniteSet(1..n) /\ Cardinality(1..n) = n
    BY <2>1, FS_Interval
  <2> QED BY <2>2 DEF n
<1>3. K \in SUBSET Nat /\ IsFiniteSet(K) /\ Cardinality(K) <= Len(q)
  BY <1>1, <1>2, FS_Subset
<1>4. /\ Cardinality(K) \in Nat
      /\ \A n \in 1..Cardinality(K) : NthOf(K, n) \in K
      /\ \A i \in K : \E n \in 1..Cardinality(K) : NthOf(K, n) = i
  BY <1>3, NthOfProperties
<1>5. \A n \in 1..Cardinality(K) : q[NthOf(K, n)] \in S
  BY <1>1, <1>4
<1>6. KeptAt(q, K) \in [1..Cardinality(K) -> S]
  BY <1>5 DEF KeptAt
<1>7. KeptAt(q, K) \in Seq(S) /\ Len(KeptAt(q, K)) = Cardinality(K)
  BY <1>4, <1>6
<1>8. RangeOf(KeptAt(q, K)) = {q[i] : i \in K}
  BY <1>4 DEF RangeOf, KeptAt
<1> QED BY <1>3, <1>4, <1>7, <1>8

\* An ordering of a finite set is a sequence whose members are the set's.
LEMMA OrderingsProperties ==
    ASSUME NEW S, IsFiniteSet(S), NEW s \in Orderings(S)
    PROVE  s \in Seq(S) /\ RangeOf(s) = S /\ Len(s) = Cardinality(S)
<1>1. Cardinality(S) \in Nat
  BY FS_CardinalityType
<1>2. s \in [1..Cardinality(S) -> S]
  BY DEF Orderings
<1>3. s \in Seq(S) /\ Len(s) = Cardinality(S)
  BY <1>1, <1>2
<1>4. RangeOf(s) = S
  BY <1>2 DEF RangeOf, Orderings
<1> QED BY <1>3, <1>4

\* The recursive definition of PartialSums defines a function.
LEMMA PartialSumsDef ==
    ASSUME NEW S, NEW f \in [S -> Nat], NEW s \in Seq(S)
    PROVE  PartialSums(f, s) =
             [n \in 0..Len(s) |-> IF n = 0 THEN 0 ELSE PartialSums(f, s)[n - 1] + f[s[n]]]
<1> DEFINE Upto(k, g) == /\ g \in [0..k -> Nat]
                         /\ \A n \in 0..k : g[n] = IF n = 0 THEN 0 ELSE g[n - 1] + f[s[n]]
           I == {k \in Nat : k <= Len(s) => \E g : Upto(k, g)}
<1>1. 0 \in I
  <2> DEFINE g == [n \in 0..0 |-> 0]
  <2>1. Upto(0, g)
    OBVIOUS
  <2> QED BY <2>1
<1>2. ASSUME NEW k \in I PROVE k + 1 \in I
  <2>0. k \in Nat /\ Len(s) \in Nat
    OBVIOUS
  <2>1. SUFFICES ASSUME k + 1 <= Len(s) PROVE \E h : Upto(k + 1, h)
    <3> HIDE DEF Upto
    <3> QED BY <2>0
  <2>2. PICK g : Upto(k, g)
    <3> HIDE DEF Upto
    <3> QED BY <2>0, <2>1
  <2> DEFINE h == [n \in 0..(k + 1) |-> IF n <= k THEN g[n] ELSE g[k] + f[s[k + 1]]]
  <2>3. s[k + 1] \in S /\ f[s[k + 1]] \in Nat
    BY <2>1
  <2>4. h \in [0..(k + 1) -> Nat]
    BY <2>2, <2>3
  <2>5. ASSUME NEW n \in 0..(k + 1)
        PROVE  h[n] = IF n = 0 THEN 0 ELSE h[n - 1] + f[s[n]]
    <3>1. CASE n = k + 1
      <4>1. n # 0 /\ ~(n <= k) /\ n - 1 = k /\ k \in 0..(k + 1) /\ k <= k
        BY <2>0, <3>1
      <4>2. h[n] = g[k] + f[s[n]] /\ h[n - 1] = g[k]
        BY <3>1, <4>1
      <4> QED BY <4>1, <4>2
    <3>2. CASE n # k + 1
      <4>1. n \in 0..k /\ (n # 0 => n - 1 \in 0..(k + 1) /\ n - 1 <= k)
        BY <2>0, <3>2
      <4>2. h[n] = g[n] /\ (n # 0 => h[n - 1] = g[n - 1])
        BY <4>1
      <4>3. g[n] = IF n = 0 THEN 0 ELSE g[n - 1] + f[s[n]]
        BY <2>2, <4>1
      <4> QED BY <4>2, <4>3
    <3> QED BY <3>1, <3>2
  <2> QED BY <2>4, <2>5
<1>3. I = Nat
  <2> HIDE DEF I
  <2>1. I \in SUBSET Nat
    BY DEF I
  <2> QED BY <1>1, <1>2, <2>1, SetInduction
<1>4. PICK g : Upto(Len(s), g)
  <2>1. Len(s) \in I
    <3>1. Len(s) \in Nat
      OBVIOUS
    <3> HIDE DEF I
    <3> QED BY <1>3, <3>1
  <2> HIDE DEF Upto
  <2> QED BY <2>1
<1>5. g = [n \in 0..Len(s) |-> IF n = 0 THEN 0 ELSE g[n - 1] + f[s[n]]]
  BY <1>4
<1> QED BY <1>5 DEF PartialSums

\* A sum of naturals is a natural.
LEMMA SumOfType ==
    ASSUME NEW S, NEW f \in [S -> Nat], NEW s \in Seq(S)
    PROVE  SumOf(f, s) \in Nat
<1> DEFINE p == PartialSums(f, s)
           I == {k \in Nat : k <= Len(s) => p[k] \in Nat}
<1>1. \A n \in 0..Len(s) : p[n] = IF n = 0 THEN 0 ELSE p[n - 1] + f[s[n]]
  <2> HIDE DEF p
  <2>1. p = [n \in 0..Len(s) |-> IF n = 0 THEN 0 ELSE p[n - 1] + f[s[n]]]
    BY PartialSumsDef DEF p
  <2> QED BY <2>1
<1> HIDE DEF p
<1>2. 0 \in I
  BY <1>1
<1>3. ASSUME NEW k \in I PROVE k + 1 \in I
  <2>1. SUFFICES ASSUME k + 1 <= Len(s) PROVE p[k + 1] \in Nat
    OBVIOUS
  <2>2. s[k + 1] \in S /\ f[s[k + 1]] \in Nat
    BY <2>1
  <2>3. p[k + 1] = p[k] + f[s[k + 1]]
    BY <1>1, <2>1
  <2>4. p[k] \in Nat
    BY <2>1
  <2> QED BY <2>2, <2>3, <2>4
<1>4. I = Nat
  <2> HIDE DEF I
  <2>1. I \in SUBSET Nat
    BY DEF I
  <2> QED BY <1>2, <1>3, <2>1, SetInduction
<1>5. p[Len(s)] \in Nat
  BY <1>4
<1> QED BY <1>5 DEF SumOf, p

-----------------------------------------------------------------------------
\* What is kept of a queue without repetitions has none.
LEMMA KeptAtDistinct ==
    ASSUME NEW S, NEW q \in Seq(S), NEW K \in SUBSET DOMAIN q, Distinct(q)
    PROVE  Distinct(KeptAt(q, K))
<1>1. DOMAIN q = 1..Len(q) /\ IsFiniteSet(K) /\ K \in SUBSET Nat
  BY KeptAtProperties
<1>2. /\ \A n \in 1..Cardinality(K) : NthOf(K, n) \in K
      /\ \A m, n \in 1..Cardinality(K) : NthOf(K, m) = NthOf(K, n) => m = n
  BY <1>1, NthOfProperties
<1>3. ASSUME NEW m \in 1..Cardinality(K), NEW n \in 1..Cardinality(K),
             q[NthOf(K, m)] = q[NthOf(K, n)]
      PROVE  m = n
  <2>1. NthOf(K, m) = NthOf(K, n)
    BY <1>2, <1>3 DEF Distinct
  <2> QED BY <1>2, <2>1
<1> QED BY <1>3 DEF Distinct, KeptAt

\* Appending one queue to another.
LEMMA ConcatRange ==
    ASSUME NEW S, NEW s \in Seq(S), NEW t \in Seq(S)
    PROVE  /\ s \o t \in Seq(S)
           /\ RangeOf(s \o t) = RangeOf(s) \cup RangeOf(t)
<1>1. s \o t \in Seq(S) /\ Len(s \o t) = Len(s) + Len(t)
  OBVIOUS
<1>2. \A i \in 1..Len(s) : i \in DOMAIN (s \o t) /\ (s \o t)[i] = s[i]
  OBVIOUS
<1>3. \A i \in 1..Len(t) : i + Len(s) \in DOMAIN (s \o t) /\ (s \o t)[i + Len(s)] = t[i]
  OBVIOUS
<1>4. \A i \in DOMAIN (s \o t) :
        (i \in 1..Len(s) /\ (s \o t)[i] = s[i])
        \/ (i - Len(s) \in 1..Len(t) /\ (s \o t)[i] = t[i - Len(s)])
  OBVIOUS
<1>5. RangeOf(s \o t) \subseteq RangeOf(s) \cup RangeOf(t)
  BY <1>4 DEF RangeOf
<1>6. RangeOf(s) \subseteq RangeOf(s \o t)
  BY <1>2 DEF RangeOf
<1>7. ASSUME NEW i \in DOMAIN t PROVE t[i] \in RangeOf(s \o t)
  <2>1. i \in 1..Len(t)
    OBVIOUS
  <2> QED BY <1>3, <2>1, Zenon DEF RangeOf
<1>8. RangeOf(t) \subseteq RangeOf(s \o t)
  BY <1>7, Zenon DEF RangeOf
<1> QED BY <1>1, <1>5, <1>6, <1>8

LEMMA ConcatDistinct ==
    ASSUME NEW S, NEW s \in Seq(S), NEW t \in Seq(S), Distinct(s), Distinct(t),
           RangeOf(s) \cap RangeOf(t) = {}
    PROVE  Distinct(s \o t)
<1>1. \A i \in DOMAIN (s \o t) :
        (i \in 1..Len(s) /\ (s \o t)[i] = s[i])
        \/ (i - Len(s) \in 1..Len(t) /\ (s \o t)[i] = t[i - Len(s)] /\ i \in Int)
  OBVIOUS
<1>2. \A i \in 1..Len(s), j \in 1..Len(t) : s[i] # t[j]
  BY DEF RangeOf
<1>3. ASSUME NEW i \in DOMAIN (s \o t), NEW j \in DOMAIN (s \o t), (s \o t)[i] = (s \o t)[j]
      PROVE  i = j
  <2>1. CASE i \in 1..Len(s) /\ j \in 1..Len(s)
    BY <1>3, <2>1 DEF Distinct
  <2>2. CASE i \in 1..Len(s) /\ j \notin 1..Len(s)
    BY <1>1, <1>2, <1>3, <2>2
  <2>3. CASE i \notin 1..Len(s) /\ j \in 1..Len(s)
    BY <1>1, <1>2, <1>3, <2>3
  <2>4. CASE i \notin 1..Len(s) /\ j \notin 1..Len(s)
    <3>1. i - Len(s) = j - Len(s) /\ i \in Int /\ j \in Int /\ Len(s) \in Nat
      BY <1>1, <1>3, <2>4 DEF Distinct
    <3> QED BY <3>1
  <2> QED BY <2>1, <2>2, <2>3, <2>4
<1> QED BY <1>3 DEF Distinct

\* The front and the back of a queue cut after its first n members.
LEMMA CutProperties ==
    ASSUME NEW S, NEW s \in Seq(S), NEW n \in 0..Len(s)
    PROVE  /\ SubSeq(s, 1, n) \in Seq(S) /\ SubSeq(s, n + 1, Len(s)) \in Seq(S)
           /\ Len(SubSeq(s, 1, n)) = n
           /\ \A i \in 1..n : SubSeq(s, 1, n)[i] = s[i]
           /\ RangeOf(s) = RangeOf(SubSeq(s, 1, n)) \cup RangeOf(SubSeq(s, n + 1, Len(s)))
<1> DEFINE f == SubSeq(s, 1, n)
           b == SubSeq(s, n + 1, Len(s))
<1>1. f \in Seq(S) /\ Len(f) = n /\ \A i \in 1..n : f[i] = s[i]
  OBVIOUS
<1>2. b \in Seq(S) /\ Len(b) = Len(s) - n /\ \A i \in 1..(Len(s) - n) : b[i] = s[n + i]
  OBVIOUS
<1> HIDE DEF f, b
<1>3. DOMAIN f = 1..n /\ DOMAIN b = 1..(Len(s) - n) /\ DOMAIN s = 1..Len(s)
  BY <1>1, <1>2
<1>4. RangeOf(f) \subseteq RangeOf(s)
  BY <1>1, <1>3 DEF RangeOf
<1>5. RangeOf(b) \subseteq RangeOf(s)
  <2>1. ASSUME NEW i \in 1..(Len(s) - n) PROVE b[i] \in RangeOf(s)
    <3>1. n + i \in DOMAIN s
      BY <1>3
    <3> QED BY <1>2, <3>1 DEF RangeOf
  <2> QED BY <1>3, <2>1 DEF RangeOf
<1>6. ASSUME NEW i \in 1..Len(s) PROVE s[i] \in RangeOf(f) \cup RangeOf(b)
  <2>1. CASE i <= n
    BY <1>1, <1>3, <2>1 DEF RangeOf
  <2>2. CASE ~(i <= n)
    <3>1. i - n \in 1..(Len(s) - n) /\ n + (i - n) = i
      BY <2>2
    <3>2. b[i - n] = s[i]
      BY <1>2, <3>1
    <3> QED BY <1>3, <3>1, <3>2 DEF RangeOf
  <2> QED BY <2>1, <2>2
<1>7. RangeOf(s) \subseteq RangeOf(f) \cup RangeOf(b)
  BY <1>3, <1>6 DEF RangeOf
<1>8. RangeOf(s) = RangeOf(f) \cup RangeOf(b)
  BY <1>4, <1>5, <1>7
<1> QED BY <1>1, <1>2, <1>8 DEF f, b

LEMMA CutConcat ==
    ASSUME NEW S, NEW s \in Seq(S), NEW n \in 0..Len(s)
    PROVE  s = SubSeq(s, 1, n) \o SubSeq(s, n + 1, Len(s))
<1> DEFINE f == SubSeq(s, 1, n)
           b == SubSeq(s, n + 1, Len(s))
<1>1. f \in Seq(S) /\ Len(f) = n /\ \A i \in 1..n : f[i] = s[i]
  OBVIOUS
<1>2. b \in Seq(S) /\ Len(b) = Len(s) - n /\ \A i \in 1..(Len(s) - n) : b[i] = s[n + i]
  OBVIOUS
<1>3. n \in Nat /\ Len(s) \in Nat
  OBVIOUS
<1> HIDE DEF f, b
<1> DEFINE d == f \o b
<1>4. d \in Seq(S) /\ Len(d) = Len(s)
  <2>1. f \in Seq(S) /\ b \in Seq(S)
    BY <1>1, <1>2
  <2>2. d \in Seq(S) /\ Len(d) = Len(f) + Len(b)
    BY <2>1
  <2>3. n + (Len(s) - n) = Len(s)
    BY <1>3
  <2> QED BY <1>1, <1>2, <2>2, <2>3
<1>5. ASSUME NEW j \in 1..Len(s) PROVE d[j] = s[j]
  <2>1. CASE j <= n
    <3>1. d[j] = f[j]
      BY <1>1, <1>2, <2>1
    <3> QED BY <1>1, <1>3, <2>1, <3>1
  <2>2. CASE ~(j <= n)
    <3>1. d[j] = b[j - n]
      BY <1>1, <1>2, <2>2
    <3>2. j - n \in 1..(Len(s) - n) /\ n + (j - n) = j
      BY <1>3, <2>2
    <3> QED BY <1>2, <3>1, <3>2
  <2> QED BY <2>1, <2>2
<1>6. d = s
  <2> HIDE DEF d
  <2>1. d = [j \in 1..Len(s) |-> d[j]] /\ s = [j \in 1..Len(s) |-> s[j]]
    BY <1>4
  <2> QED BY <1>5, <2>1
<1> QED BY <1>6 DEF d, f, b

LEMMA CutDistinct ==
    ASSUME NEW S, NEW s \in Seq(S), NEW n \in 0..Len(s), Distinct(s)
    PROVE  /\ Distinct(SubSeq(s, 1, n)) /\ Distinct(SubSeq(s, n + 1, Len(s)))
           /\ RangeOf(SubSeq(s, 1, n)) \cap RangeOf(SubSeq(s, n + 1, Len(s))) = {}
<1> DEFINE f == SubSeq(s, 1, n)
           b == SubSeq(s, n + 1, Len(s))
<1>1. f \in Seq(S) /\ Len(f) = n /\ \A i \in 1..n : f[i] = s[i]
  OBVIOUS
<1>2. b \in Seq(S) /\ Len(b) = Len(s) - n /\ \A i \in 1..(Len(s) - n) : b[i] = s[n + i]
  OBVIOUS
<1> HIDE DEF f, b
<1>3. DOMAIN f = 1..n /\ DOMAIN b = 1..(Len(s) - n) /\ DOMAIN s = 1..Len(s)
  BY <1>1, <1>2
<1>4. Distinct(f)
  BY <1>1, <1>3 DEF Distinct
<1>5. Distinct(b)
  <2> SUFFICES ASSUME NEW i \in 1..(Len(s) - n), NEW j \in 1..(Len(s) - n), b[i] = b[j]
               PROVE  i = j
    BY <1>3 DEF Distinct
  <2>1. n + i \in 1..Len(s) /\ n + j \in 1..Len(s) /\ s[n + i] = s[n + j]
    BY <1>2
  <2>2. n + i = n + j
    BY <1>3, <2>1 DEF Distinct
  <2> QED BY <2>2
<1>6. ASSUME NEW i \in 1..n, NEW j \in 1..(Len(s) - n), f[i] = b[j] PROVE FALSE
  <2>1. i \in 1..Len(s) /\ n + j \in 1..Len(s) /\ i # n + j
    OBVIOUS
  <2>2. s[i] = s[n + j]
    BY <1>1, <1>2, <1>6
  <2> QED BY <1>3, <2>1, <2>2 DEF Distinct
<1>7. RangeOf(f) \cap RangeOf(b) = {}
  BY <1>3, <1>6 DEF RangeOf
<1> QED BY <1>4, <1>5, <1>7 DEF f, b

\* Adding a member at the end, and taking the first one.
LEMMA AppendRange ==
    ASSUME NEW S, NEW s \in Seq(S), NEW x \in S
    PROVE  /\ Append(s, x) \in Seq(S)
           /\ RangeOf(Append(s, x)) = RangeOf(s) \cup {x}
           /\ Distinct(s) /\ x \notin RangeOf(s) => Distinct(Append(s, x))
<1>1. <<x>> \in Seq(S) /\ RangeOf(<<x>>) = {x} /\ Distinct(<<x>>)
  BY DEF RangeOf, Distinct
<1>2. Append(s, x) = s \o <<x>>
  OBVIOUS
<1> DEFINE t == <<x>>
<1> HIDE DEF t
<1>3. s \o t \in Seq(S) /\ RangeOf(s \o t) = RangeOf(s) \cup {x}
  <2>1. t \in Seq(S) /\ RangeOf(t) = {x}
    BY <1>1 DEF t
  <2> QED BY <2>1, ConcatRange
<1>4. Distinct(s) /\ x \notin RangeOf(s) => Distinct(s \o t)
  <2>1. t \in Seq(S) /\ RangeOf(t) = {x} /\ Distinct(t)
    BY <1>1 DEF t
  <2> QED BY <2>1, ConcatDistinct
<1> QED BY <1>2, <1>3, <1>4 DEF t

LEMMA HeadTailRange ==
    ASSUME NEW S, NEW s \in Seq(S), s # <<>>
    PROVE  /\ Head(s) \in S /\ Tail(s) \in Seq(S)
           /\ RangeOf(s) = {Head(s)} \cup RangeOf(Tail(s))
           /\ Distinct(s) => Distinct(Tail(s)) /\ Head(s) \notin RangeOf(Tail(s))
<1> DEFINE t == Tail(s)
<1>1. /\ Head(s) \in S /\ t \in Seq(S) /\ Len(t) = Len(s) - 1 /\ Len(s) \in Nat /\ Len(s) > 0
      /\ Head(s) = s[1] /\ \A i \in 1..(Len(s) - 1) : t[i] = s[i + 1]
  OBVIOUS
<1> HIDE DEF t
<1>2. DOMAIN t = 1..(Len(s) - 1) /\ DOMAIN s = 1..Len(s) /\ 1 \in DOMAIN s
  BY <1>1
<1>3. ASSUME NEW i \in DOMAIN t PROVE t[i] \in RangeOf(s) /\ (Distinct(s) => t[i] # Head(s))
  <2>1. i + 1 \in DOMAIN s /\ i + 1 # 1
    BY <1>1, <1>2
  <2>2. t[i] = s[i + 1]
    BY <1>1, <1>2
  <2> QED BY <1>1, <1>2, <2>1, <2>2 DEF RangeOf, Distinct
<1>4. ASSUME NEW i \in DOMAIN s PROVE s[i] = Head(s) \/ s[i] \in RangeOf(t)
  <2>1. CASE i = 1
    BY <1>1, <2>1
  <2>2. CASE i # 1
    <3>1. i - 1 \in DOMAIN t /\ (i - 1) + 1 = i
      BY <1>1, <1>2, <2>2
    <3>2. t[i - 1] = s[i]
      BY <1>1, <1>2, <3>1
    <3> QED BY <3>1, <3>2 DEF RangeOf
  <2> QED BY <2>1, <2>2
<1>5. RangeOf(s) = {Head(s)} \cup RangeOf(t)
  <2>1. RangeOf(s) \subseteq {Head(s)} \cup RangeOf(t)
    BY <1>4 DEF RangeOf
  <2>2. Head(s) \in RangeOf(s)
    BY <1>1, <1>2 DEF RangeOf
  <2>3. RangeOf(t) \subseteq RangeOf(s)
    BY <1>3 DEF RangeOf
  <2> QED BY <2>1, <2>2, <2>3
<1>6. ASSUME Distinct(s) PROVE Distinct(t) /\ Head(s) \notin RangeOf(t)
  <2>1. Head(s) \notin RangeOf(t)
    BY <1>3, <1>6 DEF RangeOf
  <2>2. ASSUME NEW i \in DOMAIN t, NEW j \in DOMAIN t, t[i] = t[j] PROVE i = j
    <3>1. i + 1 \in DOMAIN s /\ j + 1 \in DOMAIN s /\ s[i + 1] = s[j + 1]
      BY <1>1, <1>2, <2>2
    <3>2. i + 1 = j + 1
      BY <1>6, <3>1 DEF Distinct
    <3> QED BY <1>1, <1>2, <3>2
  <2> QED BY <2>1, <2>2 DEF Distinct
<1> QED BY <1>1, <1>5, <1>6 DEF t

LEMMA AppendFunction ==
    ASSUME NEW S, NEW s \in Seq(S), NEW x \in S
    PROVE  Append(s, x) = [i \in 1..(Len(s) + 1) |-> IF i = Len(s) + 1 THEN x ELSE s[i]]
<1> DEFINE a == Append(s, x)
<1>1. a \in Seq(S) /\ Len(a) = Len(s) + 1 /\ Len(s) \in Nat
  OBVIOUS
<1>2. \A i \in 1..Len(s) : a[i] = s[i]
  OBVIOUS
<1>3. a[Len(s) + 1] = x
  OBVIOUS
<1> HIDE DEF a
<1>4. a = [i \in 1..(Len(s) + 1) |-> a[i]]
  BY <1>1
<1>5. \A i \in 1..(Len(s) + 1) : a[i] = IF i = Len(s) + 1 THEN x ELSE s[i]
  BY <1>1, <1>2, <1>3
<1> QED BY <1>4, <1>5 DEF a

\* A list of all of a finite set that is as long as the set repeats nothing.
LEMMA OrderingDistinct ==
    ASSUME NEW S, IsFiniteSet(S), NEW s \in Orderings(S)
    PROVE  Distinct(s)
<1> DEFINE n == Cardinality(S)
<1>1. n \in Nat
  BY FS_CardinalityType
<1>2. s \in [1..n -> S] /\ \A x \in S : \E i \in 1..n : s[i] = x
  BY DEF Orderings
<1>3. IsFiniteSet(1..n) /\ Cardinality(1..n) = n
  BY <1>1, FS_Interval
<1>4. s \in Surjection(1..n, S)
  BY <1>2 DEF Surjection
<1>5. s \in Injection(1..n, S)
  BY <1>3, <1>4, FS_SurjSameCardinalityImpliesInj
<1>6. \A i, j \in 1..n : s[i] = s[j] => i = j
  BY <1>5 DEF Injection, IsInjective
<1> QED BY <1>2, <1>6 DEF Distinct

-----------------------------------------------------------------------------
(***************************************************************************)
(* Sums.  SumOf adds from the front of a sequence; the order of its        *)
(* members does not matter.                                                *)
(***************************************************************************)
LEMMA PartialSumsStep ==
    ASSUME NEW S, NEW f \in [S -> Nat], NEW s \in Seq(S)
    PROVE  /\ PartialSums(f, s)[0] = 0
           /\ \A n \in Nat : n + 1 <= Len(s) =>
                 PartialSums(f, s)[n + 1] = PartialSums(f, s)[n] + f[s[n + 1]]
<1> DEFINE p == PartialSums(f, s)
<1>1. p = [n \in 0..Len(s) |-> IF n = 0 THEN 0 ELSE p[n - 1] + f[s[n]]]
  BY PartialSumsDef
<1>2. Len(s) \in Nat /\ 0 \in 0..Len(s)
  OBVIOUS
<1> HIDE DEF p
<1>3. p[0] = 0
  BY <1>1, <1>2
<1>4. ASSUME NEW n \in Nat, n + 1 <= Len(s) PROVE p[n + 1] = p[n] + f[s[n + 1]]
  <2>1. n + 1 \in 0..Len(s) /\ n + 1 # 0 /\ (n + 1) - 1 = n
    BY <1>2, <1>4
  <2> QED BY <1>1, <2>1
<1> QED BY <1>3, <1>4 DEF p

\* Sequences that agree up to n have the same partial sums up to n.
LEMMA PartialSumsAgree ==
    ASSUME NEW S, NEW f \in [S -> Nat], NEW s \in Seq(S), NEW t \in Seq(S),
           Len(s) <= Len(t), \A i \in 1..Len(s) : t[i] = s[i]
    PROVE  PartialSums(f, t)[Len(s)] = SumOf(f, s)
<1>1. /\ PartialSums(f, s)[0] = 0
      /\ \A n \in Nat : n + 1 <= Len(s) =>
            PartialSums(f, s)[n + 1] = PartialSums(f, s)[n] + f[s[n + 1]]
  BY PartialSumsStep
<1>2. /\ PartialSums(f, t)[0] = 0
      /\ \A n \in Nat : n + 1 <= Len(t) =>
            PartialSums(f, t)[n + 1] = PartialSums(f, t)[n] + f[t[n + 1]]
  BY PartialSumsStep
<1>3. Len(s) \in Nat /\ Len(t) \in Nat
  OBVIOUS
<1> DEFINE I == {k \in Nat : k <= Len(s) => PartialSums(f, t)[k] = PartialSums(f, s)[k]}
<1>4. 0 \in I
  BY <1>1, <1>2
<1>5. ASSUME NEW k \in I PROVE k + 1 \in I
  <2>1. SUFFICES ASSUME k + 1 <= Len(s) PROVE PartialSums(f, t)[k + 1] = PartialSums(f, s)[k + 1]
    OBVIOUS
  <2>2. k \in Nat /\ k + 1 \in 1..Len(s) /\ k + 1 <= Len(t) /\ k <= Len(s)
    BY <1>3, <2>1
  <2>3. /\ PartialSums(f, s)[k + 1] = PartialSums(f, s)[k] + f[s[k + 1]]
        /\ PartialSums(f, t)[k + 1] = PartialSums(f, t)[k] + f[t[k + 1]]
    BY <1>1, <1>2, <2>1, <2>2
  <2>4. PartialSums(f, t)[k] = PartialSums(f, s)[k] /\ t[k + 1] = s[k + 1]
    BY <2>2
  <2> QED BY <2>3, <2>4
<1>6. I = Nat
  <2> HIDE DEF I
  <2>1. I \in SUBSET Nat
    BY DEF I
  <2> QED BY <1>4, <1>5, <2>1, SetInduction
<1>7. PartialSums(f, t)[Len(s)] = PartialSums(f, s)[Len(s)]
  BY <1>3, <1>6
<1> QED BY <1>7 DEF SumOf

LEMMA SumOfEmpty ==
    ASSUME NEW S, NEW f \in [S -> Nat]
    PROVE  SumOf(f, <<>>) = 0
<1>1. <<>> \in Seq(S) /\ Len(<<>>) = 0
  OBVIOUS
<1> QED BY <1>1, PartialSumsStep DEF SumOf

LEMMA SumOfAppend ==
    ASSUME NEW S, NEW f \in [S -> Nat], NEW s \in Seq(S), NEW x \in S
    PROVE  SumOf(f, Append(s, x)) = SumOf(f, s) + f[x]
<1> DEFINE a == Append(s, x)
<1>1. /\ a \in Seq(S) /\ Len(a) = Len(s) + 1 /\ Len(s) \in Nat
      /\ a[Len(s) + 1] = x /\ \A i \in 1..Len(s) : a[i] = s[i]
  OBVIOUS
<1> HIDE DEF a
<1>2. PartialSums(f, a)[Len(s)] = SumOf(f, s)
  <2>1. Len(s) <= Len(a)
    BY <1>1
  <2> QED BY <1>1, <2>1, PartialSumsAgree, Zenon
<1>3. PartialSums(f, a)[Len(s) + 1] = PartialSums(f, a)[Len(s)] + f[a[Len(s) + 1]]
  <2>1. Len(s) \in Nat /\ Len(s) + 1 <= Len(a)
    BY <1>1
  <2>2. \A n \in Nat : n + 1 <= Len(a) =>
            PartialSums(f, a)[n + 1] = PartialSums(f, a)[n] + f[a[n + 1]]
    BY <1>1, PartialSumsStep
  <2> QED BY <2>1, <2>2
<1> QED BY <1>1, <1>2, <1>3 DEF SumOf, a

\* The front of a sequence, which Append completes.
LEMMA FrontAppend ==
    ASSUME NEW S, NEW s \in Seq(S), NEW k \in Nat, Len(s) = k + 1
    PROVE  /\ SubSeq(s, 1, k) \in Seq(S) /\ Len(SubSeq(s, 1, k)) = k /\ s[k + 1] \in S
           /\ s = Append(SubSeq(s, 1, k), s[k + 1])
<1> DEFINE t == SubSeq(s, 1, k)
<1>1. t \in Seq(S) /\ Len(t) = k /\ s[k + 1] \in S /\ \A i \in 1..k : t[i] = s[i]
  OBVIOUS
<1> HIDE DEF t
<1>2. Append(t, s[k + 1]) = [i \in 1..(k + 1) |-> IF i = k + 1 THEN s[k + 1] ELSE t[i]]
  BY <1>1, AppendFunction
<1>3. s = [i \in 1..(k + 1) |-> s[i]]
  OBVIOUS
<1>4. \A i \in 1..(k + 1) : s[i] = IF i = k + 1 THEN s[k + 1] ELSE t[i]
  BY <1>1
<1>5. s = Append(t, s[k + 1])
  BY <1>2, <1>3, <1>4
<1> QED BY <1>1, <1>5 DEF t

LEMMA SumOfConcat ==
    ASSUME NEW S, NEW f \in [S -> Nat], NEW s \in Seq(S), NEW t \in Seq(S)
    PROVE  SumOf(f, s \o t) = SumOf(f, s) + SumOf(f, t)
<1> DEFINE I == {k \in Nat : \A u \in Seq(S) : Len(u) = k =>
                                SumOf(f, s \o u) = SumOf(f, s) + SumOf(f, u)}
<1>1. 0 \in I
  <2> SUFFICES ASSUME NEW u \in Seq(S), Len(u) = 0
               PROVE  SumOf(f, s \o u) = SumOf(f, s) + SumOf(f, u)
    OBVIOUS
  <2>1. u = <<>> /\ s \o u = s
    OBVIOUS
  <2>2. SumOf(f, u) = 0 /\ SumOf(f, s) \in Nat
    BY <2>1, SumOfEmpty, SumOfType
  <2> QED BY <2>1, <2>2
<1>2. ASSUME NEW k \in I PROVE k + 1 \in I
  <2> SUFFICES ASSUME NEW u \in Seq(S), Len(u) = k + 1
               PROVE  SumOf(f, s \o u) = SumOf(f, s) + SumOf(f, u)
    OBVIOUS
  <2> DEFINE v == SubSeq(u, 1, k)
             x == u[k + 1]
  <2>1. v \in Seq(S) /\ Len(v) = k /\ x \in S /\ u = Append(v, x)
    BY FrontAppend
  <2> HIDE DEF v, x
  <2>2. s \o u = Append(s \o v, x) /\ s \o v \in Seq(S)
    BY <2>1
  <2>3. SumOf(f, s \o u) = SumOf(f, s \o v) + f[x]
    BY <2>1, <2>2, SumOfAppend
  <2>4. SumOf(f, u) = SumOf(f, v) + f[x]
    BY <2>1, SumOfAppend
  <2>5. SumOf(f, s \o v) = SumOf(f, s) + SumOf(f, v)
    BY <2>1
  <2>6. SumOf(f, s) \in Nat /\ SumOf(f, v) \in Nat /\ f[x] \in Nat
    BY <2>1, SumOfType
  <2> QED BY <2>3, <2>4, <2>5, <2>6
<1>3. I = Nat
  <2> HIDE DEF I
  <2>1. I \in SUBSET Nat
    BY DEF I
  <2> QED BY <1>1, <1>2, <2>1, SetInduction
<1> QED BY <1>3

\* A sequence split at one of its members.
LEMMA SplitAt ==
    ASSUME NEW S, NEW s \in Seq(S), NEW i \in 1..Len(s)
    PROVE  \E a, b \in Seq(S) : s = Append(a, s[i]) \o b /\ s[i] \in S
<1> DEFINE a == SubSeq(s, 1, i - 1)
           b == SubSeq(s, i + 1, Len(s))
<1>1. a \in Seq(S) /\ Len(a) = i - 1 /\ \A j \in 1..(i - 1) : a[j] = s[j]
  OBVIOUS
<1>2. b \in Seq(S) /\ Len(b) = Len(s) - i /\ \A j \in 1..(Len(s) - i) : b[j] = s[i + j]
  OBVIOUS
<1>3. s[i] \in S /\ i \in Nat /\ Len(s) \in Nat
  OBVIOUS
<1> HIDE DEF a, b
<1> DEFINE c == Append(a, s[i])
<1>4. c \in Seq(S) /\ Len(c) = i /\ c[i] = s[i] /\ \A j \in 1..(i - 1) : c[j] = s[j]
  <2>1. c = [j \in 1..(Len(a) + 1) |-> IF j = Len(a) + 1 THEN s[i] ELSE a[j]]
    BY <1>1, <1>3, AppendFunction
  <2>2. c \in Seq(S) /\ Len(c) = i
    BY <1>1, <1>3
  <2>3. (i - 1) + 1 = i
    BY <1>3
  <2>4. c = [j \in 1..i |-> IF j = i THEN s[i] ELSE a[j]]
    BY <1>1, <2>1, <2>3
  <2> HIDE DEF c
  <2> QED BY <1>1, <1>3, <2>2, <2>4
<1> HIDE DEF c
<1> DEFINE d == c \o b
<1>5. d \in Seq(S) /\ Len(d) = Len(s)
  <2>0. c \in Seq(S) /\ b \in Seq(S)
    BY <1>2, <1>4
  <2>1. d \in Seq(S) /\ Len(d) = Len(c) + Len(b)
    BY <2>0
  <2>2. i + (Len(s) - i) = Len(s)
    BY <1>3
  <2> QED BY <1>2, <1>4, <2>1, <2>2
<1>6. ASSUME NEW j \in 1..Len(s) PROVE d[j] = s[j]
  <2>1. CASE j <= i
    <3>1. d[j] = c[j]
      BY <1>2, <1>4, <2>1
    <3> QED BY <1>4, <2>1, <3>1
  <2>2. CASE ~(j <= i)
    <3>1. d[j] = b[j - i]
      BY <1>2, <1>4, <2>2
    <3>2. j - i \in 1..(Len(s) - i) /\ i + (j - i) = j
      BY <1>3, <2>2
    <3> QED BY <1>2, <3>1, <3>2
  <2> QED BY <2>1, <2>2
<1>7. d = s
  <2> HIDE DEF d
  <2>1. d = [j \in 1..Len(s) |-> d[j]] /\ s = [j \in 1..Len(s) |-> s[j]]
    BY <1>5
  <2> QED BY <1>6, <2>1
<1> QED BY <1>1, <1>2, <1>3, <1>7 DEF d, c

\* Two parts of a sequence without repetitions share no member.
LEMMA ConcatSplits ==
    ASSUME NEW S, NEW s \in Seq(S), NEW t \in Seq(S), Distinct(s \o t)
    PROVE  Distinct(s) /\ Distinct(t) /\ RangeOf(s) \cap RangeOf(t) = {}
<1>1. /\ Len(s \o t) = Len(s) + Len(t) /\ Len(s) \in Nat /\ Len(t) \in Nat
      /\ DOMAIN (s \o t) = 1..(Len(s) + Len(t)) /\ DOMAIN s = 1..Len(s) /\ DOMAIN t = 1..Len(t)
  OBVIOUS
<1>2. \A i \in 1..Len(s) : (s \o t)[i] = s[i]
  OBVIOUS
<1>3. \A i \in 1..Len(t) : (s \o t)[i + Len(s)] = t[i]
  OBVIOUS
<1> DEFINE u == s \o t
<1> HIDE DEF u
<1>4. \A i, j \in 1..(Len(s) + Len(t)) : u[i] = u[j] => i = j
  BY <1>1 DEF Distinct, u
<1>5. Distinct(s)
  <2> SUFFICES ASSUME NEW i \in 1..Len(s), NEW j \in 1..Len(s), s[i] = s[j] PROVE i = j
    BY <1>1 DEF Distinct
  <2>1. i \in 1..(Len(s) + Len(t)) /\ j \in 1..(Len(s) + Len(t)) /\ u[i] = u[j]
    BY <1>1, <1>2 DEF u
  <2> QED BY <1>4, <2>1
<1>6. Distinct(t)
  <2> SUFFICES ASSUME NEW i \in 1..Len(t), NEW j \in 1..Len(t), t[i] = t[j] PROVE i = j
    BY <1>1 DEF Distinct
  <2>1. /\ i + Len(s) \in 1..(Len(s) + Len(t)) /\ j + Len(s) \in 1..(Len(s) + Len(t))
        /\ u[i + Len(s)] = u[j + Len(s)]
    BY <1>1, <1>3 DEF u
  <2>2. i + Len(s) = j + Len(s)
    BY <1>4, <2>1
  <2> QED BY <1>1, <2>2
<1>7. ASSUME NEW i \in 1..Len(s), NEW j \in 1..Len(t), s[i] = t[j] PROVE FALSE
  <2>1. i \in 1..(Len(s) + Len(t)) /\ j + Len(s) \in 1..(Len(s) + Len(t))
    BY <1>1
  <2>2. u[i] = u[j + Len(s)]
    BY <1>2, <1>3, <1>7 DEF u
  <2>3. i = j + Len(s)
    BY <1>4, <2>1, <2>2
  <2> QED BY <1>1, <2>3
<1>8. RangeOf(s) \cap RangeOf(t) = {}
  BY <1>1, <1>7 DEF RangeOf
<1> QED BY <1>5, <1>6, <1>8

\* The sum does not depend on the order.
LEMMA SumOfAnyOrder ==
    ASSUME NEW S, NEW f \in [S -> Nat], NEW s \in Seq(S), NEW t \in Seq(S),
           Distinct(s), Distinct(t), RangeOf(s) = RangeOf(t)
    PROVE  SumOf(f, s) = SumOf(f, t)
<1> DEFINE Same(u, v) == Distinct(u) /\ Distinct(v) /\ RangeOf(u) = RangeOf(v)
           I == {k \in Nat : \A u, v \in Seq(S) :
                                Len(u) = k /\ Same(u, v) => SumOf(f, u) = SumOf(f, v)}
<1>1. 0 \in I
  <2> SUFFICES ASSUME NEW u \in Seq(S), NEW v \in Seq(S), Len(u) = 0, Same(u, v)
               PROVE  SumOf(f, u) = SumOf(f, v)
    BY Zenon
  <2>1. u = <<>> /\ RangeOf(u) = {}
    BY DEF RangeOf
  <2>2. v = <<>>
    <3>0. RangeOf(v) = {}
      BY <2>1
    <3> HIDE DEF I, Same
    <3>1. \A i \in 1..Len(v) : FALSE
      <4>1. DOMAIN v = 1..Len(v)
        OBVIOUS
      <4>2. \A i \in DOMAIN v : v[i] \in RangeOf(v)
        BY Zenon DEF RangeOf
      <4> QED BY <3>0, <4>1, <4>2
    <3>2. Len(v) \in Nat /\ (Len(v) # 0 => 1 \in 1..Len(v))
      OBVIOUS
    <3>3. Len(v) = 0
      BY <3>1, <3>2
    <3> QED BY <3>3
  <2> QED BY <2>1, <2>2
<1>2. ASSUME NEW k \in I PROVE k + 1 \in I
  <2>0. k + 1 \in Nat
    OBVIOUS
  <2> SUFFICES ASSUME NEW u \in Seq(S), NEW v \in Seq(S), Len(u) = k + 1, Same(u, v)
               PROVE  SumOf(f, u) = SumOf(f, v)
    BY <2>0, Zenon
  <2> DEFINE w == SubSeq(u, 1, k)
             x == u[k + 1]
  <2>a. /\ k \in Nat /\ Distinct(u) /\ Distinct(v) /\ RangeOf(u) = RangeOf(v)
        /\ \A y, z \in Seq(S) : /\ Len(y) = k /\ Distinct(y) /\ Distinct(z)
                                /\ RangeOf(y) = RangeOf(z)
                                => SumOf(f, y) = SumOf(f, z)
    OBVIOUS
  <2> HIDE DEF I, Same
  <2>1. w \in Seq(S) /\ Len(w) = k /\ x \in S /\ u = Append(w, x)
    BY <2>a, FrontAppend
  <2> HIDE DEF w, x
  <2>2. RangeOf(u) = RangeOf(w) \cup {x} /\ SumOf(f, u) = SumOf(f, w) + f[x]
    <3>1. RangeOf(u) = RangeOf(w) \cup {x}
      BY <2>1, AppendRange
    <3>2. SumOf(f, u) = SumOf(f, w) + f[x]
      BY <2>1, SumOfAppend
    <3> QED BY <3>1, <3>2
  <2>3. u = w \o <<x>> /\ <<x>> \in Seq(S) /\ RangeOf(<<x>>) = {x}
    <3>1. u = w \o <<x>> /\ <<x>> \in Seq(S)
      BY <2>1
    <3>2. RangeOf(<<x>>) = {x}
      BY DEF RangeOf
    <3> QED BY <3>1, <3>2
  <2>4. Distinct(w) /\ x \notin RangeOf(w)
    <3>1. Distinct(w \o <<x>>)
      BY <2>a, <2>3
    <3>2. Distinct(w) /\ RangeOf(w) \cap RangeOf(<<x>>) = {}
      BY <2>1, <2>3, <3>1, ConcatSplits
    <3> QED BY <2>3, <3>2
  <2>5. PICK i \in 1..Len(v) : v[i] = x
    <3>1. x \in RangeOf(v)
      BY <2>a, <2>2
    <3> QED BY <3>1 DEF RangeOf
  <2>6. PICK a \in Seq(S), b \in Seq(S) : v = Append(a, x) \o b
    <3>1. \E a, b \in Seq(S) : v = Append(a, v[i]) \o b /\ v[i] \in S
      BY SplitAt
    <3> QED BY <2>5, <3>1
  <2>7. /\ Append(a, x) \in Seq(S) /\ RangeOf(Append(a, x)) = RangeOf(a) \cup {x}
        /\ SumOf(f, Append(a, x)) = SumOf(f, a) + f[x] /\ Append(a, x) = a \o <<x>>
    <3>1. Append(a, x) \in Seq(S) /\ RangeOf(Append(a, x)) = RangeOf(a) \cup {x}
      BY <2>1, AppendRange
    <3>2. SumOf(f, Append(a, x)) = SumOf(f, a) + f[x]
      BY <2>1, SumOfAppend
    <3>3. Append(a, x) = a \o <<x>>
      BY <2>1
    <3> QED BY <3>1, <3>2, <3>3
  <2> DEFINE c == Append(a, x)
  <2> HIDE DEF c
  <2>8. Distinct(c) /\ Distinct(b) /\ RangeOf(c) \cap RangeOf(b) = {} /\ c \in Seq(S)
    <3>1. Distinct(c \o b) /\ c \in Seq(S)
      BY <2>a, <2>6, <2>7 DEF c
    <3> QED BY <3>1, ConcatSplits
  <2>9. Distinct(a) /\ x \notin RangeOf(a)
    <3>1. Distinct(a \o <<x>>)
      BY <2>7, <2>8 DEF c
    <3>2. Distinct(a) /\ RangeOf(a) \cap RangeOf(<<x>>) = {}
      BY <2>3, <3>1, ConcatSplits
    <3> QED BY <2>3, <3>2
  <2>10. /\ a \o b \in Seq(S) /\ RangeOf(a \o b) = RangeOf(a) \cup RangeOf(b)
         /\ SumOf(f, a \o b) = SumOf(f, a) + SumOf(f, b)
    <3>1. a \o b \in Seq(S) /\ RangeOf(a \o b) = RangeOf(a) \cup RangeOf(b)
      BY ConcatRange
    <3>2. SumOf(f, a \o b) = SumOf(f, a) + SumOf(f, b)
      BY SumOfConcat
    <3> QED BY <3>1, <3>2
  <2>11. /\ RangeOf(v) = RangeOf(a) \cup {x} \cup RangeOf(b)
         /\ SumOf(f, v) = SumOf(f, a) + f[x] + SumOf(f, b)
    <3>1. v = c \o b
      BY <2>6 DEF c
    <3>2. RangeOf(v) = RangeOf(c) \cup RangeOf(b)
      BY <2>8, <3>1, ConcatRange
    <3>3. SumOf(f, v) = SumOf(f, c) + SumOf(f, b)
      <4>1. c \in Seq(S) /\ b \in Seq(S)
        BY <2>8
      <4>2. SumOf(f, c \o b) = SumOf(f, c) + SumOf(f, b)
        BY <4>1, SumOfConcat
      <4> QED BY <3>1, <4>2
    <3> QED BY <2>7, <3>2, <3>3 DEF c
  <2>12. Distinct(a \o b)
    <3>1. RangeOf(a) \cap RangeOf(b) = {}
      BY <2>7, <2>8 DEF c
    <3> QED BY <2>8, <2>9, <3>1, ConcatDistinct
  <2>13. RangeOf(w) = RangeOf(a \o b)
    <3>1. x \notin RangeOf(b)
      BY <2>7, <2>8 DEF c
    <3> QED BY <2>a, <2>2, <2>4, <2>9, <2>10, <2>11, <3>1
  <2>14. SumOf(f, w) = SumOf(f, a \o b)
    BY <2>a, <2>1, <2>4, <2>10, <2>12, <2>13
  <2>15. SumOf(f, a) \in Nat /\ SumOf(f, b) \in Nat /\ f[x] \in Nat
    BY <2>1, SumOfType
  <2> QED BY <2>2, <2>10, <2>11, <2>14, <2>15
<1>3. I = Nat
  <2> HIDE DEF I
  <2>1. I \in SUBSET Nat
    BY DEF I
  <2> QED BY <1>1, <1>2, <2>1, SetInduction
<1> QED BY <1>3

\* A finite set has an ordering.
LEMMA OrderingExists ==
    ASSUME NEW S, IsFiniteSet(S)
    PROVE  \E s \in Orderings(S) : TRUE
<1> DEFINE n == Cardinality(S)
<1>1. \E g : ExistsBijection(1..n, S) /\ g \in Bijection(1..n, S)
  BY FS_NatBijection, FS_CountingElements DEF ExistsBijection
<1>2. PICK g : g \in Bijection(1..n, S)
  BY <1>1
<1>3. g \in Orderings(S)
  BY <1>2 DEF Orderings, Bijection, Surjection, Injection
<1> QED BY <1>3
-----------------------------------------------------------------------------
(***************************************************************************)
(* Moving members between queues that are read one after the other.        *)
(***************************************************************************)
LEMMA ConcatAssoc ==
    ASSUME NEW S, NEW s \in Seq(S), NEW t \in Seq(S), NEW u \in Seq(S)
    PROVE  (s \o t) \o u = s \o (t \o u)
OBVIOUS

\* The front of one queue goes to the end of the queue before it.
LEMMA MoveAcross ==
    ASSUME NEW S, NEW s \in Seq(S), NEW t \in Seq(S), t # <<>>
    PROVE  Append(s, Head(t)) \o Tail(t) = s \o t
OBVIOUS

LEMMA AppendConcat ==
    ASSUME NEW S, NEW s \in Seq(S), NEW x \in S
    PROVE  <<x>> \in Seq(S) /\ Append(s, x) = s \o <<x>>
OBVIOUS

LEMMA HeadTailConcat ==
    ASSUME NEW S, NEW s \in Seq(S), NEW t \in Seq(S), s # <<>>
    PROVE  s \o t # <<>> /\ Head(s \o t) = Head(s) /\ Tail(s \o t) = Tail(s) \o t
OBVIOUS

LEMMA EmptyConcat ==
    ASSUME NEW S, NEW s \in Seq(S)
    PROVE  <<>> \o s = s
OBVIOUS

LEMMA EmptyRange ==
    ASSUME NEW S, NEW s \in Seq(S), RangeOf(s) = {}
    PROVE  s = <<>>
<1> SUFFICES ASSUME s # <<>> PROVE FALSE
  OBVIOUS
<1>1. Head(s) \in RangeOf(s)
  BY HeadTailRange
<1> QED BY <1>1

\* A queue from which nothing is removed is the same.
LEMMA KeptAll ==
    ASSUME NEW S, NEW q \in Seq(S)
    PROVE  KeptAt(q, DOMAIN q) = q
<1> DEFINE n == Len(q)
           K == 1..n
<1>1. n \in Nat /\ DOMAIN q = K
  OBVIOUS
<1>2. K \in SUBSET Nat /\ IsFiniteSet(K) /\ Cardinality(K) = n
  BY <1>1, FS_Interval
<1>3. ASSUME NEW k \in 1..n PROVE NthOf(K, k) = k
  <2>1. \E i \in K : Cardinality({j \in K : j <= i}) = k
    <3> HIDE DEF K
    <3> QED BY <1>2, <1>3, RankTaken
  <2>2. NthOf(K, k) \in K /\ Cardinality({j \in K : j <= NthOf(K, k)}) = k
    BY <2>1 DEF NthOf
  <2> DEFINE x == NthOf(K, k)
  <2>3. x \in 1..n /\ Cardinality({j \in 1..n : j <= x}) = k
    BY <2>2
  <2> HIDE DEF x
  <2>4. {j \in 1..n : j <= x} = 1..x
    BY <1>1, <2>3
  <2>5. Cardinality(1..x) = x
    BY <1>1, <2>3, FS_Interval
  <2> QED BY <2>3, <2>4, <2>5 DEF x
<1>4. KeptAt(q, K) = [k \in 1..n |-> q[k]]
  <2> HIDE DEF K
  <2> QED BY <1>2, <1>3 DEF KeptAt
<1> QED BY <1>1, <1>4

\* A queue without repetitions is as long as its range is large.
LEMMA DistinctCardinality ==
    ASSUME NEW S, NEW s \in Seq(S), Distinct(s)
    PROVE  IsFiniteSet(RangeOf(s)) /\ Cardinality(RangeOf(s)) = Len(s)
<1> DEFINE n == Len(s)
           R == RangeOf(s)
<1>1. n \in Nat /\ DOMAIN s = 1..n /\ s \in [1..n -> R]
  BY DEF RangeOf
<1>2. IsFiniteSet(1..n) /\ Cardinality(1..n) = n
  BY <1>1, FS_Interval
<1>3. s \in Bijection(1..n, R)
  BY <1>1 DEF Bijection, Injection, IsInjective, Surjection, Distinct, RangeOf
<1> HIDE DEF R
<1>4. IsFiniteSet(R) /\ Cardinality(R) = Cardinality(1..n)
  BY <1>2, <1>3, FS_Bijection DEF ExistsBijection
<1> QED BY <1>2, <1>4 DEF R
=============================================================================
