------------------------ MODULE TransactionQueueProofs ------------------------
(***************************************************************************)
(* Theorems about the transaction queue, for any transactions, accounts,   *)
(* prices and limits and any number of verifier threads; and, at the end,  *)
(* about the queue together with the client thread that executes it, for   *)
(* any chain and gas limit.                                                *)
(***************************************************************************)
EXTENDS TransactionSync, QueueOpsProofs

-----------------------------------------------------------------------------
(***************************************************************************)
(* The operators on m_current.                                             *)
(***************************************************************************)
\* A member put into a sequence at any place.
LEMMA InsertAtProperties ==
    ASSUME NEW S, NEW q \in Seq(S), NEW t \in S, NEW p \in 0..Len(q)
    PROVE  /\ InsertAt(q, p, t) \in Seq(S)
           /\ RangeOf(InsertAt(q, p, t)) = RangeOf(q) \cup {t}
           /\ Distinct(q) /\ t \notin RangeOf(q) => Distinct(InsertAt(q, p, t))
<1> DEFINE a == SubSeq(q, 1, p)
           b == SubSeq(q, p + 1, Len(q))
           o == <<t>>
<1>1. a \in Seq(S) /\ b \in Seq(S) /\ RangeOf(q) = RangeOf(a) \cup RangeOf(b)
  BY CutProperties
<1>2. Distinct(q) => Distinct(a) /\ Distinct(b) /\ RangeOf(a) \cap RangeOf(b) = {}
  BY CutDistinct
<1>3. o \in Seq(S) /\ RangeOf(o) = {t} /\ Distinct(o)
  BY DEF RangeOf, Distinct
<1> HIDE DEF a, b, o
<1>4. /\ a \o o \in Seq(S) /\ RangeOf(a \o o) = RangeOf(a) \cup {t}
      /\ Distinct(a) /\ t \notin RangeOf(a) => Distinct(a \o o)
  BY <1>1, <1>3, ConcatRange, ConcatDistinct
<1> DEFINE c == a \o o
<1> HIDE DEF c
<1>5. c \in Seq(S) /\ RangeOf(c) = RangeOf(a) \cup {t}
  BY <1>4 DEF c
<1>6. c \o b \in Seq(S) /\ RangeOf(c \o b) = RangeOf(c) \cup RangeOf(b)
  BY <1>1, <1>5, ConcatRange
<1>7. ASSUME Distinct(q), t \notin RangeOf(q)
      PROVE  Distinct(c \o b)
  <2>1. Distinct(c)
    BY <1>1, <1>2, <1>4, <1>7 DEF c
  <2>2. RangeOf(c) \cap RangeOf(b) = {}
    BY <1>1, <1>2, <1>5, <1>7
  <2> QED BY <1>1, <1>2, <1>5, <1>7, <2>1, <2>2, ConcatDistinct
<1>8. InsertAt(q, p, t) = c \o b
  BY DEF InsertAt, a, b, c, o
<1> QED BY <1>1, <1>5, <1>6, <1>7, <1>8

LEMMA InsertedProperties ==
    ASSUME NEW S, NEW q \in Seq(S), NEW t \in S, NEW s \in Inserted(q, t)
    PROVE  /\ s \in Seq(S)
           /\ RangeOf(s) = RangeOf(q) \cup {t}
           /\ Distinct(q) /\ t \notin RangeOf(q) => Distinct(s)
<1>1. PICK p \in 0..Len(q) : s = InsertAt(q, p, t)
  BY DEF Inserted, InsertPlaces
<1> QED BY <1>1, InsertAtProperties

\* The recursive definition of InsertResults defines a function.
LEMMA InsertResultsDef ==
    ASSUME NEW S, NEW q, NEW r \in Seq(S)
    PROVE  /\ InsertResults(q, r)[0] = {q}
           /\ \A i \in 1..Len(r) :
                 InsertResults(q, r)[i] = EachInserted(InsertResults(q, r)[i - 1], r[i])
<1> DEFINE Step(i, X) == IF i = 0 THEN {q} ELSE EachInserted(X, r[i])
           Upto(k, g) == g = [i \in 0..k |-> Step(i, g[i - 1])]
           I == {k \in Nat : k <= Len(r) => \E g : Upto(k, g)}
<1>1. 0 \in I
  <2> DEFINE g == [i \in 0..0 |-> {q}]
  <2>1. \A i \in 0..0 : i = 0
    OBVIOUS
  <2>2. Upto(0, g)
    BY <2>1
  <2> QED BY <2>2
<1>2. ASSUME NEW k \in I PROVE k + 1 \in I
  <2>1. k \in Nat /\ Len(r) \in Nat
    OBVIOUS
  <2>2. SUFFICES ASSUME k + 1 <= Len(r) PROVE \E h : Upto(k + 1, h)
    <3> HIDE DEF Upto
    <3> QED BY <2>1
  <2>3. PICK g : Upto(k, g)
    <3> HIDE DEF Upto
    <3> QED BY <2>1, <2>2
  <2> DEFINE h == [i \in 0..(k + 1) |-> IF i <= k THEN g[i] ELSE Step(k + 1, g[k])]
  <2>4. ASSUME NEW i \in 0..(k + 1)
        PROVE  h[i] = Step(i, h[i - 1])
    <3>1. CASE i = k + 1
      <4>1. ~(i <= k) /\ i - 1 = k /\ k \in 0..(k + 1) /\ k <= k
        BY <2>1, <3>1
      <4> HIDE DEF Step
      <4>2. h[i] = Step(i, g[k]) /\ h[i - 1] = g[k]
        BY <3>1, <4>1
      <4> QED BY <4>1, <4>2
    <3>2. CASE i # k + 1
      <4>1. i \in 0..k /\ i <= k /\ (i # 0 => i - 1 \in 0..(k + 1) /\ i - 1 <= k)
        BY <2>1, <3>2
      <4>2. h[i] = g[i] /\ (i # 0 => h[i - 1] = g[i - 1])
        <5> HIDE DEF Step
        <5> QED BY <4>1
      <4>3. g[i] = Step(i, g[i - 1])
        <5> HIDE DEF Step
        <5> QED BY <2>3, <4>1
      <4>4. CASE i = 0
        BY <4>2, <4>3, <4>4
      <4>5. CASE i # 0
        BY <4>2, <4>3, <4>5
      <4> QED BY <4>4, <4>5
    <3> QED BY <3>1, <3>2
  <2>5. Upto(k + 1, h)
    <3>1. h = [i \in 0..(k + 1) |-> h[i]]
      OBVIOUS
    <3> HIDE DEF h, Step
    <3> QED BY <2>4, <3>1
  <2> QED BY <2>5
<1>3. I = Nat
  <2> HIDE DEF I
  <2>1. I \in SUBSET Nat
    BY DEF I
  <2> QED BY <1>1, <1>2, <2>1, SetInduction
<1>4. PICK g : Upto(Len(r), g)
  <2>1. Len(r) \in I
    <3>1. Len(r) \in Nat
      OBVIOUS
    <3> HIDE DEF I
    <3> QED BY <1>3, <3>1
  <2> HIDE DEF Upto
  <2> QED BY <2>1
<1> DEFINE f == InsertResults(q, r)
<1>5. Upto(Len(r), f)
  BY <1>4 DEF InsertResults
<1> HIDE DEF f
<1>6. \A i \in 0..Len(r) : f[i] = Step(i, f[i - 1])
  <2> HIDE DEF Step
  <2> QED BY <1>5
<1>7. Len(r) \in Nat
  OBVIOUS
<1>8. f[0] = {q}
  BY <1>6, <1>7
<1>9. \A i \in 1..Len(r) : f[i] = EachInserted(f[i - 1], r[i])
  <2>1. \A i \in 1..Len(r) : i # 0 /\ i \in 0..Len(r)
    OBVIOUS
  <2> QED BY <1>6, <2>1
<1> QED BY <1>8, <1>9 DEF f

\* Emplacing the members of r one after the other adds just them.
LEMMA InsertedAllProperties ==
    ASSUME NEW S, NEW q \in Seq(S), NEW r \in Seq(S), NEW s \in InsertedAll(q, r)
    PROVE  /\ s \in Seq(S)
           /\ RangeOf(s) = RangeOf(q) \cup RangeOf(r)
           /\ Distinct(q) /\ Distinct(r) /\ RangeOf(q) \cap RangeOf(r) = {} => Distinct(s)
<1> DEFINE f == InsertResults(q, r)
           Fresh == Distinct(q) /\ Distinct(r) /\ RangeOf(q) \cap RangeOf(r) = {}
           First(k) == {r[j] : j \in 1..k}
           Good(k, x) == /\ x \in Seq(S)
                         /\ RangeOf(x) = RangeOf(q) \cup First(k)
                         /\ Fresh => Distinct(x)
           I == {k \in Nat : k <= Len(r) => \A x \in f[k] : Good(k, x)}
<1>1. f[0] = {q} /\ \A i \in 1..Len(r) : f[i] = EachInserted(f[i - 1], r[i])
  BY InsertResultsDef
<1> HIDE DEF f
<1>2. Len(r) \in Nat /\ DOMAIN r = 1..Len(r)
  OBVIOUS
<1>3. 0 \in I
  <2>1. f[0] = {q}
    BY <1>1, <1>2
  <2>2. First(0) = {}
    OBVIOUS
  <2>3. Good(0, q)
    BY <2>2
  <2> HIDE DEF Good
  <2> QED BY <2>1, <2>3
<1>4. ASSUME NEW k \in I PROVE k + 1 \in I
  <2>1. k \in Nat
    OBVIOUS
  <2>2. SUFFICES ASSUME k + 1 <= Len(r), NEW x \in f[k + 1] PROVE Good(k + 1, x)
    <3> HIDE DEF Good
    <3> QED BY <2>1
  <2>3. k + 1 \in 1..Len(r) /\ k + 1 # 0 /\ (k + 1) - 1 = k /\ k <= Len(r) /\ r[k + 1] \in S
    BY <1>2, <2>1, <2>2
  <2>4. f[k + 1] = EachInserted(f[k], r[k + 1])
    BY <1>1, <2>3
  <2>5. PICK y \in f[k] : x \in Inserted(y, r[k + 1])
    BY <2>2, <2>4 DEF EachInserted
  <2>6. Good(k, y)
    <3> HIDE DEF Good
    <3> QED BY <2>3
  <2>7. /\ x \in Seq(S) /\ RangeOf(x) = RangeOf(y) \cup {r[k + 1]}
        /\ Distinct(y) /\ r[k + 1] \notin RangeOf(y) => Distinct(x)
    <3>1. y \in Seq(S)
      BY <2>6
    <3> QED BY <2>3, <2>5, <3>1, InsertedProperties
  <2>8. First(k + 1) = First(k) \cup {r[k + 1]}
    <3>1. 1..(k + 1) = 1..k \cup {k + 1}
      BY <2>1
    <3> QED BY <3>1
  <2>9. ASSUME Fresh PROVE r[k + 1] \notin RangeOf(y)
    <3>1. r[k + 1] \notin RangeOf(q)
      BY <1>2, <2>3, <2>9 DEF RangeOf
    <3>2. ASSUME NEW j \in 1..k PROVE r[j] # r[k + 1]
      <4>1. j \in 1..Len(r) /\ j # k + 1
        BY <1>2, <2>1, <2>3
      <4> QED BY <1>2, <2>3, <2>9, <4>1 DEF Distinct
    <3> QED BY <2>6, <3>1, <3>2
  <2> QED BY <2>6, <2>7, <2>8, <2>9
<1>5. I = Nat
  <2> HIDE DEF I
  <2>1. I \in SUBSET Nat
    BY DEF I
  <2> QED BY <1>3, <1>4, <2>1, SetInduction
<1>6. Good(Len(r), s)
  <2>1. s \in f[Len(r)]
    BY DEF InsertedAll, f
  <2>2. Len(r) \in I /\ Len(r) <= Len(r)
    <3> HIDE DEF I
    <3> QED BY <1>2, <1>5
  <2> HIDE DEF Good
  <2> QED BY <2>1, <2>2
<1>7. First(Len(r)) = RangeOf(r)
  BY <1>2 DEF RangeOf
<1> QED BY <1>6, <1>7

\* Erasing the members of X.
LEMMA WithoutProperties ==
    ASSUME NEW S, NEW q \in Seq(S), NEW X
    PROVE  /\ Without(q, X) \in Seq(S)
           /\ RangeOf(Without(q, X)) = RangeOf(q) \ X
           /\ Distinct(q) => Distinct(Without(q, X))
<1> DEFINE K == {i \in DOMAIN q : q[i] \notin X}
<1>1. K \in SUBSET DOMAIN q
  OBVIOUS
<1>2. {q[i] : i \in K} = RangeOf(q) \ X
  BY DEF RangeOf
<1> HIDE DEF K
<1>3. /\ KeptAt(q, K) \in Seq(S) /\ RangeOf(KeptAt(q, K)) = {q[i] : i \in K}
      /\ Distinct(q) => Distinct(KeptAt(q, K))
  BY <1>1, KeptAtProperties, KeptAtDistinct
<1> QED BY <1>2, <1>3 DEF Without, K

\* A sequence without repetitions is as long as its members are many.
LEMMA DistinctLength ==
    ASSUME NEW S, NEW q \in Seq(S), Distinct(q)
    PROVE  IsFiniteSet(RangeOf(q)) /\ Cardinality(RangeOf(q)) = Len(q)
<1> DEFINE n == Len(q)
<1>1. n \in Nat /\ DOMAIN q = 1..n
  OBVIOUS
<1> HIDE DEF n
<1>2. IsFiniteSet(1..n) /\ Cardinality(1..n) = n
  BY <1>1, FS_Interval
<1>3. q \in [1..n -> RangeOf(q)]
  BY <1>1 DEF RangeOf
<1>4. q \in Surjection(1..n, RangeOf(q))
  BY <1>1, <1>3 DEF Surjection, RangeOf
<1>5. q \in Injection(1..n, RangeOf(q))
  BY <1>1, <1>3 DEF Injection, IsInjective, Distinct
<1> QED BY <1>2, <1>4, <1>5, FS_Surjection DEF n

\* The lowest priorities beyond m_limit are cut off.
LEMMA TrimProperties ==
    ASSUME NEW S, NEW q \in Seq(S), Distinct(q)
    PROVE  /\ TrimCurrent(q) \in Seq(S) /\ Distinct(TrimCurrent(q))
           /\ RangeOf(TrimCurrent(q)) \subseteq RangeOf(q)
           /\ Len(TrimCurrent(q)) <= Limit
<1> DEFINE n == IF Len(q) > Limit THEN Limit ELSE Len(q)
<1>1. n \in 0..Len(q) /\ n <= Limit
  BY LimitAssumption
<1> HIDE DEF n
<1>2. /\ SubSeq(q, 1, n) \in Seq(S) /\ Distinct(SubSeq(q, 1, n)) /\ Len(SubSeq(q, 1, n)) = n
      /\ RangeOf(SubSeq(q, 1, n)) \subseteq RangeOf(q)
  BY <1>1, CutProperties, CutDistinct
<1> QED BY <1>1, <1>2 DEF TrimCurrent, n

-----------------------------------------------------------------------------
(***************************************************************************)
(* makeCurrent_WITH_LOCK.                                                  *)
(***************************************************************************)
\* Sets of transactions are finite.
LEMMA TransactionSets ==
    ASSUME NEW F \in SUBSET Transactions
    PROVE  IsFiniteSet(F) /\ Cardinality(F) \in Nat
BY TransactionAssumption, FS_Subset, FS_CardinalityType

\* The counter follows what leaves m_future.
LEMMA LeaveCounts ==
    ASSUME NEW F \in SUBSET Transactions, NEW R \in SUBSET F
    PROVE  Leave(Cardinality(F), R) = Cardinality(F \ R)
<1>1. IsFiniteSet(F) /\ F \cap R = R
  BY TransactionSets
<1>2. Cardinality(F \ R) = Cardinality(F) - Cardinality(F \cap R)
  BY <1>1, FS_Difference
<1>3. Cardinality(F \cap R) = Cardinality(R)
  BY <1>1, Zenon
<1> QED BY <1>2, <1>3 DEF Leave

\* What makeCurrent_WITH_LOCK makes of a queue without repetitions and a counted
\* m_future: just the followers move, the rest is evicted down to m_futureLimit,
\* and the counter still counts.
LEMMA MakeCurrentProperties ==
    ASSUME NEW q \in Seq(Transactions), Distinct(q), NEW F \in SUBSET Transactions,
           RangeOf(q) \cap F = {}, NEW t, NEW made \in MakeCurrent(q, F, Cardinality(F), t)
    PROVE  /\ made.current \in Seq(Transactions) /\ Distinct(made.current)
           /\ RangeOf(made.current) = RangeOf(q) \cup Followers(F, t)
           /\ made.future \in SUBSET (F \ Followers(F, t))
           /\ made.size = Cardinality(made.future) /\ made.size <= FutureLimit
<1> DEFINE R == Followers(F, t)
           G == F \ R
           n == Cardinality(G)
<1>1. R \in SUBSET F /\ G \in SUBSET Transactions
  BY DEF Followers
<1>2. Leave(Cardinality(F), R) = n
  BY <1>1, LeaveCounts
<1> HIDE DEF R, G, n
<1>3. PICK s \in MoveAll(q, R), E \in Evictions(G, n) : made = Evicted(s, G, n, E)
  <2>1. \E s \in MoveAll(q, R), E \in Evictions(F \ R, Leave(Cardinality(F), R)) :
           made = Evicted(s, F \ R, Leave(Cardinality(F), R), E)
    BY DEF MakeCurrent, R
  <2> QED BY <1>2, <2>1, Zenon DEF G
<1>4. PICK r \in ByNonce(R) : s \in InsertedAll(q, r)
  BY <1>3 DEF MoveAll
<1>5. IsFiniteSet(R) /\ r \in Orderings(R)
  BY <1>1, <1>4, TransactionSets DEF ByNonce
<1>6. r \in Seq(R) /\ RangeOf(r) = R /\ Distinct(r)
  BY <1>5, OrderingsProperties, OrderingDistinct
<1>7. r \in Seq(Transactions)
  BY <1>1, <1>6
<1>8. RangeOf(q) \cap RangeOf(r) = {}
  BY <1>1, <1>6
<1>9. s \in Seq(Transactions) /\ RangeOf(s) = RangeOf(q) \cup R /\ Distinct(s)
  BY <1>4, <1>6, <1>7, <1>8, InsertedAllProperties
<1>10. E \in SUBSET G /\ Cardinality(E) = Excess(n)
  BY <1>3 DEF Evictions
<1>11. Leave(n, E) = Cardinality(G \ E)
  BY <1>1, <1>10, LeaveCounts DEF n
<1>12. Leave(n, E) <= FutureLimit
  <2>1. n \in Nat
    BY <1>1, TransactionSets DEF n
  <2> QED BY <1>10, <2>1, LimitAssumption DEF Leave, Excess
<1>13. /\ made.current = s /\ made.future = G \ E /\ made.size = Leave(n, E)
  BY <1>3 DEF Evicted
<1>14. made.future \in SUBSET (F \ R)
  BY <1>13 DEF G
<1> QED BY <1>9, <1>11, <1>12, <1>13, <1>14 DEF R

\* Nothing in m_future follows t or one of its followers.
LEMMA FollowersComplete ==
    ASSUME NEW F \in SUBSET Transactions, NEW t \in Transactions,
           NEW x \in Followers(F, t) \cup {t}, NEW f \in OnlyNext(F, x)
    PROVE  f \in Followers(F, t)
<1>1. /\ x \in Transactions /\ f \in F /\ f \in Transactions
      /\ Account[f] = Account[x] /\ Nonce[f] = Nonce[x] + 1
  BY DEF OnlyNext, Followers
<1>2. Nonce[t] \in Nat /\ Nonce[x] \in Nat /\ Nonce[f] \in Nat
  BY <1>1, TransactionAssumption
<1>3. Account[x] = Account[t] /\ Nonce[x] >= Nonce[t]
  BY <1>2 DEF Followers
<1>4. Account[f] = Account[t] /\ Nonce[f] > Nonce[t]
  BY <1>1, <1>2, <1>3
<1>5. ASSUME NEW n \in (Nonce[t] + 1)..Nonce[f]
      PROVE  \E g \in F : Account[g] = Account[t] /\ Nonce[g] = n
  <2>1. CASE n = Nonce[f]
    BY <1>1, <1>4, <2>1
  <2>2. CASE n # Nonce[f]
    <3>1. n \in (Nonce[t] + 1)..Nonce[x]
      BY <1>1, <1>2, <2>2
    <3>2. x \in Followers(F, t)
      <4>1. x # t
        BY <1>2, <3>1
      <4> QED BY <4>1
    <3> QED BY <3>1, <3>2 DEF Followers
  <2> QED BY <2>1, <2>2
<1> QED BY <1>1, <1>4, <1>5 DEF Followers

-----------------------------------------------------------------------------
(***************************************************************************)
(* The invariant is inductive as it stands: its five parts need each other.*)
(***************************************************************************)
TxInv == TxTypeOK /\ OnePerNonce /\ FutureCounted /\ HeldKnown /\ HeldBounded

\* The two limits bound the number of transactions held.
LEMMA HeldCount ==
    ASSUME NEW q \in Seq(Transactions), Distinct(q), NEW F \in SUBSET Transactions,
           RangeOf(q) \cap F = {}
    PROVE  Len(q) + Cardinality(F) = Cardinality(RangeOf(q) \cup F)
<1>1. IsFiniteSet(RangeOf(q)) /\ Cardinality(RangeOf(q)) = Len(q)
  BY DistinctLength
<1>2. IsFiniteSet(F) /\ Cardinality(F) \in Nat
  BY TransactionSets
<1>3. Cardinality(RangeOf(q) \cup F)
         = Cardinality(RangeOf(q)) + Cardinality(F) - Cardinality(RangeOf(q) \cap F)
  BY <1>1, <1>2, FS_Union
<1>4. Cardinality(RangeOf(q) \cap F) = 0
  BY FS_EmptySet
<1> QED BY <1>1, <1>2, <1>3, <1>4

LEMMA HeldTypes ==
    ASSUME TxTypeOK
    PROVE  /\ Current \in SUBSET Transactions /\ m_future \in SUBSET Transactions
           /\ Held \in SUBSET Transactions
BY DEF TxTypeOK, Current, Held, RangeOf

\* What the queue becomes by keeping some of what it holds, in either place.
Shrinks ==
    /\ m_current' \in Seq(Transactions) /\ Distinct(m_current')
    /\ m_future' \in SUBSET Transactions /\ RangeOf(m_current') \cap m_future' = {}
    /\ RangeOf(m_current') \cup m_future' \subseteq Held

LEMMA ShrinksKeeps ==
    ASSUME TxInv, Shrinks
    PROVE  OnePerNonce' /\ HeldBounded'
<1> DEFINE H == RangeOf(m_current') \cup m_future'
<1>1. OnePerNonce'
  <2>1. \A s, t \in H : SameSlot(s, t) => s = t
    BY DEF TxInv, OnePerNonce, Shrinks
  <2> QED BY <2>1 DEF Shrinks, OnePerNonce, Current, Held, SameSlot
<1>2. HeldBounded'
  <2>1. IsFiniteSet(Held) /\ Cardinality(Held) \in Nat
    BY HeldTypes, TransactionSets DEF TxInv
  <2>2. H \in SUBSET Held
    BY DEF Shrinks
  <2>3. Cardinality(H) <= Cardinality(Held) /\ Cardinality(H) \in Nat
    <3> HIDE DEF H
    <3> QED BY <2>1, <2>2, FS_Subset, FS_CardinalityType
  <2>4. Len(m_current') + Cardinality(m_future') = Cardinality(H)
    BY HeldCount DEF Shrinks
  <2>5. Len(m_current) + Cardinality(m_future) = Cardinality(Held)
    <3>1. m_current \in Seq(Transactions) /\ m_future \in SUBSET Transactions
      BY DEF TxInv, TxTypeOK
    <3>2. Distinct(m_current) /\ RangeOf(m_current) \cap m_future = {}
      BY DEF TxInv, OnePerNonce, Current
    <3> QED BY <3>1, <3>2, HeldCount DEF Held, Current
  <2> HIDE DEF H
  <2> QED BY <2>1, <2>3, <2>4, <2>5, LimitAssumption DEF TxInv, HeldBounded
<1> QED BY <1>1, <1>2

\* import() past its checks: what it adds, what it replaces, what it forgets.
LEMMA ImportStep ==
    ASSUME TxInv, NEW t \in Transactions, NEW retry, Import(t, retry)
    PROVE  LET F == m_future \ PriorFuture(t) IN
           /\ m_current' \in Seq(Transactions) /\ Distinct(m_current')
           /\ m_future' \in SUBSET (F \ Followers(F, t))
           /\ RangeOf(m_current') \cap m_future' = {}
           /\ RangeOf(m_current') \subseteq
                 (Current \ PriorCurrent(t)) \cup {t} \cup Followers(F, t)
           /\ RangeOf(m_current') \cup m_future' \subseteq m_known'
           /\ m_known' \in SUBSET Transactions
           /\ m_futureSize' = Cardinality(m_future') /\ m_futureSize' <= FutureLimit
           /\ Len(m_current') <= Limit
           /\ m_syncTransactionQueue' \in BOOLEAN /\ m_needStateReset' \in BOOLEAN
<1> DEFINE F == m_future \ PriorFuture(t)
           p == Without(m_current, PriorCurrent(t))
<1>1. /\ m_current \in Seq(Transactions) /\ m_future \in SUBSET Transactions
      /\ m_known \in SUBSET Transactions /\ Held \subseteq m_known
      /\ m_futureSize = Cardinality(m_future)
      /\ Distinct(m_current) /\ Current \cap m_future = {}
  BY DEF TxInv, TxTypeOK, HeldKnown, FutureCounted, OnePerNonce
<1>2. t \notin m_known
  BY DEF Import, CheckWithLock
<1>3. p \in Seq(Transactions) /\ RangeOf(p) = Current \ PriorCurrent(t) /\ Distinct(p)
  BY <1>1, WithoutProperties DEF Current
<1>4. Leave(m_futureSize, PriorFuture(t)) = Cardinality(F)
  <2>1. PriorFuture(t) \in SUBSET m_future
    BY DEF PriorFuture
  <2> QED BY <1>1, <2>1, LeaveCounts
<1>5. F \in SUBSET Transactions
  BY <1>1
<1> HIDE DEF F, p
<1>6. PICK q \in Inserted(p, t) :
      \E made \in MakeCurrent(q, F, Cardinality(F), t) :
          /\ m_current' = TrimCurrent(made.current)
          /\ m_future' = made.future
          /\ m_futureSize' = made.size
          /\ m_known' = ((m_known \ PriorCurrent(t)) \cup {t})
                            \ (RangeOf(made.current) \ RangeOf(TrimCurrent(made.current)))
  BY <1>4 DEF Import, F, p
<1>7. PICK made \in MakeCurrent(q, F, Cardinality(F), t) :
          /\ m_current' = TrimCurrent(made.current)
          /\ m_future' = made.future
          /\ m_futureSize' = made.size
          /\ m_known' = ((m_known \ PriorCurrent(t)) \cup {t})
                            \ (RangeOf(made.current) \ RangeOf(TrimCurrent(made.current)))
  BY <1>6
<1>8. t \notin RangeOf(p) /\ t \notin F /\ RangeOf(p) \cap F = {}
  BY <1>1, <1>2, <1>3 DEF Held, F
<1>9. q \in Seq(Transactions) /\ RangeOf(q) = RangeOf(p) \cup {t} /\ Distinct(q)
  BY <1>3, <1>8, InsertedProperties
<1>10. /\ made.current \in Seq(Transactions) /\ Distinct(made.current)
       /\ RangeOf(made.current) = RangeOf(q) \cup Followers(F, t)
       /\ made.future \in SUBSET (F \ Followers(F, t))
       /\ made.size = Cardinality(made.future) /\ made.size <= FutureLimit
  <2>1. RangeOf(q) \cap F = {}
    BY <1>8, <1>9
  <2> QED BY <1>5, <1>7, <1>9, <2>1, MakeCurrentProperties
<1>11. /\ m_current' \in Seq(Transactions) /\ Distinct(m_current')
       /\ RangeOf(m_current') \subseteq RangeOf(made.current)
       /\ Len(m_current') <= Limit
  BY <1>7, <1>10, TrimProperties
<1>12. Followers(F, t) \subseteq F
  BY DEF Followers
<1>13. RangeOf(made.current) \cap made.future = {}
  BY <1>8, <1>9, <1>10
<1>14. RangeOf(m_current') \cap m_future' = {}
  BY <1>7, <1>11, <1>13
<1>15. RangeOf(m_current') \subseteq (Current \ PriorCurrent(t)) \cup {t} \cup Followers(F, t)
  BY <1>3, <1>9, <1>10, <1>11
<1>16. m_known' \in SUBSET Transactions
  BY <1>1, <1>7
<1>17. RangeOf(m_current') \cup m_future' \subseteq m_known'
  <2>1. F \cap PriorCurrent(t) = {} /\ F \subseteq m_known /\ Current \subseteq m_known
    BY <1>1 DEF PriorCurrent, F, Held
  <2>2. m_future' \subseteq F
    BY <1>7, <1>10
  <2>3. m_future' \cap RangeOf(made.current) = {}
    BY <1>7, <1>13
  <2>4. RangeOf(m_current') \cup m_future' \subseteq (m_known \ PriorCurrent(t)) \cup {t}
    BY <1>12, <1>15, <2>1, <2>2
  <2>5. RangeOf(TrimCurrent(made.current)) = RangeOf(m_current')
    BY <1>7
  <2> QED BY <1>7, <2>3, <2>4, <2>5
<1>18. m_syncTransactionQueue' \in BOOLEAN /\ m_needStateReset' \in BOOLEAN
  BY DEF Import
<1>19. m_future' \in SUBSET (F \ Followers(F, t))
  BY <1>7, <1>10
<1> QED BY <1>7, <1>10, <1>11, <1>14, <1>15, <1>16, <1>17, <1>18, <1>19 DEF F

\* An import leaves t alone with its account and nonce.
LEMMA ImportHeld ==
    ASSUME TxInv, NEW t \in Transactions, NEW retry, Import(t, retry)
    PROVE  \A s \in RangeOf(m_current') \cup m_future' : s = t \/ (s \in Held /\ ~ SameSlot(s, t))
<1> DEFINE F == m_future \ PriorFuture(t)
<1>1. /\ m_future' \subseteq F
      /\ RangeOf(m_current') \subseteq (Current \ PriorCurrent(t)) \cup {t} \cup Followers(F, t)
  <2> HIDE DEF F
  <2> QED BY ImportStep DEF F
<1>2. Followers(F, t) \subseteq F
  BY DEF Followers
<1>3. \A s \in F : s \in Held /\ ~ SameSlot(s, t)
  BY DEF PriorFuture, Held
<1>4. \A s \in Current \ PriorCurrent(t) : s \in Held /\ ~ SameSlot(s, t)
  BY DEF PriorCurrent, Held
<1> HIDE DEF F
<1> QED BY <1>1, <1>2, <1>3, <1>4

LEMMA ImportKeeps ==
    ASSUME TxInv, NEW t \in Transactions, NEW retry, Import(t, retry),
           m_unverified' \in Seq(Transactions),
           txWork' \in [TxVerifiers -> Transactions \cup {NoTx}]
    PROVE  TxInv'
<1> DEFINE F == m_future \ PriorFuture(t)
<1>1. /\ m_current' \in Seq(Transactions) /\ Distinct(m_current')
      /\ m_future' \in SUBSET F
      /\ RangeOf(m_current') \cap m_future' = {}
      /\ RangeOf(m_current') \cup m_future' \subseteq m_known'
      /\ m_known' \in SUBSET Transactions
      /\ m_futureSize' = Cardinality(m_future') /\ m_futureSize' <= FutureLimit
      /\ Len(m_current') <= Limit
      /\ m_syncTransactionQueue' \in BOOLEAN /\ m_needStateReset' \in BOOLEAN
  <2> HIDE DEF F
  <2> QED BY ImportStep DEF F
<1>2. m_future' \in SUBSET Transactions
  BY <1>1 DEF TxInv, TxTypeOK
<1>3. m_futureSize' \in Nat
  BY <1>1, <1>2, TransactionSets
<1>4. UNCHANGED m_dropped
  BY DEF Import
<1>5. TxTypeOK'
  BY <1>1, <1>2, <1>3, <1>4 DEF TxInv, TxTypeOK
<1>6. OnePerNonce'
  <2>1. ASSUME NEW s \in RangeOf(m_current') \cup m_future',
               NEW u \in RangeOf(m_current') \cup m_future', SameSlot(s, u)
        PROVE  s = u
    BY <2>1, ImportHeld DEF TxInv, OnePerNonce, SameSlot
  <2> QED BY <1>1, <2>1 DEF OnePerNonce, Current, Held, SameSlot
<1>7. FutureCounted' /\ HeldKnown'
  BY <1>1 DEF FutureCounted, HeldKnown, Held, Current
<1>8. HeldBounded'
  <2>1. Len(m_current') \in Nat
    BY <1>1
  <2> QED BY <1>1, <1>3, <2>1, LimitAssumption DEF HeldBounded
<1> QED BY <1>5, <1>6, <1>7, <1>8 DEF TxInv

LEMMA RemoveProperties ==
    ASSUME NEW t, NEW q \in Seq(Transactions), RemoveCurrent(t, q)
    PROVE  /\ m_current' \in Seq(Transactions)
           /\ RangeOf(m_current') = RangeOf(q) \ {t}
           /\ Distinct(q) => Distinct(m_current')
           /\ m_known' \in SUBSET m_known
           /\ m_known \ {t} \subseteq m_known'
           /\ t \in m_known /\ t \notin RangeOf(q) => t \in m_known'
<1>1. m_current' = Without(q, {t})
  BY DEF RemoveCurrent
<1>2. m_known' = IF t \in RangeOf(q) THEN m_known \ {t} ELSE m_known
  BY DEF RemoveCurrent
<1> QED BY <1>1, <1>2, WithoutProperties

LEMMA DropStep ==
    ASSUME TxInv, NEW t \in Transactions, Drop(t)
    PROVE  TxInv' /\ Shrinks
<1>1. /\ m_current \in Seq(Transactions) /\ m_future \in SUBSET Transactions
      /\ m_known \in SUBSET Transactions /\ Held \subseteq m_known
      /\ Distinct(m_current) /\ Current \cap m_future = {}
  BY DEF TxInv, TxTypeOK, HeldKnown, OnePerNonce
<1>2. /\ m_current' \in Seq(Transactions) /\ RangeOf(m_current') = Current \ {t}
      /\ Distinct(m_current') /\ m_known' \in SUBSET m_known /\ m_known \ {t} \subseteq m_known'
      /\ t \in m_known /\ t \notin Current => t \in m_known'
  BY <1>1, RemoveProperties DEF Drop, Current
<1>3. UNCHANGED <<m_future, m_futureSize, txThreadVars, txFlagVars>>
  BY DEF Drop
<1>4. Shrinks
  BY <1>1, <1>2, <1>3 DEF Shrinks, Held
<1>5. TxTypeOK'
  <2>1. m_dropped' \subseteq Transactions
    BY DEF Drop, TxInv, TxTypeOK
  <2> QED BY <1>1, <1>2, <1>3, <2>1 DEF TxInv, TxTypeOK, txThreadVars, txFlagVars
<1>6. FutureCounted'
  BY <1>3 DEF TxInv, FutureCounted
<1>7. HeldKnown'
  BY <1>1, <1>2, <1>3 DEF HeldKnown, Held, Current
<1> QED BY <1>4, <1>5, <1>6, <1>7, ShrinksKeeps DEF TxInv

LEMMA DropGoodStep ==
    ASSUME TxInv, NEW t \in Transactions, DropGood(t)
    PROVE  /\ TxInv' /\ Shrinks
           /\ RangeOf(m_current') \subseteq Current \cup Followers(m_future, t)
           /\ m_future' \in SUBSET (m_future \ Followers(m_future, t))
<1>1. /\ m_current \in Seq(Transactions) /\ m_future \in SUBSET Transactions
      /\ m_known \in SUBSET Transactions /\ Held \subseteq m_known
      /\ m_futureSize = Cardinality(m_future)
      /\ Distinct(m_current) /\ RangeOf(m_current) \cap m_future = {}
  BY DEF TxInv, TxTypeOK, HeldKnown, FutureCounted, OnePerNonce, Current
<1>2. PICK made \in MakeCurrent(m_current, m_future, Cardinality(m_future), t) :
          /\ IF t \in m_known THEN RemoveCurrent(t, made.current)
                              ELSE m_current' = made.current /\ UNCHANGED m_known
          /\ m_future' = made.future
          /\ m_futureSize' = made.size
          /\ m_syncTransactionQueue' = (m_syncTransactionQueue \/ Followers(m_future, t) # {})
  BY <1>1 DEF DropGood
<1>3. /\ made.current \in Seq(Transactions) /\ Distinct(made.current)
      /\ RangeOf(made.current) = RangeOf(m_current) \cup Followers(m_future, t)
      /\ made.future \in SUBSET (m_future \ Followers(m_future, t))
      /\ made.size = Cardinality(made.future)
  BY <1>1, <1>2, MakeCurrentProperties
<1>4. Followers(m_future, t) \subseteq m_future
  BY DEF Followers
<1>5. /\ m_current' \in Seq(Transactions) /\ Distinct(m_current')
      /\ RangeOf(m_current') \subseteq RangeOf(made.current)
      /\ m_known' \in SUBSET m_known
      /\ m_known \ {t} \subseteq m_known'
      /\ t \in m_known /\ t \in RangeOf(made.current) => t \notin RangeOf(m_current')
      /\ t \in m_known /\ t \notin RangeOf(made.current) => t \in m_known'
  <2>1. CASE t \in m_known
    BY <1>2, <1>3, <2>1, RemoveProperties
  <2>2. CASE t \notin m_known
    BY <1>2, <1>3, <2>2
  <2> QED BY <2>1, <2>2
<1>6. m_future' \in SUBSET (m_future \ Followers(m_future, t))
  BY <1>2, <1>3
<1>7. RangeOf(m_current') \subseteq Current \cup Followers(m_future, t)
  BY <1>3, <1>5 DEF Current
<1>8. RangeOf(made.current) \cap m_future' = {}
  BY <1>1, <1>3, <1>6
<1>9. Shrinks
  BY <1>1, <1>4, <1>5, <1>6, <1>7, <1>8 DEF Shrinks, Held
<1>10. TxTypeOK' /\ FutureCounted'
  <2>1. m_futureSize' = Cardinality(m_future') /\ m_futureSize' \in Nat
    BY <1>2, <1>3, <1>9, TransactionSets DEF Shrinks
  <2>2. UNCHANGED <<m_dropped, txThreadVars, m_needStateReset>>
    BY DEF DropGood
  <2>3. m_syncTransactionQueue' \in BOOLEAN
    BY <1>2
  <2>4. m_known' \subseteq Transactions
    BY <1>1, <1>5
  <2> QED BY <1>9, <2>1, <2>2, <2>3, <2>4
          DEF TxInv, TxTypeOK, FutureCounted, Shrinks, txThreadVars
<1>11. HeldKnown'
  <2>1. ASSUME NEW s \in RangeOf(m_current') \cup m_future' PROVE s \in m_known'
    <3>1. s \in Held /\ s \in m_known
      BY <1>1, <1>9 DEF Shrinks
    <3>2. CASE s # t
      BY <1>5, <3>1, <3>2
    <3>3. CASE s = t
      <4>1. t \notin RangeOf(made.current)
        BY <1>5, <1>8, <2>1, <3>1, <3>3
      <4> QED BY <1>5, <3>1, <3>3, <4>1
    <3> QED BY <3>2, <3>3
  <2> QED BY <2>1 DEF HeldKnown, Held, Current
<1> QED BY <1>6, <1>7, <1>9, <1>10, <1>11, ShrinksKeeps DEF TxInv

LEMMA SetFutureStep ==
    ASSUME TxInv, NEW t \in Transactions, SetFuture(t)
    PROVE  TxInv' /\ Shrinks /\ RangeOf(m_current') \subseteq Current
<1> DEFINE X == FromNonceOn(t)
<1>1. /\ m_current \in Seq(Transactions) /\ m_future \in SUBSET Transactions
      /\ m_known \in SUBSET Transactions /\ Held \subseteq m_known
      /\ m_futureSize = Cardinality(m_future)
      /\ Distinct(m_current) /\ Current \cap m_future = {}
  BY DEF TxInv, TxTypeOK, HeldKnown, FutureCounted, OnePerNonce
<1>2. X \in SUBSET Current /\ X \in SUBSET Transactions
  BY HeldTypes DEF FromNonceOn, TxInv
<1> HIDE DEF X
<1>3. /\ m_current' = Without(m_current, X) /\ m_future' = m_future \cup X
      /\ m_futureSize' = m_futureSize + Cardinality(X)
      /\ UNCHANGED <<m_known, m_dropped, txThreadVars, txFlagVars>>
  BY DEF SetFuture, CountFuture, X
<1>4. /\ m_current' \in Seq(Transactions) /\ RangeOf(m_current') = Current \ X
      /\ Distinct(m_current')
  BY <1>1, <1>3, WithoutProperties DEF Current
<1>5. m_futureSize' = Cardinality(m_future') /\ m_futureSize' \in Nat
  <2>1. /\ IsFiniteSet(m_future) /\ Cardinality(m_future) \in Nat
        /\ IsFiniteSet(X) /\ Cardinality(X) \in Nat
    BY <1>1, <1>2, TransactionSets
  <2>2. Cardinality(m_future \cup X)
           = Cardinality(m_future) + Cardinality(X) - Cardinality(m_future \cap X)
    BY <2>1, FS_Union
  <2>3. m_future \cap X = {}
    BY <1>1, <1>2
  <2>4. Cardinality(m_future \cap X) = 0
    BY <2>3, FS_EmptySet
  <2> QED BY <1>1, <1>3, <2>1, <2>2, <2>4
<1>6. Shrinks
  BY <1>1, <1>2, <1>3, <1>4 DEF Shrinks, Held
<1>7. TxTypeOK' /\ FutureCounted'
  BY <1>1, <1>3, <1>5, <1>6 DEF TxInv, TxTypeOK, FutureCounted, Shrinks, txThreadVars, txFlagVars
<1>8. HeldKnown'
  <2>1. RangeOf(m_current') \cup m_future' \subseteq m_known'
    BY <1>1, <1>3, <1>6 DEF Shrinks
  <2> QED BY <2>1 DEF HeldKnown, Held, Current
<1> QED BY <1>4, <1>6, <1>7, <1>8, ShrinksKeeps DEF TxInv

LEMMA ClearStep ==
    ASSUME TxInv, ClearTransactions
    PROVE  TxInv' /\ Shrinks /\ RangeOf(m_current') = {}
<1>1. /\ m_known' = {} /\ m_dropped' = {} /\ m_current' = <<>> /\ m_future' = {} /\ m_futureSize' = 0
      /\ UNCHANGED <<txThreadVars, txFlagVars>>
  BY DEF ClearTransactions
<1>2. /\ <<>> \in Seq(Transactions) /\ Len(<<>>) = 0 /\ RangeOf(<<>>) = {} /\ Distinct(<<>>)
      /\ Cardinality({}) = 0
  BY FS_EmptySet DEF RangeOf, Distinct
<1>3. Shrinks
  BY <1>1, <1>2 DEF Shrinks
<1>4. TxTypeOK'
  BY <1>1, <1>2 DEF TxInv, TxTypeOK, txThreadVars, txFlagVars
<1>5. FutureCounted' /\ HeldKnown'
  BY <1>1, <1>2 DEF FutureCounted, HeldKnown, Held, Current
<1> QED BY <1>1, <1>2, <1>3, <1>4, <1>5, ShrinksKeeps DEF TxInv

\* Steps that leave the two maps alone.
LEMMA ThreadStep ==
    ASSUME TxInv, UNCHANGED txSetVars,
           m_unverified' \in Seq(Transactions),
           txWork' \in [TxVerifiers -> Transactions \cup {NoTx}],
           m_syncTransactionQueue' \in BOOLEAN, m_needStateReset' \in BOOLEAN
    PROVE  TxInv' /\ RangeOf(m_current') = Current /\ m_future' = m_future
<1>1. UNCHANGED <<m_known, m_dropped, m_current, m_future, m_futureSize>>
  BY DEF txSetVars
<1>2. TxTypeOK'
  BY <1>1 DEF TxInv, TxTypeOK
<1>3. OnePerNonce' /\ FutureCounted' /\ HeldKnown' /\ HeldBounded'
  BY <1>1 DEF TxInv, OnePerNonce, FutureCounted, HeldKnown, HeldBounded, Held, Current, SameSlot
<1> QED BY <1>1, <1>2, <1>3 DEF TxInv, Current

\* Every step is an import, keeps some of what is held, or leaves it alone.
Imports == \E t \in Transactions : \E retry \in BOOLEAN : Import(t, retry)
SameHeld == RangeOf(m_current') = Current /\ m_future' = m_future

LEMMA EveryStep ==
    ASSUME TxInv, [TxNext]_txQueueVars
    PROVE  /\ TxInv'
           /\ \/ Imports
              \/ \E t \in Transactions : DropGood(t)
              \/ Shrinks /\ RangeOf(m_current') \subseteq Current
              \/ SameHeld
<1>1. /\ m_unverified \in Seq(Transactions)
      /\ txWork \in [TxVerifiers -> Transactions \cup {NoTx}]
      /\ m_syncTransactionQueue \in BOOLEAN /\ m_needStateReset \in BOOLEAN
  BY DEF TxInv, TxTypeOK
<1>2. ASSUME NEW t \in Transactions, NEW retry \in BOOLEAN, Import(t, retry), UNCHANGED txThreadVars
      PROVE  TxInv' /\ Imports
  BY <1>1, <1>2, ImportKeeps DEF txThreadVars, Imports
<1>3. ASSUME NEW t \in Transactions, Drop(t)
      PROVE  TxInv' /\ Shrinks /\ RangeOf(m_current') \subseteq Current
  <2>1. TxInv' /\ Shrinks
    BY <1>3, DropStep
  <2>2. RangeOf(m_current') = RangeOf(m_current) \ {t}
    <3>1. m_current \in Seq(Transactions)
      BY DEF TxInv, TxTypeOK
    <3> QED BY <1>3, <3>1, RemoveProperties DEF Drop
  <2> QED BY <2>1, <2>2 DEF Current
<1>4. ASSUME NEW t \in FromPeers, Enqueue(t)
      PROVE  TxInv' /\ SameHeld
  <2>1. t \in Transactions
    BY TransactionAssumption
  <2>2. m_unverified' \in Seq(Transactions)
    BY <1>1, <1>4, <2>1, AppendRange DEF Enqueue
  <2> QED BY <1>1, <1>4, <2>2, ThreadStep DEF Enqueue, txFlagVars, SameHeld
<1>5. ASSUME NEW v \in TxVerifiers, TakeUnverified(v)
      PROVE  TxInv' /\ SameHeld
  <2>1. Head(m_unverified) \in Transactions /\ Tail(m_unverified) \in Seq(Transactions)
    BY <1>1, <1>5, HeadTailRange DEF TakeUnverified
  <2> QED BY <1>1, <1>5, <2>1, ThreadStep DEF TakeUnverified, txFlagVars, SameHeld
<1>6. ASSUME NEW v \in TxVerifiers, ImportTaken(v)
      PROVE  TxInv' /\ (Imports \/ SameHeld)
  <2>1. txWork[v] \in Transactions /\ UNCHANGED m_unverified
    BY <1>1, <1>6 DEF ImportTaken
  <2>2. txWork' \in [TxVerifiers -> Transactions \cup {NoTx}]
    BY <1>1, <1>6 DEF ImportTaken
  <2>3. CASE Import(txWork[v], FALSE)
    BY <1>1, <2>1, <2>2, <2>3, ImportKeeps DEF Imports
  <2>4. CASE UNCHANGED <<txSetVars, txFlagVars>>
    BY <1>1, <2>1, <2>2, <2>4, ThreadStep DEF txFlagVars, SameHeld
  <2> QED BY <1>6, <2>3, <2>4 DEF ImportTaken
<1>7. CASE UNCHANGED txQueueVars
  BY <1>1, <1>7, ThreadStep DEF txQueueVars, txThreadVars, txFlagVars, SameHeld
<1>8. ASSUME NEW t \in Transactions, DropGood(t)
      PROVE  TxInv' /\ \E u \in Transactions : DropGood(u)
  BY <1>8, DropGoodStep
<1>9. ASSUME NEW t \in Transactions, SetFuture(t)
      PROVE  TxInv' /\ Shrinks /\ RangeOf(m_current') \subseteq Current
  BY <1>9, SetFutureStep
<1>10. CASE ClearTransactions
  BY <1>10, ClearStep
<1> QED BY <1>2, <1>3, <1>4, <1>5, <1>6, <1>7, <1>8, <1>9, <1>10 DEF TxNext

LEMMA TxInitInv ==
    ASSUME TxInit
    PROVE  TxInv
<1>1. /\ <<>> \in Seq(Transactions) /\ Len(<<>>) = 0 /\ RangeOf(<<>>) = {} /\ Distinct(<<>>)
      /\ Cardinality({}) = 0
  BY FS_EmptySet DEF RangeOf, Distinct
<1>2. TxTypeOK
  BY <1>1 DEF TxInit, TxQueueInit, TxTypeOK
<1>3. /\ m_known = {} /\ m_current = <<>> /\ m_future = {} /\ m_futureSize = 0
  BY DEF TxInit, TxQueueInit
<1>4. OnePerNonce /\ FutureCounted /\ HeldKnown
  BY <1>1, <1>3 DEF OnePerNonce, FutureCounted, HeldKnown, Held, Current
<1>5. HeldBounded
  BY <1>1, <1>3, LimitAssumption DEF HeldBounded
<1> QED BY <1>2, <1>4, <1>5 DEF TxInv

LEMMA Inductive == TxSpec => []TxInv
<1>1. TxInit => TxInv
  BY TxInitInv
<1>2. TxInv /\ [TxNext]_txQueueVars => TxInv'
  BY EveryStep
<1> QED BY <1>1, <1>2, PTL DEF TxSpec

-----------------------------------------------------------------------------
(***************************************************************************)
(* Theorems.                                                               *)
(***************************************************************************)
\* The queue keeps its type, and m_futureSize, an unsigned counter, never goes
\* below zero.
THEOREM TypeCorrect == TxSpec => []TxTypeOK
<1>1. TxInv => TxTypeOK
  BY DEF TxInv
<1> QED BY <1>1, Inductive, PTL

\* One transaction per account and nonce, in m_current and m_future together.
THEOREM OneTransactionPerNonce == TxSpec => []OnePerNonce
<1>1. TxInv => OnePerNonce
  BY DEF TxInv
<1> QED BY <1>1, Inductive, PTL

\* m_futureSize counts m_future, although import, makeCurrent_WITH_LOCK,
\* setFuture and clear keep it by hand.
THEOREM FutureIsCounted == TxSpec => []FutureCounted
<1>1. TxInv => FutureCounted
  BY DEF TxInv
<1> QED BY <1>1, Inductive, PTL

\* What the queue holds it knows, so that import() refuses it a second time.
THEOREM HeldIsKnown == TxSpec => []HeldKnown
<1>1. TxInv => HeldKnown
  BY DEF TxInv
<1> QED BY <1>1, Inductive, PTL

\* The two limits bound the queue as a whole.
THEOREM HeldIsBounded == TxSpec => []HeldBounded
<1>1. TxInv => HeldBounded
  BY DEF TxInv
<1> QED BY <1>1, Inductive, PTL

\* A transaction that becomes current leaves no future one right behind it:
\* import and dropGood bring all followers along (makeCurrent_WITH_LOCK).
THEOREM FollowersReleased == TxSpec => ReleasedTogether
<1>1. ASSUME TxInv, [TxNext]_txQueueVars
      PROVE  \A t \in Current' \ Current : OnlyNext(m_future', t) = {}
  <2> SUFFICES ASSUME NEW x \in RangeOf(m_current') \ Current, NEW f \in OnlyNext(m_future', x)
               PROVE  FALSE
    BY DEF Current
  <2>1. ASSUME NEW t \in Transactions, NEW F \in SUBSET Transactions,
               m_future' \in SUBSET (F \ Followers(F, t)), x \in Followers(F, t) \cup {t}
        PROVE  FALSE
    <3>1. f \in OnlyNext(F, x) /\ f \in m_future'
      BY <2>1 DEF OnlyNext
    <3>2. f \in Followers(F, t)
      BY <2>1, <3>1, FollowersComplete
    <3> QED BY <2>1, <3>1, <3>2
  <2>2. m_future \in SUBSET Transactions
    BY <1>1, HeldTypes DEF TxInv
  <2>3. CASE Imports
    <3> PICK t \in Transactions, retry \in BOOLEAN : Import(t, retry)
      BY <2>3 DEF Imports
    <3> DEFINE F == m_future \ PriorFuture(t)
    <3>1. /\ m_future' \in SUBSET (F \ Followers(F, t))
          /\ RangeOf(m_current') \subseteq (Current \ PriorCurrent(t)) \cup {t} \cup Followers(F, t)
      <4> HIDE DEF F
      <4> QED BY <1>1, ImportStep DEF F
    <3>2. F \in SUBSET Transactions
      BY <2>2
    <3> HIDE DEF F
    <3>3. x \in Followers(F, t) \cup {t}
      BY <3>1
    <3> QED BY <2>1, <3>1, <3>2, <3>3
  <2>4. CASE \E t \in Transactions : DropGood(t)
    <3> PICK t \in Transactions : DropGood(t)
      BY <2>4
    <3>1. /\ RangeOf(m_current') \subseteq Current \cup Followers(m_future, t)
          /\ m_future' \in SUBSET (m_future \ Followers(m_future, t))
      BY <1>1, DropGoodStep
    <3>2. x \in Followers(m_future, t) \cup {t}
      BY <3>1
    <3> QED BY <2>1, <2>2, <3>1, <3>2
  <2>5. CASE RangeOf(m_current') \subseteq Current
    BY <2>5
  <2> QED BY <1>1, <2>3, <2>4, <2>5, EveryStep DEF SameHeld
<1> QED BY <1>1, Inductive, PTL DEF TxSpec, ReleasedTogether

\* The bid for an account and nonce never goes down while it is held.
THEOREM BidsNeverFall == TxSpec => NeverUnderbid
<1>1. ASSUME TxInv, [TxNext]_txQueueVars
      PROVE  \A s \in Held, t \in Held' : SameSlot(s, t) => GasPrice[s] <= GasPrice[t]
  <2> SUFFICES ASSUME NEW s \in Held, NEW t \in RangeOf(m_current') \cup m_future', SameSlot(s, t)
               PROVE  GasPrice[s] <= GasPrice[t]
    BY DEF Held, Current, SameSlot
  <2>1. s \in Transactions /\ GasPrice[s] \in Nat
    BY <1>1, HeldTypes, TransactionAssumption DEF TxInv
  <2>2. CASE t \in Held
    <3>1. s = t
      BY <1>1, <2>2 DEF TxInv, OnePerNonce
    <3> QED BY <2>1, <3>1
  <2>3. CASE Imports
    <3> PICK u \in Transactions, retry \in BOOLEAN : Import(u, retry)
      BY <2>3 DEF Imports
    <3>1. t = u \/ t \in Held
      BY <1>1, ImportHeld
    <3>2. CASE t = u
      BY <3>2 DEF Import, NotOverbid
    <3> QED BY <2>2, <3>1, <3>2
  <2>4. CASE \E u \in Transactions : DropGood(u)
    BY <1>1, <2>2, <2>4, DropGoodStep DEF Shrinks
  <2>5. CASE Shrinks \/ SameHeld
    BY <2>2, <2>5 DEF Shrinks, SameHeld, Held
  <2> QED BY <1>1, <2>3, <2>4, <2>5, EveryStep
<1> QED BY <1>1, Inductive, PTL DEF TxSpec, NeverUnderbid

-----------------------------------------------------------------------------
(***************************************************************************)
(* With the client thread.  The inductive invariant is the queue's own,    *)
(* the type of the client's state, and that a transaction it is about to   *)
(* give back is one of ts.                                                 *)
(***************************************************************************)
SyncTypeOK ==
    /\ chainNonce \in [Accounts -> Nat]
    /\ working \in Seq(Transactions) /\ postSeal \in Seq(Transactions)
    /\ ts \in Seq(Transactions) /\ resubmit \in Seq(Transactions)
    /\ pos \in Nat \ {0} /\ more \in BOOLEAN

AtMember ==
    /\ txClient \in {"drop", "setFuture"} => pos \in DOMAIN ts
    /\ txClient = "dropGood" => 1 \in DOMAIN ts

SyncInv == TxInv /\ SyncTypeOK /\ AtMember /\ WorkingConsecutive

\* The queue's part is kept by what only changes the client's flags.
LEMMA FlagStep ==
    ASSUME TxInv, UNCHANGED <<txSetVars, txThreadVars>>,
           m_syncTransactionQueue' \in BOOLEAN, m_needStateReset' \in BOOLEAN
    PROVE  TxInv'
<1>1. /\ m_unverified' \in Seq(Transactions)
      /\ txWork' \in [TxVerifiers -> Transactions \cup {NoTx}]
  BY DEF txThreadVars, TxInv, TxTypeOK
<1> QED BY <1>1, ThreadStep

LEMMA FlagTypes ==
    ASSUME TxInv
    PROVE  m_syncTransactionQueue \in BOOLEAN /\ m_needStateReset \in BOOLEAN
BY DEF TxInv, TxTypeOK

\* Every step of the client and of those who submit keeps the invariant of the
\* queue.
LEMMA QueueKept ==
    ASSUME TxInv, SyncTypeOK, AtMember, [Next]_vars
    PROVE  TxInv'
<1>1. UNCHANGED txQueueVars => TxInv'
  BY EveryStep
<1>2. TxNext => TxInv'
  BY EveryStep
<1>3. ASSUME NEW t \in Transactions, Submit(t) PROVE TxInv'
  BY <1>2, <1>3 DEF Submit, TxNext
<1>4. ASSUME NEW t \in FromPeers, FromPeer(t) PROVE TxInv'
  BY <1>2, <1>4 DEF FromPeer, TxNext
<1>5. ASSUME NEW v \in TxVerifiers, TxVerifier(v) PROVE TxInv'
  BY <1>2, <1>5 DEF TxVerifier, TxNext
<1>6. CASE GiveBack
  <2>1. ts[pos] \in Transactions
    BY <1>6 DEF GiveBack, AtMember, SyncTypeOK
  <2>2. Drop(ts[pos]) => TxInv'
    BY <1>2, <2>1 DEF TxNext
  <2>3. SetFuture(ts[pos]) => TxInv'
    BY <1>2, <2>1 DEF TxNext
  <2> QED BY <1>1, <1>6, <2>2, <2>3 DEF GiveBack
<1>7. CASE ChainDropGood
  <2>1. ts[1] \in Transactions
    BY <1>7 DEF ChainDropGood, AtMember, SyncTypeOK
  <2> QED BY <1>2, <1>7, <2>1 DEF ChainDropGood, TxNext
<1>8. CASE Resubmit
  <2>1. Head(resubmit) \in Transactions
    BY <1>8, HeadTailRange DEF Resubmit, SyncTypeOK
  <2>2. CASE Import(Head(resubmit), TRUE) /\ UNCHANGED txThreadVars
    BY <1>2, <2>1, <2>2 DEF TxNext
  <2>3. CASE /\ m_syncTransactionQueue' = TRUE
             /\ UNCHANGED <<txSetVars, txThreadVars, m_needStateReset>>
    BY <2>3, FlagStep, FlagTypes
  <2> QED BY <1>8, <2>2, <2>3 DEF Resubmit
<1>9. CASE ResetState \/ ResetDone \/ StartTxSync \/ ResubmitDone
  BY <1>9, FlagStep, FlagTypes DEF ResetState, ResetDone, StartTxSync, ResubmitDone
<1>10. CASE AssignTxFlag
  BY <1>10, FlagStep, FlagTypes DEF AssignTxFlag, SyncTypeOK
<1>11. CASE TopTransactions \/ ExecuteNext \/ EndPass \/ ResyncState
              \/ (\E t \in Transactions : ChainAdvance(t)) \/ UNCHANGED vars
  BY <1>1, <1>11 DEF TopTransactions, ExecuteNext, EndPass, ResyncState, ChainAdvance, vars
<1> QED BY <1>3, <1>4, <1>5, <1>6, <1>7, <1>8, <1>9, <1>10, <1>11 DEF Next, ClientStep

\* The client keeps its types, and looks only at members of ts.
LEMMA ClientKept ==
    ASSUME TxInv, SyncTypeOK, AtMember, [Next]_vars
    PROVE  SyncTypeOK' /\ AtMember'
<1> USE DEF SyncTypeOK, AtMember
<1>1. CASE UNCHANGED clientVars
  BY <1>1 DEF clientVars, blockVars, syncVars
<1>2. CASE UNCHANGED vars \/ \E t \in Transactions : Submit(t)
  BY <1>1, <1>2 DEF vars, Submit
<1>3. CASE (\E t \in FromPeers : FromPeer(t)) \/ (\E v \in TxVerifiers : TxVerifier(v))
  BY <1>1, <1>3 DEF FromPeer, TxVerifier
<1>4. ASSUME NEW t \in Transactions, ChainAdvance(t)
      PROVE  SyncTypeOK' /\ AtMember'
  <2>1. chainNonce' \in [Accounts -> Nat]
    BY <1>4, TransactionAssumption DEF ChainAdvance
  <2>2. ts' \in Seq(Transactions) /\ 1 \in DOMAIN ts'
    BY <1>4 DEF ChainAdvance
  <2> QED BY <1>4, <2>1, <2>2 DEF ChainAdvance
<1>5. CASE ResetState \/ ResetDone \/ StartTxSync
  <2>1. <<>> \in Seq(Transactions)
    OBVIOUS
  <2> QED BY <1>5, <2>1 DEF ResetState, ResetDone, StartTxSync, NewWorking, blockVars, syncVars
<1>6. CASE TopTransactions
  <2> DEFINE wanted == Without(m_current, RangeOf(working))
             n == IF Len(wanted) < MaxSyncTransactions THEN Len(wanted) ELSE MaxSyncTransactions
  <2>1. wanted \in Seq(Transactions)
    BY WithoutProperties DEF TxInv, TxTypeOK
  <2> HIDE DEF wanted
  <2>2. n \in 0..Len(wanted)
    BY <2>1, TxSyncAssumption
  <2> HIDE DEF n
  <2>3. SubSeq(wanted, 1, n) \in Seq(Transactions)
    BY <2>1, <2>2, CutProperties
  <2>4. /\ ts' = SubSeq(wanted, 1, n) /\ more' \in BOOLEAN /\ txClient' \in {"assign", "execute"}
        /\ pos' = 1 /\ UNCHANGED <<chainNonce, working, postSeal, resubmit>>
    BY <1>6 DEF TopTransactions, blockVars, wanted, n
  <2> QED BY <2>3, <2>4
<1>7. CASE ExecuteNext
  <2>1. pos \in DOMAIN ts /\ ts[pos] \in Transactions
    BY <1>7 DEF ExecuteNext
  <2>2. Append(working, ts[pos]) \in Seq(Transactions)
    BY <2>1, AppendRange
  <2>3. /\ UNCHANGED <<chainNonce, postSeal, ts, more, resubmit>>
        /\ \/ working' \in {working, Append(working, ts[pos])} /\ pos' = pos + 1 /\ UNCHANGED txClient
           \/ txClient' \in {"drop", "setFuture"} /\ UNCHANGED <<working, pos>>
    BY <1>7 DEF ExecuteNext
  <2>4. txClient = "execute"
    BY <1>7 DEF ExecuteNext
  <2>5. SyncTypeOK'
    <3>1. pos' \in Nat \ {0}
      BY <2>3
    <3>2. working' \in Seq(Transactions)
      BY <2>2, <2>3
    <3> QED BY <2>3, <3>1, <3>2
  <2>6. AtMember'
    BY <2>1, <2>3, <2>4
  <2> QED BY <2>5, <2>6
<1>8. CASE GiveBack \/ EndPass
  <2>1. /\ UNCHANGED <<chainNonce, working, postSeal, ts, resubmit>>
        /\ pos' \in {pos, pos + 1, 1} /\ txClient' \in {"execute", "assign"}
    BY <1>8 DEF GiveBack, EndPass, blockVars
  <2>2. more' \in BOOLEAN
    BY <1>8 DEF GiveBack, EndPass
  <2>3. pos' \in Nat \ {0}
    BY <2>1
  <2> QED BY <2>1, <2>2, <2>3
<1>9. CASE AssignTxFlag \/ ChainDropGood
  <2>1. <<>> \in Seq(Transactions)
    OBVIOUS
  <2>2. /\ UNCHANGED <<chainNonce, working, resubmit>> /\ ts' = <<>> /\ pos' \in {pos, 1}
        /\ postSeal' \in {postSeal, working} /\ txClient' \in {"idle", "resync"}
    BY <1>9 DEF AssignTxFlag, ChainDropGood, blockVars
  <2>3. more' \in BOOLEAN
    BY <1>9 DEF AssignTxFlag, ChainDropGood
  <2>4. pos' \in Nat \ {0} /\ postSeal' \in Seq(Transactions)
    BY <2>2
  <2> QED BY <2>1, <2>2, <2>3, <2>4
<1>10. CASE ResyncState \/ ResubmitDone
  <2>1. <<>> \in Seq(Transactions)
    OBVIOUS
  <2> QED BY <1>10, <2>1 DEF ResyncState, ResubmitDone, blockVars, syncVars
<1>11. CASE Resubmit
  <2>1. Tail(resubmit) \in Seq(Transactions)
    BY <1>11, HeadTailRange DEF Resubmit
  <2> QED BY <1>11, <2>1 DEF Resubmit, blockVars
<1> QED BY <1>2, <1>3, <1>4, <1>5, <1>6, <1>7, <1>8, <1>9, <1>10, <1>11 DEF Next, ClientStep

\* A transaction executed at the end of the working block has the nonce that
\* follows those of its account before it.
LEMMA ExecutedFits ==
    ASSUME SyncInv, ExecuteNext
    PROVE  WorkingConsecutive'
<1> DEFINE t == ts[pos]
           n == Len(working)
<1>1. /\ working \in Seq(Transactions) /\ n \in Nat /\ DOMAIN working = 1..n
      /\ t \in Transactions /\ UNCHANGED chainNonce /\ txClient = "execute"
  BY DEF SyncInv, SyncTypeOK, ExecuteNext
<1>2. \A i \in DOMAIN working :
          Nonce[working[i]] = chainNonce[Account[working[i]]]
              + Cardinality({j \in OnWorking(Account[working[i]]) : j < i})
  BY <1>1 DEF SyncInv, WorkingConsecutive
<1>3. CASE UNCHANGED working
  BY <1>1, <1>2, <1>3 DEF WorkingConsecutive, OnWorking
<1>4. CASE working' = Append(working, t) /\ Executes(t)
  <2>1. DOMAIN working' = 1..(n + 1) /\ (\A i \in 1..n : working'[i] = working[i]) /\ working'[n + 1] = t
    BY <1>1, <1>4
  <2> DEFINE Earlier(a, i) == {j \in {k \in DOMAIN working' : Account[working'[k]] = a} : j < i}
  <2>2. ASSUME NEW a, NEW i \in 1..(n + 1)
        PROVE  Earlier(a, i) = {j \in OnWorking(a) : j < i}
    <3>1. OnWorking(a) = {j \in 1..n : Account[working[j]] = a}
      BY <1>1 DEF OnWorking
    <3>2. \A j \in 1..(n + 1) : j < i => j \in 1..n
      BY <1>1
    <3>3. \A j \in 1..n : j \in 1..(n + 1)
      BY <1>1
    <3> QED BY <2>1, <3>1, <3>2, <3>3
  <2>3. {j \in OnWorking(Account[t]) : j < n + 1} = OnWorking(Account[t])
    <3>1. \A j \in 1..n : j < n + 1
      BY <1>1
    <3> QED BY <1>1, <3>1 DEF OnWorking
  <2>4. Nonce[t] = chainNonce[Account[t]] + Cardinality(OnWorking(Account[t]))
    BY <1>4 DEF Executes, RightNonce, RequiredNonce
  <2> HIDE DEF Earlier
  <2>5. ASSUME NEW i \in 1..(n + 1)
        PROVE  Nonce[working'[i]] = chainNonce[Account[working'[i]]]
                  + Cardinality(Earlier(Account[working'[i]], i))
    <3>1. CASE i = n + 1
      <4>1. working'[i] = t /\ Earlier(Account[t], i) = OnWorking(Account[t])
        BY <2>1, <2>2, <2>3, <3>1
      <4> QED BY <2>4, <4>1, Zenon
    <3>2. CASE i # n + 1
      <4>1. i \in 1..n
        BY <1>1, <3>2
      <4>2. working'[i] = working[i]
        BY <2>1, <4>1
      <4>3. Earlier(Account[working[i]], i) = {j \in OnWorking(Account[working[i]]) : j < i}
        BY <2>2
      <4>4. Nonce[working[i]] = chainNonce[Account[working[i]]]
                + Cardinality({j \in OnWorking(Account[working[i]]) : j < i})
        BY <1>1, <1>2, <4>1, Zenon
      <4> QED BY <4>2, <4>3, <4>4, Zenon
    <3> QED BY <3>1, <3>2
  <2> QED BY <1>1, <2>1, <2>5 DEF WorkingConsecutive, OnWorking, Earlier
<1> QED BY <1>3, <1>4 DEF ExecuteNext

LEMMA ConsecutiveKept ==
    ASSUME SyncInv, [Next]_vars
    PROVE  WorkingConsecutive'
<1>1. <<>> \in Seq(Transactions) /\ DOMAIN <<>> = {}
  OBVIOUS
<1>2. CASE working' = <<>>
  BY <1>1, <1>2 DEF WorkingConsecutive
<1>3. ASSUME UNCHANGED <<working, chainNonce>>, txClient' \notin {"dropGood", "resync"} =>
                                                txClient \notin {"dropGood", "resync"}
      PROVE  WorkingConsecutive'
  BY <1>3 DEF SyncInv, WorkingConsecutive, OnWorking
<1>4. CASE UNCHANGED clientVars
  BY <1>3, <1>4 DEF clientVars, blockVars
<1>5. CASE UNCHANGED vars \/ \E t \in Transactions : Submit(t)
  BY <1>4, <1>5 DEF vars, Submit
<1>6. CASE (\E t \in FromPeers : FromPeer(t)) \/ (\E v \in TxVerifiers : TxVerifier(v))
  BY <1>4, <1>6 DEF FromPeer, TxVerifier
<1>7. ASSUME NEW t \in Transactions, ChainAdvance(t)
      PROVE  WorkingConsecutive'
  BY <1>7 DEF ChainAdvance, WorkingConsecutive
<1>8. CASE ResetState \/ ResyncState
  BY <1>2, <1>8 DEF ResetState, ResyncState, NewWorking
<1>9. CASE ChainDropGood
  BY <1>9 DEF ChainDropGood, WorkingConsecutive
<1>10. CASE ExecuteNext
  BY <1>10, ExecutedFits
<1>11. CASE ResetDone \/ StartTxSync \/ TopTransactions \/ GiveBack
  BY <1>3, <1>11 DEF ResetDone, StartTxSync, TopTransactions, GiveBack, blockVars
<1>12. CASE EndPass \/ AssignTxFlag \/ Resubmit \/ ResubmitDone
  BY <1>3, <1>12 DEF EndPass, AssignTxFlag, Resubmit, ResubmitDone, blockVars
<1> QED BY <1>5, <1>6, <1>7, <1>8, <1>9, <1>10, <1>11, <1>12 DEF Next, ClientStep

LEMMA SyncInductive == Spec => []SyncInv
<1>1. Init => SyncInv
  <2> SUFFICES ASSUME Init PROVE SyncInv
    OBVIOUS
  <2>1. TxInv
    BY TxInitInv DEF Init, TxInit
  <2>2. <<>> \in Seq(Transactions) /\ DOMAIN <<>> = {}
    OBVIOUS
  <2>3. SyncTypeOK
    <3>1. chainNonce \in [Accounts -> Nat] /\ pos \in Nat \ {0}
      BY DEF Init
    <3>2. more \in BOOLEAN
      BY DEF Init
    <3> QED BY <2>2, <3>1, <3>2 DEF Init, SyncTypeOK
  <2>4. AtMember /\ WorkingConsecutive
    BY <2>2 DEF Init, AtMember, WorkingConsecutive
  <2> QED BY <2>1, <2>3, <2>4 DEF SyncInv
<1>2. SyncInv /\ [Next]_vars => SyncInv'
  BY QueueKept, ClientKept, ConsecutiveKept DEF SyncInv
<1> QED BY <1>1, <1>2, PTL DEF Spec

-----------------------------------------------------------------------------
(***************************************************************************)
(* Theorems.                                                               *)
(***************************************************************************)
\* The working block spends the nonces of each account one after the other,
\* from the one the chain expects (Block::sync, Client::onChainChanged).
THEOREM WorkingIsConsecutive == Spec => []WorkingConsecutive
<1>1. SyncInv => WorkingConsecutive
  BY DEF SyncInv
<1> QED BY <1>1, SyncInductive, PTL

\* Used by the client thread, by peers and by the API at once, the queue keeps
\* what TransactionQueueProofs shows of it alone: one transaction per nonce,
\* m_futureSize right, everything held known, and the limits kept.
THEOREM QueueStaysSound ==
    Spec => [](OnePerNonce /\ FutureCounted /\ HeldKnown /\ HeldBounded)
<1>1. SyncInv => OnePerNonce /\ FutureCounted /\ HeldKnown /\ HeldBounded
  BY DEF SyncInv, TxInv
<1> QED BY <1>1, SyncInductive, PTL
===============================================================================
